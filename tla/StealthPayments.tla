--------------------------- MODULE StealthPayments ---------------------------
(***************************************************************************)
(* The stealth-payment instructions of the stealth program: the            *)
(* StealthRegistry of meta-addresses and its view keys (register.rs,       *)
(* view_key.rs, state/registry.rs), stealth_send and stealth_send_direct   *)
(* with their StealthAnnouncement PDAs (send.rs, state/announcement.rs),   *)
(* and the blended transfers with the compressed AnnouncementLog           *)
(* (blended_transfer.rs, state/announcement_log.rs).                       *)
(*                                                                         *)
(* Each instruction is one atomic transaction.  A 32-byte key is a model  *)
(* value: Points pass validate_curve_point, BadPoint and ZeroKey do not.   *)
(* SHA-256 commitments are injective tuples.  Amounts are in units of      *)
(* 10^6 lamports (MIN_PAYMENT_LAMPORTS is one unit), which keeps every     *)
(* threshold of amount_to_hint exact.  Senders are assumed to hold enough *)
(* lamports; labels, slots and timestamps are left out.                    *)
(***************************************************************************)
EXTENDS Naturals, Sequences, SequencesExt, TLC

CONSTANTS
    Wallets,        \* signers: registry owners, senders, log authorities, viewers
    Points,         \* 32-byte keys that are valid curve points
    BadPoint,       \* a 32-byte key that fails validate_curve_point
    ZeroKey,        \* [0u8; 32]
    DefaultPubkey,  \* Pubkey::default()
    Addresses,      \* stealth addresses (system accounts) receiving payments
    AmountArgs,     \* payment amounts, in units of 10^6 lamports
    LogIds,         \* log_id arguments of initialize_announcement_log
    MaxEntries      \* AnnouncementLog::DEFAULT_MAX_ENTRIES

\* Sizes of the AnnouncementLog account (announcement_log.rs:51-110).
ENTRY_SIZE == 32 + 32 + 32 + 8 + 1
HEADER_SIZE == 8 + 32 + 8 + 4 + 4 + 1 + 8 + 8 + 1 + 4
LogSpace(n) == HEADER_SIZE + n * ENTRY_SIZE

\* MIN_PAYMENT_LAMPORTS = 1_000_000 (error.rs:5), in units of 10^6 lamports.
MIN_PAYMENT == 1

KeyArgs == Points \cup {BadPoint, ZeroKey}

VARIABLES
    registries,     \* owner -> [scan, spend, view_key, view_key_enabled, view_key_holder]
    announcements,  \* ephemeral key -> [stealth_address, commitment, amount]
    logs,           \* log_id -> [authority, entry_count, max_entries, is_active, entries]
    events,         \* emitted TransferEvents: << [to, amount] >>
    received,       \* stealth address -> lamports paid to it by these instructions
    \* history, not program state
    granted         \* owner -> the holder named by its last set/rotate, or DefaultPubkey

spvars == <<registries, announcements, logs, events, received, granted>>

\* validate_curve_point (crypto/keys.rs:9-27) on the keys the model uses.
ValidCurvePoint(k) == k \in Points

\* compute_commitment (state/announcement.rs:51-69): SHA-256 over the
\* domain and the four keys, injective here.
ComputeCommitment(eph, scan, spend, addr) == <<"commitment", eph, scan, spend, addr>>

\* AnnouncementEntry::amount_to_hint (announcement_log.rs:56-64) on amounts
\* in units of 10^6 lamports.
AmountToHint(x) ==
    CASE x < 100    -> 1
      [] x < 1000   -> 2
      [] x < 10000  -> 3
      [] x < 100000 -> 4
      [] OTHER      -> 5

\* StealthRegistry::has_active_view_key and is_authorized_viewer
\* (state/registry.rs:70-78); verify_view_access (view_key.rs:166-178)
\* succeeds exactly when this holds.
HasActiveViewKey(r) == r.view_key_enabled /\ r.view_key /= ZeroKey
IsAuthorizedViewer(r, v) == HasActiveViewKey(r) /\ r.view_key_holder = v

SPInit ==
    /\ registries = <<>>
    /\ announcements = <<>>
    /\ logs = <<>>
    /\ events = <<>>
    /\ received = [a \in Addresses |-> 0]
    /\ granted = <<>>

\* A slip: register without the validate_curve_point checks.
RegisterUnchecked(o, scan, spend) ==
    /\ o \notin DOMAIN registries
    /\ registries' = (o :> [scan |-> scan, spend |-> spend, view_key |-> ZeroKey,
                            view_key_enabled |-> FALSE,
                            view_key_holder |-> DefaultPubkey]) @@ registries
    /\ granted' = (o :> DefaultPubkey) @@ granted
    /\ UNCHANGED <<announcements, logs, events, received>>

(***************************************************************************)
(* register (register.rs:40-78): both keys valid curve points, `init` of  *)
(* the PDA [stealth_registry, owner]; the view-key fields keep the        *)
(* zeroed defaults of a fresh account.                                     *)
(***************************************************************************)
Register(o, scan, spend) ==
    /\ ValidCurvePoint(scan) /\ ValidCurvePoint(spend)
    /\ o \notin DOMAIN registries
    /\ registries' = (o :> [scan |-> scan, spend |-> spend, view_key |-> ZeroKey,
                            view_key_enabled |-> FALSE,
                            view_key_holder |-> DefaultPubkey]) @@ registries
    /\ granted' = (o :> DefaultPubkey) @@ granted
    /\ UNCHANGED <<announcements, logs, events, received>>

\* update_registry (register.rs:80-118): the owner's PDA (has_one = owner),
\* both keys valid; the view-key fields are left alone.
UpdateRegistry(o, scan, spend) ==
    /\ o \in DOMAIN registries
    /\ ValidCurvePoint(scan) /\ ValidCurvePoint(spend)
    /\ registries' = [registries EXCEPT ![o].scan = scan, ![o].spend = spend]
    /\ UNCHANGED <<announcements, logs, events, received, granted>>

\* set_view_key (view_key.rs:23-72): the owner's registry; a non-zero key
\* and a non-default holder; enables the key.
SetViewKey(o, key, holder) ==
    /\ o \in DOMAIN registries
    /\ key /= ZeroKey
    /\ holder /= DefaultPubkey
    /\ registries' = [registries EXCEPT ![o].view_key = key,
                                        ![o].view_key_holder = holder,
                                        ![o].view_key_enabled = TRUE]
    /\ granted' = [granted EXCEPT ![o] = holder]
    /\ UNCHANGED <<announcements, logs, events, received>>

\* toggle_view_key (view_key.rs:81-98): only while a key is set.
ToggleViewKey(o, enabled) ==
    /\ o \in DOMAIN registries
    /\ registries[o].view_key /= ZeroKey
    /\ registries' = [registries EXCEPT ![o].view_key_enabled = enabled]
    /\ UNCHANGED <<announcements, logs, events, received, granted>>

\* A slip: revoke that only disables the key and leaves key and holder.
RevokeViewKeyDisableOnly(o) ==
    /\ o \in DOMAIN registries
    /\ registries' = [registries EXCEPT ![o].view_key_enabled = FALSE]
    /\ granted' = [granted EXCEPT ![o] = DefaultPubkey]
    /\ UNCHANGED <<announcements, logs, events, received>>

\* revoke_view_key (view_key.rs:104-114): clears key and holder, disables.
RevokeViewKey(o) ==
    /\ o \in DOMAIN registries
    /\ registries' = [registries EXCEPT ![o].view_key = ZeroKey,
                                        ![o].view_key_holder = DefaultPubkey,
                                        ![o].view_key_enabled = FALSE]
    /\ granted' = [granted EXCEPT ![o] = DefaultPubkey]
    /\ UNCHANGED <<announcements, logs, events, received>>

\* rotate_view_key (view_key.rs:120-146): new non-zero key and non-default
\* holder; view_key_enabled is kept as it is.
RotateViewKey(o, key, holder) ==
    /\ o \in DOMAIN registries
    /\ key /= ZeroKey
    /\ holder /= DefaultPubkey
    /\ registries' = [registries EXCEPT ![o].view_key = key,
                                        ![o].view_key_holder = holder]
    /\ granted' = [granted EXCEPT ![o] = holder]
    /\ UNCHANGED <<announcements, logs, events, received>>

\* A slip: the announcement taken with init_if_needed, so a second send
\* with the same ephemeral key overwrites the first record.
StealthSendReinit(reg, eph, addr, amount) ==
    LET c == ComputeCommitment(eph, registries[reg].scan, registries[reg].spend, addr)
    IN  /\ reg \in DOMAIN registries
        /\ ValidCurvePoint(eph)
        /\ amount >= MIN_PAYMENT
        /\ received' = [received EXCEPT ![addr] = @ + amount]
        /\ announcements' = (eph :> [stealth_address |-> addr, commitment |-> c,
                                     amount |-> amount]) @@ announcements
        /\ UNCHANGED <<registries, logs, events, granted>>

(***************************************************************************)
(* stealth_send (send.rs:8-114): a valid ephemeral key, at least          *)
(* MIN_PAYMENT, and a commitment equal to compute_commitment over the     *)
(* keys of the registry account passed in, which may be any owner's: no   *)
(* seeds tie it to a recipient.  The sender's commitment is taken to be   *)
(* the expected one (any other value fails).  Pays the address and       *)
(* `init`s the announcement PDA [announcement, ephemeral_pubkey].          *)
(***************************************************************************)
StealthSend(reg, eph, addr, amount) ==
    LET c == ComputeCommitment(eph, registries[reg].scan, registries[reg].spend, addr)
    IN  /\ reg \in DOMAIN registries
        /\ ValidCurvePoint(eph)
        /\ amount >= MIN_PAYMENT
        /\ eph \notin DOMAIN announcements
        /\ received' = [received EXCEPT ![addr] = @ + amount]
        /\ announcements' = (eph :> [stealth_address |-> addr, commitment |-> c,
                                     amount |-> amount]) @@ announcements
        /\ UNCHANGED <<registries, logs, events, granted>>

\* stealth_send_direct (send.rs:116-233): the meta-address is passed as
\* arguments instead of a registry; all three keys must be valid points.
StealthSendDirect(scan, spend, eph, addr, amount) ==
    /\ ValidCurvePoint(scan) /\ ValidCurvePoint(spend) /\ ValidCurvePoint(eph)
    /\ amount >= MIN_PAYMENT
    /\ eph \notin DOMAIN announcements
    /\ received' = [received EXCEPT ![addr] = @ + amount]
    /\ announcements' = (eph :> [stealth_address |-> addr,
                                 commitment |-> ComputeCommitment(eph, scan, spend, addr),
                                 amount |-> amount]) @@ announcements
    /\ UNCHANGED <<registries, logs, events, granted>>

\* blended_transfer (blended_transfer.rs:83-134): pays any recipient and
\* emits the TransferEvent and StealthPaymentEvent; no account records it.
\* The memo (ephemeral key and commitment) is never checked and is left out.
BlendedTransfer(addr, amount) ==
    /\ amount >= MIN_PAYMENT
    /\ received' = [received EXCEPT ![addr] = @ + amount]
    /\ events' = Append(events, [to |-> addr, amount |-> amount])
    /\ UNCHANGED <<registries, announcements, logs, granted>>

\* A slip: can_add_entry written with <=.
CanAddEntryInclusive(l) == l.is_active /\ l.entry_count <= l.max_entries

\* AnnouncementLog::can_add_entry (announcement_log.rs:117-119), the
\* `constraint` on the log account.
CanAddEntry(l) == l.is_active /\ l.entry_count < l.max_entries

(***************************************************************************)
(* blended_transfer_with_log (blended_transfer.rs:136-226): the log named *)
(* by its [announcement_log, log_id] seeds must accept an entry; pays,     *)
(* pushes the entry, increments entry_count and emits both events.        *)
(***************************************************************************)
BlendedTransferWithLog(id, addr, amount) ==
    /\ id \in DOMAIN logs
    /\ CanAddEntry(logs[id])
    /\ amount >= MIN_PAYMENT
    /\ received' = [received EXCEPT ![addr] = @ + amount]
    /\ logs' = [logs EXCEPT
                  ![id].entries = Append(@, [stealth_address |-> addr,
                                             amount_hint |-> AmountToHint(amount)]),
                  ![id].entry_count = @ + 1]
    /\ events' = Append(events, [to |-> addr, amount |-> amount])
    /\ UNCHANGED <<registries, announcements, granted>>

\* initialize_announcement_log (blended_transfer.rs:228-270): `init` of
\* [announcement_log, log_id] by any signer, who becomes its authority.
InitializeAnnouncementLog(a, id) ==
    /\ id \notin DOMAIN logs
    /\ logs' = (id :> [authority |-> a, entry_count |-> 0, max_entries |-> MaxEntries,
                       is_active |-> TRUE, entries |-> <<>>]) @@ logs
    /\ UNCHANGED <<registries, announcements, events, received, granted>>

\* deactivate_announcement_log (blended_transfer.rs:272-295): the log's
\* authority only.
DeactivateAnnouncementLog(a, id) ==
    /\ id \in DOMAIN logs
    /\ logs[id].authority = a
    /\ logs' = [logs EXCEPT ![id].is_active = FALSE]
    /\ UNCHANGED <<registries, announcements, events, received, granted>>

SPNext ==
    \/ \E o \in Wallets, s, b \in KeyArgs : Register(o, s, b)
    \/ \E o \in Wallets, s, b \in KeyArgs : UpdateRegistry(o, s, b)
    \/ \E o \in Wallets, k \in KeyArgs, h \in Wallets \cup {DefaultPubkey} :
          SetViewKey(o, k, h)
    \/ \E o \in Wallets, e \in BOOLEAN : ToggleViewKey(o, e)
    \/ \E o \in Wallets : RevokeViewKey(o)
    \/ \E o \in Wallets, k \in KeyArgs, h \in Wallets \cup {DefaultPubkey} :
          RotateViewKey(o, k, h)
    \/ \E o \in Wallets, e \in KeyArgs, a \in Addresses, x \in AmountArgs :
          StealthSend(o, e, a, x)
    \/ \E s, b, e \in KeyArgs, a \in Addresses, x \in AmountArgs :
          StealthSendDirect(s, b, e, a, x)
    \/ \E a \in Addresses, x \in AmountArgs : BlendedTransfer(a, x)
    \/ \E id \in LogIds, a \in Addresses, x \in AmountArgs :
          BlendedTransferWithLog(id, a, x)
    \/ \E a \in Wallets, id \in LogIds : InitializeAnnouncementLog(a, id)
    \/ \E a \in Wallets, id \in LogIds : DeactivateAnnouncementLog(a, id)

SPSpec == SPInit /\ [][SPNext]_spvars

-----------------------------------------------------------------------------
(* Properties *)

SPTypeOK ==
    /\ \A o \in DOMAIN registries :
          /\ o \in Wallets
          /\ {registries[o].scan, registries[o].spend} \subseteq Points
          /\ registries[o].view_key \in KeyArgs
          /\ registries[o].view_key_enabled \in BOOLEAN
          /\ registries[o].view_key_holder \in Wallets \cup {DefaultPubkey}
    /\ DOMAIN announcements \subseteq Points
    /\ \A id \in DOMAIN logs : logs[id].entry_count \in Nat
    /\ received \in [Addresses -> Nat]

\* Lamports paid to a stealth address by these instructions, as recorded:
\* the announcements addressed to it and the TransferEvents sent to it.
Announced(a) ==
    MapThenSumSet(LAMBDA e : announcements[e].amount,
                  {e \in DOMAIN announcements : announcements[e].stealth_address = a})
    + FoldSeq(LAMBDA ev, acc : acc + (IF ev.to = a THEN ev.amount ELSE 0), 0, events)

\* A recipient who scans the announcement accounts and the TransferEvents
\* finds every lamport paid to its stealth addresses, each payment once:
\* the `init` of the announcement PDA keyed by the ephemeral key keeps one
\* send from overwriting the record of another.
PaymentsAnnounced == \A a \in Addresses : received[a] = Announced(a)

\* Every AnnouncementLog stays within the space allocated by
\* initialize_announcement_log, so the serialisation at the end of
\* blended_transfer_with_log never fails, and entry_count counts its entries.
LogFitsAccount ==
    \A id \in DOMAIN logs :
        /\ logs[id].entry_count = Len(logs[id].entries)
        /\ HEADER_SIZE + Len(logs[id].entries) * ENTRY_SIZE <= LogSpace(logs[id].max_entries)

\* verify_view_access succeeds only for the holder the owner named in its
\* last set_view_key or rotate_view_key, and for no one after
\* revoke_view_key, whatever toggles, rotations and registry updates follow.
ViewAccessGrantedByOwner ==
    \A o \in DOMAIN registries, v \in Wallets :
        IsAuthorizedViewer(registries[o], v) => v = granted[o]

====
