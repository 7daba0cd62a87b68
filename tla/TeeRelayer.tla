----------------------------- MODULE TeeRelayer -----------------------------
(***************************************************************************)
(* The TEE relayer program (programs/tee-relayer/src/lib.rs): one          *)
(* RelayerState PDA, one EncryptedRequest PDA per submitted request,       *)
(* numbered by request_counter, and one ProcessedMarker PDA per nullifier  *)
(* the TEE pays out.                                                       *)
(*                                                                         *)
(* Each instruction is one atomic transaction.  The RelayerState PDA is    *)
(* program owned, so the program debits it directly; at the end of a      *)
(* transaction the runtime requires every account to keep its rent-exempt *)
(* minimum or hold no lamports, and an account left with no lamports is    *)
(* deleted, after which `init` may create it again.  Lamports can be sent  *)
(* to the PDA's address by anyone at any time (a System Program transfer), *)
(* which is how the operator funds payouts.  The encrypted payload, the    *)
(* timestamps and the bumps are left out; a 32-byte key or nullifier is a  *)
(* model value.                                                            *)
(***************************************************************************)
EXTENDS Naturals, FiniteSets, TLC

CONSTANTS
    Signers,       \* wallets that sign instructions
    Nullifiers,    \* nullifier hashes the TEE passes to process_withdrawal
    TeeKeys,       \* tee_pubkey arguments of set_tee_pubkey
    ZeroKey,       \* [0u8; 32], the tee_pubkey written by initialize
    FeeBpsArgs,    \* fee_bps arguments of initialize and update_settings
    DenomArgs,     \* denomination arguments of process_withdrawal
    AmountArgs,    \* amount arguments of withdraw_fees and of funding transfers
    StateRent,     \* rent-exempt minimum of the RelayerState account
    MaxRequests,   \* bound on request ids
    None           \* an absent Option argument, or an absent account

VARIABLES
    relayer_state,   \* the RelayerState record, or None once deleted / before init
    state_lamports,  \* lamports at the RelayerState address
    requests,        \* request id -> [status]
    markers,         \* nullifiers that have a ProcessedMarker PDA
    \* history, not program state
    payouts          \* set of [request, nullifier, amount, fee] paid out

trvars == <<relayer_state, state_lamports, requests, markers, payouts>>

\* The runtime's rent rule at the end of a transaction.
RentExemptOrClosed(l) == l = 0 \/ l >= StateRent

\* The RelayerState after a debit that leaves l lamports: deleted at zero.
AfterDebit(rs, l) == IF l = 0 THEN None ELSE rs

\* The fee of process_withdrawal: denomination * fee_bps / 10_000 (u128).
RelayFee(denomination, feeBps) == (denomination * feeBps) \div 10000

\* The `request` account of process_withdrawal and mark_failed: the PDA
\* [request, request_id] with its stored bump, so it must already exist.
RequestAccount(id) == id \in DOMAIN requests

TRInit ==
    /\ relayer_state = None
    /\ state_lamports = 0
    /\ requests = <<>>
    /\ markers = {}
    /\ payouts = {}

(***************************************************************************)
(* initialize (lib.rs:61-78): `init` of the PDA [relayer_state] by any     *)
(* signer, who becomes the authority.  Anchor's init tops up lamports      *)
(* already sent to the address to the rent-exempt minimum.                 *)
(***************************************************************************)
Initialize(a, feeBps) ==
    /\ relayer_state = None
    /\ relayer_state' = [authority |-> a, tee_pubkey |-> ZeroKey,
                         fee_bps |-> feeBps, total_processed |-> 0,
                         total_fees_collected |-> 0, request_counter |-> 0,
                         is_active |-> TRUE]
    /\ state_lamports' = IF state_lamports >= StateRent THEN state_lamports
                                                        ELSE StateRent
    /\ UNCHANGED <<requests, markers, payouts>>

\* set_tee_pubkey (lib.rs:82-94): authority only.
SetTeePubkey(a, key) ==
    /\ relayer_state /= None
    /\ a = relayer_state.authority
    /\ relayer_state' = [relayer_state EXCEPT !.tee_pubkey = key]
    /\ UNCHANGED <<state_lamports, requests, markers, payouts>>

(***************************************************************************)
(* submit_encrypted_request (lib.rs:101-137): while active, `init` of the  *)
(* request PDA [request, request_counter], then request_counter += 1.     *)
(* The requester and the payload are stored but never read.  Ids are      *)
(* bounded by MaxRequests.                                                 *)
(***************************************************************************)
SubmitEncryptedRequest ==
    LET id == relayer_state.request_counter
    IN  /\ relayer_state /= None
        /\ relayer_state.is_active
        /\ id < MaxRequests
        /\ id \notin DOMAIN requests
        /\ requests' = (id :> [status |-> "Pending"]) @@ requests
        /\ relayer_state' = [relayer_state EXCEPT !.request_counter = id + 1]
        /\ UNCHANGED <<state_lamports, markers, payouts>>

\* A slip: the marker taken with init_if_needed, so a nullifier already
\* paid is accepted again.
ProcessWithdrawalNoMarker(a, id, nh, denomination) ==
    LET fee    == RelayFee(denomination, relayer_state.fee_bps)
        amount == denomination - fee
        left   == state_lamports - amount
    IN  /\ relayer_state /= None
        /\ a = relayer_state.authority
        /\ RequestAccount(id)
        /\ requests[id].status = "Pending"
        /\ fee <= denomination
        /\ state_lamports >= amount
        /\ RentExemptOrClosed(left)
        /\ state_lamports' = left
        /\ requests' = [requests EXCEPT ![id].status = "Processed"]
        /\ relayer_state' =
              AfterDebit([relayer_state EXCEPT
                            !.total_processed = @ + 1,
                            !.total_fees_collected = @ + fee], left)
        /\ markers' = markers \cup {nh}
        /\ payouts' = payouts \cup {[request |-> id, nullifier |-> nh,
                                     amount |-> amount, fee |-> fee]}

(***************************************************************************)
(* process_withdrawal (lib.rs:145-217): authority only, on a Pending      *)
(* request; pays denomination - fee from the RelayerState lamports to the  *)
(* recipient and `init`s the ProcessedMarker [processed, nullifier_hash]. *)
(* Nothing relates the nullifier or the denomination to the request.      *)
(***************************************************************************)
ProcessWithdrawal(a, id, nh, denomination) ==
    LET fee    == RelayFee(denomination, relayer_state.fee_bps)
        amount == denomination - fee
        left   == state_lamports - amount
    IN  /\ relayer_state /= None
        /\ a = relayer_state.authority
        /\ RequestAccount(id)
        /\ requests[id].status = "Pending"
        /\ fee <= denomination
        /\ state_lamports >= amount
        /\ nh \notin markers
        /\ RentExemptOrClosed(left)
        /\ state_lamports' = left
        /\ requests' = [requests EXCEPT ![id].status = "Processed"]
        /\ relayer_state' =
              AfterDebit([relayer_state EXCEPT
                            !.total_processed = @ + 1,
                            !.total_fees_collected = @ + fee], left)
        /\ markers' = markers \cup {nh}
        /\ payouts' = payouts \cup {[request |-> id, nullifier |-> nh,
                                     amount |-> amount, fee |-> fee]}

\* A slip: the Pending check dropped, so a processed request can be
\* marked failed afterwards.
MarkFailedAnyStatus(a, id) ==
    /\ relayer_state /= None
    /\ a = relayer_state.authority
    /\ RequestAccount(id)
    /\ requests' = [requests EXCEPT ![id].status = "Failed"]
    /\ UNCHANGED <<relayer_state, state_lamports, markers, payouts>>

\* mark_failed (lib.rs:220-239): authority only, on a Pending request.
MarkFailed(a, id) ==
    /\ relayer_state /= None
    /\ a = relayer_state.authority
    /\ RequestAccount(id)
    /\ requests[id].status = "Pending"
    /\ requests' = [requests EXCEPT ![id].status = "Failed"]
    /\ UNCHANGED <<relayer_state, state_lamports, markers, payouts>>

(***************************************************************************)
(* withdraw_fees (lib.rs:242-263): authority only, any amount up to the    *)
(* account's lamports; neither total_fees_collected nor the rent bounds it *)
(* in the code, only the runtime's rent rule does.                         *)
(***************************************************************************)
WithdrawFees(a, amount) ==
    LET left == state_lamports - amount
    IN  /\ relayer_state /= None
        /\ a = relayer_state.authority
        /\ state_lamports >= amount
        /\ RentExemptOrClosed(left)
        /\ state_lamports' = left
        /\ relayer_state' = AfterDebit(relayer_state, left)
        /\ UNCHANGED <<requests, markers, payouts>>

\* A slip: each Option applied with unwrap_or_default, so an absent
\* argument resets the field to 0 / false.
UpdateSettingsUnwrap(a, newFeeBps, isActive) ==
    /\ relayer_state /= None
    /\ a = relayer_state.authority
    /\ relayer_state' =
          [relayer_state EXCEPT
             !.fee_bps   = IF newFeeBps = None THEN 0 ELSE newFeeBps,
             !.is_active = IF isActive = None THEN FALSE ELSE isActive]
    /\ UNCHANGED <<state_lamports, requests, markers, payouts>>

\* update_settings (lib.rs:266-289): authority only; each Option applied
\* when present.
UpdateSettings(a, newFeeBps, isActive) ==
    /\ relayer_state /= None
    /\ a = relayer_state.authority
    /\ relayer_state' =
          [relayer_state EXCEPT
             !.fee_bps   = IF newFeeBps = None THEN @ ELSE newFeeBps,
             !.is_active = IF isActive = None THEN @ ELSE isActive]
    /\ UNCHANGED <<state_lamports, requests, markers, payouts>>

\* A System Program transfer of lamports to the RelayerState address.
FundRelayer(amount) ==
    /\ state_lamports' = state_lamports + amount
    /\ UNCHANGED <<relayer_state, requests, markers, payouts>>

RequestIds == 0..MaxRequests-1

TRNext ==
    \/ \E a \in Signers, f \in FeeBpsArgs : Initialize(a, f)
    \/ \E a \in Signers, k \in TeeKeys : SetTeePubkey(a, k)
    \/ SubmitEncryptedRequest
    \/ \E a \in Signers, id \in RequestIds, nh \in Nullifiers, d \in DenomArgs :
          ProcessWithdrawal(a, id, nh, d)
    \/ \E a \in Signers, id \in RequestIds : MarkFailed(a, id)
    \/ \E a \in Signers, x \in AmountArgs : WithdrawFees(a, x)
    \/ \E a \in Signers, f \in FeeBpsArgs \cup {None},
          act \in {TRUE, FALSE, None} : UpdateSettings(a, f, act)
    \/ \E x \in AmountArgs : FundRelayer(x)

TRSpec == TRInit /\ [][TRNext]_trvars

-----------------------------------------------------------------------------
(* Properties *)

Statuses == {"Pending", "Processed", "Failed"}

TRTypeOK ==
    /\ \/ relayer_state = None
       \/ /\ relayer_state.authority \in Signers
          /\ relayer_state.tee_pubkey \in TeeKeys \cup {ZeroKey}
          /\ relayer_state.fee_bps \in FeeBpsArgs
          /\ relayer_state.request_counter \in Nat
          /\ relayer_state.is_active \in BOOLEAN
    /\ state_lamports \in Nat
    /\ \A id \in DOMAIN requests : requests[id].status \in Statuses
    /\ markers \subseteq Nullifiers

(***************************************************************************)
(* The ProcessedMarker PDA is the relayer's only replay protection: every  *)
(* nullifier is paid out at most once and every request at most once,     *)
(* each payout belongs to a request now marked Processed and leaves its    *)
(* marker behind.  This must survive the RelayerState being emptied,       *)
(* deleted and initialized again by another signer with request_counter   *)
(* back at 0.                                                              *)
(***************************************************************************)
PaidOnce ==
    /\ \A p, q \in payouts : p.nullifier = q.nullifier => p = q
    /\ \A p, q \in payouts : p.request = q.request => p = q
    /\ \A p \in payouts : /\ requests[p.request].status = "Processed"
                          /\ p.nullifier \in markers

\* The request queue the relayer promises, seen through the request
\* statuses and the ProcessedMarker PDAs.
RQ == INSTANCE RelayQueue
        WITH queue <- [id \in DOMAIN requests |-> requests[id].status],
             paid  <- markers

(***************************************************************************)
(* The relayer implements RelayQueue: every step of the program, over any  *)
(* interleaving of operator and users and across the state account being  *)
(* emptied, deleted and initialized again with request_counter at 0, is   *)
(* an enqueue under a fresh id, a payout of a pending request against a   *)
(* fresh nullifier, a failure of a pending request, or leaves both alone. *)
(* A request is therefore resolved once and never changes its outcome.    *)
(***************************************************************************)
RelayQueueRefined == RQ!QSpec
====
