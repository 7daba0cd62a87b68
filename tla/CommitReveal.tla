---------------------------- MODULE CommitReveal ----------------------------
(***************************************************************************)
(* The two-phase withdrawals of the stealth program over the privacy pool *)
(* of PrivacyPool: the WithdrawalCommitment PDA                           *)
(* (state/withdrawal_commitment.rs) written by commit_withdrawal,         *)
(* reveal_and_withdraw, cancel_commitment and close_commitment            *)
(* (instructions/commit_reveal.rs) and by unified_commit and              *)
(* unified_reveal (instructions/unified_privacy.rs); and the KeeperIntent *)
(* PDA of instructions/keeper.rs, a withdrawal a keeper is to execute     *)
(* inside a window the owner chose.                                        *)
(*                                                                         *)
(* Time.  The handlers read clock.unix_timestamp only through             *)
(* elapsed = now - commit_timestamp.  A commitment therefore carries its  *)
(* age, the elapsed time, which Tick advances; ages past max_delay are    *)
(* all alike to the code (can_execute is false, is_expired true), so an   *)
(* age stops at max_delay + 1.  One tick is 3600 / SecondsPerHour        *)
(* seconds, so the boundaries min - 1, min, max and max + 1 all occur.    *)
(*                                                                         *)
(* The commitment hash binds the nullifier hash it will reveal (keccak of *)
(* nullifier_hash || recipient keys || random || nonce); it is abstracted *)
(* to that note.  A reveal whose parameters do not hash to the stored     *)
(* value fails and is not enumerated.                                     *)
(***************************************************************************)
EXTENDS PrivacyPool, TLC

CONSTANTS
    Owners,           \* signers that commit (model values)
    SecondsPerHour,   \* model ticks per hour; 3600 in the code
    DelayHours,       \* min_delay_hours / max_delay_hours arguments (u8)
    IntentIds,        \* intent_id arguments of submit_keeper_intent
    WindowHours       \* window_start_offset_hours / window_duration_hours (u8)

ASSUME /\ SecondsPerHour \in Nat \ {0} /\ SecondsPerHour % 2 = 0
       /\ DelayHours \subseteq 0..255 /\ WindowHours \subseteq 0..255

VARIABLES
    commitments,   \* commitments[<<o, h>>]: the PDA [SEED, o, h], if it exists
    commits_made,  \* history: commit instructions that succeeded
    intents        \* intents[<<o, id>>]: the KeeperIntent PDA [SEED, o, id]

crvars == <<commitments, commits_made, intents>>
allvars == <<vars, crvars>>

-----------------------------------------------------------------------------
(* WithdrawalCommitment *)

\* hours as i64 * 3600, in ticks.
HourTicks(h) == h * SecondsPerHour

\* ABSOLUTE_MIN_DELAY (1800 s) and ABSOLUTE_MAX_DELAY (604800 s).
AbsoluteMinDelay == SecondsPerHour \div 2
AbsoluteMaxDelay == 168 * SecondsPerHour

\* The fields a commit writes; owner and commitment_hash are the key.
NewCommitment(minH, maxH) ==
    [age |-> 0, min |-> HourTicks(minH), max |-> HourTicks(maxH),
     executed |-> FALSE, cancelled |-> FALSE]

\* can_execute without the cancelled check.
CanExecuteAfterCancel(c) ==
    /\ ~c.executed
    /\ c.age >= c.min /\ c.age <= c.max

\* can_execute: neither executed nor cancelled, and min <= elapsed <= max.
CanExecute(c) ==
    /\ ~c.executed /\ ~c.cancelled
    /\ c.age >= c.min /\ c.age <= c.max

\* is_expired comparing elapsed >= max_delay: expired one tick early.
IsExpiredAtMax(c) == c.age >= c.max

\* is_expired: elapsed > max_delay_seconds.
IsExpired(c) == c.age > c.max

\* close_commitment's can_close with the expiry case left out.
CanCloseSettled(c) == c.executed \/ c.cancelled

\* close_commitment's can_close.
CanClose(c) == c.executed \/ c.cancelled \/ IsExpired(c)

\* The owner of the pool account.  It is a PDA of the stealth program and
\* holds data, so the System Program refuses to debit it.
PoolAccountOwner == "stealth_program"

\* system_program::transfer moves lamports only out of an account the
\* System Program owns.
SystemTransferFrom(owner) == owner = "system_program"

\* The nullifier PDA unified_reveal creates: the pool mutant uses the
\* denomination-scoped seeds of private_withdraw.
RevealNullifierDenom(nh) == DenomNullifier(nh)

\* The nullifier PDA unified_reveal creates: [SEED, nullifier_hash], the
\* seeds unified_withdraw uses.
RevealNullifier(nh) == PlainNullifier(nh)

\* recipient_amount = denomination.saturating_sub(relayer_fee).
RecipientAmount(fee) == IF fee >= Denomination THEN 0 ELSE Denomination - fee

\* What unified_reveal takes out of the pool: recipient_amount, then
\* relayer_fee when it is non-zero.  Nothing caps the fee.
RevealDebit(fee) == RecipientAmount(fee) + fee

-----------------------------------------------------------------------------
(* Instructions *)

CRInit ==
    /\ Init
    /\ commitments = [k \in {} |-> NewCommitment(0, 0)]
    /\ commits_made = 0
    /\ intents = [k \in {} |-> NewCommitment(0, 0)]

\* StoreCommitment deriving the PDA from the seeds in the wrong order.
StoreCommitmentSwapped(o, h, minH, maxH) ==
    /\ <<h, o>> \notin DOMAIN commitments
    /\ commitments' = commitments @@ (<<h, o>> :> NewCommitment(minH, maxH))
    /\ commits_made' = commits_made + 1
    /\ UNCHANGED <<vars, intents>>

\* The common part of commit_withdrawal and unified_commit: the `init`
\* constraint creates the PDA [SEED, owner, hash] only if it is absent.
StoreCommitment(o, h, minH, maxH) ==
    /\ <<o, h>> \notin DOMAIN commitments
    /\ commitments' = commitments @@ (<<o, h>> :> NewCommitment(minH, maxH))
    /\ commits_made' = commits_made + 1
    /\ UNCHANGED <<vars, intents>>

\* commit_withdrawal: the delays in seconds within the absolute bounds,
\* max > min; the denomination argument is one of 1, 10, 100 SOL.
CommitWithdrawal(o, h, minH, maxH) ==
    /\ HourTicks(minH) >= AbsoluteMinDelay
    /\ HourTicks(maxH) <= AbsoluteMaxDelay
    /\ HourTicks(maxH) > HourTicks(minH)
    /\ StoreCommitment(o, h, minH, maxH)

\* unified_commit: the same bounds stated in hours; any denomination.
UnifiedCommit(o, h, minH, maxH) ==
    /\ minH >= 1 /\ maxH <= 168 /\ maxH > minH
    /\ StoreCommitment(o, h, minH, maxH)

\* reveal_and_withdraw: the owner's commitment is live, not executed or
\* cancelled, inside its window; the hash and denomination match; a non-zero
\* fee is at most 10% with a relayer account.  The commitment is marked
\* executed, then system_program::transfer debits the pool PDA, which the
\* System Program refuses, so the whole instruction fails.
RevealAndWithdraw(o, h, fee) ==
    LET k == <<o, h>> IN
    /\ pool_open
    /\ k \in DOMAIN commitments
    /\ CanExecute(commitments[k])
    /\ fee > 0 => fee <= Denomination \div 10
    /\ SystemTransferFrom(PoolAccountOwner)
    /\ lamports >= RevealDebit(fee) /\ RentOK(lamports - RevealDebit(fee))
    /\ commitments' = [commitments EXCEPT ![k].executed = TRUE]
    /\ lamports' = lamports - RevealDebit(fee)
    /\ deposit_count' = IF deposit_count > 0 THEN deposit_count - 1 ELSE 0
    /\ payouts' = payouts \cup {RecipientAmount(fee)}
    /\ UNCHANGED <<merkle_root, next_leaf_index, filled_subtrees,
                   root_history, root_history_index, total_deposited,
                   total_withdrawn, withdrawal_count, commitment_leaves,
                   nullifier_records, slot, root_log, funded, spent,
                   commits_made, intents, poolacct>>

\* unified_reveal, by any signer: the commitment is live, not executed or
\* cancelled (constraints) and inside its window; the revealed parameters
\* hash to it; the pool's stats balance covers the denomination and the
\* root is valid; proof_data is never read.  The stats grow, the nullifier
\* PDA [SEED, nh] is created by `init`, the commitment is marked executed
\* and the lamports are moved directly out of the pool.
UnifiedReveal(o, h, r, fee) ==
    LET k == <<o, h>> IN
    /\ pool_open
    /\ k \in DOMAIN commitments
    /\ CanExecute(commitments[k])
    /\ RevealNullifier(h) \notin nullifier_records
    /\ IF total_deposited >= total_withdrawn
       THEN total_deposited - total_withdrawn >= Denomination
       ELSE FALSE
    /\ IsValidRoot(r)
    /\ lamports >= RevealDebit(fee) /\ RentOK(lamports - RevealDebit(fee))
    /\ RecordWithdrawal(RevealNullifier(h), h)
    /\ commitments' = [commitments EXCEPT ![k].executed = TRUE]
    /\ lamports' = lamports - RevealDebit(fee)
    /\ payouts' = payouts \cup {RecipientAmount(fee)}
    /\ WithdrawalUnchanged
    /\ UNCHANGED <<commits_made, intents>>

\* cancel_commitment without its !executed constraint.
CancelCommitmentAny(o, h) ==
    LET k == <<o, h>> IN
    /\ k \in DOMAIN commitments
    /\ commitments' = [commitments EXCEPT ![k].cancelled = TRUE]
    /\ UNCHANGED <<vars, commits_made, intents>>

\* cancel_commitment by the owner: allowed while not executed.
CancelCommitment(o, h) ==
    LET k == <<o, h>> IN
    /\ k \in DOMAIN commitments
    /\ ~commitments[k].executed
    /\ commitments' = [commitments EXCEPT ![k].cancelled = TRUE]
    /\ UNCHANGED <<vars, commits_made, intents>>

\* close_commitment by the owner: if executed, cancelled or expired, the
\* account is closed and its PDA can be created again.
CloseCommitment(o, h) ==
    LET k == <<o, h>> IN
    /\ k \in DOMAIN commitments
    /\ CanClose(commitments[k])
    /\ commitments' = Restrict(commitments, DOMAIN commitments \ {k})
    /\ UNCHANGED <<vars, commits_made, intents>>

-----------------------------------------------------------------------------
(* KeeperIntent (instructions/keeper.rs).  An intent carries its age since *)
(* submission and its window [start, end] relative to it, in ticks.       *)

\* The fields submit_keeper_intent writes; the payload, the denomination
\* (checked valid, the pool's) and the keeper fee are not read again by a
\* step that can succeed.
NewIntent(offH, durH) ==
    [age |-> 0, start |-> HourTicks(offH), end |-> HourTicks(offH + durH),
     executed |-> FALSE]

\* KeeperIntent::can_execute.
IntentCanExecute(i) ==
    ~i.executed /\ i.start <= i.age /\ i.age <= i.end

\* submit_keeper_intent: `init` of [SEED, owner, intent_id]; the window
\* opens at least one hour ahead and lasts 1 to 168 hours.
SubmitKeeperIntent(o, id, offH, durH) ==
    /\ <<o, id>> \notin DOMAIN intents
    /\ offH >= 1
    /\ durH >= 1 /\ durH <= 168
    /\ intents' = intents @@ (<<o, id>> :> NewIntent(offH, durH))
    /\ UNCHANGED <<vars, commitments, commits_made>>

(***************************************************************************)
(* execute_keeper_intent, by any keeper, in the non-production build: the  *)
(* intent is unexecuted and inside its window, the attestation is nonzero *)
(* (the only check), the nullifier PDA [SEED, denomination, nh] is        *)
(* created by `init`, the intent is marked executed, and two              *)
(* system_program::transfer calls debit the pool PDA, which the System    *)
(* Program refuses: the whole instruction fails.                           *)
(***************************************************************************)
ExecuteKeeperIntent(o, id, nh) ==
    LET k == <<o, id>> IN
    /\ pool_open
    /\ k \in DOMAIN intents
    /\ IntentCanExecute(intents[k])
    /\ DenomNullifier(nh) \notin nullifier_records
    /\ SystemTransferFrom(PoolAccountOwner)
    /\ lamports >= Denomination /\ RentOK(lamports - Denomination)
    /\ nullifier_records' = nullifier_records \cup {DenomNullifier(nh)}
    /\ intents' = [intents EXCEPT ![k].executed = TRUE]
    /\ lamports' = lamports - Denomination
    /\ deposit_count' = IF deposit_count > 0 THEN deposit_count - 1 ELSE 0
    /\ UNCHANGED <<merkle_root, next_leaf_index, filled_subtrees,
                   root_history, root_history_index, total_deposited,
                   total_withdrawn, withdrawal_count, commitment_leaves,
                   history, commitments, commits_made, poolacct>>

\* A slip: cancel and claim written with `constraint = intent.executed`.
KeeperIntentClosableExecuted(i) == i.executed

\* The `constraint = !intent.executed` of cancel and claim.
KeeperIntentClosable(i) == ~i.executed

\* cancel_keeper_intent by the owner: unexecuted, and before the window
\* opens or after it ends; `close = owner` deletes the PDA.
CancelKeeperIntent(o, id) ==
    LET k == <<o, id>> IN
    /\ k \in DOMAIN intents
    /\ KeeperIntentClosable(intents[k])
    /\ intents[k].age < intents[k].start \/ intents[k].age > intents[k].end
    /\ intents' = Restrict(intents, DOMAIN intents \ {k})
    /\ UNCHANGED <<vars, commitments, commits_made>>

\* claim_expired_intent by the owner: unexecuted and past the window.
ClaimExpiredIntent(o, id) ==
    LET k == <<o, id>> IN
    /\ k \in DOMAIN intents
    /\ KeeperIntentClosable(intents[k])
    /\ intents[k].age > intents[k].end
    /\ intents' = Restrict(intents, DOMAIN intents \ {k})
    /\ UNCHANGED <<vars, commitments, commits_made>>

\* The clock advances: every commitment ages by one tick, up to max + 1,
\* and every intent up to end + 1.
Tick ==
    /\ commitments' = [k \in DOMAIN commitments |->
                         [commitments[k] EXCEPT !.age =
                            IF @ > commitments[k].max THEN @ ELSE @ + 1]]
    /\ intents' = [k \in DOMAIN intents |->
                     [intents[k] EXCEPT !.age =
                        IF @ > intents[k].end THEN @ ELSE @ + 1]]
    /\ UNCHANGED <<vars, commits_made>>

-----------------------------------------------------------------------------
\* The keys of commitment PDAs and the commit arguments.
Keys == Owners \X Commitments
CommitArgs == Owners \X Commitments \X DelayHours \X DelayHours
IntentKeys == Owners \X IntentIds
IntentArgs == IntentKeys \X WindowHours \X WindowHours

\* The pool's instructions, which leave the commitments alone.
PoolStep == Next /\ UNCHANGED crvars

CRNext ==
    \/ PoolStep
    \/ \E a \in CommitArgs : CommitWithdrawal(a[1], a[2], a[3], a[4])
    \/ \E a \in CommitArgs : UnifiedCommit(a[1], a[2], a[3], a[4])
    \/ \E k \in Keys, f \in RelayerFees : RevealAndWithdraw(k[1], k[2], f)
    \/ \E k \in Keys, r \in CandidateRoots, f \in RelayerFees :
           UnifiedReveal(k[1], k[2], r, f)
    \/ \E k \in Keys : CancelCommitment(k[1], k[2])
    \/ \E k \in Keys : CloseCommitment(k[1], k[2])
    \/ \E a \in IntentArgs : SubmitKeeperIntent(a[1][1], a[1][2], a[2], a[3])
    \/ \E k \in IntentKeys, c \in Commitments : ExecuteKeeperIntent(k[1], k[2], c)
    \/ \E k \in IntentKeys : CancelKeeperIntent(k[1], k[2])
    \/ \E k \in IntentKeys : ClaimExpiredIntent(k[1], k[2])
    \/ Tick

\* Time passes whatever the users do, so the clock is weakly fair.
CRSpec == CRInit /\ [][CRNext]_allvars /\ WF_allvars(Tick)

-----------------------------------------------------------------------------
(* Properties *)

\* The type of the commitment state, with the pool's TypeOK.
CRTypeOK ==
    /\ TypeOK
    /\ DOMAIN commitments \subseteq Keys
    /\ \A k \in DOMAIN commitments :
          commitments[k] \in [age : Nat, min : Nat, max : Nat,
                              executed : BOOLEAN, cancelled : BOOLEAN]
    /\ commits_made \in Nat
    /\ DOMAIN intents \subseteq IntentKeys
    /\ \A k \in DOMAIN intents :
          intents[k] \in [age : Nat, start : Nat, end : Nat, executed : BOOLEAN]

\* The reveal window and the expiry of a pending commitment meet exactly:
\* at no elapsed time is it both revealable (can_execute) and closable as
\* expired (is_expired), so a close_commitment never races a reveal that
\* would still succeed; and once min_delay has passed it is always one or
\* the other, so it is never stuck.  can_execute and is_expired compare
\* elapsed with max_delay separately (withdrawal_commitment.rs:89, :95).
RevealWindowMeetsExpiry ==
    \A k \in DOMAIN commitments :
        LET c == commitments[k] IN
        ~c.executed /\ ~c.cancelled /\ c.age >= c.min =>
            (CanExecute(c) # IsExpired(c))

\* A commitment is never both executed and cancelled: the owner's cancel
\* and anyone's reveal race, and whichever lands second must fail.
ExecutedNeverCancelled ==
    \A k \in DOMAIN commitments :
        ~(commitments[k].executed /\ commitments[k].cancelled)

\* The commitment lifecycle the program promises, seen through the
\* commitment accounts (a live commitment that is neither executed nor
\* cancelled is pending) and the nullifier PDAs [SEED, nh] that
\* unified_reveal and unified_withdraw both create.
CommitmentStatus(c) ==
    IF c.executed THEN "Revealed"
    ELSE IF c.cancelled THEN "Cancelled" ELSE "Pending"

CL == INSTANCE CommitmentLifecycle
        WITH Keys <- Keys, Notes <- Commitments,
             status <- [k \in DOMAIN commitments |->
                          CommitmentStatus(commitments[k])],
             withdrawn <- {h \in Commitments :
                             PlainNullifier(h) \in nullifier_records}

\* Every step of the commit, reveal, cancel and close instructions, of
\* unified_withdraw, of the keeper and of the clock is a step of the
\* lifecycle: a cancelled commitment is never revealed, a revealed one
\* never cancelled, a closed key starts afresh, and a reveal and a direct
\* withdrawal never take one note twice, across re-commits of a key.
LifecycleRefined == CL!LSpec

\* Every commitment account can eventually be closed and its rent
\* reclaimed, whether or not it is ever revealed or cancelled (spec 4.5:
\* closing is always legal once max_delay has passed).
CommitmentReclaimable ==
    \A k \in Keys :
        k \in DOMAIN commitments ~>
            (k \notin DOMAIN commitments \/ CanClose(commitments[k]))

\* The owner of a keeper intent that no keeper executes gets its rent back:
\* an intent is eventually deleted or cancel_keeper_intent or
\* claim_expired_intent can delete it (the window only delays this).
IntentReclaimable ==
    \A k \in IntentKeys :
        k \in DOMAIN intents ~>
            \/ k \notin DOMAIN intents
            \/ ENABLED (CancelKeeperIntent(k[1], k[2]) \/ ClaimExpiredIntent(k[1], k[2]))

\* Inside its window, with the pool able to pay, the owner's
\* reveal_and_withdraw with no relayer fee goes through (spec 4.5: reveal
\* marks executed and performs the withdrawal's transfer), and so does a
\* keeper's execute_keeper_intent for an unspent nullifier (spec: a keeper
\* executes the intent inside its window).
PayoutProceedsInWindow ==
    /\ \A k \in DOMAIN commitments :
          (CanExecute(commitments[k]) /\ lamports >= RentMin + Denomination)
              => ENABLED RevealAndWithdraw(k[1], k[2], 0)
    /\ \A k \in DOMAIN intents, c \in Commitments :
          (/\ IntentCanExecute(intents[k])
           /\ DenomNullifier(c) \notin nullifier_records
           /\ lamports >= RentMin + Denomination)
              => ENABLED ExecuteKeeperIntent(k[1], k[2], c)
=============================================================================
