--------------------------- MODULE MCCommitReveal ---------------------------
(***************************************************************************)
(* Model-checking instances of CommitReveal.  Each run restricts the      *)
(* instructions to the paths its question is about; the constants are    *)
(* given in the .cfg files.                                               *)
(***************************************************************************)
EXTENDS CommitReveal

CONSTANTS
    MaxOps,       \* bound on pool leaves inserted plus withdrawals made
    MaxCommits    \* bound on commit instructions that succeeded

\* The state bound: pool operations and commits made so far.
CRBound ==
    /\ next_leaf_index + withdrawal_count <= MaxOps
    /\ commits_made <= MaxCommits

\* The unified flow: unified_deposit, unified_withdraw and the unified
\* commit-reveal (or commit_withdrawal), with cancel, close, the submission,
\* cancellation and claim of keeper intents, and the clock.  Execution of
\* an intent is never enabled (see ExecuteKeeperIntent); the
\* reveal_and_withdraw_dead run asks about it.
NextUnifiedCR ==
    \/ \E c \in Commitments : UnifiedDeposit(c) /\ UNCHANGED crvars
    \/ \E a \in WithdrawArgs : UnifiedWithdraw(a[1], a[2], a[3])
                                 /\ UNCHANGED crvars
    \/ \E a \in CommitArgs : CommitWithdrawal(a[1], a[2], a[3], a[4])
    \/ \E a \in CommitArgs : UnifiedCommit(a[1], a[2], a[3], a[4])
    \/ \E k \in Keys, r \in CandidateRoots, f \in RelayerFees :
           UnifiedReveal(k[1], k[2], r, f)
    \/ \E k \in Keys : CancelCommitment(k[1], k[2])
    \/ \E k \in Keys : CloseCommitment(k[1], k[2])
    \/ \E a \in IntentArgs : SubmitKeeperIntent(a[1][1], a[1][2], a[2], a[3])
    \/ \E k \in IntentKeys : CancelKeeperIntent(k[1], k[2])
    \/ \E k \in IntentKeys : ClaimExpiredIntent(k[1], k[2])
    \/ Tick
SpecUnifiedCR == CRInit /\ [][NextUnifiedCR]_allvars /\ WF_allvars(Tick)

\* The commit_reveal.rs pair and the keeper.rs pair on a funded pool.
NextRevealAndWithdraw ==
    \/ \E c \in Commitments : PrivateDeposit(c) /\ UNCHANGED crvars
    \/ \E a \in CommitArgs : CommitWithdrawal(a[1], a[2], a[3], a[4])
    \/ \E k \in Keys, f \in RelayerFees : RevealAndWithdraw(k[1], k[2], f)
    \/ \E a \in IntentArgs : SubmitKeeperIntent(a[1][1], a[1][2], a[2], a[3])
    \/ \E k \in IntentKeys, c \in Commitments : ExecuteKeeperIntent(k[1], k[2], c)
    \/ Tick
SpecRevealAndWithdraw == CRInit /\ [][NextRevealAndWithdraw]_allvars

\* private_deposit with unified_commit and unified_reveal.
NextUnifiedReveal ==
    \/ \E c \in Commitments : PrivateDeposit(c) /\ UNCHANGED crvars
    \/ \E a \in CommitArgs : UnifiedCommit(a[1], a[2], a[3], a[4])
    \/ \E k \in Keys, r \in CandidateRoots, f \in RelayerFees :
           UnifiedReveal(k[1], k[2], r, f)
    \/ Tick
SpecUnifiedReveal == CRInit /\ [][NextUnifiedReveal]_allvars

\* Every withdrawal path that does not verify a Groth16 proof on chain:
\* private_withdraw, unified_withdraw and unified_reveal.
NextUnverified ==
    \/ \E c \in Commitments : PrivateDeposit(c) /\ UNCHANGED crvars
    \/ \E a \in WithdrawArgs : PrivateWithdraw(a[1], a[2], a[3])
                                 /\ UNCHANGED crvars
    \/ \E a \in WithdrawArgs : UnifiedWithdraw(a[1], a[2], a[3])
                                 /\ UNCHANGED crvars
    \/ \E a \in CommitArgs : UnifiedCommit(a[1], a[2], a[3], a[4])
    \/ \E k \in Keys, r \in CandidateRoots, f \in RelayerFees :
           UnifiedReveal(k[1], k[2], r, f)
    \/ Tick
SpecUnverified == CRInit /\ [][NextUnverified]_allvars
=============================================================================
