------------------------------ MODULE TeeBridge ------------------------------
(***************************************************************************)
(* The TEE bridge program (programs/tee-bridge/src/lib.rs): per-user       *)
(* staging accounts, commitments collected into batches, permissionless    *)
(* batch settlement, and the two ways lamports leave a staging account.    *)
(*                                                                         *)
(* Every instruction is one atomic transaction; a failed require! leaves   *)
(* the state unchanged and is not a step.  An `init` account constraint is *)
(* an insert into a partial function whose key must be absent.  The       *)
(* 32-byte commitment is a member of the constant set CommitmentVals.      *)
(* Timestamps, bumps, the encrypted note and the fields that are written   *)
(* once and never read (TeeCommitment.settled, TeeCommitment.batch_id) are *)
(* left out.                                                               *)
(***************************************************************************)
EXTENDS Naturals, Sequences, SequencesExt, TLC

CONSTANTS
    Users,           \* wallets that own staging accounts
    CommitmentVals,  \* commitment hashes users submit
    BatchIds,        \* batch_id arguments of initialize_batch
    LamportsPerSol,  \* lamports of DENOMINATION_1_SOL
    StagingRent,     \* rent.minimum_balance of a StagingAccount
    AmountArgs,      \* amount arguments of deposit, withdraw and release
    DenomArgs        \* denomination arguments of create_private_commitment

VARIABLES
    staging,          \* user -> StagingAccount [balance, commitment_count]
    staging_lamports, \* user -> lamports held by the staging PDA
    tee_commitments,  \* commitment -> TeeCommitment [denomination]
    batches,          \* batch_id -> CommitmentBatch
    \* history, not program state
    deposited,        \* user -> lamports moved in by deposit_to_staging
    withdrawn,        \* user -> lamports taken by withdraw_from_staging
    released,         \* user -> lamports taken by release_settled_funds
    committed_by      \* commitment -> the user whose staging paid for it

bvars == <<staging, staging_lamports, tee_commitments, batches,
           deposited, withdrawn, released, committed_by>>

\* The batch's fixed-size commitments/denominations arrays.
BATCH_CAPACITY == 10

\* BATCH_THRESHOLD: the fewest commitments a batch may be settled with.
BATCH_THRESHOLD == 3

\* DENOMINATION_1_SOL, DENOMINATION_10_SOL, DENOMINATION_100_SOL.
ValidDenominations == {LamportsPerSol, 10 * LamportsPerSol, 100 * LamportsPerSol}

\* is_valid_denomination.
IsValidDenomination(amount) == amount \in ValidDenominations

\* A partial function f extended by k |-> v (k not yet in its domain).
Insert(f, k, v) == (k :> v) @@ f

\* The `staging` account of every instruction but initialize_staging: the
\* PDA [staging, user] of the signer with its stored bump, so it exists.
StagingAccount(u) == u \in DOMAIN staging

\* The `batch` account: the PDA [batch, batch.id] with its stored bump.
BatchAccount(id) == id \in DOMAIN batches

\* The sum of the denominations in a batch's filled slots.
SlotsTotal(b) == FoldSeq(LAMBDA d, acc : d + acc, 0, b.denominations)

BInit ==
    /\ staging = <<>>
    /\ staging_lamports = <<>>
    /\ tee_commitments = <<>>
    /\ batches = <<>>
    /\ deposited = [u \in Users |-> 0]
    /\ withdrawn = [u \in Users |-> 0]
    /\ released = [u \in Users |-> 0]
    /\ committed_by = <<>>

(***************************************************************************)
(* initialize_staging (lib.rs:73-84): `init` of the PDA [staging, user],   *)
(* paid by any payer; the account starts with its rent and balance 0.     *)
(***************************************************************************)
InitializeStaging(u) ==
    /\ u \notin DOMAIN staging
    /\ staging' = Insert(staging, u, [balance |-> 0, commitment_count |-> 0])
    /\ staging_lamports' = Insert(staging_lamports, u, StagingRent)
    /\ UNCHANGED <<tee_commitments, batches, deposited, withdrawn, released,
                   committed_by>>

\* deposit_to_staging (lib.rs:87-106): a System Program transfer from the
\* signing user into the staging PDA, then balance += amount.
DepositToStaging(u, amount) ==
    /\ StagingAccount(u)
    /\ staging' = [staging EXCEPT ![u].balance = @ + amount]
    /\ staging_lamports' = [staging_lamports EXCEPT ![u] = @ + amount]
    /\ deposited' = [deposited EXCEPT ![u] = @ + amount]
    /\ UNCHANGED <<tee_commitments, batches, withdrawn, released, committed_by>>

\* A slip: the balance check dropped and the balance decremented with a
\* plain (wrapping) subtraction.
CreatePrivateCommitmentUnchecked(u, denomination, c, id) ==
    /\ IsValidDenomination(denomination)
    /\ StagingAccount(u)
    /\ c \notin DOMAIN tee_commitments
    /\ BatchAccount(id)
    /\ batches[id].commitment_count < BATCH_CAPACITY
    /\ staging' = [staging EXCEPT ![u].balance = @ - denomination,
                                  ![u].commitment_count = @ + 1]
    /\ tee_commitments' = Insert(tee_commitments, c,
                                 [denomination |-> denomination])
    /\ batches' = [batches EXCEPT
                     ![id].commitments = Append(@, c),
                     ![id].denominations = Append(@, denomination),
                     ![id].commitment_count = @ + 1,
                     ![id].total_amount = @ + denomination]
    /\ committed_by' = Insert(committed_by, c, u)
    /\ UNCHANGED <<staging_lamports, deposited, withdrawn, released>>

\* A slip: the TeeCommitment PDA taken with init_if_needed, so a commitment
\* already submitted is accepted again.
CreatePrivateCommitmentReused(u, denomination, c, id) ==
    /\ IsValidDenomination(denomination)
    /\ StagingAccount(u)
    /\ BatchAccount(id)
    /\ staging[u].balance >= denomination
    /\ batches[id].commitment_count < BATCH_CAPACITY
    /\ staging' = [staging EXCEPT ![u].balance = @ - denomination,
                                  ![u].commitment_count = @ + 1]
    /\ tee_commitments' = Insert(tee_commitments, c,
                                 [denomination |-> denomination])
    /\ batches' = [batches EXCEPT
                     ![id].commitments = Append(@, c),
                     ![id].denominations = Append(@, denomination),
                     ![id].commitment_count = @ + 1,
                     ![id].total_amount = @ + denomination]
    /\ committed_by' = Insert(committed_by, c, u)
    /\ UNCHANGED <<staging_lamports, deposited, withdrawn, released>>

(***************************************************************************)
(* create_private_commitment (lib.rs:116-183).  The staging PDA is the    *)
(* user's own (seeds [staging, user]); the TeeCommitment PDA              *)
(* [tee_commitment, commitment] is `init`, so a commitment is accepted     *)
(* once; the batch is any initialized batch, settled or not.  The lamports *)
(* stay in the staging account: only its balance field is reduced.         *)
(***************************************************************************)
CreatePrivateCommitment(u, denomination, c, id) ==
    /\ IsValidDenomination(denomination)
    /\ StagingAccount(u)
    /\ c \notin DOMAIN tee_commitments
    /\ BatchAccount(id)
    /\ staging[u].balance >= denomination
    /\ batches[id].commitment_count < BATCH_CAPACITY
    /\ staging' = [staging EXCEPT ![u].balance = @ - denomination,
                                  ![u].commitment_count = @ + 1]
    /\ tee_commitments' = Insert(tee_commitments, c,
                                 [denomination |-> denomination])
    /\ batches' = [batches EXCEPT
                     ![id].commitments = Append(@, c),
                     ![id].denominations = Append(@, denomination),
                     ![id].commitment_count = @ + 1,
                     ![id].total_amount = @ + denomination]
    /\ committed_by' = Insert(committed_by, c, u)
    /\ UNCHANGED <<staging_lamports, deposited, withdrawn, released>>

\* settle_batch (lib.rs:189-226): anyone, once the batch holds at least
\* BATCH_THRESHOLD commitments and is not yet settled.  Only the flag
\* changes; the event is for the off-chain relayer.
SettleBatch(id) ==
    /\ BatchAccount(id)
    /\ batches[id].commitment_count > 0
    /\ ~batches[id].settled
    /\ batches[id].commitment_count >= BATCH_THRESHOLD
    /\ batches' = [batches EXCEPT ![id].settled = TRUE]
    /\ UNCHANGED <<staging, staging_lamports, tee_commitments, deposited,
                   withdrawn, released, committed_by>>

\* The runtime's rent rule at the end of a transaction: an account keeps at
\* least its rent-exempt minimum or is left with no lamports, and then it
\* is deleted.
RentExemptOrClosed(l) == l = 0 \/ l >= StagingRent

(***************************************************************************)
(* withdraw_from_staging (lib.rs:230-251): up to the recorded balance; the *)
(* lamports are debited directly (the program owns the PDA), which fails  *)
(* on underflow.  Nothing keeps the rent: a withdrawal that empties the   *)
(* account deletes it, and initialize_staging may create it again.        *)
(***************************************************************************)
WithdrawFromStaging(u, amount) ==
    LET left == staging_lamports[u] - amount
    IN  /\ StagingAccount(u)
        /\ staging[u].balance >= amount
        /\ staging_lamports[u] >= amount
        /\ RentExemptOrClosed(left)
        /\ IF left = 0
           THEN /\ staging' = [v \in DOMAIN staging \ {u} |-> staging[v]]
                /\ staging_lamports' =
                      [v \in DOMAIN staging_lamports \ {u} |-> staging_lamports[v]]
           ELSE /\ staging' = [staging EXCEPT ![u].balance = @ - amount]
                /\ staging_lamports' = [staging_lamports EXCEPT ![u] = left]
        /\ withdrawn' = [withdrawn EXCEPT ![u] = @ + amount]
    /\ UNCHANGED <<tee_commitments, batches, deposited, released, committed_by>>

(***************************************************************************)
(* release_settled_funds (lib.rs:256-276): any settled batch, and any      *)
(* amount up to the staging lamports above rent.  Nothing ties the amount  *)
(* or the batch to the user's commitments, nothing records the release,    *)
(* and the balance field is not touched.                                   *)
(***************************************************************************)
ReleaseSettledFunds(u, id, amount) ==
    /\ StagingAccount(u)
    /\ BatchAccount(id)
    /\ batches[id].settled
    /\ staging_lamports[u] >= StagingRent
    /\ staging_lamports[u] - StagingRent >= amount
    /\ staging_lamports' = [staging_lamports EXCEPT ![u] = @ - amount]
    /\ released' = [released EXCEPT ![u] = @ + amount]
    /\ UNCHANGED <<staging, tee_commitments, batches, deposited, withdrawn,
                   committed_by>>

\* initialize_batch (lib.rs:279-296): `init` of [batch, batch_id], by any
\* signer; all slots empty.
InitializeBatch(id) ==
    /\ id \notin DOMAIN batches
    /\ batches' = Insert(batches, id,
                         [commitments |-> <<>>, denominations |-> <<>>,
                          commitment_count |-> 0, total_amount |-> 0,
                          settled |-> FALSE])
    /\ UNCHANGED <<staging, staging_lamports, tee_commitments, deposited,
                   withdrawn, released, committed_by>>

BNext ==
    \/ \E u \in Users : InitializeStaging(u)
    \/ \E u \in Users, a \in AmountArgs : DepositToStaging(u, a)
    \/ \E u \in Users, d \in DenomArgs, c \in CommitmentVals, id \in BatchIds :
          CreatePrivateCommitment(u, d, c, id)
    \/ \E id \in BatchIds : SettleBatch(id)
    \/ \E u \in Users, a \in AmountArgs : WithdrawFromStaging(u, a)
    \/ \E u \in Users, id \in BatchIds, a \in AmountArgs :
          ReleaseSettledFunds(u, id, a)
    \/ \E id \in BatchIds : InitializeBatch(id)

BSpec == BInit /\ [][BNext]_bvars

-----------------------------------------------------------------------------
(* Properties *)

BTypeOK ==
    /\ DOMAIN staging \subseteq Users
    /\ DOMAIN staging_lamports = DOMAIN staging
    /\ DOMAIN tee_commitments \subseteq CommitmentVals
    /\ DOMAIN batches \subseteq BatchIds
    /\ DOMAIN committed_by = DOMAIN tee_commitments
    /\ \A u \in DOMAIN staging :
          /\ staging[u].balance \in Nat
          /\ staging[u].commitment_count \in Nat
          /\ staging_lamports[u] \in Nat
    /\ \A id \in DOMAIN batches :
          /\ batches[id].commitment_count \in 0..BATCH_CAPACITY
          /\ batches[id].settled \in BOOLEAN
    /\ \A f \in {deposited, withdrawn, released} : f \in [Users -> Nat]

\* The (batch, slot) pairs holding commitment c.
SlotsOf(c) ==
    {s \in UNION {{id} \X DOMAIN batches[id].commitments : id \in DOMAIN batches} :
        batches[s[1]].commitments[s[2]] = c}

(***************************************************************************)
(* The batches the settlement relayer reads are a faithful record of the  *)
(* TeeCommitment accounts create_private_commitment made: each batch's    *)
(* count and total_amount match its slots, every slot holds a created     *)
(* commitment with its denomination, and every created commitment sits in *)
(* exactly one slot of one batch, however users interleave, withdraw,     *)
(* close and reopen their staging accounts.  A commitment in two slots    *)
(* would be deposited into the pool twice from one payment.               *)
(***************************************************************************)
BatchesMatchCommitments ==
    /\ \A id \in DOMAIN batches :
          LET b == batches[id]
          IN  /\ b.commitment_count = Len(b.commitments)
              /\ Len(b.denominations) = Len(b.commitments)
              /\ b.total_amount = SlotsTotal(b)
              /\ \A i \in DOMAIN b.commitments :
                    /\ b.commitments[i] \in DOMAIN tee_commitments
                    /\ b.denominations[i] =
                          tee_commitments[b.commitments[i]].denomination
    /\ \A c \in DOMAIN tee_commitments : Cardinality(SlotsOf(c)) = 1

\* The commitments of settled batches.
SettledCommitments ==
    UNION {Range(batches[id].commitments) : id \in {i \in DOMAIN batches :
                                                     batches[i].settled}}

\* What user u paid into commitments that a settled batch holds.
SettledAmountOf(u) ==
    MapThenSumSet(LAMBDA c : tee_commitments[c].denomination,
                  {c \in SettledCommitments : committed_by[c] = u})

(***************************************************************************)
(* The doc comment of release_settled_funds (lib.rs:253-255): after        *)
(* settlement the user gets back lamports equal to their committed        *)
(* amount.  So what a user has released never exceeds the denominations   *)
(* of their own commitments in settled batches.  The lamports come from   *)
(* the caller's own staging PDA; what is at stake is that a release is    *)
(* tied to no commitment and leaves staging.balance as it was.            *)
(***************************************************************************)
ReleaseBackedBySettledCommitments ==
    \A u \in Users : released[u] <= SettledAmountOf(u)
====
