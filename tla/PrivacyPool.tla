---------------------------- MODULE PrivacyPool ----------------------------
(***************************************************************************)
(* One fixed-denomination privacy pool of the stealth program: the        *)
(* PrivacyPool zero-copy account (state/privacy_pool.rs), the lamports it *)
(* holds, and the CommitmentLeaf and NullifierRecord PDAs created beside  *)
(* it.  Each action is one instruction; a Solana transaction is atomic,   *)
(* so an instruction that fails a require! or an account constraint is a  *)
(* stutter, and concurrency is the interleaving of whole instructions.    *)
(*                                                                         *)
(* A note is identified by its commitment c; its nullifier hash is        *)
(* abstracted to c as well (both are injective functions of the note      *)
(* secret).                                                               *)
(***************************************************************************)
EXTENDS MerkleTree, Naturals, Sequences, FiniteSets, Functions

CONSTANTS
    Commitments,    \* the notes: non-zero commitment values
    Denomination,   \* pool.denomination, in lamport units of the model
    FeeBps,         \* config.fee_bps (PoolConfig::DEFAULT_FEE_BPS)
    RentMin,        \* the rent-exempt minimum of the pool account
    K,              \* ROOT_HISTORY_SIZE
    RelayerFees,    \* the relayer_fee arguments a withdrawal may carry
    HonestIndexer,  \* TRUE: simple_deposit callers pass the true new root
    Authorities     \* signers that may call initialize_pool and close_pool

ASSUME /\ Commitments \subseteq Nat \ {0}
       /\ Denomination \in Nat \ {0} /\ FeeBps \in 0..10000
       /\ RentMin \in Nat /\ K \in Nat \ {0}
       /\ RelayerFees \subseteq Nat /\ HonestIndexer \in BOOLEAN

VARIABLES
    merkle_root, next_leaf_index, filled_subtrees,   \* PrivacyPool tree
    root_history, root_history_index,                \* PrivacyPool ring
    total_deposited, total_withdrawn,                \* PrivacyPool stats
    deposit_count, withdrawal_count,
    lamports,             \* lamports of the pool account
    pool_open,            \* the PrivacyPool and PoolConfig PDAs exist
    authority,            \* pool.authority = config.authority
    commitment_leaves,    \* commitments with a CommitmentLeaf PDA
    nullifier_records,    \* seeds of the NullifierRecord PDAs created
    \* History, not program state:
    slot,                 \* slot[i]: the commitment placed at leaf i (0: none)
    root_log,             \* every value merkle_root has taken, in order
    funded,               \* notes whose deposit paid lamports into the pool
    spent,                \* spent[c]: times note c was consumed
    payouts               \* amounts credited to withdrawal recipients

pool == <<merkle_root, next_leaf_index, filled_subtrees, root_history,
          root_history_index, total_deposited, total_withdrawn,
          deposit_count, withdrawal_count>>
poolacct == <<pool_open, authority>>
history == <<slot, root_log, funded, spent, payouts>>
vars == <<pool, poolacct, lamports, commitment_leaves, nullifier_records,
          history>>

-----------------------------------------------------------------------------
(* Helpers of the handlers *)

\* The fee of a deposit: amount * fee_bps / 10_000 (u128, no overflow here).
DepositFee == (Denomination * FeeBps) \div 10000

\* The PDA seeds of a nullifier record.  private_withdraw, verified_withdraw
\* and private_transfer include the denomination; unified_withdraw and
\* unified_reveal do not.
DenomNullifier(nh) == <<"nullifier", Denomination, nh>>
PlainNullifier(nh) == <<"nullifier", nh>>

\* The runtime refuses a transaction that leaves a funded account below the
\* rent-exempt minimum.
RentOK(l) == l >= RentMin

\* is_valid_root: the current root, or a non-zero entry of root_history.
IsValidRoot(r) ==
    \/ merkle_root = r
    \/ \E i \in 0..K-1 : root_history[i] = r /\ root_history[i] # ZeroValue

\* Roots a withdrawal may name; any other root fails is_valid_root.
CandidateRoots == {merkle_root} \cup Range(root_history)

\* save_root_to_history, as the pair of new ring values.
SavedHistory == [root_history EXCEPT ![root_history_index] = merkle_root]
NextHistoryIndex == (root_history_index + 1) % K

\* Placing commitment c at leaf i in the history; an index past the
\* tree's capacity has no leaf.
PlaceLeaf(s, i, c) == IF i < Capacity THEN [s EXCEPT ![i] = c] ELSE s

\* verify_groth16 with its result ignored.
Groth16AcceptsAny(r, nh) == TRUE

\* verify_groth16 is sound: a proof against root r with nullifier hash nh
\* exists only if the note nh is a leaf under r.
Groth16Accepts(r, nh) == nh \in LeavesUnder(r)

\* verify_proof_with_sysvar as private_withdraw and private_transfer call
\* it: the dev build skips verification, and the production build accepts
\* an attestation signed by any Ed25519 key, since trusted_verifiers is
\* None.  Either way anyone can produce an accepted proof.
OracleAccepts(r, nh) == TRUE

-----------------------------------------------------------------------------
(* The state after the first initialize_pool, by any signer. *)
Init ==
    /\ pool_open = TRUE
    /\ authority \in Authorities
    /\ merkle_root = ZeroHashes[DEPTH]
    /\ next_leaf_index = 0
    /\ filled_subtrees = InitFilledSubtrees
    /\ root_history = [i \in 0..K-1 |-> ZeroValue]
    /\ root_history_index = 0
    /\ total_deposited = 0 /\ total_withdrawn = 0
    /\ deposit_count = 0 /\ withdrawal_count = 0
    /\ lamports = RentMin
    /\ commitment_leaves = {}
    /\ nullifier_records = {}
    /\ slot = [i \in 0..Capacity-1 |-> 0]
    /\ root_log = << ZeroHashes[DEPTH] >>
    /\ funded = {}
    /\ spent = [c \in Commitments |-> 0]
    /\ payouts = {}

-----------------------------------------------------------------------------
(* Deposits *)

\* save_root_to_history with a ring index that never wraps.
SaveRootToHistoryNoWrap ==
    /\ root_history' = SavedHistory
    /\ root_history_index' = root_history_index + 1

\* save_root_to_history writing every root to one slot of the ring.
SaveRootToHistoryOneSlot ==
    /\ root_history' = SavedHistory
    /\ root_history_index' = 0

\* save_root_to_history: hist[idx] = root; idx = (idx + 1) % SIZE.
SaveRootToHistory ==
    /\ root_history' = SavedHistory
    /\ root_history_index' = NextHistoryIndex

\* private_deposit: the CommitmentLeaf PDA ["commitment", denomination, c]
\* is created by `init`, so a commitment is deposited at most once; the
\* depositor pays amount - fee into the pool, insert_commitment_to_tree_zc
\* saves the root and inserts c at next_leaf_index (with no capacity
\* check), and the stats grow by the amount the pool received.
PrivateDeposit(c) ==
    LET amt == Denomination - DepositFee
        new == ComputeNewRoot(filled_subtrees, c, next_leaf_index)
    IN  /\ pool_open
        /\ c \notin commitment_leaves
        /\ lamports' = lamports + amt
        /\ SaveRootToHistory
        /\ merkle_root' = new.root
        /\ filled_subtrees' = new.filled
        /\ next_leaf_index' = next_leaf_index + 1
        /\ total_deposited' = total_deposited + amt
        /\ deposit_count' = deposit_count + 1
        /\ commitment_leaves' = commitment_leaves \cup {c}
        /\ slot' = PlaceLeaf(slot, next_leaf_index, c)
        /\ root_log' = Append(root_log, new.root)
        /\ funded' = funded \cup {c}
        /\ UNCHANGED <<total_withdrawn, withdrawal_count, nullifier_records,
                       spent, payouts, poolacct>>

\* The merkle_root argument of simple_deposit: the root of the leaves the
\* CommitmentLeaf accounts show after this insertion, or (from a caller that
\* is not the trusted indexer) the root of a tree holding some note alone.
SimpleDepositRoots(c) ==
    LET honest == TreeRoot(PlaceLeaf(slot, next_leaf_index, c))
        forged == {TreeRoot([i \in 0..Capacity-1 |-> IF i = 0 THEN x ELSE 0])
                   : x \in Commitments}
    IN  IF HonestIndexer THEN {honest} ELSE {honest} \cup forged

\* simple_deposit: as private_deposit, but the new root is the caller's
\* argument; filled_subtrees is left as it was.
SimpleDeposit(c, r) ==
    LET amt == Denomination - DepositFee
    IN  /\ pool_open
        /\ c \notin commitment_leaves
        /\ r \in SimpleDepositRoots(c)
        /\ lamports' = lamports + amt
        /\ SaveRootToHistory
        /\ merkle_root' = r
        /\ next_leaf_index' = next_leaf_index + 1
        /\ total_deposited' = total_deposited + amt
        /\ deposit_count' = deposit_count + 1
        /\ commitment_leaves' = commitment_leaves \cup {c}
        /\ slot' = PlaceLeaf(slot, next_leaf_index, c)
        /\ root_log' = Append(root_log, r)
        /\ funded' = funded \cup {c}
        /\ UNCHANGED <<filled_subtrees, total_withdrawn, withdrawal_count,
                       nullifier_records, spent, payouts, poolacct>>

\* unified_deposit: the full denomination goes to the pool and the counters
\* and next_leaf_index advance, but the commitment is only emitted in an
\* event: neither the tree nor the root history changes, and no
\* CommitmentLeaf PDA is created.
UnifiedDeposit(c) ==
    /\ pool_open
    /\ lamports' = lamports + Denomination
    /\ deposit_count' = deposit_count + 1
    /\ total_deposited' = total_deposited + Denomination
    /\ next_leaf_index' = next_leaf_index + 1
    /\ funded' = funded \cup {c}
    /\ UNCHANGED <<merkle_root, filled_subtrees, root_history,
                   root_history_index, total_withdrawn, withdrawal_count,
                   commitment_leaves, nullifier_records, slot, root_log,
                   spent, payouts, poolacct>>

-----------------------------------------------------------------------------
(* Withdrawals and transfers *)

\* The bookkeeping of a withdrawal that forgets the nullifier record.
RecordWithdrawalNoRecord(key, nh) ==
    /\ UNCHANGED nullifier_records
    /\ spent' = [spent EXCEPT ![nh] = @ + 1]
    /\ total_withdrawn' = total_withdrawn + Denomination
    /\ withdrawal_count' = withdrawal_count + 1

\* The bookkeeping every withdrawal does: the nullifier PDA with the given
\* seeds is created, the note counts as consumed, and the stats grow by
\* the denomination.
RecordWithdrawal(key, nh) ==
    /\ nullifier_records' = nullifier_records \cup {key}
    /\ spent' = [spent EXCEPT ![nh] = @ + 1]
    /\ total_withdrawn' = total_withdrawn + Denomination
    /\ withdrawal_count' = withdrawal_count + 1

\* transfer_withdrawal_funds_zc / transfer_withdrawal: the pool must hold
\* the amount; it is debited the whole amount, the recipient is credited
\* amount - relayer_fee (saturating) and the relayer relayer_fee.  A fee
\* above the amount credits more than was debited, which the runtime
\* rejects; so does leaving the pool below its rent-exempt minimum.
TransferWithdrawal(fee) ==
    /\ lamports >= Denomination
    /\ fee <= Denomination
    /\ RentOK(lamports - Denomination)
    /\ lamports' = lamports - Denomination
    /\ payouts' = payouts \cup {Denomination - fee}

\* Variables no withdrawal touches.
WithdrawalUnchanged ==
    UNCHANGED <<poolacct, merkle_root, next_leaf_index, filled_subtrees, root_history,
                root_history_index, total_deposited, deposit_count,
                commitment_leaves, slot, root_log, funded>>

\* private_withdraw: nullifier PDA with the denomination in its seeds,
\* is_valid_root, the oracle-attested proof, then the transfer and stats.
PrivateWithdraw(r, nh, fee) ==
    /\ pool_open
    /\ DenomNullifier(nh) \notin nullifier_records
    /\ IsValidRoot(r)
    /\ OracleAccepts(r, nh)
    /\ RecordWithdrawal(DenomNullifier(nh), nh)
    /\ TransferWithdrawal(fee)
    /\ WithdrawalUnchanged

\* verified_withdraw: as private_withdraw, with the proof checked on chain
\* by verify_groth16 (proof amount = denomination, recipient bound).
VerifiedWithdraw(r, nh, fee) ==
    /\ pool_open
    /\ DenomNullifier(nh) \notin nullifier_records
    /\ IsValidRoot(r)
    /\ Groth16Accepts(r, nh)
    /\ RecordWithdrawal(DenomNullifier(nh), nh)
    /\ TransferWithdrawal(fee)
    /\ WithdrawalUnchanged

\* unified_withdraw forgetting to debit the relayer fee from the pool.
UnifiedDebitRecipientOnly(fee) == Denomination - fee

\* The lamports unified_withdraw takes from the pool: recipient_amount,
\* then relayer_fee when it is non-zero.
UnifiedDebit(fee) == (Denomination - fee) + fee

\* unified_withdraw: nullifier PDA without the denomination, a balance
\* check on the stats, is_valid_root, the 10% fee cap; proof_data is not
\* verified.  The lamports are moved directly out of the pool.
UnifiedWithdraw(r, nh, fee) ==
    /\ pool_open
    /\ PlainNullifier(nh) \notin nullifier_records
    /\ IF total_deposited >= total_withdrawn
       THEN total_deposited - total_withdrawn >= Denomination
       ELSE FALSE
    /\ IsValidRoot(r)
    /\ fee > 0 => fee <= Denomination \div 10
    /\ lamports >= UnifiedDebit(fee)
    /\ RentOK(lamports - UnifiedDebit(fee))
    /\ RecordWithdrawal(PlainNullifier(nh), nh)
    /\ lamports' = lamports - UnifiedDebit(fee)
    /\ payouts' = payouts \cup {Denomination - fee}
    /\ WithdrawalUnchanged

\* private_transfer: nullifier PDA with the denomination, is_valid_root,
\* the oracle-attested proof, then insert_transfer_commitments_zc: the
\* root is saved to history once and both commitments are inserted.  No
\* lamports move.
PrivateTransfer(r, nh, c1, c2) ==
    LET first  == ComputeNewRoot(filled_subtrees, c1, next_leaf_index)
        second == ComputeNewRoot(first.filled, c2, next_leaf_index + 1)
    IN  /\ pool_open
        /\ DenomNullifier(nh) \notin nullifier_records
        /\ IsValidRoot(r)
        /\ OracleAccepts(r, nh)
        /\ nullifier_records' = nullifier_records \cup {DenomNullifier(nh)}
        /\ spent' = [spent EXCEPT ![nh] = @ + 1]
        /\ SaveRootToHistory
        /\ merkle_root' = second.root
        /\ filled_subtrees' = second.filled
        /\ next_leaf_index' = next_leaf_index + 2
        /\ slot' = PlaceLeaf(PlaceLeaf(slot, next_leaf_index, c1),
                             next_leaf_index + 1, c2)
        /\ root_log' = Append(root_log, second.root)
        /\ UNCHANGED <<lamports, total_deposited, total_withdrawn,
                       deposit_count, withdrawal_count, commitment_leaves,
                       funded, payouts, poolacct>>

-----------------------------------------------------------------------------
(* Closing and re-creating the pool *)

(***************************************************************************)
(* close_pool by the config's authority: every lamport of the pool goes   *)
(* to the authority, its data is zeroed, and `close = authority` closes  *)
(* the config; with no lamports left the runtime deletes both accounts.  *)
(* The CommitmentLeaf and NullifierRecord PDAs are separate accounts and *)
(* stay.  While the pool is closed no instruction can load it, so its    *)
(* (zeroed) fields are left as they were.                                 *)
(***************************************************************************)
ClosePool(a) ==
    /\ pool_open
    /\ a = authority
    /\ pool_open' = FALSE
    /\ lamports' = 0
    /\ UNCHANGED <<pool, authority, commitment_leaves, nullifier_records,
                   history>>

(***************************************************************************)
(* initialize_pool by any signer, who becomes the authority: the `init`   *)
(* of the pool and config PDAs succeeds only while they do not exist; the *)
(* tree starts empty with the zero root, the ring and the stats at zero,  *)
(* and the payer funds the rent.  The notes' leaf and nullifier PDAs of an *)
(* earlier incarnation are still there; the history of leaf slots and    *)
(* roots starts again with the new tree.                                  *)
(***************************************************************************)
InitializePool(a) ==
    /\ ~pool_open
    /\ pool_open' = TRUE
    /\ authority' = a
    /\ merkle_root' = ZeroHashes[DEPTH]
    /\ next_leaf_index' = 0
    /\ filled_subtrees' = InitFilledSubtrees
    /\ root_history' = [i \in 0..K-1 |-> ZeroValue]
    /\ root_history_index' = 0
    /\ total_deposited' = 0 /\ total_withdrawn' = 0
    /\ deposit_count' = 0 /\ withdrawal_count' = 0
    /\ lamports' = RentMin
    /\ slot' = [i \in 0..Capacity-1 |-> 0]
    /\ root_log' = << ZeroHashes[DEPTH] >>
    /\ UNCHANGED <<commitment_leaves, nullifier_records, funded, spent,
                   payouts>>

-----------------------------------------------------------------------------
\* Withdrawal arguments: a root the pool holds, a note, a relayer fee.
WithdrawArgs == CandidateRoots \X Commitments \X RelayerFees

\* Transfer arguments: a root, the note spent, the new and change notes.
TransferArgs == CandidateRoots \X Commitments \X Commitments
                    \X (Commitments \cup {0})

Next ==
    \/ \E c \in Commitments : PrivateDeposit(c)
    \/ \E c \in Commitments : \E r \in SimpleDepositRoots(c) : SimpleDeposit(c, r)
    \/ \E c \in Commitments : UnifiedDeposit(c)
    \/ \E a \in WithdrawArgs : PrivateWithdraw(a[1], a[2], a[3])
    \/ \E a \in WithdrawArgs : VerifiedWithdraw(a[1], a[2], a[3])
    \/ \E a \in WithdrawArgs : UnifiedWithdraw(a[1], a[2], a[3])
    \/ \E a \in TransferArgs : PrivateTransfer(a[1], a[2], a[3], a[4])
    \/ \E a \in Authorities : ClosePool(a)
    \/ \E a \in Authorities : InitializePool(a)

Spec == Init /\ [][Next]_vars
-----------------------------------------------------------------------------
(* Properties *)

LeafValues == Commitments \cup {0}

\* The type of every variable.
TypeOK ==
    /\ merkle_root \in NodesOfHeight(LeafValues, DEPTH)
    /\ next_leaf_index \in Nat
    /\ \A i \in 0..DEPTH-1 : filled_subtrees[i] \in NodesOfHeight(LeafValues, i)
    /\ root_history \in [0..K-1 -> NodesOfHeight(LeafValues, DEPTH) \cup {ZeroValue}]
    /\ root_history_index \in 0..K-1
    /\ {total_deposited, total_withdrawn, deposit_count, withdrawal_count,
        lamports} \subseteq Nat
    /\ pool_open \in BOOLEAN /\ authority \in Authorities
    /\ commitment_leaves \subseteq Commitments
    /\ nullifier_records \subseteq {DenomNullifier(c) : c \in Commitments}
                                 \cup {PlainNullifier(c) : c \in Commitments}
    /\ slot \in [0..Capacity-1 -> LeafValues]
    /\ funded \subseteq Commitments
    /\ spent \in [Commitments -> Nat]
    /\ payouts \subseteq Nat

\* The roots current at the last K+1 root changes.
RecentRoots ==
    {root_log[i] : i \in (IF Len(root_log) > K THEN Len(root_log) - K ELSE 1)
                            ..Len(root_log)}

\* is_valid_root accepts exactly the roots that were current at one of the
\* last ROOT_HISTORY_SIZE + 1 root changes (spec 8: a root K+1 insertions
\* old is rejected, a younger one accepted), whichever deposit, transfer
\* or simple_deposit made them and however save_root_to_history's ring
\* index has wrapped.
RootHistoryWindow ==
    \A r \in Range(root_log) \cup {ZeroValue} :
        IsValidRoot(r) <=> r \in RecentRoots

\* The on-chain root is the root of the tree whose leaves are the
\* commitments in the order the deposits and transfers placed them: the
\* incremental insert of compute_new_root_zc, fed by filled_subtrees, never
\* drifts from the full tree, so a note stays provable.
MerkleRootMatchesLeaves == merkle_root = TreeRoot(slot)

\* While the pool exists, its account holds its rent-exempt minimum plus
\* what the stats say was deposited minus what was withdrawn, across every
\* deposit and withdrawal path (unified_withdraw checks its balance on the
\* stats) and across close_pool and a later initialize_pool.
LedgerMatchesLamports ==
    pool_open => lamports + total_withdrawn = RentMin + total_deposited

\* No note is consumed (withdrawn or transferred) twice: the nullifier PDA
\* of each path blocks every later spend of the same note.
NoNoteSpentTwice == \A c \in Commitments : spent[c] <= 1

\* Only a note whose deposit paid into the pool is ever withdrawn: a
\* withdrawal's proof ties it to a leaf a deposit created.
WithdrawOnlyFundedNotes == \A c \in Commitments : spent[c] > 0 => c \in funded
=============================================================================
