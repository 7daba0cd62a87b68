--------------------------- MODULE MCPrivacyPool ---------------------------
(***************************************************************************)
(* Model-checking instances of PrivacyPool.  Each run restricts the       *)
(* instructions to the paths its question is about; the constants are    *)
(* given in the .cfg files.                                               *)
(***************************************************************************)
EXTENDS PrivacyPool

CONSTANT MaxOps     \* bound on leaves inserted plus withdrawals made

\* The state bound: the pool has seen at most MaxOps insertions and
\* withdrawals.
OpsBound == next_leaf_index + withdrawal_count <= MaxOps

\* The paths with on-chain Groth16 verification: private_deposit and
\* verified_withdraw.
NextVerified ==
    \/ \E c \in Commitments : PrivateDeposit(c)
    \/ \E a \in WithdrawArgs : VerifiedWithdraw(a[1], a[2], a[3])

\* The Groth16 paths across close_pool and a new initialize_pool.
NextGroth16 ==
    \/ NextVerified
    \/ \E a \in Authorities : ClosePool(a)
    \/ \E a \in Authorities : InitializePool(a)
SpecGroth16 == Init /\ [][NextGroth16]_vars

\* A note withdrawn through verified_withdraw and through unified_withdraw.
NextCrossPath ==
    \/ NextVerified
    \/ \E a \in WithdrawArgs : UnifiedWithdraw(a[1], a[2], a[3])
SpecCrossPath == Init /\ [][NextCrossPath]_vars

\* The three deposit paths writing to one tree: private_deposit,
\* simple_deposit with the indexer's true root, and unified_deposit.
NextRootDrift ==
    \/ \E c \in Commitments : PrivateDeposit(c)
    \/ \E c \in Commitments : \E r \in SimpleDepositRoots(c) : SimpleDeposit(c, r)
    \/ \E c \in Commitments : UnifiedDeposit(c)
SpecRootDrift == Init /\ [][NextRootDrift]_vars
=============================================================================
