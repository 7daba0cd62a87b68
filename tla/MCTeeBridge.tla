---------------------------- MODULE MCTeeBridge -----------------------------
(* The TEE bridge instantiated for TLC. *)
EXTENDS TeeBridge

CONSTANT MaxDeposited   \* the most lamports one user moves in

\* Bounds the deposits of each user; everything else is bounded by them.
DepositBound == \A u \in Users : deposited[u] <= MaxDeposited

Symmetry == Permutations(Users) \cup Permutations(CommitmentVals)
====
