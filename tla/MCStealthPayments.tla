------------------------- MODULE MCStealthPayments -------------------------
(***************************************************************************)
(* Model-checking instance of StealthPayments: two wallets, two valid     *)
(* curve points, two stealth addresses and one announcement log, with the *)
(* number of emitted TransferEvents bounded.                              *)
(***************************************************************************)
EXTENDS StealthPayments

CONSTANT MaxEvents   \* bound on blended transfers made

EventBound == Len(events) <= MaxEvents

Symmetry == Permutations(Wallets) \cup Permutations(Addresses)
=============================================================================
