---------------------------- MODULE MCTeeRelayer ----------------------------
(* The TEE relayer instantiated for TLC. *)
EXTENDS TeeRelayer

CONSTANT MaxLamports   \* the most lamports the RelayerState address holds

\* Bounds the funding; request ids are bounded by RequestIds in TRNext.
LamportsBound == state_lamports <= MaxLamports

Symmetry == Permutations(Nullifiers)
====
