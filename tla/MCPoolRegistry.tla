--------------------------- MODULE MCPoolRegistry ---------------------------
(***************************************************************************)
(* The stealth program's fixed-denomination pool on its Groth16 path,     *)
(* beside the program's denomination registry.  No pool instruction reads *)
(* the registry (initialize_pool checks is_valid_denomination, the        *)
(* defaults only), so the two interleave as independent accounts of one   *)
(* program.                                                               *)
(***************************************************************************)
EXTENDS MCPrivacyPool, DenominationRegistry

\* DEFAULT_DENOMINATIONS scaled down: two defaults, in 0.1 SOL units.
MCDefaultDenominations == << 1, 10 >>

\* A pool step leaves the registry alone, a registry step the pool.
NextPoolRegistry ==
    \/ NextGroth16 /\ UNCHANGED dvars
    \/ DRNext /\ UNCHANGED vars

SpecPoolRegistry ==
    Init /\ DRInit /\ [][NextPoolRegistry]_<<vars, dvars>>
=============================================================================
