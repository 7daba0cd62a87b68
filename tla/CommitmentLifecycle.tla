------------------------- MODULE CommitmentLifecycle -------------------------
(***************************************************************************)
(* What a withdrawal commitment promises, with time, lamports and the      *)
(* Merkle tree left out.  A commitment is created once per key, is then   *)
(* revealed or cancelled but never both, and may be closed, after which   *)
(* the key can be committed again.  A reveal withdraws its note, and a    *)
(* note is withdrawn at most once, by a reveal or by a direct withdrawal. *)
(* CommitReveal implements it under the mapping given there.              *)
(***************************************************************************)
EXTENDS TLC

CONSTANTS Keys,   \* commitment keys <<owner, note>>
          Notes   \* the notes a commitment can reveal

VARIABLES status,     \* key -> "Pending" | "Revealed" | "Cancelled"
          withdrawn   \* the notes already withdrawn

lvars == <<status, withdrawn>>

LInit == status = <<>> /\ withdrawn = {}

Commit(k) ==
    /\ k \notin DOMAIN status
    /\ status' = (k :> "Pending") @@ status
    /\ UNCHANGED withdrawn

\* A pending commitment revealed: its note is withdrawn, once.
Reveal(k) ==
    /\ k \in DOMAIN status
    /\ status[k] = "Pending"
    /\ k[2] \notin withdrawn
    /\ status' = [status EXCEPT ![k] = "Revealed"]
    /\ withdrawn' = withdrawn \cup {k[2]}

\* Cancelling is allowed until the commitment is revealed.
Cancel(k) ==
    /\ k \in DOMAIN status
    /\ status[k] # "Revealed"
    /\ status' = [status EXCEPT ![k] = "Cancelled"]
    /\ UNCHANGED withdrawn

\* The account is closed; which states may close depends on a clock this
\* specification does not have.
Close(k) ==
    /\ k \in DOMAIN status
    /\ status' = [j \in DOMAIN status \ {k} |-> status[j]]
    /\ UNCHANGED withdrawn

\* A note withdrawn without a commitment.
Withdraw(n) ==
    /\ n \notin withdrawn
    /\ withdrawn' = withdrawn \cup {n}
    /\ UNCHANGED status

LNext ==
    \/ \E k \in Keys : Commit(k) \/ Reveal(k) \/ Cancel(k) \/ Close(k)
    \/ \E n \in Notes : Withdraw(n)

LSpec == LInit /\ [][LNext]_lvars
====
