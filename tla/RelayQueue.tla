----------------------------- MODULE RelayQueue -----------------------------
(***************************************************************************)
(* What the TEE relayer promises, with the accounts and the lamports left  *)
(* out: requests enter a queue under fresh ids, and each pending request  *)
(* is resolved once, either failed or paid against a nullifier that was   *)
(* never paid before.  TeeRelayer implements it under the mapping given   *)
(* there (request statuses, and the ProcessedMarker PDAs as the paid set). *)
(***************************************************************************)
EXTENDS TLC

CONSTANTS RequestIds, Nullifiers

VARIABLES queue,  \* request id -> "Pending" | "Processed" | "Failed"
          paid    \* the nullifiers some payout has consumed

qvars == <<queue, paid>>

QInit == queue = <<>> /\ paid = {}

\* A new request, under an id not used before.
Enqueue(id) ==
    /\ id \notin DOMAIN queue
    /\ queue' = (id :> "Pending") @@ queue
    /\ UNCHANGED paid

\* A pending request paid out against a fresh nullifier.
Pay(id, n) ==
    /\ id \in DOMAIN queue
    /\ queue[id] = "Pending"
    /\ n \notin paid
    /\ queue' = [queue EXCEPT ![id] = "Processed"]
    /\ paid' = paid \cup {n}

\* A pending request given up.
Fail(id) ==
    /\ id \in DOMAIN queue
    /\ queue[id] = "Pending"
    /\ queue' = [queue EXCEPT ![id] = "Failed"]
    /\ UNCHANGED paid

QNext ==
    \/ \E id \in RequestIds : Enqueue(id)
    \/ \E id \in RequestIds, n \in Nullifiers : Pay(id, n)
    \/ \E id \in RequestIds : Fail(id)

QSpec == QInit /\ [][QNext]_qvars
====
