----------------------------- MODULE MCRecords -----------------------------
(* Three requests: starts and deletes of two replays, or trainings and     *)
(* deletions of two hashes in two projects; the two tables never meet.     *)
EXTENDS Records

\* Requests are interchangeable: it is enough to let them arrive in order.
ArriveInOrder ==
  \A p, q \in Requests : (p < q /\ pc[q] # "idle") => pc[p] # "idle"

\* Bound: one of the two tables is used.
OneTable ==
  \/ \A q \in Requests : op[q].kind \notin {"start", "delete"}
  \/ \A q \in Requests : op[q].kind \notin {"train", "forget"}
=============================================================================
