---------------------------- MODULE MCRunManager ----------------------------
(* Two calls of Start race for one key, beside a third call for that key   *)
(* or a call for another one.                                              *)
EXTENDS RunManager

CONSTANTS k1, k2

MCKeyOf == [t \in Tasks |-> IF t = 4 THEN k2 ELSE k1]

\* Tasks of one key are interchangeable: let them be requested in order.
ArriveInOrder ==
  \A s, t \in Tasks \ {4} : (s < t /\ pc[t] # "idle") => pc[s] # "idle"

\* Bound: the other key is used instead of the third call, not beside it.
ThreeCalls == pc[4] # "idle" => pc[3] = "idle"
=============================================================================
