--------------------------- MODULE BackgroundWork ---------------------------
(***************************************************************************)
(* What the run manager promises the rest of faux-seer, with none of its   *)
(* machinery: background runs are launched, may be told to stop, and       *)
(* finish; once the service is closing every live run has been told to     *)
(* stop; the service reports "drained" only when no run is live and none   *)
(* can be launched any more.  RunManager is shown to implement this.       *)
(***************************************************************************)
CONSTANTS Tasks      \* the background runs the process may ever launch

VARIABLES
  run,               \* run[t] \in {"absent", "live", "finished"}
  told,              \* told[t]: the live run t has been told to stop
  service            \* "open", "closing", "drained" or "killed"

vars == <<run, told, service>>

Live == {t \in Tasks : run[t] = "live"}
Up == service \in {"open", "closing"}

Init ==
  /\ run = [t \in Tasks |-> "absent"]
  /\ told = [t \in Tasks |-> FALSE]
  /\ service = "open"

\* A run launched while the service is closing is born stopped.
Launch(t) ==
  /\ Up
  /\ run[t] = "absent"
  /\ run' = [run EXCEPT ![t] = "live"]
  /\ \E b \in BOOLEAN : /\ (service = "closing") => b
                        /\ told' = [told EXCEPT ![t] = b]
  /\ UNCHANGED service

Tell(t) ==
  /\ Up
  /\ t \in Live
  /\ told' = [told EXCEPT ![t] = TRUE]
  /\ UNCHANGED <<run, service>>

Finish(t) ==
  /\ Up
  /\ t \in Live
  /\ run' = [run EXCEPT ![t] = "finished"]
  /\ told' = [told EXCEPT ![t] = FALSE]
  /\ UNCHANGED service

\* Closing tells every live run to stop, at once.
Close ==
  /\ service = "open"
  /\ service' = "closing"
  /\ told' = [t \in Tasks |-> t \in Live]
  /\ UNCHANGED run

Drain ==
  /\ service = "closing"
  /\ Live = {}
  /\ service' = "drained"
  /\ UNCHANGED <<run, told>>

\* The process gives up waiting; whatever is live dies with it.
Kill ==
  /\ service = "closing"
  /\ service' = "killed"
  /\ UNCHANGED <<run, told>>

Next ==
  \/ \E t \in Tasks : Launch(t) \/ Tell(t) \/ Finish(t)
  \/ Close
  \/ Drain
  \/ Kill

Spec == Init /\ [][Next]_vars
=============================================================================
