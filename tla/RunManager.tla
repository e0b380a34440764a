----------------------------- MODULE RunManager -----------------------------
(***************************************************************************)
(* internal/runmgr: the manager that owns background runs, together with   *)
(* the shutdown sequence of cmd/faux-seer/main.go that drives it.          *)
(*                                                                         *)
(* A member of Tasks is one call of Manager.Start and the goroutine it     *)
(* launches; KeyOf gives the key the call names.  Several tasks may share  *)
(* a key: the service starts a new task under the key of an older one.     *)
(*                                                                         *)
(*   pc[t]   idle -> request        the HTTP handler is running            *)
(*           -> derived             the task's context exists    (line 53) *)
(*           -> registered          its cancel handle is stored  (54-59)   *)
(*           -> running             counted in wg and executing  (61-62)   *)
(*           -> returned            task.Run returned or panicked          *)
(*           -> unregistered        the deferred delete ran      (65-69)   *)
(*           -> done                context released, wg.Done    (63-64)   *)
(***************************************************************************)
EXTENDS Integers, FiniteSets

CONSTANTS Keys, Tasks, KeyOf,
          Callers,         \* goroutines that may call Manager.Cancel
          NoTask

ASSUME TasksAssumption == IsFiniteSet(Tasks) /\ NoTask \notin Tasks
ASSUME KeyAssumption == KeyOf \in [Tasks -> Keys]

VARIABLES
  pc,                \* where each task, or the handler starting it, is
  ctxDone,           \* ctxDone[t]: the context of task t is cancelled
  root,              \* the manager's own context: TRUE once cancelled
  inflight,          \* Manager.inflight: the task whose handle a key holds
  wg,                \* Manager.wg
  calling,           \* calling[c]: the handle Cancel read and has yet to call
  phase,             \* where main() is
  expired            \* shutdownCtx has reached its five-second deadline

vars == <<pc, ctxDone, root, inflight, wg, calling, phase, expired>>

Handling == {"request", "derived", "registered"}
Executing == {"running", "returned", "unregistered"}
PCs == {"idle", "done"} \cup Handling \cup Executing
Exits == {"clean", "timedOut", "aborted"}
Phases == {"serving", "signalled", "stopping", "draining", "waiting"} \cup Exits

Alive == phase \notin Exits
Listening == phase \in {"serving", "signalled", "stopping"}
Counted == {t \in Tasks : pc[t] \in Executing}
Goto(t, from, to) == pc[t] = from /\ pc' = [pc EXCEPT ![t] = to]

-----------------------------------------------------------------------------
Init ==
  /\ pc = [t \in Tasks |-> "idle"]
  /\ ctxDone = [t \in Tasks |-> FALSE]
  /\ root = FALSE
  /\ inflight = [k \in Keys |-> NoTask]
  /\ wg = 0
  /\ calling = [c \in Callers |-> NoTask]
  /\ phase = "serving"
  /\ expired = FALSE

\* net/http accepts a request whose handler is going to start task t.
Accept(t) ==
  /\ Listening
  /\ Goto(t, "idle", "request")
  /\ UNCHANGED <<ctxDone, root, inflight, wg, calling, phase, expired>>

\* Mutant of Derive: the task context is not derived from the manager's.
DeriveFromBackground(t) ==
  /\ Alive
  /\ Goto(t, "request", "derived")
  /\ ctxDone' = [ctxDone EXCEPT ![t] = FALSE]
  /\ UNCHANGED <<root, inflight, wg, calling, phase, expired>>

\* A child of a cancelled context is born cancelled.
Derive(t) ==
  /\ Alive
  /\ Goto(t, "request", "derived")
  /\ ctxDone' = [ctxDone EXCEPT ![t] = root]
  /\ UNCHANGED <<root, inflight, wg, calling, phase, expired>>

\* Mutant of Register: the previous handles of all keys are called.
RegisterCancelsAll(t) ==
  /\ Alive
  /\ Goto(t, "derived", "registered")
  /\ ctxDone' = [u \in Tasks |-> ctxDone[u] \/ \E k \in Keys : inflight[k] = u]
  /\ inflight' = [inflight EXCEPT ![KeyOf[t]] = t]
  /\ UNCHANGED <<root, wg, calling, phase, expired>>

\* The critical section of Start: cancel the previous holder, take its place.
Register(t) ==
  LET previous == inflight[KeyOf[t]]
  IN /\ Alive
     /\ Goto(t, "derived", "registered")
     /\ ctxDone' = [u \in Tasks |-> ctxDone[u] \/ u = previous]
     /\ inflight' = [inflight EXCEPT ![KeyOf[t]] = t]
     /\ UNCHANGED <<root, wg, calling, phase, expired>>

\* The task is counted before its goroutine exists.
Spawn(t) ==
  /\ Alive
  /\ Goto(t, "registered", "running")
  /\ wg' = wg + 1
  /\ UNCHANGED <<ctxDone, root, inflight, calling, phase, expired>>

\* Mutant of Return: the task ends only when it is cancelled.
ReturnWhenCancelled(t) ==
  /\ Alive
  /\ ctxDone[t]
  /\ Goto(t, "running", "returned")
  /\ UNCHANGED <<ctxDone, root, inflight, wg, calling, phase, expired>>

\* task.Run returns, with or without an error, or panics and is recovered.
Return(t) ==
  /\ Alive
  /\ Goto(t, "running", "returned")
  /\ UNCHANGED <<ctxDone, root, inflight, wg, calling, phase, expired>>

\* Mutant of Unregister: the handle is never deleted.
UnregisterLeaks(t) ==
  /\ Alive
  /\ Goto(t, "returned", "unregistered")
  /\ UNCHANGED <<ctxDone, root, inflight, wg, calling, phase, expired>>
\* Mutant of Unregister: every handle is deleted.
UnregisterClears(t) ==
  /\ Alive
  /\ Goto(t, "returned", "unregistered")
  /\ inflight' = [k \in Keys |-> NoTask]
  /\ UNCHANGED <<ctxDone, root, wg, calling, phase, expired>>

\* The deferred delete removes whatever handle the key holds, which need not
\* be this task's own.
Unregister(t) ==
  /\ Alive
  /\ Goto(t, "returned", "unregistered")
  /\ inflight' = [inflight EXCEPT ![KeyOf[t]] = NoTask]
  /\ UNCHANGED <<ctxDone, root, wg, calling, phase, expired>>

\* Mutant of Release: wg.Done is skipped when the context was cancelled.
ReleaseUnlessCancelled(t) ==
  /\ Alive
  /\ Goto(t, "unregistered", "done")
  /\ wg' = IF ctxDone[t] THEN wg ELSE wg - 1
  /\ ctxDone' = [ctxDone EXCEPT ![t] = TRUE]
  /\ UNCHANGED <<root, inflight, calling, phase, expired>>

\* Mutant of Release: wg.Done is called twice.
ReleaseTwice(t) ==
  /\ Alive
  /\ Goto(t, "unregistered", "done")
  /\ ctxDone' = [ctxDone EXCEPT ![t] = TRUE]
  /\ wg' = wg - 2
  /\ UNCHANGED <<root, inflight, calling, phase, expired>>

\* The last two deferred calls: cancel() and wg.Done().
Release(t) ==
  /\ Alive
  /\ Goto(t, "unregistered", "done")
  /\ ctxDone' = [ctxDone EXCEPT ![t] = TRUE]
  /\ wg' = wg - 1
  /\ UNCHANGED <<root, inflight, calling, phase, expired>>

-----------------------------------------------------------------------------
\* Manager.Cancel(k) reads the handle under the lock and calls it after.
CancelLookup(c, k) ==
  /\ Alive
  /\ calling[c] = NoTask
  /\ inflight[k] # NoTask
  /\ calling' = [calling EXCEPT ![c] = inflight[k]]
  /\ UNCHANGED <<pc, ctxDone, root, inflight, wg, phase, expired>>

CancelCall(c) ==
  /\ Alive
  /\ calling[c] # NoTask
  /\ ctxDone' = [ctxDone EXCEPT ![calling[c]] = TRUE]
  /\ calling' = [calling EXCEPT ![c] = NoTask]
  /\ UNCHANGED <<pc, root, inflight, wg, phase, expired>>

\* Cancelling a context cancels every context derived from it.
CancelRoot ==
  /\ root' = TRUE
  /\ ctxDone' = [t \in Tasks |-> ctxDone[t] \/ pc[t] \notin {"idle", "request"}]

\* A signal, or a failing listener, cancels the context main() handed to New.
Signal ==
  /\ phase = "serving"
  /\ phase' = "signalled"
  /\ CancelRoot
  /\ UNCHANGED <<pc, inflight, wg, calling, expired>>

\* main() creates shutdownCtx and calls CancelAll.
CancelAll ==
  /\ phase = "signalled"
  /\ phase' = "stopping"
  /\ CancelRoot
  /\ UNCHANGED <<pc, inflight, wg, calling, expired>>

Deadline ==
  /\ phase \in {"stopping", "draining", "waiting"}
  /\ ~expired
  /\ expired' = TRUE
  /\ UNCHANGED <<pc, ctxDone, root, inflight, wg, calling, phase>>

\* Mutant of BeginShutdown: main() waits for the runs with the listener open.
BeginWait ==
  /\ phase = "stopping"
  /\ phase' = "waiting"
  /\ UNCHANGED <<pc, ctxDone, root, inflight, wg, calling, expired>>

\* http.Server.Shutdown closes the listener ...
BeginShutdown ==
  /\ phase = "stopping"
  /\ phase' = "draining"
  /\ UNCHANGED <<pc, ctxDone, root, inflight, wg, calling, expired>>

\* ... and returns once no handler is active ...
HandlersGone ==
  /\ phase = "draining"
  /\ \A t \in Tasks : pc[t] \notin Handling
  /\ phase' = "waiting"
  /\ UNCHANGED <<pc, ctxDone, root, inflight, wg, calling, expired>>

\* ... or fails at the deadline, and main() exits at once.
ShutdownFails ==
  /\ phase = "draining"
  /\ expired
  /\ phase' = "aborted"
  /\ UNCHANGED <<pc, ctxDone, root, inflight, wg, calling, expired>>

\* Mutant of WaitReturns: wait for the map to empty instead of for wg.
WaitOnInflight ==
  /\ phase = "waiting"
  /\ \/ (\A k \in Keys : inflight[k] = NoTask) /\ phase' = "clean"
     \/ expired /\ phase' = "timedOut"
  /\ UNCHANGED <<pc, ctxDone, root, inflight, wg, calling, expired>>

\* WaitContext: the select takes whichever channel is ready.
WaitReturns ==
  /\ phase = "waiting"
  /\ \/ wg = 0 /\ phase' = "clean"
     \/ expired /\ phase' = "timedOut"
  /\ UNCHANGED <<pc, ctxDone, root, inflight, wg, calling, expired>>

Terminated == phase \in Exits /\ UNCHANGED vars

-----------------------------------------------------------------------------
Handler(t) == Derive(t) \/ Register(t) \/ Spawn(t)
Goroutine(t) == Return(t) \/ Unregister(t) \/ Release(t)
Main == CancelAll \/ BeginShutdown \/ HandlersGone \/ ShutdownFails \/ WaitReturns

Next ==
  \/ \E t \in Tasks : Accept(t) \/ Handler(t) \/ Goroutine(t)
  \/ \E c \in Callers : CancelCall(c) \/ \E k \in Keys : CancelLookup(c, k)
  \/ Signal
  \/ Deadline
  \/ Main
  \/ Terminated

(***************************************************************************)
(* Handlers and goroutines keep being scheduled; every provider call a     *)
(* task makes is bounded by OUTBOUND_TIMEOUT, so task.Run returns; main()  *)
(* keeps running after the signal.  Nothing is assumed of the deadline.    *)
(***************************************************************************)
Fairness ==
  /\ \A t \in Tasks : WF_vars(Handler(t)) /\ WF_vars(Goroutine(t))
  /\ WF_vars(Main)

Spec == Init /\ [][Next]_vars
FairSpec == Spec /\ Fairness

-----------------------------------------------------------------------------
\* Every variable stays in its type; in particular wg never goes negative,
\* which sync.WaitGroup answers with a panic.
TypeOK ==
  /\ pc \in [Tasks -> PCs]
  /\ ctxDone \in [Tasks -> BOOLEAN]
  /\ root \in BOOLEAN
  /\ inflight \in [Keys -> Tasks \cup {NoTask}]
  /\ wg \in Nat
  /\ calling \in [Callers -> Tasks \cup {NoTask}]
  /\ phase \in Phases
  /\ expired \in BOOLEAN

\* A stored handle belongs to a task of that very key which has not yet
\* unregistered: the map never keeps the handle of a finished run, however
\* Start calls and deferred deletes interleave (runmgr.go 54-59, 65-69).
HandleIsOfLiveRun ==
  \A k \in Keys : inflight[k] # NoTask =>
    /\ KeyOf[inflight[k]] = k
    /\ pc[inflight[k]] \in {"registered", "running", "returned"}

\* A started run can be missing from the map only because another task of
\* the same key took its place or removed the entry on its way out: runs of
\* different keys never disturb each other's handles.
HandleLostOnlyToSameKey ==
  \A t \in Tasks :
    (pc[t] \in {"registered", "running", "returned"} /\ inflight[KeyOf[t]] # t) =>
      \E u \in Tasks \ {t} :
        /\ KeyOf[u] = KeyOf[t]
        /\ inflight[KeyOf[t]] = u \/ pc[u] \in {"unregistered", "done"}

\* "CancelAll stops every run, including runs started later": from the signal
\* on no task holds a live context, wherever its Start call was caught.
CancelAllReachesEveryRun ==
  phase # "serving" =>
    \A t \in Tasks : pc[t] \notin {"idle", "request"} => ctxDone[t]

\* WaitContext returns nil only when every run that was ever started has
\* returned and no handler is left that could start another one.
WaitCoversEveryRun ==
  phase = "clean" => \A t \in Tasks : pc[t] \in {"idle", "done"}

\* A run's context is cancelled only by a newer run of its key, by a Cancel
\* that had looked it up, by its own end, or by the shutdown.
CancelledForAReason ==
  [][\A t \in Tasks : (~ctxDone[t] /\ ctxDone'[t]) =>
       \/ pc'[t] = "done"
       \/ root'
       \/ \E u \in Tasks : KeyOf[u] = KeyOf[t] /\ pc[u] = "derived" /\ pc'[u] = "registered"
       \/ \E c \in Callers : calling[c] = t /\ calling'[c] = NoTask]_vars

\* Every handler that has begun to start a run brings it to its end, unless
\* the process exits first.
EveryRunFinishes ==
  \A t \in Tasks : (pc[t] = "request") ~> (pc[t] = "done" \/ ~Alive)

\* After the signal the process exits, even if the deadline never fires:
\* the handlers leave, the cancelled runs return and wg reaches zero.
ShutdownCompletes == (phase = "signalled") ~> ~Alive

-----------------------------------------------------------------------------
(***************************************************************************)
(* The manager implements BackgroundWork: a task is a live run from wg.Add *)
(* to wg.Done, and the service closes with the signal.                     *)
(***************************************************************************)
RunState ==
  [t \in Tasks |-> IF pc[t] \in Executing THEN "live"
                   ELSE IF pc[t] = "done" THEN "finished" ELSE "absent"]
Told == [t \in Tasks |-> pc[t] \in Executing /\ ctxDone[t]]
Service ==
  CASE phase = "serving" -> "open"
    [] phase = "clean" -> "drained"
    [] phase \in {"timedOut", "aborted"} -> "killed"
    [] OTHER -> "closing"

Work == INSTANCE BackgroundWork WITH run <- RunState, told <- Told, service <- Service

\* Launching, stopping, finishing and draining happen as BackgroundWork says.
ImplementsBackgroundWork == Work!Spec
=============================================================================
