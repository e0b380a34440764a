-------------------------- MODULE RunManagerProofs --------------------------
(***************************************************************************)
(* For every set of tasks, keys and callers: the invariants of RunManager, *)
(* and that it implements BackgroundWork.                                  *)
(***************************************************************************)
EXTENDS RunManager, FiniteSetTheorems, TLAPS

\* The strengthening that makes the invariants inductive: wg is the number
\* of executing tasks, the root context is cancelled from the signal on, and
\* no handler is left once main() waits for the runs.
WgCounts == wg = Cardinality(Counted)
RootFollowsPhase == root = (phase # "serving")
HandlersLeft ==
  phase \in {"waiting", "clean", "timedOut"} => \A t \in Tasks : pc[t] \notin Handling

IInv ==
  /\ TypeOK
  /\ HandleIsOfLiveRun
  /\ HandleLostOnlyToSameKey
  /\ CancelAllReachesEveryRun
  /\ WaitCoversEveryRun
  /\ WgCounts
  /\ RootFollowsPhase
  /\ HandlersLeft

-----------------------------------------------------------------------------
\* The states of a task as the steps below tell them apart.
LEMMA Labels ==
  /\ PCs = {"idle", "done", "request", "derived", "registered",
            "running", "returned", "unregistered"}
  /\ Handling = {"request", "derived", "registered"}
  /\ Executing = {"running", "returned", "unregistered"}
  /\ Phases = {"serving", "signalled", "stopping", "draining", "waiting",
               "clean", "timedOut", "aborted"}
  /\ Exits = {"clean", "timedOut", "aborted"}
BY DEF PCs, Handling, Executing, Phases, Exits

\* The set of executing tasks is finite, so wg can count it.
LEMMA CountedFinite == IsFiniteSet(Counted)
BY TasksAssumption, FS_Subset DEF Counted

\* Types are preserved by every step.
LEMMA TypeStep == TypeOK /\ WgCounts /\ [Next]_vars => TypeOK'
<1> SUFFICES ASSUME TypeOK, WgCounts, [Next]_vars PROVE TypeOK'
  OBVIOUS
<1> USE TasksAssumption, KeyAssumption, Labels DEF TypeOK
<1>1. ASSUME NEW t \in Tasks, Accept(t) PROVE TypeOK'
  BY <1>1 DEF Accept, Goto
<1>2. ASSUME NEW t \in Tasks, Handler(t) PROVE TypeOK'
  <2>1. CASE Derive(t)
    BY <2>1 DEF Derive, Goto
  <2>2. CASE Register(t)
    BY <2>2 DEF Register, Goto
  <2>3. CASE Spawn(t)
    BY <2>3 DEF Spawn, Goto
  <2>q. QED BY <1>2, <2>1, <2>2, <2>3 DEF Handler
<1>3. ASSUME NEW t \in Tasks, Goroutine(t) PROVE TypeOK'
  <2>1. CASE Return(t)
    BY <2>1 DEF Return, Goto
  <2>2. CASE Unregister(t)
    BY <2>2 DEF Unregister, Goto
  <2>3. CASE Release(t)
    <3>1. t \in Counted
      BY <2>3 DEF Release, Goto, Counted
    <3>2. wg # 0
      BY <3>1, CountedFinite, FS_EmptySet DEF WgCounts
    <3>q. QED BY <2>3, <3>2 DEF Release, Goto
  <2>q. QED BY <1>3, <2>1, <2>2, <2>3 DEF Goroutine
<1>4. ASSUME NEW c \in Callers, CancelCall(c) PROVE TypeOK'
  BY <1>4 DEF CancelCall
<1>5. ASSUME NEW c \in Callers, NEW k \in Keys, CancelLookup(c, k) PROVE TypeOK'
  BY <1>5 DEF CancelLookup
<1>6. CASE Signal
  BY <1>6 DEF Signal, CancelRoot
<1>7. CASE Deadline
  BY <1>7 DEF Deadline
<1>8. CASE Main
  <2>1. CASE CancelAll
    BY <2>1 DEF CancelAll, CancelRoot
  <2>2. CASE BeginShutdown \/ HandlersGone \/ ShutdownFails \/ WaitReturns
    BY <2>2 DEF BeginShutdown, HandlersGone, ShutdownFails, WaitReturns
  <2>q. QED BY <1>8, <2>1, <2>2 DEF Main
<1>9. CASE UNCHANGED vars
  BY <1>9 DEF vars
<1>q. QED
  BY <1>1, <1>2, <1>3, <1>4, <1>5, <1>6, <1>7, <1>8, <1>9 DEF Next, Terminated

\* A step that takes no task into or out of its goroutine leaves the count.
LEMMA CountedSame ==
  ASSUME TypeOK, NEW t \in Tasks, NEW s \in PCs, pc' = [pc EXCEPT ![t] = s],
         (pc[t] \in Executing) <=> (s \in Executing)
  PROVE  Counted' = Counted
BY DEF Counted, TypeOK

\* wg follows the executing tasks through every step.
LEMMA WgStep == TypeOK /\ WgCounts /\ [Next]_vars => WgCounts'
<1> SUFFICES ASSUME TypeOK, WgCounts, [Next]_vars PROVE WgCounts'
  OBVIOUS
<1> USE Labels
<1>a. ASSUME wg' = wg, Counted' = Counted PROVE WgCounts'
  BY <1>a DEF WgCounts
<1>b. ASSUME wg' = wg, pc' = pc PROVE WgCounts'
  BY <1>b, <1>a DEF Counted
<1>1. ASSUME NEW t \in Tasks, Accept(t) \/ Derive(t) \/ Register(t) \/ Return(t) \/ Unregister(t)
      PROVE WgCounts'
  <2>1. wg' = wg
    BY <1>1 DEF Accept, Derive, Register, Return, Unregister
  <2>2. Counted' = Counted
    BY <1>1, CountedSame DEF Accept, Derive, Register, Return, Unregister, Goto
  <2>q. QED BY <2>1, <2>2, <1>a
<1>2. ASSUME NEW t \in Tasks, Spawn(t) PROVE WgCounts'
  <2>1. Counted' = Counted \cup {t} /\ t \notin Counted
    BY <1>2 DEF Spawn, Goto, Counted, TypeOK
  <2>2. Cardinality(Counted \cup {t}) = Cardinality(Counted) + 1
    BY <2>1, CountedFinite, FS_AddElement
  <2>q. QED BY <1>2, <2>1, <2>2 DEF Spawn, WgCounts
<1>3. ASSUME NEW t \in Tasks, Release(t) PROVE WgCounts'
  <2>1. Counted' = Counted \ {t} /\ t \in Counted
    BY <1>3 DEF Release, Goto, Counted, TypeOK
  <2>2. Cardinality(Counted \ {t}) = Cardinality(Counted) - 1
    BY <2>1, CountedFinite, FS_RemoveElement
  <2>q. QED BY <1>3, <2>1, <2>2 DEF Release, WgCounts
<1>4. ASSUME NEW c \in Callers, CancelCall(c) PROVE WgCounts'
  BY <1>4, <1>b DEF CancelCall
<1>5. ASSUME NEW c \in Callers, NEW k \in Keys, CancelLookup(c, k) PROVE WgCounts'
  BY <1>5, <1>b DEF CancelLookup
<1>6. CASE Signal \/ Deadline \/ Main \/ UNCHANGED vars
  BY <1>6, <1>b DEF Signal, Deadline, Main, CancelAll, BeginShutdown, HandlersGone,
                    ShutdownFails, WaitReturns, vars
<1>q. QED
  BY <1>1, <1>2, <1>3, <1>4, <1>5, <1>6 DEF Next, Handler, Goroutine, Terminated

\* Handles stay with live runs of their key.
LEMMA HandleStep == TypeOK /\ HandleIsOfLiveRun /\ [Next]_vars => HandleIsOfLiveRun'
<1> SUFFICES ASSUME TypeOK, HandleIsOfLiveRun, [Next]_vars PROVE HandleIsOfLiveRun'
  OBVIOUS
<1> USE TasksAssumption, KeyAssumption, Labels DEF TypeOK
<1>a. ASSUME inflight' = inflight, pc' = pc PROVE HandleIsOfLiveRun'
  BY <1>a DEF HandleIsOfLiveRun
<1>1. ASSUME NEW t \in Tasks, Accept(t) \/ Derive(t) \/ Spawn(t) \/ Return(t) \/ Release(t)
      PROVE HandleIsOfLiveRun'
  <2>1. inflight' = inflight
    BY <1>1 DEF Accept, Derive, Spawn, Return, Release
  <2>2. \A u \in Tasks : pc[u] \in {"registered", "running", "returned"} =>
                         pc'[u] \in {"registered", "running", "returned"}
    BY <1>1 DEF Accept, Derive, Spawn, Return, Release, Goto
  <2>q. QED BY <2>1, <2>2 DEF HandleIsOfLiveRun
<1>2. ASSUME NEW t \in Tasks, Register(t) PROVE HandleIsOfLiveRun'
  BY <1>2 DEF Register, Goto, HandleIsOfLiveRun
<1>3. ASSUME NEW t \in Tasks, Unregister(t) PROVE HandleIsOfLiveRun'
  BY <1>3 DEF Unregister, Goto, HandleIsOfLiveRun
<1>4. ASSUME NEW c \in Callers, CancelCall(c) PROVE HandleIsOfLiveRun'
  BY <1>4, <1>a DEF CancelCall
<1>5. ASSUME NEW c \in Callers, NEW k \in Keys, CancelLookup(c, k) PROVE HandleIsOfLiveRun'
  BY <1>5, <1>a DEF CancelLookup
<1>6. CASE Signal \/ Deadline \/ Main \/ UNCHANGED vars
  BY <1>6, <1>a DEF Signal, Deadline, Main, CancelAll, BeginShutdown, HandlersGone,
                    ShutdownFails, WaitReturns, vars
<1>q. QED
  BY <1>1, <1>2, <1>3, <1>4, <1>5, <1>6 DEF Next, Handler, Goroutine, Terminated

\* A run loses its handle only to a task of its own key.
LEMMA LostStep ==
  TypeOK /\ HandleIsOfLiveRun /\ HandleLostOnlyToSameKey /\ [Next]_vars
    => HandleLostOnlyToSameKey'
<1> SUFFICES ASSUME TypeOK, HandleIsOfLiveRun, HandleLostOnlyToSameKey, [Next]_vars
             PROVE HandleLostOnlyToSameKey'
  OBVIOUS
<1> USE TasksAssumption, KeyAssumption, Labels DEF TypeOK
<1>a. ASSUME inflight' = inflight, pc' = pc PROVE HandleLostOnlyToSameKey'
  BY <1>a DEF HandleLostOnlyToSameKey
<1>1. ASSUME NEW t \in Tasks, Accept(t) \/ Derive(t) \/ Spawn(t) \/ Return(t) \/ Release(t)
      PROVE HandleLostOnlyToSameKey'
  <2>1. inflight' = inflight
    BY <1>1 DEF Accept, Derive, Spawn, Return, Release
  <2>2. \A u \in Tasks : pc'[u] \in {"registered", "running", "returned"} =>
                         pc[u] \in {"registered", "running", "returned"}
    BY <1>1 DEF Accept, Derive, Spawn, Return, Release, Goto
  <2>3. \A u \in Tasks : pc[u] \in {"unregistered", "done"} => pc'[u] \in {"unregistered", "done"}
    BY <1>1 DEF Accept, Derive, Spawn, Return, Release, Goto
  <2>q. QED BY <2>1, <2>2, <2>3 DEF HandleLostOnlyToSameKey
<1>2. ASSUME NEW t \in Tasks, Register(t) PROVE HandleLostOnlyToSameKey'
  <2>1. \A u \in Tasks \ {t} : pc'[u] = pc[u]
    BY <1>2 DEF Register, Goto
  <2>2. inflight'[KeyOf[t]] = t /\ \A k \in Keys \ {KeyOf[t]} : inflight'[k] = inflight[k]
    BY <1>2 DEF Register
  <2>3. pc[t] = "derived"
    BY <1>2 DEF Register, Goto
  <2>4. SUFFICES ASSUME NEW u \in Tasks, pc'[u] \in {"registered", "running", "returned"},
                        inflight'[KeyOf[u]] # u
                 PROVE \E v \in Tasks \ {u} : /\ KeyOf[v] = KeyOf[u]
                                              /\ \/ inflight'[KeyOf[u]] = v
                                                 \/ pc'[v] \in {"unregistered", "done"}
    BY DEF HandleLostOnlyToSameKey
  <2>5. u # t
    BY <2>2, <2>4
  <2>6. CASE KeyOf[u] = KeyOf[t]
    BY <2>2, <2>5, <2>6
  <2>7. CASE KeyOf[u] # KeyOf[t]
    <3>1. PICK v \in Tasks \ {u} : /\ KeyOf[v] = KeyOf[u]
                                   /\ inflight[KeyOf[u]] = v \/ pc[v] \in {"unregistered", "done"}
      BY <2>1, <2>2, <2>4, <2>5, <2>7 DEF HandleLostOnlyToSameKey
    <3>2. v \in Tasks \ {t}
      BY <3>1, <2>7
    <3>3. pc'[v] = pc[v]
      BY <3>2, <2>1
    <3>4. KeyOf[u] \in Keys \ {KeyOf[t]}
      BY <2>7
    <3>5. inflight'[KeyOf[u]] = inflight[KeyOf[u]]
      BY <2>2, <3>4
    <3>q. QED BY <3>1, <3>3, <3>5
  <2>q. QED BY <2>6, <2>7
<1>3. ASSUME NEW t \in Tasks, Unregister(t) PROVE HandleLostOnlyToSameKey'
  <2>1. \A u \in Tasks \ {t} : pc'[u] = pc[u]
    BY <1>3 DEF Unregister, Goto
  <2>2. \A k \in Keys \ {KeyOf[t]} : inflight'[k] = inflight[k]
    BY <1>3 DEF Unregister
  <2>3. pc'[t] = "unregistered"
    BY <1>3 DEF Unregister, Goto
  <2>4. SUFFICES ASSUME NEW u \in Tasks, pc'[u] \in {"registered", "running", "returned"},
                        inflight'[KeyOf[u]] # u
                 PROVE \E v \in Tasks \ {u} : /\ KeyOf[v] = KeyOf[u]
                                              /\ \/ inflight'[KeyOf[u]] = v
                                                 \/ pc'[v] \in {"unregistered", "done"}
    BY DEF HandleLostOnlyToSameKey
  <2>5. u # t
    BY <2>3, <2>4
  <2>6. CASE KeyOf[u] = KeyOf[t]
    BY <2>3, <2>5, <2>6
  <2>7. CASE KeyOf[u] # KeyOf[t]
    <3>1. PICK v \in Tasks \ {u} : /\ KeyOf[v] = KeyOf[u]
                                   /\ inflight[KeyOf[u]] = v \/ pc[v] \in {"unregistered", "done"}
      BY <2>1, <2>2, <2>4, <2>5, <2>7 DEF HandleLostOnlyToSameKey
    <3>2. v \in Tasks \ {t}
      BY <3>1, <2>7
    <3>3. pc'[v] = pc[v]
      BY <3>2, <2>1
    <3>4. KeyOf[u] \in Keys \ {KeyOf[t]}
      BY <2>7
    <3>5. inflight'[KeyOf[u]] = inflight[KeyOf[u]]
      BY <2>2, <3>4
    <3>q. QED BY <3>1, <3>3, <3>5
  <2>q. QED BY <2>6, <2>7
<1>4. ASSUME NEW c \in Callers, CancelCall(c) PROVE HandleLostOnlyToSameKey'
  BY <1>4, <1>a DEF CancelCall
<1>5. ASSUME NEW c \in Callers, NEW k \in Keys, CancelLookup(c, k) PROVE HandleLostOnlyToSameKey'
  BY <1>5, <1>a DEF CancelLookup
<1>6. CASE Signal \/ Deadline \/ Main \/ UNCHANGED vars
  BY <1>6, <1>a DEF Signal, Deadline, Main, CancelAll, BeginShutdown, HandlersGone,
                    ShutdownFails, WaitReturns, vars
<1>q. QED
  BY <1>1, <1>2, <1>3, <1>4, <1>5, <1>6 DEF Next, Handler, Goroutine, Terminated

\* The signal reaches every context, and later ones are born cancelled.
LEMMA CancelStep ==
  /\ TypeOK /\ RootFollowsPhase /\ CancelAllReachesEveryRun /\ [Next]_vars
  => RootFollowsPhase' /\ CancelAllReachesEveryRun'
<1> SUFFICES ASSUME TypeOK, RootFollowsPhase, CancelAllReachesEveryRun, [Next]_vars
             PROVE RootFollowsPhase' /\ CancelAllReachesEveryRun'
  OBVIOUS
<1> USE TasksAssumption, KeyAssumption, Labels DEF TypeOK, RootFollowsPhase, CancelAllReachesEveryRun
<1>1. ASSUME NEW t \in Tasks, Accept(t) \/ Derive(t)
      PROVE RootFollowsPhase' /\ CancelAllReachesEveryRun'
  BY <1>1 DEF Accept, Derive, Goto
<1>2. ASSUME NEW t \in Tasks, Register(t)
      PROVE RootFollowsPhase' /\ CancelAllReachesEveryRun'
  BY <1>2 DEF Register, Goto
<1>3. ASSUME NEW t \in Tasks, Spawn(t) \/ Goroutine(t)
      PROVE RootFollowsPhase' /\ CancelAllReachesEveryRun'
  BY <1>3 DEF Spawn, Goroutine, Return, Unregister, Release, Goto
<1>4. ASSUME NEW c \in Callers, CancelCall(c)
      PROVE RootFollowsPhase' /\ CancelAllReachesEveryRun'
  BY <1>4 DEF CancelCall
<1>5. ASSUME NEW c \in Callers, NEW k \in Keys, CancelLookup(c, k)
      PROVE RootFollowsPhase' /\ CancelAllReachesEveryRun'
  BY <1>5 DEF CancelLookup
<1>6. CASE Signal \/ CancelAll
  BY <1>6 DEF Signal, CancelAll, CancelRoot
<1>7. CASE Deadline \/ BeginShutdown \/ HandlersGone \/ ShutdownFails \/ WaitReturns \/ UNCHANGED vars
  BY <1>7 DEF Deadline, BeginShutdown, HandlersGone, ShutdownFails, WaitReturns, vars
<1>q. QED
  BY <1>1, <1>2, <1>3, <1>4, <1>5, <1>6, <1>7 DEF Next, Handler, Main, Terminated

\* Once main() waits, handlers are gone; it stops waiting at wg = 0.
LEMMA WaitStep ==
  /\ TypeOK /\ WgCounts /\ HandlersLeft /\ WaitCoversEveryRun /\ [Next]_vars
  => HandlersLeft' /\ WaitCoversEveryRun'
<1> SUFFICES ASSUME TypeOK, WgCounts, HandlersLeft, WaitCoversEveryRun, [Next]_vars
             PROVE HandlersLeft' /\ WaitCoversEveryRun'
  OBVIOUS
<1> USE Labels DEF TypeOK, HandlersLeft, WaitCoversEveryRun
<1>a. ASSUME pc' = pc, phase' = phase PROVE HandlersLeft' /\ WaitCoversEveryRun'
  BY <1>a
<1>1. ASSUME NEW t \in Tasks, Accept(t) \/ Handler(t) \/ Goroutine(t)
      PROVE HandlersLeft' /\ WaitCoversEveryRun'
  BY <1>1 DEF Accept, Handler, Derive, Register, Spawn, Goroutine, Return, Unregister,
              Release, Goto, Listening, Alive
<1>2. ASSUME NEW c \in Callers, CancelCall(c) PROVE HandlersLeft' /\ WaitCoversEveryRun'
  BY <1>2, <1>a DEF CancelCall
<1>3. ASSUME NEW c \in Callers, NEW k \in Keys, CancelLookup(c, k)
      PROVE HandlersLeft' /\ WaitCoversEveryRun'
  BY <1>3, <1>a DEF CancelLookup
<1>4. CASE Signal \/ Deadline \/ CancelAll \/ BeginShutdown \/ HandlersGone \/ ShutdownFails
  BY <1>4 DEF Signal, Deadline, CancelAll, BeginShutdown, HandlersGone, ShutdownFails
<1>5. CASE WaitReturns
  <2>1. CASE wg = 0 /\ phase' = "clean"
    <3>1. Counted = {}
      BY <2>1, CountedFinite, FS_EmptySet DEF WgCounts
    <3>2. \A t \in Tasks : pc[t] \in {"idle", "done"}
      BY <3>1, <1>5 DEF Counted, WaitReturns
    <3>q. QED BY <3>2, <1>5 DEF WaitReturns
  <2>2. CASE expired /\ phase' = "timedOut"
    BY <2>2, <1>5 DEF WaitReturns
  <2>q. QED BY <1>5, <2>1, <2>2 DEF WaitReturns
<1>6. CASE UNCHANGED vars
  BY <1>6, <1>a DEF vars
<1>q. QED
  BY <1>1, <1>2, <1>3, <1>4, <1>5, <1>6 DEF Next, Main, Terminated

-----------------------------------------------------------------------------
\* The inductive invariant holds initially ...
LEMMA InitIInv == Init => IInv
<1> SUFFICES ASSUME Init PROVE IInv
  OBVIOUS
<1> USE TasksAssumption, KeyAssumption, Labels DEF Init
<1>1. TypeOK
  <2>1. pc \in [Tasks -> PCs] /\ ctxDone \in [Tasks -> BOOLEAN]
    OBVIOUS
  <2>2. inflight \in [Keys -> Tasks \cup {NoTask}] /\ calling \in [Callers -> Tasks \cup {NoTask}]
    OBVIOUS
  <2>3. root \in BOOLEAN /\ expired \in BOOLEAN
    BY Zenon
  <2>4. wg \in Nat /\ phase \in Phases
    OBVIOUS
  <2>q. QED BY <2>1, <2>2, <2>3, <2>4 DEF TypeOK
<1>2. WgCounts
  <2>1. Counted = {}
    BY DEF Counted
  <2>q. QED BY <2>1, FS_EmptySet DEF WgCounts
<1>3. HandleIsOfLiveRun /\ HandleLostOnlyToSameKey
  BY DEF HandleIsOfLiveRun, HandleLostOnlyToSameKey
<1>4. CancelAllReachesEveryRun /\ WaitCoversEveryRun /\ RootFollowsPhase /\ HandlersLeft
  BY DEF CancelAllReachesEveryRun, WaitCoversEveryRun, RootFollowsPhase, HandlersLeft
<1>q. QED BY <1>1, <1>2, <1>3, <1>4 DEF IInv

\* ... is preserved by every step ...
LEMMA NextIInv == IInv /\ [Next]_vars => IInv'
BY TypeStep, WgStep, HandleStep, LostStep, CancelStep, WaitStep DEF IInv

\* ... and so holds in every reachable state.
LEMMA AlwaysIInv == Spec => []IInv
BY InitIInv, NextIInv, PTL DEF Spec

\* Every variable of the manager keeps its type (runmgr.go 31-39).
THEOREM TypeCorrect == Spec => []TypeOK
<1>1. IInv => TypeOK
  BY DEF IInv
<1>q. QED BY <1>1, AlwaysIInv, PTL

\* The inflight map holds only handles of started, unfinished runs of the
\* right key, for any number of racing Start calls (runmgr.go 52-79).
THEOREM HandlesAreOfLiveRuns == Spec => []HandleIsOfLiveRun
<1>1. IInv => HandleIsOfLiveRun
  BY DEF IInv
<1>q. QED BY <1>1, AlwaysIInv, PTL

\* Runs of different keys never take each other's handle (runmgr.go 52-79).
THEOREM HandlesLostToSameKey == Spec => []HandleLostOnlyToSameKey
<1>1. IInv => HandleLostOnlyToSameKey
  BY DEF IInv
<1>q. QED BY <1>1, AlwaysIInv, PTL

\* CancelAll stops every run, including runs started later (runmgr.go 91-93).
THEOREM CancelAllIsComplete == Spec => []CancelAllReachesEveryRun
<1>1. IInv => CancelAllReachesEveryRun
  BY DEF IInv
<1>q. QED BY <1>1, AlwaysIInv, PTL

\* A WaitContext that returns nil has seen the end of every run that was ever
\* started (runmgr.go 99-111, main.go 132-146).
THEOREM WaitIsComplete == Spec => []WaitCoversEveryRun
<1>1. IInv => WaitCoversEveryRun
  BY DEF IInv
<1>q. QED BY <1>1, AlwaysIInv, PTL

-----------------------------------------------------------------------------
\* A context is cancelled by a newer run of the key, a Cancel that looked it
\* up, the end of the task or the shutdown, and by nothing else.
THEOREM CancellationHasAReason == Spec => CancelledForAReason
<1> DEFINE Reason(t) ==
      \/ pc'[t] = "done"
      \/ root'
      \/ \E u \in Tasks : KeyOf[u] = KeyOf[t] /\ pc[u] = "derived" /\ pc'[u] = "registered"
      \/ \E c \in Callers : calling[c] = t /\ calling'[c] = NoTask
<1>1. ASSUME IInv, [Next]_vars, NEW t \in Tasks, ~ctxDone[t], ctxDone'[t]
      PROVE Reason(t)
  <2> USE <1>1, TasksAssumption, KeyAssumption, Labels DEF IInv, TypeOK
  <2>1. ASSUME NEW u \in Tasks, Accept(u) \/ Spawn(u) \/ Return(u) \/ Unregister(u) PROVE FALSE
    BY <2>1 DEF Accept, Spawn, Return, Unregister
  <2>2. ASSUME NEW u \in Tasks, Derive(u) PROVE Reason(t)
    BY <2>2 DEF Derive
  <2>3. ASSUME NEW u \in Tasks, Register(u) PROVE Reason(t)
    <3>1. t = inflight[KeyOf[u]]
      BY <2>3 DEF Register
    <3>2. KeyOf[u] = KeyOf[t]
      BY <3>1 DEF HandleIsOfLiveRun
    <3>3. pc[u] = "derived" /\ pc'[u] = "registered"
      BY <2>3 DEF Register, Goto
    <3>q. QED BY <3>2, <3>3
  <2>4. ASSUME NEW u \in Tasks, Release(u) PROVE Reason(t)
    BY <2>4 DEF Release, Goto
  <2>5. ASSUME NEW c \in Callers, CancelCall(c) PROVE Reason(t)
    BY <2>5 DEF CancelCall
  <2>6. ASSUME NEW c \in Callers, NEW k \in Keys, CancelLookup(c, k) PROVE FALSE
    BY <2>6 DEF CancelLookup
  <2>7. CASE Signal \/ CancelAll
    BY <2>7 DEF Signal, CancelAll, CancelRoot
  <2>8. CASE Deadline \/ BeginShutdown \/ HandlersGone \/ ShutdownFails \/ WaitReturns \/ UNCHANGED vars
    BY <2>8 DEF Deadline, BeginShutdown, HandlersGone, ShutdownFails, WaitReturns, vars
  <2>q. QED
    BY <2>1, <2>2, <2>3, <2>4, <2>5, <2>6, <2>7, <2>8
       DEF Next, Handler, Goroutine, Main, Terminated
<1>2. IInv /\ [Next]_vars =>
        [\A t \in Tasks : (~ctxDone[t] /\ ctxDone'[t]) => Reason(t)]_vars
  BY <1>1
<1>q. QED
  BY <1>2, AlwaysIInv, PTL DEF Spec, CancelledForAReason

-----------------------------------------------------------------------------
\* The service the abstract specification sees, phase by phase.
LEMMA ServiceOfPhase ==
  ASSUME phase \in Phases
  PROVE  /\ (Service = "open") <=> (phase = "serving")
         /\ (Service = "drained") <=> (phase = "clean")
         /\ (Service = "killed") <=> (phase \in {"timedOut", "aborted"})
         /\ (Service = "closing") <=> (phase \in {"signalled", "stopping", "draining", "waiting"})
BY Labels DEF Service

\* A step that changes neither phase nor any live run is a stutter.
LEMMA AbstractStutter ==
  ASSUME TypeOK, phase' = phase, RunState' = RunState, Told' = Told
  PROVE  UNCHANGED Work!vars
BY DEF Work!vars, Service

\* Every step of the manager is a step of BackgroundWork or a stutter.
LEMMA RefinementStep == IInv /\ IInv' /\ [Next]_vars => [Work!Next]_(Work!vars)
<1> SUFFICES ASSUME IInv, IInv', [Next]_vars PROVE [Work!Next]_(Work!vars)
  OBVIOUS
<1> USE TasksAssumption, KeyAssumption, Labels
<1>t. TypeOK /\ TypeOK'
  BY DEF IInv
<1>s. phase \in Phases /\ phase' \in Phases
  BY <1>t DEF TypeOK
<1>up. ASSUME Alive PROVE Work!Up
  BY <1>up, <1>s, ServiceOfPhase DEF Work!Up, Alive
<1>1. ASSUME NEW t \in Tasks, Accept(t) \/ Derive(t) PROVE UNCHANGED Work!vars
  <2>1. phase' = phase
    BY <1>1 DEF Accept, Derive
  <2>2. RunState' = RunState
    BY <1>1, <1>t DEF Accept, Derive, Goto, RunState, TypeOK
  <2>3. Told' = Told
    BY <1>1, <1>t DEF Accept, Derive, Goto, Told, TypeOK
  <2>q. QED BY <2>1, <2>2, <2>3, <1>t, AbstractStutter
<1>2. ASSUME NEW t \in Tasks, Return(t) \/ Unregister(t) PROVE UNCHANGED Work!vars
  <2>1. phase' = phase
    BY <1>2 DEF Return, Unregister
  <2>2. RunState' = RunState
    BY <1>2, <1>t DEF Return, Unregister, Goto, RunState, TypeOK
  <2>3. Told' = Told
    BY <1>2, <1>t DEF Return, Unregister, Goto, Told, TypeOK
  <2>q. QED BY <2>1, <2>2, <2>3, <1>t, AbstractStutter
\* A task, or nobody, is told to stop; nothing else is visible.
<1>tell. ASSUME NEW u \in Tasks, Alive, phase' = phase, RunState' = RunState,
                Told' = [t \in Tasks |-> IF t = u THEN pc[u] \in Executing ELSE Told[t]]
         PROVE  [Work!Next]_(Work!vars)
  <2>1. Service' = Service
    BY <1>tell DEF Service
  <2>2. CASE pc[u] \in Executing
    <3>1. Told' = [Told EXCEPT ![u] = TRUE]
      BY <1>tell, <2>2 DEF Told
    <3>2. Work!Tell(u)
      BY <1>tell, <1>up, <2>1, <2>2, <3>1 DEF Work!Tell, Work!Live, RunState
    <3>q. QED BY <3>2 DEF Work!Next
  <2>3. CASE pc[u] \notin Executing
    <3>1. Told' = Told
      BY <1>tell, <2>3 DEF Told
    <3>q. QED BY <1>tell, <1>t, <3>1, AbstractStutter
  <2>q. QED BY <2>2, <2>3
<1>3. ASSUME NEW t \in Tasks, Register(t) PROVE [Work!Next]_(Work!vars)
  <2>1. Alive /\ phase' = phase
    BY <1>3 DEF Register
  <2>2. RunState' = RunState
    BY <1>3, <1>t DEF Register, Goto, RunState, TypeOK
  <2>3. CASE inflight[KeyOf[t]] = NoTask
    <3>1. Told' = Told
      BY <1>3, <1>t, <2>3 DEF Register, Goto, Told, TypeOK
    <3>q. QED BY <2>1, <2>2, <3>1, <1>t, AbstractStutter
  <2>4. CASE inflight[KeyOf[t]] # NoTask
    <3>1. inflight[KeyOf[t]] \in Tasks
      BY <2>4, <1>t DEF TypeOK
    <3>2. Told' = [u \in Tasks |-> IF u = inflight[KeyOf[t]] THEN pc[inflight[KeyOf[t]]] \in Executing
                                   ELSE Told[u]]
      <4>1. \A u \in Tasks : (pc'[u] \in Executing) <=> (pc[u] \in Executing)
        BY <1>3, <1>t DEF Register, Goto, TypeOK
      <4>2. \A u \in Tasks : ctxDone'[u] <=> (ctxDone[u] \/ u = inflight[KeyOf[t]])
        BY <1>3 DEF Register
      <4>3. \A u \in Tasks : Told[u] = (pc[u] \in Executing /\ ctxDone[u])
        BY DEF Told
      <4>4. \A u \in Tasks : (pc'[u] \in Executing /\ ctxDone'[u])
              = IF u = inflight[KeyOf[t]] THEN pc[inflight[KeyOf[t]]] \in Executing ELSE Told[u]
        BY <4>1, <4>2, <4>3
      <4>q. QED BY <4>4 DEF Told
    <3>q. QED BY <2>1, <2>2, <3>1, <3>2, <1>tell
  <2>q. QED BY <2>3, <2>4
<1>4. ASSUME NEW t \in Tasks, Spawn(t) PROVE Work!Launch(t)
  <2>1. Alive /\ Service' = Service
    BY <1>4 DEF Spawn, Service
  <2>2. RunState[t] = "absent" /\ RunState' = [RunState EXCEPT ![t] = "live"]
    BY <1>4, <1>t DEF Spawn, Goto, RunState, TypeOK
  <2>3. Told' = [Told EXCEPT ![t] = ctxDone[t]]
    BY <1>4, <1>t DEF Spawn, Goto, Told, TypeOK
  <2>4. (Service = "closing") => ctxDone[t]
    BY <1>4, <1>s, ServiceOfPhase DEF IInv, CancelAllReachesEveryRun, Spawn, Goto
  <2>5. ctxDone[t] \in BOOLEAN
    BY <1>t DEF TypeOK
  <2>q. QED BY <2>1, <2>2, <2>3, <2>4, <2>5, <1>up DEF Work!Launch
<1>5. ASSUME NEW t \in Tasks, Release(t) PROVE Work!Finish(t)
  <2>1. Alive /\ Service' = Service
    BY <1>5 DEF Release, Service
  <2>2. RunState[t] = "live" /\ RunState' = [RunState EXCEPT ![t] = "finished"]
    BY <1>5, <1>t DEF Release, Goto, RunState, TypeOK
  <2>3. Told' = [Told EXCEPT ![t] = FALSE]
    BY <1>5, <1>t DEF Release, Goto, Told, TypeOK
  <2>q. QED BY <2>1, <2>2, <2>3, <1>up DEF Work!Finish, Work!Live
<1>6. ASSUME NEW c \in Callers, CancelCall(c) PROVE [Work!Next]_(Work!vars)
  <2>1. Alive /\ phase' = phase /\ pc' = pc /\ calling[c] \in Tasks
    BY <1>6, <1>t DEF CancelCall, TypeOK
  <2>2. RunState' = RunState
    BY <2>1 DEF RunState
  <2>3. Told' = [t \in Tasks |-> IF t = calling[c] THEN pc[calling[c]] \in Executing ELSE Told[t]]
    BY <1>6, <1>t, <2>1 DEF CancelCall, Told, TypeOK
  <2>q. QED BY <2>1, <2>2, <2>3, <1>tell
<1>7. ASSUME NEW c \in Callers, NEW k \in Keys, CancelLookup(c, k) PROVE UNCHANGED Work!vars
  BY <1>7, <1>t, AbstractStutter DEF CancelLookup, RunState, Told
<1>8. CASE Signal
  <2>1. Service = "open" /\ Service' = "closing"
    BY <1>8 DEF Signal, Service
  <2>2. RunState' = RunState
    BY <1>8 DEF Signal, RunState
  <2>3. Told' = [t \in Tasks |-> t \in Work!Live]
    <3>1. \A t \in Tasks : (t \in Work!Live) <=> (pc[t] \in Executing)
      BY DEF Work!Live, RunState
    <3>2. \A t \in Tasks : (pc'[t] \in Executing /\ ctxDone'[t]) <=> (pc[t] \in Executing)
      BY <1>8 DEF Signal, CancelRoot
    <3>q. QED BY <3>1, <3>2 DEF Told
  <2>q. QED BY <2>1, <2>2, <2>3 DEF Work!Next, Work!Close
<1>9. CASE CancelAll
  <2>1. Service' = Service /\ RunState' = RunState
    BY <1>9 DEF CancelAll, Service, RunState
  <2>2. Told' = Told
    BY <1>9, <1>t DEF CancelAll, CancelRoot, Told, TypeOK, IInv, CancelAllReachesEveryRun
  <2>q. QED BY <2>1, <2>2 DEF Work!vars
<1>10. CASE Deadline \/ BeginShutdown \/ HandlersGone
  <2>1. Service' = Service
    BY <1>10 DEF Deadline, BeginShutdown, HandlersGone, Service
  <2>2. RunState' = RunState /\ Told' = Told
    BY <1>10 DEF Deadline, BeginShutdown, HandlersGone, RunState, Told
  <2>q. QED BY <2>1, <2>2 DEF Work!vars
<1>11. CASE ShutdownFails \/ WaitReturns
  <2>1. Service = "closing" /\ RunState' = RunState /\ Told' = Told
    BY <1>11 DEF ShutdownFails, WaitReturns, Service, RunState, Told
  <2>2. CASE phase' = "clean"
    <3>1. \A t \in Tasks : pc[t] \in {"idle", "done"}
      BY <1>11, <2>2 DEF IInv, WaitCoversEveryRun, ShutdownFails, WaitReturns
    <3>2. Work!Live = {}
      BY <3>1 DEF Work!Live, RunState
    <3>3. Service' = "drained"
      BY <2>2 DEF Service
    <3>q. QED BY <2>1, <3>2, <3>3 DEF Work!Drain, Work!Next
  <2>3. CASE phase' \in {"timedOut", "aborted"}
    <3>1. Service' = "killed"
      BY <2>3 DEF Service
    <3>q. QED BY <2>1, <3>1 DEF Work!Kill, Work!Next
  <2>q. QED BY <1>11, <2>2, <2>3 DEF ShutdownFails, WaitReturns
<1>12. CASE UNCHANGED vars
  BY <1>12, <1>t, AbstractStutter DEF vars, RunState, Told
<1>q. QED
  <2>1. ASSUME NEW t \in Tasks, Work!Launch(t) \/ Work!Finish(t) PROVE Work!Next
    BY <2>1 DEF Work!Next
  <2>q. QED
    BY <1>1, <1>2, <1>3, <1>4, <1>5, <1>6, <1>7, <1>8, <1>9, <1>10, <1>11, <1>12, <2>1
       DEF Next, Handler, Goroutine, Main, Terminated

\* The run manager with main()'s shutdown implements BackgroundWork, for any
\* number of runs, keys and callers.
THEOREM ManagerImplementsWork == Spec => ImplementsBackgroundWork
<1>1. Init => Work!Init
  BY Labels DEF Init, Work!Init, RunState, Told, Service
<1>q. QED
  BY <1>1, RefinementStep, AlwaysIInv, PTL DEF Spec, Work!Spec, ImplementsBackgroundWork
=============================================================================
