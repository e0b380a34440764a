---------------------------- MODULE PersistedRuns ----------------------------
(***************************************************************************)
(* internal/runs with its users: investigations, assisted queries and      *)
(* agent features.  Requests create runs under an idempotency key, or      *)
(* submit commands to a run by its id; both dispatch a background task     *)
(* that asks the provider and writes its outcome into the run's row.       *)
(* There is no lock: every SQL statement is one step and the Go code       *)
(* between two statements belongs to the later one.                        *)
(*                                                                         *)
(*   create    idle -> looked -> stored -> running ..., or -> answered     *)
(*   command   idle -> loaded -> new -> logged -> accepted -> projecting   *)
(*                  -> stored -> running ...,            or -> answered    *)
(*   task      running [-> asking] -> replied -> writing -> returned       *)
(*                                 -> failed  -> failing -> returned       *)
(*             returned -> done                                            *)
(***************************************************************************)
EXTENDS Integers, FiniteSets

CONSTANTS Requests,
          Keys,               \* idempotency keys of create requests
          CommandIds,         \* request ids of commands
          Addressed,          \* run ids commands are sent to
          ExpectedVersions,   \* expectedWorkflowVersion of commands
          MaxRuns,            \* bound: rows the table can hold
          None

ASSUME RunsAssumption == MaxRuns \in Nat /\ Addressed \subseteq 1..MaxRuns
ASSUME VersionAssumption == ExpectedVersions \subseteq Nat
ASSUME NonesAssumption == None \notin Requests \cup Keys \cup CommandIds

VARIABLES
  rows,              \* the runs table
  commands,          \* the run_commands table: logged version, 0 for no entry
  pc, op,            \* where each request or task is; what was asked of it
  rec,               \* the copy of the row last read
  proj,              \* the projection a task or command is going to write
  version,           \* the workflow version a command was given
  handle, ctxDone, root,    \* the run manager, as in Explorer
  reply,             \* what each request was answered: [run, dup]
  lookedAt,          \* history: the number of rows when a create looked
  overlapped         \* history: runs that had a command while others were at work on them

vars == <<rows, commands, pc, op, rec, proj, version, handle, ctxDone,
          root, reply, lookedAt, overlapped>>
history == <<lookedAt, overlapped>>
manager == <<handle, ctxDone, root>>

RunIds == 1..MaxRuns
Creates == {"investigation", "answer"}
Tasking == {"running", "asking", "replied", "writing", "failed", "failing", "returned"}
Accepting == {"new", "logged", "accepted", "projecting"}
Asks(kind, run, key, expected) == [kind |-> kind, run |-> run, key |-> key, expected |-> expected]
NoOp == Asks("none", None, None, 0)
NoProjection == [command |-> None, version |-> 0, state |-> "none", summary |-> None]
NoReply == [run |-> None, dup |-> FALSE]
RunOf(q) == op[q].run
Stored == {r \in RunIds : rows[r] # None}
NextId == 1 + Cardinality({r \in RunIds : \E s \in Stored : r <= s})
AtWork(r) == {q \in Requests : RunOf(q) = r /\ pc[q] \in {"loaded", "stored"} \cup Accepting \cup Tasking}
Larger(a, b) == IF a > b THEN a ELSE b
Move(q, from, to) == pc[q] = from /\ pc' = [pc EXCEPT ![q] = to]
Load(q, r) == rec' = [rec EXCEPT ![q] = rows[r]]

Init ==
  /\ rows = [r \in RunIds |-> None]
  /\ commands = [r \in RunIds |-> [c \in CommandIds |-> 0]]
  /\ pc = [q \in Requests |-> "idle"]
  /\ op = [q \in Requests |-> NoOp]
  /\ rec = [q \in Requests |-> None]
  /\ proj = [q \in Requests |-> NoProjection]
  /\ version = [q \in Requests |-> 0]
  /\ handle = [r \in RunIds |-> None]
  /\ ctxDone = [q \in Requests |-> FALSE]
  /\ root = FALSE
  /\ reply = [q \in Requests |-> NoReply]
  /\ lookedAt = [q \in Requests |-> 0]
  /\ overlapped = {}

NewRow(kind, key) ==
  [kind |-> kind, key |-> key, status |-> "processing", error |-> None,
   version |-> 1, result |-> NoProjection]

-----------------------------------------------------------------------------
Matching(kind, key) == {r \in Stored : rows[r].kind = kind /\ rows[r].key = key}

\* Mutant of FindRun: the newest matching run is returned (ORDER BY id DESC).
FindNewest(kind, key) ==
  CHOOSE r \in Matching(kind, key) : \A s \in Matching(kind, key) : s <= r
\* FindRunByIdempotencyKey: the oldest matching run.
FindRun(kind, key) ==
  CHOOSE r \in Matching(kind, key) : \A s \in Matching(kind, key) : r <= s

\* Mutant of Look: failed runs do not count as existing.
LookAtLive(q, kind, key) ==
  /\ pc[q] = "idle"
  /\ op' = [op EXCEPT ![q] = Asks(kind, None, key, 0)]
  /\ lookedAt' = [lookedAt EXCEPT ![q] = Cardinality(Stored)]
  /\ LET live == {r \in Matching(kind, key) : rows[r].status # "error"}
     IN IF live = {}
        THEN pc' = [pc EXCEPT ![q] = "looked"] /\ UNCHANGED reply
        ELSE /\ pc' = [pc EXCEPT ![q] = "answered"]
             /\ reply' = [reply EXCEPT ![q] = [run |-> FindRun(kind, key), dup |-> TRUE]]
  /\ UNCHANGED <<rows, commands, rec, proj, version, manager, overlapped>>

\* A create with a key: reuse the run of that key, if there is one.
Look(q, kind, key) ==
  /\ pc[q] = "idle"
  /\ op' = [op EXCEPT ![q] = Asks(kind, None, key, 0)]
  /\ lookedAt' = [lookedAt EXCEPT ![q] = Cardinality(Stored)]
  /\ IF Matching(kind, key) = {}
     THEN pc' = [pc EXCEPT ![q] = "looked"] /\ UNCHANGED reply
     ELSE /\ pc' = [pc EXCEPT ![q] = "answered"]
          /\ reply' = [reply EXCEPT ![q] = [run |-> FindRun(kind, key), dup |-> TRUE]]
  /\ UNCHANGED <<rows, commands, rec, proj, version, manager, overlapped>>

\* Assisted queries and agent features may come without a key: no lookup.
LookSkipped(q) ==
  /\ Move(q, "idle", "looked")
  /\ op' = [op EXCEPT ![q] = Asks("answer", None, None, 0)]
  /\ UNCHANGED <<rows, commands, rec, proj, version, manager, reply, history>>

\* Start: CreateRun inserts the row under the next id.
CreateRun(q) ==
  /\ NextId \in RunIds
  /\ Move(q, "looked", "stored")
  /\ rows' = [rows EXCEPT ![NextId] = NewRow(op[q].kind, op[q].key)]
  /\ op' = [op EXCEPT ![q].run = NextId]
  /\ reply' = [reply EXCEPT ![q] = [run |-> NextId, dup |-> FALSE]]
  /\ UNCHANGED <<commands, rec, proj, version, manager, history>>

-----------------------------------------------------------------------------
\* AcceptCommand: EnsureRun creates the addressed run if it is missing, and
\* GetRun reads it.
CommandLoad(q, r, id, expected) ==
  LET row == IF rows[r] = None THEN NewRow("investigation", None) ELSE rows[r]
  IN /\ pc[q] = "idle"
     /\ pc' = [pc EXCEPT ![q] = "loaded"]
     /\ op' = [op EXCEPT ![q] = Asks("command", r, id, expected)]
     /\ rows' = [rows EXCEPT ![r] = row]
     /\ rec' = [rec EXCEPT ![q] = row]
     /\ overlapped' = IF AtWork(r) = {} THEN overlapped ELSE overlapped \cup {r}
     /\ UNCHANGED <<commands, proj, version, manager, reply, lookedAt>>

\* GetRunCommandVersion: a logged request id is a duplicate.
CommandCheck(q) ==
  LET logged == commands[RunOf(q)][op[q].key]
  IN /\ pc[q] = "loaded"
     /\ IF logged # 0
        THEN /\ pc' = [pc EXCEPT ![q] = "answered"]
             /\ reply' = [reply EXCEPT ![q] = [run |-> RunOf(q), dup |-> TRUE]]
             /\ version' = [version EXCEPT ![q] = logged]
        ELSE /\ pc' = [pc EXCEPT ![q] = "new"]
             /\ UNCHANGED <<reply, version>>
     /\ UNCHANGED <<rows, commands, op, rec, proj, manager, history>>

\* Mutant of Log: a repeated request id replaces the logged version.
LogOver(old, new) == new
\* AppendRunCommand: ON CONFLICT DO NOTHING.
Log(old, new) == IF old = 0 THEN new ELSE old

\* The version follows the larger of the stored and the expected one; whether
\* the insert took place is not looked at.
CommandLog(q) ==
  LET v == Larger(rec[q].version, op[q].expected) + 1
  IN /\ Move(q, "new", "logged")
     /\ commands' = [commands EXCEPT ![RunOf(q)][op[q].key] = Log(@, v)]
     /\ version' = [version EXCEPT ![q] = v]
     /\ UNCHANGED <<rows, op, rec, proj, manager, reply, history>>

\* UpdateRun writes version and status into the copy read by CommandLoad;
\* Command then adds itself to that copy's projection.
CommandAccept(q) ==
  LET row == [rec[q] EXCEPT !.version = version[q],
                !.status = IF @ \in {"completed", "error"} THEN "processing" ELSE @]
  IN /\ Move(q, "logged", "accepted")
     /\ rows' = [rows EXCEPT ![RunOf(q)] = row]
     /\ proj' = [proj EXCEPT ![q] =
          [row.result EXCEPT !.command = op[q].key, !.version = version[q], !.state = "processing"]]
     /\ rec' = [rec EXCEPT ![q] = None]
     /\ UNCHANGED <<commands, op, version, manager, reply, history>>

\* UpdateProjection: read the row ...
CommandReload(q) ==
  /\ Move(q, "accepted", "projecting")
  /\ Load(q, RunOf(q))
  /\ UNCHANGED <<rows, commands, op, proj, version, manager, reply, history>>

\* ... and write it back with the projection.
CommandProject(q) ==
  /\ Move(q, "projecting", "stored")
  /\ rows' = [rows EXCEPT ![RunOf(q)] = [rec[q] EXCEPT !.result = proj[q]]]
  /\ rec' = [rec EXCEPT ![q] = None]
  /\ proj' = [proj EXCEPT ![q] = NoProjection]
  /\ reply' = [reply EXCEPT ![q] = [run |-> RunOf(q), dup |-> FALSE]]
  /\ UNCHANGED <<commands, op, version, manager, history>>

\* Mutant of Dispatch: a run that still has a handle gets no second task.
DispatchIfIdle(q) ==
  /\ pc[q] = "stored"
  /\ pc' = [pc EXCEPT ![q] = IF handle[RunOf(q)] = None THEN "running" ELSE "answered"]
  /\ ctxDone' = [ctxDone EXCEPT ![q] = root]
  /\ handle' = [handle EXCEPT ![RunOf(q)] = IF @ = None THEN q ELSE @]
  /\ UNCHANGED <<rows, commands, op, rec, proj, version, root, reply, history>>
\* dispatch: Manager.Start under the key kind:id cancels the previous task.
Dispatch(q) ==
  /\ Move(q, "stored", "running")
  /\ ctxDone' = [p \in Requests |-> IF p = q THEN root ELSE ctxDone[p] \/ p = handle[RunOf(q)]]
  /\ handle' = [handle EXCEPT ![RunOf(q)] = q]
  /\ UNCHANGED <<rows, commands, op, rec, proj, version, root, reply, history>>

\* The client disconnects or a statement fails before the next one.
Abandon(q) ==
  /\ pc[q] \in {"looked", "loaded"} \cup Accepting
  /\ pc' = [pc EXCEPT ![q] = "gone"]
  /\ rec' = [rec EXCEPT ![q] = None]
  /\ proj' = [proj EXCEPT ![q] = NoProjection]
  /\ UNCHANGED <<rows, commands, op, version, manager, reply, history>>

-----------------------------------------------------------------------------
\* Mutant of AdvanceRead: the projection is made anew.
AdvanceReadAnew(q) ==
  /\ op[q].kind # "answer"
  /\ pc[q] = "running"
  /\ IF ctxDone[q]
     THEN pc' = [pc EXCEPT ![q] = "returned"] /\ UNCHANGED proj
     ELSE /\ pc' = [pc EXCEPT ![q] = "asking"]
          /\ proj' = [proj EXCEPT ![q] =
               [NoProjection EXCEPT !.summary = q, !.state = "awaiting_command",
                                    !.version = rows[RunOf(q)].version]]
  /\ UNCHANGED <<rows, commands, op, rec, version, manager, reply, history>>
\* advanceTask first reads projection and version; when its context is
\* already cancelled that read fails and the task returns without a trace.
AdvanceRead(q) ==
  /\ op[q].kind # "answer"
  /\ pc[q] = "running"
  /\ IF ctxDone[q]
     THEN pc' = [pc EXCEPT ![q] = "returned"] /\ UNCHANGED proj
     ELSE /\ pc' = [pc EXCEPT ![q] = "asking"]
          /\ proj' = [proj EXCEPT ![q] =
               [rows[RunOf(q)].result EXCEPT !.summary = q, !.state = "awaiting_command",
                                             !.version = rows[RunOf(q)].version]]
  /\ UNCHANGED <<rows, commands, op, rec, version, manager, reply, history>>

\* The provider call; answerTask and featureTask make it at once.
Asking(q) == pc[q] = "asking" \/ (pc[q] = "running" /\ op[q].kind = "answer")

Ask(q) ==
  /\ Asking(q)
  /\ ~ctxDone[q]
  /\ pc' = [pc EXCEPT ![q] = "replied"]
  /\ UNCHANGED <<rows, commands, op, rec, proj, version, manager, reply, history>>

\* Mutant of AskFails: the error is returned to the manager, not recorded.
AskFailsSilently(q) ==
  /\ Asking(q)
  /\ pc' = [pc EXCEPT ![q] = "returned"]
  /\ UNCHANGED <<rows, commands, op, rec, proj, version, manager, reply, history>>
\* The call fails by itself, by its timeout or by cancellation.
AskFails(q) ==
  /\ Asking(q)
  /\ pc' = [pc EXCEPT ![q] = "failed"]
  /\ UNCHANGED <<rows, commands, op, rec, proj, version, manager, reply, history>>

\* Complete uses the task's context and fails once it is cancelled;
\* advanceTask's UpdateProjection does not.
ResultRead(q) ==
  /\ pc[q] = "replied"
  /\ IF op[q].kind = "answer" /\ ctxDone[q]
     THEN pc' = [pc EXCEPT ![q] = "returned"] /\ UNCHANGED rec
     ELSE pc' = [pc EXCEPT ![q] = "writing"] /\ Load(q, RunOf(q))
  /\ UNCHANGED <<rows, commands, op, proj, version, manager, reply, history>>

\* Mutant of Result: Complete leaves an earlier error in place.
ResultKeepsError(q) ==
  IF op[q].kind = "answer"
  THEN [rec[q] EXCEPT !.status = "completed", !.result = [NoProjection EXCEPT !.summary = q]]
  ELSE [rec[q] EXCEPT !.result = proj[q]]
\* Complete stores the answer and clears the error; UpdateProjection
\* replaces the projection only.
Result(q) ==
  IF op[q].kind = "answer"
  THEN [rec[q] EXCEPT !.status = "completed", !.error = None,
                      !.result = [NoProjection EXCEPT !.summary = q]]
  ELSE [rec[q] EXCEPT !.result = proj[q]]

ResultWrite(q) ==
  /\ Move(q, "writing", "returned")
  /\ rows' = IF op[q].kind = "answer" /\ ctxDone[q] THEN rows
             ELSE [rows EXCEPT ![RunOf(q)] = Result(q)]
  /\ rec' = [rec EXCEPT ![q] = None]
  /\ UNCHANGED <<commands, op, proj, version, manager, reply, history>>

\* Fail reads and writes with a context that survives cancellation.  The
\* error text, "shutdown" or the provider's, is one value here.
FailRead(q) ==
  /\ Move(q, "failed", "failing")
  /\ Load(q, RunOf(q))
  /\ UNCHANGED <<rows, commands, op, proj, version, manager, reply, history>>

FailWrite(q) ==
  /\ Move(q, "failing", "returned")
  /\ rows' = [rows EXCEPT ![RunOf(q)] = [rec[q] EXCEPT !.status = "error", !.error = "failed"]]
  /\ rec' = [rec EXCEPT ![q] = None]
  /\ UNCHANGED <<commands, op, proj, version, manager, reply, history>>

\* The manager's deferred delete and release.
Unregister(q) ==
  /\ Move(q, "returned", "done")
  /\ handle' = [handle EXCEPT ![RunOf(q)] = None]
  /\ ctxDone' = [ctxDone EXCEPT ![q] = TRUE]
  /\ proj' = [proj EXCEPT ![q] = NoProjection]
  /\ UNCHANGED <<rows, commands, op, rec, version, root, reply, history>>

\* Shutdown cancels every task.
Signal ==
  /\ ~root
  /\ root' = TRUE
  /\ ctxDone' = [q \in Requests |-> ctxDone[q] \/ pc[q] \in Tasking]
  /\ UNCHANGED <<rows, commands, pc, op, rec, proj, version, handle, reply, history>>

Quiet ==
  /\ \A q \in Requests : pc[q] \in {"idle", "answered", "gone", "done"}
  /\ UNCHANGED vars

Create(q) ==
  \/ \E kind \in Creates, key \in Keys : Look(q, kind, key)
  \/ LookSkipped(q)
  \/ CreateRun(q)
Command(q) ==
  \/ \E r \in Addressed, id \in CommandIds, e \in ExpectedVersions : CommandLoad(q, r, id, e)
  \/ CommandCheck(q) \/ CommandLog(q) \/ CommandAccept(q) \/ CommandReload(q) \/ CommandProject(q)
Task(q) ==
  \/ AdvanceRead(q) \/ Ask(q) \/ AskFails(q)
  \/ ResultRead(q) \/ ResultWrite(q) \/ FailRead(q) \/ FailWrite(q) \/ Unregister(q)

Next ==
  \/ \E q \in Requests : Create(q) \/ Command(q) \/ Dispatch(q) \/ Abandon(q) \/ Task(q)
  \/ Signal
  \/ Quiet

\* Handlers that have begun and tasks keep running (OUTBOUND_TIMEOUT bounds
\* the provider call); nobody waits on a lock.
Fairness ==
  \A q \in Requests :
    /\ WF_vars(CommandCheck(q) \/ CommandLog(q) \/ CommandAccept(q) \/ CommandReload(q)
               \/ CommandProject(q) \/ Dispatch(q))
    /\ WF_vars(Task(q))

Spec == Init /\ [][Next]_vars
FairSpec == Spec /\ Fairness

-----------------------------------------------------------------------------
Projections == [command : CommandIds \cup {None}, version : Nat,
                state : {"none", "processing", "awaiting_command"},
                summary : Requests \cup {None}]
Rows == [kind : Creates, key : Keys \cup {None},
         status : {"processing", "completed", "error"},
         error : {"failed", None}, version : Nat, result : Projections]
ASSUME RowsAssumption == None \notin Rows /\ None \notin RunIds /\ None # "failed"

\* Every variable stays in its type.
TypeOK ==
  /\ rows \in [RunIds -> Rows \cup {None}]
  /\ commands \in [RunIds -> [CommandIds -> Nat]]
  /\ pc \in [Requests -> {"idle", "looked", "loaded", "stored", "answered", "gone", "done"}
                         \cup Accepting \cup Tasking]
  /\ op \in [Requests -> [kind : Creates \cup {"none", "command"}, run : RunIds \cup {None},
                          key : Keys \cup CommandIds \cup {None}, expected : Nat]]
  /\ rec \in [Requests -> Rows \cup {None}]
  /\ proj \in [Requests -> Projections]
  /\ version \in [Requests -> Nat]
  /\ handle \in [RunIds -> Requests \cup {None}]
  /\ ctxDone \in [Requests -> BOOLEAN]
  /\ root \in BOOLEAN
  /\ reply \in [Requests -> [run : RunIds \cup {None}, dup : BOOLEAN]]
  /\ lookedAt \in [Requests -> Nat]

\* A create that was told to reuse a run was told the oldest run of its
\* key, and that run stays the oldest: all retries agree with each other,
\* even after a race has left two runs under the key.
ReuseIsOfTheOldest ==
  \A q \in Requests :
    (op[q].kind \in Creates /\ reply[q].dup) =>
      \A r \in Matching(op[q].kind, op[q].key) : reply[q].run <= r

\* A create makes a second run for a key only when no run of that key
\* existed at the moment it looked: a retry that arrives after the first
\* create has stored its row never starts another run, whatever became of it.
SecondRunOnlyInARace ==
  \A p, q \in Requests :
    (/\ op[p].kind \in Creates /\ op[p].kind = op[q].kind
     /\ op[p].key \in Keys /\ op[p].key = op[q].key
     /\ ~reply[p].dup /\ ~reply[q].dup /\ reply[p].run # None /\ reply[q].run # None
     /\ reply[p].run < reply[q].run) => lookedAt[q] < reply[p].run

\* A duplicate command is answered with the version stored for the first
\* submission, and that version never changes afterwards.
DuplicateEchoesFirst ==
  \A q \in Requests : (op[q].kind = "command" /\ reply[q].dup) =>
    version[q] = commands[RunOf(q)][op[q].key]

\* A stored outcome is coherent although whole rows are written back from
\* old copies: a failed run has an error, a completed run has no error and
\* has its answer, unless a command was sent to it and replaced that.
OutcomeIsCoherent ==
  \A r \in Stored :
    /\ rows[r].status = "error" => rows[r].error # None
    /\ rows[r].status = "completed" =>
         /\ rows[r].error = None
         /\ rows[r].result.summary # None \/ \E id \in CommandIds : commands[r][id] # 0

\* Rows, log and copies have their types and every stored outcome is coherent.
RowsAreCoherent == TypeOK /\ OutcomeIsCoherent

\* The commands to a run that were applied to it.
Applied(r) ==
  {q \in Requests : op[q].kind = "command" /\ RunOf(q) = r /\ version[q] # 0
                     /\ ~reply[q].dup /\ pc[q] \in {"stored"} \cup Tasking \cup {"done"}}

\* Once a command is applied its run shows it: the projection names the
\* command with the run's own version, and no task writes an older projection
\* over it, unless a command came while others were at work on the run (an
\* advanceTask holds projection and version from before its provider call)
\* or broke off.
LastCommandIsShown ==
  \A r \in Stored \ overlapped :
    LET unfinished == {q \in Requests : op[q].kind = "command" /\ RunOf(q) = r
                                        /\ pc[q] \in {"gone"} \cup Accepting}
    IN Applied(r) # {} /\ unfinished = {} =>
         /\ rows[r].result.version = rows[r].version
         /\ \E q \in Applied(r) : version[q] = rows[r].version /\ op[q].key = rows[r].result.command

\* A logged command is followed by a task for it that has run to its end,
\* unless the request that logged it broke off before dispatching one.
LoggedCommandsRun ==
  \A r \in Addressed, id \in CommandIds :
    (commands[r][id] # 0) ~>
      \E q \in Requests :
        /\ op[q].kind = "command" /\ RunOf(q) = r /\ op[q].key = id
        /\ version[q] # 0 /\ ~reply[q].dup
        /\ pc[q] \in {"gone", "done"}

\* A run created for an answer ends completed or failed, unless the process
\* is shut down or a command is sent to its id.
AnswersEnd ==
  \A q \in Requests :
    (op[q].kind = "answer" /\ pc[q] = "stored") ~>
      \/ RunOf(q) \in Stored /\ rows[RunOf(q)].status \in {"completed", "error"}
      \/ root
      \/ \E p \in Requests : op[p].kind = "command" /\ RunOf(p) = RunOf(q)

-----------------------------------------------------------------------------
\* "A repeated requestId is reported as duplicate instead of being applied
\* twice" (handler/investigations.go:28-29).
CommandAppliedOnce ==
  \A p, q \in Requests :
    (/\ p # q /\ op[p].kind = "command" /\ op[q].kind = "command"
     /\ RunOf(p) = RunOf(q) /\ op[p].key = op[q].key) =>
        ~(pc[p] \in Tasking \cup {"done"} /\ pc[q] \in Tasking \cup {"done"})
=============================================================================
