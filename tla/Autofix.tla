------------------------------- MODULE Autofix -------------------------------
(***************************************************************************)
(* internal/autofix.  Sentry reports the coding agents of a run (store) or *)
(* changes one agent (update); a store also dispatches a task that asks    *)
(* the provider once and writes the run back.  Handlers and tasks hold     *)
(* copies of the row and take no lock: each SQL statement is one step.     *)
(*                                                                         *)
(*   store    idle -> read -> stored -> running                            *)
(*   update   idle -> read -> answered           (no task)                 *)
(*   task     running [-> asking] -> writing -> returned -> done           *)
(*                                -> failing -> returned                   *)
(***************************************************************************)
EXTENDS Integers, FiniteSets

CONSTANTS Requests, RunIds, Agents,
          Reports,    \* the sets of agents a store may report
          None

ASSUME RunIdsAssumption == RunIds \subseteq Nat
ASSUME ReportsAssumption == Reports \subseteq SUBSET Agents
ASSUME NoneAssumption == None \notin Requests \cup RunIds \cup Agents

VARIABLES
  rows,      \* the autofix_runs table
  pc, op,    \* where each request or its task is; what was asked of it
  copy,      \* the state blob held: the row read, later the task's snapshot
  handle, ctxDone, root,   \* the run manager, as in Explorer
  reply,     \* the response: a status
  held, later   \* history, at the last write of a request: who held a copy
                \* of the same row, and who had not arrived yet

vars == <<rows, pc, op, copy, handle, ctxDone, root, reply, held, later>>
manager == <<handle, ctxDone, root>>
history == <<held, later>>

NoOp == [kind |-> "none", run |-> None, agents |-> {}]
RunOf(q) == op[q].run
Holding == {"read", "stored", "running", "asking", "writing", "failing"}
Tasking == {"running", "asking", "writing", "failing", "returned"}

\* A blob: failure_reason and coding_agents.  An agent's entry is told apart
\* by the report it stems from, the updates merged into it and whether the
\* model's description ("advancement") was added.
Entry(q) == [report |-> q, updates |-> {}, advanced |-> FALSE]
NoAgents == [a \in Agents |-> None]
NoBlob == [reason |-> None, agents |-> NoAgents]
Present(agents) == {a \in Agents : agents[a] # None}
Row(status, blob) == [status |-> status, blob |-> blob]

Init ==
  /\ rows = [r \in RunIds |-> None]
  /\ pc = [q \in Requests |-> "idle"]
  /\ op = [q \in Requests |-> NoOp]
  /\ copy = [q \in Requests |-> None]
  /\ handle = [r \in RunIds |-> None]
  /\ ctxDone = [q \in Requests |-> FALSE]
  /\ root = FALSE
  /\ reply = [q \in Requests |-> "none"]
  /\ held = [q \in Requests |-> {None}]
  /\ later = [q \in Requests |-> {}]

Move(q, from, to) == pc[q] = from /\ pc' = [pc EXCEPT ![q] = to]

\* History: who may still write the row that q is writing now.
Witness(q) ==
  /\ held' = [held EXCEPT ![q] =
       {p \in Requests \ {q} : pc[p] \in Holding /\ RunOf(p) = RunOf(q)}]
  /\ later' = [later EXCEPT ![q] = {p \in Requests : pc[p] = "idle"}]

-----------------------------------------------------------------------------
\* StoreCodingAgentStates: GetAutofixRun.
StoreRead(q, r, agents) ==
  /\ Move(q, "idle", "read")
  /\ op' = [op EXCEPT ![q] = [kind |-> "store", run |-> r, agents |-> agents]]
  /\ copy' = [copy EXCEPT ![q] = IF rows[r] = None THEN None ELSE rows[r].blob]
  /\ UNCHANGED <<rows, manager, reply, history>>

\* The reported agents replace the stored ones; other keys are kept.
Reported(q, blob) ==
  [blob EXCEPT !.agents = [a \in Agents |-> IF a \in op[q].agents THEN Entry(q) ELSE None]]

\* An unknown run is inserted, without effect when the id exists by now; a
\* known one is updated.  The written blob becomes the task's snapshot.
StoreWrite(q) ==
  LET r == RunOf(q)
      blob == Reported(q, IF copy[q] = None THEN NoBlob ELSE copy[q])
  IN /\ pc[q] = "read" /\ op[q].kind = "store"
     /\ pc' = [pc EXCEPT ![q] = "stored"]
     /\ rows' = [rows EXCEPT ![r] = IF copy[q] = None /\ @ # None THEN @
                                    ELSE Row("processing", blob)]
     /\ copy' = [copy EXCEPT ![q] = blob]
     /\ reply' = [reply EXCEPT ![q] = "success"]
     /\ UNCHANGED <<op, manager, history>>

\* startAgentAdvancement: Manager.Start cancels the previous task of the run.
StartAgentAdvancement(q) ==
  /\ Move(q, "stored", "running")
  /\ ctxDone' = [p \in Requests |-> IF p = q THEN root ELSE ctxDone[p] \/ p = handle[RunOf(q)]]
  /\ handle' = [handle EXCEPT ![RunOf(q)] = q]
  /\ UNCHANGED <<rows, op, copy, root, reply, history>>

\* findRunByAgentID: the stored run of least id that has the agent.
Owners(a) == {r \in RunIds : rows[r] # None /\ rows[r].blob.agents[a] # None}

\* UpdateCodingAgentState: ListAutofixRuns reads every run.
UpdateRead(q, a) ==
  LET owner == CHOOSE r \in Owners(a) : \A s \in Owners(a) : r <= s
  IN /\ Owners(a) # {}
     /\ Move(q, "idle", "read")
     /\ op' = [op EXCEPT ![q] = [kind |-> "update", run |-> owner, agents |-> {a}]]
     /\ copy' = [copy EXCEPT ![q] = rows[owner].blob]
     /\ UNCHANGED <<rows, manager, reply, history>>

\* No run has the agent, or the list could not be read: "agent not found".
UpdateMiss(q, a) ==
  /\ Move(q, "idle", "answered")
  /\ op' = [op EXCEPT ![q] = [kind |-> "update", run |-> None, agents |-> {a}]]
  /\ reply' = [reply EXCEPT ![q] = "error"]
  /\ UNCHANGED <<rows, copy, manager, history>>

\* Mutant of Updated: the agent's entry is replaced by the updates.
UpdatedAnew(q, blob) ==
  [blob EXCEPT !.agents = [a \in Agents |-> IF a \in op[q].agents
                                            THEN [@[a] EXCEPT !.updates = {q}] ELSE @[a]]]
\* The updates are merged into the agent's entry.
Joined(entry, q) == [entry EXCEPT !.updates = @ \cup {q}]
Updated(q, blob) ==
  [blob EXCEPT !.agents = [a \in Agents |-> IF a \in op[q].agents THEN Joined(@[a], q) ELSE @[a]]]

\* The copy goes back with status processing; no task follows.
UpdateWrite(q) ==
  /\ op[q].kind = "update"
  /\ Move(q, "read", "answered")
  /\ rows' = [rows EXCEPT ![RunOf(q)] = Row("processing", Updated(q, copy[q]))]
  /\ copy' = [copy EXCEPT ![q] = None]
  /\ reply' = [reply EXCEPT ![q] = "success"]
  /\ Witness(q)
  /\ UNCHANGED <<op, manager>>

\* The client disconnects or the second statement fails.
Abandon(q) ==
  /\ Move(q, "read", "gone")
  /\ copy' = [copy EXCEPT ![q] = None]
  /\ reply' = [reply EXCEPT ![q] = "error"]
  /\ UNCHANGED <<rows, op, manager, history>>

-----------------------------------------------------------------------------
\* Mutant of Run: a run without agents is left as it is.
RunSkipsEmpty(q) ==
  /\ pc[q] = "running"
  /\ pc' = [pc EXCEPT ![q] = IF ctxDone[q] THEN "failing"
                             ELSE IF Present(copy[q].agents) = {} THEN "returned" ELSE "asking"]
  /\ UNCHANGED <<rows, op, copy, manager, reply, history>>
\* agentAdvancementTask.Run: a cancelled task fails at once; a run without
\* agents is completed without asking.
Run(q) ==
  /\ pc[q] = "running"
  /\ pc' = [pc EXCEPT ![q] = IF ctxDone[q] THEN "failing"
                             ELSE IF Present(copy[q].agents) = {} THEN "writing" ELSE "asking"]
  /\ UNCHANGED <<rows, op, copy, manager, reply, history>>

\* Mutant of Merge: descriptions of unknown agents are stored as well.
MergeInvented(q, blob, described) ==
  [blob EXCEPT !.agents = [a \in Agents |->
     IF a \in described THEN [(IF @[a] = None THEN Entry(q) ELSE @[a]) EXCEPT !.advanced = TRUE]
     ELSE @[a]]]
\* Descriptions of agents that were not reported are ignored; an answer that
\* is no JSON object describes nothing.
Merge(q, blob, described) ==
  [blob EXCEPT !.agents = [a \in Agents |->
     IF a \in described /\ @[a] # None THEN [@[a] EXCEPT !.advanced = TRUE] ELSE @[a]]]

Ask(q, described) ==
  /\ ~ctxDone[q]
  /\ Move(q, "asking", "writing")
  /\ copy' = [copy EXCEPT ![q] = Merge(q, @, described)]
  /\ UNCHANGED <<rows, op, manager, reply, history>>

\* Mutant of AskFails: the reason is noted and the task goes on.
AskFailsOn(q) ==
  /\ Move(q, "asking", "writing")
  /\ copy' = [copy EXCEPT ![q].reason = "failed"]
  /\ UNCHANGED <<rows, op, manager, reply, history>>
\* The call fails by itself, by a timeout or by cancellation.
AskFails(q) ==
  /\ Move(q, "asking", "failing")
  /\ UNCHANGED <<rows, op, copy, manager, reply, history>>

\* The write uses the task's context, so a task cancelled after the answer
\* leaves the row as it is.
CompleteWrite(q) ==
  /\ Move(q, "writing", "returned")
  /\ IF ctxDone[q] THEN UNCHANGED <<rows, history>>
     ELSE /\ rows' = [rows EXCEPT ![RunOf(q)] = Row("completed", copy[q])]
          /\ Witness(q)
  /\ UNCHANGED <<op, copy, manager, reply>>

\* fail writes the snapshot with a failure_reason under a live context.
\* The reason, "shutdown" or the provider's error, is one value here.
Fail(q) ==
  /\ Move(q, "failing", "returned")
  /\ rows' = [rows EXCEPT ![RunOf(q)] = Row("error", [copy[q] EXCEPT !.reason = "failed"])]
  /\ UNCHANGED <<op, copy, manager, reply, history>>

\* The manager's deferred delete and release.
Unregister(q) ==
  /\ Move(q, "returned", "done")
  /\ handle' = [handle EXCEPT ![RunOf(q)] = None]
  /\ ctxDone' = [ctxDone EXCEPT ![q] = TRUE]
  /\ copy' = [copy EXCEPT ![q] = None]
  /\ UNCHANGED <<rows, op, root, reply, history>>

\* Shutdown cancels every task.
Signal ==
  /\ ~root
  /\ root' = TRUE
  /\ ctxDone' = [q \in Requests |-> ctxDone[q] \/ pc[q] \in Tasking]
  /\ UNCHANGED <<rows, pc, op, copy, handle, reply, history>>

Quiet ==
  /\ \A q \in Requests : pc[q] \in {"answered", "gone", "done"}
  /\ UNCHANGED vars

Store(q) ==
  \/ \E r \in RunIds, agents \in Reports : StoreRead(q, r, agents)
  \/ StoreWrite(q) \/ StartAgentAdvancement(q)
Update(q) == (\E a \in Agents : UpdateRead(q, a) \/ UpdateMiss(q, a)) \/ UpdateWrite(q)
Task(q) ==
  \/ Run(q) \/ AskFails(q) \/ CompleteWrite(q) \/ Fail(q) \/ Unregister(q)
  \/ \E described \in SUBSET Agents : Ask(q, described)

Next ==
  \/ \E q \in Requests : Store(q) \/ Update(q) \/ Abandon(q) \/ Task(q)
  \/ Signal
  \/ Quiet

Spec == Init /\ [][Next]_vars

-----------------------------------------------------------------------------
Entries == [report : Requests, updates : SUBSET Requests, advanced : BOOLEAN]
Blobs == [reason : {None, "failed"}, agents : [Agents -> Entries \cup {None}]]
Rows == [status : {"processing", "completed", "error"}, blob : Blobs]
ASSUME ValuesAssumption == None \notin Entries \cup Blobs \cup Rows /\ None # "failed"

\* Every variable stays in its type.
TypeOK ==
  /\ rows \in [RunIds -> Rows \cup {None}]
  /\ pc \in [Requests -> {"idle", "answered", "gone", "returned", "done"} \cup Holding]
  /\ copy \in [Requests -> Blobs \cup {None}]
  /\ op \in [Requests -> [kind : {"none", "store", "update"}, run : RunIds \cup {None},
                          agents : SUBSET Agents]]
  /\ handle \in [RunIds -> Requests \cup {None}]
  /\ ctxDone \in [Requests -> BOOLEAN] /\ root \in BOOLEAN
  /\ reply \in [Requests -> {"none", "success", "error"}]
  /\ held \in [Requests -> (SUBSET Requests) \cup {{None}}] /\ later \in [Requests -> SUBSET Requests]

\* "the stored blob must keep describing exactly the agents Sentry launched"
\* (service.go:224-225): whatever stale copies and model answers are written
\* back, a row's agents are the agents of one report for that run, never a
\* mixture of reports and never an agent nobody reported.
OneWholeReport ==
  \A r \in RunIds : rows[r] # None =>
    \E q \in Requests :
      /\ op[q].kind = "store" /\ RunOf(q) = r
      /\ Present(rows[r].blob.agents) = op[q].agents
      /\ \A a \in op[q].agents : rows[r].blob.agents[a].report = q

\* Rows and copies have their types and every row is of one whole report.
RowsAreCoherent == TypeOK /\ OneWholeReport

\* What a request's last successful write put into a row.
Effect(q) ==
  IF op[q].kind = "update"
  THEN \A a \in op[q].agents : rows[RunOf(q)].blob.agents[a] # None
                               /\ q \in rows[RunOf(q)].blob.agents[a].updates
  ELSE /\ rows[RunOf(q)].status = "completed"
       /\ \A a \in op[q].agents : rows[RunOf(q)].blob.agents[a] # None
                                  /\ rows[RunOf(q)].blob.agents[a].report = q
Wrote(q) == held[q] # {None}

\* An accepted update, and the outcome of a completed task, can only be lost
\* to a handler or task that already held an older copy of the row, or to a
\* request that came afterwards: a later report for an update, any later
\* request for the run's status.
LostOnlyToARace ==
  \A q \in Requests : (Wrote(q) /\ ~Effect(q)) =>
    \E p \in Requests \ {q} :
      /\ RunOf(p) = RunOf(q)
      /\ \/ p \in held[q]
         \/ p \in later[q] /\ (op[p].kind = "store" \/ op[q].kind = "store")

\* A completed run shows a failure_reason only as a leftover: another task of
\* the run has failed, and a report kept the reason among the keys it does
\* not replace.
ReasonIsALeftover ==
  \A r \in RunIds :
    (rows[r] # None /\ rows[r].status = "completed" /\ rows[r].blob.reason # None) =>
      \E p \in Requests :
        op[p].kind = "store" /\ RunOf(p) = r /\ ~Wrote(p) /\ pc[p] \in {"returned", "done"}

\* A run does not rest in processing: when nobody works on it any more it
\* has been ended as completed or failed, however the tasks of several
\* reports superseded each other.  The exceptions are shutdown, which makes
\* a task's last write fail, and an accepted update, which sets processing
\* and starts no task.
RestingRunHasEnded ==
  \A r \in RunIds :
    (/\ rows[r] # None /\ rows[r].status = "processing"
     /\ \A q \in Requests : RunOf(q) = r => pc[q] \notin Holding \cup Tasking) =>
       \/ root
       \/ \E q \in Requests : op[q].kind = "update" /\ RunOf(q) = r /\ reply[q] = "success"
=============================================================================
