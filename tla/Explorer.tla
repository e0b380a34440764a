------------------------------ MODULE Explorer ------------------------------
(***************************************************************************)
(* internal/explorer: chat runs whose whole state is one stored blob.      *)
(*                                                                         *)
(* A request is one HTTP call: a chat call that starts or continues a run, *)
(* or an update.  Chat calls and answered updates dispatch a background    *)
(* task (the chatTask of that request), so requests also name tasks and    *)
(* replies.  Each SQL statement is one step (the store has a single        *)
(* connection); what the Go code does between two statements belongs to    *)
(* the later one.  The stored row keeps record.Status and state.Status,    *)
(* which every writer sets together, as one field.                         *)
(*                                                                         *)
(*   chat     idle -> created|read -> stored -> running ...                *)
(*   update   idle -> editing (mu held) -> done, or stored -> running ...  *)
(*   task     running -> replied -> completing (mu held) -> returned       *)
(*                    -> failed  -> failing    (mu held) -> returned       *)
(*            returned -> done           the manager drops the handle      *)
(*   gone: the caller gave up or a statement failed.  dead: lost in a      *)
(*   process restart.                                                      *)
(***************************************************************************)
EXTENDS Integers, Sequences, FiniteSets

CONSTANTS Requests, Runs, InsertIndexes, None,
          MaxRestarts       \* bound: process restarts in a behaviour

ASSUME NoneAssumption == None \notin Requests /\ None \notin Runs
ASSUME IndexAssumption == InsertIndexes \subseteq Nat \cup {None}
ASSUME RestartAssumption == MaxRestarts \in Nat

VARIABLES
  row,               \* the explorer_runs table: a state record, or None
  pc, op,            \* where each request or task is; what was asked of it
  local,             \* the copy of the row a request or task has read
  cause,             \* why a failed task failed
  mu,                \* holder of Service.mu
  handle,            \* the run manager's cancel handle per run
  ctxDone,           \* the task's context is cancelled
  root,              \* the manager's context is cancelled: shutting down
  restarts,
  known,             \* runs whose id a client has been told
  orphaned,          \* history: runs whose starting request broke off
  overtaken          \* history: a chat call wrote the row mu's holder had read

vars == <<row, pc, op, local, cause, mu, handle, ctxDone, root, restarts,
          known, orphaned, overtaken>>
\* Everything but the row and the control state of one request.
environment == <<cause, handle, ctxDone, root, restarts, known>>

TurnKinds == {"start", "continue", "answer"}
EditKinds == {"interrupt", "skip", "await", "create_pr"}
Statuses == {"processing", "completed", "error", "awaiting_user_input"}
\* classifyFailure: "shutdown" for a cancelled context; "provider" stands for
\* "timeout" and for the text of any other error.
Reasons == {"shutdown", "provider"}

NoOp == [kind |-> "none", run |-> None, index |-> None]
RunOf(q) == op[q].run
Tasking == {"running", "replied", "completing", "failed", "failing", "returned"}

-----------------------------------------------------------------------------
\* Blocks.  A block's text is the request whose query or reply it carries.
User(q) == [role |-> "user", by |-> q, loading |-> FALSE]
makeLoadingBlock == [role |-> "assistant", by |-> None, loading |-> TRUE]
Answer(q) == [role |-> "assistant", by |-> q, loading |-> FALSE]

Turn(blocks, q) == blocks \o <<User(q), makeLoadingBlock>>

\* InsertIndex keeps only the blocks before it (a negative one counts as 0).
Truncate(blocks, i) ==
  IF i # None /\ i < Len(blocks) THEN SubSeq(blocks, 1, i) ELSE blocks

LoadingAt(blocks) == {i \in 1..Len(blocks) : blocks[i].loading}

\* Mutant of resolveLoadingBlock: every loading block is filled in.
ResolveAll(blocks, q) ==
  [i \in 1..Len(blocks) |-> IF blocks[i].loading THEN Answer(q) ELSE blocks[i]]

\* Fill the last loading block, or append when there is none.
resolveLoadingBlock(blocks, q) ==
  IF LoadingAt(blocks) = {} THEN Append(blocks, Answer(q))
  ELSE LET last == CHOOSE i \in LoadingAt(blocks) : \A j \in LoadingAt(blocks) : j <= i
       IN [blocks EXCEPT ![last] = Answer(q)]

\* The other blocks, in their order: the n-th of them is the one with n of
\* them up to and including itself.
Rank(places, i) == Cardinality({j \in places : j <= i})
dropLoadingBlocks(blocks) ==
  LET kept == (1..Len(blocks)) \ LoadingAt(blocks)
  IN [n \in 1..Cardinality(kept) |-> blocks[CHOOSE i \in kept : Rank(kept, i) = n]]

\* RunState, as far as the properties tell it apart.
State(status, blocks, pending, reason) ==
  [status |-> status, blocks |-> blocks, pending |-> pending, reason |-> reason]

-----------------------------------------------------------------------------
Init ==
  /\ row = [r \in Runs |-> None]
  /\ pc = [q \in Requests |-> "idle"]
  /\ op = [q \in Requests |-> NoOp]
  /\ local = [q \in Requests |-> None]
  /\ cause = [q \in Requests |-> None]
  /\ mu = None
  /\ handle = [r \in Runs |-> None]
  /\ ctxDone = [q \in Requests |-> FALSE]
  /\ root = FALSE
  /\ restarts = 0
  /\ known = {}
  /\ orphaned = {}
  /\ overtaken = FALSE

Begin(q, kind, r, i, label) ==
  /\ pc[q] = "idle"
  /\ pc' = [pc EXCEPT ![q] = label]
  /\ op' = [op EXCEPT ![q] = [kind |-> kind, run |-> r, index |-> i]]

\* A chat call writes without mu; note whose copy it makes stale.
NoteOvertaken(q) ==
  overtaken' = (overtaken \/ (mu \in Requests \ {q} /\ RunOf(mu) = RunOf(q)))

-----------------------------------------------------------------------------
\* startRun: CreateExplorerRun inserts the row ...
StartRun(q, r) ==
  LET state == State("processing", Turn(<<>>, q), FALSE, None)
  IN /\ row[r] = None
     /\ Begin(q, "start", r, None, "created")
     /\ row' = [row EXCEPT ![r] = state]
     /\ local' = [local EXCEPT ![q] = state]
     /\ UNCHANGED <<environment, mu, orphaned, overtaken>>

\* ... and UpdateExplorerRun writes it again with its run id.
StartStore(q) ==
  /\ pc[q] = "created"
  /\ pc' = [pc EXCEPT ![q] = "stored"]
  /\ row' = [row EXCEPT ![RunOf(q)] = local[q]]
  /\ local' = [local EXCEPT ![q] = None]
  /\ NoteOvertaken(q)
  /\ UNCHANGED <<environment, op, mu, orphaned>>

\* continueRun: read the row; mu is not taken.
ContinueRead(q, r, i) ==
  /\ r \in known
  /\ Begin(q, "continue", r, i, "read")
  /\ local' = [local EXCEPT ![q] = row[r]]
  /\ UNCHANGED <<environment, row, mu, orphaned, overtaken>>

\* Add the turn to the copy and write the whole state back.
ContinueWrite(q) ==
  /\ pc[q] = "read"
  /\ pc' = [pc EXCEPT ![q] = "stored"]
  /\ row' = [row EXCEPT ![RunOf(q)] =
       State("processing", Turn(Truncate(local[q].blocks, op[q].index), q),
             local[q].pending, None)]
  /\ local' = [local EXCEPT ![q] = None]
  /\ NoteOvertaken(q)
  /\ UNCHANGED <<environment, op, mu, orphaned>>

\* Mutant of dispatch: the new task is cancelled along with the old one.
DispatchCancelled(q) ==
  /\ pc[q] = "stored"
  /\ pc' = [pc EXCEPT ![q] = "running"]
  /\ ctxDone' = [p \in Requests |-> ctxDone[p] \/ p = q \/ p = handle[RunOf(q)]]
  /\ handle' = [handle EXCEPT ![RunOf(q)] = q]
  /\ known' = known \cup {RunOf(q)}
  /\ mu' = IF mu = q THEN None ELSE mu
  /\ UNCHANGED <<row, op, local, cause, root, restarts, orphaned, overtaken>>

\* Mutant of dispatch: no new task while the run still has a handle.
DispatchUnlessRunning(q) ==
  /\ pc[q] = "stored"
  /\ pc' = [pc EXCEPT ![q] = IF handle[RunOf(q)] = None THEN "running" ELSE "done"]
  /\ ctxDone' = [ctxDone EXCEPT ![q] = root]
  /\ handle' = [handle EXCEPT ![RunOf(q)] = IF @ = None THEN q ELSE @]
  /\ known' = known \cup {RunOf(q)}
  /\ mu' = IF mu = q THEN None ELSE mu
  /\ UNCHANGED <<row, op, local, cause, root, restarts, orphaned, overtaken>>

\* dispatch calls Manager.Start: the previous task of the run is cancelled.
\* Update reaches it with mu held and returns.
dispatch(q) ==
  /\ pc[q] = "stored"
  /\ pc' = [pc EXCEPT ![q] = "running"]
  /\ ctxDone' = [p \in Requests |-> IF p = q THEN root
                                    ELSE ctxDone[p] \/ p = handle[RunOf(q)]]
  /\ handle' = [handle EXCEPT ![RunOf(q)] = q]
  /\ known' = known \cup {RunOf(q)}
  /\ mu' = IF mu = q THEN None ELSE mu
  /\ UNCHANGED <<row, op, local, cause, root, restarts, orphaned, overtaken>>

-----------------------------------------------------------------------------
\* Update takes mu and reads the row.
UpdateRead(q, r, kind) ==
  /\ mu = None
  /\ r \in known
  /\ Begin(q, kind, r, None, "editing")
  /\ mu' = q
  /\ local' = [local EXCEPT ![q] = row[r]]
  /\ overtaken' = FALSE
  /\ UNCHANGED <<environment, row, orphaned>>

EditedBlocks(blocks, kind, q) ==
  CASE kind = "answer" -> Turn(blocks, q)
    [] kind = "interrupt" -> dropLoadingBlocks(blocks)
    [] OTHER -> blocks

\* Mutant of Edited: an interrupt keeps the run processing.
EditedKeepsStatus(state, kind, q) ==
  State(CASE kind = "answer" -> "processing"
          [] kind = "skip" -> "completed"
          [] kind = "await" -> "awaiting_user_input"
          [] OTHER -> state.status,
        EditedBlocks(state.blocks, kind, q),
        kind = "await" \/ (kind = "create_pr" /\ state.pending),
        None)

\* What each payload type does to the state; "skip" is a user_input_response
\* without an answer, and "create_pr" stands for every payload that leaves
\* blocks and status alone (RepoPRStates is abstracted away).
Edited(state, kind, q) ==
  State(CASE kind = "answer" -> "processing"
          [] kind \in {"interrupt", "skip"} -> "completed"
          [] kind = "await" -> "awaiting_user_input"
          [] OTHER -> state.status,
        EditedBlocks(state.blocks, kind, q),
        kind = "await" \/ (kind = "create_pr" /\ state.pending),
        None)

\* Write the edited state; an answer still has to dispatch, with mu held.
UpdateWrite(q) ==
  /\ pc[q] = "editing"
  /\ row' = [row EXCEPT ![RunOf(q)] = Edited(local[q], op[q].kind, q)]
  /\ local' = [local EXCEPT ![q] = None]
  /\ IF op[q].kind = "answer"
     THEN pc' = [pc EXCEPT ![q] = "stored"] /\ UNCHANGED mu
     ELSE pc' = [pc EXCEPT ![q] = "done"] /\ mu' = None
  /\ UNCHANGED <<environment, op, orphaned, overtaken>>

\* The client disconnects or the statement fails: the handler returns before
\* its next write.
Abandon(q) ==
  /\ pc[q] \in {"created", "read", "editing"}
  /\ pc' = [pc EXCEPT ![q] = "gone"]
  /\ local' = [local EXCEPT ![q] = None]
  /\ mu' = IF mu = q THEN None ELSE mu
  /\ orphaned' = IF pc[q] = "created" THEN orphaned \cup {RunOf(q)} ELSE orphaned
  /\ UNCHANGED <<environment, row, op, overtaken>>

-----------------------------------------------------------------------------
\* chatTask.Run: generateReply returns the provider's answer ...
Reply(q) ==
  /\ pc[q] = "running"
  /\ ~ctxDone[q]
  /\ pc' = [pc EXCEPT ![q] = "replied"]
  /\ UNCHANGED <<environment, row, op, local, mu, orphaned, overtaken>>

\* ... or an error, which classifyFailure names.
ReplyFails(q, why) ==
  /\ pc[q] = "running"
  /\ (why = "shutdown") <=> ctxDone[q]
  /\ pc' = [pc EXCEPT ![q] = "failed"]
  /\ cause' = [cause EXCEPT ![q] = why]
  /\ UNCHANGED <<row, op, local, mu, handle, ctxDone, root, restarts, known, orphaned, overtaken>>

\* Mutant of CompleteRead: completeRun does not take mu.
CompleteReadUnlocked(q) ==
  /\ pc[q] = "replied"
  /\ IF ctxDone[q]
     THEN /\ pc' = [pc EXCEPT ![q] = "returned"]
          /\ UNCHANGED <<local, overtaken>>
     ELSE /\ pc' = [pc EXCEPT ![q] = "completing"]
          /\ local' = [local EXCEPT ![q] = row[RunOf(q)]]
          /\ UNCHANGED overtaken
  /\ UNCHANGED <<environment, row, op, mu, orphaned>>

\* completeRun reads and writes with the task's own context: once that is
\* cancelled both statements fail and the reply is dropped.
CompleteRead(q) ==
  /\ pc[q] = "replied"
  /\ mu = None
  /\ IF ctxDone[q]
     THEN /\ pc' = [pc EXCEPT ![q] = "returned"]
          /\ UNCHANGED <<local, mu, overtaken>>
     ELSE /\ pc' = [pc EXCEPT ![q] = "completing"]
          /\ local' = [local EXCEPT ![q] = row[RunOf(q)]]
          /\ mu' = q
          /\ overtaken' = FALSE
  /\ UNCHANGED <<environment, row, op, orphaned>>

CompleteWrite(q) ==
  /\ pc[q] = "completing"
  /\ row' = IF ctxDone[q] THEN row
            ELSE [row EXCEPT ![RunOf(q)] =
                   State("completed", resolveLoadingBlock(local[q].blocks, q),
                         local[q].pending, None)]
  /\ pc' = [pc EXCEPT ![q] = "returned"]
  /\ local' = [local EXCEPT ![q] = None]
  /\ mu' = IF mu = q THEN None ELSE mu
  /\ UNCHANGED <<environment, op, orphaned, overtaken>>

\* failRun uses a context that survives cancellation.
FailRead(q) ==
  /\ pc[q] = "failed"
  /\ mu = None
  /\ pc' = [pc EXCEPT ![q] = "failing"]
  /\ local' = [local EXCEPT ![q] = row[RunOf(q)]]
  /\ mu' = q
  /\ overtaken' = FALSE
  /\ UNCHANGED <<environment, row, op, orphaned>>

FailWrite(q) ==
  /\ pc[q] = "failing"
  /\ row' = [row EXCEPT ![RunOf(q)] =
               State("error", dropLoadingBlocks(local[q].blocks),
                     local[q].pending, cause[q])]
  /\ pc' = [pc EXCEPT ![q] = "returned"]
  /\ local' = [local EXCEPT ![q] = None]
  /\ cause' = [cause EXCEPT ![q] = None]
  /\ mu' = None
  /\ UNCHANGED <<op, handle, ctxDone, root, restarts, known, orphaned, overtaken>>

\* The manager's deferred calls: the delete removes whatever handle the key
\* holds, and the task's context is released.
Unregister(q) ==
  /\ pc[q] = "returned"
  /\ pc' = [pc EXCEPT ![q] = "done"]
  /\ handle' = [handle EXCEPT ![RunOf(q)] = None]
  /\ ctxDone' = [ctxDone EXCEPT ![q] = TRUE]
  /\ UNCHANGED <<row, op, local, cause, mu, root, restarts, known, orphaned, overtaken>>

-----------------------------------------------------------------------------
\* Shutdown begins: every task's context is cancelled.
Signal ==
  /\ ~root
  /\ root' = TRUE
  /\ ctxDone' = [q \in Requests |-> ctxDone[q] \/ pc[q] \in Tasking]
  /\ UNCHANGED <<row, pc, op, local, cause, mu, handle, restarts, known, orphaned, overtaken>>

\* The process ends, in a crash or at the end of a shutdown, and is started
\* again: the table survives, nothing resumes the runs it holds.
Restart ==
  /\ restarts < MaxRestarts
  /\ restarts' = restarts + 1
  /\ pc' = [q \in Requests |-> IF pc[q] \in {"idle", "done", "gone"} THEN pc[q] ELSE "dead"]
  /\ local' = [q \in Requests |-> None]
  /\ cause' = [q \in Requests |-> None]
  /\ mu' = None
  /\ handle' = [r \in Runs |-> None]
  /\ ctxDone' = [q \in Requests |-> FALSE]
  /\ root' = FALSE
  /\ overtaken' = FALSE
  /\ UNCHANGED <<row, op, known, orphaned>>

Chat(q) ==
  \/ \E r \in Runs : StartRun(q, r) \/ \E i \in InsertIndexes : ContinueRead(q, r, i)
  \/ StartStore(q) \/ ContinueWrite(q)
Update(q) ==
  \/ \E r \in Runs, kind \in EditKinds \cup {"answer"} : UpdateRead(q, r, kind)
  \/ UpdateWrite(q)
chatTask(q) ==
  \/ Reply(q) \/ \E why \in Reasons : ReplyFails(q, why)
  \/ CompleteRead(q) \/ CompleteWrite(q)
  \/ FailRead(q) \/ FailWrite(q)
  \/ Unregister(q)

\* No call is in progress and every task has returned.
Quiet ==
  /\ \A q \in Requests : pc[q] \in {"idle", "done", "gone", "dead"}
  /\ UNCHANGED vars

Next ==
  \/ \E q \in Requests : Chat(q) \/ Update(q) \/ dispatch(q) \/ Abandon(q) \/ chatTask(q)
  \/ Signal
  \/ Restart
  \/ Quiet

(***************************************************************************)
(* A handler that has begun, and a task, keep being scheduled; provider    *)
(* calls end by OUTBOUND_TIMEOUT; Go's mutexes do not starve a waiter.     *)
(***************************************************************************)
Fairness ==
  \A q \in Requests :
    /\ WF_vars(StartStore(q) \/ ContinueWrite(q) \/ UpdateWrite(q) \/ dispatch(q))
    /\ SF_vars(chatTask(q))

Spec == Init /\ [][Next]_vars
FairSpec == Spec /\ Fairness

-----------------------------------------------------------------------------
Blocks == [role : {"user", "assistant"}, by : Requests \cup {None}, loading : BOOLEAN]
States == [status : Statuses, blocks : Seq(Blocks), pending : BOOLEAN,
           reason : Reasons \cup {None}]
ASSUME ValuesAssumption == None \notin States /\ None \notin Reasons

Processing(r) == row[r] # None /\ row[r].status = "processing"

\* Every variable stays in its type.
TypeOK ==
  /\ row \in [Runs -> States \cup {None}]
  /\ pc \in [Requests -> Tasking \cup {"idle", "created", "read", "editing",
                                       "stored", "done", "gone", "dead"}]
  /\ op \in [Requests -> [kind : TurnKinds \cup EditKinds, run : Runs,
                          index : InsertIndexes \cup {None}] \cup {NoOp}]
  /\ local \in [Requests -> States \cup {None}]
  /\ cause \in [Requests -> Reasons \cup {None}]
  /\ mu \in Requests \cup {None}
  /\ handle \in [Runs -> Requests \cup {None}]
  /\ ctxDone \in [Requests -> BOOLEAN]
  /\ root \in BOOLEAN
  /\ restarts \in 0..MaxRestarts
  /\ known \subseteq Runs
  /\ orphaned \subseteq Runs
  /\ overtaken \in BOOLEAN

\* Whoever is about to write back a copy made under mu writes back what the
\* table still holds, unless a chat call, which takes no lock, got in
\* between: updates and finishing tasks never lose each other's writes.
LockedCopiesAreFresh ==
  \A q \in Requests : pc[q] \in {"editing", "completing", "failing"} =>
    overtaken \/ local[q] = row[RunOf(q)]

\* A run that claims to be processing ends in a block that shows as loading,
\* so the session always renders progress, whatever was truncated,
\* interrupted or overwritten before.
ProcessingShowsProgress ==
  \A r \in Runs : Processing(r) =>
    /\ row[r].blocks # <<>>
    /\ row[r].blocks[Len(row[r].blocks)].loading

\* A failed run shows no loading block, and only a failed run has a reason.
FailureIsFinal ==
  \A r \in Runs : row[r] # None =>
    /\ row[r].status = "error" => LoadingAt(row[r].blocks) = {}
    /\ row[r].reason # None => row[r].status = "error"

\* What a client reads in a row agrees with itself, whichever whole-blob
\* writes came last: the fields have their types, a processing run shows
\* progress, and a failed run shows none.
RowsAreCoherent == TypeOK /\ ProcessingShowsProgress /\ FailureIsFinal

\* No reply is recorded twice in a run, whatever was superseded or retried.
ReplyRecordedOnce ==
  \A r \in Runs, q \in Requests : row[r] # None =>
    Cardinality({i \in 1..Len(row[r].blocks) :
                   row[r].blocks[i].role = "assistant" /\ row[r].blocks[i].by = q}) <= 1

\* The reason "shutdown" is recorded only in a shutdown, or when a later
\* turn of the same run cancelled the task (classifyFailure tells the two
\* apart by nothing).
ShutdownReasonExplained ==
  \A r \in Runs : (row[r] # None /\ row[r].reason = "shutdown") =>
    \/ root
    \/ restarts > 0
    \/ \E p, q \in Requests :
         /\ p # q
         /\ \A x \in {p, q} : /\ RunOf(x) = r
                              /\ op[x].kind \in TurnKinds
                              /\ pc[x] \in Tasking \cup {"done"}

\* A run leaves "processing", however turns supersede each other, unless the
\* process is stopped or the request that created the run broke off.
ProcessingEnds ==
  \A r \in Runs :
    Processing(r) ~>
      \/ ~Processing(r)
      \/ root \/ restarts > 0 \/ r \in orphaned
=============================================================================
