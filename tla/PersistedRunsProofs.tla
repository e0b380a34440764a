------------------------- MODULE PersistedRunsProofs -------------------------
(***************************************************************************)
(* For any number of requests, keys, commands and rows: stored outcomes    *)
(* are coherent, retries agree on the oldest run, a key gets a second run  *)
(* only in a race, duplicates are answered as the first submission was,    *)
(* and the last command shows where commands did not overlap.              *)
(***************************************************************************)
EXTENDS PersistedRuns, FiniteSetTheorems, WellFoundedInduction, TLAPS

\* The stages at which a request holds a copy of its run's row.
Holding == {"loaded", "new", "logged", "projecting", "writing", "failing"}
Begun == {"stored", "done"} \cup Tasking

\* Where a request is fits what it asks for and what it has been given.
Shape(q) ==
  /\ pc[q] = "idle" <=> op[q].kind = "none"
  /\ pc[q] = "idle" => reply[q] = NoReply /\ version[q] = 0
  /\ pc[q] = "looked" => op[q].kind \in Creates /\ reply[q] = NoReply
  /\ pc[q] \in {"idle", "looked"} => RunOf(q) = None
  /\ pc[q] \in {"loaded"} \cup Accepting =>
       op[q].kind = "command" /\ reply[q] = NoReply
  /\ op[q].kind = "command" => RunOf(q) \in Stored /\ op[q].key \in CommandIds
  /\ op[q].kind \in Creates =>
       /\ op[q].key \in Keys \cup {None}
       /\ reply[q].dup => /\ pc[q] = "answered" /\ op[q].key \in Keys
                          /\ reply[q].run \in Matching(op[q].kind, op[q].key)
       /\ ~reply[q].dup => reply[q].run = RunOf(q)
       /\ RunOf(q) # None => RunOf(q) \in Matching(op[q].kind, op[q].key)
  /\ pc[q] \in Begun => RunOf(q) \in Stored
  /\ pc[q] \in Holding => rec[q] # None
  /\ rec[q] # None => RunOf(q) \in Stored
  /\ rec[q] # None => rec[q].kind = rows[RunOf(q)].kind /\ rec[q].key = rows[RunOf(q)].key
Shapes == \A q \in Requests : Shape(q)

\* A row is coherent, stored or in somebody's hand.
Coherent(row, r) ==
  /\ row.status = "error" => row.error # None
  /\ row.status = "completed" =>
       /\ row.error = None
       /\ row.result.summary # None \/ \E id \in CommandIds : commands[r][id] # 0
CopiesAreCoherent ==
  /\ \A r \in Stored : Coherent(rows[r], r)
  /\ \A q \in Requests : rec[q] # None => Coherent(rec[q], RunOf(q))
  /\ \A q \in Requests : pc[q] \in {"asking", "replied", "writing"} /\ op[q].kind # "answer" =>
       proj[q].summary # None

\* A command that goes on has been logged, under the version of the first.
LogIsKept ==
  \A q \in Requests : op[q].kind = "command" =>
    /\ pc[q] \in {"logged", "accepted", "projecting"} \cup Begun =>
         commands[RunOf(q)][op[q].key] # 0 /\ version[q] # 0
    /\ reply[q].dup =>
         pc[q] = "answered" /\ version[q] # 0 /\ version[q] = commands[RunOf(q)][op[q].key]

\* A create that was not told to reuse a run looked before there was one.
LookedBefore ==
  \A q \in Requests :
    /\ lookedAt[q] <= Cardinality(Stored)
    /\ op[q].kind \in Creates /\ op[q].key \in Keys /\ ~reply[q].dup =>
         \A r \in Matching(op[q].kind, op[q].key) : lookedAt[q] < r

\* Where commands have not overlapped, a command works on its run alone, and
\* no command has come to a run that its create still works on.
Alone ==
  \A r \in Stored \ overlapped : \A p, q \in Requests :
    p # q /\ RunOf(p) = r /\ RunOf(q) = r /\ op[p].kind = "command" /\ q \in AtWork(r) =>
      p \notin AtWork(r) /\ op[q].kind = "command"

\* What such a command, and its task, carries and has written.
Carries(q) ==
  /\ pc[q] \in {"accepted", "projecting"} =>
       proj[q].command = op[q].key /\ proj[q].version = version[q]
  /\ RunOf(q) \notin overlapped =>
       LET row == rows[RunOf(q)]
       IN /\ pc[q] = "accepted" => row.version = version[q]
          /\ pc[q] = "projecting" => rec[q].version = version[q]
          /\ pc[q] \in {"writing", "failing"} => rec[q] = row
          /\ pc[q] \in {"asking", "replied", "writing"} =>
               proj[q].command = row.result.command /\ proj[q].version = row.version
Carried == \A q \in Requests : op[q].kind = "command" => Carries(q)

IInv ==
  /\ TypeOK
  /\ Shapes
  /\ CopiesAreCoherent
  /\ LogIsKept
  /\ ReuseIsOfTheOldest
  /\ LookedBefore
  /\ Alone
  /\ Carried
  /\ LastCommandIsShown

-----------------------------------------------------------------------------
\* The stages by name.
LEMMA Labels ==
  /\ Tasking = {"running", "asking", "replied", "writing", "failed", "failing", "returned"}
  /\ Accepting = {"new", "logged", "accepted", "projecting"}
  /\ Begun = {"stored", "done"} \cup Tasking
  /\ Holding = {"loaded", "new", "logged", "projecting", "writing", "failing"}
  /\ Creates = {"investigation", "answer"}
BY DEF Tasking, Accepting, Begun, Holding, Creates

\* CreateRun's id is above every stored one, and above their number.
LEMMA NextIdIsNew ==
  /\ NextId \in Nat /\ Cardinality(Stored) \in Nat /\ Cardinality(Stored) < NextId
  /\ \A r \in Stored : r < NextId
<1> DEFINE Below == {r \in RunIds : \E s \in Stored : r <= s}
<1>1. IsFiniteSet(RunIds) /\ RunIds \subseteq Nat
  BY RunsAssumption, FS_Interval DEF RunIds
<1>2. IsFiniteSet(Below) /\ IsFiniteSet(Stored)
  BY <1>1, FS_Subset DEF Stored
<1>3. Cardinality(Below) \in Nat /\ Cardinality(Stored) \in Nat
  BY <1>2, FS_CardinalityType
<1>4. Stored \subseteq Below
  <2>1. \A r \in Stored : r \in RunIds /\ r <= r
    BY <1>1 DEF Stored
  <2>q. QED BY <2>1
<1>5. Cardinality(Stored) <= Cardinality(Below)
  BY <1>2, <1>4, FS_Subset
<1>6. ASSUME NEW r \in Stored PROVE r <= Cardinality(Below)
  <2>1. r \in Nat /\ r \in 1..MaxRuns
    BY <1>1 DEF Stored, RunIds
  <2>2. 1..r \subseteq Below
    BY <2>1, RunsAssumption DEF RunIds
  <2>3. Cardinality(1..r) = r
    BY <2>1, FS_Interval
  <2> HIDE DEF Below
  <2>4. Cardinality(1..r) <= Cardinality(Below)
    BY <1>2, <2>2, FS_Subset
  <2>q. QED BY <2>3, <2>4
<1>7. NextId = 1 + Cardinality(Below)
  BY DEF NextId
<1> HIDE DEF Below
<1>8. \A r \in Stored : r \in Nat
  BY <1>1 DEF Stored
<1>q. QED BY <1>3, <1>5, <1>6, <1>7, <1>8

\* FindRunByIdempotencyKey returns the oldest run there is.
LEMMA FindsTheOldest ==
  ASSUME NEW kind, NEW key, Matching(kind, key) # {}
  PROVE  /\ FindRun(kind, key) \in Matching(kind, key)
         /\ \A r \in Matching(kind, key) : FindRun(kind, key) <= r
<1>1. Matching(kind, key) \subseteq Nat
  BY RunsAssumption DEF Matching, Stored, RunIds
<1>2. PICK R : R = OpToRel(<, Nat)
  OBVIOUS
<1>3. IsWellFoundedOn(R, Nat)
  BY <1>2, NatLessThanWellFounded
<1>r. \A m, n \in Nat : m < n => <<m, n>> \in R
  BY <1>2 DEF OpToRel
<1>4. PICK x \in Matching(kind, key) : \A y \in Matching(kind, key) : ~(<<y, x>> \in R)
  BY <1>1, <1>3, WFMin
<1>5. ASSUME NEW y \in Matching(kind, key) PROVE x <= y
  <2>1. x \in Nat /\ y \in Nat
    BY <1>1
  <2>2. ~(y < x)
    BY <2>1, <1>r, <1>4
  <2>q. QED BY <2>1, <2>2
<1>q. QED BY <1>4, <1>5 DEF FindRun

-----------------------------------------------------------------------------
\* The rows that the service writes back, built from a copy it has read, and
\* the projections in them.
Answer(q) == [NoProjection EXCEPT !.summary = q]
AcceptedRow(row, v) ==
  [row EXCEPT !.version = v, !.status = IF @ \in {"completed", "error"} THEN "processing" ELSE @]
FailedRow(row) == [row EXCEPT !.status = "error", !.error = "failed"]
AnsweredRow(row, q) ==
  [row EXCEPT !.status = "completed", !.error = None, !.result = Answer(q)]
ProjectedRow(row, p) == [row EXCEPT !.result = p]
CommandedProjection(p, id, v) == [p EXCEPT !.command = id, !.version = v, !.state = "processing"]
AdvancedProjection(p, q, v) == [p EXCEPT !.summary = q, !.state = "awaiting_command", !.version = v]

\* What UpdateRun, Fail, UpdateProjection and Complete make of a row: its kind
\* and key are those of the copy.
LEMMA AcceptedRowIs ==
  ASSUME NEW row \in Rows, NEW v \in Nat
  PROVE  /\ AcceptedRow(row, v) \in Rows
         /\ AcceptedRow(row, v) =
            [kind |-> row.kind, key |-> row.key, status |-> "processing",
             error |-> row.error, version |-> v, result |-> row.result]
<1>1. PICK r1 : r1 = [row EXCEPT !.version = v]
  OBVIOUS
<1>2. r1 =
      [kind |-> row.kind, key |-> row.key, status |-> row.status,
       error |-> row.error, version |-> v, result |-> row.result]
  BY <1>1 DEF Rows
<1>3. r1 \in Rows
  BY <1>2 DEF Rows
<1>4. PICK r2 : r2 = [r1 EXCEPT !.status = "processing"]
  OBVIOUS
<1>5. r2 =
      [kind |-> row.kind, key |-> row.key, status |-> "processing",
       error |-> row.error, version |-> v, result |-> row.result]
  BY <1>4, <1>3, <1>2 DEF Rows
<1>6. r2 \in Rows
  BY <1>5 DEF Rows
<1>7. row.status \in {"processing", "completed", "error"}
  BY DEF Rows
<1>8. AcceptedRow(row, v) =
        [[row EXCEPT !.version = v] EXCEPT
           !.status = IF @ \in {"completed", "error"} THEN "processing" ELSE @]
  BY DEF AcceptedRow
<1>9. AcceptedRow(row, v) =
      [kind |-> row.kind, key |-> row.key, status |-> "processing",
       error |-> row.error, version |-> v, result |-> row.result]
  BY <1>1, <1>4, <1>2, <1>5, <1>7, <1>8
<1>q. QED BY <1>9, <1>5, <1>6

\* Fail.
LEMMA FailedRowIs ==
  ASSUME NEW row \in Rows
  PROVE  /\ FailedRow(row) \in Rows
         /\ FailedRow(row) =
            [kind |-> row.kind, key |-> row.key, status |-> "error",
             error |-> "failed", version |-> row.version, result |-> row.result]
<1>1. PICK r1 : r1 = [row EXCEPT !.status = "error"]
  OBVIOUS
<1>2. r1 =
      [kind |-> row.kind, key |-> row.key, status |-> "error",
       error |-> row.error, version |-> row.version, result |-> row.result]
  BY <1>1 DEF Rows
<1>3. r1 \in Rows
  BY <1>2 DEF Rows
<1>4. PICK r2 : r2 = [r1 EXCEPT !.error = "failed"]
  OBVIOUS
<1>5. r2 =
      [kind |-> row.kind, key |-> row.key, status |-> "error",
       error |-> "failed", version |-> row.version, result |-> row.result]
  BY <1>4, <1>3, <1>2 DEF Rows
<1>6. r2 \in Rows
  BY <1>5 DEF Rows
<1>7. FailedRow(row) = r2
  BY <1>1, <1>4 DEF FailedRow
<1>q. QED BY <1>7, <1>5, <1>6

\* UpdateProjection.
LEMMA ProjectedRowIs ==
  ASSUME NEW row \in Rows, NEW p \in Projections
  PROVE  /\ ProjectedRow(row, p) \in Rows
         /\ ProjectedRow(row, p) =
            [kind |-> row.kind, key |-> row.key, status |-> row.status,
             error |-> row.error, version |-> row.version, result |-> p]
BY DEF Rows, ProjectedRow

\* Complete.
LEMMA AnsweredRowIs ==
  ASSUME NEW row \in Rows, NEW q \in Requests
  PROVE  /\ AnsweredRow(row, q) \in Rows
         /\ AnsweredRow(row, q).result.summary = q
         /\ AnsweredRow(row, q) =
            [kind |-> row.kind, key |-> row.key, status |-> "completed",
             error |-> None, version |-> row.version, result |-> Answer(q)]
<1>0. Answer(q) \in Projections
      /\ Answer(q).summary = q
  BY DEF Answer, NoProjection, Projections
<1>1. PICK r1 : r1 = [row EXCEPT !.status = "completed"]
  OBVIOUS
<1>2. r1 =
      [kind |-> row.kind, key |-> row.key, status |-> "completed",
       error |-> row.error, version |-> row.version, result |-> row.result]
  BY <1>1 DEF Rows
<1>3. r1 \in Rows
  BY <1>2 DEF Rows
<1>4. PICK r2 : r2 = [r1 EXCEPT !.error = None]
  OBVIOUS
<1>5. r2 =
      [kind |-> row.kind, key |-> row.key, status |-> "completed",
       error |-> None, version |-> row.version, result |-> row.result]
  BY <1>4, <1>3, <1>2 DEF Rows
<1>6. r2 \in Rows
  BY <1>5 DEF Rows
<1>7. PICK r3 : r3 = [r2 EXCEPT !.result = Answer(q)]
  OBVIOUS
<1>8. r3 =
      [kind |-> row.kind, key |-> row.key, status |-> "completed",
       error |-> None, version |-> row.version, result |-> Answer(q)]
  BY <1>7, <1>6, <1>5 DEF Rows
<1>9. r3 \in Rows
  BY <1>8, <1>0 DEF Rows
<1>10. AnsweredRow(row, q) = r3
  BY <1>1, <1>4, <1>7 DEF AnsweredRow
<1>11. r3.result.summary = q
  BY <1>0, <1>8
<1>q. QED BY <1>8, <1>9, <1>10, <1>11

\* What a command makes of a projection.
LEMMA CommandedIs ==
  ASSUME NEW p \in Projections, NEW id \in CommandIds, NEW v \in Nat
  PROVE  /\ CommandedProjection(p, id, v) \in Projections
         /\ CommandedProjection(p, id, v) =
              [command |-> id, version |-> v, state |-> "processing", summary |-> p.summary]
<1>1. PICK p1 : p1 = [p EXCEPT !.command = id]
  OBVIOUS
<1>2. p1 = [command |-> id, version |-> p.version, state |-> p.state, summary |-> p.summary]
  BY <1>1 DEF Projections
<1>3. p1 \in Projections
  BY <1>2 DEF Projections
<1>4. PICK p2 : p2 = [p1 EXCEPT !.version = v]
  OBVIOUS
<1>5. p2 = [command |-> id, version |-> v, state |-> p.state, summary |-> p.summary]
  BY <1>2, <1>3, <1>4 DEF Projections
<1>6. p2 \in Projections
  BY <1>5 DEF Projections
<1>7. [p2 EXCEPT !.state = "processing"] =
        [command |-> id, version |-> v, state |-> "processing", summary |-> p.summary]
  BY <1>5, <1>6 DEF Projections
<1>8. CommandedProjection(p, id, v) = [p2 EXCEPT !.state = "processing"]
  BY <1>1, <1>4 DEF CommandedProjection
<1>9. [command |-> id, version |-> v, state |-> "processing", summary |-> p.summary] \in Projections
  BY DEF Projections
<1>q. QED BY <1>7, <1>8, <1>9

\* What an advanceTask makes of a projection.
LEMMA AdvancedIs ==
  ASSUME NEW p \in Projections, NEW v \in Nat, NEW q \in Requests
  PROVE  /\ AdvancedProjection(p, q, v) \in Projections
         /\ AdvancedProjection(p, q, v) =
              [command |-> p.command, version |-> v, state |-> "awaiting_command", summary |-> q]
<1>1. PICK p1 : p1 = [p EXCEPT !.summary = q]
  OBVIOUS
<1>2. p1 = [command |-> p.command, version |-> p.version, state |-> p.state, summary |-> q]
  BY <1>1 DEF Projections
<1>3. p1 \in Projections
  BY <1>2 DEF Projections
<1>4. PICK p2 : p2 = [p1 EXCEPT !.state = "awaiting_command"]
  OBVIOUS
<1>5. p2 = [command |-> p.command, version |-> p.version, state |-> "awaiting_command", summary |-> q]
  BY <1>2, <1>3, <1>4 DEF Projections
<1>6. p2 \in Projections
  BY <1>5 DEF Projections
<1>7. [p2 EXCEPT !.version = v] =
        [command |-> p.command, version |-> v, state |-> "awaiting_command", summary |-> q]
  BY <1>5, <1>6 DEF Projections
<1>8. AdvancedProjection(p, q, v) = [p2 EXCEPT !.version = v]
  BY <1>1, <1>4 DEF AdvancedProjection
<1>9. [command |-> p.command, version |-> v, state |-> "awaiting_command", summary |-> q] \in Projections
  BY DEF Projections
<1>q. QED BY <1>7, <1>8, <1>9

-----------------------------------------------------------------------------
\* One step of a request's handler or task.
OpType == [kind : Creates \cup {"none", "command"}, run : RunIds \cup {None},
           key : Keys \cup CommandIds \cup {None}, expected : Nat]
Step(q) == Create(q) \/ Command(q) \/ Dispatch(q) \/ Abandon(q) \/ Task(q)
Kept(p) ==
  /\ pc'[p] = pc[p] /\ op'[p] = op[p] /\ rec'[p] = rec[p] /\ proj'[p] = proj[p]
  /\ version'[p] = version[p] /\ reply'[p] = reply[p] /\ lookedAt'[p] = lookedAt[p]

\* Every step is one request's, or changes cancellation only.
LEMMA Steps ==
  ASSUME [Next]_vars
  PROVE  \/ \E q \in Requests : Step(q)
         \/ UNCHANGED <<rows, commands, pc, op, rec, proj, version, reply, history>>
BY DEF Next, Step, Signal, Quiet, vars, history

\* A step of one request leaves the others where they are.
LEMMA OthersAreKept ==
  ASSUME TypeOK, NEW q \in Requests, Step(q)
  PROVE  \A p \in Requests \ {q} : Kept(p)
<1>1. CASE Create(q)
  BY <1>1 DEF Create, Look, LookSkipped, CreateRun, Move, Kept, TypeOK, history
<1>2. CASE Command(q)
  <2>1. CASE \E r \in Addressed, id \in CommandIds, e \in ExpectedVersions : CommandLoad(q, r, id, e)
    BY <2>1 DEF CommandLoad, Kept, TypeOK
  <2>2. CASE CommandCheck(q) \/ CommandLog(q) \/ CommandReload(q)
    BY <2>2 DEF CommandCheck, CommandLog, CommandReload, Move, Load, Kept, TypeOK, history
  <2>3. CASE CommandAccept(q)
    BY <2>3 DEF CommandAccept, Move, Kept, TypeOK, history
  <2>4. CASE CommandProject(q)
    BY <2>4 DEF CommandProject, Move, Kept, TypeOK, history
  <2>q. QED BY <1>2, <2>1, <2>2, <2>3, <2>4 DEF Command
<1>3. CASE Dispatch(q) \/ Abandon(q)
  BY <1>3 DEF Dispatch, Abandon, Move, Kept, TypeOK, history
<1>4. CASE Task(q)
  <2>1. CASE AdvanceRead(q)
    BY <2>1 DEF AdvanceRead, Kept, TypeOK, history
  <2>2. CASE Ask(q) \/ AskFails(q) \/ ResultRead(q)
    BY <2>2 DEF Ask, AskFails, ResultRead, Load, Kept, TypeOK, history
  <2>3. CASE ResultWrite(q)
    BY <2>3 DEF ResultWrite, Move, Kept, TypeOK, history
  <2>4. CASE FailRead(q) \/ FailWrite(q) \/ Unregister(q)
    BY <2>4 DEF FailRead, FailWrite, Unregister, Load, Move, Kept, TypeOK, history
  <2>q. QED BY <1>4, <2>1, <2>2, <2>3, <2>4 DEF Task
<1>q. QED BY <1>1, <1>2, <1>3, <1>4 DEF Step

-----------------------------------------------------------------------------
\* Every variable keeps its type in each step of the service.
LEMMA TypeStep ==
  ASSUME TypeOK, Shapes, [Next]_vars
  PROVE  TypeOK'
<1> USE Labels
<1>1. ASSUME NEW q \in Requests, Create(q) PROVE TypeOK'
  <2>1. CASE LookSkipped(q)
    BY <2>1 DEF LookSkipped, Move, Asks, TypeOK, history, manager
  <2>2. CASE CreateRun(q)
    <3>1. op[q].kind \in Creates /\ op[q].key \in Keys \cup {None}
      BY <2>2 DEF CreateRun, Move, Shapes, Shape
    <3>2. NewRow(op[q].kind, op[q].key) \in Rows
      BY <3>1 DEF NewRow, Rows, NoProjection, Projections
    <3>3. rows' \in [RunIds -> Rows \cup {None}]
      BY <2>2, <3>2 DEF CreateRun, TypeOK
    <3>4. op' \in [Requests -> [kind : Creates \cup {"none", "command"}, run : RunIds \cup {None},
                               key : Keys \cup CommandIds \cup {None}, expected : Nat]]
      <4>1. PICK o : o = op[q] /\ o \in OpType
        BY DEF TypeOK, OpType
      <4>2. PICK o2 : o2 = [o EXCEPT !.run = NextId] /\ o2 \in OpType
        <5>1. NextId \in RunIds
          BY <2>2 DEF CreateRun
        <5>2. [o EXCEPT !.run = NextId] \in OpType
          BY <4>1, <5>1 DEF OpType
        <5>q. QED BY <5>2
      <4>3. op' = [op EXCEPT ![q].run = NextId]
        BY <2>2 DEF CreateRun
      <4>4. op' = [op EXCEPT ![q] = o2]
        BY <4>1, <4>2, <4>3
      <4>q. QED BY <4>2, <4>4 DEF TypeOK, OpType
    <3>5. reply' \in [Requests -> [run : RunIds \cup {None}, dup : BOOLEAN]]
      BY <2>2 DEF CreateRun, TypeOK
    <3>q. QED BY <2>2, <3>3, <3>4, <3>5 DEF CreateRun, Move, TypeOK, history, manager
  <2>3. ASSUME NEW kind \in Creates, NEW key \in Keys, Look(q, kind, key) PROVE TypeOK'
    <3>1. Matching(kind, key) # {} => FindRun(kind, key) \in RunIds
      BY FindsTheOldest DEF Matching, Stored
    <3>2. Cardinality(Stored) \in Nat
      BY NextIdIsNew
    <3>3. Asks(kind, None, key, 0) \in [kind : Creates \cup {"none", "command"}, run : RunIds \cup {None},
                                        key : Keys \cup CommandIds \cup {None}, expected : Nat]
      BY DEF Asks
    <3>4. reply' \in [Requests -> [run : RunIds \cup {None}, dup : BOOLEAN]]
      <4>1. CASE Matching(kind, key) = {}
        BY <2>3, <4>1 DEF Look, TypeOK
      <4>2. CASE Matching(kind, key) # {}
        <5>1. [run |-> FindRun(kind, key), dup |-> TRUE] \in [run : RunIds \cup {None}, dup : BOOLEAN]
          BY <3>1, <4>2
        <5>q. QED BY <2>3, <4>2, <5>1 DEF Look, TypeOK
      <4>q. QED BY <4>1, <4>2
    <3>q. QED BY <2>3, <3>2, <3>3, <3>4 DEF Look, TypeOK, history, manager
  <2>q. QED BY <1>1, <2>1, <2>2, <2>3 DEF Create
<1>2. ASSUME NEW q \in Requests, Command(q) PROVE TypeOK'
  <2>1. ASSUME NEW r \in Addressed, NEW id \in CommandIds, NEW e \in ExpectedVersions,
               CommandLoad(q, r, id, e)
        PROVE  TypeOK'
    <3>1. r \in RunIds /\ e \in Nat
      BY RunsAssumption, VersionAssumption DEF RunIds
    <3>2. NewRow("investigation", None) \in Rows
      BY DEF NewRow, Rows, NoProjection, Projections
    <3>3. Asks("command", r, id, e) \in [kind : Creates \cup {"none", "command"}, run : RunIds \cup {None},
                          key : Keys \cup CommandIds \cup {None}, expected : Nat]
      BY <3>1 DEF Asks
    <3>4. rows' \in [RunIds -> Rows \cup {None}] /\ rec' \in [Requests -> Rows \cup {None}]
      BY <2>1, <3>1, <3>2 DEF CommandLoad, TypeOK
    <3>5. pc' = [pc EXCEPT ![q] = "loaded"] /\ op' = [op EXCEPT ![q] = Asks("command", r, id, e)]
      BY <2>1 DEF CommandLoad
    <3>6. UNCHANGED <<commands, proj, version, handle, ctxDone, root, reply, lookedAt>>
      BY <2>1 DEF CommandLoad, manager
    <3>q. QED BY <3>3, <3>4, <3>5, <3>6 DEF TypeOK
  <2>2. CASE CommandCheck(q)
    <3>1. RunOf(q) \in RunIds /\ op[q].key \in CommandIds
      BY <2>2 DEF CommandCheck, Shapes, Shape, Stored
    <3>2. [run |-> RunOf(q), dup |-> TRUE] \in [run : RunIds \cup {None}, dup : BOOLEAN]
      BY <3>1
    <3>3. commands[RunOf(q)][op[q].key] \in Nat
      BY <3>1 DEF TypeOK
    <3>4. pc' \in [Requests -> {"idle", "looked", "loaded", "stored", "answered", "gone", "done"}
                              \cup Accepting \cup Tasking]
      <4>1. pc' = [pc EXCEPT ![q] = "answered"] \/ pc' = [pc EXCEPT ![q] = "new"]
        BY <2>2 DEF CommandCheck
      <4>q. QED BY <4>1 DEF TypeOK
    <3>5. reply' \in [Requests -> [run : RunIds \cup {None}, dup : BOOLEAN]] /\ version' \in [Requests -> Nat]
      <4>1. CASE commands[RunOf(q)][op[q].key] = 0
        BY <2>2, <4>1 DEF CommandCheck, TypeOK
      <4>2. CASE commands[RunOf(q)][op[q].key] # 0
        <5>1. /\ reply' = [reply EXCEPT ![q] = [run |-> RunOf(q), dup |-> TRUE]]
              /\ version' = [version EXCEPT ![q] = commands[RunOf(q)][op[q].key]]
          BY <2>2, <4>2 DEF CommandCheck
        <5>2. reply' \in [Requests -> [run : RunIds \cup {None}, dup : BOOLEAN]]
          BY <3>2, <5>1 DEF TypeOK
        <5>3. version' \in [Requests -> Nat]
          BY <3>3, <5>1 DEF TypeOK
        <5>q. QED BY <5>2, <5>3
      <4>q. QED BY <4>1, <4>2
    <3>6. UNCHANGED <<rows, commands, op, rec, proj, handle, ctxDone, root, lookedAt>>
      BY <2>2 DEF CommandCheck, manager, history
    <3>q. QED BY <3>4, <3>5, <3>6 DEF TypeOK
  <2>3. CASE CommandLog(q)
    <3>1. RunOf(q) \in RunIds /\ op[q].key \in CommandIds /\ rec[q] \in Rows
      BY <2>3 DEF CommandLog, Move, Shapes, Shape, Stored, TypeOK
    <3>2. Larger(rec[q].version, op[q].expected) + 1 \in Nat
      BY <3>1 DEF Larger, Rows, TypeOK
    <3>q. QED BY <2>3, <3>1, <3>2 DEF CommandLog, Move, Log, TypeOK, history, manager
  <2>4. CASE CommandAccept(q)
    <3>1. RunOf(q) \in RunIds /\ op[q].key \in CommandIds /\ rec[q] \in Rows /\ version[q] \in Nat
      BY <2>4 DEF CommandAccept, Move, Shapes, Shape, Stored, TypeOK
    <3>2. rows' = [rows EXCEPT ![RunOf(q)] = AcceptedRow(rec[q], version[q])]
      BY <2>4 DEF CommandAccept, AcceptedRow
    <3>3. proj' = [proj EXCEPT ![q] =
             CommandedProjection(AcceptedRow(rec[q], version[q]).result, op[q].key, version[q])]
      BY <2>4 DEF CommandAccept, AcceptedRow, CommandedProjection
    <3>4. AcceptedRow(rec[q], version[q]) \in Rows
      BY <3>1, AcceptedRowIs
    <3>5. AcceptedRow(rec[q], version[q]).result \in Projections
      BY <3>4 DEF Rows
    <3>6. CommandedProjection(AcceptedRow(rec[q], version[q]).result, op[q].key, version[q]) \in Projections
      BY <3>1, <3>5, CommandedIs
    <3>q. QED BY <2>4, <3>1, <3>2, <3>3, <3>4, <3>6 DEF CommandAccept, Move, TypeOK, history, manager
  <2>5. CASE CommandReload(q)
    BY <2>5 DEF CommandReload, Move, Load, Shapes, Shape, Stored, TypeOK, history, manager
  <2>6. CASE CommandProject(q)
    <3>1. RunOf(q) \in RunIds /\ rec[q] \in Rows /\ proj[q] \in Projections
      BY <2>6 DEF CommandProject, Move, Shapes, Shape, Stored, TypeOK
    <3>2. ProjectedRow(rec[q], proj[q]) \in Rows
      BY <3>1, ProjectedRowIs
    <3>3. rows' = [rows EXCEPT ![RunOf(q)] = ProjectedRow(rec[q], proj[q])]
      BY <2>6 DEF CommandProject, ProjectedRow
    <3>4. NoProjection \in Projections
      BY DEF NoProjection, Projections
    <3>5. /\ pc' = [pc EXCEPT ![q] = "stored"] /\ rec' = [rec EXCEPT ![q] = None]
          /\ proj' = [proj EXCEPT ![q] = NoProjection]
          /\ reply' = [reply EXCEPT ![q] = [run |-> RunOf(q), dup |-> FALSE]]
          /\ UNCHANGED <<commands, op, version, handle, ctxDone, root, lookedAt>>
      BY <2>6 DEF CommandProject, Move, history, manager
    <3>6. rows' \in [RunIds -> Rows \cup {None}]
      BY <3>1, <3>2, <3>3 DEF TypeOK
    <3>7. rec' \in [Requests -> Rows \cup {None}] /\ proj' \in [Requests -> Projections]
      BY <3>4, <3>5 DEF TypeOK
    <3>8. reply' \in [Requests -> [run : RunIds \cup {None}, dup : BOOLEAN]]
      <4>1. [run |-> RunOf(q), dup |-> FALSE] \in [run : RunIds \cup {None}, dup : BOOLEAN]
        BY <3>1
      <4>q. QED BY <3>5, <4>1 DEF TypeOK
    <3>q. QED BY <3>5, <3>6, <3>7, <3>8 DEF TypeOK
  <2>q. QED BY <1>2, <2>1, <2>2, <2>3, <2>4, <2>5, <2>6 DEF Command
<1>3. ASSUME NEW q \in Requests, Dispatch(q) \/ Abandon(q) PROVE TypeOK'
  <2>1. CASE Dispatch(q)
    <3>1. RunOf(q) \in RunIds
      BY <2>1 DEF Dispatch, Move, Shapes, Shape, Stored
    <3>2. handle' \in [RunIds -> Requests \cup {None}] /\ ctxDone' \in [Requests -> BOOLEAN]
      BY <2>1, <3>1 DEF Dispatch, TypeOK
    <3>q. QED BY <2>1, <3>2 DEF Dispatch, Move, TypeOK, history
  <2>2. CASE Abandon(q)
    BY <2>2 DEF Abandon, TypeOK, NoProjection, Projections, history, manager
  <2>q. QED BY <1>3, <2>1, <2>2
<1>4. ASSUME NEW q \in Requests, Task(q) PROVE TypeOK'
  <2>0. pc[q] \in Tasking => RunOf(q) \in RunIds /\ rows[RunOf(q)] \in Rows
    BY DEF Shapes, Shape, Stored, TypeOK
  <2>1. CASE AdvanceRead(q)
    <3>1. rows[RunOf(q)] \in Rows
      BY <2>0, <2>1 DEF AdvanceRead
    <3>2. AdvancedProjection(rows[RunOf(q)].result, q, rows[RunOf(q)].version) \in Projections
      BY <3>1, AdvancedIs DEF Rows
    <3>3. \/ UNCHANGED proj
          \/ proj' = [proj EXCEPT ![q] =
                       AdvancedProjection(rows[RunOf(q)].result, q, rows[RunOf(q)].version)]
      BY <2>1 DEF AdvanceRead, AdvancedProjection
    <3>4. proj' \in [Requests -> Projections]
      BY <3>2, <3>3 DEF TypeOK
    <3>5. /\ \E to \in Tasking : pc' = [pc EXCEPT ![q] = to]
          /\ UNCHANGED <<rows, commands, op, rec, version, handle, ctxDone, root, reply, lookedAt>>
      BY <2>1 DEF AdvanceRead, history, manager
    <3>q. QED BY <3>4, <3>5 DEF TypeOK
  <2>2. CASE Ask(q) \/ AskFails(q)
    BY <2>2 DEF Ask, AskFails, TypeOK, history, manager
  <2>3. CASE ResultRead(q)
    <3>1. rows[RunOf(q)] \in Rows
      BY <2>0, <2>3 DEF ResultRead
    <3>2. /\ \E to \in Tasking : pc' = [pc EXCEPT ![q] = to]
          /\ UNCHANGED rec \/ rec' = [rec EXCEPT ![q] = rows[RunOf(q)]]
          /\ UNCHANGED <<rows, commands, op, proj, version, handle, ctxDone, root, reply, lookedAt>>
      BY <2>3 DEF ResultRead, Load, history, manager
    <3>q. QED BY <3>1, <3>2 DEF TypeOK
  <2>4. CASE ResultWrite(q)
    <3>1. RunOf(q) \in RunIds /\ rec[q] \in Rows /\ proj[q] \in Projections
      BY <2>4, <2>0 DEF ResultWrite, Move, Shapes, Shape, TypeOK
    <3>2. Result(q) \in Rows
      BY <3>1, AnsweredRowIs, ProjectedRowIs DEF Result, AnsweredRow, ProjectedRow, Answer
    <3>3. rows' \in [RunIds -> Rows \cup {None}]
      BY <2>4, <3>1, <3>2 DEF ResultWrite, TypeOK
    <3>q. QED BY <2>4, <3>3 DEF ResultWrite, Move, TypeOK, history, manager
  <2>5. CASE FailRead(q)
    <3>1. rows[RunOf(q)] \in Rows
      BY <2>0, <2>5 DEF FailRead, Move
    <3>q. QED BY <2>5, <3>1 DEF FailRead, Move, Load, TypeOK, history, manager
  <2>6. CASE FailWrite(q)
    <3>1. RunOf(q) \in RunIds /\ rec[q] \in Rows
      BY <2>6, <2>0 DEF FailWrite, Move, Shapes, Shape, TypeOK
    <3>2. FailedRow(rec[q]) \in Rows
      BY <3>1, FailedRowIs
    <3>3. rows' = [rows EXCEPT ![RunOf(q)] = FailedRow(rec[q])]
      BY <2>6 DEF FailWrite, FailedRow
    <3>q. QED BY <2>6, <3>1, <3>2, <3>3 DEF FailWrite, Move, TypeOK, history, manager
  <2>7. CASE Unregister(q)
    BY <2>0, <2>7 DEF Unregister, Move, TypeOK, NoProjection, Projections, history
  <2>q. QED BY <1>4, <2>1, <2>2, <2>3, <2>4, <2>5, <2>6, <2>7 DEF Task
<1>5. CASE Signal
  BY <1>5 DEF Signal, TypeOK, history
<1>6. CASE UNCHANGED vars
  BY <1>6 DEF vars, TypeOK
<1>q. QED BY <1>1, <1>2, <1>3, <1>4, <1>5, <1>6 DEF Next, Quiet

-----------------------------------------------------------------------------
\* How the row r may be written in a step of q: the first two insert it, the
\* others write q's copy of it back.
Inserted(q, r) == CreateRun(q) /\ r = NextId /\ rows'[r] = NewRow(op[q].kind, op[q].key)
Ensured(q, r) ==
  /\ pc[q] = "idle" /\ pc'[q] = "loaded" /\ RunOf(q)' = r
  /\ rows'[r] = NewRow("investigation", None)
WrittenBack(q, r) ==
  \/ CommandAccept(q) /\ rows'[r] = AcceptedRow(rec[q], version[q])
  \/ CommandProject(q) /\ rows'[r] = ProjectedRow(rec[q], proj[q])
  \/ ResultWrite(q) /\ op[q].kind = "answer" /\ rows'[r] = AnsweredRow(rec[q], q)
  \/ ResultWrite(q) /\ op[q].kind # "answer" /\ rows'[r] = ProjectedRow(rec[q], proj[q])
  \/ FailWrite(q) /\ rows'[r] = FailedRow(rec[q])

\* The only statements that write a row.
LEMMA RowWrites ==
  ASSUME TypeOK, Shapes, NEW q \in Requests, Step(q), NEW r \in RunIds
  PROVE  \/ rows'[r] = rows[r]
         \/ rows[r] = None /\ (Inserted(q, r) \/ Ensured(q, r))
         \/ r = RunOf(q) /\ r \in Stored /\ rec[q] \in Rows /\ WrittenBack(q, r)
<1> USE Labels
<1>0. pc[q] \in Holding => rec[q] \in Rows /\ RunOf(q) \in Stored /\ RunOf(q) \in RunIds
  BY DEF Shapes, Shape, Stored, TypeOK
<1>1. CASE CreateRun(q)
  <2>1. rows' = [rows EXCEPT ![NextId] = NewRow(op[q].kind, op[q].key)] /\ NextId \in RunIds
    BY <1>1 DEF CreateRun
  <2>2. rows[NextId] = None
    BY <2>1, NextIdIsNew DEF Stored
  <2>q. QED BY <1>1, <2>1, <2>2 DEF TypeOK, Inserted
<1>2. ASSUME NEW x \in Addressed, NEW id \in CommandIds, NEW e \in ExpectedVersions,
             CommandLoad(q, x, id, e)
      PROVE  rows'[r] = rows[r] \/ (rows[r] = None /\ Ensured(q, r))
  <2>1. rows' = [rows EXCEPT ![x] = IF rows[x] = None THEN NewRow("investigation", None) ELSE rows[x]]
    BY <1>2 DEF CommandLoad
  <2>2. pc[q] = "idle" /\ pc'[q] = "loaded" /\ op'[q] = Asks("command", x, id, e)
    BY <1>2 DEF CommandLoad, TypeOK
  <2>3. op'[q].run = x
    BY <2>2 DEF Asks
  <2>q. QED BY <2>1, <2>2, <2>3 DEF TypeOK, Ensured, RunOf
<1>3. CASE CommandAccept(q)
  <2>1. rows' = [rows EXCEPT ![RunOf(q)] = AcceptedRow(rec[q], version[q])]
    BY <1>3 DEF CommandAccept, AcceptedRow
  <2>2. pc[q] \in Holding
    BY <1>3 DEF CommandAccept, Move
  <2>q. QED BY <1>0, <1>3, <2>1, <2>2 DEF TypeOK, WrittenBack
<1>4. CASE CommandProject(q)
  <2>1. rows' = [rows EXCEPT ![RunOf(q)] = ProjectedRow(rec[q], proj[q])]
    BY <1>4 DEF CommandProject, ProjectedRow
  <2>2. pc[q] \in Holding
    BY <1>4 DEF CommandProject, Move
  <2>q. QED BY <1>0, <1>4, <2>1, <2>2 DEF TypeOK, WrittenBack
<1>5. CASE ResultWrite(q)
  <2>1. /\ op[q].kind = "answer" => Result(q) = AnsweredRow(rec[q], q)
        /\ op[q].kind # "answer" => Result(q) = ProjectedRow(rec[q], proj[q])
    BY DEF Result, AnsweredRow, Answer, ProjectedRow
  <2>2. rows' = rows \/ rows' = [rows EXCEPT ![RunOf(q)] = Result(q)]
    BY <1>5 DEF ResultWrite
  <2>3. pc[q] \in Holding
    BY <1>5 DEF ResultWrite, Move
  <2>q. QED BY <1>0, <1>5, <2>1, <2>2, <2>3 DEF TypeOK, WrittenBack
<1>6. CASE FailWrite(q)
  <2>1. rows' = [rows EXCEPT ![RunOf(q)] = FailedRow(rec[q])]
    BY <1>6 DEF FailWrite, FailedRow
  <2>2. pc[q] \in Holding
    BY <1>6 DEF FailWrite, Move
  <2>q. QED BY <1>0, <1>6, <2>1, <2>2 DEF TypeOK, WrittenBack
<1>7. CASE \/ \E kind \in Creates, key \in Keys : Look(q, kind, key)
           \/ LookSkipped(q) \/ CommandCheck(q) \/ CommandLog(q) \/ CommandReload(q)
           \/ Dispatch(q) \/ Abandon(q) \/ AdvanceRead(q) \/ Ask(q) \/ AskFails(q)
           \/ ResultRead(q) \/ FailRead(q) \/ Unregister(q)
  <2>1. rows' = rows
    BY <1>7 DEF Look, LookSkipped, CommandCheck, CommandLog, CommandReload, Dispatch, Abandon,
         AdvanceRead, Ask, AskFails, ResultRead, FailRead, Unregister
  <2>q. QED BY <2>1
<1>q. QED BY <1>1, <1>2, <1>3, <1>4, <1>5, <1>6, <1>7 DEF Step, Create, Command, Task

\* A stored row stays, and stays under its kind and idempotency key.
LEMMA RowsStay ==
  ASSUME TypeOK, Shapes, [Next]_vars
  PROVE  \A r \in Stored :
           /\ r \in Stored'
           /\ rows'[r].kind = rows[r].kind /\ rows'[r].key = rows[r].key
<1> SUFFICES ASSUME NEW r \in Stored
             PROVE  rows'[r] # None /\ rows'[r].kind = rows[r].kind /\ rows'[r].key = rows[r].key
  BY DEF Stored
<1>0. r \in RunIds /\ rows[r] # None
  BY DEF Stored
<1>1. CASE rows' = rows
  BY <1>0, <1>1
<1>2. ASSUME NEW q \in Requests, Step(q)
      PROVE  rows'[r] # None /\ rows'[r].kind = rows[r].kind /\ rows'[r].key = rows[r].key
  <2>1. rows'[r] = rows[r] \/ (r = RunOf(q) /\ rec[q] \in Rows /\ WrittenBack(q, r))
    BY <1>0, <1>2, RowWrites
  <2>2. CASE r = RunOf(q) /\ rec[q] \in Rows /\ WrittenBack(q, r)
    <3>1. version[q] \in Nat /\ proj[q] \in Projections
      BY DEF TypeOK
    <3>2. rows'[r] \in Rows /\ rows'[r].kind = rec[q].kind /\ rows'[r].key = rec[q].key
      <4>1. CASE rows'[r] = AcceptedRow(rec[q], version[q])
        BY <2>2, <3>1, <4>1, AcceptedRowIs
      <4>2. CASE rows'[r] = ProjectedRow(rec[q], proj[q])
        BY <2>2, <3>1, <4>2, ProjectedRowIs
      <4>3. CASE rows'[r] = AnsweredRow(rec[q], q)
        BY <2>2, <4>3, AnsweredRowIs
      <4>4. CASE rows'[r] = FailedRow(rec[q])
        BY <2>2, <4>4, FailedRowIs
      <4>q. QED BY <2>2, <4>1, <4>2, <4>3, <4>4 DEF WrittenBack
    <3>3. rec[q].kind = rows[r].kind /\ rec[q].key = rows[r].key
      BY <2>2, RowsAssumption DEF Shapes, Shape
    <3>q. QED BY <3>2, <3>3, RowsAssumption
  <2>q. QED BY <1>0, <2>1, <2>2
<1>q. QED BY <1>1, <1>2, Steps

\* So the runs of a key stay the runs of that key ...
LEMMA MatchingStays ==
  ASSUME TypeOK, Shapes, [Next]_vars, NEW kind, NEW key
  PROVE  \A r \in Stored : r \in Matching(kind, key)' <=> r \in Matching(kind, key)
BY RowsStay DEF Matching

\* ... and a run that joins them is the one that CreateRun inserts.
LEMMA NewMatching ==
  ASSUME TypeOK, Shapes, NEW q \in Requests, Step(q),
         NEW kind, NEW key, key # None, NEW r \in Matching(kind, key)', r \notin Stored
  PROVE  CreateRun(q) /\ r = NextId /\ kind = op[q].kind /\ key = op[q].key
<1>1. r \in RunIds /\ rows[r] = None /\ rows'[r] # None /\ rows'[r].kind = kind /\ rows'[r].key = key
  BY DEF Matching, Stored
<1>2. Inserted(q, r) \/ Ensured(q, r)
  BY <1>1, RowWrites
<1>q. QED BY <1>1, <1>2 DEF Inserted, Ensured, NewRow

-----------------------------------------------------------------------------
\* The shapes are kept: a request goes from stage to stage with what the
\* stage needs.
LEMMA ShapesStep ==
  ASSUME TypeOK, Shapes, [Next]_vars
  PROVE  Shapes'
<1> USE Labels
<1>t. TypeOK'
  BY TypeStep
<1>r. \A r \in Stored :
        r \in Stored' /\ rows'[r].kind = rows[r].kind /\ rows'[r].key = rows[r].key
  BY RowsStay
<1>1. ASSUME NEW p \in Requests, Kept(p) PROVE Shape(p)'
  BY <1>1, <1>r DEF Shapes, Shape, Kept, RunOf, Matching
<1>2. ASSUME NEW q \in Requests, Step(q) PROVE Shape(q)'
  <2>s. Shape(q)
    BY DEF Shapes
  <2>1. CASE Create(q)
    <3>1. CASE LookSkipped(q)
      <4>1. /\ pc[q] = "idle" /\ pc'[q] = "looked" /\ op'[q] = Asks("answer", None, None, 0)
            /\ rec'[q] = rec[q] /\ reply'[q] = reply[q]
        BY <3>1 DEF LookSkipped, Move, TypeOK
      <4>q. QED BY <4>1, <2>s, RowsAssumption DEF Shape, Asks, NoReply, RunOf, Stored
    <3>2. ASSUME NEW kind \in Creates, NEW key \in Keys, Look(q, kind, key) PROVE Shape(q)'
      <4>1. /\ pc[q] = "idle" /\ op'[q] = Asks(kind, None, key, 0)
            /\ rec'[q] = rec[q] /\ rows' = rows
        BY <3>2 DEF Look, TypeOK
      <4>2. rec[q] = None
        BY <4>1, <2>s, RowsAssumption DEF Shape, Stored
      <4>3. CASE Matching(kind, key) = {}
        <5>1. pc'[q] = "looked" /\ reply'[q] = reply[q]
          BY <3>2, <4>3 DEF Look, TypeOK
        <5>q. QED BY <4>1, <4>2, <5>1, <2>s DEF Shape, Asks, NoReply, RunOf
      <4>4. CASE Matching(kind, key) # {}
        <5>1. pc'[q] = "answered" /\ reply'[q] = [run |-> FindRun(kind, key), dup |-> TRUE]
          BY <3>2, <4>4 DEF Look, TypeOK
        <5>2. reply'[q].dup = TRUE /\ reply'[q].run \in Matching(kind, key)
          BY <4>4, <5>1, FindsTheOldest
        <5>3. Matching(kind, key)' = Matching(kind, key)
          BY <4>1 DEF Matching, Stored
        <5>4. op'[q].kind = kind /\ op'[q].key = key /\ op'[q].run = None
          BY <4>1 DEF Asks
        <5>5. reply'[q].run \in Matching(op[q].kind, op[q].key)'
          BY <5>2, <5>3, <5>4 DEF Matching
        <5>q. QED BY <4>1, <4>2, <5>1, <5>2, <5>4, <5>5 DEF Shape, RunOf
      <4>q. QED BY <4>3, <4>4
    <3>3. CASE CreateRun(q)
      <4>1. /\ NextId \in RunIds /\ pc[q] = "looked" /\ pc'[q] = "stored"
            /\ rows'[NextId] = NewRow(op[q].kind, op[q].key)
            /\ reply'[q] = [run |-> NextId, dup |-> FALSE] /\ rec'[q] = rec[q]
        BY <3>3 DEF CreateRun, Move, TypeOK
      <4>2. op'[q].run = NextId /\ op'[q].kind = op[q].kind /\ op'[q].key = op[q].key
        BY <3>3 DEF CreateRun, TypeOK
      <4>3. rec[q] = None /\ op[q].kind \in Creates /\ op[q].key \in Keys \cup {None}
        BY <4>1, <2>s, RowsAssumption DEF Shape, Stored
      <4>4. rows'[NextId] # None /\ rows'[NextId].kind = op[q].kind /\ rows'[NextId].key = op[q].key
        <5>1. NewRow(op[q].kind, op[q].key) \in Rows
          BY <4>3 DEF NewRow, Rows, NoProjection, Projections
        <5>q. QED BY <4>1, <5>1, RowsAssumption DEF NewRow
      <4>5. NextId \in Stored' /\ NextId \in Matching(op[q].kind, op[q].key)'
        BY <4>1, <4>2, <4>4 DEF Stored, Matching
      <4>q. QED BY <4>1, <4>2, <4>3, <4>5 DEF Shape, RunOf
    <3>q. QED BY <2>1, <3>1, <3>2, <3>3 DEF Create
  <2>2. CASE Command(q)
    <3>1. ASSUME NEW r \in Addressed, NEW id \in CommandIds, NEW e \in ExpectedVersions,
                 CommandLoad(q, r, id, e)
          PROVE  Shape(q)'
      <4>1. /\ pc[q] = "idle" /\ pc'[q] = "loaded" /\ op'[q] = Asks("command", r, id, e)
            /\ reply'[q] = reply[q]
        BY <3>1 DEF CommandLoad, TypeOK
      <4>2. r \in RunIds
        BY RunsAssumption DEF RunIds
      <4>3. rows'[r] = rec'[q] /\ rows'[r] # None
        <5>1. NewRow("investigation", None) \in Rows
          BY DEF NewRow, Rows, NoProjection, Projections
        <5>q. QED BY <3>1, <4>2, <5>1, RowsAssumption DEF CommandLoad, TypeOK
      <4>4. op'[q].kind = "command" /\ op'[q].run = r /\ op'[q].key = id
        BY <4>1 DEF Asks
      <4>5. r \in Stored'
        BY <4>2, <4>3 DEF Stored
      <4>q. QED BY <4>1, <4>3, <4>4, <4>5, <2>s DEF Shape, RunOf
    <3>2. CASE CommandCheck(q)
      <4>1. /\ pc[q] = "loaded" /\ op'[q] = op[q] /\ rec'[q] = rec[q]
            /\ pc'[q] = "answered" \/ (pc'[q] = "new" /\ reply'[q] = reply[q])
        BY <3>2 DEF CommandCheck, TypeOK
      <4>q. QED BY <4>1, <1>r, <2>s DEF Shape, RunOf, Matching
    <3>3. CASE CommandLog(q)
      <4>1. /\ pc[q] = "new" /\ pc'[q] = "logged" /\ op'[q] = op[q] /\ rec'[q] = rec[q]
            /\ reply'[q] = reply[q]
        BY <3>3 DEF CommandLog, Move, TypeOK
      <4>q. QED BY <4>1, <1>r, <2>s DEF Shape, RunOf, Matching
    <3>4. CASE CommandAccept(q)
      <4>1. /\ pc[q] = "logged" /\ pc'[q] = "accepted" /\ op'[q] = op[q] /\ rec'[q] = None
            /\ reply'[q] = reply[q]
        BY <3>4 DEF CommandAccept, Move, TypeOK
      <4>q. QED BY <4>1, <1>r, <2>s DEF Shape, RunOf, Matching
    <3>5. CASE CommandReload(q)
      <4>1. /\ pc[q] = "accepted" /\ pc'[q] = "projecting" /\ op'[q] = op[q] /\ rows' = rows
            /\ rec'[q] = rows[RunOf(q)] /\ reply'[q] = reply[q]
        BY <3>5 DEF CommandReload, Load, Move, TypeOK
      <4>2. rec'[q] # None
        BY <4>1, <2>s DEF Shape, Stored
      <4>q. QED BY <4>1, <4>2, <1>r, <2>s DEF Shape, RunOf, Matching
    <3>6. CASE CommandProject(q)
      <4>1. /\ pc[q] = "projecting" /\ pc'[q] = "stored" /\ op'[q] = op[q] /\ rec'[q] = None
        BY <3>6 DEF CommandProject, Move, TypeOK
      <4>q. QED BY <4>1, <1>r, <2>s DEF Shape, RunOf, Matching
    <3>q. QED BY <2>2, <3>1, <3>2, <3>3, <3>4, <3>5, <3>6 DEF Command
  <2>3. CASE Dispatch(q)
    <3>1. /\ pc[q] = "stored" /\ pc'[q] = "running" /\ op'[q] = op[q] /\ rec'[q] = rec[q]
          /\ reply'[q] = reply[q]
      BY <2>3 DEF Dispatch, Move, TypeOK
    <3>q. QED BY <3>1, <1>r, <2>s DEF Shape, RunOf, Matching
  <2>4. CASE Abandon(q)
    <3>1. /\ pc[q] \in {"looked", "loaded"} \cup Accepting /\ pc'[q] = "gone"
          /\ op'[q] = op[q] /\ rec'[q] = None /\ reply'[q] = reply[q]
      BY <2>4 DEF Abandon, TypeOK
    <3>q. QED BY <3>1, <1>r, <2>s DEF Shape, RunOf, Matching
  <2>5. CASE Task(q)
    <3>1. /\ pc[q] \in Tasking /\ op'[q] = op[q] /\ reply'[q] = reply[q]
          /\ pc'[q] \in Tasking \cup {"done"}
      BY <2>5 DEF Task, AdvanceRead, Ask, AskFails, Asking, ResultRead, ResultWrite,
           FailRead, FailWrite, Unregister, Move, TypeOK
    <3>2. \/ rec'[q] = None /\ pc'[q] \notin Holding
          \/ rec'[q] = rec[q] /\ pc'[q] \notin Holding
          \/ rec'[q] = rows[RunOf(q)] /\ rows' = rows
      BY <2>5 DEF Task, AdvanceRead, Ask, AskFails, ResultRead, ResultWrite,
           FailRead, FailWrite, Unregister, Move, Load, TypeOK
    <3>3. rows[RunOf(q)] # None
      BY <3>1, <2>s DEF Shape, Stored
    <3>q. QED BY <3>1, <3>2, <3>3, <1>r, <2>s DEF Shape, RunOf, Matching
  <2>q. QED BY <1>2, <2>1, <2>2, <2>3, <2>4, <2>5 DEF Step
<1>3. CASE UNCHANGED <<rows, commands, pc, op, rec, proj, version, reply, history>>
  BY <1>3 DEF Shapes, Shape, RunOf, Matching, Stored
<1>4. ASSUME NEW q \in Requests, Step(q) PROVE Shapes'
  BY <1>1, <1>2, <1>4, OthersAreKept DEF Shapes
<1>q. QED BY <1>3, <1>4, Steps

-----------------------------------------------------------------------------
\* An entry of the command log is never replaced (ON CONFLICT DO NOTHING).
LEMMA LogStays ==
  ASSUME TypeOK, Shapes, [Next]_vars
  PROVE  \A r \in RunIds, id \in CommandIds :
           commands[r][id] # 0 => commands'[r][id] = commands[r][id]
<1>1. CASE commands' = commands
  BY <1>1
<1>2. ASSUME NEW q \in Requests, CommandLog(q)
      PROVE  \A r \in RunIds, id \in CommandIds :
               commands[r][id] # 0 => commands'[r][id] = commands[r][id]
  BY <1>2 DEF CommandLog, Log, TypeOK
<1>3. ASSUME NEW q \in Requests, Step(q) PROVE commands' = commands \/ CommandLog(q)
  <2>1. CASE Create(q) \/ Dispatch(q) \/ Abandon(q)
    BY <2>1 DEF Create, Look, LookSkipped, CreateRun, Dispatch, Abandon
  <2>2. CASE Command(q)
    BY <2>2 DEF Command, CommandLoad, CommandCheck, CommandAccept, CommandReload, CommandProject
  <2>3. CASE Task(q)
    BY <2>3 DEF Task, AdvanceRead, Ask, AskFails, ResultRead, ResultWrite, FailRead, FailWrite, Unregister
  <2>q. QED BY <1>3, <2>1, <2>2, <2>3 DEF Step
<1>q. QED BY <1>1, <1>2, <1>3, Steps

\* A command that goes on has been logged, and a duplicate was told the
\* version in the log.
LEMMA LogStep ==
  ASSUME TypeOK, Shapes, LogIsKept, [Next]_vars
  PROVE  LogIsKept'
<1> USE Labels
<1> DEFINE Logged(q) ==
      op[q].kind = "command" =>
        /\ pc[q] \in {"logged", "accepted", "projecting"} \cup Begun =>
             commands[RunOf(q)][op[q].key] # 0 /\ version[q] # 0
        /\ reply[q].dup =>
             pc[q] = "answered" /\ version[q] # 0 /\ version[q] = commands[RunOf(q)][op[q].key]
<1>s. \A q \in Requests : op[q].kind = "command" => RunOf(q) \in RunIds /\ op[q].key \in CommandIds
  BY DEF Shapes, Shape, Stored
<1>l. \A r \in RunIds, id \in CommandIds : commands[r][id] # 0 => commands'[r][id] = commands[r][id]
  BY LogStays
<1>1. ASSUME NEW p \in Requests, Kept(p) PROVE Logged(p)'
  BY <1>1, <1>s, <1>l DEF LogIsKept, Kept, RunOf
<1>2. ASSUME NEW q \in Requests, Step(q) PROVE Logged(q)'
  <2>1. CASE Create(q)
    <3>1. op'[q].kind # "command"
      <4>1. CASE \E kind \in Creates, key \in Keys : Look(q, kind, key)
        BY <4>1 DEF Look, Asks, TypeOK
      <4>2. CASE LookSkipped(q)
        BY <4>2 DEF LookSkipped, Asks, TypeOK
      <4>3. CASE CreateRun(q)
        <5>1. op'[q].kind = op[q].kind /\ pc[q] = "looked"
          BY <4>3 DEF CreateRun, Move, TypeOK
        <5>q. QED BY <5>1 DEF Shapes, Shape
      <4>q. QED BY <2>1, <4>1, <4>2, <4>3 DEF Create
    <3>q. QED BY <3>1
  <2>2. CASE Command(q)
    <3>1. ASSUME NEW r \in Addressed, NEW id \in CommandIds, NEW e \in ExpectedVersions,
                 CommandLoad(q, r, id, e)
          PROVE  Logged(q)'
      <4>1. pc[q] = "idle" /\ pc'[q] = "loaded" /\ reply'[q] = reply[q]
        BY <3>1 DEF CommandLoad, TypeOK
      <4>2. reply'[q].dup = FALSE
        BY <4>1 DEF Shapes, Shape, NoReply
      <4>q. QED BY <4>1, <4>2
    <3>2. CASE CommandCheck(q)
      <4>1. /\ pc[q] = "loaded" /\ op'[q] = op[q] /\ commands' = commands
            /\ \/ /\ commands[RunOf(q)][op[q].key] # 0 /\ pc'[q] = "answered"
                  /\ version'[q] = commands[RunOf(q)][op[q].key]
               \/ pc'[q] = "new" /\ reply'[q] = reply[q]
        BY <3>2 DEF CommandCheck, TypeOK
      <4>2. reply[q].dup = FALSE
        BY <4>1 DEF Shapes, Shape, NoReply
      <4>q. QED BY <4>1, <4>2, <1>s DEF LogIsKept, RunOf
    <3>3. CASE CommandLog(q)
      <4>1. /\ pc[q] = "new" /\ op'[q] = op[q] /\ pc'[q] = "logged" /\ reply'[q] = reply[q]
            /\ version'[q] = Larger(rec[q].version, op[q].expected) + 1
            /\ commands' = [commands EXCEPT ![RunOf(q)][op[q].key] = Log(@, version'[q])]
        BY <3>3 DEF CommandLog, Move, TypeOK
      <4>2. reply[q].dup = FALSE /\ op[q].kind = "command" /\ rec[q] \in Rows
        BY <4>1 DEF Shapes, Shape, NoReply, TypeOK
      <4>3. version'[q] \in Nat \ {0}
        BY <4>1, <4>2 DEF Larger, Rows, TypeOK
      <4>4. commands'[RunOf(q)][op[q].key] # 0
        BY <4>1, <4>2, <4>3, <1>s DEF Log, TypeOK
      <4>q. QED BY <4>1, <4>2, <4>3, <4>4 DEF RunOf
    <3>4. CASE CommandAccept(q) \/ CommandReload(q)
      <4>1. /\ pc[q] \in {"logged", "accepted"} /\ op'[q] = op[q] /\ version'[q] = version[q]
            /\ reply'[q] = reply[q] /\ commands' = commands
        BY <3>4 DEF CommandAccept, CommandReload, Move
      <4>2. reply[q].dup = FALSE
        BY <4>1 DEF Shapes, Shape, NoReply
      <4>q. QED BY <4>1, <4>2, <1>s DEF LogIsKept, RunOf
    <3>5. CASE CommandProject(q)
      <4>1. /\ pc[q] = "projecting" /\ op'[q] = op[q] /\ version'[q] = version[q]
            /\ reply'[q] = [run |-> RunOf(q), dup |-> FALSE] /\ commands' = commands
        BY <3>5 DEF CommandProject, Move, TypeOK
      <4>q. QED BY <4>1, <1>s DEF LogIsKept, RunOf
    <3>q. QED BY <2>2, <3>1, <3>2, <3>3, <3>4, <3>5 DEF Command
  <2>3. CASE Dispatch(q) \/ Abandon(q)
    <3>1. /\ \/ pc[q] = "stored"
             \/ pc[q] \in {"looked", "loaded"} \cup Accepting /\ pc'[q] = "gone"
          /\ op'[q] = op[q] /\ version'[q] = version[q]
          /\ reply'[q] = reply[q] /\ commands' = commands
      BY <2>3 DEF Dispatch, Abandon, Move, TypeOK
    <3>q. QED BY <3>1, <1>s DEF LogIsKept, RunOf
  <2>4. CASE Task(q)
    <3>1. /\ pc[q] \in Tasking /\ op'[q] = op[q] /\ version'[q] = version[q]
          /\ reply'[q] = reply[q] /\ commands' = commands
      BY <2>4 DEF Task, AdvanceRead, Ask, AskFails, Asking, ResultRead, ResultWrite,
           FailRead, FailWrite, Unregister, Move
    <3>q. QED BY <3>1, <1>s DEF LogIsKept, RunOf
  <2>q. QED BY <1>2, <2>1, <2>2, <2>3, <2>4 DEF Step
<1>3. CASE UNCHANGED <<rows, commands, pc, op, rec, proj, version, reply, history>>
  BY <1>3 DEF LogIsKept, RunOf
<1>4. ASSUME NEW q \in Requests, Step(q) PROVE LogIsKept'
  <2>1. \A p \in Requests : Logged(p)'
    BY <1>1, <1>2, <1>4, OthersAreKept
  <2>q. QED BY <2>1 DEF LogIsKept
<1>q. QED BY <1>3, <1>4, Steps

-----------------------------------------------------------------------------
\* What a request's copy is after a step of its own: gone, the same, or what
\* the table holds at that moment.
LEMMA CopyMoves ==
  ASSUME TypeOK, Shapes, NEW q \in Requests, Step(q)
  PROVE  \/ rec'[q] = None
         \/ rec'[q] = rec[q] /\ op'[q].run = op[q].run
         \/ rec'[q] = rows'[op'[q].run] /\ op'[q].run \in Stored'
<1> USE Labels
<1>0. Shape(q) /\ Shape(q)'
  BY ShapesStep DEF Shapes, Next, Step
<1>1. CASE Create(q)
  <2>1. pc[q] \in {"idle", "looked"} /\ rec'[q] = rec[q]
    BY <1>1 DEF Create, Look, LookSkipped, CreateRun, Move
  <2>2. rec[q] = None
    BY <1>0, <2>1, RowsAssumption DEF Shape, Stored
  <2>q. QED BY <2>1, <2>2
<1>2. ASSUME NEW r \in Addressed, NEW id \in CommandIds, NEW e \in ExpectedVersions,
             CommandLoad(q, r, id, e)
      PROVE  rec'[q] = rows'[op'[q].run] /\ op'[q].run \in Stored'
  <2>1. pc'[q] = "loaded" /\ op'[q] = Asks("command", r, id, e) /\ r \in RunIds
    BY <1>2, RunsAssumption DEF CommandLoad, TypeOK, RunIds
  <2>2. rows'[r] = rec'[q]
    BY <1>2, <2>1 DEF CommandLoad, TypeOK
  <2>3. op'[q].run = r
    BY <2>1 DEF Asks
  <2>q. QED BY <1>0, <2>1, <2>2, <2>3 DEF Shape, RunOf
<1>3. CASE CommandCheck(q) \/ CommandLog(q) \/ Dispatch(q)
  BY <1>3 DEF CommandCheck, CommandLog, Dispatch
<1>4. CASE CommandAccept(q) \/ CommandProject(q) \/ Abandon(q)
  BY <1>4 DEF CommandAccept, CommandProject, Abandon, TypeOK
<1>5. CASE CommandReload(q)
  <2>1. pc'[q] = "projecting" /\ op' = op /\ rows' = rows /\ rec'[q] = rows[RunOf(q)]
    BY <1>5 DEF CommandReload, Load, Move, TypeOK
  <2>q. QED BY <1>0, <2>1 DEF Shape, RunOf
<1>6. CASE Task(q)
  <2>1. pc'[q] \in Tasking \cup {"done"} /\ op' = op
    BY <1>6 DEF Task, AdvanceRead, Ask, AskFails, ResultRead, ResultWrite,
         FailRead, FailWrite, Unregister, Move, TypeOK
  <2>2. rec'[q] = None \/ rec'[q] = rec[q] \/ (rec'[q] = rows[RunOf(q)] /\ rows' = rows)
    BY <1>6 DEF Task, AdvanceRead, Ask, AskFails, ResultRead, ResultWrite,
         FailRead, FailWrite, Unregister, Load, TypeOK
  <2>q. QED BY <1>0, <2>1, <2>2 DEF Shape, RunOf
<1>q. QED BY <1>1, <1>2, <1>3, <1>4, <1>5, <1>6 DEF Step, Command

\* Rows and copies stay coherent although old copies are written back.
LEMMA CoherenceStep ==
  ASSUME TypeOK, Shapes, LogIsKept, CopiesAreCoherent, [Next]_vars
  PROVE  CopiesAreCoherent'
<1> USE Labels
<1>s. Shapes' /\ TypeOK'
  BY ShapesStep, TypeStep
<1>1. ASSUME NEW row, NEW r \in RunIds, Coherent(row, r) PROVE Coherent(row, r)'
  BY <1>1, LogStays DEF Coherent
<1>2. CASE UNCHANGED <<rows, commands, pc, op, rec, proj, version, reply, history>>
  BY <1>2 DEF CopiesAreCoherent, Coherent, RunOf, Stored
<1>3. ASSUME NEW q \in Requests, Step(q), NEW r \in Stored' PROVE Coherent(rows[r], r)'
  <2>0. r \in RunIds /\ rows'[r] # None
    BY DEF Stored
  <2>1. CASE rows'[r] = rows[r]
    <3>1. r \in Stored
      BY <2>0, <2>1 DEF Stored
    <3>2. Coherent(rows[r], r)
      BY <3>1 DEF CopiesAreCoherent
    <3>q. QED BY <3>2, <2>0, <2>1, LogStays DEF Coherent
  <2>2. CASE Inserted(q, r) \/ Ensured(q, r)
    BY <2>2 DEF Inserted, Ensured, NewRow, Coherent
  <2>3. CASE r = RunOf(q) /\ rec[q] \in Rows /\ WrittenBack(q, r)
    <3>0. version[q] \in Nat /\ proj[q] \in Projections
      BY DEF TypeOK
    <3>1. Coherent(rec[q], r)
      BY <2>3, RowsAssumption DEF CopiesAreCoherent
    <3>2. CASE CommandAccept(q) /\ rows'[r] = AcceptedRow(rec[q], version[q])
      <4>1. rows'[r].status = "processing"
        BY <2>3, <3>0, <3>2, AcceptedRowIs
      <4>q. QED BY <4>1 DEF Coherent
    <3>3. CASE CommandProject(q) /\ rows'[r] = ProjectedRow(rec[q], proj[q])
      <4>1. pc[q] = "projecting" /\ commands' = commands
        BY <3>3 DEF CommandProject, Move
      <4>2. op[q].key \in CommandIds /\ commands[r][op[q].key] # 0
        BY <4>1, <2>3 DEF LogIsKept, Shapes, Shape
      <4>3. rows'[r].status = rec[q].status /\ rows'[r].error = rec[q].error
        BY <2>3, <3>0, <3>3, ProjectedRowIs
      <4>q. QED BY <3>1, <4>1, <4>2, <4>3 DEF Coherent
    <3>4. CASE ResultWrite(q) /\ op[q].kind # "answer" /\ rows'[r] = ProjectedRow(rec[q], proj[q])
      <4>1. proj[q].summary # None
        BY <3>4 DEF ResultWrite, Move, CopiesAreCoherent
      <4>2. rows'[r].status = rec[q].status /\ rows'[r].error = rec[q].error /\ rows'[r].result = proj[q]
        BY <2>3, <3>0, <3>4, ProjectedRowIs
      <4>q. QED BY <3>1, <4>1, <4>2 DEF Coherent
    <3>5. CASE ResultWrite(q) /\ rows'[r] = AnsweredRow(rec[q], q)
      <4>1. rows'[r].status = "completed" /\ rows'[r].error = None /\ rows'[r].result.summary = q
        BY <2>3, <3>5, AnsweredRowIs
      <4>q. QED BY <4>1, NonesAssumption DEF Coherent
    <3>6. CASE FailWrite(q) /\ rows'[r] = FailedRow(rec[q])
      <4>1. rows'[r].status = "error" /\ rows'[r].error = "failed"
        BY <2>3, <3>6, FailedRowIs
      <4>q. QED BY <4>1, RowsAssumption DEF Coherent
    <3>q. QED BY <2>3, <3>2, <3>3, <3>4, <3>5, <3>6 DEF WrittenBack
  <2>q. QED BY <1>3, <2>0, <2>1, <2>2, <2>3, RowWrites
<1>4. ASSUME NEW q \in Requests, Step(q), NEW p \in Requests, rec'[p] # None
      PROVE  Coherent(rec[p], RunOf(p))'
  <2>1. CASE rec'[p] = rec[p] /\ op'[p].run = op[p].run
    <3>1. Coherent(rec[p], RunOf(p)) /\ RunOf(p) \in RunIds
      BY <1>4, <2>1 DEF CopiesAreCoherent, Shapes, Shape, Stored
    <3>q. QED BY <2>1, <3>1, LogStays DEF Coherent, RunOf
  <2>2. CASE rec'[p] = rows'[op'[p].run] /\ op'[p].run \in Stored'
    <3>1. PICK r : r = op'[p].run
      OBVIOUS
    <3>2. Coherent(rows[r], r)'
      BY <1>3, <1>4, <2>2, <3>1
    <3>q. QED BY <2>2, <3>1, <3>2 DEF Coherent, RunOf
  <2>q. QED BY <1>4, <2>1, <2>2, CopyMoves, OthersAreKept DEF Kept
<1>5. ASSUME NEW q \in Requests, Step(q), NEW p \in Requests
      PROVE  (pc[p] \in {"asking", "replied", "writing"} /\ op[p].kind # "answer" =>
                proj[p].summary # None)'
  <2>1. CASE p # q
    BY <1>5, <2>1, OthersAreKept DEF Kept, CopiesAreCoherent
  <2>2. CASE p = q /\ AdvanceRead(q)
    <3>1. pc[q] = "running" /\ RunOf(q) \in Stored /\ rows[RunOf(q)] \in Rows
      BY <2>2 DEF AdvanceRead, Shapes, Shape, Stored, TypeOK
    <3>2. \/ pc'[q] = "returned"
          \/ proj'[q] = AdvancedProjection(rows[RunOf(q)].result, q, rows[RunOf(q)].version)
      BY <2>2 DEF AdvanceRead, AdvancedProjection, TypeOK
    <3>3. rows[RunOf(q)].result \in Projections /\ rows[RunOf(q)].version \in Nat
      BY <3>1 DEF Rows
    <3>4. AdvancedProjection(rows[RunOf(q)].result, q, rows[RunOf(q)].version).summary = q
      BY <3>3, AdvancedIs
    <3>q. QED BY <2>2, <3>2, <3>4, NonesAssumption
  <2>3. CASE p = q /\ (Ask(q) \/ ResultRead(q))
    <3>1. /\ proj' = proj /\ op' = op
          /\ pc[q] \in {"asking", "replied"} \/ op[q].kind = "answer"
      BY <2>3 DEF Ask, Asking, ResultRead
    <3>q. QED BY <2>3, <3>1 DEF CopiesAreCoherent
  <2>4. CASE p = q /\ ~AdvanceRead(q) /\ ~Ask(q) /\ ~ResultRead(q)
    <3>1. CASE Create(q)
      BY <3>1, <2>4 DEF Create, Look, LookSkipped, CreateRun, Move, TypeOK
    <3>2. CASE Command(q)
      BY <3>2, <2>4 DEF Command, CommandLoad, CommandCheck, CommandLog, CommandAccept,
           CommandReload, CommandProject, Move, TypeOK
    <3>3. CASE Dispatch(q) \/ Abandon(q) \/ Task(q)
      BY <3>3, <2>4 DEF Dispatch, Abandon, Task, AskFails, ResultWrite, FailRead, FailWrite,
           Unregister, Move, TypeOK
    <3>q. QED BY <1>5, <3>1, <3>2, <3>3 DEF Step
  <2>q. QED BY <2>1, <2>2, <2>3, <2>4
<1>6. ASSUME NEW q \in Requests, Step(q) PROVE CopiesAreCoherent'
  BY <1>3, <1>4, <1>5, <1>6 DEF CopiesAreCoherent
<1>q. QED BY <1>2, <1>6, Steps

-----------------------------------------------------------------------------
\* What a step does to the other data of a create: it looks, and otherwise
\* keeps kind, key, answer to reuse and the moment it looked.
LEMMA CreateMoves ==
  ASSUME TypeOK, Shapes, NEW q \in Requests, Step(q), op'[q].kind \in Creates
  PROVE  \/ \E kind \in Creates, key \in Keys : Look(q, kind, key)
         \/ LookSkipped(q)
         \/ /\ op'[q].kind = op[q].kind /\ op'[q].key = op[q].key
            /\ lookedAt'[q] = lookedAt[q] /\ reply'[q].dup = reply[q].dup
<1> USE Labels
<1>0. Shape(q)
  BY DEF Shapes
<1>1. CASE CreateRun(q)
  <2>1. /\ op'[q].kind = op[q].kind /\ op'[q].key = op[q].key /\ pc[q] = "looked"
        /\ reply'[q] = [run |-> NextId, dup |-> FALSE] /\ lookedAt' = lookedAt
    BY <1>1 DEF CreateRun, Move, TypeOK, history
  <2>2. reply[q].dup = FALSE
    BY <1>0, <2>1 DEF Shape, NoReply
  <2>3. reply'[q].dup = FALSE
    BY <2>1
  <2>q. QED BY <2>1, <2>2, <2>3
<1>2. CASE Command(q)
  <2>1. op'[q].kind = "command"
    <3>1. CASE \E r \in Addressed, id \in CommandIds, e \in ExpectedVersions : CommandLoad(q, r, id, e)
      BY <3>1 DEF CommandLoad, Asks, TypeOK
    <3>2. CASE CommandCheck(q) \/ CommandLog(q) \/ CommandAccept(q) \/ CommandReload(q) \/ CommandProject(q)
      <4>1. pc[q] \in {"loaded"} \cup Accepting /\ op' = op
        BY <3>2 DEF CommandCheck, CommandLog, CommandAccept, CommandReload, CommandProject, Move
      <4>q. QED BY <1>0, <4>1 DEF Shape
    <3>q. QED BY <1>2, <3>1, <3>2 DEF Command
  <2>q. QED BY <2>1
<1>3. CASE Dispatch(q) \/ Abandon(q)
  BY <1>3 DEF Dispatch, Abandon, history
<1>4. CASE Task(q)
  BY <1>4 DEF Task, AdvanceRead, Ask, AskFails, ResultRead, ResultWrite,
       FailRead, FailWrite, Unregister, history
<1>q. QED BY <1>1, <1>2, <1>3, <1>4 DEF Step, Create

\* A create that was told to reuse a run is told no younger one than any
\* other: rows that are added get larger ids.
LEMMA ReuseStep ==
  ASSUME TypeOK, Shapes, ReuseIsOfTheOldest, [Next]_vars
  PROVE  ReuseIsOfTheOldest'
<1> USE Labels
<1>0. Shapes'
  BY ShapesStep
<1>1. CASE UNCHANGED <<rows, commands, pc, op, rec, proj, version, reply, history>>
  BY <1>1 DEF ReuseIsOfTheOldest, Matching, Stored
<1>2. ASSUME NEW q \in Requests, Step(q), NEW p \in Requests, op'[p].kind \in Creates,
             reply'[p].dup, NEW r \in Matching(op[p].kind, op[p].key)'
      PROVE  reply'[p].run <= r
  <2>1. CASE Kept(p)
    <3>1. PICK kind, key : kind = op[p].kind /\ key = op[p].key
      OBVIOUS
    <3>2. op'[p] = op[p] /\ reply'[p] = reply[p]
      BY <2>1 DEF Kept
    <3>3. r \in Matching(kind, key)'
      BY <3>1, <3>2 DEF Matching
    <3>4. reply[p].run \in Stored /\ kind \in Creates /\ key \in Keys
      BY <1>2, <3>1, <3>2 DEF Shapes, Shape, Matching
    <3>5. CASE r \in Stored
      <4>1. r \in Matching(kind, key)
        BY <3>3, <3>5, MatchingStays
      <4>q. QED BY <1>2, <3>1, <3>2, <4>1 DEF ReuseIsOfTheOldest
    <3>6. CASE r \notin Stored
      <4>1. key # None
        BY <3>4, NonesAssumption
      <4>2. r = NextId
        BY <1>2, <3>3, <3>6, <4>1, NewMatching
      <4>3. reply[p].run < NextId /\ NextId \in Nat /\ reply[p].run \in Nat
        BY <3>4, NextIdIsNew, RunsAssumption DEF Stored, RunIds
      <4>q. QED BY <3>2, <4>2, <4>3
    <3>q. QED BY <3>5, <3>6
  <2>2. CASE p = q
    <3>1. ASSUME NEW kind \in Creates, NEW key \in Keys, Look(q, kind, key)
          PROVE  reply'[p].run <= r
      <4>1. op'[q] = Asks(kind, None, key, 0) /\ rows' = rows /\ pc[q] = "idle"
        BY <3>1 DEF Look, TypeOK
      <4>2. op'[q].kind = kind /\ op'[q].key = key
        BY <4>1 DEF Asks
      <4>3. r \in Matching(kind, key)
        BY <2>2, <4>1, <4>2 DEF Matching, Stored
      <4>4. reply'[q] = [run |-> FindRun(kind, key), dup |-> TRUE]
        BY <3>1, <4>3 DEF Look, TypeOK
      <4>q. QED BY <2>2, <4>3, <4>4, FindsTheOldest
    <3>2. CASE LookSkipped(q)
      <4>1. reply'[q] = reply[q] /\ pc[q] = "idle"
        BY <3>2 DEF LookSkipped, Move
      <4>2. reply[q].dup = FALSE
        BY <4>1 DEF Shapes, Shape, NoReply
      <4>q. QED BY <1>2, <2>2, <4>1, <4>2
    <3>3. CASE op'[q].kind = op[q].kind /\ reply'[q].dup = reply[q].dup
      <4>1. pc[q] = "answered"
        BY <1>2, <2>2, <3>3 DEF Shapes, Shape
      <4>2. pc[q] # "answered"
        BY <1>2 DEF Step, Create, Command, Task, Look, LookSkipped, CreateRun, CommandLoad, CommandCheck,
             CommandLog, CommandAccept, CommandReload, CommandProject, Dispatch, Abandon, AdvanceRead,
             Ask, AskFails, Asking, ResultRead, ResultWrite, FailRead, FailWrite, Unregister, Move
      <4>q. QED BY <4>1, <4>2
    <3>q. QED BY <1>2, <2>2, <3>1, <3>2, <3>3, CreateMoves
  <2>q. QED BY <1>2, <2>1, <2>2, OthersAreKept
<1>3. ASSUME NEW q \in Requests, Step(q) PROVE ReuseIsOfTheOldest'
  BY <1>2, <1>3 DEF ReuseIsOfTheOldest
<1>q. QED BY <1>1, <1>3, Steps

\* The runs of a create's key that it has not been told of are younger than
\* the moment it looked.
LEMMA LookedStep ==
  ASSUME TypeOK, Shapes, LookedBefore, [Next]_vars
  PROVE  LookedBefore'
<1> USE Labels
<1>f. Cardinality(Stored) \in Nat /\ Cardinality(Stored') \in Nat /\ Cardinality(Stored) <= Cardinality(Stored')
  <2>1. IsFiniteSet(RunIds)
    BY RunsAssumption, FS_Interval DEF RunIds
  <2>2. IsFiniteSet(Stored) /\ IsFiniteSet(Stored')
    BY <2>1, FS_Subset DEF Stored
  <2>3. Stored \subseteq Stored'
    BY RowsStay
  <2>q. QED BY <2>2, <2>3, FS_Subset, FS_CardinalityType
<1>n. NextId \in Nat /\ Cardinality(Stored) < NextId
  BY NextIdIsNew
<1>1. CASE UNCHANGED <<rows, commands, pc, op, rec, proj, version, reply, history>>
  BY <1>1 DEF LookedBefore, Matching, Stored, history
<1>2. ASSUME NEW q \in Requests, Step(q), NEW p \in Requests
      PROVE  lookedAt'[p] <= Cardinality(Stored')
  <2>1. CASE lookedAt'[p] = lookedAt[p]
    BY <1>f, <2>1 DEF LookedBefore, TypeOK
  <2>2. ASSUME NEW kind \in Creates, NEW key \in Keys, Look(q, kind, key)
        PROVE  lookedAt'[p] <= Cardinality(Stored')
    <3>1. lookedAt' = [lookedAt EXCEPT ![q] = Cardinality(Stored)] /\ rows' = rows
      BY <2>2 DEF Look
    <3>q. QED BY <1>f, <2>1, <3>1 DEF TypeOK
  <2>3. lookedAt' = lookedAt \/ \E kind \in Creates, key \in Keys : Look(q, kind, key)
    <3>1. CASE Create(q) \/ Dispatch(q) \/ Abandon(q)
      BY <3>1 DEF Create, LookSkipped, CreateRun, Dispatch, Abandon, history
    <3>2. CASE Command(q)
      BY <3>2 DEF Command, CommandLoad, CommandCheck, CommandLog, CommandAccept, CommandReload,
           CommandProject, history
    <3>3. CASE Task(q)
      BY <3>3 DEF Task, AdvanceRead, Ask, AskFails, ResultRead, ResultWrite, FailRead, FailWrite,
           Unregister, history
    <3>q. QED BY <1>2, <3>1, <3>2, <3>3 DEF Step
  <2>q. QED BY <2>1, <2>2, <2>3
<1>3. ASSUME NEW q \in Requests, Step(q), NEW p \in Requests, op'[p].kind \in Creates,
             op'[p].key \in Keys, ~reply'[p].dup, NEW r \in Matching(op[p].kind, op[p].key)'
      PROVE  lookedAt'[p] < r
  <2>0. r \in Nat
    BY RunsAssumption DEF Matching, Stored, RunIds
  <2>1. CASE /\ op'[p].kind = op[p].kind /\ op'[p].key = op[p].key
             /\ lookedAt'[p] = lookedAt[p] /\ reply'[p].dup = reply[p].dup
    <3>1. PICK kind, key : kind = op[p].kind /\ key = op[p].key
      OBVIOUS
    <3>2. r \in Matching(kind, key)' /\ key # None
      BY <1>3, <2>1, <3>1, NonesAssumption DEF Matching
    <3>3. CASE r \in Stored
      <4>1. r \in Matching(kind, key)
        BY <3>2, <3>3, MatchingStays
      <4>q. QED BY <1>3, <2>1, <3>1, <4>1 DEF LookedBefore
    <3>4. CASE r \notin Stored
      <4>1. r = NextId
        BY <1>3, <3>2, <3>4, NewMatching
      <4>2. lookedAt[p] <= Cardinality(Stored) /\ lookedAt[p] \in Nat
        BY DEF LookedBefore, TypeOK
      <4>q. QED BY <1>f, <1>n, <2>1, <4>1, <4>2
    <3>q. QED BY <3>3, <3>4
  <2>2. CASE Kept(p)
    BY <2>1, <2>2 DEF Kept
  <2>3. CASE p = q
    <3>1. ASSUME NEW kind \in Creates, NEW key \in Keys, Look(q, kind, key)
          PROVE  FALSE
      <4>1. op'[q] = Asks(kind, None, key, 0) /\ rows' = rows
        BY <3>1 DEF Look, TypeOK
      <4>2. op'[q].kind = kind /\ op'[q].key = key
        BY <4>1 DEF Asks
      <4>3. r \in Matching(kind, key)
        BY <2>3, <4>1, <4>2 DEF Matching, Stored
      <4>4. reply'[q] = [run |-> FindRun(kind, key), dup |-> TRUE]
        BY <3>1, <4>3 DEF Look, TypeOK
      <4>q. QED BY <1>3, <2>3, <4>4
    <3>2. CASE LookSkipped(q)
      <4>1. op'[q] = Asks("answer", None, None, 0)
        BY <3>2 DEF LookSkipped, TypeOK
      <4>2. op'[q].key = None
        BY <4>1 DEF Asks
      <4>q. QED BY <1>3, <2>3, <4>2, NonesAssumption
    <3>q. QED BY <1>3, <2>1, <2>3, <3>1, <3>2, CreateMoves
  <2>q. QED BY <1>3, <2>2, <2>3, OthersAreKept
<1>4. ASSUME NEW q \in Requests, Step(q) PROVE LookedBefore'
  BY <1>2, <1>3, <1>4 DEF LookedBefore
<1>q. QED BY <1>1, <1>4, Steps

-----------------------------------------------------------------------------
\* Who is at work on a run: a step takes up work only by CreateRun, on a run
\* that is new, or by CommandLoad, which records an overlap.
LEMMA WorkMoves ==
  ASSUME TypeOK, Shapes, NEW q \in Requests, Step(q)
  PROVE  /\ overlapped \subseteq overlapped'
         /\ \/ CreateRun(q) /\ op'[q].run = NextId /\ op'[q].kind \in Creates
            \/ /\ pc[q] = "idle" /\ pc'[q] = "loaded"
               /\ op'[q].kind = "command" /\ op'[q].run \in RunIds
               /\ AtWork(op'[q].run) = {} \/ op'[q].run \in overlapped'
            \/ op'[q].run = None
            \/ op'[q] = op[q] /\ (q \in AtWork(op[q].run)' => q \in AtWork(op[q].run))
<1> USE Labels
<1>0. Shape(q)
  BY DEF Shapes
<1>1. CASE Create(q)
  <2>1. overlapped' = overlapped
    BY <1>1 DEF Create, Look, LookSkipped, CreateRun, history
  <2>2. CASE CreateRun(q)
    <3>1. op'[q].run = NextId /\ op'[q].kind = op[q].kind /\ pc[q] = "looked"
      BY <2>2 DEF CreateRun, Move, TypeOK
    <3>q. QED BY <1>0, <2>1, <2>2, <3>1 DEF Shape
  <2>3. CASE LookSkipped(q)
    <3>1. op'[q] = Asks("answer", None, None, 0)
      BY <2>3 DEF LookSkipped, TypeOK
    <3>q. QED BY <2>1, <3>1 DEF Asks
  <2>4. ASSUME NEW kind \in Creates, NEW key \in Keys, Look(q, kind, key) PROVE op'[q].run = None
    <3>1. op'[q] = Asks(kind, None, key, 0)
      BY <2>4 DEF Look, TypeOK
    <3>q. QED BY <3>1 DEF Asks
  <2>q. QED BY <1>1, <2>1, <2>2, <2>3, <2>4 DEF Create
<1>2. ASSUME NEW r \in Addressed, NEW id \in CommandIds, NEW e \in ExpectedVersions,
             CommandLoad(q, r, id, e)
      PROVE  /\ overlapped \subseteq overlapped' /\ pc[q] = "idle" /\ pc'[q] = "loaded"
             /\ op'[q].kind = "command" /\ op'[q].run \in RunIds
             /\ AtWork(op'[q].run) = {} \/ op'[q].run \in overlapped'
  <2>1. /\ pc[q] = "idle" /\ pc'[q] = "loaded" /\ op'[q] = Asks("command", r, id, e)
        /\ overlapped' = IF AtWork(r) = {} THEN overlapped ELSE overlapped \cup {r}
    BY <1>2 DEF CommandLoad, TypeOK
  <2>2. op'[q].kind = "command" /\ op'[q].run = r /\ r \in RunIds
    BY <2>1, RunsAssumption DEF Asks, RunIds
  <2>q. QED BY <2>1, <2>2
<1>3. CASE CommandCheck(q) \/ CommandLog(q) \/ CommandAccept(q) \/ CommandReload(q) \/ CommandProject(q)
  <2>1. op' = op /\ overlapped' = overlapped /\ pc[q] \in {"loaded"} \cup Accepting
    BY <1>3 DEF CommandCheck, CommandLog, CommandAccept, CommandReload, CommandProject, Move, history
  <2>q. QED BY <2>1 DEF AtWork, RunOf
<1>4. CASE Dispatch(q) \/ Abandon(q)
  <2>1. /\ op' = op /\ overlapped' = overlapped
        /\ pc[q] = "stored" \/ pc'[q] = "gone"
    BY <1>4 DEF Dispatch, Abandon, Move, history, TypeOK
  <2>q. QED BY <2>1 DEF AtWork, RunOf
<1>5. CASE Task(q)
  <2>1. op' = op /\ overlapped' = overlapped /\ pc[q] \in Tasking
    BY <1>5 DEF Task, AdvanceRead, Ask, AskFails, Asking, ResultRead, ResultWrite,
         FailRead, FailWrite, Unregister, Move, history
  <2>q. QED BY <2>1 DEF AtWork, RunOf
<1>q. QED BY <1>1, <1>2, <1>3, <1>4, <1>5 DEF Step, Command

\* Commands that have not overlapped stay alone on their run.
LEMMA AloneStep ==
  ASSUME TypeOK, Shapes, Alone, [Next]_vars
  PROVE  Alone'
<1> USE Labels
<1>1. CASE UNCHANGED <<rows, commands, pc, op, rec, proj, version, reply, history>>
  BY <1>1 DEF Alone, AtWork, RunOf, Stored, history
<1>2. ASSUME NEW x \in Requests, Step(x),
             NEW r \in RunIds, r \notin overlapped', NEW p \in Requests, NEW q \in Requests,
             p # q, op'[p].run = r, op'[q].run = r, op'[p].kind = "command", q \in AtWork(r)'
      PROVE  ~(p \in AtWork(r)') /\ op'[q].kind = "command"
  <2>k. \A y \in Requests : y # x => Kept(y)
    BY <1>2, OthersAreKept
  <2>o. r \notin overlapped /\ r # None
    BY <1>2, WorkMoves, RowsAssumption
  <2>w. \A y \in Requests : Kept(y) => (y \in AtWork(r)' <=> y \in AtWork(r))
    BY DEF Kept, AtWork, RunOf
  <2>c. \A y \in Requests : op[y].kind = "command" => op[y].run \in Stored
    BY DEF Shapes, Shape, RunOf
  <2>1. CASE CreateRun(x) /\ op'[x].run = NextId /\ op'[x].kind \in Creates
    <3>1. NextId \notin Stored
      BY NextIdIsNew
    <3>2. p # x
      BY <1>2, <2>1
    <3>3. op[p].kind = "command" /\ op[p].run = r
      BY <1>2, <2>k, <3>2 DEF Kept
    <3>4. q # x /\ r \in Stored
      BY <1>2, <2>1, <2>c, <3>1, <3>3
    <3>q. QED BY <1>2, <2>k, <2>o, <2>w, <3>2, <3>3, <3>4 DEF Alone, Kept, RunOf
  <2>2. CASE /\ pc[x] = "idle" /\ pc'[x] = "loaded"
             /\ op'[x].kind = "command" /\ op'[x].run \in RunIds
             /\ AtWork(op'[x].run) = {} \/ op'[x].run \in overlapped'
    <3>1. CASE op'[x].run = r
      <4>1. AtWork(r) = {}
        BY <1>2, <2>2, <3>1
      <4>q. QED BY <1>2, <2>2, <2>k, <2>w, <3>1, <4>1
    <3>2. CASE op'[x].run # r
      <4>1. p # x /\ q # x
        BY <1>2, <3>2
      <4>2. op[p].kind = "command" /\ op[p].run = r /\ r \in Stored /\ op'[q] = op[q]
        BY <1>2, <2>k, <2>c, <4>1 DEF Kept
      <4>q. QED BY <1>2, <2>k, <2>o, <2>w, <4>1, <4>2 DEF Alone, Kept, RunOf
    <3>q. QED BY <3>1, <3>2
  <2>3. CASE op'[x].run = None
    <3>1. p # x /\ q # x
      BY <1>2, <2>3, <2>o
    <3>2. op[p].kind = "command" /\ op[p].run = r /\ r \in Stored /\ op'[q] = op[q]
      BY <1>2, <2>k, <2>c, <3>1 DEF Kept
    <3>q. QED BY <1>2, <2>k, <2>o, <2>w, <3>1, <3>2 DEF Alone, Kept, RunOf
  <2>4. CASE op'[x] = op[x] /\ (x \in AtWork(op[x].run)' => x \in AtWork(op[x].run))
    <3>1. op'[p] = op[p] /\ op'[q] = op[q]
      BY <2>4, <2>k DEF Kept
    <3>2. x \in AtWork(r)' => x \in AtWork(r)
      BY <2>4 DEF AtWork, RunOf
    <3>3. q \in AtWork(r) /\ (p \in AtWork(r)' => p \in AtWork(r))
      BY <1>2, <2>k, <2>w, <3>2
    <3>4. r \in Stored /\ op[p].kind = "command" /\ RunOf(p) = r /\ RunOf(q) = r
      BY <1>2, <2>c, <3>1 DEF RunOf
    <3>q. QED BY <1>2, <2>o, <3>1, <3>3, <3>4 DEF Alone
  <2>q. QED BY <1>2, <2>1, <2>2, <2>3, <2>4, WorkMoves
<1>3. ASSUME NEW x \in Requests, Step(x) PROVE Alone'
  BY <1>2, <1>3 DEF Alone, RunOf, Stored
<1>q. QED BY <1>1, <1>3, Steps

\* Nobody else writes the row of a command that is alone at work.
LEMMA SoleWriter ==
  ASSUME TypeOK, Shapes, Alone, NEW x \in Requests, Step(x), NEW q \in Requests, q # x,
         op[q].kind = "command", q \in AtWork(RunOf(q)), RunOf(q) \notin overlapped
  PROVE  rows'[RunOf(q)] = rows[RunOf(q)]
<1> USE Labels
<1>1. RunOf(q) \in Stored /\ RunOf(q) \in RunIds /\ rows[RunOf(q)] # None
  BY DEF Shapes, Shape, Stored
<1>2. ASSUME RunOf(q) = RunOf(x), WrittenBack(x, RunOf(q)) PROVE FALSE
  <2>1. pc[x] \in Holding
    BY <1>2 DEF WrittenBack, CommandAccept, CommandProject, ResultWrite, FailWrite, Move
  <2>2. x \in AtWork(RunOf(q))
    BY <1>2, <2>1 DEF AtWork
  <2>q. QED BY <1>1, <1>2, <2>2 DEF Alone
<1>q. QED BY <1>1, <1>2, RowWrites

\* What a command carries is what it will write.
LEMMA CarriedStep ==
  ASSUME TypeOK, Shapes, Alone, Carried, [Next]_vars
  PROVE  Carried'
<1> USE Labels
<1>1. CASE UNCHANGED <<rows, commands, pc, op, rec, proj, version, reply, history>>
  BY <1>1 DEF Carried, Carries, RunOf, history
<1>2. ASSUME NEW x \in Requests, Step(x), NEW q \in Requests, q # x, op'[q].kind = "command"
      PROVE  Carries(q)'
  <2>1. Kept(q) /\ Carries(q)
    BY <1>2, OthersAreKept DEF Carried, Kept
  <2>2. overlapped \subseteq overlapped'
    BY <1>2, WorkMoves
  <2>3. CASE pc[q] \in {"accepted", "projecting", "writing", "failing", "asking", "replied"}
              /\ RunOf(q) \notin overlapped
    <3>1. q \in AtWork(RunOf(q))
      BY <2>3 DEF AtWork
    <3>2. rows'[RunOf(q)] = rows[RunOf(q)]
      BY <1>2, <2>1, <2>3, <3>1, SoleWriter DEF Kept
    <3>q. QED BY <2>1, <2>2, <2>3, <3>2 DEF Carries, Kept, RunOf
  <2>4. CASE RunOf(q) \in overlapped
    BY <2>1, <2>2, <2>4 DEF Carries, Kept, RunOf
  <2>5. CASE pc[q] \notin {"accepted", "projecting", "writing", "failing", "asking", "replied"}
    BY <2>1, <2>5 DEF Carries, Kept
  <2>q. QED BY <2>3, <2>4, <2>5
<1>3. ASSUME NEW q \in Requests, Step(q), op'[q].kind = "command" PROVE Carries(q)'
  <2>r. pc[q] \in Begun \cup Accepting => RunOf(q) \in RunIds /\ rows[RunOf(q)] \in Rows
    BY DEF Shapes, Shape, Stored, TypeOK
  <2>1. CASE pc'[q] \in {"idle", "looked", "loaded", "new", "logged", "stored", "running", "failed",
                         "returned", "answered", "gone", "done"}
    BY <2>1 DEF Carries
  <2>2. CASE CommandAccept(q)
    <3>1. rec[q] \in Rows /\ version[q] \in Nat /\ op[q].key \in CommandIds /\ RunOf(q) \in RunIds
      BY <2>2 DEF CommandAccept, Move, Shapes, Shape, TypeOK, Stored
    <3>2. /\ rows'[RunOf(q)] = AcceptedRow(rec[q], version[q])
          /\ proj'[q] = CommandedProjection(AcceptedRow(rec[q], version[q]).result, op[q].key, version[q])
      BY <2>2, <3>1 DEF CommandAccept, AcceptedRow, CommandedProjection, TypeOK
    <3>3. pc'[q] = "accepted" /\ op'[q] = op[q] /\ version'[q] = version[q]
      BY <2>2 DEF CommandAccept, Move, TypeOK
    <3>4. AcceptedRow(rec[q], version[q]).version = version[q]
      BY <3>1, AcceptedRowIs
    <3>5. AcceptedRow(rec[q], version[q]).result \in Projections
      BY <3>1, AcceptedRowIs DEF Rows
    <3>6. proj'[q].command = op[q].key /\ proj'[q].version = version[q]
      BY <3>1, <3>2, <3>5, CommandedIs
    <3>q. QED BY <3>2, <3>3, <3>4, <3>6 DEF Carries, RunOf
  <2>3. CASE CommandReload(q)
    <3>1. /\ pc[q] = "accepted" /\ pc'[q] = "projecting" /\ op'[q] = op[q] /\ version'[q] = version[q]
          /\ proj'[q] = proj[q] /\ rec'[q] = rows[RunOf(q)] /\ overlapped' = overlapped
      BY <2>3 DEF CommandReload, Move, Load, TypeOK, history
    <3>q. QED BY <1>3, <3>1 DEF Carries, Carried, RunOf
  <2>4. CASE AdvanceRead(q) /\ ~ctxDone[q]
    <3>1. /\ pc[q] = "running" /\ pc'[q] = "asking" /\ op'[q] = op[q] /\ rows' = rows
          /\ proj'[q] = AdvancedProjection(rows[RunOf(q)].result, q, rows[RunOf(q)].version)
      BY <2>4 DEF AdvanceRead, AdvancedProjection, TypeOK
    <3>2. rows[RunOf(q)].result \in Projections /\ rows[RunOf(q)].version \in Nat
      BY <2>r, <3>1 DEF Rows
    <3>3. /\ proj'[q].command = rows[RunOf(q)].result.command
          /\ proj'[q].version = rows[RunOf(q)].version
      BY <3>1, <3>2, AdvancedIs
    <3>q. QED BY <3>1, <3>3 DEF Carries, RunOf
  <2>5. CASE Ask(q)
    <3>1. /\ pc'[q] = "replied" /\ op' = op /\ rows' = rows /\ proj' = proj /\ overlapped' = overlapped
          /\ pc[q] = "asking"
      BY <1>3, <2>5 DEF Ask, Asking, TypeOK, history
    <3>q. QED BY <1>3, <3>1 DEF Carries, Carried, RunOf
  <2>6. CASE ResultRead(q)
    <3>1. /\ pc[q] = "replied" /\ pc'[q] = "writing" /\ op' = op /\ rows' = rows /\ proj' = proj
          /\ overlapped' = overlapped /\ rec'[q] = rows[RunOf(q)]
      BY <1>3, <2>6 DEF ResultRead, Load, TypeOK, history
    <3>q. QED BY <1>3, <3>1 DEF Carries, Carried, RunOf
  <2>7. CASE FailRead(q)
    <3>1. pc'[q] = "failing" /\ op' = op /\ rows' = rows /\ rec'[q] = rows[RunOf(q)]
      BY <2>7 DEF FailRead, Move, Load, TypeOK
    <3>q. QED BY <3>1 DEF Carries, RunOf
  <2>8. CASE /\ ~CommandAccept(q) /\ ~CommandReload(q) /\ ~(AdvanceRead(q) /\ ~ctxDone[q])
             /\ ~Ask(q) /\ ~ResultRead(q) /\ ~FailRead(q)
    <3>1. CASE Create(q)
      BY <2>1, <3>1 DEF Create, Look, LookSkipped, CreateRun, Move, TypeOK
    <3>2. CASE Command(q)
      BY <2>1, <2>8, <3>2 DEF Command, CommandLoad, CommandCheck, CommandLog, CommandProject, Move, TypeOK
    <3>3. CASE Dispatch(q) \/ Abandon(q)
      BY <2>1, <3>3 DEF Dispatch, Abandon, Move, TypeOK
    <3>4. CASE Task(q)
      BY <2>1, <2>8, <3>4 DEF Task, AdvanceRead, AskFails, ResultWrite, FailWrite, Unregister, Move, TypeOK
    <3>q. QED BY <1>3, <3>1, <3>2, <3>3, <3>4 DEF Step
  <2>q. QED BY <2>2, <2>3, <2>4, <2>5, <2>6, <2>7, <2>8
<1>4. ASSUME NEW x \in Requests, Step(x) PROVE Carried'
  BY <1>2, <1>3, <1>4 DEF Carried
<1>q. QED BY <1>1, <1>4, Steps

\* The last command stays visible where commands have not overlapped.
LEMMA ShownStep ==
  ASSUME TypeOK, Shapes, LogIsKept, Alone, Carried, LastCommandIsShown, [Next]_vars
  PROVE  LastCommandIsShown'
<1> USE Labels
<1> DEFINE Unfinished(r) == {q \in Requests : op[q].kind = "command" /\ RunOf(q) = r
                                              /\ pc[q] \in {"gone"} \cup Accepting}
           Shown(r) == /\ rows[r].result.version = rows[r].version
                       /\ \E q \in Applied(r) :
                            version[q] = rows[r].version /\ op[q].key = rows[r].result.command
<1>1. CASE UNCHANGED <<rows, commands, pc, op, rec, proj, version, reply, history>>
  BY <1>1 DEF LastCommandIsShown, Applied, RunOf, Stored, history
<1>2. ASSUME NEW x \in Requests, Step(x), NEW r \in RunIds, r \notin overlapped',
             NEW a \in Applied(r)', Unfinished(r)' = {}
      PROVE  Shown(r)'
  <2>k. \A y \in Requests : y # x => Kept(y)
    BY <1>2, OthersAreKept
  <2>o. r \notin overlapped
    BY <1>2, WorkMoves
  <2>c. \A y \in Requests : op[y].kind = "command" => RunOf(y) \in Stored
    BY DEF Shapes, Shape
  <2>1. CASE CommandProject(x) /\ RunOf(x) = r
    <3>1. /\ pc[x] = "projecting" /\ pc'[x] = "stored" /\ op'[x] = op[x] /\ version'[x] = version[x]
          /\ reply'[x] = [run |-> RunOf(x), dup |-> FALSE]
          /\ rows'[r] = ProjectedRow(rec[x], proj[x])
      BY <1>2, <2>1 DEF CommandProject, ProjectedRow, Move, TypeOK
    <3>2. /\ op[x].kind = "command" /\ rec[x] \in Rows /\ proj[x] \in Projections
      BY <3>1 DEF Shapes, Shape, TypeOK
    <3>3. /\ version[x] # 0 /\ proj[x].command = op[x].key /\ proj[x].version = version[x]
          /\ rec[x].version = version[x]
      BY <2>1, <2>o, <3>1, <3>2 DEF LogIsKept, Carried, Carries
    <3>4. rows'[r].version = version[x] /\ rows'[r].result = proj[x]
      BY <3>1, <3>2, <3>3, ProjectedRowIs
    <3>5. x \in Applied(r)'
      BY <2>1, <3>1, <3>2, <3>3 DEF Applied, RunOf
    <3>q. QED BY <3>1, <3>3, <3>4, <3>5
  <2>2. CASE ~(CommandProject(x) /\ RunOf(x) = r)
    <3>0. ~CommandAccept(x) \/ RunOf(x) # r
      <4>1. ASSUME CommandAccept(x), RunOf(x) = r PROVE x \in Unfinished(r)'
        <5>1. pc[x] = "logged" /\ pc'[x] = "accepted" /\ op' = op
          BY <4>1 DEF CommandAccept, Move, TypeOK
        <5>q. QED BY <4>1, <5>1 DEF Shapes, Shape, RunOf
      <4>q. QED BY <1>2, <4>1
    <3>1. \A y \in Requests : y \in Applied(r)' => y \in Applied(r) /\ op'[y] = op[y] /\ version'[y] = version[y]
      <4>1. ASSUME NEW y \in Requests, y # x, y \in Applied(r)'
            PROVE  y \in Applied(r) /\ op'[y] = op[y] /\ version'[y] = version[y]
        BY <4>1, <2>k DEF Kept, Applied, RunOf
      <4>2. ASSUME x \in Applied(r)' PROVE x \in Applied(r) /\ op'[x] = op[x] /\ version'[x] = version[x]
        <5>0. op'[x].kind = "command" /\ op'[x].run = r /\ pc'[x] \in {"stored"} \cup Tasking \cup {"done"}
          BY <4>2 DEF Applied, RunOf
        <5>1. CASE Create(x)
          <6>1. pc'[x] = "stored" => CreateRun(x)
            BY <1>2, <5>1 DEF Create, Look, LookSkipped, Move, TypeOK
          <6>2. pc'[x] \in {"looked", "answered", "stored"}
            BY <5>1 DEF Create, Look, LookSkipped, CreateRun, Move, TypeOK
          <6>3. CreateRun(x) => op'[x].kind = op[x].kind /\ pc[x] = "looked"
            BY DEF CreateRun, Move, TypeOK
          <6>q. QED BY <5>0, <6>1, <6>2, <6>3 DEF Shapes, Shape
        <5>2. CASE Command(x)
          <6>1. pc'[x] \in {"loaded", "answered"} \cup Accepting \/ CommandProject(x)
            BY <5>2 DEF Command, CommandLoad, CommandCheck, CommandLog, CommandAccept, CommandReload,
                 Move, TypeOK
          <6>2. CommandProject(x) => op' = op
            BY DEF CommandProject
          <6>q. QED BY <2>2, <5>0, <6>1, <6>2 DEF RunOf
        <5>3. CASE Dispatch(x) \/ Abandon(x)
          <6>1. pc'[x] = "gone" \/ (pc[x] = "stored" /\ op' = op /\ version' = version /\ reply' = reply)
            BY <5>3 DEF Dispatch, Abandon, Move, TypeOK
          <6>q. QED BY <4>2, <5>0, <6>1 DEF Applied, RunOf
        <5>4. CASE Task(x)
          <6>1. pc[x] \in Tasking /\ op' = op /\ version' = version /\ reply' = reply
            BY <5>4 DEF Task, AdvanceRead, Ask, AskFails, Asking, ResultRead, ResultWrite,
                 FailRead, FailWrite, Unregister, Move
          <6>q. QED BY <4>2, <6>1 DEF Applied, RunOf
        <5>q. QED BY <1>2, <5>1, <5>2, <5>3, <5>4 DEF Step
      <4>q. QED BY <4>1, <4>2
    <3>2. a \in Applied(r) /\ r \in Stored
      BY <1>2, <2>c, <3>1 DEF Applied
    <3>3. \A y \in Requests : y \in Applied(r) => y \in Applied(r)'
      <4>1. ASSUME NEW y \in Requests, y # x, y \in Applied(r) PROVE y \in Applied(r)'
        BY <4>1, <2>k DEF Kept, Applied, RunOf
      <4>2. ASSUME x \in Applied(r) PROVE x \in Applied(r)'
        <5>1. pc[x] \in {"stored"} \cup Tasking \cup {"done"}
          BY <4>2 DEF Applied
        <5>2. /\ op' = op /\ version' = version /\ reply' = reply
              /\ pc'[x] \in {"stored"} \cup Tasking \cup {"done"}
          <6>1. CASE Create(x)
            BY <5>1, <6>1 DEF Create, Look, LookSkipped, CreateRun, Move
          <6>2. CASE Command(x)
            BY <5>1, <6>2 DEF Command, CommandLoad, CommandCheck, CommandLog, CommandAccept,
                 CommandReload, CommandProject, Move
          <6>3. CASE Dispatch(x) \/ Abandon(x)
            BY <5>1, <6>3 DEF Dispatch, Abandon, Move, TypeOK
          <6>4. CASE Task(x)
            BY <6>4 DEF Task, AdvanceRead, Ask, AskFails, ResultRead, ResultWrite,
                 FailRead, FailWrite, Unregister, Move, TypeOK
          <6>q. QED BY <1>2, <6>1, <6>2, <6>3, <6>4 DEF Step
        <5>q. QED BY <4>2, <5>2 DEF Applied, RunOf
      <4>q. QED BY <4>1, <4>2
    <3>4. Unfinished(r) = {}
      <4>1. ASSUME NEW y \in Unfinished(r), y # x PROVE y \in Unfinished(r)'
        BY <4>1, <2>k DEF Kept, RunOf
      <4>2. ASSUME x \in Unfinished(r) PROVE x \in Unfinished(r)'
        <5>1. pc[x] \in {"gone"} \cup Accepting
          BY <4>2
        <5>2. op' = op /\ pc'[x] \in {"gone"} \cup Accepting
          <6>1. CASE Create(x)
            BY <5>1, <6>1 DEF Create, Look, LookSkipped, CreateRun, Move
          <6>2. CASE Command(x)
            BY <2>2, <4>2, <5>1, <6>2 DEF Command, CommandLoad, CommandCheck, CommandLog, CommandAccept,
                 CommandReload, Move, TypeOK
          <6>3. CASE Dispatch(x) \/ Abandon(x)
            BY <5>1, <6>3 DEF Dispatch, Abandon, Move, TypeOK
          <6>4. CASE Task(x)
            BY <5>1, <6>4 DEF Task, AdvanceRead, Ask, AskFails, Asking, ResultRead, ResultWrite,
                 FailRead, FailWrite, Unregister, Move
          <6>q. QED BY <1>2, <6>1, <6>2, <6>3, <6>4 DEF Step
        <5>q. QED BY <4>2, <5>2 DEF RunOf
      <4>q. QED BY <1>2, <4>1, <4>2
    <3>5. Shown(r)
      BY <2>o, <3>2, <3>4 DEF LastCommandIsShown
    <3>6. /\ rows'[r].version = rows[r].version
          /\ rows'[r].result.version = rows[r].result.version
          /\ rows'[r].result.command = rows[r].result.command
      <4>1. CASE rows'[r] = rows[r]
        BY <4>1
      <4>2. CASE r = RunOf(x) /\ rec[x] \in Rows /\ WrittenBack(x, r)
        <5>1. \/ ResultWrite(x) /\ op[x].kind = "answer"
              \/ ResultWrite(x) /\ op[x].kind # "answer" /\ rows'[r] = ProjectedRow(rec[x], proj[x])
              \/ FailWrite(x) /\ rows'[r] = FailedRow(rec[x])
          BY <2>2, <3>0, <4>2 DEF WrittenBack
        <5>2. pc[x] \in {"writing", "failing"} /\ (ResultWrite(x) => pc[x] = "writing")
          BY <5>1 DEF ResultWrite, FailWrite, Move
        <5>3. op[x].kind = "command"
          <6>1. x \in AtWork(r)
            BY <4>2, <5>2 DEF AtWork
          <6>q. QED BY <2>o, <3>2, <4>2, <6>1 DEF Alone, Applied
        <5>4. rec[x] = rows[r] /\ proj[x] \in Projections
          BY <2>o, <4>2, <5>2, <5>3 DEF Carried, Carries, TypeOK
        <5>5. CASE ResultWrite(x) /\ rows'[r] = ProjectedRow(rec[x], proj[x])
          <6>1. proj[x].command = rows[r].result.command /\ proj[x].version = rows[r].version
            BY <2>o, <4>2, <5>2, <5>3, <5>5 DEF Carried, Carries
          <6>2. rows'[r].version = rows[r].version /\ rows'[r].result = proj[x]
            BY <4>2, <5>4, <5>5, ProjectedRowIs
          <6>q. QED BY <3>5, <6>1, <6>2
        <5>6. CASE FailWrite(x) /\ rows'[r] = FailedRow(rec[x])
          <6>1. rows'[r].version = rows[r].version /\ rows'[r].result = rows[r].result
            BY <4>2, <5>4, <5>6, FailedRowIs
          <6>q. QED BY <6>1
        <5>q. QED BY <5>1, <5>3, <5>5, <5>6
      <4>q. QED BY <1>2, <3>2, <4>1, <4>2, RowWrites DEF Stored
    <3>q. QED
      <4>1. PICK y \in Applied(r) : version[y] = rows[r].version /\ op[y].key = rows[r].result.command
        BY <3>5
      <4>2. y \in Requests
        BY <4>1 DEF Applied
      <4>3. y \in Applied(r)' /\ version'[y] = version[y] /\ op'[y] = op[y]
        BY <3>1, <3>3, <4>1, <4>2
      <4>q. QED BY <3>5, <3>6, <4>1, <4>3
  <2>q. QED BY <2>1, <2>2
<1>3. ASSUME NEW x \in Requests, Step(x) PROVE LastCommandIsShown'
  <2>1. ASSUME NEW r \in Stored', r \notin overlapped', Applied(r)' # {}, Unfinished(r)' = {}
        PROVE  Shown(r)'
    <3>1. PICK a : a \in Applied(r)'
      BY <2>1
    <3>q. QED BY <1>2, <1>3, <2>1, <3>1 DEF Stored
  <2>q. QED BY <2>1 DEF LastCommandIsShown
<1>q. QED BY <1>1, <1>3, Steps

-----------------------------------------------------------------------------
\* The empty tables satisfy the invariant.
LEMMA InitIInv ==
  ASSUME Init
  PROVE  IInv
<1> USE Labels
<1>1. Stored = {} /\ \A kind, key : Matching(kind, key) = {}
  BY DEF Init, Stored, Matching
<1>2. TypeOK
  BY DEF Init, TypeOK, NoOp, Asks, NoProjection, Projections, NoReply
<1>3. Shapes
  <2>1. \A q \in Requests : op[q].kind = "none" /\ op[q].run = None
    BY DEF Init, NoOp, Asks
  <2>q. QED BY <2>1 DEF Init, Shapes, Shape, RunOf
<1>4. CopiesAreCoherent
  BY <1>1 DEF Init, CopiesAreCoherent
<1>5. \A q \in Requests : op[q].kind = "none"
  BY DEF Init, NoOp, Asks
<1>6. LogIsKept /\ ReuseIsOfTheOldest /\ Carried
  BY <1>5 DEF LogIsKept, ReuseIsOfTheOldest, Carried
<1>7. LookedBefore
  BY <1>1, <1>5, FS_EmptySet DEF Init, LookedBefore
<1>8. Alone /\ LastCommandIsShown
  BY <1>1 DEF Alone, LastCommandIsShown
<1>q. QED BY <1>2, <1>3, <1>4, <1>6, <1>7, <1>8 DEF IInv

\* For any number of requests, keys, command ids and rows, every reachable
\* state of the runs and commands tables satisfies the invariant.
THEOREM Invariance == Spec => []IInv
<1>1. Init => IInv
  BY InitIInv
<1>2. IInv /\ [Next]_vars => IInv'
  BY TypeStep, ShapesStep, CoherenceStep, LogStep, ReuseStep, LookedStep, AloneStep, CarriedStep,
     ShownStep DEF IInv
<1>q. QED BY <1>1, <1>2, PTL DEF Spec

\* Whole rows are written back from old copies without a lock, yet a failed
\* run has its error, and a completed one has its answer and no error.
THEOREM CoherentRows == Spec => []RowsAreCoherent
<1>1. IInv => RowsAreCoherent
  BY DEF IInv, RowsAreCoherent, OutcomeIsCoherent, CopiesAreCoherent, Coherent
<1>q. QED BY <1>1, Invariance, PTL

\* All retries under one idempotency key are told the same, oldest run.
THEOREM RetriesAgree == Spec => []ReuseIsOfTheOldest
<1>1. IInv => ReuseIsOfTheOldest
  BY DEF IInv
<1>q. QED BY <1>1, Invariance, PTL

\* A key gets a second run only from a create that looked before the first
\* row was stored.
THEOREM SecondRunNeedsARace == Spec => []SecondRunOnlyInARace
<1>1. IInv => SecondRunOnlyInARace
  <2> SUFFICES ASSUME IInv, NEW p \in Requests, NEW q \in Requests,
                      op[p].kind \in Creates, op[p].kind = op[q].kind,
                      op[p].key \in Keys, op[p].key = op[q].key,
                      ~reply[p].dup, ~reply[q].dup, reply[p].run # None
               PROVE  lookedAt[q] < reply[p].run
    BY DEF SecondRunOnlyInARace
  <2>1. reply[p].run \in Matching(op[q].kind, op[q].key)
    BY DEF IInv, Shapes, Shape
  <2>q. QED BY <2>1 DEF IInv, LookedBefore
<1>q. QED BY <1>1, Invariance, PTL

\* A duplicate command is answered with the version of the first submission,
\* whatever else has been sent to the run since.
THEOREM DuplicatesEcho == Spec => []DuplicateEchoesFirst
<1>1. IInv => DuplicateEchoesFirst
  BY DEF IInv, LogIsKept, DuplicateEchoesFirst
<1>q. QED BY <1>1, Invariance, PTL

\* Where commands did not overlap with other work on their run, the run shows
\* the last one, under its own version.
THEOREM LastCommandShows == Spec => []LastCommandIsShown
<1>1. IInv => LastCommandIsShown
  BY DEF IInv
<1>q. QED BY <1>1, Invariance, PTL
=============================================================================
