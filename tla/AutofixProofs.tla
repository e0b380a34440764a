---------------------------- MODULE AutofixProofs ----------------------------
(***************************************************************************)
(* For any number of requests, runs, agents and reports: every row is of   *)
(* one whole report, no run rests in processing, a completed run shows a   *)
(* failure reason only as a leftover, and accepted writes are lost only    *)
(* to a race or to a later request.                                        *)
(***************************************************************************)
EXTENDS Autofix, WellFoundedInduction, TLAPS

\* Where a request is fits what it asks for and what it holds.
Shape(q) ==
  /\ pc[q] = "idle" <=> op[q].kind = "none"
  /\ pc[q] = "idle" => RunOf(q) = None
  /\ pc[q] \in {"idle", "read"} => reply[q] = "none"
  /\ pc[q] \in Holding \cup {"returned", "done"} => RunOf(q) \in RunIds
  /\ pc[q] \in {"stored", "done"} \cup Tasking => op[q].kind = "store"
  /\ pc[q] \in {"idle", "answered", "gone", "done"} => copy[q] = None
  /\ pc[q] \in {"stored"} \cup Tasking => copy[q] # None
  /\ pc[q] = "read" /\ op[q].kind = "update" =>
       copy[q] # None /\ \A a \in op[q].agents : copy[q].agents[a] # None
  /\ pc[q] \in {"stored"} \cup Tasking =>
       \A a \in op[q].agents : copy[q].agents[a] # None /\ copy[q].agents[a].report = q
  /\ pc[q] \in {"idle"} \cup Holding => ~Wrote(q)
  /\ Wrote(q) => RunOf(q) \in RunIds /\ rows[RunOf(q)] # None
  /\ Wrote(q) => op[q].kind = "update" \/ pc[q] \in {"returned", "done"}
Shapes == \A q \in Requests : Shape(q)

\* The agents of a blob are those of one report for the run.
Whole(blob, r) ==
  \E q \in Requests :
    /\ op[q].kind = "store" /\ RunOf(q) = r
    /\ Present(blob.agents) = op[q].agents
    /\ \A a \in op[q].agents : blob.agents[a].report = q
AllWhole ==
  /\ \A r \in RunIds : rows[r] # None => Whole(rows[r].blob, r)
  /\ \A q \in Requests : copy[q] # None => Whole(copy[q], RunOf(q))

\* A reason, stored or in somebody's copy, stems from a task that has failed.
Failed(r) ==
  \E p \in Requests :
    op[p].kind = "store" /\ RunOf(p) = r /\ ~Wrote(p) /\ pc[p] \in {"returned", "done"}
AllReasons ==
  /\ \A r \in RunIds : rows[r] # None /\ rows[r].blob.reason # None => Failed(r)
  /\ \A q \in Requests : copy[q] # None /\ copy[q].reason # None => Failed(RunOf(q))

\* A task that is going to write its run, whatever happens to its context
\* short of a shutdown.
Live(q) ==
  /\ op[q].kind = "store"
  /\ pc[q] \in {"stored", "running", "asking", "failing"} \/ (pc[q] = "writing" /\ ~ctxDone[q])
\* The manager's handle of a run is a task of that run.
Handles == \A r \in RunIds : handle[r] # None => RunOf(handle[r]) = r /\ pc[handle[r]] # "idle"
WillEnd ==
  \A r \in RunIds : rows[r] # None /\ rows[r].status = "processing" =>
    \/ root
    \/ \E q \in Requests : op[q].kind = "update" /\ RunOf(q) = r /\ reply[q] = "success"
    \/ \E q \in Requests : RunOf(q) = r /\ Live(q)

\* Somebody may have undone q's write: he held a copy, or came later.
Excuses(p, q) ==
  /\ RunOf(p) = RunOf(q)
  /\ \/ p \in held[q]
     \/ p \in later[q] /\ (op[p].kind = "store" \/ op[q].kind = "store")
Excused(q) == \E p \in Requests \ {q} : Excuses(p, q)
HasUpdate(agents, q) ==
  \A a \in op[q].agents : agents[a] # None /\ q \in agents[a].updates
\* Whoever may still write the row is known, and if nobody has an excuse the
\* row shows the write, and so does every copy that may be written back.
Seen(q) ==
  Wrote(q) =>
    /\ \A p \in Requests : pc[p] = "idle" => p \in later[q]
    /\ \A p \in Requests \ {q} :
         pc[p] \in Holding /\ RunOf(p) = RunOf(q) => p \in held[q] \cup later[q]
    /\ \/ Excused(q)
       \/ /\ Effect(q)
          /\ op[q].kind = "update" =>
               \A p \in Requests \ {q} :
                 pc[p] \in Holding /\ RunOf(p) = RunOf(q) => HasUpdate(copy[p].agents, q)
AllSeen == \A q \in Requests : Seen(q)

IInv ==
  /\ TypeOK
  /\ Shapes
  /\ AllWhole
  /\ AllReasons
  /\ Handles
  /\ WillEnd
  /\ AllSeen

-----------------------------------------------------------------------------
\* The stages by name.
LEMMA Labels ==
  /\ Holding = {"read", "stored", "running", "asking", "writing", "failing"}
  /\ Tasking = {"running", "asking", "writing", "failing", "returned"}
BY DEF Holding, Tasking

\* A report replaces the agents of a blob and keeps its reason.
LEMMA ReportedIs ==
  ASSUME TypeOK, NEW q \in Requests, NEW blob \in Blobs
  PROVE  /\ Reported(q, blob) \in Blobs
         /\ Reported(q, blob).reason = blob.reason
         /\ Present(Reported(q, blob).agents) = op[q].agents
         /\ \A a \in op[q].agents : Reported(q, blob).agents[a] = Entry(q)
<1>1. PICK f : f = [a \in Agents |-> IF a \in op[q].agents THEN Entry(q) ELSE None]
  OBVIOUS
<1>2. Entry(q) \in Entries /\ op[q].agents \subseteq Agents
  BY DEF Entry, Entries, TypeOK
<1>3. f \in [Agents -> Entries \cup {None}]
  BY <1>1, <1>2
<1>4. Reported(q, blob) = [reason |-> blob.reason, agents |-> f]
  BY <1>1 DEF Reported, Blobs
<1>5. Present(f) = op[q].agents
  BY <1>1, <1>2, ValuesAssumption DEF Present
<1>q. QED BY <1>1, <1>2, <1>3, <1>4, <1>5 DEF Blobs

\* An update joins the entries of its agents and touches nothing else.
LEMMA UpdatedIs ==
  ASSUME TypeOK, NEW q \in Requests, NEW blob \in Blobs,
         \A a \in op[q].agents : blob.agents[a] # None
  PROVE  /\ Updated(q, blob) \in Blobs
         /\ Updated(q, blob).reason = blob.reason
         /\ Present(Updated(q, blob).agents) = Present(blob.agents)
         /\ \A a \in Present(blob.agents) :
              /\ Updated(q, blob).agents[a].report = blob.agents[a].report
              /\ blob.agents[a].updates \subseteq Updated(q, blob).agents[a].updates
         /\ \A a \in op[q].agents : q \in Updated(q, blob).agents[a].updates
<1>1. PICK old : old = blob.agents /\ old \in [Agents -> Entries \cup {None}]
  BY DEF Blobs
<1>2. PICK f : f = [a \in Agents |-> IF a \in op[q].agents
                                     THEN Joined(old[a], q) ELSE old[a]]
  OBVIOUS
<1>3. op[q].agents \subseteq Agents
  BY DEF TypeOK
<1>4. ASSUME NEW e \in Entries
      PROVE  /\ Joined(e, q) \in Entries
             /\ Joined(e, q).report = e.report
             /\ Joined(e, q).updates = e.updates \cup {q}
  BY DEF Entries, Joined
<1>5. ASSUME NEW a \in Agents
      PROVE  /\ f[a] \in Entries \cup {None}
             /\ f[a] # None <=> old[a] # None
             /\ old[a] # None => f[a].report = old[a].report /\ old[a].updates \subseteq f[a].updates
             /\ a \in op[q].agents => q \in f[a].updates
  <2>1. CASE a \in op[q].agents
    <3>1. old[a] \in Entries
      BY <1>1, <1>3, <2>1
    <3>2. f[a] = Joined(old[a], q)
      BY <1>2, <2>1
    <3>q. QED BY <1>4, <3>1, <3>2, ValuesAssumption
  <2>2. CASE a \notin op[q].agents
    <3>1. f[a] = old[a]
      BY <1>2, <2>2
    <3>q. QED BY <1>1, <2>2, <3>1
  <2>q. QED BY <2>1, <2>2
<1>6. f \in [Agents -> Entries \cup {None}]
  BY <1>2, <1>5
<1>7. Updated(q, blob) = [reason |-> blob.reason, agents |-> f]
  <2>1. f = [a \in Agents |-> IF a \in op[q].agents
                              THEN Joined(blob.agents[a], q) ELSE blob.agents[a]]
    BY <1>1, <1>2
  <2>2. Updated(q, blob) = [blob EXCEPT !.agents = f]
    BY <2>1 DEF Updated
  <2>q. QED BY <2>2 DEF Blobs
<1>8. Present(f) = Present(old)
  BY <1>5 DEF Present
<1>9. \A a \in Present(old) : a \in Agents /\ old[a] # None
  BY DEF Present
<1>q. QED BY <1>1, <1>3, <1>5, <1>6, <1>7, <1>8, <1>9 DEF Blobs

\* The model's descriptions are added to agents that are there.
LEMMA MergeIs ==
  ASSUME NEW q \in Requests, NEW blob \in Blobs, NEW described \in SUBSET Agents
  PROVE  /\ Merge(q, blob, described) \in Blobs
         /\ Merge(q, blob, described).reason = blob.reason
         /\ Present(Merge(q, blob, described).agents) = Present(blob.agents)
         /\ \A a \in Present(blob.agents) :
              /\ Merge(q, blob, described).agents[a].report = blob.agents[a].report
              /\ Merge(q, blob, described).agents[a].updates = blob.agents[a].updates
<1>1. PICK old : old = blob.agents /\ old \in [Agents -> Entries \cup {None}]
  BY DEF Blobs
<1>2. PICK f : f = [a \in Agents |-> IF a \in described /\ old[a] # None
                                     THEN [old[a] EXCEPT !.advanced = TRUE] ELSE old[a]]
  OBVIOUS
<1>4. ASSUME NEW e \in Entries
      PROVE  /\ [e EXCEPT !.advanced = TRUE] \in Entries
             /\ [e EXCEPT !.advanced = TRUE].report = e.report
             /\ [e EXCEPT !.advanced = TRUE].updates = e.updates
  BY DEF Entries
<1>5. ASSUME NEW a \in Agents
      PROVE  /\ f[a] \in Entries \cup {None}
             /\ f[a] # None <=> old[a] # None
             /\ old[a] # None => f[a].report = old[a].report /\ f[a].updates = old[a].updates
  <2>1. CASE a \in described /\ old[a] # None
    <3>1. old[a] \in Entries
      BY <1>1, <2>1
    <3>2. f[a] = [old[a] EXCEPT !.advanced = TRUE]
      BY <1>2, <2>1
    <3>q. QED BY <1>4, <3>1, <3>2, ValuesAssumption
  <2>2. CASE ~(a \in described /\ old[a] # None)
    <3>1. f[a] = old[a]
      BY <1>2, <2>2
    <3>q. QED BY <1>1, <2>2, <3>1
  <2>q. QED BY <2>1, <2>2
<1>6. f \in [Agents -> Entries \cup {None}]
  BY <1>2, <1>5
<1>7. Merge(q, blob, described) = [reason |-> blob.reason, agents |-> f]
  <2>1. f = [a \in Agents |-> IF a \in described /\ blob.agents[a] # None
                              THEN [blob.agents[a] EXCEPT !.advanced = TRUE] ELSE blob.agents[a]]
    BY <1>1, <1>2
  <2>2. Merge(q, blob, described) = [blob EXCEPT !.agents = f]
    BY <2>1 DEF Merge
  <2>q. QED BY <2>2 DEF Blobs
<1>8. Present(f) = Present(old)
  BY <1>5 DEF Present
<1>9. \A a \in Present(old) : a \in Agents /\ old[a] # None
  BY DEF Present
<1>q. QED BY <1>1, <1>5, <1>6, <1>7, <1>8, <1>9 DEF Blobs

FailedBlob(blob) == [blob EXCEPT !.reason = "failed"]
\* fail adds the reason and keeps the agents.
LEMMA FailedBlobIs ==
  ASSUME NEW blob \in Blobs
  PROVE  /\ FailedBlob(blob) \in Blobs
         /\ FailedBlob(blob).reason = "failed"
         /\ FailedBlob(blob).agents = blob.agents
BY DEF FailedBlob, Blobs

-----------------------------------------------------------------------------
\* findRunByAgentID finds a run whose row has the agent.
LEMMA OwnerIs ==
  ASSUME NEW q \in Requests, NEW a \in Agents, UpdateRead(q, a)
  PROVE  \E owner \in Owners(a) :
           /\ op' = [op EXCEPT ![q] = [kind |-> "update", run |-> owner, agents |-> {a}]]
           /\ copy' = [copy EXCEPT ![q] = rows[owner].blob]
<1>1. Owners(a) \subseteq Nat /\ Owners(a) # {}
  BY RunIdsAssumption DEF UpdateRead, Owners
<1>2. PICK R : R = OpToRel(<, Nat)
  OBVIOUS
<1>3. IsWellFoundedOn(R, Nat)
  BY <1>2, NatLessThanWellFounded
<1>4. \A m, n \in Nat : m < n => <<m, n>> \in R
  BY <1>2 DEF OpToRel
<1>5. PICK x \in Owners(a) : \A y \in Owners(a) : ~(<<y, x>> \in R)
  BY <1>1, <1>3, WFMin
<1>6. ASSUME NEW y \in Owners(a) PROVE x <= y
  <2>1. x \in Nat /\ y \in Nat
    BY <1>1
  <2>2. ~(y < x)
    BY <2>1, <1>4, <1>5
  <2>q. QED BY <2>1, <2>2
<1>7. PICK owner : owner = CHOOSE r \in Owners(a) : \A s \in Owners(a) : r <= s
  OBVIOUS
<1>8. owner \in Owners(a)
  BY <1>5, <1>6, <1>7
<1>9. /\ op' = [op EXCEPT ![q] = [kind |-> "update", run |-> owner, agents |-> {a}]]
      /\ copy' = [copy EXCEPT ![q] = rows[owner].blob]
  BY <1>7 DEF UpdateRead
<1>q. QED BY <1>8, <1>9

\* One step of a request's handler or task.
Step(q) == Store(q) \/ Update(q) \/ Abandon(q) \/ Task(q)
Kept(p) ==
  /\ pc'[p] = pc[p] /\ op'[p] = op[p] /\ copy'[p] = copy[p] /\ reply'[p] = reply[p]
  /\ held'[p] = held[p] /\ later'[p] = later[p]

\* Every step is one request's, or the shutdown, or changes nothing.
LEMMA Steps ==
  ASSUME [Next]_vars
  PROVE  (\E q \in Requests : Step(q)) \/ Signal \/ UNCHANGED vars
BY DEF Next, Step, Quiet

\* A step of one request leaves the others where they are.
LEMMA OthersAreKept ==
  ASSUME TypeOK, NEW q \in Requests, Step(q)
  PROVE  \A p \in Requests \ {q} : Kept(p)
<1>1. CASE Store(q) \/ Abandon(q)
  <2>1. CASE Abandon(q) \/ StartAgentAdvancement(q)
    BY <2>1 DEF StartAgentAdvancement, Abandon, Move, Kept, TypeOK, history
  <2>2. CASE Store(q) /\ ~StartAgentAdvancement(q)
    BY <2>2 DEF Store, StoreRead, StoreWrite, Move, Kept, TypeOK, history
  <2>q. QED BY <1>1, <2>1, <2>2
<1>2. CASE Update(q)
  <2>1. CASE UpdateWrite(q)
    BY <1>2, <2>1 DEF UpdateWrite, Witness, Move, Kept, TypeOK, history
  <2>2. CASE Update(q) /\ ~UpdateWrite(q)
    BY <2>2 DEF Update, UpdateRead, UpdateMiss, Move, Kept, TypeOK, history
  <2>q. QED BY <1>2, <2>1, <2>2
<1>3. CASE Task(q)
  BY <1>3 DEF Task, Run, Ask, AskFails, CompleteWrite, Fail, Unregister, Witness, Move, Kept, TypeOK, history
<1>q. QED BY <1>1, <1>2, <1>3 DEF Step

\* The types of the tables, of what was asked and of the history.
LEMMA TypeStep ==
  ASSUME TypeOK, Shapes, [Next]_vars
  PROVE  TypeOK'
<1> USE Labels
<1>0. \A q \in Requests : Shape(q)
  BY DEF Shapes
<1>w. ASSUME NEW q \in Requests, Witness(q)
      PROVE  held' \in [Requests -> (SUBSET Requests) \cup {{None}}] /\ later' \in [Requests -> SUBSET Requests]
  BY <1>w DEF Witness, TypeOK
<1>1. ASSUME NEW q \in Requests, Store(q) PROVE TypeOK'
  <2>1. ASSUME NEW r \in RunIds, NEW agents \in Reports, StoreRead(q, r, agents) PROVE TypeOK'
    <3>1. [kind |-> "store", run |-> r, agents |-> agents] \in
            [kind : {"none", "store", "update"}, run : RunIds \cup {None}, agents : SUBSET Agents]
      BY ReportsAssumption
    <3>2. copy' \in [Requests -> Blobs \cup {None}]
      BY <2>1 DEF StoreRead, TypeOK, Rows
    <3>q. QED BY <2>1, <3>1, <3>2 DEF StoreRead, Move, TypeOK, manager, history
  <2>2. CASE StoreWrite(q)
    <3>1. PICK base : base = IF copy[q] = None THEN NoBlob ELSE copy[q]
      OBVIOUS
    <3>2. base \in Blobs
      BY <3>1 DEF NoBlob, NoAgents, Blobs, TypeOK
    <3>3. PICK blob : blob = Reported(q, base) /\ blob \in Blobs
      BY <3>2, ReportedIs
    <3>4. /\ rows' = [rows EXCEPT ![RunOf(q)] = IF copy[q] = None /\ @ # None THEN @
                                                ELSE Row("processing", blob)]
          /\ copy' = [copy EXCEPT ![q] = blob]
      BY <2>2, <3>1, <3>3 DEF StoreWrite
    <3>5. Row("processing", blob) \in Rows
      BY <3>3 DEF Row, Rows
    <3>6. rows' \in [RunIds -> Rows \cup {None}] /\ copy' \in [Requests -> Blobs \cup {None}]
      BY <3>3, <3>4, <3>5 DEF TypeOK
    <3>q. QED BY <2>2, <3>6 DEF StoreWrite, TypeOK, manager, history
  <2>3. CASE StartAgentAdvancement(q)
    <3>1. handle' \in [RunIds -> Requests \cup {None}] /\ ctxDone' \in [Requests -> BOOLEAN]
      BY <2>3 DEF StartAgentAdvancement, TypeOK
    <3>q. QED BY <2>3, <3>1 DEF StartAgentAdvancement, Move, TypeOK, history
  <2>q. QED BY <1>1, <2>1, <2>2, <2>3 DEF Store
<1>2. ASSUME NEW q \in Requests, Update(q) PROVE TypeOK'
  <2>1. ASSUME NEW a \in Agents, UpdateRead(q, a) PROVE TypeOK'
    <3>1. PICK owner \in Owners(a) :
           /\ op' = [op EXCEPT ![q] = [kind |-> "update", run |-> owner, agents |-> {a}]]
           /\ copy' = [copy EXCEPT ![q] = rows[owner].blob]
      BY <2>1, OwnerIs
    <3>2. owner \in RunIds /\ rows[owner].blob \in Blobs
      BY DEF Owners, TypeOK, Rows
    <3>3. pc' = [pc EXCEPT ![q] = "read"] /\ UNCHANGED <<rows, handle, ctxDone, root, reply, held, later>>
      BY <2>1 DEF UpdateRead, Move, manager, history
    <3>q. QED BY <3>1, <3>2, <3>3 DEF TypeOK
  <2>2. ASSUME NEW a \in Agents, UpdateMiss(q, a) PROVE TypeOK'
    BY <2>2 DEF UpdateMiss, Move, TypeOK, manager, history
  <2>3. CASE UpdateWrite(q)
    <3>1. copy[q] \in Blobs /\ \A a \in op[q].agents : copy[q].agents[a] # None
      BY <1>0, <2>3 DEF UpdateWrite, Move, Shape, TypeOK
    <3>2. Row("processing", Updated(q, copy[q])) \in Rows
      BY <3>1, UpdatedIs DEF Row, Rows
    <3>3. rows' = [rows EXCEPT ![RunOf(q)] = Row("processing", Updated(q, copy[q]))]
      BY <2>3 DEF UpdateWrite
    <3>4. rows' \in [RunIds -> Rows \cup {None}]
      BY <3>2, <3>3 DEF TypeOK
    <3>5. /\ pc' = [pc EXCEPT ![q] = "answered"] /\ reply' = [reply EXCEPT ![q] = "success"]
          /\ copy' = [copy EXCEPT ![q] = None] /\ UNCHANGED <<op, handle, ctxDone, root>> /\ Witness(q)
      BY <2>3 DEF UpdateWrite, Move, manager
    <3>q. QED BY <1>w, <3>4, <3>5 DEF TypeOK
  <2>q. QED BY <1>2, <2>1, <2>2, <2>3 DEF Update
<1>3. ASSUME NEW q \in Requests, Abandon(q) PROVE TypeOK'
  BY <1>3 DEF Abandon, Move, TypeOK, manager, history
<1>4. ASSUME NEW q \in Requests, Task(q) PROVE TypeOK'
  <2>0. pc[q] \in Tasking => copy[q] \in Blobs
    BY <1>0 DEF Shape, TypeOK
  <2>1. CASE Run(q) \/ AskFails(q)
    BY <2>1 DEF Run, AskFails, Move, TypeOK, manager, history
  <2>2. ASSUME NEW described \in SUBSET Agents, Ask(q, described) PROVE TypeOK'
    <3>1. copy[q] \in Blobs
      BY <2>0, <2>2 DEF Ask, Move
    <3>2. copy' = [copy EXCEPT ![q] = Merge(q, copy[q], described)]
      BY <2>2 DEF Ask
    <3>3. copy' \in [Requests -> Blobs \cup {None}]
      BY <3>1, <3>2, MergeIs DEF TypeOK
    <3>q. QED BY <2>2, <3>3 DEF Ask, Move, TypeOK, manager, history
  <2>3. CASE CompleteWrite(q)
    <3>1. Row("completed", copy[q]) \in Rows
      BY <2>0, <2>3 DEF CompleteWrite, Move, Row, Rows
    <3>2. rows' \in [RunIds -> Rows \cup {None}]
      BY <2>3, <3>1 DEF CompleteWrite, TypeOK
    <3>3. held' \in [Requests -> (SUBSET Requests) \cup {{None}}] /\ later' \in [Requests -> SUBSET Requests]
      BY <1>w, <2>3 DEF CompleteWrite, TypeOK, history
    <3>q. QED BY <2>3, <3>2, <3>3 DEF CompleteWrite, Move, TypeOK, manager
  <2>4. CASE Fail(q)
    <3>1. copy[q] \in Blobs
      BY <2>0, <2>4 DEF Fail, Move
    <3>2. Row("error", FailedBlob(copy[q])) \in Rows
      BY <3>1, FailedBlobIs DEF Row, Rows
    <3>3. rows' = [rows EXCEPT ![RunOf(q)] = Row("error", FailedBlob(copy[q]))]
      BY <2>4 DEF Fail, FailedBlob
    <3>4. rows' \in [RunIds -> Rows \cup {None}]
      BY <3>2, <3>3 DEF TypeOK
    <3>q. QED BY <2>4, <3>4 DEF Fail, Move, TypeOK, manager, history
  <2>5. CASE Unregister(q)
    BY <2>5 DEF Unregister, Move, TypeOK, history
  <2>q. QED BY <1>4, <2>1, <2>2, <2>3, <2>4, <2>5 DEF Task
<1>5. CASE Signal
  BY <1>5 DEF Signal, TypeOK, history
<1>6. CASE UNCHANGED vars
  BY <1>6 DEF vars, TypeOK
<1>q. QED BY <1>1, <1>2, <1>3, <1>4, <1>5, <1>6, Steps DEF Step

-----------------------------------------------------------------------------
\* The blob a store starts from, when it writes.
Base(q) == IF copy[q] = None THEN NoBlob ELSE copy[q]
\* How the row r is written in a step of q.
Written(q, r) ==
  \/ StoreWrite(q) /\ rows'[r] = Row("processing", Reported(q, Base(q)))
  \/ UpdateWrite(q) /\ rows'[r] = Row("processing", Updated(q, copy[q]))
  \/ CompleteWrite(q) /\ ~ctxDone[q] /\ rows'[r] = Row("completed", copy[q])
  \/ Fail(q) /\ rows'[r] = Row("error", FailedBlob(copy[q]))

\* The statements that write a row, each the row of its own run.
LEMMA RowWrites ==
  ASSUME TypeOK, Shapes, NEW q \in Requests, Step(q), NEW r \in RunIds
  PROVE  rows'[r] = rows[r] \/ (r = RunOf(q) /\ Written(q, r))
<1> USE Labels
<1>1. CASE StoreWrite(q)
  <2>1. rows' = [rows EXCEPT ![RunOf(q)] = IF copy[q] = None /\ @ # None THEN @
                                           ELSE Row("processing", Reported(q, Base(q)))]
    BY <1>1 DEF StoreWrite, Base
  <2>q. QED BY <1>1, <2>1 DEF TypeOK, Written
<1>2. CASE UpdateWrite(q)
  <2>1. rows' = [rows EXCEPT ![RunOf(q)] = Row("processing", Updated(q, copy[q]))]
    BY <1>2 DEF UpdateWrite
  <2>q. QED BY <1>2, <2>1 DEF TypeOK, Written
<1>3. CASE CompleteWrite(q)
  <2>1. rows' = rows \/ (~ctxDone[q] /\ rows' = [rows EXCEPT ![RunOf(q)] = Row("completed", copy[q])])
    BY <1>3 DEF CompleteWrite
  <2>q. QED BY <1>3, <2>1 DEF TypeOK, Written
<1>4. CASE Fail(q)
  <2>1. rows' = [rows EXCEPT ![RunOf(q)] = Row("error", FailedBlob(copy[q]))]
    BY <1>4 DEF Fail, FailedBlob
  <2>q. QED BY <1>4, <2>1 DEF TypeOK, Written
<1>5. CASE ~StoreWrite(q) /\ ~UpdateWrite(q) /\ ~CompleteWrite(q) /\ ~Fail(q)
  <2>1. rows' = rows
    BY <1>5 DEF Step, Store, Update, Abandon, Task, StoreRead, StartAgentAdvancement, UpdateRead,
         UpdateMiss, Run, Ask, AskFails, Unregister
  <2>q. QED BY <2>1
<1>q. QED BY <1>1, <1>2, <1>3, <1>4, <1>5

\* A written row is a row.
LEMMA RowsStay ==
  ASSUME TypeOK, Shapes, [Next]_vars
  PROVE  \A r \in RunIds : rows[r] # None => rows'[r] # None
<1>1. CASE rows' = rows
  BY <1>1
<1>2. ASSUME NEW q \in Requests, Step(q), NEW r \in RunIds, rows[r] # None PROVE rows'[r] # None
  <2>3. CASE Written(q, r) /\ r = RunOf(q)
    <3>1. pc[q] \in Holding
      BY <2>3, Labels DEF Written, StoreWrite, UpdateWrite, CompleteWrite, Fail, Move
    <3>2. Base(q) \in Blobs
      BY DEF Base, NoBlob, NoAgents, Blobs, TypeOK
    <3>3. CASE rows'[r] = Row("processing", Reported(q, Base(q)))
      BY <3>2, <3>3, ReportedIs, ValuesAssumption DEF Row, Rows
    <3>4. CASE UpdateWrite(q) /\ rows'[r] = Row("processing", Updated(q, copy[q]))
      <4>1. copy[q] \in Blobs /\ \A a \in op[q].agents : copy[q].agents[a] # None
        BY <3>4 DEF UpdateWrite, Move, Shapes, Shape, TypeOK
      <4>q. QED BY <3>4, <4>1, UpdatedIs, ValuesAssumption DEF Row, Rows
    <3>5. CASE CompleteWrite(q) /\ rows'[r] = Row("completed", copy[q])
      <4>1. copy[q] \in Blobs
        BY <3>5, Labels DEF CompleteWrite, Move, Shapes, Shape, TypeOK
      <4>q. QED BY <3>5, <4>1, ValuesAssumption DEF Row, Rows
    <3>6. CASE Fail(q) /\ rows'[r] = Row("error", FailedBlob(copy[q]))
      <4>1. copy[q] \in Blobs
        BY <3>6, Labels DEF Fail, Move, Shapes, Shape, TypeOK
      <4>q. QED BY <3>6, <4>1, FailedBlobIs, ValuesAssumption DEF Row, Rows
    <3>q. QED BY <2>3, <3>3, <3>4, <3>5, <3>6 DEF Written
  <2>q. QED BY <1>2, <2>3, RowWrites
<1>q. QED BY <1>1, <1>2, Steps DEF Signal, vars

\* What was asked of a request is settled when it arrives.
LEMMA OpsStay ==
  ASSUME TypeOK, [Next]_vars, NEW p \in Requests, pc[p] # "idle"
  PROVE  op'[p] = op[p] /\ pc'[p] # "idle"
<1>1. ASSUME NEW q \in Requests, Step(q), p = q PROVE op'[p] = op[p] /\ pc'[p] # "idle"
  <2>1. CASE Store(q) \/ Update(q) \/ Abandon(q)
    BY <1>1, <2>1 DEF Store, StoreRead, StoreWrite, StartAgentAdvancement, Update, UpdateRead, UpdateMiss,
         UpdateWrite, Abandon, Move, TypeOK
  <2>2. CASE Task(q)
    BY <1>1, <2>2 DEF Task, Run, Ask, AskFails, CompleteWrite, Fail, Unregister, Move, TypeOK
  <2>q. QED BY <1>1, <2>1, <2>2 DEF Step
<1>2. ASSUME NEW q \in Requests, Step(q), p # q PROVE op'[p] = op[p] /\ pc'[p] # "idle"
  BY <1>2, OthersAreKept DEF Kept
<1>q. QED BY <1>1, <1>2, Steps DEF Signal, vars

\* A request records the witnesses of its write once, when it writes.
LEMMA WritesOnce ==
  ASSUME TypeOK, NEW q \in Requests, Step(q)
  PROVE  \/ held'[q] = held[q] /\ later'[q] = later[q]
         \/ (UpdateWrite(q) \/ (CompleteWrite(q) /\ ~ctxDone[q])) /\ Witness(q)
<1>1. CASE Store(q) \/ Abandon(q)
  BY <1>1 DEF Store, StoreRead, StoreWrite, StartAgentAdvancement, Abandon, history
<1>2. CASE Update(q)
  BY <1>2 DEF Update, UpdateRead, UpdateMiss, UpdateWrite, history
<1>3. CASE Task(q)
  BY <1>3 DEF Task, Run, Ask, AskFails, CompleteWrite, Fail, Unregister, history
<1>q. QED BY <1>1, <1>2, <1>3 DEF Step

-----------------------------------------------------------------------------
\* A request goes from stage to stage with what the stage needs.
LEMMA ShapesStep ==
  ASSUME TypeOK, Shapes, [Next]_vars
  PROVE  Shapes'
<1> USE Labels
<1>t. TypeOK'
  BY TypeStep
<1>r. \A r \in RunIds : rows[r] # None => rows'[r] # None
  BY RowsStay
<1>1. ASSUME NEW p \in Requests, Kept(p) PROVE Shape(p)'
  BY <1>1, <1>r DEF Shapes, Shape, Kept, RunOf, Wrote
<1>2. ASSUME NEW q \in Requests, Step(q) PROVE Shape(q)'
  <2>s. Shape(q)
    BY DEF Shapes
  <2>1. ASSUME NEW r \in RunIds, NEW agents \in Reports, StoreRead(q, r, agents) PROVE Shape(q)'
    <3>1. /\ pc[q] = "idle" /\ pc'[q] = "read" /\ held' = held /\ reply' = reply
          /\ op'[q] = [kind |-> "store", run |-> r, agents |-> agents]
      BY <2>1 DEF StoreRead, Move, TypeOK, history
    <3>q. QED BY <2>s, <3>1 DEF Shape, RunOf, Wrote
  <2>2. CASE StoreWrite(q)
    <3>1. /\ pc[q] = "read" /\ pc'[q] = "stored" /\ held' = held /\ op' = op /\ op[q].kind = "store"
          /\ copy'[q] = Reported(q, Base(q))
      BY <2>2 DEF StoreWrite, TypeOK, history, Base
    <3>2. Base(q) \in Blobs
      BY DEF Base, NoBlob, NoAgents, Blobs, TypeOK
    <3>3. copy'[q] \in Blobs /\ \A a \in op[q].agents : copy'[q].agents[a] = Entry(q)
      BY <3>1, <3>2, ReportedIs
    <3>4. Entry(q) \in Entries /\ Entry(q).report = q
      BY DEF Entry, Entries
    <3>q. QED BY <2>s, <3>1, <3>3, <3>4, ValuesAssumption DEF Shape, RunOf, Wrote
  <2>3. CASE StartAgentAdvancement(q)
    <3>1. /\ pc[q] = "stored" /\ pc'[q] = "running" /\ held' = held /\ op' = op /\ copy' = copy
      BY <2>3 DEF StartAgentAdvancement, Move, TypeOK, history
    <3>q. QED BY <2>s, <3>1 DEF Shape, RunOf, Wrote
  <2>4. ASSUME NEW a \in Agents, UpdateRead(q, a) PROVE Shape(q)'
    <3>1. PICK owner \in Owners(a) :
           /\ op' = [op EXCEPT ![q] = [kind |-> "update", run |-> owner, agents |-> {a}]]
           /\ copy' = [copy EXCEPT ![q] = rows[owner].blob]
      BY <2>4, OwnerIs
    <3>2. pc[q] = "idle" /\ pc'[q] = "read" /\ held' = held /\ reply' = reply
      BY <2>4 DEF UpdateRead, Move, TypeOK, history
    <3>3. /\ owner \in RunIds /\ rows[owner].blob \in Blobs /\ rows[owner].blob.agents[a] # None
      BY DEF Owners, TypeOK, Rows
    <3>4. op'[q].kind = "update" /\ op'[q].run = owner /\ op'[q].agents = {a} /\ copy'[q] = rows[owner].blob
      BY <3>1 DEF TypeOK
    <3>q. QED BY <2>s, <3>2, <3>3, <3>4, ValuesAssumption DEF Shape, RunOf, Wrote
  <2>5. ASSUME NEW a \in Agents, UpdateMiss(q, a) PROVE Shape(q)'
    <3>1. /\ pc[q] = "idle" /\ pc'[q] = "answered" /\ held' = held /\ copy' = copy
          /\ op'[q] = [kind |-> "update", run |-> None, agents |-> {a}]
      BY <2>5 DEF UpdateMiss, Move, TypeOK, history
    <3>q. QED BY <2>s, <3>1 DEF Shape, RunOf, Wrote
  <2>6. CASE UpdateWrite(q)
    <3>1. /\ pc[q] = "read" /\ pc'[q] = "answered" /\ op' = op /\ copy'[q] = None /\ op[q].kind = "update"
          /\ rows' = [rows EXCEPT ![RunOf(q)] = Row("processing", Updated(q, copy[q]))]
      BY <2>6 DEF UpdateWrite, Move, TypeOK
    <3>2. RunOf(q) \in RunIds /\ copy[q] \in Blobs /\ \A a \in op[q].agents : copy[q].agents[a] # None
      BY <2>s, <3>1 DEF Shape, TypeOK
    <3>3. rows'[RunOf(q)] # None
      BY <3>1, <3>2, UpdatedIs, ValuesAssumption DEF Row, Rows, TypeOK
    <3>q. QED BY <2>s, <3>1, <3>2, <3>3 DEF Shape, RunOf
  <2>7. CASE Abandon(q)
    <3>1. pc[q] = "read" /\ pc'[q] = "gone" /\ op' = op /\ copy'[q] = None /\ held' = held
      BY <2>7 DEF Abandon, Move, TypeOK, history
    <3>q. QED BY <2>s, <3>1 DEF Shape, RunOf, Wrote
  <2>8. CASE Run(q) \/ AskFails(q)
    <3>1. /\ pc[q] \in {"running", "asking"} /\ pc'[q] \in {"asking", "writing", "failing"}
          /\ op' = op /\ copy' = copy /\ held' = held
      BY <2>8 DEF Run, AskFails, Move, TypeOK, history
    <3>q. QED BY <2>s, <3>1 DEF Shape, RunOf, Wrote
  <2>9. ASSUME NEW described \in SUBSET Agents, Ask(q, described) PROVE Shape(q)'
    <3>1. /\ pc[q] = "asking" /\ pc'[q] = "writing" /\ op' = op /\ held' = held
          /\ copy'[q] = Merge(q, copy[q], described)
      BY <2>9 DEF Ask, Move, TypeOK, history
    <3>2. copy[q] \in Blobs
      BY <2>s, <3>1 DEF Shape, TypeOK
    <3>3. op[q].agents \subseteq Present(copy[q].agents)
      BY <2>s, <3>1 DEF Shape, Present, TypeOK
    <3>4. /\ copy'[q] \in Blobs
          /\ Present(copy'[q].agents) = Present(copy[q].agents)
          /\ \A a \in op[q].agents : copy'[q].agents[a].report = copy[q].agents[a].report
      BY <3>1, <3>2, <3>3, MergeIs
    <3>5. \A a \in op[q].agents : copy'[q].agents[a] # None
      BY <3>3, <3>4 DEF Present
    <3>q. QED BY <2>s, <3>1, <3>4, <3>5, ValuesAssumption DEF Shape, RunOf, Wrote
  <2>10. CASE CompleteWrite(q) \/ Fail(q)
    <3>1. /\ pc[q] \in {"writing", "failing"} /\ pc'[q] = "returned" /\ op' = op /\ copy' = copy
      BY <2>10 DEF CompleteWrite, Fail, Move, TypeOK
    <3>2. copy[q] \in Blobs /\ RunOf(q) \in RunIds
      BY <2>s, <3>1 DEF Shape, TypeOK
    <3>3. held'[q] = held[q] \/ rows'[RunOf(q)] = Row("completed", copy[q])
      BY <2>10, <3>2 DEF CompleteWrite, Fail, TypeOK, history
    <3>4. Wrote(q)' => rows'[RunOf(q)] # None
      BY <2>s, <3>1, <3>2, <3>3, ValuesAssumption DEF Shape, Wrote, Row, Rows
    <3>q. QED BY <2>s, <3>1, <3>2, <3>4 DEF Shape, RunOf
  <2>11. CASE Unregister(q)
    <3>1. /\ pc[q] = "returned" /\ pc'[q] = "done" /\ op' = op /\ copy'[q] = None /\ held' = held /\ rows' = rows
      BY <2>11 DEF Unregister, Move, TypeOK, history
    <3>q. QED BY <2>s, <3>1 DEF Shape, RunOf, Wrote
  <2>q. QED BY <1>2, <2>1, <2>2, <2>3, <2>4, <2>5, <2>6, <2>7, <2>8, <2>9, <2>10, <2>11
          DEF Step, Store, Update, Task
<1>3. CASE Signal \/ UNCHANGED vars
  BY <1>3 DEF Signal, vars, history, Shapes, Shape, RunOf, Wrote
<1>4. ASSUME NEW q \in Requests, Step(q) PROVE Shapes'
  BY <1>1, <1>2, <1>4, OthersAreKept DEF Shapes
<1>q. QED BY <1>3, <1>4, Steps

-----------------------------------------------------------------------------
\* What a request's copy is after a step of its own.
LEMMA CopyMoves ==
  ASSUME TypeOK, Shapes, NEW q \in Requests, Step(q), copy'[q] # None
  PROVE  \/ copy'[q] = copy[q] /\ op'[q] = op[q]
         \/ /\ pc[q] = "idle" /\ rows' = rows
            /\ \E r \in RunIds : op'[q].run = r /\ rows[r] # None /\ copy'[q] = rows[r].blob
         \/ StoreWrite(q) /\ op'[q] = op[q] /\ copy'[q] = Reported(q, Base(q))
         \/ /\ op'[q] = op[q] /\ copy[q] \in Blobs
            /\ \E described \in SUBSET Agents : copy'[q] = Merge(q, copy[q], described)
<1> USE Labels
<1>1. ASSUME NEW r \in RunIds, NEW agents \in Reports, StoreRead(q, r, agents)
      PROVE  /\ pc[q] = "idle" /\ rows' = rows
             /\ op'[q].run = r /\ rows[r] # None /\ copy'[q] = rows[r].blob
  <2>1. /\ pc[q] = "idle" /\ rows' = rows
        /\ op'[q] = [kind |-> "store", run |-> r, agents |-> agents]
        /\ copy'[q] = IF rows[r] = None THEN None ELSE rows[r].blob
    BY <1>1 DEF StoreRead, Move, TypeOK
  <2>q. QED BY <2>1
<1>2. CASE StoreWrite(q)
  BY <1>2 DEF StoreWrite, Base, TypeOK
<1>3. CASE StartAgentAdvancement(q) \/ Run(q) \/ AskFails(q) \/ CompleteWrite(q) \/ Fail(q)
  BY <1>3 DEF StartAgentAdvancement, Run, AskFails, CompleteWrite, Fail
<1>4. ASSUME NEW a \in Agents, UpdateRead(q, a)
      PROVE  /\ pc[q] = "idle" /\ rows' = rows
             /\ \E r \in RunIds : op'[q].run = r /\ rows[r] # None /\ copy'[q] = rows[r].blob
  <2>1. PICK owner \in Owners(a) :
           /\ op' = [op EXCEPT ![q] = [kind |-> "update", run |-> owner, agents |-> {a}]]
           /\ copy' = [copy EXCEPT ![q] = rows[owner].blob]
    BY <1>4, OwnerIs
  <2>2. pc[q] = "idle" /\ rows' = rows
    BY <1>4 DEF UpdateRead, Move
  <2>3. op'[q].run = owner /\ copy'[q] = rows[owner].blob /\ owner \in RunIds /\ rows[owner] # None
    BY <2>1 DEF TypeOK, Owners
  <2>q. QED BY <2>2, <2>3
<1>5. ASSUME NEW a \in Agents, UpdateMiss(q, a) PROVE FALSE
  <2>1. pc[q] = "idle" /\ copy' = copy
    BY <1>5 DEF UpdateMiss, Move
  <2>q. QED BY <2>1 DEF Shapes, Shape
<1>6. CASE UpdateWrite(q) \/ Abandon(q) \/ Unregister(q)
  BY <1>6 DEF UpdateWrite, Abandon, Unregister, TypeOK
<1>7. ASSUME NEW described \in SUBSET Agents, Ask(q, described)
      PROVE  op'[q] = op[q] /\ copy[q] \in Blobs /\ copy'[q] = Merge(q, copy[q], described)
  BY <1>7 DEF Ask, Move, Shapes, Shape, TypeOK
<1>q. QED BY <1>1, <1>2, <1>3, <1>4, <1>5, <1>6, <1>7 DEF Step, Store, Update, Task

\* A blob with the agents of a whole report is of that report.
LEMMA WholeAlike ==
  ASSUME NEW b, NEW c, NEW r, Whole(b, r), Present(c.agents) = Present(b.agents),
         \A a \in Present(b.agents) : c.agents[a].report = b.agents[a].report
  PROVE  Whole(c, r)
BY DEF Whole

\* Rows and copies stay of one whole report.
LEMMA WholeStep ==
  ASSUME TypeOK, Shapes, AllWhole, [Next]_vars
  PROVE  AllWhole'
<1> USE Labels
<1>1. ASSUME NEW b, NEW r, Whole(b, r) PROVE Whole(b, r)'
  <2>1. PICK w \in Requests : /\ op[w].kind = "store" /\ RunOf(w) = r
                              /\ Present(b.agents) = op[w].agents
                              /\ \A a \in op[w].agents : b.agents[a].report = w
    BY <1>1 DEF Whole
  <2>2. op'[w] = op[w]
    BY <2>1, OpsStay DEF Shapes, Shape
  <2>q. QED BY <2>1, <2>2 DEF Whole, RunOf
<1>2. CASE Signal \/ UNCHANGED vars
  <2>1. UNCHANGED <<rows, op, copy>>
    BY <1>2 DEF Signal, vars
  <2>q. QED BY <2>1 DEF AllWhole, Whole, RunOf
<1>b. \A q \in Requests : Base(q) \in Blobs
  BY DEF Base, NoBlob, NoAgents, Blobs, TypeOK
<1>3. ASSUME NEW q \in Requests, StoreWrite(q) PROVE Whole(Reported(q, Base(q)), RunOf(q))
  <2>1. op[q].kind = "store" /\ Entry(q).report = q
    BY <1>3 DEF StoreWrite, Entry
  <2>q. QED BY <1>b, <2>1, ReportedIs DEF Whole
<1>4. ASSUME NEW q \in Requests, Step(q), NEW r \in RunIds, rows'[r] # None
      PROVE  Whole(rows[r].blob, r)'
  <2>1. PICK b : b = rows'[r].blob
    OBVIOUS
  <2>2. Whole(b, r)
    <3>1. CASE rows'[r] = rows[r]
      BY <1>4, <2>1, <3>1 DEF AllWhole
    <3>2. CASE r = RunOf(q) /\ Written(q, r)
      <4>1. CASE StoreWrite(q) /\ rows'[r] = Row("processing", Reported(q, Base(q)))
        BY <1>3, <2>1, <3>2, <4>1 DEF Row
      <4>2. CASE UpdateWrite(q) /\ rows'[r] = Row("processing", Updated(q, copy[q]))
        <5>1. copy[q] \in Blobs /\ \A a \in op[q].agents : copy[q].agents[a] # None
          BY <4>2 DEF UpdateWrite, Move, Shapes, Shape, TypeOK
        <5>2. Whole(copy[q], r) /\ b = Updated(q, copy[q])
          BY <2>1, <3>2, <4>2, <5>1, ValuesAssumption DEF AllWhole, Row
        <5>q. QED BY <5>1, <5>2, UpdatedIs, WholeAlike
      <4>3. CASE CompleteWrite(q) /\ rows'[r] = Row("completed", copy[q])
        <5>1. copy[q] # None
          BY <4>3 DEF CompleteWrite, Move, Shapes, Shape
        <5>q. QED BY <2>1, <3>2, <4>3, <5>1 DEF AllWhole, Row
      <4>4. CASE Fail(q) /\ rows'[r] = Row("error", FailedBlob(copy[q]))
        <5>1. copy[q] # None /\ copy[q] \in Blobs
          BY <4>4 DEF Fail, Move, Shapes, Shape, TypeOK
        <5>2. Whole(copy[q], r) /\ b = FailedBlob(copy[q])
          BY <2>1, <3>2, <4>4, <5>1 DEF AllWhole, Row
        <5>q. QED BY <5>1, <5>2, FailedBlobIs, WholeAlike
      <4>q. QED BY <3>2, <4>1, <4>2, <4>3, <4>4 DEF Written
    <3>q. QED BY <1>4, <3>1, <3>2, RowWrites
  <2>3. Whole(b, r)'
    BY <1>1, <2>2
  <2>q. QED BY <2>1, <2>3 DEF Whole
<1>5. ASSUME NEW q \in Requests, Step(q), NEW p \in Requests, copy'[p] # None
      PROVE  Whole(copy[p], RunOf(p))'
  <2>1. PICK b, r : b = copy'[p] /\ r = op'[p].run
    OBVIOUS
  <2>2. Whole(b, r)
    <3>1. CASE copy'[p] = copy[p] /\ op'[p] = op[p]
      BY <1>5, <2>1, <3>1 DEF AllWhole, RunOf
    <3>2. CASE p = q
      <4>1. CASE \E x \in RunIds : op'[q].run = x /\ rows[x] # None /\ copy'[q] = rows[x].blob
        BY <2>1, <3>2, <4>1 DEF AllWhole
      <4>2. CASE StoreWrite(q) /\ op'[q] = op[q] /\ copy'[q] = Reported(q, Base(q))
        BY <1>3, <2>1, <3>2, <4>2 DEF RunOf
      <4>3. CASE /\ op'[q] = op[q] /\ copy[q] \in Blobs
                 /\ \E described \in SUBSET Agents : copy'[q] = Merge(q, copy[q], described)
        <5>1. Whole(copy[q], r)
          BY <2>1, <3>2, <4>3, ValuesAssumption DEF AllWhole, RunOf
        <5>q. QED BY <2>1, <3>2, <4>3, <5>1, MergeIs, WholeAlike
      <4>q. QED BY <1>5, <3>1, <3>2, <4>1, <4>2, <4>3, CopyMoves
    <3>q. QED BY <1>5, <3>1, <3>2, OthersAreKept DEF Kept
  <2>3. Whole(b, r)'
    BY <1>1, <2>2
  <2>q. QED BY <2>1, <2>3 DEF Whole, RunOf
<1>6. ASSUME NEW q \in Requests, Step(q) PROVE AllWhole'
  BY <1>4, <1>5, <1>6 DEF AllWhole
<1>q. QED BY <1>2, <1>6, Steps

-----------------------------------------------------------------------------
\* A reason stays explained by the task that failed.
LEMMA ReasonStep ==
  ASSUME TypeOK, Shapes, AllReasons, [Next]_vars
  PROVE  AllReasons'
<1> USE Labels
<1>1. ASSUME NEW r, Failed(r) PROVE Failed(r)'
  <2>1. PICK w \in Requests : /\ op[w].kind = "store" /\ RunOf(w) = r /\ ~Wrote(w)
                              /\ pc[w] \in {"returned", "done"}
    BY <1>1 DEF Failed
  <2>2. op'[w] = op[w]
    BY <2>1, OpsStay
  <2>3. held'[w] = held[w] /\ pc'[w] \in {"returned", "done"}
    <3>1. ASSUME NEW q \in Requests, Step(q), q # w PROVE held'[w] = held[w] /\ pc'[w] = pc[w]
      BY <3>1, OthersAreKept DEF Kept
    <3>2. ASSUME Step(w) PROVE held'[w] = held[w] /\ pc'[w] \in {"returned", "done"}
      BY <2>1, <3>2 DEF Step, Store, StoreRead, StoreWrite, StartAgentAdvancement, Update, UpdateRead,
           UpdateMiss, UpdateWrite, Abandon, Task, Run, Ask, AskFails, CompleteWrite, Fail, Unregister,
           Move, TypeOK, history
    <3>q. QED BY <2>1, <3>1, <3>2, Steps DEF Signal, vars, history
  <2>q. QED BY <2>1, <2>2, <2>3 DEF Failed, RunOf, Wrote
<1>2. CASE Signal \/ UNCHANGED vars
  <2>1. UNCHANGED <<rows, op, copy, held, pc>>
    BY <1>2 DEF Signal, vars, history
  <2>q. QED BY <2>1 DEF AllReasons, Failed, RunOf, Wrote
<1>b. \A q \in Requests : Base(q) \in Blobs /\ (Base(q).reason # None => copy[q] # None /\ Base(q) = copy[q])
  BY DEF Base, NoBlob, NoAgents, Blobs, TypeOK
<1>3. ASSUME NEW q \in Requests, Reported(q, Base(q)).reason # None PROVE Failed(RunOf(q))
  BY <1>b, <1>3, ReportedIs DEF AllReasons
<1>4. ASSUME NEW q \in Requests, Step(q), NEW r \in RunIds, rows'[r] # None, rows'[r].blob.reason # None
      PROVE  Failed(r)'
  <2>1. CASE rows'[r] = rows[r]
    BY <1>1, <1>4, <2>1 DEF AllReasons
  <2>2. CASE r = RunOf(q) /\ Written(q, r)
    <3>1. CASE StoreWrite(q) /\ rows'[r] = Row("processing", Reported(q, Base(q)))
      BY <1>1, <1>3, <1>4, <2>2, <3>1 DEF Row
    <3>2. CASE UpdateWrite(q) /\ rows'[r] = Row("processing", Updated(q, copy[q]))
      <4>1. copy[q] \in Blobs /\ \A a \in op[q].agents : copy[q].agents[a] # None
        BY <3>2 DEF UpdateWrite, Move, Shapes, Shape, TypeOK
      <4>2. copy[q].reason # None
        BY <1>4, <3>2, <4>1, UpdatedIs DEF Row
      <4>q. QED BY <1>1, <2>2, <4>1, <4>2, ValuesAssumption DEF AllReasons
    <3>3. CASE CompleteWrite(q) /\ rows'[r] = Row("completed", copy[q])
      <4>1. copy[q] # None
        BY <3>3 DEF CompleteWrite, Move, Shapes, Shape
      <4>q. QED BY <1>1, <1>4, <2>2, <3>3, <4>1 DEF AllReasons, Row
    <3>4. CASE Fail(q)
      <4>1. pc[q] = "failing" /\ pc'[q] = "returned" /\ op' = op /\ held' = held
        BY <3>4 DEF Fail, Move, TypeOK, history
      <4>q. QED BY <2>2, <4>1 DEF Failed, Shapes, Shape, RunOf, Wrote
    <3>q. QED BY <2>2, <3>1, <3>2, <3>3, <3>4 DEF Written
  <2>q. QED BY <1>4, <2>1, <2>2, RowWrites
<1>5. ASSUME NEW q \in Requests, Step(q), NEW p \in Requests, copy'[p] # None, copy'[p].reason # None
      PROVE  Failed(RunOf(p))'
  <2>1. PICK r : r = op'[p].run
    OBVIOUS
  <2>2. Failed(r)
    <3>1. CASE copy'[p] = copy[p] /\ op'[p] = op[p]
      BY <1>5, <2>1, <3>1 DEF AllReasons, RunOf
    <3>2. CASE p = q
      <4>1. CASE \E x \in RunIds : op'[q].run = x /\ rows[x] # None /\ copy'[q] = rows[x].blob
        BY <1>5, <2>1, <3>2, <4>1 DEF AllReasons
      <4>2. CASE StoreWrite(q) /\ op'[q] = op[q] /\ copy'[q] = Reported(q, Base(q))
        BY <1>3, <1>5, <2>1, <3>2, <4>2 DEF RunOf
      <4>3. CASE /\ op'[q] = op[q] /\ copy[q] \in Blobs
                 /\ \E described \in SUBSET Agents : copy'[q] = Merge(q, copy[q], described)
        <5>1. copy[q].reason # None
          BY <1>5, <3>2, <4>3, MergeIs
        <5>q. QED BY <2>1, <3>2, <4>3, <5>1, ValuesAssumption DEF AllReasons, RunOf
      <4>q. QED BY <1>5, <3>1, <3>2, <4>1, <4>2, <4>3, CopyMoves
    <3>q. QED BY <1>5, <3>1, <3>2, OthersAreKept DEF Kept
  <2>3. Failed(r)'
    BY <1>1, <2>2
  <2>q. QED BY <2>1, <2>3 DEF Failed, RunOf
<1>6. ASSUME NEW q \in Requests, Step(q) PROVE AllReasons'
  BY <1>4, <1>5, <1>6 DEF AllReasons
<1>q. QED BY <1>2, <1>6, Steps

-----------------------------------------------------------------------------
\* The manager's table holds tasks of the run they are filed under.
LEMMA HandlesStep ==
  ASSUME TypeOK, Shapes, Handles, [Next]_vars
  PROVE  Handles'
<1> SUFFICES ASSUME NEW r \in RunIds, handle'[r] # None
             PROVE  op'[handle'[r]].run = r /\ pc'[handle'[r]] # "idle"
  BY DEF Handles, RunOf
<1>1. CASE handle'[r] = handle[r]
  <2>1. PICK h \in Requests : h = handle[r]
    BY <1>1 DEF TypeOK
  <2>2. RunOf(h) = r /\ pc[h] # "idle"
    BY <1>1, <2>1 DEF Handles
  <2>3. op'[h] = op[h] /\ pc'[h] # "idle"
    BY <2>2, OpsStay
  <2>q. QED BY <1>1, <2>1, <2>2, <2>3 DEF RunOf
<1>2. ASSUME NEW q \in Requests, StartAgentAdvancement(q), r = RunOf(q)
      PROVE  op'[handle'[r]].run = r /\ pc'[handle'[r]] # "idle"
  BY <1>2 DEF StartAgentAdvancement, Move, RunOf, TypeOK
<1>3. ASSUME NEW q \in Requests, Step(q)
      PROVE  handle'[r] = handle[r] \/ (StartAgentAdvancement(q) /\ r = RunOf(q))
  <2>1. CASE StartAgentAdvancement(q)
    BY <2>1 DEF StartAgentAdvancement, TypeOK
  <2>2. CASE Unregister(q)
    BY <2>2 DEF Unregister, TypeOK
  <2>3. CASE ~StartAgentAdvancement(q) /\ ~Unregister(q)
    BY <1>3, <2>3 DEF Step, Store, StoreRead, StoreWrite, Update, UpdateRead, UpdateMiss, UpdateWrite,
         Abandon, Task, Run, Ask, AskFails, CompleteWrite, Fail, manager
  <2>q. QED BY <2>1, <2>2, <2>3
<1>q. QED BY <1>1, <1>2, <1>3, Steps DEF Signal, vars

\* A run in processing keeps a task that will end it: a task whose last write
\* is cancelled was superseded by a task that is on its way.
LEMMA EndStep ==
  ASSUME TypeOK, Shapes, Handles, WillEnd, [Next]_vars
  PROVE  WillEnd'
<1> USE Labels
<1> DEFINE Ends(r) ==
      \/ root
      \/ \E q \in Requests : op[q].kind = "update" /\ RunOf(q) = r /\ reply[q] = "success"
      \/ \E q \in Requests : RunOf(q) = r /\ Live(q)
<1>1. CASE Signal
  BY <1>1 DEF Signal, WillEnd
<1>2. CASE UNCHANGED vars
  BY <1>2 DEF vars, WillEnd, Live, RunOf
<1>3. ASSUME NEW x \in Requests, Step(x), NEW r \in RunIds, rows'[r] # None, rows'[r].status = "processing"
      PROVE  Ends(r)'
  <2>k. \A y \in Requests : y # x => Kept(y)
    BY <1>3, OthersAreKept
  <2>1. CASE StoreWrite(x) /\ RunOf(x) = r
    <3>1. op' = op /\ op[x].kind = "store" /\ pc'[x] = "stored"
      BY <2>1 DEF StoreWrite, TypeOK
    <3>q. QED BY <2>1, <3>1 DEF Live, RunOf
  <2>2. CASE UpdateWrite(x) /\ RunOf(x) = r
    <3>1. op' = op /\ op[x].kind = "update" /\ reply'[x] = "success"
      BY <2>2 DEF UpdateWrite, TypeOK
    <3>q. QED BY <2>2, <3>1 DEF RunOf
  <2>3. CASE StartAgentAdvancement(x) /\ RunOf(x) = r
    <3>1. op' = op /\ pc[x] = "stored" /\ pc'[x] = "running"
      BY <2>3 DEF StartAgentAdvancement, Move, TypeOK
    <3>q. QED BY <2>3, <3>1 DEF Live, RunOf, Shapes, Shape
  <2>4. CASE ~((StoreWrite(x) \/ UpdateWrite(x) \/ StartAgentAdvancement(x)) /\ RunOf(x) = r)
    <3>1. rows'[r] = rows[r]
      <4>1. ASSUME r = RunOf(x), Written(x, r) PROVE FALSE
        <5>1. rows'[r].status \in {"completed", "error"}
          BY <2>4, <4>1 DEF Written, Row
        <5>q. QED BY <1>3, <5>1
      <4>q. QED BY <1>3, <4>1, RowWrites
    <3>2. Ends(r)
      BY <1>3, <3>1 DEF WillEnd
    <3>3. CASE root
      <4>1. root' = root
        BY <1>3 DEF Step, Store, StoreRead, StoreWrite, StartAgentAdvancement, Update, UpdateRead, UpdateMiss,
             UpdateWrite, Abandon, Task, Run, Ask, AskFails, CompleteWrite, Fail, Unregister, manager
      <4>q. QED BY <3>3, <4>1
    <3>4. ASSUME NEW q \in Requests, op[q].kind = "update", RunOf(q) = r, reply[q] = "success" PROVE Ends(r)'
      <4>0. op'[q] = op[q]
        BY <3>4, OpsStay DEF Shapes, Shape
      <4>1. reply'[q] = "success"
        <5>1. CASE q # x
          BY <2>k, <3>4, <5>1 DEF Kept
        <5>2. CASE q = x
          <6>1. pc[x] # "idle"
            BY <3>4, <5>2 DEF Shapes, Shape
          <6>2. pc[x] \notin {"stored"} \cup Tasking
            BY <3>4, <5>2 DEF Shapes, Shape
          <6>3. reply'[x] = "success" \/ Abandon(x)
            BY <1>3, <3>4, <5>2, <6>1, <6>2 DEF Step, Store, StoreRead, StoreWrite, StartAgentAdvancement,
                 Update, UpdateRead, UpdateMiss, UpdateWrite, Task, Run, Ask, AskFails, CompleteWrite,
                 Fail, Unregister, Move, TypeOK
          <6>4. ~Abandon(x)
            BY <3>4, <5>2 DEF Abandon, Move, Shapes, Shape
          <6>q. QED BY <5>2, <6>3, <6>4
        <5>q. QED BY <5>1, <5>2
      <4>q. QED BY <3>4, <4>0, <4>1 DEF RunOf
    <3>5. ASSUME NEW q \in Requests, RunOf(q) = r, Live(q) PROVE Ends(r)'
      <4>0. op'[q] = op[q]
        BY <3>5, OpsStay DEF Live, Shapes, Shape
      <4>1. CASE q # x
        <5>1. pc'[q] = pc[q]
          BY <2>k, <4>1 DEF Kept
        <5>2. ctxDone'[q] = ctxDone[q]
          <6>1. CASE StartAgentAdvancement(x)
            <7>1. pc[x] = "stored" /\ ctxDone'[q] = (ctxDone[q] \/ q = handle[RunOf(x)])
              BY <4>1, <6>1 DEF StartAgentAdvancement, Move, TypeOK
            <7>2. RunOf(x) \in RunIds /\ RunOf(x) # r
              BY <2>4, <6>1, <7>1 DEF Shapes, Shape
            <7>3. q # handle[RunOf(x)]
              BY <3>5, <7>2, NoneAssumption DEF Handles
            <7>q. QED BY <7>1, <7>3 DEF TypeOK
          <6>2. CASE ~StartAgentAdvancement(x)
            BY <1>3, <4>1, <6>2 DEF Step, Store, StoreRead, StoreWrite, Update, UpdateRead, UpdateMiss,
                 UpdateWrite, Abandon, Task, Run, Ask, AskFails, CompleteWrite, Fail, Unregister, manager, TypeOK
          <6>q. QED BY <6>1, <6>2
        <5>q. QED BY <3>5, <4>0, <5>1, <5>2 DEF Live, RunOf
      <4>2. CASE q = x
        <5>1. CASE Run(x) \/ AskFails(x) \/ \E described \in SUBSET Agents : Ask(x, described)
          <6>1. /\ ctxDone' = ctxDone
                /\ pc'[x] \in {"asking", "failing"} \/ (pc'[x] = "writing" /\ ~ctxDone[x])
            BY <5>1 DEF Run, AskFails, Ask, Move, TypeOK, manager
          <6>q. QED BY <3>5, <4>0, <4>2, <6>1 DEF Live, RunOf
        <5>2. CASE CompleteWrite(x)
          <6>1. pc[x] = "writing"
            BY <5>2 DEF CompleteWrite, Move
          <6>2. ~ctxDone[x] /\ RunOf(x) \in RunIds
            BY <3>5, <4>2, <6>1 DEF Live
          <6>3. rows'[r] = Row("completed", copy[x])
            BY <3>5, <4>2, <5>2, <6>2 DEF CompleteWrite, TypeOK
          <6>q. QED BY <1>3, <6>3 DEF Row
        <5>3. CASE Fail(x)
          <6>1. rows' = [rows EXCEPT ![RunOf(x)] = Row("error", FailedBlob(copy[x]))]
            BY <5>3 DEF Fail, FailedBlob
          <6>2. rows'[r] = Row("error", FailedBlob(copy[x]))
            BY <3>5, <4>2, <6>1 DEF TypeOK
          <6>q. QED BY <1>3, <6>2 DEF Row
        <5>q. QED BY <1>3, <2>4, <3>5, <4>2, <5>1, <5>2, <5>3 DEF Step, Store, StoreRead, StoreWrite,
                StartAgentAdvancement, Update, UpdateRead, UpdateMiss, UpdateWrite, Abandon, Task, Unregister,
                Move, Live
      <4>q. QED BY <4>1, <4>2
    <3>q. QED BY <3>2, <3>3, <3>4, <3>5
  <2>q. QED BY <2>1, <2>2, <2>3, <2>4
<1>4. ASSUME NEW x \in Requests, Step(x) PROVE WillEnd'
  BY <1>3, <1>4 DEF WillEnd
<1>q. QED BY <1>1, <1>2, <1>4, Steps

-----------------------------------------------------------------------------
\* A write that nobody has an excuse to undo stays in the row.
LEMMA SeenStep ==
  ASSUME TypeOK, Shapes, AllSeen, [Next]_vars
  PROVE  AllSeen'
<1> USE Labels
<1>1. CASE Signal \/ UNCHANGED vars
  <2>1. UNCHANGED <<rows, pc, op, copy, held, later>>
    BY <1>1 DEF Signal, vars, history
  <2>2. ASSUME NEW q \in Requests PROVE Seen(q)'
    <3>1. Effect(q)' <=> Effect(q)
      BY <2>1 DEF Effect, RunOf
    <3>2. Excused(q)' <=> Excused(q)
      BY <2>1 DEF Excused, Excuses, RunOf
    <3>3. \A p \in Requests : HasUpdate(copy[p].agents, q)' <=> HasUpdate(copy[p].agents, q)
      BY <2>1 DEF HasUpdate
    <3>4. Seen(q)
      BY DEF AllSeen
    <3>q. QED BY <2>1, <3>1, <3>2, <3>3, <3>4 DEF Seen, Wrote, RunOf
  <2>q. QED BY <2>2 DEF AllSeen
<1>t. TypeOK' /\ Shapes'
  BY TypeStep, ShapesStep
\* The request writes now.
<1>2. ASSUME NEW q \in Requests, Step(q), Witness(q), UpdateWrite(q) \/ (CompleteWrite(q) /\ ~ctxDone[q])
      PROVE  Seen(q)'
  <2>0. /\ held'[q] = {p \in Requests \ {q} : pc[p] \in Holding /\ RunOf(p) = RunOf(q)}
        /\ later'[q] = {p \in Requests : pc[p] = "idle"}
    BY <1>2 DEF Witness, TypeOK
  <2>1. pc[q] \in {"read", "writing"} /\ pc'[q] \in {"answered", "returned"} /\ op' = op /\ RunOf(q) \in RunIds
    BY <1>2 DEF UpdateWrite, CompleteWrite, Move, TypeOK, Shapes, Shape
  <2>k. \A p \in Requests \ {q} : Kept(p)
    BY <1>2, OthersAreKept
  <2>2. ASSUME NEW p \in Requests, pc'[p] = "idle" PROVE p \in later'[q]
    BY <2>0, <2>1, <2>2, <2>k DEF Kept
  <2>3. ASSUME NEW p \in Requests \ {q}, pc'[p] \in Holding, op'[p].run = op'[q].run PROVE p \in held'[q]
    BY <2>0, <2>1, <2>3, <2>k DEF Kept, RunOf
  <2>4. CASE \E p \in Requests \ {q} : pc'[p] \in Holding /\ op'[p].run = op'[q].run
    <3>1. Excused(q)'
      BY <2>3, <2>4 DEF Excused, Excuses, RunOf
    <3>q. QED BY <2>2, <2>3, <3>1 DEF Seen, RunOf
  <2>5. CASE ~\E p \in Requests \ {q} : pc'[p] \in Holding /\ op'[p].run = op'[q].run
    <3>1. Effect(q)'
      <4>1. CASE UpdateWrite(q)
        <5>1. copy[q] \in Blobs /\ \A a \in op[q].agents : copy[q].agents[a] # None
          BY <4>1 DEF UpdateWrite, Move, Shapes, Shape, TypeOK
        <5>2. op[q].kind = "update" /\ rows'[RunOf(q)] = Row("processing", Updated(q, copy[q]))
          BY <2>1, <4>1 DEF UpdateWrite, TypeOK
        <5>3. op[q].agents \subseteq Present(copy[q].agents)
          BY <5>1 DEF Present, TypeOK
        <5>4. \A a \in op[q].agents : /\ Updated(q, copy[q]).agents[a] # None
                                      /\ q \in Updated(q, copy[q]).agents[a].updates
          BY <5>1, <5>3, UpdatedIs DEF Present
        <5>5. rows'[RunOf(q)].blob = Updated(q, copy[q])
          BY <5>2 DEF Row
        <5>q. QED BY <2>1, <5>2, <5>4, <5>5 DEF Effect, RunOf
      <4>2. CASE CompleteWrite(q) /\ ~ctxDone[q]
        <5>1. /\ op[q].kind = "store"
              /\ \A a \in op[q].agents : copy[q].agents[a] # None /\ copy[q].agents[a].report = q
          BY <4>2 DEF CompleteWrite, Move, Shapes, Shape
        <5>2. rows'[RunOf(q)] = Row("completed", copy[q])
          BY <2>1, <4>2 DEF CompleteWrite, TypeOK
        <5>3. rows'[RunOf(q)].status = "completed" /\ rows'[RunOf(q)].blob = copy[q]
          BY <5>2 DEF Row
        <5>q. QED BY <2>1, <5>1, <5>3 DEF Effect, RunOf
      <4>q. QED BY <1>2, <4>1, <4>2
    <3>q. QED BY <2>2, <2>3, <2>5, <3>1 DEF Seen, RunOf
  <2>q. QED BY <2>4, <2>5
\* It has written before.
<1>3. ASSUME NEW x \in Requests, Step(x), NEW q \in Requests, Wrote(q),
             held'[q] = held[q], later'[q] = later[q]
      PROVE  Seen(q)'
  <2>k. \A p \in Requests \ {x} : Kept(p)
    BY <1>3, OthersAreKept
  <2>s. Seen(q) /\ Shape(q) /\ pc[q] # "idle" /\ RunOf(q) \in RunIds /\ rows[RunOf(q)] # None
    BY <1>3 DEF AllSeen, Shapes, Shape
  <2>o. op'[q] = op[q]
    BY <2>s, OpsStay
  <2>1. ASSUME NEW p \in Requests, pc'[p] = "idle" PROVE p \in later'[q]
    <3>1. pc[p] = "idle"
      BY <2>1, OpsStay
    <3>q. QED BY <1>3, <2>s, <3>1 DEF Seen
  <2>2. ASSUME NEW p \in Requests \ {q}, pc'[p] \in Holding, op'[p].run = op'[q].run
        PROVE  p \in held'[q] \cup later'[q]
    <3>1. CASE pc[p] = "idle"
      BY <1>3, <2>s, <3>1 DEF Seen
    <3>2. CASE pc[p] # "idle"
      <4>1. op'[p] = op[p]
        BY <3>2, OpsStay
      <4>2. pc[p] \in Holding
        <5>1. CASE p # x
          BY <2>2, <2>k, <5>1 DEF Kept
        <5>2. CASE p = x
          BY <1>3, <2>2, <3>2, <5>2 DEF Step, Store, StoreRead, StoreWrite, StartAgentAdvancement, Update,
               UpdateRead, UpdateMiss, UpdateWrite, Abandon, Task, Run, Ask, AskFails, CompleteWrite, Fail,
               Unregister, Move, TypeOK
        <5>q. QED BY <5>1, <5>2
      <4>q. QED BY <1>3, <2>2, <2>o, <2>s, <4>1, <4>2 DEF Seen, RunOf
    <3>q. QED BY <3>1, <3>2
  <2>3. CASE Excused(q)
    <3>1. PICK p \in Requests \ {q} : Excuses(p, q)
      BY <2>3 DEF Excused
    <3>2. pc[p] # "idle"
      BY <2>s, <3>1, NoneAssumption DEF Excuses, Shapes, Shape
    <3>3. op'[p] = op[p]
      BY <3>2, OpsStay
    <3>4. Excused(q)'
      BY <1>3, <2>o, <3>1, <3>3 DEF Excused, Excuses, RunOf
    <3>q. QED BY <2>1, <2>2, <3>4 DEF Seen, RunOf
  <2>4. CASE ~Excused(q)
    <3>0. /\ Effect(q)
          /\ op[q].kind = "update" =>
               \A p \in Requests \ {q} :
                 pc[p] \in Holding /\ RunOf(p) = RunOf(q) => HasUpdate(copy[p].agents, q)
      BY <1>3, <2>4, <2>s DEF Seen
    <3>u. ASSUME NEW p \in Requests \ {q}, pc[p] \in Holding, RunOf(p) = RunOf(q)
          PROVE  op[p].kind = "update" /\ op[q].kind = "update" /\ pc[p] = "read"
      <4>1. p \in later[q] /\ op[p].kind # "store" /\ op[q].kind # "store"
        BY <1>3, <2>4, <2>s, <3>u DEF Seen, Excused, Excuses
      <4>2. op[p].kind = "update" /\ op[q].kind = "update"
        BY <2>s, <3>u, <4>1 DEF Shapes, Shape, TypeOK
      <4>q. QED BY <3>u, <4>2 DEF Shapes, Shape
    <3>1. Effect(q)'
      <4>1. CASE rows'[RunOf(q)] = rows[RunOf(q)]
        BY <2>o, <3>0, <4>1 DEF Effect, RunOf
      <4>2. CASE RunOf(q) = RunOf(x) /\ Written(x, RunOf(q))
        <5>1. pc[x] \in Holding
          BY <4>2 DEF Written, StoreWrite, UpdateWrite, CompleteWrite, Fail, Move
        <5>2. x # q
          BY <1>3, <5>1 DEF Shapes, Shape
        <5>3. op[x].kind = "update" /\ op[q].kind = "update" /\ pc[x] = "read"
          BY <3>u, <4>2, <5>1, <5>2
        <5>4. rows'[RunOf(q)] = Row("processing", Updated(x, copy[x]))
          BY <4>2, <5>3 DEF Written, StoreWrite, CompleteWrite, Fail, Move
        <5>5. copy[x] \in Blobs /\ \A a \in op[x].agents : copy[x].agents[a] # None
          BY <5>3 DEF Shapes, Shape, TypeOK
        <5>6. HasUpdate(copy[x].agents, q)
          BY <3>0, <4>2, <5>1, <5>2, <5>3
        <5>7. op[q].agents \subseteq Present(copy[x].agents)
          BY <5>6 DEF HasUpdate, Present, TypeOK
        <5>8. \A a \in op[q].agents : /\ Updated(x, copy[x]).agents[a] # None
                                      /\ q \in Updated(x, copy[x]).agents[a].updates
          BY <5>5, <5>6, <5>7, UpdatedIs DEF HasUpdate, Present
        <5>9. rows'[RunOf(q)].blob = Updated(x, copy[x])
          BY <5>4 DEF Row
        <5>q. QED BY <2>o, <5>3, <5>8, <5>9 DEF Effect, RunOf
      <4>q. QED BY <1>3, <2>s, <4>1, <4>2, RowWrites
    <3>2. CASE Excused(q)'
      BY <2>1, <2>2, <3>2 DEF Seen, RunOf
    <3>3. CASE ~Excused(q)'
      <4>1. ASSUME op[q].kind = "update", NEW p \in Requests \ {q}, pc'[p] \in Holding, op'[p].run = op'[q].run
            PROVE  HasUpdate(copy[p].agents, q)'
        <5>1. CASE p # x
          <6>1. Kept(p)
            BY <2>k, <5>1
          <6>2. HasUpdate(copy[p].agents, q)
            BY <2>o, <3>0, <4>1, <6>1 DEF Kept, RunOf
          <6>q. QED BY <2>o, <6>1, <6>2 DEF Kept, HasUpdate
        <5>2. CASE p = x /\ pc[x] # "idle"
          <6>1. op'[x] = op[x]
            BY <5>2, OpsStay
          <6>2. pc[x] \in Holding
            BY <1>3, <4>1, <5>2 DEF Step, Store, StoreRead, StoreWrite, StartAgentAdvancement, Update,
                 UpdateRead, UpdateMiss, UpdateWrite, Abandon, Task, Run, Ask, AskFails, CompleteWrite, Fail,
                 Unregister, Move, TypeOK
          <6>3. op[x].kind = "update" /\ pc[x] = "read"
            BY <2>o, <3>u, <4>1, <5>2, <6>1, <6>2 DEF RunOf
          <6>4. pc'[x] \in {"answered", "gone"}
            BY <1>3, <6>3 DEF Step, Store, StoreRead, StoreWrite, StartAgentAdvancement, Update,
                 UpdateRead, UpdateMiss, UpdateWrite, Abandon, Task, Run, Ask, AskFails, CompleteWrite, Fail,
                 Unregister, Move, TypeOK
          <6>q. QED BY <4>1, <5>2, <6>4
        <5>3. CASE p = x /\ pc[x] = "idle"
          <6>1. x \in later[q]
            BY <1>3, <2>s, <5>3 DEF Seen
          <6>2. op'[x].kind # "store"
            BY <1>3, <3>3, <4>1, <5>3, <6>1 DEF Excused, Excuses, RunOf
          <6>3. \/ \E r \in RunIds, agents \in Reports : StoreRead(x, r, agents)
                \/ \E a \in Agents : UpdateRead(x, a) \/ UpdateMiss(x, a)
            BY <1>3, <5>3 DEF Step, Store, StoreWrite, StartAgentAdvancement, Update,
                 UpdateWrite, Abandon, Task, Run, Ask, AskFails, CompleteWrite, Fail, Unregister, Move
          <6>4. PICK a \in Agents : UpdateRead(x, a)
            <7>1. ASSUME NEW r \in RunIds, NEW agents \in Reports, StoreRead(x, r, agents)
                  PROVE  op'[x].kind = "store"
              BY <7>1 DEF StoreRead, TypeOK
            <7>2. ASSUME NEW a \in Agents, UpdateMiss(x, a) PROVE pc'[x] = "answered"
              BY <7>2 DEF UpdateMiss, Move, TypeOK
            <7>q. QED BY <4>1, <5>3, <6>2, <6>3, <7>1, <7>2
          <6>5. PICK owner \in Owners(a) :
                 /\ op' = [op EXCEPT ![x] = [kind |-> "update", run |-> owner, agents |-> {a}]]
                 /\ copy' = [copy EXCEPT ![x] = rows[owner].blob]
            BY <6>4, OwnerIs
          <6>6. op'[x].run = owner /\ copy'[x] = rows[owner].blob
            BY <6>5 DEF TypeOK
          <6>7. owner = RunOf(q)
            BY <2>o, <4>1, <5>3, <6>6 DEF RunOf
          <6>8. HasUpdate(rows[RunOf(q)].blob.agents, q)
            BY <3>0, <4>1 DEF Effect, HasUpdate
          <6>q. QED BY <2>o, <5>3, <6>6, <6>7, <6>8 DEF HasUpdate
        <5>q. QED BY <5>1, <5>2, <5>3
      <4>q. QED BY <2>1, <2>2, <2>o, <3>1, <4>1 DEF Seen, RunOf
    <3>q. QED BY <3>2, <3>3
  <2>q. QED BY <2>3, <2>4
<1>4. ASSUME NEW x \in Requests, Step(x), NEW q \in Requests PROVE Seen(q)'
  <2>1. CASE held'[q] = held[q] /\ later'[q] = later[q]
    BY <1>3, <1>4, <2>1 DEF Seen, Wrote
  <2>2. CASE q = x
    BY <1>2, <1>4, <2>1, <2>2, WritesOnce
  <2>q. QED BY <1>4, <2>1, <2>2, OthersAreKept DEF Kept
<1>5. ASSUME NEW x \in Requests, Step(x) PROVE AllSeen'
  BY <1>4, <1>5 DEF AllSeen
<1>q. QED BY <1>1, <1>5, Steps

-----------------------------------------------------------------------------
\* The empty table satisfies the invariant.
LEMMA InitIInv ==
  ASSUME Init
  PROVE  IInv
<1> USE Labels
<1>1. TypeOK
  BY DEF Init, TypeOK, NoOp
<1>2. \A q \in Requests : op[q].kind = "none" /\ op[q].run = None /\ ~Wrote(q)
  BY DEF Init, NoOp, Wrote
<1>3. Shapes
  BY <1>2 DEF Init, Shapes, Shape, RunOf
<1>4. AllWhole /\ AllReasons /\ WillEnd /\ Handles
  BY DEF Init, AllWhole, AllReasons, WillEnd, Handles
<1>5. AllSeen
  BY <1>2 DEF AllSeen, Seen
<1>q. QED BY <1>1, <1>3, <1>4, <1>5 DEF IInv

\* For any number of requests, runs and agents, every reachable state of the
\* autofix_runs table and its tasks satisfies the invariant.
THEOREM Invariance == Spec => []IInv
<1>1. Init => IInv
  BY InitIInv
<1>2. IInv /\ [Next]_vars => IInv'
  BY TypeStep, ShapesStep, WholeStep, ReasonStep, HandlesStep, EndStep, SeenStep DEF IInv
<1>q. QED BY <1>1, <1>2, PTL DEF Spec

\* "the stored blob must keep describing exactly the agents Sentry launched":
\* a row's agents are those of one report, whatever copies are written back.
THEOREM RowsOfOneReport == Spec => []RowsAreCoherent
<1>1. IInv => RowsAreCoherent
  BY DEF IInv, AllWhole, Whole, RowsAreCoherent, OneWholeReport
<1>q. QED BY <1>1, Invariance, PTL

\* A completed run shows a failure reason only after a task of it has failed.
THEOREM ReasonsAreLeftovers == Spec => []ReasonIsALeftover
<1>1. IInv => ReasonIsALeftover
  BY DEF IInv, AllReasons, Failed, ReasonIsALeftover
<1>q. QED BY <1>1, Invariance, PTL

\* A run that nobody works on is not left in processing, short of a shutdown
\* or an update, which starts no task.
THEOREM RestingRunsHaveEnded == Spec => []RestingRunHasEnded
<1>1. IInv => RestingRunHasEnded
  BY Labels DEF IInv, WillEnd, Live, RestingRunHasEnded
<1>q. QED BY <1>1, Invariance, PTL

\* Only someone who held an older copy, or who came later, undoes an update
\* or a completed task's outcome.
THEOREM LossNeedsARace == Spec => []LostOnlyToARace
<1>1. IInv => LostOnlyToARace
  BY DEF IInv, AllSeen, Seen, Excused, Excuses, LostOnlyToARace
<1>q. QED BY <1>1, Invariance, PTL
=============================================================================
