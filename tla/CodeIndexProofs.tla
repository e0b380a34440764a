--------------------------- MODULE CodeIndexProofs ---------------------------
(***************************************************************************)
(* For any number of requests, organizations and repositories: edits of    *)
(* preferences lose nothing but to a race, a repository's index comes from *)
(* one pass over it, is there once it was stored, and stays gone once it   *)
(* was offboarded.                                                         *)
(***************************************************************************)
EXTENDS CodeIndex, TLAPS

Stages == {"idle", "read", "answered", "refused", "gone", "checked", "done"} \cup Tasking
Ops == [kind : {"none", "remove", "handoffs", "index", "offboard"},
        org : Nat, repos : SUBSET Repos, integration : Integrations \cup {0}]

\* Where a request is fits what it asks for; a pass has a result once it has
\* returned, and chunks to store from its fetch to its end.
Shapes ==
  /\ pc \in [Requests -> Stages]
  /\ op \in [Requests -> Ops]
  /\ \A q \in Requests :
       /\ pc[q] = "idle" <=> op[q].kind = "none"
       /\ pc[q] # "idle" => op[q].org \in Orgs
       /\ pc[q] = "read" => op[q].kind \in {"remove", "handoffs"}
       /\ pc[q] \in {"checked", "done"} \cup Tasking => op[q].kind = "index"
       /\ op[q].kind \in {"index", "offboard"} => \E r \in Repos : op[q].repos = {r}
       /\ result[q] # "none" <=> pc[q] \in {"returned", "done"}
       /\ pc[q] \in {"embedded", "emptied"} => staged[q] # {}

\* A row, stored or read by an edit under way, lacks only what acknowledged
\* edits named.
Keeps(row, org) ==
  was[org] # None =>
    /\ row # None
    /\ was[org].repos \ UNION {op[q].repos : q \in Those("remove", org, {"answered"})} \subseteq row.repos
    /\ was[org].integration \in
         {row.integration} \cup UNION {Named(q) : q \in Those("handoffs", org, {"answered"})}
RowsKeep ==
  /\ \A org \in Orgs : Keeps(prefs[org], org)
  /\ \A q \in Requests : pc[q] = "read" => Keeps(copy[q], op[q].org)

\* A handoff request goes on only with a row that holds what it is to clear.
HandoffsClear ==
  \A q \in Requests : pc[q] = "read" /\ op[q].kind = "handoffs" =>
    /\ copy[q] # None /\ copy[q].integration # None
    /\ op[q].integration \in {0, copy[q].integration}

\* A chunk is of a pass over its repository that has stored it.
ChunksHavePasses ==
  \A t \in Targets, p \in Paths : index[t][p] # None =>
    LET q == index[t][p]
    IN op[q].kind = "index" /\ Target(q) = t /\ result[q] = "stored" /\ q \notin gone
GoneHaveReturned == \A q \in gone : result[q] # "none"

\* The tasks that may still write a repository of some name.
Live(n) == {q \in Of("index") : RepoOf(q).name = n /\ pc[q] \in Tasking /\ ~ctxDone[q]}

\* Unless a handle was lost, one task of a name is live; the repository it
\* has emptied stays empty until it stores its own chunks.
OneWriter ==
  \A n \in Names \ orphaned : \A p, q \in Live(n) : p = q
EmptiedStaysEmpty ==
  \A n \in Names \ orphaned : \A q \in Live(n) : pc[q] = "emptied" => index[Target(q)] = Empty
OnePass ==
  \A t \in Targets : t[2].name \notin orphaned =>
    \A a, b \in Paths : index[t][a] # None /\ index[t][b] # None => index[t][a] = index[t][b]

IInv ==
  /\ TypeOK
  /\ Shapes
  /\ RemovalsStick
  /\ RowsKeep
  /\ HandoffsClear
  /\ ChunksHavePasses
  /\ GoneHaveReturned
  /\ OneWriter
  /\ EmptiedStaysEmpty
  /\ OnePass
  /\ StoredIndexSurvives

-----------------------------------------------------------------------------
\* The stages by name.
LEMMA Labels == Tasking = {"fetching", "embedded", "emptied", "returned"}
BY DEF Tasking

\* Resolving a repository's provider leaves its name.
LEMMA ResolvedKeepsName ==
  ASSUME NEW r \in Repos
  PROVE  Resolved(r).name = r.name /\ r.name \in Names
BY ReposAssumption DEF Resolved, Names

\* What an edit saves, field by field.
LEMMA EditedRow ==
  ASSUME NEW row \in Rows \cup {None}, NEW o \in Ops
  PROVE  /\ Edited(row, o) \in Rows
         /\ Edited(row, o).repos = IF row = None THEN {}
                                   ELSE IF o.kind = "handoffs" THEN row.repos ELSE row.repos \ o.repos
         /\ Edited(row, o).integration = IF row = None \/ o.kind = "handoffs" THEN None
                                         ELSE row.integration
<1>1. CASE row = None
  BY <1>1 DEF Edited, Rows
<1>2. CASE row # None
  <2>1. row \in Rows
    BY <1>2
  <2>2. CASE o.kind = "handoffs"
    BY <1>2, <2>1, <2>2 DEF Edited, Rows
  <2>3. CASE o.kind # "handoffs"
    BY <1>2, <2>1, <2>3 DEF Edited, Rows
  <2>q. QED BY <2>2, <2>3
<1>q. QED BY <1>1, <1>2

\* Nothing is indexed and nobody has asked at first.
LEMMA InitIInv == Init => IInv
<1> SUFFICES ASSUME Init PROVE IInv
  OBVIOUS
<1> USE NoneAssumption, OrgsAssumption DEF Init, InitPreferences
<1>1. TypeOK
  BY DEF TypeOK, TypeOKPreferences, Empty
<1>2. Shapes
  BY Labels DEF Shapes, Stages, Ops, NoOp, Asks
<1>3. \A kind, org, stages : kind # "none" => Those(kind, org, stages) = {}
  BY DEF Those, NoOp, Asks
<1>4. RemovalsStick
  BY <1>3 DEF RemovalsStick
<1>5. RowsKeep /\ HandoffsClear
  BY <1>3 DEF RowsKeep, Keeps, HandoffsClear
<1>6. ChunksHavePasses /\ GoneHaveReturned /\ OnePass
  BY DEF ChunksHavePasses, GoneHaveReturned, OnePass, Empty
<1>7. Of("index") = {}
  BY DEF Of, NoOp, Asks
<1>8. OneWriter /\ EmptiedStaysEmpty
  BY <1>7 DEF OneWriter, EmptiedStaysEmpty, Live
<1>9. StoredIndexSurvives
  BY <1>7 DEF StoredIndexSurvives, WasStored, About
<1>q. QED BY <1>1, <1>2, <1>4, <1>5, <1>6, <1>8, <1>9 DEF IInv

IndexStep(q) ==
  \/ \E org \in Orgs, r \in Repos : IndexCheck(q, org, r) \/ Offboard(q, org, r)
  \/ StartIndexTask(q) \/ IndexTask(q)
\* Every step edits preferences, works on the index, is the shutdown, or
\* changes nothing.
LEMMA Steps ==
  ASSUME [Next]_vars
  PROVE  \/ \E q \in Requests : (PreferenceEdit(q) /\ UNCHANGED indexVars) \/ IndexStep(q)
         \/ Signal
         \/ UNCHANGED vars
BY DEF Next, Quiet, IndexStep

\* The repository and the target of requests that keep what they ask for.
LEMMA SameTarget ==
  ASSUME NEW q \in Requests, op'[q] = op[q]
  PROVE  RepoOf(q)' = RepoOf(q) /\ Target(q)' = Target(q)
BY DEF RepoOf, Target

\* A request about the index names one repository and one target.
LEMMA TargetIsKnown ==
  ASSUME Shapes, NEW q \in Requests, op[q].kind \in {"index", "offboard"}
  PROVE  /\ RepoOf(q) \in Repos /\ RepoOf(q).name \in Names /\ Target(q) \in Targets
         /\ Target(q)[2].name = RepoOf(q).name
<1>1. PICK r \in Repos : op[q].repos = {r}
  BY DEF Shapes
<1>2. RepoOf(q) = r
  BY <1>1 DEF RepoOf
<1>3. op[q].org \in Orgs
  BY DEF Shapes
<1>q. QED BY <1>2, <1>3, ResolvedKeepsName DEF Target, Targets, Indexed

\* Types are preserved by every step.
LEMMA TypeStep == TypeOK /\ Shapes /\ [Next]_vars => TypeOK'
<1> SUFFICES ASSUME TypeOK, Shapes, [Next]_vars PROVE TypeOK'
  OBVIOUS
<1>1. ASSUME NEW q \in Requests, PreferenceEdit(q), UNCHANGED indexVars PROVE TypeOK'
  <2> USE DEF TypeOK, TypeOKPreferences
  <2>1. ASSUME NEW org \in Orgs, NEW repos, RemoveRead(q, org, repos) PROVE TypeOK'
    BY <1>1, <2>1 DEF RemoveRead, indexVars
  <2>2. ASSUME NEW org \in Orgs, NEW i, HandoffRead(q, org, i) PROVE TypeOK'
    BY <1>1, <2>2 DEF HandoffRead, indexVars
  <2>3. CASE Save(q)
    <3>1. op[q].org \in Orgs /\ op[q] \in Ops
      BY <2>3 DEF Save, Shapes
    <3>2. Edited(copy[q], op[q]) \in Rows
      BY <3>1, EditedRow
    <3>q. QED BY <1>1, <2>3, <3>1, <3>2 DEF Save, indexVars
  <2>4. CASE SaveFails(q)
    BY <1>1, <2>4 DEF SaveFails, indexVars
  <2>q. QED BY <1>1, <2>1, <2>2, <2>3, <2>4 DEF PreferenceEdit
<1>2. ASSUME NEW q \in Requests, IndexStep(q) PROVE TypeOK'
  <2>1. TypeOKPreferences'
    BY <1>2 DEF IndexStep, IndexCheck, Offboard, StartIndexTask, IndexTask, Fetch, FetchNothing,
      DeleteOld, UpsertCodeChunks, IndexFails, Unregister, prefVars, TypeOK, TypeOKPreferences
  <2> USE DEF TypeOK
  <2>2. ASSUME NEW org \in Orgs, NEW r \in Repos, IndexCheck(q, org, r) PROVE TypeOK'
    BY <2>1, <2>2 DEF IndexCheck, indexVars
  <2>3. ASSUME NEW org \in Orgs, NEW r \in Repos, Offboard(q, org, r) PROVE TypeOK'
    <3>1. Empty \in [Paths -> Requests \cup {None}]
      BY DEF Empty
    <3>2. index' \in [Targets -> [Paths -> Requests \cup {None}]]
      BY <2>3, <3>1 DEF Offboard
    <3>3. gone' \subseteq Requests
      BY <2>3 DEF Offboard, Of
    <3>q. QED BY <2>1, <2>3, <3>2, <3>3 DEF Offboard
  <2>4. CASE StartIndexTask(q)
    BY <2>1, <2>4, TargetIsKnown, Labels DEF StartIndexTask, Move, Shapes
  <2>5. ASSUME NEW paths \in SUBSET Paths, Fetch(q, paths) PROVE TypeOK'
    BY <2>1, <2>5 DEF Fetch
  <2>10. CASE FetchNothing(q)
    BY <2>1, <2>10 DEF FetchNothing, Return
  <2>9. CASE IndexFails(q)
    <3>1. \E how \in {"failed", "cut", "lost"} : Return(q, how)
      BY <2>9 DEF IndexFails
    <3>q. QED BY <2>1, <2>9, <3>1 DEF IndexFails, Return
  <2>6. CASE DeleteOld(q)
    BY <2>1, <2>6 DEF DeleteOld, Remaining, Empty
  <2>7. CASE UpsertCodeChunks(q)
    <3>1. index' \in [Targets -> [Paths -> Requests \cup {None}]]
      BY <2>7 DEF UpsertCodeChunks
    <3>q. QED BY <2>1, <2>7, <3>1 DEF UpsertCodeChunks, Return
  <2>8. CASE Unregister(q)
    BY <2>1, <2>8 DEF Unregister
  <2>q. QED BY <1>2, <2>2, <2>3, <2>4, <2>5, <2>6, <2>7, <2>8, <2>9, <2>10 DEF IndexStep, IndexTask
<1>3. CASE Signal
  BY <1>3 DEF Signal, prefVars, TypeOK, TypeOKPreferences
<1>4. CASE UNCHANGED vars
  BY <1>4 DEF vars, prefVars, indexVars, TypeOK, TypeOKPreferences
<1>q. QED BY Steps, <1>1, <1>2, <1>3, <1>4

\* A request says once what it asks for; requests about the index and about
\* the preferences do not touch each other.
LEMMA OpIsKept ==
  ASSUME Shapes, [Next]_vars, NEW q \in Requests, pc[q] # "idle"
  PROVE  op'[q] = op[q] /\ pc'[q] # "idle"
<1> USE Labels DEF Shapes, Stages
<1>1. ASSUME NEW r \in Requests, PreferenceEdit(r) PROVE op'[q] = op[q] /\ pc'[q] # "idle"
  BY <1>1 DEF PreferenceEdit, RemoveRead, HandoffRead, Save, SaveFails, Arrive
<1>2. ASSUME NEW r \in Requests, IndexStep(r) PROVE op'[q] = op[q] /\ pc'[q] # "idle"
  <2>1. \/ \E o, to : Arrive(r, o, to)
        \/ \E to \in Stages \ {"idle"} : op' = op /\ pc' = [pc EXCEPT ![r] = to]
    <3>1. CASE \E org \in Orgs, s \in Repos : IndexCheck(r, org, s) \/ Offboard(r, org, s)
      BY <3>1, Zenon DEF IndexCheck, Offboard
    <3>2. CASE StartIndexTask(r)
      BY <3>2 DEF StartIndexTask, Move
    <3>3. CASE IndexTask(r)
      BY <3>3 DEF IndexTask, Fetch, FetchNothing, DeleteOld, UpsertCodeChunks, IndexFails,
                  Unregister, Return, Move
    <3>q. QED BY <1>2, <3>1, <3>2, <3>3, Zenon DEF IndexStep
  <2>q. QED BY <2>1 DEF Arrive
<1>q. QED BY Steps, <1>1, <1>2 DEF Signal, vars

\* An edit of preferences leaves the requests about the index alone ...
LEMMA EditsApart ==
  ASSUME Shapes, NEW q \in Requests, PreferenceEdit(q)
  PROVE  \A r \in Requests : (op[r].kind \in {"index", "offboard"} \/ op'[r].kind \in {"index", "offboard"})
           => op'[r] = op[r] /\ pc'[r] = pc[r]
<1> USE DEF Shapes
<1>1. CASE Save(q) \/ SaveFails(q)
  BY <1>1 DEF Save, SaveFails
<1>2. ASSUME NEW kind \in {"remove", "handoffs"}, NEW org, NEW repos, NEW i, NEW to,
             Arrive(q, Asks(kind, org, repos, i), to)
      PROVE  \A r \in Requests : (op[r].kind \in {"index", "offboard"} \/ op'[r].kind \in {"index", "offboard"})
               => op'[r] = op[r] /\ pc'[r] = pc[r]
  BY <1>2 DEF Arrive, Asks
<1>q. QED BY <1>1, <1>2 DEF PreferenceEdit, RemoveRead, HandoffRead

\* ... and a step about the index the preferences and their editors.
LEMMA PassesApart ==
  ASSUME Shapes, NEW q \in Requests, IndexStep(q)
  PROVE  /\ UNCHANGED prefVars
         /\ \A r \in Requests : pc'[r] = "read" => pc[r] = "read"
         /\ \A r \in Requests : (op[r].kind \in {"remove", "handoffs"} \/ op'[r].kind \in {"remove", "handoffs"})
              => op'[r] = op[r] /\ pc'[r] = pc[r]
<1> USE Labels DEF Shapes
<1>1. ASSUME NEW org, NEW r, IndexCheck(q, org, r) \/ Offboard(q, org, r)
      PROVE  /\ UNCHANGED prefVars
             /\ \E kind \in {"index", "offboard"}, to \in {"checked", "answered"} :
                  Arrive(q, Asks(kind, org, {r}, 0), to)
  BY <1>1 DEF IndexCheck, Offboard
<1>2. ASSUME NEW kind \in {"index", "offboard"}, NEW to \in {"checked", "answered"}, NEW org, NEW r,
             Arrive(q, Asks(kind, org, {r}, 0), to)
      PROVE  /\ \A s \in Requests : pc'[s] = "read" => pc[s] = "read"
             /\ \A s \in Requests : (op[s].kind \in {"remove", "handoffs"} \/ op'[s].kind \in {"remove", "handoffs"})
                  => op'[s] = op[s] /\ pc'[s] = pc[s]
  BY <1>2 DEF Arrive, Asks
<1>3. ASSUME StartIndexTask(q) \/ IndexTask(q)
      PROVE  /\ UNCHANGED prefVars /\ op' = op /\ op[q].kind = "index"
             /\ \E to \in Tasking \cup {"done"} : pc' = [pc EXCEPT ![q] = to]
  BY <1>3 DEF StartIndexTask, IndexTask, Fetch, FetchNothing, DeleteOld, UpsertCodeChunks,
              IndexFails, Unregister, Return, Move
<1>4. CASE StartIndexTask(q) \/ IndexTask(q)
  BY <1>3, <1>4
<1>5. ASSUME NEW org \in Orgs, NEW r \in Repos, IndexCheck(q, org, r) \/ Offboard(q, org, r)
      PROVE  /\ UNCHANGED prefVars
             /\ \A s \in Requests : pc'[s] = "read" => pc[s] = "read"
             /\ \A s \in Requests : (op[s].kind \in {"remove", "handoffs"} \/ op'[s].kind \in {"remove", "handoffs"})
                  => op'[s] = op[s] /\ pc'[s] = pc[s]
  <2>1. PICK kind \in {"index", "offboard"}, to \in {"checked", "answered"} :
          Arrive(q, Asks(kind, org, {r}, 0), to)
    BY <1>1, <1>5
  <2>q. QED BY <1>1, <1>5, <1>2, <2>1
<1>q. QED BY <1>4, <1>5 DEF IndexStep

\* Shapes are preserved: an arrival is of a new request ...
LEMMA ArrivalShape ==
  ASSUME TypeOK, Shapes, NEW q \in Requests, NEW kind \in {"remove", "handoffs", "index", "offboard"},
         NEW org \in Orgs, NEW rs \in SUBSET Repos, NEW i \in Integrations \cup {0},
         NEW to \in {"read", "answered", "refused", "checked"},
         to = "read" => kind \in {"remove", "handoffs"},
         to = "checked" => kind = "index",
         kind \in {"index", "offboard"} => \E r \in Repos : rs = {r},
         Arrive(q, Asks(kind, org, rs, i), to), UNCHANGED <<result, staged>>
  PROVE  Shapes'
<1> DEFINE o == Asks(kind, org, rs, i)
<1>1. o \in Ops /\ o.kind = kind /\ o.org = org /\ o.repos = rs
  BY OrgsAssumption DEF Asks, Ops
<1>2. /\ pc[q] = "idle" /\ op' = [op EXCEPT ![q] = o] /\ pc' = [pc EXCEPT ![q] = to]
      /\ result' = result /\ staged' = staged
  BY DEF Arrive
<1> HIDE DEF o
<1>q. QED BY <1>1, <1>2, Labels DEF Shapes, Stages

\* ... and a pass goes on with its result and its chunks.
LEMMA ShapesStep == TypeOK /\ Shapes /\ [Next]_vars => Shapes'
<1> SUFFICES ASSUME TypeOK, Shapes, [Next]_vars PROVE Shapes'
  OBVIOUS
<1>1. ASSUME NEW q \in Requests, PreferenceEdit(q), UNCHANGED indexVars PROVE Shapes'
  <2>0. UNCHANGED <<result, staged>>
    BY <1>1 DEF indexVars
  <2>1. ASSUME NEW org \in Orgs, NEW repos \in SUBSET Repos, RemoveRead(q, org, repos) PROVE Shapes'
    <3>1. PICK to \in {"read", "refused"} : Arrive(q, Asks("remove", org, repos, 0), to)
      BY <2>1 DEF RemoveRead
    <3>q. QED BY <2>0, <3>1, ArrivalShape
  <2>2. ASSUME NEW org \in Orgs, NEW i \in Integrations \cup {0}, HandoffRead(q, org, i) PROVE Shapes'
    <3>1. PICK to \in {"read", "refused", "answered"} : Arrive(q, Asks("handoffs", org, {}, i), to)
      BY <2>2 DEF HandoffRead
    <3>q. QED BY <2>0, <3>1, ArrivalShape
  <2>3. CASE Save(q) \/ SaveFails(q)
    BY <2>0, <2>3, Labels DEF Save, SaveFails, Shapes, Stages
  <2>q. QED BY <1>1, <2>1, <2>2, <2>3 DEF PreferenceEdit
<1>2. ASSUME NEW q \in Requests, IndexStep(q) PROVE Shapes'
  <2>1. ASSUME NEW org \in Orgs, NEW r \in Repos, IndexCheck(q, org, r) PROVE Shapes'
    <3>1. PICK to \in {"answered", "checked"} : Arrive(q, Asks("index", org, {r}, 0), to)
      BY <2>1 DEF IndexCheck
    <3>2. UNCHANGED <<result, staged>>
      BY <2>1 DEF IndexCheck, indexVars
    <3>q. QED BY <3>1, <3>2, ArrivalShape
  <2>2. ASSUME NEW org \in Orgs, NEW r \in Repos, Offboard(q, org, r) PROVE Shapes'
    <3>1. Arrive(q, Asks("offboard", org, {r}, 0), "answered") /\ UNCHANGED <<result, staged>>
      BY <2>2 DEF Offboard
    <3>q. QED BY <3>1, ArrivalShape
  <2> USE Labels DEF TypeOK, Shapes, Stages
  <2>3. CASE StartIndexTask(q)
    BY <2>3 DEF StartIndexTask, Move
  <2>4. ASSUME NEW paths \in (SUBSET Paths) \ {{}}, Fetch(q, paths) PROVE Shapes'
    <3>1. paths # {}
      BY Zenon
    <3>2. /\ pc[q] = "fetching" /\ pc' = [pc EXCEPT ![q] = "embedded"] /\ op' = op
          /\ result' = result /\ staged' = [staged EXCEPT ![q] = paths]
      BY <2>4 DEF Fetch, Move
    <3>q. QED BY <3>1, <3>2
  <2>5. CASE FetchNothing(q) \/ UpsertCodeChunks(q) \/ IndexFails(q)
    <3>1. pc[q] \in {"fetching", "embedded", "emptied"} /\ op' = op
      BY <2>5 DEF FetchNothing, UpsertCodeChunks, IndexFails
    <3>2. PICK how \in {"no chunks", "stored", "failed", "cut", "lost"} : Return(q, how)
      BY <2>5 DEF FetchNothing, UpsertCodeChunks, IndexFails
    <3>3. how # "none" /\ op[q].kind = "index" /\ op[q].org \in Orgs
      BY <3>1
    <3>4. /\ pc' = [pc EXCEPT ![q] = "returned"] /\ result' = [result EXCEPT ![q] = how]
          /\ staged' = [staged EXCEPT ![q] = {}]
      BY ONLY <3>2, Zenon DEF Return
    <3>q. QED BY <3>1, <3>3, <3>4
  <2>6. CASE DeleteOld(q)
    BY <2>6 DEF DeleteOld, Move
  <2>7. CASE Unregister(q)
    BY <2>7 DEF Unregister, Move
  <2> HIDE DEF TypeOK, Shapes
  <2>8. CASE IndexTask(q)
    BY <2>4, <2>5, <2>6, <2>7, <2>8 DEF IndexTask
  <2>q. QED BY <1>2, <2>1, <2>2, <2>3, <2>8 DEF IndexStep
<1>3. CASE Signal
  BY <1>3 DEF Signal, Shapes
<1>4. CASE UNCHANGED vars
  BY <1>4 DEF vars, indexVars, Shapes
<1>q. QED BY Steps, <1>1, <1>2, <1>3, <1>4

-----------------------------------------------------------------------------

Answered(kind, org) == Those(kind, org, {"answered"})
\* A row that keeps what it must still does when further edits are answered.
LEMMA KeepsGrow ==
  ASSUME was' = was, NEW row, NEW org, Keeps(row, org),
         \A r \in Requests : op[r].kind \in {"remove", "handoffs"} /\ pc[r] = "answered"
            => op'[r] = op[r] /\ pc'[r] = "answered"
  PROVE  Keeps(row, org)'
<1>1. Answered("remove", org) \subseteq Answered("remove", org)'
  BY DEF Answered, Those
<1>2. Answered("handoffs", org) \subseteq Answered("handoffs", org)'
  BY DEF Answered, Those
<1>3. \A r \in Answered("remove", org) : op'[r].repos = op[r].repos
  BY DEF Answered, Those
<1>4. \A r \in Answered("handoffs", org) : Named(r)' = Named(r)
  BY DEF Answered, Those, Named
<1>5. UNION {op[q].repos : q \in Answered("remove", org)}
        \subseteq UNION {op'[q].repos : q \in Answered("remove", org)'}
  BY <1>1, <1>3
<1>6. UNION {Named(q) : q \in Answered("handoffs", org)}
        \subseteq UNION {Named(q)' : q \in Answered("handoffs", org)'}
  BY <1>2, <1>4
<1>q. QED BY <1>5, <1>6 DEF Keeps, Answered

\* A handoff request names integrations, never the absence of one.
LEMMA NamedIntegrations ==
  ASSUME Shapes, NEW q \in Requests
  PROVE  Named(q) \subseteq Integrations
BY DEF Shapes, Ops, Named

Edits == RemovalsStick /\ RowsKeep /\ HandoffsClear

\* Steps that store no row and answer no edit but a handoff with nothing to do.
LEMMA EditsFrame ==
  ASSUME TypeOK, Shapes, Edits, UNCHANGED <<prefs, was, raced>>,
         \A r \in Requests : op'[r].kind \in {"remove", "handoffs"} /\ pc'[r] = "answered"
            => \/ op'[r] = op[r] /\ pc[r] = "answered"
               \/ /\ op'[r].kind = "handoffs"
                  /\ prefs[op'[r].org] # None => prefs[op'[r].org].integration \notin Named(r)',
         \A r \in Requests : op[r].kind \in {"remove", "handoffs"} /\ pc[r] = "answered"
            => op'[r] = op[r] /\ pc'[r] = "answered",
         \A r \in Requests : pc'[r] = "read" =>
            \/ pc[r] = "read" /\ op'[r] = op[r] /\ copy'[r] = copy[r]
            \/ /\ op'[r].org \in Orgs /\ copy'[r] = prefs[op'[r].org]
               /\ op'[r].kind = "handoffs" =>
                    /\ copy'[r] # None /\ copy'[r].integration # None
                    /\ op'[r].integration \in {0, copy'[r].integration}
  PROVE  Edits'
<1>1. \A org : Answered("remove", org)' \subseteq Answered("remove", org)
  BY DEF Answered, Those
<1>2. ASSUME NEW org, prefs[org] # None, NEW q \in Answered("handoffs", org)'
      PROVE  \/ q \in Answered("handoffs", org) /\ Named(q)' = Named(q)
             \/ prefs[org].integration \notin Named(q)'
  BY <1>2 DEF Answered, Those, Named
<1>3. RemovalsStick'
  <2>1. ASSUME NEW org \in Orgs \ raced', prefs'[org] # None, NEW q \in Answered("remove", org)'
        PROVE  prefs'[org].repos \cap op'[q].repos = {}
    BY <1>1, <2>1 DEF Edits, RemovalsStick, Answered, Those
  <2>2. ASSUME NEW org \in Orgs \ raced', prefs'[org] # None, NEW q \in Answered("handoffs", org)'
        PROVE  prefs'[org].integration \notin Named(q)'
    BY <1>2, <2>2 DEF Edits, RemovalsStick, Answered
  <2>q. QED BY <2>1, <2>2 DEF RemovalsStick, Answered
<1>4. ASSUME NEW org \in Orgs PROVE Keeps(prefs[org], org)'
  <2>1. \A row : Keeps(row, org) => Keeps(row, org)'
    BY KeepsGrow
  <2>q. QED BY <2>1 DEF Edits, RowsKeep
<1>5. ASSUME NEW q \in Requests, pc'[q] = "read" PROVE Keeps(copy[q], op[q].org)'
  <2>1. \A row, org : Keeps(row, org) => Keeps(row, org)'
    BY KeepsGrow
  <2>2. Keeps(copy'[q], op'[q].org)
    BY <1>5 DEF Edits, RowsKeep
  <2>q. QED BY <2>1, <2>2
<1>6. HandoffsClear'
  BY DEF Edits, HandoffsClear
<1>q. QED BY <1>3, <1>4, <1>5, <1>6 DEF Edits, RowsKeep

\* A save stores the copy without what the edit names: it undoes an answered
\* removal only when the row had changed since, which raced records.
LEMMA SaveStep ==
  ASSUME TypeOK, Shapes, Edits, NEW q \in Requests, Save(q)
  PROVE  Edits'
<1>o. PICK o : o = op[q]
  OBVIOUS
<1>r. PICK row : row = Edited(copy[q], o)
  OBVIOUS
<1>1. /\ pc[q] = "read" /\ pc' = [pc EXCEPT ![q] = "answered"] /\ op' = op /\ was' = was
      /\ prefs' = [prefs EXCEPT ![o.org] = row]
      /\ raced' = IF prefs[o.org] = copy[q] THEN raced ELSE raced \cup {o.org}
      /\ copy' = [copy EXCEPT ![q] = None]
  BY <1>o, <1>r DEF Save
<1>2. o \in Ops /\ o.org \in Orgs /\ o.kind \in {"remove", "handoffs"} /\ copy[q] \in Rows \cup {None}
  BY <1>o, <1>1 DEF Shapes, TypeOK, TypeOKPreferences
<1>3. /\ row \in Rows
      /\ row.repos = IF copy[q] = None THEN {}
                     ELSE IF o.kind = "handoffs" THEN copy[q].repos ELSE copy[q].repos \ o.repos
      /\ row.integration = IF copy[q] = None \/ o.kind = "handoffs" THEN None
                           ELSE copy[q].integration
  BY <1>r, <1>2, EditedRow
<1>4. \A r \in Requests : Named(r)' = Named(r)
  BY <1>1 DEF Named
<1>5. ASSUME NEW kind, NEW org, NEW r \in Answered(kind, org)'
      PROVE  op[r].kind = kind /\ op[r].org = org /\ (r = q \/ r \in Answered(kind, org))
  BY <1>1, <1>5 DEF Answered, Those, Shapes
<1>6. RemovalsStick'
  <2>1. SUFFICES ASSUME NEW org \in Orgs \ raced', prefs'[org] # None
                 PROVE  /\ \A r \in Answered("remove", org)' : prefs'[org].repos \cap op'[r].repos = {}
                        /\ \A r \in Answered("handoffs", org)' : prefs'[org].integration \notin Named(r)'
    BY DEF RemovalsStick, Answered
  <2>2. org \notin raced
    BY <1>1, <2>1
  <2>3. CASE org # o.org
    <3>1. prefs'[org] = prefs[org]
      BY <1>1, <2>3 DEF TypeOK, TypeOKPreferences
    <3>2. \A kind : Answered(kind, org)' \subseteq Answered(kind, org)
      BY <1>o, <1>5, <2>3
    <3>3. /\ \A r \in Answered("remove", org) : prefs[org].repos \cap op[r].repos = {}
          /\ \A r \in Answered("handoffs", org) : prefs[org].integration \notin Named(r)
      BY <2>1, <2>2, <3>1 DEF Edits, RemovalsStick, Answered
    <3>4. \A r \in Answered("handoffs", org) : r \in Requests
      BY DEF Answered, Those
    <3>q. QED BY <1>1, <1>4, <3>1, <3>2, <3>3, <3>4
  <2>4. CASE org = o.org
    <3>1. prefs[org] = copy[q] /\ prefs'[org] = row
      BY <1>1, <2>1, <2>2, <2>4 DEF TypeOK, TypeOKPreferences
    <3>2. ASSUME NEW r \in Answered("remove", org)' PROVE row.repos \cap op[r].repos = {}
      <4>1. CASE r = q
        BY <1>o, <1>3, <1>5, <3>2, <4>1
      <4>2. CASE r \in Answered("remove", org)
        BY <1>3, <2>1, <2>2, <3>1, <4>2 DEF Edits, RemovalsStick, Answered
      <4>q. QED BY <1>5, <3>2, <4>1, <4>2
    <3>3. ASSUME NEW r \in Answered("handoffs", org)' PROVE row.integration \notin Named(r)
      <4>1. r \in Requests /\ None \notin Named(r)
        BY <3>3, NamedIntegrations, NoneAssumption DEF Answered, Those
      <4>2. CASE r = q
        BY <1>o, <1>3, <1>5, <3>3, <4>1, <4>2
      <4>3. CASE r \in Answered("handoffs", org)
        BY <1>3, <2>1, <2>2, <3>1, <4>1, <4>3 DEF Edits, RemovalsStick, Answered
      <4>q. QED BY <1>5, <3>3, <4>2, <4>3
    <3>q. QED BY <1>1, <1>4, <3>1, <3>2, <3>3 DEF Answered, Those
  <2>q. QED BY <2>3, <2>4
<1>7. \A w, org : Keeps(w, org) => Keeps(w, org)'
  BY <1>1, KeepsGrow DEF Shapes
<1>8. Keeps(row, o.org)'
  <2>1. SUFFICES ASSUME was[o.org] # None
                 PROVE  /\ row # None
                        /\ was[o.org].repos \ UNION {op'[r].repos : r \in Answered("remove", o.org)'}
                             \subseteq row.repos
                        /\ was[o.org].integration \in {row.integration}
                             \cup UNION {Named(r)' : r \in Answered("handoffs", o.org)'}
    BY <1>o, <1>1 DEF Keeps, Answered
  <2>2. /\ copy[q] # None
        /\ was[o.org].repos \ UNION {op'[r].repos : r \in Answered("remove", o.org)'}
             \subseteq copy[q].repos
        /\ was[o.org].integration \in {copy[q].integration}
             \cup UNION {Named(r)' : r \in Answered("handoffs", o.org)'}
    <3>1. Keeps(copy[q], o.org)
      BY <1>o, <1>1 DEF Edits, RowsKeep
    <3>2. \A w : Keeps(w, o.org) /\ was[o.org] # None =>
            /\ w # None
            /\ was[o.org].repos \ UNION {op'[r].repos : r \in Answered("remove", o.org)'} \subseteq w.repos
            /\ was[o.org].integration \in {w.integration}
                 \cup UNION {Named(r)' : r \in Answered("handoffs", o.org)'}
      BY <1>o, <1>1, <1>7 DEF Keeps, Answered
    <3>q. QED BY <2>1, <3>1, <3>2
  <2>3. row # None
    BY <1>3, NoneAssumption
  <2>4. was[o.org].repos \ UNION {op'[r].repos : r \in Answered("remove", o.org)'} \subseteq row.repos
    <3>1. o.kind # "handoffs" => q \in Answered("remove", o.org)' /\ op'[q].repos = o.repos
      BY <1>o, <1>1, <1>2 DEF Answered, Those, Shapes
    <3>q. QED BY <1>3, <2>2, <3>1
  <2>5. was[o.org].integration \in {row.integration}
          \cup UNION {Named(r)' : r \in Answered("handoffs", o.org)'}
    <3>1. CASE o.kind = "handoffs"
      <4>1. q \in Answered("handoffs", o.org)'
        BY <1>o, <1>1, <3>1 DEF Answered, Those, Shapes
      <4>2. copy[q].integration \in Integrations /\ o.integration \in {0, copy[q].integration}
        BY <1>o, <1>1, <1>2, <2>2, <3>1 DEF Edits, HandoffsClear, Rows
      <4>3. copy[q].integration \in Named(q)
        BY <1>o, <4>2 DEF Named
      <4>q. QED BY <1>4, <2>2, <4>1, <4>3
    <3>2. CASE o.kind # "handoffs"
      BY <1>3, <2>2, <3>2
    <3>q. QED BY <3>1, <3>2
  <2>q. QED BY <2>3, <2>4, <2>5
<1>9. RowsKeep'
  <2>1. ASSUME NEW org \in Orgs PROVE Keeps(prefs[org], org)'
    <3>1. prefs'[org] = IF org = o.org THEN row ELSE prefs[org]
      BY <1>1 DEF TypeOK, TypeOKPreferences
    <3>2. Keeps(prefs[org], org)
      BY DEF Edits, RowsKeep
    <3>q. QED BY <1>7, <1>8, <3>1, <3>2
  <2>2. ASSUME NEW r \in Requests, pc'[r] = "read" PROVE Keeps(copy[r], op[r].org)'
    <3>1. pc[r] = "read" /\ copy'[r] = copy[r] /\ op'[r] = op[r]
      BY <1>1, <2>2 DEF TypeOK, TypeOKPreferences, Shapes
    <3>2. Keeps(copy[r], op[r].org)
      BY <3>1 DEF Edits, RowsKeep
    <3>q. QED BY <1>7, <3>1, <3>2
  <2>q. QED BY <2>1, <2>2 DEF RowsKeep
<1>10. HandoffsClear'
  BY <1>1 DEF Edits, HandoffsClear, TypeOK, TypeOKPreferences, Shapes
<1>q. QED BY <1>6, <1>9, <1>10 DEF Edits

\* The preferences' invariants through every step.
LEMMA EditsStep == TypeOK /\ Shapes /\ Edits /\ [Next]_vars => Edits'
<1> SUFFICES ASSUME TypeOK, Shapes, Edits, [Next]_vars PROVE Edits'
  OBVIOUS
<1>1. ASSUME NEW q \in Requests, NEW org \in Orgs, NEW repos, RemoveRead(q, org, repos) PROVE Edits'
  <2>1. /\ pc[q] = "idle" /\ op' = [op EXCEPT ![q] = Asks("remove", org, repos, 0)]
        /\ \/ pc' = [pc EXCEPT ![q] = "read"] /\ copy' = [copy EXCEPT ![q] = prefs[org]]
           \/ pc' = [pc EXCEPT ![q] = "refused"] /\ copy' = copy
        /\ UNCHANGED <<prefs, was, raced>>
    BY <1>1 DEF RemoveRead, Arrive
  <2>2. op'[q].kind = "remove" /\ op'[q].org = org
    BY <2>1 DEF Asks, Shapes
  <2>3. CASE pc' = [pc EXCEPT ![q] = "read"] /\ copy' = [copy EXCEPT ![q] = prefs[org]]
    <3>1. /\ \A r \in Requests \ {q} : op'[r] = op[r] /\ pc'[r] = pc[r] /\ copy'[r] = copy[r]
          /\ pc'[q] = "read" /\ copy'[q] = prefs[org]
      BY <2>1, <2>3 DEF Shapes, TypeOK, TypeOKPreferences
    <3>2. \A r \in Requests : pc'[r] = "answered" => op'[r] = op[r] /\ pc[r] = "answered"
      BY ONLY <3>1
    <3>3. \A r \in Requests : pc[r] = "answered" => op'[r] = op[r] /\ pc'[r] = "answered"
      BY ONLY <2>1, <3>1
    <3>4. \A r \in Requests : pc'[r] = "read" =>
            \/ pc[r] = "read" /\ op'[r] = op[r] /\ copy'[r] = copy[r]
            \/ /\ op'[r].org \in Orgs /\ copy'[r] = prefs[op'[r].org]
               /\ op'[r].kind = "handoffs" =>
                    /\ copy'[r] # None /\ copy'[r].integration # None
                    /\ op'[r].integration \in {0, copy'[r].integration}
      BY <2>2, <3>1
    <3>q. QED BY <2>1, <3>2, <3>3, <3>4, EditsFrame
  <2>4. CASE pc' = [pc EXCEPT ![q] = "refused"] /\ copy' = copy
    BY <2>1, <2>2, <2>4, EditsFrame DEF Shapes
  <2>q. QED BY <2>1, <2>3, <2>4
<1>2. ASSUME NEW q \in Requests, NEW org \in Orgs, NEW i \in Integrations \cup {0}, HandoffRead(q, org, i)
      PROVE Edits'
  <2> DEFINE clears == /\ prefs[org] # None
                       /\ prefs[org].integration # None
                       /\ i \in {0, prefs[org].integration}
  <2>1. /\ pc[q] = "idle" /\ op' = [op EXCEPT ![q] = Asks("handoffs", org, {}, i)]
        /\ \/ clears /\ pc' = [pc EXCEPT ![q] = "read"] /\ copy' = [copy EXCEPT ![q] = prefs[org]]
           \/ ~clears /\ pc' = [pc EXCEPT ![q] = "answered"] /\ copy' = copy
           \/ pc' = [pc EXCEPT ![q] = "refused"] /\ copy' = copy
        /\ UNCHANGED <<prefs, was, raced>>
    BY <1>2 DEF HandoffRead, Arrive
  <2>2. op'[q].kind = "handoffs" /\ op'[q].org = org /\ op'[q].integration = i
    BY <2>1 DEF Asks, Shapes
  <2>3. ~clears /\ prefs[org] # None => prefs[org].integration \notin Named(q)'
    BY <2>2, NoneAssumption DEF Named
  <2>4. CASE clears /\ pc' = [pc EXCEPT ![q] = "read"] /\ copy' = [copy EXCEPT ![q] = prefs[org]]
    <3>1. /\ \A r \in Requests \ {q} : op'[r] = op[r] /\ pc'[r] = pc[r] /\ copy'[r] = copy[r]
          /\ pc'[q] = "read" /\ copy'[q] = prefs[org]
      BY <2>1, <2>4 DEF Shapes, TypeOK, TypeOKPreferences
    <3>2. \A r \in Requests : pc'[r] = "answered" => op'[r] = op[r] /\ pc[r] = "answered"
      BY ONLY <3>1
    <3>3. \A r \in Requests : pc[r] = "answered" => op'[r] = op[r] /\ pc'[r] = "answered"
      BY ONLY <2>1, <3>1
    <3>4. \A r \in Requests : pc'[r] = "read" =>
            \/ pc[r] = "read" /\ op'[r] = op[r] /\ copy'[r] = copy[r]
            \/ /\ op'[r].org \in Orgs /\ copy'[r] = prefs[op'[r].org]
               /\ op'[r].kind = "handoffs" =>
                    /\ copy'[r] # None /\ copy'[r].integration # None
                    /\ op'[r].integration \in {0, copy'[r].integration}
      BY <2>2, <2>4, <3>1
    <3>q. QED BY <2>1, <3>2, <3>3, <3>4, EditsFrame
  <2>5. CASE ~clears /\ pc' = [pc EXCEPT ![q] = "answered"] /\ copy' = copy
    BY <2>1, <2>2, <2>3, <2>5, EditsFrame DEF Shapes
  <2>6. CASE pc' = [pc EXCEPT ![q] = "refused"] /\ copy' = copy
    BY <2>1, <2>2, <2>6, EditsFrame DEF Shapes
  <2>q. QED BY <2>1, <2>4, <2>5, <2>6
<1>3. ASSUME NEW q \in Requests, SaveFails(q) PROVE Edits'
  BY <1>3, EditsFrame DEF SaveFails, Shapes, TypeOK, TypeOKPreferences
<1>4. ASSUME NEW q \in Requests, IndexStep(q) PROVE Edits'
  <2>1. /\ UNCHANGED prefVars
        /\ \A r \in Requests : pc'[r] = "read" => pc[r] = "read"
        /\ \A r \in Requests : (op[r].kind \in {"remove", "handoffs"} \/ op'[r].kind \in {"remove", "handoffs"})
              => op'[r] = op[r] /\ pc'[r] = pc[r]
    BY <1>4, PassesApart
  <2>2. \A r \in Requests : pc[r] = "read" => op[r].kind \in {"remove", "handoffs"}
    BY DEF Shapes
  <2>q. QED BY <2>1, <2>2, EditsFrame DEF prefVars
<1>5. CASE Signal
  BY <1>5, EditsFrame DEF Signal, prefVars
<1>6. CASE UNCHANGED vars
  BY <1>6, EditsFrame DEF vars, prefVars
<1>q. QED BY Steps, SaveStep, <1>1, <1>2, <1>3, <1>4, <1>5, <1>6 DEF PreferenceEdit

-----------------------------------------------------------------------------
\* How a step changes what is stored of a repository: it is emptied by a pass
\* or an offboarding, or a pass stores its chunks.
LEMMA IndexMoves ==
  ASSUME TypeOK, Shapes, [Next]_vars, NEW t \in Targets
  PROVE  \/ index'[t] = index[t]
         \/ \E q \in Requests : DeleteOld(q) /\ Target(q) = t /\ index'[t] = Empty
         \/ /\ index'[t] = Empty
            /\ \E q \in Requests : op'[q].kind = "offboard" /\ Target(q)' = t
         \/ \E q \in Requests :
              /\ UpsertCodeChunks(q) /\ Target(q) = t
              /\ index'[t] = [p \in Paths |-> IF p \in staged[q] THEN q ELSE index[t][p]]
<1> USE DEF TypeOK
<1>1. ASSUME NEW q \in Requests, NEW org \in Orgs, NEW r \in Repos, Offboard(q, org, r),
             index'[t] # index[t]
      PROVE  index'[t] = Empty /\ op'[q].kind = "offboard" /\ Target(q)' = t
  <2>1. index'[t] = Empty /\ t = <<org, Resolved(r)>>
    <3>1. index' = [index EXCEPT ![<<org, Resolved(r)>>] = Empty]
      BY <1>1 DEF Offboard
    <3>q. QED BY <1>1, <3>1
  <2>2. op'[q] = Asks("offboard", org, {r}, 0)
    BY <1>1 DEF Offboard, Arrive, Shapes
  <2>3. op'[q].kind = "offboard" /\ op'[q].org = org /\ op'[q].repos = {r}
    BY ONLY <2>2 DEF Asks
  <2>4. RepoOf(q)' = r
    BY <2>3 DEF RepoOf
  <2>q. QED BY <2>1, <2>3, <2>4 DEF Target
<1>2. ASSUME NEW q \in Requests, DeleteOld(q), index'[t] # index[t]
      PROVE  Target(q) = t /\ index'[t] = Empty
  BY <1>2 DEF DeleteOld, Remaining
<1>3. ASSUME NEW q \in Requests, UpsertCodeChunks(q), index'[t] # index[t]
      PROVE  /\ Target(q) = t
             /\ index'[t] = [p \in Paths |-> IF p \in staged[q] THEN q ELSE index[t][p]]
  BY <1>3 DEF UpsertCodeChunks
<1>4. ASSUME NEW q \in Requests, IndexStep(q), index'[t] # index[t]
      PROVE  \/ DeleteOld(q) \/ UpsertCodeChunks(q)
             \/ \E org \in Orgs, r \in Repos : Offboard(q, org, r)
  BY <1>4 DEF IndexStep, IndexCheck, StartIndexTask, IndexTask, Fetch, FetchNothing,
      IndexFails, Unregister, indexVars
<1>5. index'[t] # index[t] => \E q \in Requests : IndexStep(q)
  BY Steps DEF Signal, indexVars, vars
<1>q. QED BY <1>1, <1>2, <1>3, <1>4, <1>5

\* A pass ends once, and a pass between its two statements stores its chunks
\* or ends without.
LEMMA ResultMoves ==
  ASSUME TypeOK, Shapes, [Next]_vars, NEW q \in Requests
  PROVE  /\ \/ result'[q] = result[q]
            \/ result[q] = "none" /\ result'[q] # "none" /\ (result'[q] = "stored" => UpsertCodeChunks(q))
         /\ pc[q] = "emptied" => \/ pc'[q] = "emptied" \/ UpsertCodeChunks(q)
                                 \/ result'[q] \in {"lost", "cut"}
<1> USE Labels DEF TypeOK, Shapes
<1>1. ASSUME NEW r \in Requests, PreferenceEdit(r), UNCHANGED indexVars
      PROVE  result'[q] = result[q] /\ (pc[q] = "emptied" => pc'[q] = "emptied")
  BY <1>1, EditsApart DEF indexVars
<1>2. ASSUME NEW r \in Requests, NEW org \in Orgs, NEW s \in Repos, IndexCheck(r, org, s) \/ Offboard(r, org, s)
      PROVE  result'[q] = result[q] /\ (pc[q] = "emptied" => pc'[q] = "emptied")
  BY <1>2 DEF IndexCheck, Offboard, Arrive, indexVars
<1>3. ASSUME NEW r \in Requests, StartIndexTask(r) \/ Unregister(r) \/ DeleteOld(r) \/ \E paths : Fetch(r, paths)
      PROVE  result'[q] = result[q] /\ (pc[q] = "emptied" => pc'[q] = "emptied")
  BY <1>3 DEF StartIndexTask, Unregister, DeleteOld, Fetch, Move
<1>4. ASSUME NEW r \in Requests, FetchNothing(r) \/ UpsertCodeChunks(r) \/ IndexFails(r), r # q
      PROVE  result'[q] = result[q] /\ pc'[q] = pc[q]
  <2>1. \E how : Return(r, how)
    BY <1>4, Zenon DEF FetchNothing, UpsertCodeChunks, IndexFails
  <2>2. PICK how : pc' = [pc EXCEPT ![r] = "returned"] /\ result' = [result EXCEPT ![r] = how]
    BY ONLY <2>1, Zenon DEF Return
  <2>3. q \in DOMAIN pc /\ q \in DOMAIN result
    OBVIOUS
  <2>q. QED BY ONLY <1>4, <2>2, <2>3
<1>5. ASSUME FetchNothing(q) PROVE result[q] = "none" /\ result'[q] = "no chunks" /\ pc[q] # "emptied"
  BY <1>5 DEF FetchNothing, Return
<1>6. ASSUME IndexFails(q)
      PROVE  /\ result[q] = "none" /\ result'[q] \in {"failed", "lost", "cut"}
             /\ pc[q] = "emptied" => result'[q] \in {"lost", "cut"}
  BY <1>6 DEF IndexFails, Return
<1>7. ASSUME UpsertCodeChunks(q) PROVE result[q] = "none" /\ result'[q] = "stored"
  BY <1>7 DEF UpsertCodeChunks, Return
<1>8. CASE Signal \/ UNCHANGED vars
  BY <1>8 DEF Signal, vars, indexVars
<1> HIDE DEF TypeOK, Shapes
<1>9. ASSUME NEW r \in Requests, IndexTask(r)
      PROVE  \/ Unregister(r) \/ DeleteOld(r) \/ \E paths : Fetch(r, paths)
             \/ FetchNothing(r) \/ UpsertCodeChunks(r) \/ IndexFails(r)
  BY <1>9 DEF IndexTask
<1>q. QED BY Steps, <1>1, <1>2, <1>3, <1>4, <1>5, <1>6, <1>7, <1>8, <1>9 DEF IndexStep

\* A pass is between its statements since its delete.
LEMMA EmptiedMoves ==
  ASSUME Shapes, [Next]_vars, NEW q \in Requests, pc'[q] = "emptied"
  PROVE  pc[q] = "emptied" \/ DeleteOld(q)
<1> USE Labels DEF Shapes
<1>1. ASSUME NEW r \in Requests, PreferenceEdit(r) PROVE pc[q] = "emptied"
  BY <1>1 DEF PreferenceEdit, RemoveRead, HandoffRead, Save, SaveFails, Arrive
<1>2. ASSUME NEW r \in Requests, NEW org \in Orgs, NEW s \in Repos, IndexCheck(r, org, s) \/ Offboard(r, org, s)
      PROVE  pc[q] = "emptied"
  BY <1>2 DEF IndexCheck, Offboard, Arrive
<1>3. ASSUME NEW r \in Requests, StartIndexTask(r) \/ IndexTask(r)
      PROVE  pc[q] = "emptied" \/ DeleteOld(q)
  <2>1. CASE r = q
    BY <1>3, <2>1 DEF StartIndexTask, IndexTask, Fetch, FetchNothing, UpsertCodeChunks,
              IndexFails, Unregister, Return, Move
  <2>2. CASE r # q
    <3>1. \E to \in Tasking \cup {"done"} : pc' = [pc EXCEPT ![r] = to]
      BY <1>3 DEF StartIndexTask, IndexTask, Fetch, FetchNothing, DeleteOld, UpsertCodeChunks,
                  IndexFails, Unregister, Return, Move
    <3>q. QED BY <2>2, <3>1
  <2>q. QED BY <2>1, <2>2
<1>q. QED BY Steps, <1>1, <1>2, <1>3 DEF IndexStep, Signal, vars

\* A pass is counted as gone when its target is emptied after its end.
LEMMA GoneMoves ==
  ASSUME TypeOK, Shapes, [Next]_vars, NEW q \in gone' \ gone
  PROVE  /\ q \in Requests /\ op[q].kind = "index" /\ result[q] # "none"
         /\ index'[Target(q)] = Empty
<1> USE DEF TypeOK
<1>1. ASSUME NEW r \in Requests, NEW org \in Orgs, NEW s \in Repos, Offboard(r, org, s)
      PROVE  /\ q \in Requests /\ op[q].kind = "index" /\ result[q] # "none"
             /\ index'[Target(q)] = Empty
  <2>1. q \in Of("index") /\ Target(q) = <<org, Resolved(s)>> /\ result[q] # "none"
    BY <1>1 DEF Offboard
  <2>2. <<org, Resolved(s)>> \in Targets
    BY DEF Targets, Indexed
  <2>3. index'[<<org, Resolved(s)>>] = Empty
    BY <1>1, <2>2 DEF Offboard
  <2>q. QED BY <2>1, <2>3 DEF Of
<1>2. ASSUME NEW r \in Requests, IndexStep(r), ~\E org \in Orgs, s \in Repos : Offboard(r, org, s)
      PROVE  gone' = gone
  BY <1>2 DEF IndexStep, IndexCheck, StartIndexTask, IndexTask, Fetch, FetchNothing,
      DeleteOld, UpsertCodeChunks, IndexFails, Unregister, indexVars
<1>q. QED BY Steps, <1>1, <1>2 DEF Signal, indexVars, vars

\* A task becomes live by its start only, which cancels the one the manager
\* has a handle of; one that it has none of is recorded.
LEMMA LiveMoves ==
  ASSUME TypeOK, Shapes, [Next]_vars, NEW n \in Names
  PROVE  /\ orphaned \subseteq orphaned'
         /\ \/ Live(n)' \subseteq Live(n)
            \/ \E q \in Requests : StartIndexTask(q) /\ (n \in orphaned' \/ Live(n)' \subseteq {q})
<1> USE Labels
<1>a. ASSUME \A p \in Requests : (op'[p].kind = "index" /\ pc'[p] \in Tasking)
                => (op'[p] = op[p] /\ pc[p] \in Tasking /\ (ctxDone[p] => ctxDone'[p]))
      PROVE  Live(n)' \subseteq Live(n)
  <2>1. ASSUME NEW p \in Live(n)' PROVE p \in Live(n)
    <3>1. p \in Requests /\ op'[p].kind = "index" /\ pc'[p] \in Tasking /\ ~ctxDone'[p] /\ RepoOf(p)'.name = n
      BY <2>1 DEF Live, Of
    <3>2. op'[p] = op[p] /\ pc[p] \in Tasking /\ ~ctxDone[p]
      BY <1>a, <3>1
    <3>3. RepoOf(p).name = n
      BY <3>1, <3>2, SameTarget
    <3>q. QED BY <3>1, <3>2, <3>3 DEF Live, Of
  <2>q. QED BY <2>1
<1>1. ASSUME NEW q \in Requests, PreferenceEdit(q), UNCHANGED indexVars
      PROVE  orphaned' = orphaned /\ Live(n)' \subseteq Live(n)
  BY <1>1, <1>a, EditsApart DEF indexVars, Shapes
<1>2. ASSUME NEW q \in Requests, NEW org \in Orgs, NEW r \in Repos, IndexCheck(q, org, r) \/ Offboard(q, org, r)
      PROVE  orphaned' = orphaned /\ Live(n)' \subseteq Live(n)
  <2>1. /\ orphaned' = orphaned /\ ctxDone' = ctxDone
        /\ \E to \in {"answered", "checked"} : \E o : op' = [op EXCEPT ![q] = o] /\ pc' = [pc EXCEPT ![q] = to]
    BY <1>2 DEF IndexCheck, Offboard, Arrive, indexVars
  <2>2. \A p \in Requests : pc'[p] \in Tasking => op'[p] = op[p] /\ pc[p] = pc'[p]
    BY <2>1 DEF Shapes
  <2>q. QED BY <1>a, <2>1, <2>2
<1>3. ASSUME NEW q \in Requests, IndexTask(q)
      PROVE  orphaned' = orphaned /\ Live(n)' \subseteq Live(n)
  <2>1. /\ orphaned' = orphaned /\ op' = op
        /\ \A p \in Requests : pc'[p] \in Tasking => pc[p] \in Tasking
        /\ \A p \in Requests : ctxDone[p] => ctxDone'[p]
    <3>1. CASE (\E paths : Fetch(q, paths)) \/ DeleteOld(q)
      BY <3>1 DEF Fetch, DeleteOld, Move, Shapes
    <3>2. CASE FetchNothing(q) \/ UpsertCodeChunks(q) \/ IndexFails(q)
      <4>1. orphaned' = orphaned /\ op' = op /\ ctxDone' = ctxDone /\ \E how : Return(q, how)
        BY <3>2, Zenon DEF FetchNothing, UpsertCodeChunks, IndexFails
      <4>2. pc[q] \in Tasking
        BY <3>2 DEF FetchNothing, UpsertCodeChunks, IndexFails
      <4>q. QED BY <4>1, <4>2 DEF Return, Shapes
    <3>3. CASE Unregister(q)
      BY <3>3 DEF Unregister, Move, Shapes, TypeOK
    <3>q. QED BY <1>3, <3>1, <3>2, <3>3, Zenon DEF IndexTask
  <2>q. QED BY <1>a, <2>1
<1>4. ASSUME NEW q \in Requests, StartIndexTask(q)
      PROVE  /\ orphaned \subseteq orphaned'
             /\ \/ Live(n)' \subseteq Live(n)
                \/ n \in orphaned' \/ Live(n)' \subseteq {q}
  <2>1. /\ op' = op /\ pc' = [pc EXCEPT ![q] = "fetching"]
        /\ ctxDone' = [p \in Requests |-> IF p = q THEN root ELSE ctxDone[p] \/ p = handle[RepoOf(q).name]]
        /\ orphaned' = IF Live(RepoOf(q).name) \subseteq {handle[RepoOf(q).name]}
                       THEN orphaned ELSE orphaned \cup {RepoOf(q).name}
    BY <1>4 DEF StartIndexTask, Move, Live
  <2>2. ASSUME NEW p \in Live(n)', p # q
        PROVE  p \in Live(n) /\ p # handle[RepoOf(q).name]
    <3>1. p \in Requests /\ op'[p].kind = "index" /\ pc'[p] \in Tasking /\ ~ctxDone'[p] /\ RepoOf(p)'.name = n
      BY <2>2 DEF Live, Of
    <3>2. op'[p] = op[p] /\ pc[p] \in Tasking /\ ~ctxDone[p] /\ p # handle[RepoOf(q).name]
      BY <2>1, <2>2, <3>1 DEF Shapes
    <3>3. RepoOf(p).name = n
      BY <3>1, <3>2, SameTarget
    <3>q. QED BY <3>1, <3>2, <3>3 DEF Live, Of
  <2>3. CASE n = RepoOf(q).name
    BY <2>1, <2>2, <2>3
  <2>4. CASE n # RepoOf(q).name
    <3>1. q \notin Live(n)'
      BY <2>1, <2>4, SameTarget DEF Live
    <3>q. QED BY <2>1, <2>2, <3>1
  <2>q. QED BY <2>1, <2>3, <2>4
<1>5. CASE Signal
  <2>1. /\ op' = op /\ pc' = pc /\ orphaned' = orphaned
        /\ \A p \in Requests : ctxDone[p] => ctxDone'[p]
    BY <1>5 DEF Signal
  <2>q. QED BY <1>a, <2>1
<1>6. CASE UNCHANGED vars
  BY <1>6, <1>a DEF vars, indexVars
<1>q. QED BY Steps, <1>1, <1>2, <1>3, <1>4, <1>5, <1>6 DEF IndexStep

\* The invariants of the index, in the order in which they rest on each other.
LEMMA ChunksStep ==
  IInv /\ [Next]_vars => ChunksHavePasses' /\ GoneHaveReturned'
<1> SUFFICES ASSUME IInv, [Next]_vars PROVE ChunksHavePasses' /\ GoneHaveReturned'
  OBVIOUS
<1> USE DEF IInv
<1>1. GoneHaveReturned'
  <2>1. ASSUME NEW q \in gone' PROVE result'[q] # "none"
    <3>1. q \in Requests /\ result[q] # "none"
      BY <2>1, GoneMoves DEF GoneHaveReturned, TypeOK
    <3>q. QED BY <3>1, ResultMoves
  <2>q. QED BY <2>1 DEF GoneHaveReturned
<1>2. ASSUME NEW t \in Targets, NEW p \in Paths, index'[t][p] # None
      PROVE  /\ op'[index'[t][p]].kind = "index" /\ Target(index[t][p])' = t
             /\ result'[index'[t][p]] = "stored" /\ index'[t][p] \notin gone'
  <2> PICK q : q = index'[t][p]
    OBVIOUS
  <2>0. q = index'[t][p] /\ q # None
    BY <1>2
  <2>1. CASE q = index[t][p]
    <3>1. q \in Requests /\ op[q].kind = "index" /\ Target(q) = t /\ result[q] = "stored" /\ q \notin gone
      <4>1. index[t] \in [Paths -> Requests \cup {None}]
        BY DEF TypeOK
      <4>2. q \in Requests
        BY <2>0, <2>1, <4>1
      <4>q. QED BY <2>0, <2>1, <4>2 DEF ChunksHavePasses
    <3>2. op'[q] = op[q]
      BY <3>1, OpIsKept DEF Shapes
    <3>3. Target(q)' = t
      BY <3>1, <3>2, SameTarget
    <3>4. result'[q] = "stored"
      BY <3>1, ResultMoves
    <3>5. q \notin gone'
      <4>1. ASSUME q \in gone' PROVE FALSE
        <5>1. index'[t] = Empty
          BY <3>1, <4>1, GoneMoves
        <5>q. QED BY <2>0, <5>1 DEF Empty
      <4>q. QED BY <4>1
    <3>q. QED BY <2>0, <3>1, <3>2, <3>3, <3>4, <3>5
  <2>2. CASE q # index[t][p]
    <3>1. UpsertCodeChunks(q) /\ Target(q) = t /\ q \in Requests
      BY <2>0, <2>2, IndexMoves DEF Empty
    <3>2. op' = op /\ op[q].kind = "index" /\ gone' = gone /\ result[q] = "none" /\ result'[q] = "stored"
      BY <3>1, Labels DEF UpsertCodeChunks, Return, Shapes, TypeOK
    <3>3. q \notin gone' /\ Target(q)' = t
      BY <3>1, <3>2, SameTarget DEF GoneHaveReturned
    <3>q. QED BY <2>0, <3>2, <3>3
  <2>q. QED BY <2>1, <2>2
<1>q. QED BY <1>1, <1>2 DEF ChunksHavePasses

\* One pass at a time writes a target, finds it empty between its delete and
\* its insert, and leaves chunks of itself only.
LEMMA WriterStep ==
  IInv /\ [Next]_vars => OneWriter' /\ EmptiedStaysEmpty' /\ OnePass'
<1> SUFFICES ASSUME IInv, [Next]_vars PROVE OneWriter' /\ EmptiedStaysEmpty' /\ OnePass'
  OBVIOUS
<1> USE DEF IInv
<1>1. OneWriter'
  BY LiveMoves DEF OneWriter
<1>2. ASSUME NEW q \in Requests, UpsertCodeChunks(q)
      PROVE  /\ op[q].kind = "index" /\ RepoOf(q).name \in Names
             /\ q \in Live(RepoOf(q).name) /\ Target(q)[2].name = RepoOf(q).name
             /\ Target(q) \in Targets
             /\ pc[q] = "emptied" /\ pc'[q] = "returned"
  <2>1. op[q].kind = "index" /\ pc[q] = "emptied" /\ pc'[q] = "returned" /\ ~ctxDone[q]
    BY <1>2, Labels DEF UpsertCodeChunks, Return, Shapes
  <2>q. QED BY <2>1, TargetIsKnown, Labels DEF Live, Of
<1>3. EmptiedStaysEmpty'
  <2>1. SUFFICES ASSUME NEW n \in Names, n \notin orphaned', NEW q \in Live(n)', pc'[q] = "emptied"
                 PROVE  index'[Target(q)'] = Empty
    BY DEF EmptiedStaysEmpty
  <2>2. /\ q \in Requests /\ op'[q].kind = "index" /\ pc[q] # "idle" /\ ~StartIndexTask(q)
        /\ pc[q] = "emptied" \/ DeleteOld(q)
    <3>1. q \in Requests /\ op'[q].kind = "index"
      BY <2>1 DEF Live, Of
    <3>2. pc[q] = "emptied" \/ DeleteOld(q)
      BY <2>1, <3>1, EmptiedMoves
    <3>q. QED BY <3>1, <3>2 DEF DeleteOld, StartIndexTask, Move
  <2>3. op'[q] = op[q] /\ Target(q)' = Target(q) /\ RepoOf(q).name = n
    BY <2>1, <2>2, OpIsKept, SameTarget DEF Live
  <2>4. Target(q) \in Targets
    BY <2>2, <2>3, TargetIsKnown
  <2>5. CASE DeleteOld(q)
    BY <2>3, <2>4, <2>5 DEF DeleteOld, Remaining, TypeOK
  <2>6. CASE ~DeleteOld(q)
    <3>1. pc[q] = "emptied"
      BY <2>2, <2>6
    <3>2. q \in Live(n) /\ n \notin orphaned
      BY <2>1, <2>2, <2>3, <3>1, LiveMoves, Labels DEF StartIndexTask, Move, Live, Of
    <3>3. index[Target(q)] = Empty
      BY <3>1, <3>2 DEF EmptiedStaysEmpty
    <3>4. ASSUME NEW r \in Requests, UpsertCodeChunks(r), Target(r) = Target(q) PROVE FALSE
      <4>1. r \in Live(n)
        BY <1>2, <2>2, <2>3, <3>4, TargetIsKnown
      <4>2. r = q
        BY <3>2, <4>1 DEF OneWriter
      <4>q. QED BY <1>2, <2>1, <3>4, <4>2
    <3>q. QED BY <2>3, <2>4, <3>3, <3>4, IndexMoves
  <2>q. QED BY <2>5, <2>6
<1>4. OnePass'
  <2>1. SUFFICES ASSUME NEW t \in Targets, t[2].name \notin orphaned', NEW a \in Paths, NEW b \in Paths,
                        index'[t][a] # None, index'[t][b] # None
                 PROVE  index'[t][a] = index'[t][b]
    BY DEF OnePass
  <2>2. t[2].name \in Names
    BY ResolvedKeepsName DEF Targets, Indexed
  <2>3. t[2].name \notin orphaned
    BY <2>1, <2>2, LiveMoves
  <2>4. ASSUME NEW q \in Requests, UpsertCodeChunks(q), Target(q) = t PROVE index[t] = Empty
    BY <1>2, <2>3, <2>4 DEF EmptiedStaysEmpty
  <2>5. index[t][a] # None /\ index[t][b] # None => index[t][a] = index[t][b]
    BY <2>3 DEF OnePass
  <2>6. CASE index'[t] = index[t]
    BY <2>1, <2>5, <2>6
  <2>7. CASE index'[t] = Empty
    BY <2>1, <2>7 DEF Empty
  <2>8. ASSUME NEW q \in Requests, UpsertCodeChunks(q), Target(q) = t,
               index'[t] = [p \in Paths |-> IF p \in staged[q] THEN q ELSE index[t][p]]
        PROVE  index'[t][a] = index'[t][b]
    BY <2>1, <2>4, <2>8 DEF Empty
  <2>q. QED BY <2>6, <2>7, <2>8, IndexMoves
<1>q. QED BY <1>1, <1>3, <1>4

\* What a pass stored goes only with its delete, an offboarding, or a pass
\* that ended between its statements.
LEMMA SurvivesStep == IInv /\ [Next]_vars => StoredIndexSurvives'
<1> SUFFICES ASSUME IInv, [Next]_vars, NEW t \in Targets,
                    WasStored(t)', About(t, "offboard")' = {},
                    \A q \in About(t, "index")' : pc'[q] # "emptied" /\ result'[q] \notin {"lost", "cut"}
             PROVE  index'[t] # Empty
  BY DEF StoredIndexSurvives
<1> USE DEF IInv
<1>1. ASSUME NEW q \in Requests, UpsertCodeChunks(q), Target(q) = t,
             index'[t] = [p \in Paths |-> IF p \in staged[q] THEN q ELSE index[t][p]]
      PROVE  index'[t] # Empty
  <2>1. staged[q] # {} /\ staged[q] \subseteq Paths
    BY <1>1 DEF UpsertCodeChunks, Shapes, TypeOK
  <2>2. PICK p \in Paths : p \in staged[q]
    BY <2>1
  <2>3. index'[t][p] = q /\ q # None
    BY <1>1, <2>2, NoneAssumption
  <2>q. QED BY <2>3 DEF Empty
<1>2. ASSUME NEW q \in Requests, op[q].kind \in {"index", "offboard"}
      PROVE  op'[q] = op[q] /\ Target(q)' = Target(q)
  BY <1>2, OpIsKept, SameTarget DEF Shapes
<1>3. ASSUME NEW q \in Requests, DeleteOld(q), Target(q) = t PROVE FALSE
  <2>1. op[q].kind = "index" /\ pc'[q] = "emptied"
    BY <1>3, Labels DEF DeleteOld, Move, Shapes
  <2>2. q \in About(t, "index")'
    BY <1>2, <1>3, <2>1 DEF About, Of
  <2>q. QED BY <2>1, <2>2
<1>4. ASSUME NEW q \in Requests, op'[q].kind = "offboard", Target(q)' = t PROVE FALSE
  BY <1>4 DEF About, Of
<1>5. CASE /\ index'[t] = index[t]
           /\ ~\E q \in Requests : UpsertCodeChunks(q) /\ Target(q) = t
  <2>1. About(t, "offboard") = {}
    BY <1>2 DEF About, Of
  <2>2. \A q \in About(t, "index") : q \in About(t, "index")' /\ q \in Requests /\ Target(q) = t
    BY <1>2 DEF About, Of
  <2>3. \A q \in About(t, "index") : pc[q] # "emptied" /\ result[q] \notin {"lost", "cut"}
    BY <1>5, <2>2, ResultMoves
  <2>4. WasStored(t)
    <3>1. PICK q \in About(t, "index")' : result'[q] = "stored"
      BY DEF WasStored
    <3>2. q \in Requests /\ op'[q].kind = "index" /\ Target(q)' = t
      BY DEF About, Of
    <3>3. pc[q] # "idle"
      <4>1. pc'[q] \in {"returned", "done"}
        BY <3>1, <3>2, ShapesStep DEF Shapes
      <4>2. result[q] = "stored" \/ UpsertCodeChunks(q)
        BY <3>1, <3>2, ResultMoves
      <4>q. QED BY <3>2, <4>2 DEF UpsertCodeChunks, Shapes
    <3>4. op'[q] = op[q] /\ Target(q) = t
      BY <3>2, <3>3, OpIsKept, SameTarget
    <3>5. result[q] = "stored"
      BY <1>5, <3>1, <3>2, <3>4, ResultMoves
    <3>q. QED BY <3>2, <3>4, <3>5 DEF WasStored, About, Of
  <2>q. QED BY <1>5, <2>1, <2>3, <2>4 DEF StoredIndexSurvives
<1>6. CASE \E q \in Requests : UpsertCodeChunks(q) /\ Target(q) = t
  <2>1. PICK q \in Requests : UpsertCodeChunks(q) /\ Target(q) = t
    BY <1>6
  <2>2. index'[t] = [p \in Paths |-> IF p \in staged[q] THEN q ELSE index[t][p]]
    BY <2>1 DEF UpsertCodeChunks, TypeOK
  <2>q. QED BY <1>1, <2>1, <2>2
<1>q. QED BY <1>3, <1>4, <1>5, <1>6, IndexMoves

-----------------------------------------------------------------------------
\* IInv is an invariant of the preferences and the index.
THEOREM Invariance == Spec => []IInv
<1>1. IInv /\ [Next]_vars => IInv'
  BY TypeStep, ShapesStep, EditsStep, ChunksStep, WriterStep, SurvivesStep DEF IInv, Edits
<1>q. QED BY InitIInv, <1>1, PTL DEF Spec

\* Edits of one organization's row never remove more than requests named,
\* and what was removed is back only where two edits overlapped.
THEOREM KeptPreferences == Spec => []PreferencesAreKept
<1>1. ASSUME IInv PROVE EditsKeepTheRest
  <2>1. SUFFICES ASSUME NEW org \in Orgs, was[org] # None
                 PROVE  /\ prefs[org] # None
                        /\ was[org].repos \ UNION {op[q].repos : q \in Those("remove", org, {"read", "answered"})}
                             \subseteq prefs[org].repos
                        /\ was[org].integration \in {prefs[org].integration}
                             \cup UNION {Named(q) : q \in Those("handoffs", org, {"read", "answered"})}
    BY DEF EditsKeepTheRest
  <2>2. \A kind : Answered(kind, org) \subseteq Those(kind, org, {"read", "answered"})
    BY DEF Answered, Those
  <2>3. Keeps(prefs[org], org)
    BY <1>1 DEF IInv, RowsKeep
  <2>4. /\ prefs[org] # None
        /\ was[org].repos \ UNION {op[q].repos : q \in Answered("remove", org)} \subseteq prefs[org].repos
        /\ was[org].integration \in {prefs[org].integration}
             \cup UNION {Named(q) : q \in Answered("handoffs", org)}
    BY <2>1, <2>3 DEF Keeps, Answered
  <2>q. QED BY <2>2, <2>4
<1>2. IInv => PreferencesAreKept
  BY <1>1 DEF IInv, PreferencesAreKept
<1>q. QED BY Invariance, <1>2, PTL

\* A search never mixes two passes over a repository, unless a task of its
\* name had lost its handle before another one started.
THEOREM OnePassFound == Spec => []OnePassPerRepository
<1>1. ASSUME IInv PROVE OnePassPerRepository
  <2>1. SUFFICES ASSUME NEW org \in Orgs, NEW c \in SearchCode(org), NEW d \in SearchCode(org),
                        c.repo = d.repo, c.repo.name \notin orphaned
                 PROVE  c.pass = d.pass
    BY DEF OnePassPerRepository
  <2>2. /\ c.path \in Paths /\ d.path \in Paths /\ c.pass # None /\ d.pass # None
        /\ <<org, c.repo>> \in Targets /\ <<org, c.repo>>[2].name \notin orphaned
        /\ index[<<org, c.repo>>][c.path] = c.pass /\ index[<<org, c.repo>>][d.path] = d.pass
    BY <2>1, NoneAssumption DEF SearchCode, Targets
  <2>q. QED BY <1>1, <2>2 DEF IInv, OnePass
<1>q. QED BY Invariance, <1>1, PTL

\* A search never finds what a pass had stored before its repository was
\* offboarded.
THEOREM OffboardedIsGone == Spec => []OffboardedCodeStaysGone
<1>1. ASSUME IInv PROVE OffboardedCodeStaysGone
  <2>1. SUFFICES ASSUME NEW org \in Orgs, NEW c \in SearchCode(org) PROVE c.pass \notin gone
    BY DEF OffboardedCodeStaysGone
  <2>2. /\ c.path \in Paths /\ c.pass # None /\ <<org, c.repo>> \in Targets
        /\ index[<<org, c.repo>>][c.path] = c.pass
    BY <2>1, NoneAssumption DEF SearchCode, Targets
  <2>q. QED BY <1>1, <2>2 DEF IInv, ChunksHavePasses
<1>q. QED BY Invariance, <1>1, PTL

\* A stored index survives passes that fail, find nothing or are superseded.
THEOREM IndexSurvives == Spec => []StoredIndexSurvives
<1>1. IInv => StoredIndexSurvives
  BY DEF IInv
<1>q. QED BY Invariance, <1>1, PTL
=============================================================================
