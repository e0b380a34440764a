---------------------------- MODULE RecordsProofs ----------------------------
(***************************************************************************)
(* For any number of requests, replays, projects and hashes: rows stay     *)
(* coherent and deletions hold.                                            *)
(***************************************************************************)
EXTENDS Records, TLAPS

Stages == {"idle", "asking", "writing", "deleting", "embedding", "embedded"} \cup Ended
Ops == [kind : {"none", "start", "delete", "train", "forget"},
        replays : SUBSET Replays, keys : SUBSET (Projects \X Hashes)]

\* Where a request is fits what it asks for: a start has one replay and a
\* training one key, and a summary is at hand before the second write.
Shapes ==
  /\ pc \in [Requests -> Stages]
  /\ op \in [Requests -> Ops]
  /\ \A q \in Requests :
       /\ pc[q] = "idle" <=> op[q].kind = "none"
       /\ pc[q] \in {"asking", "writing"} => op[q].kind = "start"
       /\ pc[q] \in {"embedding", "embedded"} => op[q].kind = "train"
       /\ pc[q] = "writing" => text[q] # None
       /\ op[q].kind = "start" => \E r \in Replays : op[q].replays = {r}
       /\ op[q].kind = "train" => \E k \in Projects \X Hashes : op[q].keys = {k}

\* A row belongs to the start that wrote it last, which is why processing is
\* always explained by that start.
RowsHaveWriters ==
  \A r \in Replays : replays[r] # None =>
    LET q == replays[r].by
    IN /\ op[q].kind = "start" /\ op[q].replays = {r}
       /\ replays[r].status = "processing" =>
            pc[q] \in {"asking", "writing", "gone"} /\ replays[r].summary = None
       /\ replays[r].status = "completed" =>
            pc[q] = "answered" /\ replays[r].summary # None

\* A grouping record belongs to the training that stored it.
RecordsHaveWriters ==
  \A k \in Projects \X Hashes : records[k] # None =>
    op[records[k]].kind = "train" /\ op[records[k]].keys = {k} /\ pc[records[k]] = "answered"

\* Only requests that write no more are outdated, and none of them shows.
OutdatedAreOver ==
  /\ \A q \in outdated : pc[q] \in Ended
  /\ \A r \in Replays : replays[r] # None => replays[r].by \notin outdated
  /\ \A k \in Projects \X Hashes : records[k] \notin outdated

IInv ==
  /\ TypeOK
  /\ Shapes
  /\ RowsHaveWriters
  /\ RecordsHaveWriters
  /\ OutdatedAreOver

-----------------------------------------------------------------------------
\* What a step may do, one case for each handler step of Next.
LEMMA Steps ==
  ASSUME [Next]_vars
  PROVE  \/ UNCHANGED vars
         \/ \E q \in Requests :
              \/ \E r \in Replays : StartStore(q, r) \/ DeleteOne(q, r)
              \/ \E rs \in SUBSET Replays : Delete(q, rs)
              \/ \E k \in Projects \X Hashes : Train(q, k)
              \/ \E p \in Projects, hashes \in SUBSET Hashes : Forget(q, p, hashes)
              \/ StartAsk(q) \/ StartFinish(q) \/ Embed(q)
              \/ UpsertGroupingRecord(q) \/ Break(q)
BY DEF Next, Proceed, Quiet

\* A request says what it asks for once, when it arrives.
LEMMA OpIsKept ==
  ASSUME Shapes, [Next]_vars, NEW q \in Requests, pc[q] # "idle"
  PROVE  op'[q] = op[q] /\ pc'[q] # "idle"
<1> USE DEF Shapes, Stages, Ended
<1>1. ASSUME NEW p \in Requests, NEW o, NEW to, Arrive(p, o, to)
      PROVE  op'[q] = op[q] /\ pc'[q] # "idle"
  BY <1>1 DEF Arrive
<1>2. ASSUME NEW p \in Requests, NEW to, to # "idle", op' = op, pc' = [pc EXCEPT ![p] = to]
      PROVE  op'[q] = op[q] /\ pc'[q] # "idle"
  BY <1>2
<1>3. ASSUME NEW p \in Requests,
             \/ \E r \in Replays : StartStore(p, r)
             \/ \E rs \in SUBSET Replays : Delete(p, rs)
             \/ \E k \in Projects \X Hashes : Train(p, k)
             \/ \E j \in Projects, hashes \in SUBSET Hashes : Forget(p, j, hashes)
      PROVE  \E o, to : Arrive(p, o, to)
  BY <1>3, Zenon DEF StartStore, Delete, Train, Forget
<1>4. ASSUME NEW p \in Requests, StartAsk(p) \/ StartFinish(p) \/ Embed(p) \/ UpsertGroupingRecord(p) \/ Break(p)
      PROVE  \E to : to # "idle" /\ op' = op /\ pc' = [pc EXCEPT ![p] = to]
  BY <1>4 DEF StartAsk, StartFinish, Embed, UpsertGroupingRecord, Break, Move
<1>5. ASSUME NEW p \in Requests, NEW r \in Replays, DeleteOne(p, r)
      PROVE  \E to : to # "idle" /\ op' = op /\ pc' = [pc EXCEPT ![p] = to]
  BY <1>5 DEF DeleteOne
<1>6. CASE UNCHANGED vars
  BY <1>6 DEF vars
<1>q. QED BY ONLY Steps, [Next]_vars, <1>1, <1>2, <1>3, <1>4, <1>5, <1>6, Zenon

\* Initially nothing is stored and nothing under way.
LEMMA InitIInv == Init => IInv
BY DEF Init, IInv, TypeOK, Shapes, Stages, Ended, Ops, NoOp, Asks, RowsHaveWriters,
       RecordsHaveWriters, OutdatedAreOver

\* Types and shapes are preserved by every step.
LEMMA TypeStep == TypeOK /\ Shapes /\ [Next]_vars => TypeOK'
<1> SUFFICES ASSUME TypeOK, Shapes, [Next]_vars PROVE TypeOK'
  OBVIOUS
<1> USE DEF TypeOK, Summaries
<1>1. ASSUME NEW q \in Requests, NEW r \in Replays, StartStore(q, r) PROVE TypeOK'
  BY <1>1 DEF StartStore, Upserted
<1>2. ASSUME NEW q \in Requests, NEW r \in Replays, DeleteOne(q, r) PROVE TypeOK'
  BY <1>2 DEF DeleteOne, Of
<1>3. ASSUME NEW q \in Requests, NEW rs \in SUBSET Replays, Delete(q, rs) PROVE TypeOK'
  BY <1>3 DEF Delete
<1>4. ASSUME NEW q \in Requests, NEW k \in Projects \X Hashes, Train(q, k) PROVE TypeOK'
  BY <1>4 DEF Train
<1>5. ASSUME NEW q \in Requests, NEW p \in Projects, NEW hashes \in SUBSET Hashes,
             Forget(q, p, hashes)
      PROVE TypeOK'
  BY <1>5 DEF Forget, Of
<1>6. ASSUME NEW q \in Requests, StartAsk(q) PROVE TypeOK'
  BY <1>6 DEF StartAsk
<1>7. ASSUME NEW q \in Requests, StartFinish(q) PROVE TypeOK'
  BY <1>7 DEF StartFinish, Upserted
<1>8. ASSUME NEW q \in Requests, Embed(q) PROVE TypeOK'
  BY <1>8 DEF Embed
<1>9. ASSUME NEW q \in Requests, UpsertGroupingRecord(q) PROVE TypeOK'
  BY <1>9 DEF UpsertGroupingRecord
<1>10. ASSUME NEW q \in Requests, Break(q) PROVE TypeOK'
  BY <1>10 DEF Break
<1>11. CASE UNCHANGED vars
  BY <1>11 DEF vars
<1>q. QED
  BY Steps, <1>1, <1>2, <1>3, <1>4, <1>5, <1>6, <1>7, <1>8, <1>9, <1>10, <1>11

\* Where a request is fits what it asks for.
LEMMA ShapesStep == TypeOK /\ Shapes /\ [Next]_vars => Shapes'
<1> SUFFICES ASSUME TypeOK, Shapes, [Next]_vars PROVE Shapes'
  OBVIOUS
<1> USE NoneAssumption DEF TypeOK, Shapes, Stages, Ended, Ops, Summaries
<1>1. ASSUME NEW q \in Requests, NEW r \in Replays, StartStore(q, r) PROVE Shapes'
  BY <1>1 DEF StartStore, Arrive, Asks
<1>2. ASSUME NEW q \in Requests, NEW r \in Replays, DeleteOne(q, r) PROVE Shapes'
  BY <1>2 DEF DeleteOne
<1>3. ASSUME NEW q \in Requests, NEW rs \in SUBSET Replays, Delete(q, rs) PROVE Shapes'
  BY <1>3 DEF Delete, Arrive, Asks
<1>4. ASSUME NEW q \in Requests, NEW k \in Projects \X Hashes, Train(q, k) PROVE Shapes'
  <2>2. /\ pc[q] = "idle"
        /\ op' = [op EXCEPT ![q] = [kind |-> "train", replays |-> {}, keys |-> {k}]]
        /\ pc' = [pc EXCEPT ![q] = "embedding"]
        /\ text' = text
    BY <1>4 DEF Train, Arrive, Asks
  <2>3. {k} \in SUBSET (Projects \X Hashes)
    OBVIOUS
  <2>q. QED BY <2>2, <2>3
<1>5. ASSUME NEW q \in Requests, NEW p \in Projects, NEW hashes \in SUBSET Hashes,
             Forget(q, p, hashes)
      PROVE Shapes'
  <2>2. /\ pc[q] = "idle"
        /\ op' = [op EXCEPT ![q] = [kind |-> "forget", replays |-> {}, keys |-> {p} \X hashes]]
        /\ pc' = [pc EXCEPT ![q] = "answered"]
        /\ text' = text
    BY <1>5 DEF Forget, Arrive, Asks
  <2>3. {p} \X hashes \in SUBSET (Projects \X Hashes)
    OBVIOUS
  <2>q. QED BY <2>2, <2>3
<1>6. ASSUME NEW q \in Requests, StartAsk(q) PROVE Shapes'
  BY <1>6 DEF StartAsk, Move
<1>7. ASSUME NEW q \in Requests, StartFinish(q) PROVE Shapes'
  BY <1>7 DEF StartFinish, Move
<1>8. ASSUME NEW q \in Requests, Embed(q) PROVE Shapes'
  BY <1>8 DEF Embed, Move
<1>9. ASSUME NEW q \in Requests, UpsertGroupingRecord(q) PROVE Shapes'
  BY <1>9 DEF UpsertGroupingRecord, Move
<1>10. ASSUME NEW q \in Requests, Break(q) PROVE Shapes'
  BY <1>10 DEF Break
<1>11. CASE UNCHANGED vars
  BY <1>11 DEF vars
<1>q. QED
  BY Steps, <1>1, <1>2, <1>3, <1>4, <1>5, <1>6, <1>7, <1>8, <1>9, <1>10, <1>11

\* A row keeps saying who wrote it last: the second write of a start finds
\* the replay its first one named, and a delete leaves no row to explain.
LEMMA RowsStep ==
  TypeOK /\ Shapes /\ RowsHaveWriters /\ [Next]_vars => RowsHaveWriters'
<1> SUFFICES ASSUME TypeOK, Shapes, RowsHaveWriters, [Next]_vars PROVE RowsHaveWriters'
  OBVIOUS
<1> USE NoneAssumption DEF TypeOK, Shapes, Stages, Ended, Ops, Summaries, RowsHaveWriters
<1>1. ASSUME NEW q \in Requests, NEW r \in Replays, StartStore(q, r) PROVE RowsHaveWriters'
  BY <1>1 DEF StartStore, Arrive, Asks, Upserted
<1>2. ASSUME NEW q \in Requests, NEW r \in Replays, DeleteOne(q, r) PROVE RowsHaveWriters'
  BY <1>2 DEF DeleteOne
<1>3. ASSUME NEW q \in Requests, NEW rs \in SUBSET Replays, Delete(q, rs) PROVE RowsHaveWriters'
  BY <1>3 DEF Delete, Arrive, Asks
<1>4. ASSUME NEW q \in Requests, NEW k \in Projects \X Hashes, Train(q, k) PROVE RowsHaveWriters'
  BY <1>4 DEF Train, Arrive, Asks
<1>5. ASSUME NEW q \in Requests, NEW p \in Projects, NEW hashes \in SUBSET Hashes,
             Forget(q, p, hashes)
      PROVE RowsHaveWriters'
  BY <1>5 DEF Forget, Arrive, Asks
<1>6. ASSUME NEW q \in Requests, StartAsk(q) PROVE RowsHaveWriters'
  BY <1>6 DEF StartAsk, Move
<1>7. ASSUME NEW q \in Requests, StartFinish(q) PROVE RowsHaveWriters'
  <2>1. PICK r \in Replays : op[q].replays = {r}
    BY <1>7 DEF StartFinish, Move
  <2>2. ReplayOf(q) = r
    BY <2>1 DEF ReplayOf
  <2>3. replays' = [replays EXCEPT ![r] =
          Upserted(@, [by |-> q, created |-> q, status |-> "completed", summary |-> text[q]])]
    BY <1>7, <2>2 DEF StartFinish
  <2>4. pc[q] = "writing" /\ pc' = [pc EXCEPT ![q] = "answered"] /\ op' = op
    BY <1>7 DEF StartFinish, Move
  <2>5. /\ replays'[r].by = q /\ replays'[r].status = "completed"
        /\ replays'[r].summary # None
    BY <2>3, <2>4 DEF Upserted
  <2>6. ASSUME NEW s \in Replays, s # r, replays[s] # None
        PROVE  replays'[s] = replays[s] /\ replays[s].by # q
    <3>1. replays'[s] = replays[s]
      BY <2>3, <2>6
    <3>2. op[replays[s].by].replays = {s} /\ s \notin op[q].replays
      BY <2>1, <2>6
    <3>q. QED BY <3>1, <3>2
  <2>q. QED BY <2>1, <2>3, <2>4, <2>5, <2>6
<1>8. ASSUME NEW q \in Requests, Embed(q) PROVE RowsHaveWriters'
  BY <1>8 DEF Embed, Move
<1>9. ASSUME NEW q \in Requests, UpsertGroupingRecord(q) PROVE RowsHaveWriters'
  BY <1>9 DEF UpsertGroupingRecord, Move
<1>10. ASSUME NEW q \in Requests, Break(q) PROVE RowsHaveWriters'
  BY <1>10 DEF Break
<1>11. CASE UNCHANGED vars
  BY <1>11 DEF vars
<1>q. QED
  BY Steps, <1>1, <1>2, <1>3, <1>4, <1>5, <1>6, <1>7, <1>8, <1>9, <1>10, <1>11

\* A grouping record is its training's from the upsert to the deletion.
LEMMA RecordsStep ==
  TypeOK /\ Shapes /\ RecordsHaveWriters /\ [Next]_vars => RecordsHaveWriters'
<1> SUFFICES ASSUME TypeOK, Shapes, RecordsHaveWriters, [Next]_vars PROVE RecordsHaveWriters'
  OBVIOUS
<1> USE DEF TypeOK, Shapes, Stages, Ended, Ops, RecordsHaveWriters
<1>a. ASSUME records' = records, \A q \in Requests : pc[q] = "answered" => pc'[q] = "answered"
      PROVE  RecordsHaveWriters'
  BY <1>a, OpIsKept
<1>1. ASSUME NEW q \in Requests, UpsertGroupingRecord(q) PROVE RecordsHaveWriters'
  <2>1. PICK k \in Projects \X Hashes : op[q].keys = {k}
    BY <1>1 DEF UpsertGroupingRecord, Move
  <2>2. KeyOf(q) = k
    BY <2>1 DEF KeyOf
  <2>q. QED BY <1>1, <2>1, <2>2 DEF UpsertGroupingRecord, Move
<1>2. ASSUME NEW q \in Requests, NEW p \in Projects, NEW hashes \in SUBSET Hashes,
             Forget(q, p, hashes)
      PROVE RecordsHaveWriters'
  BY <1>2, OpIsKept DEF Forget, Arrive
<1>3. ASSUME NEW q \in Requests,
             \/ \E r \in Replays : StartStore(q, r)
             \/ \E rs \in SUBSET Replays : Delete(q, rs)
             \/ \E k \in Projects \X Hashes : Train(q, k)
      PROVE  RecordsHaveWriters'
  <2>1. records' = records /\ pc[q] = "idle" /\ \E to : pc' = [pc EXCEPT ![q] = to]
    <3>1. records' = records /\ \E o, to : Arrive(q, o, to)
      BY <1>3, Zenon DEF StartStore, Delete, Train
    <3>q. QED BY ONLY <3>1, Zenon DEF Arrive
  <2>q. QED BY <2>1, <1>a
<1>6. ASSUME NEW q \in Requests, NEW r \in Replays, DeleteOne(q, r) PROVE RecordsHaveWriters'
  BY <1>6, <1>a DEF DeleteOne
<1>4. ASSUME NEW q \in Requests, StartAsk(q) \/ StartFinish(q) \/ Embed(q) \/ Break(q)
      PROVE  RecordsHaveWriters'
  BY <1>4, <1>a DEF StartAsk, StartFinish, Embed, Break, Move
<1>5. CASE UNCHANGED vars
  BY <1>5, <1>a DEF vars
<1>q. QED BY Steps, <1>1, <1>2, <1>3, <1>4, <1>5, <1>6

\* A request is outdated only when it writes no more, and its rows are gone
\* with the same statement.
LEMMA OutdatedStep == IInv /\ [Next]_vars => OutdatedAreOver'
<1> SUFFICES ASSUME IInv, [Next]_vars PROVE OutdatedAreOver'
  OBVIOUS
<1> USE NoneAssumption DEF IInv, TypeOK, Shapes, Stages, Ended, Ops, OutdatedAreOver
<1>a. ASSUME outdated' = outdated, \A q \in Requests : pc[q] \in Ended => pc'[q] = pc[q]
      PROVE  \A q \in outdated' : pc'[q] \in Ended
  BY <1>a
<1>1. ASSUME NEW q \in Requests, NEW r \in Replays, StartStore(q, r) PROVE OutdatedAreOver'
  BY <1>1 DEF StartStore, Arrive, Upserted
<1>2. ASSUME NEW q \in Requests, NEW r \in Replays, DeleteOne(q, r) PROVE OutdatedAreOver'
  <2>1. ASSUME NEW s \in Replays, replays'[s] # None PROVE replays'[s].by \notin outdated'
    <3>1. s # r /\ replays'[s] = replays[s]
      BY <1>2, <2>1 DEF DeleteOne
    <3>2. op[replays[s].by].replays = {s}
      BY <2>1, <3>1 DEF RowsHaveWriters
    <3>3. ReplayOf(replays[s].by) = s
      BY ONLY <3>2 DEF ReplayOf
    <3>q. QED BY <1>2, <2>1, <3>1, <3>3 DEF DeleteOne
  <2>2. ASSUME NEW k \in Projects \X Hashes PROVE records'[k] \notin outdated'
    <3>1. records'[k] = records[k] /\ records[k] \notin Of("start", Ended)
      BY <1>2 DEF DeleteOne, Of, RecordsHaveWriters
    <3>q. QED BY <1>2, <3>1 DEF DeleteOne
  <2>3. \A s \in outdated' : pc'[s] \in Ended
    BY <1>2 DEF DeleteOne, Of
  <2>q. QED BY <2>1, <2>2, <2>3
<1>3. ASSUME NEW q \in Requests, NEW p \in Projects, NEW hashes \in SUBSET Hashes,
             Forget(q, p, hashes)
      PROVE OutdatedAreOver'
  <2>1. ASSUME NEW k \in Projects \X Hashes PROVE records'[k] \notin outdated'
    <3>1. CASE records'[k] = None
      BY <1>3, <3>1 DEF Forget, Of
    <3>2. CASE records'[k] # None
      <4>1. records'[k] = records[k] /\ k \notin Forgotten(p, hashes)
        BY <1>3, <3>2 DEF Forget
      <4>2. KeyOf(records[k]) = k
        BY <3>2, <4>1 DEF RecordsHaveWriters, KeyOf
      <4>3. k \notin {p} \X hashes
        BY <4>1 DEF Forgotten
      <4>q. QED BY <1>3, <4>1, <4>2, <4>3 DEF Forget
    <3>q. QED BY <3>1, <3>2
  <2>2. ASSUME NEW r \in Replays, replays'[r] # None PROVE replays'[r].by \notin outdated'
    <3>1. replays'[r] = replays[r] /\ replays[r].by \notin Of("train", Ended)
      BY <1>3, <2>2 DEF Forget, Of, RowsHaveWriters
    <3>q. QED BY <1>3, <2>2, <3>1 DEF Forget
  <2>3. \A s \in outdated' : pc'[s] \in Ended
    BY <1>3 DEF Forget, Arrive, Of
  <2>q. QED BY <2>1, <2>2, <2>3
<1>4. ASSUME NEW q \in Requests, StartFinish(q) PROVE OutdatedAreOver'
  BY <1>4 DEF StartFinish, Move, Upserted
<1>5. ASSUME NEW q \in Requests, UpsertGroupingRecord(q) PROVE OutdatedAreOver'
  BY <1>5 DEF UpsertGroupingRecord, Move
<1>6. ASSUME NEW q \in Requests,
             \/ \E rs \in SUBSET Replays : Delete(q, rs)
             \/ \E k \in Projects \X Hashes : Train(q, k)
             \/ StartAsk(q) \/ Embed(q) \/ Break(q)
      PROVE  OutdatedAreOver'
  <2>1. UNCHANGED <<replays, records, outdated>>
    BY <1>6, Zenon DEF Delete, Train, StartAsk, Embed, Break
  <2>2. pc[q] \notin Ended /\ \E to : pc' = [pc EXCEPT ![q] = to]
    <3>1. CASE \/ \E rs \in SUBSET Replays : Delete(q, rs)
               \/ \E k \in Projects \X Hashes : Train(q, k)
      <4>1. \E o, to : Arrive(q, o, to)
        BY <3>1, Zenon DEF Delete, Train
      <4>q. QED BY <4>1 DEF Arrive
    <3>2. CASE StartAsk(q) \/ Embed(q) \/ Break(q)
      BY <3>2 DEF StartAsk, Embed, Break, Move
    <3>q. QED BY <1>6, <3>1, <3>2
  <2>3. \A s \in Requests : pc[s] \in Ended => pc'[s] \in Ended
    BY <2>2
  <2>q. QED BY <2>1, <2>3
<1>7. CASE UNCHANGED vars
  BY <1>7 DEF vars
<1>q. QED BY Steps, <1>1, <1>2, <1>3, <1>4, <1>5, <1>6, <1>7

-----------------------------------------------------------------------------
\* IInv is an invariant of the handlers.
THEOREM Invariance == Spec => []IInv
<1>1. IInv /\ [Next]_vars => IInv'
  BY TypeStep, ShapesStep, RowsStep, RecordsStep, OutdatedStep DEF IInv
<1>q. QED BY InitIInv, <1>1, PTL DEF Spec

\* A poller of a replay reads a summary exactly with its completion, and
\* processing only with a start behind it, however starts and deletes of
\* any number of requests overlap.
THEOREM CoherentRows == Spec => []RowsAreCoherent
<1>1. ASSUME IInv PROVE RowsAreCoherent
  <2> USE <1>1 DEF IInv, TypeOK
  <2>1. SummaryComesWithCompletion
    BY DEF SummaryComesWithCompletion, State, RowsHaveWriters
  <2>2. ProcessingIsExplained
    <3>1. SUFFICES ASSUME NEW r \in Replays, State(r).status = "processing"
                   PROVE  \E q \in Of("start", {"asking", "writing", "gone"}) : ReplayOf(q) = r
      BY DEF ProcessingIsExplained
    <3>2. replays[r] # None /\ replays[r].status = "processing"
      BY <3>1 DEF State
    <3>3. replays[r].by \in Of("start", {"asking", "writing", "gone"})
      BY <3>2 DEF RowsHaveWriters, Of
    <3>4. ReplayOf(replays[r].by) = r
      BY <3>2 DEF RowsHaveWriters, ReplayOf
    <3>q. QED BY <3>3, <3>4
  <2>q. QED BY <2>1, <2>2 DEF RowsAreCoherent
<1>q. QED BY Invariance, <1>1, PTL

\* What a deletion found finished does not come back: not the summary of a
\* replay, nor a grouping record in any search.
THEOREM DeletionsHold == Spec => []DeletedStaysDeleted
<1>1. IInv => DeletedStaysDeleted
  BY DEF IInv, OutdatedAreOver, DeletedStaysDeleted, SearchSimilar
<1>q. QED BY Invariance, <1>1, PTL
=============================================================================
