------------------------------- MODULE Records -------------------------------
(***************************************************************************)
(* Handlers that do all their work inside the request: replay breadcrumb   *)
(* summaries (internal/replay) and grouping records (internal/similarity). *)
(* They call a provider between, or before, their writes, use the          *)
(* request's context throughout and take no lock, so that deletions run    *)
(* beside them.                                                            *)
(*                                                                         *)
(*   start    idle -> asking -> writing -> answered                        *)
(*   delete   idle -> deleting ... -> answered                             *)
(*   train    idle -> embedding -> embedded -> answered                    *)
(*   forget   idle -> answered                                             *)
(*                                                                         *)
(* A request breaks off when its client goes away, a statement fails or    *)
(* the process stops.                                                      *)
(***************************************************************************)
EXTENDS Naturals, FiniteSets

CONSTANTS Requests, Replays, Projects, Hashes, None,
          Fallback      \* the fixed text "Breadcrumbs summarized."

ASSUME NoneAssumption == None \notin Requests \cup {Fallback}

VARIABLES
  replays,       \* the replay_breadcrumb_summaries table
  records,       \* the grouping records: who trained each
  pc, op,        \* where each request is; what it asks for
  text,          \* the summary a start is going to store
  left,          \* what a delete has still to remove
  outdated       \* history: writers whose rows were deleted after their last write

vars == <<replays, records, pc, op, text, left, outdated>>

Asks(kind, rs, ks) == [kind |-> kind, replays |-> rs, keys |-> ks]
NoOp == Asks("none", {}, {})
Summaries == Requests \cup {Fallback}
ReplayOf(q) == CHOOSE r \in op[q].replays : TRUE
KeyOf(q) == CHOOSE k \in op[q].keys : TRUE
Of(kind, stages) == {q \in Requests : op[q].kind = kind /\ pc[q] \in stages}
Ended == {"answered", "gone"}

Init ==
  /\ replays = [r \in Replays |-> None]
  /\ records = [k \in Projects \X Hashes |-> None]
  /\ pc = [q \in Requests |-> "idle"]
  /\ op = [q \in Requests |-> NoOp]
  /\ text = [q \in Requests |-> None]
  /\ left = [q \in Requests |-> {}]
  /\ outdated = {}

Arrive(q, o, to) ==
  /\ pc[q] = "idle"
  /\ op' = [op EXCEPT ![q] = o]
  /\ pc' = [pc EXCEPT ![q] = to]
Move(q, from, to) == pc[q] = from /\ pc' = [pc EXCEPT ![q] = to]

-----------------------------------------------------------------------------
\* Mutant of Upserted: a conflict leaves the stored summary where it is.
UpsertedKeeping(old, new) ==
  IF old = None THEN new
  ELSE [new EXCEPT !.created = old.created,
                   !.summary = IF old.summary = None THEN new.summary ELSE old.summary]
\* UpsertReplayBreadcrumbSummary: a conflict replaces all but created_at.
Upserted(old, new) == IF old = None THEN new ELSE [new EXCEPT !.created = old.created]

\* Start: the row says processing, and holds no summary, before the call.
StartStore(q, r) ==
  /\ Arrive(q, Asks("start", {r}, {}), "asking")
  /\ replays' = [replays EXCEPT ![r] =
       Upserted(@, [by |-> q, created |-> q, status |-> "processing", summary |-> None])]
  /\ UNCHANGED <<records, text, left, outdated>>

\* Mutant of StartAsk: an error of the provider ends the request.
StartAskOrEnd(q) ==
  /\ pc[q] = "asking"
  /\ \/ pc' = [pc EXCEPT ![q] = "writing"] /\ text' = [text EXCEPT ![q] = q]
     \/ pc' = [pc EXCEPT ![q] = "answered"] /\ UNCHANGED text
  /\ UNCHANGED <<replays, records, op, left, outdated>>
\* The provider's summary, or the fixed one when the call fails or its
\* answer holds none.
StartAsk(q) ==
  /\ Move(q, "asking", "writing")
  /\ \E s \in {q, Fallback} : text' = [text EXCEPT ![q] = s]
  /\ UNCHANGED <<replays, records, op, left, outdated>>

StartFinish(q) ==
  /\ Move(q, "writing", "answered")
  /\ replays' = [replays EXCEPT ![ReplayOf(q)] =
       Upserted(@, [by |-> q, created |-> q, status |-> "completed", summary |-> text[q]])]
  /\ text' = [text EXCEPT ![q] = None]
  /\ UNCHANGED <<records, op, left, outdated>>

\* Delete: no ids, nothing to do; otherwise one statement for each id.
Delete(q, rs) ==
  /\ Arrive(q, Asks("delete", rs, {}),
            IF rs = {} THEN "answered" ELSE "deleting")
  /\ left' = [left EXCEPT ![q] = rs]
  /\ UNCHANGED <<replays, records, text, outdated>>

\* Mutant of DeleteOne: the row is only marked, to be summarized anew.
DeleteOneMarks(q, r) ==
  /\ pc[q] = "deleting" /\ r \in left[q]
  /\ replays' = [replays EXCEPT ![r] =
       IF @ = None THEN None ELSE [@ EXCEPT !.status = "processing", !.summary = None]]
  /\ left' = [left EXCEPT ![q] = @ \ {r}]
  /\ pc' = [pc EXCEPT ![q] = IF left[q] = {r} THEN "answered" ELSE "deleting"]
  /\ outdated' = outdated \cup {s \in Of("start", Ended) : ReplayOf(s) = r}
  /\ UNCHANGED <<records, op, text>>
DeleteOne(q, r) ==
  /\ pc[q] = "deleting" /\ r \in left[q]
  /\ replays' = [replays EXCEPT ![r] = None]
  /\ left' = [left EXCEPT ![q] = @ \ {r}]
  /\ pc' = [pc EXCEPT ![q] = IF left[q] = {r} THEN "answered" ELSE "deleting"]
  /\ outdated' = outdated \cup {s \in Of("start", Ended) : ReplayOf(s) = r}
  /\ UNCHANGED <<records, op, text>>

-----------------------------------------------------------------------------
\* Similar in training mode: the stack trace is embedded first ...
Train(q, k) ==
  /\ Arrive(q, Asks("train", {}, {k}), "embedding")
  /\ UNCHANGED <<replays, records, text, left, outdated>>

Embed(q) ==
  /\ Move(q, "embedding", "embedded")
  /\ UNCHANGED <<replays, records, op, text, left, outdated>>

\* ... and UpsertGroupingRecords replaces the record of project and hash.
UpsertGroupingRecord(q) ==
  /\ Move(q, "embedded", "answered")
  /\ records' = [records EXCEPT ![KeyOf(q)] = q]
  /\ UNCHANGED <<replays, op, text, left, outdated>>

\* DeleteHashes: one statement for all hashes; none at all is a success.
Forgotten(p, hashes) == {k \in Projects \X Hashes : k[1] = p /\ k[2] \in hashes}

\* DeleteProject forgets every hash of the project.
Forget(q, p, hashes) ==
  LET keys == Forgotten(p, hashes)
  IN /\ Arrive(q, Asks("forget", {}, {p} \X hashes), "answered")
     /\ records' = [k \in Projects \X Hashes |-> IF k \in keys THEN None ELSE records[k]]
     /\ outdated' = outdated \cup {s \in Of("train", Ended) : KeyOf(s) \in {p} \X hashes}
     /\ UNCHANGED <<replays, text, left>>

-----------------------------------------------------------------------------
Break(q) ==
  /\ pc[q] \in {"asking", "writing", "deleting", "embedding", "embedded"}
  /\ pc' = [pc EXCEPT ![q] = "gone"]
  /\ text' = [text EXCEPT ![q] = None]
  /\ left' = [left EXCEPT ![q] = {}]
  /\ UNCHANGED <<replays, records, op, outdated>>

Quiet == (\A q \in Requests : pc[q] \in Ended) /\ UNCHANGED vars

Proceed(q) ==
  \/ StartAsk(q) \/ StartFinish(q)
  \/ \E r \in Replays : DeleteOne(q, r)
  \/ Embed(q) \/ UpsertGroupingRecord(q)

Next ==
  \/ \E q \in Requests :
       \/ \E r \in Replays : StartStore(q, r)
       \/ \E rs \in SUBSET Replays : Delete(q, rs)
       \/ \E k \in Projects \X Hashes : Train(q, k)
       \/ \E p \in Projects, hashes \in SUBSET Hashes : Forget(q, p, hashes)
       \/ Proceed(q)
       \/ Break(q)
  \/ Quiet

\* A handler that has begun goes on until it answers or breaks off:
\* OUTBOUND_TIMEOUT bounds its provider call.
Spec == Init /\ [][Next]_vars /\ \A q \in Requests : WF_vars(Proceed(q))

-----------------------------------------------------------------------------
TypeOK ==
  /\ replays \in [Replays -> {None} \cup
       [by : Requests, created : Requests, status : {"processing", "completed"},
        summary : Summaries \cup {None}]]
  /\ records \in [Projects \X Hashes -> Requests \cup {None}]
  /\ text \in [Requests -> Summaries \cup {None}]
  /\ left \in [Requests -> SUBSET Replays]
  /\ outdated \subseteq Requests

\* State: what a poller of a replay is told.
State(r) ==
  IF replays[r] = None THEN [status |-> "not_started", summary |-> None]
  ELSE [status |-> replays[r].status, summary |-> replays[r].summary]

\* SearchSimilar: the records a stack trace of some hash is compared with.
SearchSimilar(p, h) == {k \in Projects \X Hashes : k[1] = p /\ k[2] # h /\ records[k] # None}

\* However starts and deletes of one replay overlap, a poller never reads a
\* summary with a replay that is still processing, nor completion without one.
SummaryComesWithCompletion ==
  \A r \in Replays : (State(r).status = "completed") <=> (State(r).summary # None)

\* A replay says processing only while a start of it is under way, or after
\* one was broken off: no order of two starts and a delete leaves it so.
ProcessingIsExplained ==
  \A r \in Replays :
    State(r).status = "processing" =>
      \E q \in Of("start", {"asking", "writing", "gone"}) : ReplayOf(q) = r

\* What pollers read: rows of the right types, a summary exactly when it is
\* completed, and processing only with a start behind it.
RowsAreCoherent == TypeOK /\ SummaryComesWithCompletion /\ ProcessingIsExplained

\* What a delete found finished stays deleted: a replay or a grouping record
\* is back only by a request that was in flight then, or came later.
DeletedStaysDeleted ==
  /\ \A r \in Replays : replays[r] # None => replays[r].by \notin outdated
  /\ \A p \in Projects, h \in Hashes : \A k \in SearchSimilar(p, h) : records[k] \notin outdated

\* A replay does not stay in processing unless a start of it broke off.
ProcessingEnds ==
  \A r \in Replays :
    (State(r).status = "processing")
      ~> (State(r).status # "processing" \/ \E q \in Of("start", {"gone"}) : ReplayOf(q) = r)
=============================================================================
