------------------------------ MODULE CodeIndex ------------------------------
(***************************************************************************)
(* internal/codeindex with the handlers around it.  A request to index a   *)
(* repository is checked against the preferences and starts a background   *)
(* task under the key code_index:owner/name, which names neither the       *)
(* organization nor the provider.  The task fetches and embeds the whole   *)
(* repository, then deletes the stored chunks and inserts the new ones:    *)
(* two statements.  Offboarding deletes a repository's chunks.  A request  *)
(* for several repositories is several requests here, one task each.       *)
(*                                                                         *)
(*   index     idle -> checked -> fetching -> embedded -> emptied          *)
(*             -> returned -> done;              or idle -> answered       *)
(*   offboard  idle -> answered                                            *)
(***************************************************************************)
EXTENDS Preferences

CONSTANTS DefaultProvider,   \* the configured git provider's name
          Paths              \* a ref, path and chunk index; what the key of a chunk adds

VARIABLES
  index,                   \* the chunks: the pass that wrote each, by organization and repository
  staged,                  \* the paths a task has chunks of
  handle, ctxDone, root,   \* the run manager, as in Explorer
  result,                  \* how a task's IndexRepo ended
  orphaned,                \* history: keys started without cancelling a live task of theirs
  gone                     \* history: ended passes whose repository an offboarding then deleted

indexVars == <<index, staged, handle, ctxDone, root, result, orphaned, gone>>
vars == <<prefVars, pc, op, indexVars>>

Names == {r.name : r \in Repos}
Tasking == {"fetching", "embedded", "emptied", "returned"}

\* IndexRepo and DeleteRepo: no provider means the configured one.
Resolved(r) == [r EXCEPT !.provider = IF @ = "" THEN DefaultProvider ELSE @]

RepoOf(q) == CHOOSE r \in op[q].repos : TRUE
Target(q) == <<op[q].org, Resolved(RepoOf(q))>>
Indexed == {Resolved(r) : r \in Repos}
Targets == Orgs \X Indexed
Empty == [p \in Paths |-> None]
Of(kind) == {q \in Requests : op[q].kind = kind}

Init ==
  /\ InitPreferences
  /\ index = [t \in Targets |-> Empty]
  /\ staged = [q \in Requests |-> {}]
  /\ handle = [n \in Names |-> None]
  /\ ctxDone = [q \in Requests |-> FALSE]
  /\ root = FALSE
  /\ result = [q \in Requests |-> "none"]
  /\ orphaned = {}
  /\ gone = {}

Move(q, from, to) == pc[q] = from /\ pc' = [pc EXCEPT ![q] = to]

-----------------------------------------------------------------------------
\* explorerIndexOrgRepo skips what RemovedSet holds; when that lookup fails
\* (also because the client has gone) it goes on with an empty set.
IndexCheck(q, org, r) ==
  /\ \E removed \in {RemovedSet(org), {}} :
       Arrive(q, Asks("index", org, {r}, 0),
              IF r \in removed THEN "answered" ELSE "checked")
  /\ UNCHANGED <<prefVars, indexVars>>

\* startIndexTask: Manager.Start cancels the task it finds under the key.
StartIndexTask(q) ==
  LET n == RepoOf(q).name
      live == {p \in Of("index") : RepoOf(p).name = n /\ pc[p] \in Tasking /\ ~ctxDone[p]}
  IN /\ Move(q, "checked", "fetching")
     /\ handle' = [handle EXCEPT ![n] = q]
     /\ ctxDone' = [p \in Requests |-> IF p = q THEN root ELSE ctxDone[p] \/ p = handle[n]]
     /\ orphaned' = IF live \subseteq {handle[n]} THEN orphaned ELSE orphaned \cup {n}
     /\ UNCHANGED <<prefVars, op, index, staged, root, result, gone>>

Return(q, how) ==
  /\ pc' = [pc EXCEPT ![q] = "returned"]
  /\ result' = [result EXCEPT ![q] = how]
  /\ staged' = [staged EXCEPT ![q] = {}]

\* GetDefaultBranch, ReadTree and ReadFile give the files to index, chunkText
\* cuts them and embedChunks has a vector for each; nothing is stored yet.
Fetch(q, paths) ==
  /\ Move(q, "fetching", "embedded") /\ ~ctxDone[q]
  /\ staged' = [staged EXCEPT ![q] = paths]
  /\ UNCHANGED <<prefVars, op, index, handle, ctxDone, root, result, orphaned, gone>>

\* Mutant of FetchNothing: what is stored goes with the last chunk.
FetchNothingClears(q) ==
  /\ pc[q] = "fetching" /\ ~ctxDone[q]
  /\ Return(q, "no chunks")
  /\ index' = [index EXCEPT ![Target(q)] = Empty]
  /\ UNCHANGED <<prefVars, op, handle, ctxDone, root, orphaned, gone>>
\* No file gives a chunk: IndexRepo returns and the stored index stays.
FetchNothing(q) ==
  /\ pc[q] = "fetching" /\ ~ctxDone[q]
  /\ Return(q, "no chunks")
  /\ UNCHANGED <<prefVars, op, index, handle, ctxDone, root, orphaned, gone>>

\* Mutant of Remaining: the chunks are left for the upsert to replace.
RemainingAll(chunks) == chunks
\* DeleteCodeRepo: what is left of a repository's chunks.
Remaining(chunks) == Empty

DeleteOld(q) ==
  /\ Move(q, "embedded", "emptied") /\ ~ctxDone[q]
  /\ index' = [index EXCEPT ![Target(q)] = Remaining(@)]
  /\ UNCHANGED <<prefVars, op, staged, handle, ctxDone, root, result, orphaned, gone>>

\* UpsertCodeChunks: one transaction, rows of the same key are replaced.
UpsertCodeChunks(q) ==
  /\ pc[q] = "emptied" /\ ~ctxDone[q]
  /\ Return(q, "stored")
  /\ index' = [index EXCEPT ![Target(q)] =
       [p \in Paths |-> IF p \in staged[q] THEN q ELSE @[p]]]
  /\ UNCHANGED <<prefVars, op, handle, ctxDone, root, orphaned, gone>>

\* Any of the steps fails, by itself or since its context is cancelled.  The
\* insert also fails on vectors of another length than the table's CHECK
\* allows, and is rolled back.
IndexFails(q) ==
  /\ pc[q] \in Tasking \ {"returned"}
  /\ Return(q, CASE pc[q] # "emptied" -> "failed"
                 [] pc[q] = "emptied" /\ ctxDone[q] -> "cut"
                 [] OTHER -> "lost")
  /\ UNCHANGED <<prefVars, op, index, handle, ctxDone, root, orphaned, gone>>

\* The manager's deferred delete, whoever the handle belongs to by now.
Unregister(q) ==
  /\ Move(q, "returned", "done")
  /\ handle' = [handle EXCEPT ![RepoOf(q).name] = None]
  /\ ctxDone' = [ctxDone EXCEPT ![q] = TRUE]
  /\ UNCHANGED <<prefVars, op, index, staged, root, result, orphaned, gone>>

\* Mutant of Offboard: the provider is not filled in.
OffboardRaw(q, org, r) ==
  /\ Arrive(q, Asks("offboard", org, {r}, 0), "answered")
  /\ \/ UNCHANGED <<index, gone>>
     \/ /\ org # 0
        /\ index' = [t \in Targets |-> IF t = <<org, r>> THEN Empty ELSE index[t]]
        /\ gone' = gone \cup {p \in Of("index") : Target(p) = <<org, Resolved(r)>> /\ result[p] # "none"}
  /\ UNCHANGED <<prefVars, staged, handle, ctxDone, root, result, orphaned>>
\* offboardRepository: the request is acknowledged whatever becomes of
\* DeleteRepo, whose error is only logged.  It refuses organization 0, and the
\* delete may fail, by itself or since the client has gone: the chunks stay.
\* Running tasks are left alone.
Offboard(q, org, r) ==
  /\ Arrive(q, Asks("offboard", org, {r}, 0), "answered")
  /\ \/ UNCHANGED <<index, gone>>
     \/ /\ org # 0
        /\ index' = [index EXCEPT ![<<org, Resolved(r)>>] = Empty]
        /\ gone' = gone \cup {p \in Of("index") : Target(p) = <<org, Resolved(r)>> /\ result[p] # "none"}
  /\ UNCHANGED <<prefVars, staged, handle, ctxDone, root, result, orphaned>>

\* Shutdown cancels every task.
Signal ==
  /\ ~root
  /\ root' = TRUE
  /\ ctxDone' = [q \in Requests |-> ctxDone[q] \/ pc[q] \in Tasking]
  /\ UNCHANGED <<prefVars, pc, op, index, staged, handle, result, orphaned, gone>>

Quiet ==
  /\ \A q \in Requests : pc[q] \in {"idle", "answered", "refused", "gone", "done"}
  /\ UNCHANGED vars

IndexTask(q) ==
  \/ \E paths \in (SUBSET Paths) \ {{}} : Fetch(q, paths)
  \/ FetchNothing(q) \/ DeleteOld(q) \/ UpsertCodeChunks(q)
  \/ IndexFails(q) \/ Unregister(q)

Next ==
  \/ \E q \in Requests :
       \/ PreferenceEdit(q) /\ UNCHANGED indexVars
       \/ \E org \in Orgs, r \in Repos : IndexCheck(q, org, r) \/ Offboard(q, org, r)
       \/ StartIndexTask(q)
       \/ IndexTask(q)
  \/ Signal
  \/ Quiet

Spec == Init /\ [][Next]_vars

-----------------------------------------------------------------------------
TypeOK ==
  /\ TypeOKPreferences
  /\ index \in [Targets -> [Paths -> Requests \cup {None}]]
  /\ staged \in [Requests -> SUBSET Paths]
  /\ handle \in [Names -> Requests \cup {None}]
  /\ ctxDone \in [Requests -> BOOLEAN] /\ root \in BOOLEAN
  /\ result \in [Requests -> {"none", "stored", "no chunks", "failed", "cut", "lost"}]
  /\ orphaned \subseteq Names /\ gone \subseteq Requests

\* Preferences through concurrent edits: removals hold unless edits of one
\* row overlapped, and nothing is removed that no request named.
PreferencesAreKept == TypeOK /\ RemovalsStick /\ EditsKeepTheRest

\* SearchCode: what a search of one organization can return.
SearchCode(org) ==
  {c \in [repo : Indexed, path : Paths, pass : Requests] :
     index[<<org, c.repo>>][c.path] = c.pass}

\* Two searched chunks of a repository come from the same pass over it: a
\* cancelled or racing pass leaves no mixture of old and new files.  The
\* exception is a key whose live task had lost its handle to the deferred
\* delete of an earlier one, so that a third task ran beside it.
OnePassPerRepository ==
  \A org \in Orgs :
    \A c, d \in SearchCode(org) :
      c.repo = d.repo => c.pass = d.pass \/ c.repo.name \in orphaned

\* A chunk that a search finds was not deleted before: once an offboarding has
\* deleted a repository, under the provider it was indexed under, what the
\* passes that had ended by then stored is not found again, whatever the
\* tasks in flight store later.  (An acknowledged offboarding whose delete
\* failed has deleted nothing, and does not touch a pass under way.)
OffboardedCodeStaysGone ==
  \A org \in Orgs : \A c \in SearchCode(org) : c.pass \notin gone

\* The index requests and offboardings of one organization's repository.
About(t, kind) == {q \in Of(kind) : Target(q) = t}
WasStored(t) == \E q \in About(t, "index") : result[q] = "stored"

\* Once a pass has stored a repository, later passes that fail to fetch or
\* embed it, find nothing to index or are superseded leave it searchable.
\* Only offboarding and a pass that is between its delete and its insert, or
\* ended there, leave it without chunks.
StoredIndexSurvives ==
  \A t \in Targets :
    /\ WasStored(t) /\ About(t, "offboard") = {}
    /\ \A q \in About(t, "index") : pc[q] # "emptied" /\ result[q] \notin {"lost", "cut"}
    => index[t] # Empty

\* preferences/service.go: RemovedSet is consulted "so a repository that was
\* removed from Seer is not indexed again".
RemovedStaysOut ==
  [][\A q \in Requests :
       pc[q] = "idle" /\ pc'[q] = "checked" =>
         \A p \in Those("remove", op'[q].org, {"answered"}) : op'[q].repos \cap op[p].repos = {}]_vars
=============================================================================
