----------------------------- MODULE Preferences -----------------------------
(***************************************************************************)
(* internal/preferences: one row per organization with the repositories    *)
(* it lists and the integration its work is handed off to.  Every edit     *)
(* reads the row, changes the copy and saves it whole: two statements and  *)
(* no lock.  Requests never add anything; rows that hold something were    *)
(* there before (as the tests seed them).                                  *)
(*                                                                         *)
(*   edit   idle -> read -> answered;  idle -> answered | refused;         *)
(*          read -> gone                                                   *)
(*                                                                         *)
(* Organization 0 is a request without organization_id, integration 0 a    *)
(* request without integration_id.                                         *)
(***************************************************************************)
EXTENDS Naturals, FiniteSets

CONSTANTS Requests, Orgs, Integrations, None,
          Repos      \* records [provider, name]; the name is also the external id

ASSUME OrgsAssumption == Orgs \subseteq Nat /\ Integrations \subseteq Nat \ {0}
ASSUME ReposAssumption == Repos \subseteq [provider : STRING, name : STRING]

VARIABLES
  prefs,        \* the project_preferences table
  pc, op,       \* where each request is; what it asks for
  copy,         \* the row an edit has read
  was,          \* history: the table at the start
  raced         \* history: organizations with a save over a row that had changed

prefVars == <<prefs, copy, was, raced>>

Rows == [repos : SUBSET Repos, integration : Integrations \cup {None}]
Asks(kind, o, rs, i) == [kind |-> kind, org |-> o, repos |-> rs, integration |-> i]
NoOp == Asks("none", 0, {}, 0)
ASSUME NoneAssumption == None \notin Requests \cup Integrations \cup Rows

InitPreferences ==
  /\ prefs \in [Orgs -> Rows \cup {None}]
  /\ 0 \in Orgs => prefs[0] = None
  /\ was = prefs
  /\ pc = [q \in Requests |-> "idle"]
  /\ op = [q \in Requests |-> NoOp]
  /\ copy = [q \in Requests |-> None]
  /\ raced = {}

Arrive(q, o, to) ==
  /\ pc[q] = "idle"
  /\ op' = [op EXCEPT ![q] = o]
  /\ pc' = [pc EXCEPT ![q] = to]

-----------------------------------------------------------------------------
\* RemoveRepository and BulkRemoveRepositories: filter reads the row.
RemoveRead(q, org, repos) ==
  LET o == Asks("remove", org, repos, 0)
  IN /\ IF org = 0
        THEN Arrive(q, o, "refused") /\ UNCHANGED copy
        ELSE Arrive(q, o, "read") /\ copy' = [copy EXCEPT ![q] = prefs[org]]
     /\ UNCHANGED <<prefs, was, raced>>

\* RemoveHandoffsForIntegration reads the row and leaves at once when it
\* holds no integration, or another one than the request names.
HandoffRead(q, org, integration) ==
  LET o == Asks("handoffs", org, {}, integration)
      clears == /\ prefs[org] # None
                /\ prefs[org].integration # None
                /\ integration \in {0, prefs[org].integration}
  IN /\ IF org # 0 /\ clears
        THEN Arrive(q, o, "read") /\ copy' = [copy EXCEPT ![q] = prefs[org]]
        ELSE Arrive(q, o, IF org = 0 THEN "refused" ELSE "answered") /\ UNCHANGED copy
     /\ UNCHANGED <<prefs, was, raced>>

\* Mutant of Edited: filter keeps what it should drop.
EditedKeeps(row, o) ==
  LET kept == IF row = None THEN [repos |-> {}, integration |-> None] ELSE row
  IN IF o.kind = "handoffs" THEN [kept EXCEPT !.integration = None] ELSE kept
\* The row an edit saves; filter creates a row where there was none.
Edited(row, o) ==
  LET kept == IF row = None THEN [repos |-> {}, integration |-> None] ELSE row
  IN IF o.kind = "handoffs"
     THEN [kept EXCEPT !.integration = None]
     ELSE [kept EXCEPT !.repos = @ \ o.repos]

\* SaveProjectPreference: an upsert of the whole row.
Save(q) ==
  /\ pc[q] = "read"
  /\ pc' = [pc EXCEPT ![q] = "answered"]
  /\ prefs' = [prefs EXCEPT ![op[q].org] = Edited(copy[q], op[q])]
  /\ raced' = IF prefs[op[q].org] = copy[q] THEN raced ELSE raced \cup {op[q].org}
  /\ copy' = [copy EXCEPT ![q] = None]
  /\ UNCHANGED <<op, was>>

\* The save fails: the client has gone, or the statement's own error.
SaveFails(q) ==
  /\ pc[q] = "read"
  /\ pc' = [pc EXCEPT ![q] = "gone"]
  /\ copy' = [copy EXCEPT ![q] = None]
  /\ UNCHANGED <<prefs, op, was, raced>>

PreferenceEdit(q) ==
  \/ \E org \in Orgs :
       \/ \E repos \in SUBSET Repos : RemoveRead(q, org, repos)
       \/ \E i \in Integrations \cup {0} : HandoffRead(q, org, i)
  \/ Save(q)
  \/ SaveFails(q)

\* RemovedSet, whatever its name says: the repositories still listed.
RemovedSet(org) == IF org = 0 \/ prefs[org] = None THEN {} ELSE prefs[org].repos

-----------------------------------------------------------------------------
TypeOKPreferences ==
  /\ prefs \in [Orgs -> Rows \cup {None}] /\ was \in [Orgs -> Rows \cup {None}]
  /\ copy \in [Requests -> Rows \cup {None}]
  /\ raced \subseteq Orgs

\* The requests of some kind to an organization that got as far as some stage.
Those(kind, org, stages) ==
  {q \in Requests : op[q].kind = kind /\ op[q].org = org /\ pc[q] \in stages}
\* Integrations a handoff request is about.
Named(q) == IF op[q].integration = 0 THEN Integrations ELSE {op[q].integration}

\* What a removal was acknowledged for stays removed, unless two edits of the
\* organization's row overlapped (the read-modify-write of filter and of
\* RemoveHandoffsForIntegration): a lost update is the only way back.
RemovalsStick ==
  \A org \in Orgs \ raced :
    prefs[org] # None =>
      /\ \A q \in Those("remove", org, {"answered"}) :
           prefs[org].repos \cap op[q].repos = {}
      /\ \A q \in Those("handoffs", org, {"answered"}) :
           prefs[org].integration \notin Named(q)

\* Overlapping edits may undo a removal but never remove more: what no
\* request named is still in the row, and no organization loses its row.
EditsKeepTheRest ==
  \A org \in Orgs :
    was[org] # None =>
      /\ prefs[org] # None
      /\ was[org].repos \ UNION {op[q].repos : q \in Those("remove", org, {"read", "answered"})}
           \subseteq prefs[org].repos
      /\ was[org].integration \in
           {prefs[org].integration} \cup UNION {Named(q) : q \in Those("handoffs", org, {"read", "answered"})}
=============================================================================
