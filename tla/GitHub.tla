------------------------------- MODULE GitHub -------------------------------
(***************************************************************************)
(* The writing half of internal/git/github.go: CreateBranch and            *)
(* CreateCommit, each a chain of REST calls to a host that others write to *)
(* as well.  A call that fails ends the chain with an error; a call may    *)
(* take effect at the host although its answer is lost (timeout, broken    *)
(* connection, cancelled context), which the client reports as an error.   *)
(*                                                                         *)
(*   branch   idle -> based -> created | failed                            *)
(*   commit   idle -> based -> built -> created | failed                   *)
(*                                                                         *)
(* The host (branches, commits, trees) is external: modelled by what the   *)
(* client relies on.  A commit is named after the request that makes it    *)
(* and carries its ancestors and, for every path, the commit that wrote it.*)
(***************************************************************************)
EXTENDS Naturals, FiniteSets

CONSTANTS Requests, Branches, Main, Paths, Root, None

ASSUME MainAssumption == Main \in Branches
ASSUME RootAssumption == Root \notin Requests /\ None \notin Requests \cup {Root}

VARIABLES
  heads,      \* host: the commit each branch points to
  commits,    \* host: the commits by name
  pc, op,     \* where each request is; what was asked of it
  base,       \* the commit a request read as its branch's head
  lost        \* history: requests whose last call took effect without an answer

vars == <<heads, commits, pc, op, base, lost>>

Commits == Requests \cup {Root}
Objects == [history : SUBSET Commits, files : [Paths -> Commits]]
ASSUME NoneAssumption == None \notin Objects

NoOp == [kind |-> "none", branch |-> None, from |-> None, paths |-> {}]
\* A branch contains a commit: it points to it or to a descendant of it.
Contains(b, c) == heads[b] # None /\ (heads[b] = c \/ c \in commits[heads[b]].history)

Init ==
  /\ heads = [b \in Branches |-> IF b = Main THEN Root ELSE None]
  /\ commits = [c \in Commits |->
       IF c = Root THEN [history |-> {}, files |-> [p \in Paths |-> Root]] ELSE None]
  /\ pc = [q \in Requests |-> "idle"]
  /\ op = [q \in Requests |-> NoOp]
  /\ base = [q \in Requests |-> None]
  /\ lost = {}

\* GET git/ref/heads/<branch>: a missing branch is ErrNotFound.
ReadRef(q, o) ==
  /\ pc[q] = "idle"
  /\ op' = [op EXCEPT ![q] = o]
  /\ base' = [base EXCEPT ![q] = heads[o.from]]
  /\ pc' = [pc EXCEPT ![q] = IF heads[o.from] = None THEN "failed" ELSE "based"]
  /\ UNCHANGED <<heads, commits, lost>>

\* How a writing call ends: answered, or in effect without its answer.
Answered(q) ==
  \/ pc' = [pc EXCEPT ![q] = "created"] /\ UNCHANGED lost
  \/ pc' = [pc EXCEPT ![q] = "failed"] /\ lost' = lost \cup {q}

\* POST git/refs: the host refuses a branch that exists.
CreateBranch(q) ==
  /\ op[q].kind = "branch" /\ pc[q] = "based"
  /\ IF heads[op[q].branch] = None
     THEN heads' = [heads EXCEPT ![op[q].branch] = base[q]] /\ Answered(q)
     ELSE pc' = [pc EXCEPT ![q] = "failed"] /\ UNCHANGED <<heads, lost>>
  /\ UNCHANGED <<commits, op, base>>

\* Mutant of NewFiles: base_tree is that of the main branch.
NewFilesOnMain(q) ==
  [p \in Paths |-> IF p \in op[q].paths THEN q ELSE commits[heads[Main]].files[p]]
\* POST git/trees with base_tree: the files of the commit read, but the
\* changed ones.
NewFiles(q) == [p \in Paths |-> IF p \in op[q].paths THEN q ELSE commits[base[q]].files[p]]

\* The commit read, a blob for each file, the tree, and POST git/commits:
\* objects no branch knows of yet.
BuildCommit(q) ==
  /\ op[q].kind = "commit" /\ pc[q] = "based"
  /\ pc' = [pc EXCEPT ![q] = "built"]
  /\ commits' = [commits EXCEPT ![q] =
       [history |-> commits[base[q]].history \cup {base[q]}, files |-> NewFiles(q)]]
  /\ UNCHANGED <<heads, op, base, lost>>

\* Mutant of FastForward: the update is forced.
Forced(b, c) == heads[b] # None
\* PATCH git/refs with force false: the host wants the branch's head among
\* the commit's ancestors.
FastForward(b, c) == heads[b] # None /\ heads[b] \in commits[c].history

\* Mutant of UpdateRef: the host's success is taken for an error.
UpdateRefStrict(q) ==
  /\ pc[q] = "built"
  /\ heads' = IF FastForward(op[q].branch, q) THEN [heads EXCEPT ![op[q].branch] = q] ELSE heads
  /\ pc' = [pc EXCEPT ![q] = "failed"]
  /\ UNCHANGED <<commits, op, base, lost>>
UpdateRef(q) ==
  /\ pc[q] = "built"
  /\ IF FastForward(op[q].branch, q)
     THEN heads' = [heads EXCEPT ![op[q].branch] = q] /\ Answered(q)
     ELSE pc' = [pc EXCEPT ![q] = "failed"] /\ UNCHANGED <<heads, lost>>
  /\ UNCHANGED <<commits, op, base>>

\* A call fails before it has had an effect that matters.
CallFails(q) ==
  /\ pc[q] \in {"based", "built"}
  /\ pc' = [pc EXCEPT ![q] = "failed"]
  /\ UNCHANGED <<heads, commits, op, base, lost>>

\* Somebody deletes a branch, for instance after a merge.
DeleteBranch(b) ==
  /\ b # Main /\ heads[b] # None
  /\ heads' = [heads EXCEPT ![b] = None]
  /\ UNCHANGED <<commits, pc, op, base, lost>>

Quiet == (\A q \in Requests : pc[q] \in {"created", "failed"}) /\ UNCHANGED vars

Next ==
  \/ \E q \in Requests :
       \/ \E b \in Branches, from \in Branches :
            ReadRef(q, [kind |-> "branch", branch |-> b, from |-> from, paths |-> {}])
       \/ \E b \in Branches, paths \in SUBSET Paths :
            ReadRef(q, [kind |-> "commit", branch |-> b, from |-> b, paths |-> paths])
       \/ CreateBranch(q) \/ BuildCommit(q) \/ UpdateRef(q) \/ CallFails(q)
  \/ \E b \in Branches : DeleteBranch(b)
  \/ Quiet

Spec == Init /\ [][Next]_vars

-----------------------------------------------------------------------------
TypeOK ==
  /\ heads \in [Branches -> Commits \cup {None}]
  /\ commits \in [Commits -> {None} \cup Objects]
  /\ pc \in [Requests -> {"idle", "based", "built", "created", "failed"}]
  /\ base \in [Requests -> Commits \cup {None}]
  /\ lost \subseteq Requests

CommitsTo(b, stages) ==
  {q \in Requests : op[q].kind = "commit" /\ op[q].branch = b /\ pc[q] \in stages}

\* A commit that was reported is in its branch for good, whatever other
\* commits were under way from the same head: no update of the ref drops one.
ReportedCommitsStay ==
  [][\A b \in Branches : \A q \in CommitsTo(b, {"created"}) :
       Contains(b, q) /\ heads'[b] # None => Contains(b, q)']_vars

\* The files at a branch's head show, for every change in its history, that
\* change or one made on top of it: no commit undoes what it did not touch.
HeadShowsEveryChange ==
  \A b \in Branches : \A q \in Requests :
    op[q].kind = "commit" /\ Contains(b, q) =>
      \A p \in op[q].paths :
        LET shown == commits[heads[b]].files[p]
        IN shown = q \/ (shown \in Requests /\ q \in commits[shown].history)

\* Refs and commits have their types and no branch hides a change in it.
HistoryIsCoherent == TypeOK /\ HeadShowsEveryChange

\* An error means that the branch does not hold the commit, so that trying
\* again is right; the exception is an update whose answer was lost.
FailedCommitsAreAbsent ==
  \A b \in Branches : \A q \in Requests :
    op[q].kind = "commit" /\ pc[q] = "failed" /\ Contains(b, q) => q \in lost
=============================================================================
