---------------------------- MODULE GitHubProofs ----------------------------
(***************************************************************************)
(* For any number of writers, branches and files: what a branch holds is   *)
(* never dropped or undone by a commit made next to it, and an error that  *)
(* was answered means that nothing was written.                            *)
(***************************************************************************)
EXTENDS GitHub, TLAPS

Ops == [kind : {"none", "branch", "commit"}, branch : Branches \cup {None},
        from : Branches \cup {None}, paths : SUBSET Paths]

Built(c) == c \in Commits /\ commits[c] # None
\* A commit others may know of: its branch's update took effect.
Published(c) == c = Root \/ pc[c] = "created" \/ c \in lost

\* Where a request is fits what it asks for, and only the request itself
\* has built its commit.
Shapes ==
  /\ op \in [Requests -> Ops]
  /\ commits[Root] # None
  /\ \A q \in Requests :
       /\ pc[q] = "idle" <=> op[q].kind = "none"
       /\ pc[q] # "idle" => op[q].branch \in Branches
       /\ pc[q] = "based" => Built(base[q])
       /\ pc[q] = "built" => Built(q)
       /\ Built(q) => op[q].kind = "commit" /\ pc[q] \in {"built", "created", "failed"}

\* Whatever a branch, a commit or a request in flight refers to exists, and
\* a commit's history holds the histories of its ancestors.
HistoriesAreWhole ==
  /\ \A b \in Branches : heads[b] # None => Built(heads[b])
  /\ \A c \in Commits : Built(c) =>
       /\ \A p \in Paths : Built(commits[c].files[p])
       /\ \A d \in commits[c].history : Built(d) /\ commits[d].history \subseteq commits[c].history

\* HeadShowsEveryChange of every commit, a branch pointing to it or not.
CommitsShowEveryChange ==
  \A c \in Commits : Built(c) =>
    \A q \in Requests : Built(q) /\ q \in commits[c].history \cup {c} =>
      \A p \in op[q].paths :
        \/ commits[c].files[p] = q
        \/ /\ commits[c].files[p] \in Requests
           /\ q \in commits[commits[c].files[p]].history

\* Branches, histories and requests in flight know published commits only.
UnpublishedAreUnknown ==
  /\ \A b \in Branches : heads[b] # None => Published(heads[b])
  /\ \A q \in Requests : pc[q] = "based" => Published(base[q])
  /\ \A c \in Commits : Built(c) => \A d \in commits[c].history : Published(d)

IInv ==
  /\ TypeOK
  /\ Shapes
  /\ HistoriesAreWhole
  /\ CommitsShowEveryChange
  /\ UnpublishedAreUnknown

-----------------------------------------------------------------------------
\* Initially the main branch points to the root commit.
LEMMA InitIInv == Init => IInv
<1> SUFFICES ASSUME Init PROVE IInv
  OBVIOUS
<1> USE RootAssumption, MainAssumption, NoneAssumption DEF Init, Commits, Objects
<1>1. /\ [p \in Paths |-> Root] \in [Paths -> Commits]
      /\ [history |-> {}, files |-> [p \in Paths |-> Root]] \in Objects
  OBVIOUS
<1>2. commits[Root] = [history |-> {}, files |-> [p \in Paths |-> Root]] /\ Built(Root)
  BY <1>1 DEF Built
<1>3. \A q \in Requests : ~Built(q)
  BY DEF Built
<1>4. TypeOK
  BY <1>1 DEF TypeOK
<1>5. Shapes
  BY <1>2, <1>3 DEF Shapes, Ops, NoOp
<1>6. HistoriesAreWhole
  BY <1>2, <1>3 DEF HistoriesAreWhole
<1>7. CommitsShowEveryChange
  BY <1>3 DEF CommitsShowEveryChange
<1>8. UnpublishedAreUnknown
  BY <1>2, <1>3 DEF UnpublishedAreUnknown, Published
<1>q. QED BY <1>4, <1>5, <1>6, <1>7, <1>8 DEF IInv

\* What the steps of Next may be.
LEMMA Steps ==
  ASSUME [Next]_vars
  PROVE  \/ UNCHANGED vars
         \/ \E q \in Requests :
              \/ \E b, from \in Branches, paths \in SUBSET Paths, kind \in {"branch", "commit"} :
                   ReadRef(q, [kind |-> kind, branch |-> b, from |-> from, paths |-> paths])
              \/ CreateBranch(q) \/ BuildCommit(q) \/ UpdateRef(q) \/ CallFails(q)
         \/ \E b \in Branches : DeleteBranch(b)
BY DEF Next, Quiet

\* The commit a request builds is one of its own making.
LEMMA NewCommit ==
  ASSUME TypeOK, Shapes, NEW q \in Requests, BuildCommit(q)
  PROVE  /\ ~Built(q) /\ Built(q)' /\ Built(base[q]) /\ base[q] # q
         /\ commits'[q] \in Objects
         /\ commits'[q].history = commits[base[q]].history \cup {base[q]}
         /\ commits'[q].files = NewFiles(q)
         /\ \A c \in Commits : c # q => commits'[c] = commits[c]
<1> USE DEF TypeOK, Commits
<1>1. ~Built(q) /\ Built(base[q]) /\ base[q] # q
  BY DEF BuildCommit, Shapes
<1>2. commits[base[q]] \in Objects
  BY <1>1 DEF Built
<1>3. [history |-> commits[base[q]].history \cup {base[q]}, files |-> NewFiles(q)] \in Objects
  BY <1>1, <1>2 DEF Objects, NewFiles, Built
<1>4. /\ commits'[q] = [history |-> commits[base[q]].history \cup {base[q]}, files |-> NewFiles(q)]
      /\ \A c \in Commits : c # q => commits'[c] = commits[c]
  BY DEF BuildCommit
<1>5. Built(q)'
  BY <1>3, <1>4, NoneAssumption DEF Built
<1>q. QED BY <1>1, <1>3, <1>4, <1>5

\* Objects of the host do not change, a published commit stays one, and a
\* request keeps what it was asked.
LEMMA Frame ==
  ASSUME TypeOK, Shapes, [Next]_vars
  PROVE  /\ \A c \in Commits : Built(c) => Built(c)' /\ commits'[c] = commits[c]
         /\ \A c \in Commits : Published(c) => Published(c)'
         /\ \A q \in Requests : Built(q) => op'[q] = op[q]
<1> USE RootAssumption DEF TypeOK, Commits
<1>1. ASSUME NEW q \in Requests, NEW o, ReadRef(q, o)
      PROVE  /\ commits' = commits
             /\ \A c \in Commits : Published(c) => Published(c)'
             /\ \A r \in Requests : Built(r) => op'[r] = op[r]
  BY <1>1 DEF ReadRef, Published, Shapes
<1>2. ASSUME NEW q \in Requests, BuildCommit(q)
      PROVE  /\ \A c \in Commits : Built(c) => commits'[c] = commits[c]
             /\ \A c \in Commits : Published(c) => Published(c)'
             /\ op' = op
  BY <1>2, NewCommit DEF BuildCommit, Published, Built
<1>3. ASSUME NEW q \in Requests, CreateBranch(q) \/ UpdateRef(q) \/ CallFails(q)
      PROVE  /\ commits' = commits
             /\ \A c \in Commits : Published(c) => Published(c)'
             /\ op' = op
  BY <1>3 DEF CreateBranch, UpdateRef, CallFails, Answered, Published
<1>4. ASSUME NEW b \in Branches, DeleteBranch(b)
      PROVE  /\ commits' = commits
             /\ \A c \in Commits : Published(c) => Published(c)'
             /\ op' = op
  BY <1>4 DEF DeleteBranch, Published
<1>5. CASE UNCHANGED vars
  BY <1>5 DEF vars, Published, Built
<1>q. QED BY Steps, <1>1, <1>2, <1>3, <1>4, <1>5 DEF Built

\* Types and shapes are preserved by every step.
LEMMA TypeStep == TypeOK /\ Shapes /\ [Next]_vars => TypeOK'
<1> SUFFICES ASSUME TypeOK, Shapes, [Next]_vars PROVE TypeOK'
  OBVIOUS
<1> USE DEF TypeOK, Commits
<1>1. ASSUME NEW q \in Requests, NEW b \in Branches, NEW from \in Branches,
             NEW paths, NEW kind,
             ReadRef(q, [kind |-> kind, branch |-> b, from |-> from, paths |-> paths])
      PROVE  TypeOK'
  BY <1>1 DEF ReadRef
<1>2. ASSUME NEW q \in Requests, CreateBranch(q) PROVE TypeOK'
  BY <1>2 DEF CreateBranch, Answered, Shapes
<1>3. ASSUME NEW q \in Requests, BuildCommit(q) PROVE TypeOK'
  <2>1. commits' \in [Commits -> {None} \cup Objects]
    BY <1>3, NewCommit DEF BuildCommit
  <2>q. QED BY <1>3, <2>1 DEF BuildCommit
<1>4. ASSUME NEW q \in Requests, UpdateRef(q) PROVE TypeOK'
  BY <1>4 DEF UpdateRef, Answered, Shapes
<1>5. ASSUME NEW q \in Requests, CallFails(q) PROVE TypeOK'
  BY <1>5 DEF CallFails
<1>6. ASSUME NEW b \in Branches, DeleteBranch(b) PROVE TypeOK'
  BY <1>6 DEF DeleteBranch
<1>7. CASE UNCHANGED vars
  BY <1>7 DEF vars
<1>q. QED BY Steps, <1>1, <1>2, <1>3, <1>4, <1>5, <1>6, <1>7

\* Where a request is fits what it has made at the host.
LEMMA ShapesStep == TypeOK /\ Shapes /\ HistoriesAreWhole /\ [Next]_vars => Shapes'
<1> SUFFICES ASSUME TypeOK, Shapes, HistoriesAreWhole, [Next]_vars PROVE Shapes'
  OBVIOUS
<1> USE RootAssumption DEF TypeOK, Commits, Shapes
<1>1. ASSUME NEW q \in Requests, NEW b \in Branches, NEW from \in Branches,
             NEW paths \in SUBSET Paths, NEW kind \in {"branch", "commit"},
             ReadRef(q, [kind |-> kind, branch |-> b, from |-> from, paths |-> paths])
      PROVE  Shapes'
  <2> DEFINE o == [kind |-> kind, branch |-> b, from |-> from, paths |-> paths]
  <2>1. o \in Ops /\ o.kind # "none" /\ o.branch \in Branches /\ o.from = from
    BY DEF Ops
  <2>2. /\ pc[q] = "idle" /\ op' = [op EXCEPT ![q] = o] /\ commits' = commits
        /\ base' = [base EXCEPT ![q] = heads[from]]
        /\ pc' = [pc EXCEPT ![q] = IF heads[from] = None THEN "failed" ELSE "based"]
    BY <1>1, <2>1 DEF ReadRef
  <2>3. heads[from] # None => Built(heads[from])
    BY DEF HistoriesAreWhole
  <2>4. \A c : Built(c)' <=> Built(c)
    BY <2>2 DEF Built
  <2> HIDE DEF o
  <2>q. QED BY <2>1, <2>2, <2>3, <2>4
<1>2. ASSUME NEW q \in Requests, CreateBranch(q) \/ CallFails(q) \/ UpdateRef(q) PROVE Shapes'
  BY <1>2 DEF CreateBranch, CallFails, UpdateRef, Answered, Built
<1>3. ASSUME NEW q \in Requests, BuildCommit(q) PROVE Shapes'
  <2>1. \A c \in Commits : Built(c)' <=> Built(c) \/ c = q
    BY <1>3, NewCommit DEF Built
  <2>2. commits'[Root] # None
    BY <1>3, NewCommit
  <2>3. /\ op' = op /\ base' = base /\ pc' = [pc EXCEPT ![q] = "built"]
        /\ pc[q] = "based" /\ op[q].kind = "commit"
    BY <1>3 DEF BuildCommit
  <2>4. \A r \in Requests : Built(base[r]) => Built(base[r])'
    BY <2>1, <2>3 DEF Built
  <2>q. QED BY <2>1, <2>2, <2>3, <2>4
<1>4. ASSUME NEW b \in Branches, DeleteBranch(b) PROVE Shapes'
  BY <1>4 DEF DeleteBranch, Built
<1>5. CASE UNCHANGED vars
  BY <1>5 DEF vars, Built
<1>q. QED BY Steps, <1>1, <1>2, <1>3, <1>4, <1>5

\* A step makes an object only in BuildCommit.
LEMMA OnlyBuilt ==
  ASSUME TypeOK, Shapes, [Next]_vars, NEW c \in Commits, Built(c)'
  PROVE  Built(c) \/ (c \in Requests /\ BuildCommit(c))
<1> USE DEF TypeOK, Commits
<1>1. ASSUME NEW q \in Requests, NEW o, ReadRef(q, o) PROVE commits' = commits
  BY <1>1 DEF ReadRef
<1>2. ASSUME NEW q \in Requests, BuildCommit(q) PROVE Built(c) \/ c = q
  BY <1>2, NewCommit DEF Built
<1>3. ASSUME NEW q \in Requests, CreateBranch(q) \/ UpdateRef(q) \/ CallFails(q)
      PROVE  commits' = commits
  BY <1>3 DEF CreateBranch, UpdateRef, CallFails
<1>4. ASSUME NEW b \in Branches, DeleteBranch(b) PROVE commits' = commits
  BY <1>4 DEF DeleteBranch
<1>5. commits' = commits => Built(c)
  BY DEF Built
<1>q. QED BY Steps, <1>1, <1>2, <1>3, <1>4, <1>5 DEF vars

\* What one commit refers to is there, and its history is closed.
Whole(c) ==
  /\ \A p \in Paths : Built(commits[c].files[p])
  /\ \A d \in commits[c].history : Built(d) /\ commits[d].history \subseteq commits[c].history

\* Building extends a history by the whole history of the commit read; all
\* other steps make no objects and point branches to existing ones.
LEMMA WholeStep == TypeOK /\ Shapes /\ HistoriesAreWhole /\ [Next]_vars => HistoriesAreWhole'
<1> SUFFICES ASSUME TypeOK, Shapes, HistoriesAreWhole, [Next]_vars PROVE HistoriesAreWhole'
  OBVIOUS
<1> USE RootAssumption DEF TypeOK, Commits
<1>1. ASSUME NEW b \in Branches, heads'[b] # None
      PROVE  heads'[b] = heads[b] \/ Built(heads'[b])
  <2>1. ASSUME NEW q \in Requests, CreateBranch(q) PROVE heads'[b] = heads[b] \/ heads'[b] = base[q]
    BY <2>1 DEF CreateBranch
  <2>2. ASSUME NEW q \in Requests, UpdateRef(q) PROVE heads'[b] = heads[b] \/ heads'[b] = q
    BY <2>2 DEF UpdateRef
  <2>3. ASSUME NEW q \in Requests, NEW o, ReadRef(q, o) PROVE heads' = heads
    BY <2>3 DEF ReadRef
  <2>4. ASSUME NEW d \in Branches, DeleteBranch(d) PROVE heads'[b] = heads[b]
    BY <1>1, <2>4 DEF DeleteBranch
  <2>5. \A q \in Requests : (pc[q] = "based" => Built(base[q])) /\ (pc[q] = "built" => Built(q))
    BY DEF Shapes
  <2>q. QED BY Steps, <2>1, <2>2, <2>3, <2>4, <2>5
            DEF CreateBranch, UpdateRef, BuildCommit, CallFails, vars
<1>2. \A c \in Commits : Built(c) => Built(c)' /\ commits'[c] = commits[c]
  BY Frame
<1>3. \A b \in Branches : heads'[b] # None => commits'[heads'[b]] # None /\ heads'[b] \in Commits
  BY <1>1, <1>2 DEF HistoriesAreWhole, Built
<1>4. ASSUME NEW c \in Commits, Built(c) PROVE Whole(c)'
  <2>1. commits'[c] = commits[c] /\ Whole(c)
    BY <1>2, <1>4 DEF HistoriesAreWhole, Whole
  <2>q. QED BY <1>2, <2>1 DEF Whole, Built
<1>5. ASSUME NEW q \in Requests, BuildCommit(q) PROVE Whole(q)'
  <2>1. Whole(base[q]) /\ base[q] \in Commits
    BY <1>5, NewCommit DEF HistoriesAreWhole, Whole, Built
  <2>2. \A p \in Paths : commits'[q].files[p] = q \/ Built(commits'[q].files[p])
    <3>1. commits'[q].files = NewFiles(q)
      BY <1>5, NewCommit
    <3>q. QED BY <2>1, <3>1 DEF NewFiles, Whole
  <2>3. \A d \in commits'[q].history :
          Built(d) /\ commits[d].history \subseteq commits'[q].history
    BY <1>5, <2>1, NewCommit DEF Whole
  <2>4. Built(q)'
    BY <1>5, NewCommit
  <2>q. QED BY <1>2, <2>2, <2>3, <2>4 DEF Whole, Built
<1>6. \A c \in Commits : Built(c)' => Whole(c)'
  BY <1>4, <1>5, OnlyBuilt
<1>q. QED BY <1>3, <1>6 DEF HistoriesAreWhole, Whole, Built

\* One commit shows another's change to a file, or one made on top of it.
Shows(c, q, p) ==
  \/ commits[c].files[p] = q
  \/ commits[c].files[p] \in Requests /\ q \in commits[commits[c].files[p]].history

\* A commit shows what it changed itself and, elsewhere, what the commit it
\* was built on shows.
LEMMA ShowStep == IInv /\ [Next]_vars => CommitsShowEveryChange'
<1> SUFFICES ASSUME IInv, [Next]_vars PROVE CommitsShowEveryChange'
  OBVIOUS
<1> USE RootAssumption DEF IInv, TypeOK, Commits
<1>1. /\ \A c \in Commits : Built(c) => Built(c)' /\ commits'[c] = commits[c]
      /\ \A q \in Requests : Built(q) => op'[q] = op[q]
  BY Frame
<1>2. ASSUME NEW c \in Commits, Built(c), NEW q \in Requests, Built(q),
             q \in commits[c].history \cup {c}, NEW p \in op[q].paths
      PROVE  Shows(c, q, p)' /\ Built(commits[c].files[p])
  <2>1. Shows(c, q, p)
    BY <1>2 DEF CommitsShowEveryChange, Shows
  <2>2. Built(commits[c].files[p])
    BY <1>2 DEF HistoriesAreWhole, Shapes, Ops
  <2>3. commits'[c] = commits[c] /\ commits'[commits[c].files[p]] = commits[commits[c].files[p]]
    BY <1>1, <1>2, <2>2 DEF Built
  <2>q. QED BY <2>1, <2>2, <2>3 DEF Shows
<1>3. ASSUME NEW n \in Requests, BuildCommit(n), NEW q \in Requests,
             q \in commits'[n].history \cup {n}, NEW p \in op[q].paths
      PROVE  Shows(n, q, p)'
  <2>1. p \in Paths
    BY DEF Shapes, Ops
  <2>2. commits'[n].files[p] = IF p \in op[n].paths THEN n ELSE commits[base[n]].files[p]
    <3>1. commits'[n].files = NewFiles(n)
      BY <1>3, NewCommit
    <3>q. QED BY <2>1, <3>1 DEF NewFiles
  <2>3. CASE p \in op[n].paths
    BY <1>3, <2>2, <2>3 DEF Shows
  <2>4. CASE p \notin op[n].paths
    <3>1. q \in commits[base[n]].history \cup {base[n]} /\ Built(base[n])
      BY <1>3, <2>4, NewCommit
    <3>2. Built(q)
      BY <3>1 DEF HistoriesAreWhole, Built
    <3>3. Shows(base[n], q, p)' /\ Built(commits[base[n]].files[p]) /\ base' = base
      BY <1>2, <1>3, <3>1, <3>2 DEF Built, BuildCommit
    <3>4. commits'[base[n]] = commits[base[n]]
      BY <1>1, <3>1 DEF Built
    <3>q. QED BY <2>2, <2>4, <3>3, <3>4 DEF Shows
  <2>q. QED BY <2>3, <2>4
<1>4. SUFFICES ASSUME NEW c \in Commits, Built(c)', NEW q \in Requests, Built(q)',
                      q \in commits'[c].history \cup {c}, NEW p \in op'[q].paths
               PROVE  Shows(c, q, p)'
  BY DEF CommitsShowEveryChange, Shows
<1>5. CASE Built(c)
  <2>1. commits'[c] = commits[c]
    BY <1>1, <1>5
  <2>2. Built(q) /\ op'[q] = op[q]
    BY <1>1, <1>4, <1>5, <2>1 DEF HistoriesAreWhole
  <2>q. QED BY <1>2, <1>4, <1>5, <2>1, <2>2
<1>6. CASE c \in Requests /\ BuildCommit(c)
  BY <1>3, <1>4, <1>6 DEF BuildCommit
<1>q. QED BY <1>4, <1>5, <1>6, OnlyBuilt

\* A ref update publishes the commit it is about, answered or not; no other
\* step gives a commit away.
LEMMA UnknownStep == IInv /\ [Next]_vars => UnpublishedAreUnknown'
<1> SUFFICES ASSUME IInv, [Next]_vars PROVE UnpublishedAreUnknown'
  OBVIOUS
<1> USE RootAssumption DEF IInv, TypeOK, Commits
<1>1. \A c \in Commits : Published(c) => Published(c)'
  BY Frame
<1>2. ASSUME NEW b \in Branches, heads'[b] # None, heads'[b] # heads[b]
      PROVE  \E c \in Commits : heads'[b] = c /\ Published(c)'
  <2>1. ASSUME NEW q \in Requests, CreateBranch(q) PROVE heads'[b] = base[q] /\ Published(base[q])
    BY <1>2, <2>1 DEF CreateBranch, UnpublishedAreUnknown
  <2>2. ASSUME NEW q \in Requests, UpdateRef(q) PROVE heads'[b] = q /\ Published(q)'
    BY <1>2, <2>2 DEF UpdateRef, Answered, Published
  <2>3. ASSUME NEW q \in Requests, NEW o, ReadRef(q, o) PROVE FALSE
    BY <1>2, <2>3 DEF ReadRef
  <2>4. ASSUME NEW d \in Branches, DeleteBranch(d) PROVE FALSE
    BY <1>2, <2>4 DEF DeleteBranch
  <2>5. ASSUME NEW q \in Requests, CreateBranch(q)
        PROVE \E c \in Commits : heads'[b] = c /\ Published(c)'
    BY <2>1, <2>5, <1>1 DEF CreateBranch, Shapes, Built
  <2>6. ASSUME NEW q \in Requests, UpdateRef(q)
        PROVE \E c \in Commits : heads'[b] = c /\ Published(c)'
    BY <2>2, <2>6
  <2>q. QED BY <1>2, Steps, <2>3, <2>4, <2>5, <2>6 DEF BuildCommit, CallFails, vars
<1>3. (\A b \in Branches : heads[b] # None => Published(heads[b]))'
  BY <1>1, <1>2 DEF UnpublishedAreUnknown, Published
<1>4. ASSUME NEW q \in Requests, pc'[q] = "based"
      PROVE  \E c \in Commits : base'[q] = c /\ Published(c)
  <2>1. ASSUME NEW r \in Requests, NEW b \in Branches, NEW from \in Branches, NEW paths, NEW kind,
               ReadRef(r, [kind |-> kind, branch |-> b, from |-> from, paths |-> paths]), q = r
        PROVE  base'[q] = heads[from] /\ heads[from] # None
    BY <1>4, <2>1 DEF ReadRef
  <2>2. ASSUME NEW r \in Requests, NEW o, ReadRef(r, o), q # r
        PROVE  base'[q] = base[q] /\ pc[q] = "based"
    BY <1>4, <2>2 DEF ReadRef
  <2>3. ASSUME NEW r \in Requests, CreateBranch(r) \/ BuildCommit(r) \/ UpdateRef(r) \/ CallFails(r)
        PROVE  base'[q] = base[q] /\ pc[q] = "based"
    BY <1>4, <2>3 DEF CreateBranch, BuildCommit, UpdateRef, CallFails, Answered
  <2>4. ASSUME NEW b \in Branches, DeleteBranch(b) PROVE base'[q] = base[q] /\ pc[q] = "based"
    BY <1>4, <2>4 DEF DeleteBranch
  <2>5. (base'[q] = base[q] /\ pc[q] = "based") \/ \E b \in Branches : base'[q] = heads[b] /\ heads[b] # None
    BY <1>4, Steps, <2>1, <2>2, <2>3, <2>4 DEF vars
  <2>q. QED BY <2>5 DEF UnpublishedAreUnknown, Shapes, Built
<1>5. (\A q \in Requests : pc[q] = "based" => Published(base[q]))'
  BY <1>1, <1>4 DEF Published
<1>6. ASSUME NEW c \in Commits, Built(c)', NEW d \in commits'[c].history PROVE d \in Commits /\ Published(d)
  <2>1. CASE Built(c)
    BY <1>6, <2>1, Frame DEF UnpublishedAreUnknown, HistoriesAreWhole, Built
  <2>2. CASE c \in Requests /\ BuildCommit(c)
    <3>1. Built(base[c]) /\ Published(base[c]) /\ d \in commits[base[c]].history \cup {base[c]}
      BY <1>6, <2>2, NewCommit DEF BuildCommit, UnpublishedAreUnknown
    <3>q. QED BY <3>1 DEF UnpublishedAreUnknown, HistoriesAreWhole, Built
  <2>q. QED BY <1>6, <2>1, <2>2, OnlyBuilt
<1>q. QED BY <1>1, <1>3, <1>5, <1>6 DEF UnpublishedAreUnknown

-----------------------------------------------------------------------------
\* IInv is an invariant of the writers.
THEOREM Invariance == Spec => []IInv
<1>1. IInv /\ [Next]_vars => IInv'
  BY TypeStep, ShapesStep, WholeStep, ShowStep, UnknownStep DEF IInv
<1>q. QED BY InitIInv, <1>1, PTL DEF Spec

\* No branch hides a change in its history, for any number of commits made
\* from the same head: base_tree carries over what a commit does not touch.
THEOREM CoherentHistory == Spec => []HistoryIsCoherent
<1>1. ASSUME IInv PROVE HeadShowsEveryChange
  <2>1. SUFFICES ASSUME NEW b \in Branches, NEW q \in Requests, Contains(b, q), NEW p \in op[q].paths
                 PROVE  Shows(heads[b], q, p)
    BY DEF HeadShowsEveryChange, Shows
  <2>2. Built(heads[b]) /\ q \in commits[heads[b]].history \cup {heads[b]}
    BY <1>1, <2>1 DEF IInv, HistoriesAreWhole, Contains
  <2>3. Built(q)
    BY <1>1, <2>2 DEF IInv, HistoriesAreWhole, Built
  <2>q. QED BY <1>1, <2>1, <2>2, <2>3 DEF IInv, CommitsShowEveryChange, Shows, Built
<1>2. IInv => HistoryIsCoherent
  BY <1>1 DEF IInv, HistoryIsCoherent
<1>q. QED BY Invariance, <1>2, PTL

\* CreateCommit's error means that no branch holds the commit, unless the
\* answer to the ref update was lost.
THEOREM ErrorsAreFinal == Spec => []FailedCommitsAreAbsent
<1>1. ASSUME IInv PROVE FailedCommitsAreAbsent
  <2>1. SUFFICES ASSUME NEW b \in Branches, NEW q \in Requests, pc[q] = "failed", Contains(b, q)
                 PROVE  q \in lost
    BY DEF FailedCommitsAreAbsent
  <2>2. Published(q)
    BY <1>1, <2>1 DEF IInv, HistoriesAreWhole, UnpublishedAreUnknown, Contains, Built
  <2>q. QED BY <2>1, <2>2, RootAssumption DEF Published
<1>q. QED BY Invariance, <1>1, PTL

\* A ref moves only forward: a commit that was reported stays in its branch.
THEOREM RefsMoveForward == Spec => ReportedCommitsStay
<1>1. ASSUME IInv, [Next]_vars, NEW b \in Branches, NEW q \in Requests,
             Contains(b, q), heads'[b] # None
      PROVE  Contains(b, q)'
  <2> USE RootAssumption DEF TypeOK, Commits
  <2>1. Built(heads[b]) /\ commits'[heads[b]] = commits[heads[b]]
    BY <1>1, Frame DEF IInv, HistoriesAreWhole, Contains, Built
  <2>2. CASE heads'[b] = heads[b]
    BY <1>1, <2>1, <2>2 DEF Contains
  <2>3. ASSUME NEW r \in Requests, UpdateRef(r), heads'[b] # heads[b]
        PROVE  Contains(b, q)'
    <3>1. heads'[b] = r /\ heads[b] \in commits[r].history /\ commits' = commits /\ Built(r)
      BY <1>1, <2>3 DEF IInv, UpdateRef, FastForward, Shapes
    <3>2. commits[heads[b]].history \subseteq commits[r].history
      BY <1>1, <3>1 DEF IInv, HistoriesAreWhole, Built
    <3>q. QED BY <1>1, <3>1, <3>2 DEF Contains
  <2>4. ASSUME NEW r \in Requests, CreateBranch(r) PROVE heads'[b] = heads[b]
    BY <1>1, <2>4 DEF IInv, CreateBranch, Contains
  <2>5. ASSUME NEW d \in Branches, DeleteBranch(d) PROVE heads'[b] = heads[b]
    BY <1>1, <2>5 DEF IInv, DeleteBranch
  <2>6. ASSUME NEW r \in Requests, NEW o, ReadRef(r, o) PROVE heads'[b] = heads[b]
    BY <2>6 DEF ReadRef
  <2>q. QED BY <1>1, Steps, <2>2, <2>3, <2>4, <2>5, <2>6 DEF BuildCommit, CallFails, vars
<1> DEFINE Kept == \A b \in Branches : \A q \in CommitsTo(b, {"created"}) :
                     Contains(b, q) /\ heads'[b] # None => Contains(b, q)'
<1>2. IInv /\ [Next]_vars => [Kept]_vars
  BY <1>1 DEF CommitsTo
<1>q. QED BY Invariance, <1>2, PTL DEF Spec, ReportedCommitsStay
=============================================================================
