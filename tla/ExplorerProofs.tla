--------------------------- MODULE ExplorerProofs ---------------------------
(***************************************************************************)
(* For any number of requests and runs: a copy read under mu is fresh when *)
(* it is written back unless a chat call overtook it, every row agrees     *)
(* with itself, a reply is recorded at most once, and "shutdown" is        *)
(* recorded only in a shutdown or when a later turn superseded the task.   *)
(***************************************************************************)
EXTENDS Explorer, FiniteSetTheorems, SequenceTheorems, WellFoundedInduction, TLAPS

Locked == {"editing", "completing", "failing"}
Copying == {"created", "read"} \cup Locked
\* The turn's answer may have been written.
Over == {"returned", "done", "dead"}

\* Where a request is fits what it asks for and what it holds.
Shape(q) ==
  /\ pc[q] = "idle" <=> op[q].kind = "none"
  /\ pc[q] \in Copying <=> local[q] # None
  /\ pc[q] = "created" => op[q].kind = "start"
  /\ pc[q] = "read" => op[q].kind = "continue"
  /\ pc[q] = "editing" => op[q].kind \in EditKinds \cup {"answer"}
  /\ pc[q] \in Tasking \cup {"stored"} => op[q].kind \in TurnKinds
  /\ pc[q] \in {"failed", "failing"} <=> cause[q] # None
  /\ mu = q <=> pc[q] \in Locked \/ (pc[q] = "stored" /\ op[q].kind = "answer")
Shapes == \A q \in Requests : Shape(q)

\* Whatever run somebody works on, or a client knows, is in the table.
RunsExist ==
  /\ \A q \in Requests : pc[q] # "idle" => row[RunOf(q)] # None
  /\ \A r \in known : row[r] # None

\* Where an answer of q is in a list of blocks, and whose answers it has.
AnswersOf(blocks, q) ==
  {i \in 1..Len(blocks) : blocks[i].role = "assistant" /\ blocks[i].by = q}
Answered(blocks) == {q \in Requests : AnswersOf(blocks, q) # {}}
Distinct(blocks) == \A q \in Requests : \A i, j \in AnswersOf(blocks, q) : i = j

\* A state of a run, stored or in somebody's copy.
Coherent(s) ==
  /\ s.status = "processing" => s.blocks # <<>> /\ s.blocks[Len(s.blocks)].loading
  /\ s.status = "error" => LoadingAt(s.blocks) = {}
  /\ s.reason # None => s.status = "error"
  /\ Distinct(s.blocks)
AllCoherent ==
  /\ \A r \in Runs : row[r] # None => Coherent(row[r])
  /\ \A q \in Requests : local[q] # None => Coherent(local[q])

\* Answers are there only of tasks that are over.
AnswersAreOver ==
  /\ \A r \in Runs : row[r] # None => \A p \in Answered(row[r].blocks) : pc[p] \in Over
  /\ \A q \in Requests : local[q] # None => \A p \in Answered(local[q].blocks) : pc[p] \in Over

\* Two turns of the run have been dispatched, or the process was stopped.
Superseded(r) ==
  \E p, q \in Requests :
    /\ p # q
    /\ \A x \in {p, q} : /\ RunOf(x) = r
                         /\ op[x].kind \in TurnKinds
                         /\ pc[x] \in Tasking \cup {"done"}
Explained(r) == root \/ restarts > 0 \/ Superseded(r)
\* The manager's handle of a run is a task of that run.
Handles ==
  \A r \in Runs : handle[r] # None => RunOf(handle[r]) = r /\ pc[handle[r]] \in Tasking
\* A cancelled task, the failure it leads to, and the reason that is
\* recorded for it all have an explanation.
AllExplained ==
  /\ \A q \in Requests : pc[q] \in Tasking /\ ctxDone[q] => Explained(RunOf(q))
  /\ \A q \in Requests : cause[q] = "shutdown" => Explained(RunOf(q))
  /\ \A q \in Requests : local[q] # None /\ local[q].reason = "shutdown" => Explained(RunOf(q))
  /\ \A r \in Runs : row[r] # None /\ row[r].reason = "shutdown" => Explained(r)

IInv ==
  /\ TypeOK
  /\ Shapes
  /\ RunsExist
  /\ LockedCopiesAreFresh
  /\ AllCoherent
  /\ AnswersAreOver
  /\ Handles
  /\ AllExplained

-----------------------------------------------------------------------------
\* A set of numbers has a least element ...
LEMMA LeastExists ==
  ASSUME NEW T \in SUBSET Nat, T # {}
  PROVE  \E x \in T : \A y \in T : x <= y
<1>1. PICK R : R = OpToRel(<, Nat)
  OBVIOUS
<1>2. IsWellFoundedOn(R, Nat)
  BY <1>1, NatLessThanWellFounded
<1>3. \A m, n \in Nat : m < n => <<m, n>> \in R
  BY <1>1 DEF OpToRel
<1>4. PICK x \in T : \A y \in T : ~(<<y, x>> \in R)
  BY <1>2, WFMin
<1>5. ASSUME NEW y \in T PROVE x <= y
  <2>1. x \in Nat /\ y \in Nat /\ ~(y < x)
    BY <1>3, <1>4
  <2>q. QED BY <2>1
<1>q. QED BY <1>5

\* ... and, if it is bounded, a greatest one: resolveLoadingBlock finds the
\* last loading block when there is one.
LEMMA GreatestExists ==
  ASSUME NEW n \in Nat, NEW T \in SUBSET (1..n), T # {}
  PROVE  \E x \in T : \A y \in T : y <= x
<1>1. PICK U : U = {m \in Nat : \A y \in T : y <= m}
  OBVIOUS
<1>2. n \in U /\ U \in SUBSET Nat
  BY <1>1
<1>3. PICK m \in U : \A y \in U : m <= y
  BY <1>2, LeastExists
<1>4. m \in Nat /\ \A y \in T : y \in Nat /\ y > 0 /\ y <= m
  BY <1>1, <1>3
<1>5. ASSUME m \notin T PROVE FALSE
  <2>1. \A y \in T : y <= m - 1
    BY <1>4, <1>5
  <2>2. m > 0
    <3>1. PICK y \in T : TRUE
      OBVIOUS
    <3>q. QED BY <1>4, <3>1
  <2>3. m - 1 \in U
    BY <1>1, <1>4, <2>1, <2>2
  <2>q. QED BY <1>3, <1>4, <2>3
<1>q. QED BY <1>4, <1>5

\* Ranks count up by one at every place.
LEMMA RankSteps ==
  ASSUME NEW n \in Nat, NEW K \in SUBSET (1..n), NEW i \in Nat
  PROVE  /\ IsFiniteSet(K)
         /\ Rank(K, i) \in Nat
         /\ Rank(K, 0) = 0
         /\ Rank(K, n) = Cardinality(K)
         /\ i + 1 \in K => Rank(K, i + 1) = Rank(K, i) + 1
         /\ i + 1 \notin K => Rank(K, i + 1) = Rank(K, i)
<1>0. \A j \in K : j \in Nat /\ j > 0 /\ j <= n
  OBVIOUS
<1>1. IsFiniteSet(K)
  <2>1. IsFiniteSet(1..n)
    BY FS_Interval
  <2>q. QED BY <2>1, FS_Subset
<1>2. PICK S : S = {j \in K : j <= i}
  OBVIOUS
<1>3. IsFiniteSet(S) /\ Cardinality(S) \in Nat
  BY <1>1, <1>2, FS_Subset, FS_CardinalityType
<1>4. Rank(K, i) = Cardinality(S)
  BY <1>2 DEF Rank
<1>5. Rank(K, 0) = 0
  <2>0. \A j \in K : ~(j <= 0)
    BY <1>0
  <2>1. {j \in K : j <= 0} = {}
    BY <2>0, Zenon
  <2>q. QED BY <2>1, FS_EmptySet DEF Rank
<1>6. Rank(K, n) = Cardinality(K)
  <2>1. \A j \in K : j <= n
    BY <1>0
  <2>2. {j \in K : j <= n} = K
    BY <2>1, Zenon
  <2>q. QED BY <2>2 DEF Rank
<1>7. ASSUME i + 1 \in K PROVE Rank(K, i + 1) = Rank(K, i) + 1
  <2>a. \A j \in K : j <= i + 1 <=> j <= i \/ j = i + 1
    BY <1>0
  <2>b. ~(i + 1 <= i) /\ i + 1 <= i + 1
    OBVIOUS
  <2>1. {j \in K : j <= i + 1} = S \cup {i + 1} /\ i + 1 \notin S
    BY <1>2, <1>7, <2>a, <2>b, Zenon
  <2>2. Cardinality(S \cup {i + 1}) = Cardinality(S) + 1
    BY <1>3, <2>1, FS_AddElement
  <2>q. QED BY <1>4, <2>1, <2>2 DEF Rank
<1>8. ASSUME i + 1 \notin K PROVE Rank(K, i + 1) = Rank(K, i)
  <2>a. \A j \in K : j <= i + 1 <=> j <= i
    BY <1>0, <1>8
  <2>1. {j \in K : j <= i + 1} = S
    BY <1>2, <2>a, Zenon
  <2>q. QED BY <1>4, <2>1 DEF Rank
<1>q. QED BY <1>1, <1>3, <1>4, <1>5, <1>6, <1>7, <1>8

\* Every rank is taken: the n-th of the kept blocks exists.
LEMMA RankIsTaken ==
  ASSUME NEW n \in Nat, NEW K \in SUBSET (1..n), NEW k \in 1..Cardinality(K)
  PROVE  \E i \in K : Rank(K, i) = k
<1>0. IsFiniteSet(K) /\ Cardinality(K) \in Nat
  BY RankSteps, FS_CardinalityType
<1>1. PICK U : U = {i \in Nat : Rank(K, i) >= k}
  OBVIOUS
<1>2. n \in U /\ U \in SUBSET Nat
  BY <1>0, <1>1, RankSteps
<1>3. PICK i \in U : \A y \in U : i <= y
  BY <1>2, LeastExists
<1>4. i \in Nat /\ Rank(K, i) >= k /\ k \in Nat /\ k > 0
  BY <1>0, <1>1, <1>3
<1>5. i # 0
  <2>1. Rank(K, 0) = 0
    BY RankSteps
  <2>q. QED BY <1>4, <2>1
<1>6. PICK j \in Nat : i = j + 1
  <2>1. i - 1 \in Nat /\ i = (i - 1) + 1
    BY <1>4, <1>5
  <2>q. QED BY <2>1
<1>7. Rank(K, j) \in Nat /\ ~(Rank(K, j) >= k)
  <2>1. j \notin U
    BY <1>3, <1>6
  <2>q. QED BY <1>1, <2>1, RankSteps
<1>8. /\ j + 1 \in K => Rank(K, j + 1) = Rank(K, j) + 1
      /\ j + 1 \notin K => Rank(K, j + 1) = Rank(K, j)
  BY RankSteps
<1>9. i \in K /\ Rank(K, i) = k
  BY <1>4, <1>6, <1>7, <1>8
<1>q. QED BY <1>9

\* What dropLoadingBlocks returns: blocks of the list, none of them loading
\* and no place taken twice.
LEMMA DropIs ==
  ASSUME NEW blocks \in Seq(Blocks)
  PROVE  /\ dropLoadingBlocks(blocks) \in Seq(Blocks)
         /\ LoadingAt(dropLoadingBlocks(blocks)) = {}
         /\ \E f : \A m \in 1..Len(dropLoadingBlocks(blocks)) :
              /\ f[m] \in 1..Len(blocks)
              /\ dropLoadingBlocks(blocks)[m] = blocks[f[m]]
              /\ \A k \in 1..Len(dropLoadingBlocks(blocks)) : f[k] = f[m] => k = m
<1>1. PICK K : K = (1..Len(blocks)) \ LoadingAt(blocks)
  OBVIOUS
<1>2. Len(blocks) \in Nat /\ K \in SUBSET (1..Len(blocks))
  BY <1>1
<1>3. Cardinality(K) \in Nat
  BY <1>2, RankSteps, FS_CardinalityType
<1>4. PICK f : f = [m \in 1..Cardinality(K) |-> CHOOSE i \in K : Rank(K, i) = m]
  OBVIOUS
<1>5. ASSUME NEW m \in 1..Cardinality(K) PROVE f[m] \in K /\ Rank(K, f[m]) = m
  <2>1. \E i \in K : Rank(K, i) = m
    BY <1>2, RankIsTaken
  <2>2. f[m] = CHOOSE i \in K : Rank(K, i) = m
    BY <1>4
  <2>q. QED BY <2>1, <2>2
<1>6. PICK d : d = [m \in 1..Cardinality(K) |-> blocks[f[m]]]
  OBVIOUS
<1>7. dropLoadingBlocks(blocks) = d
  <2>1. d = [m \in 1..Cardinality(K) |-> blocks[CHOOSE i \in K : Rank(K, i) = m]]
    BY <1>4, <1>6
  <2>q. QED BY <1>1, <2>1 DEF dropLoadingBlocks
<1>8. \A i \in K : blocks[i] \in Blocks /\ ~blocks[i].loading
  BY <1>1 DEF LoadingAt
<1>9. \A m \in 1..Cardinality(K) : d[m] \in Blocks /\ ~d[m].loading
  BY <1>5, <1>6, <1>8
<1>10. d \in Seq(Blocks) /\ Len(d) = Cardinality(K)
  <2>1. d \in [1..Cardinality(K) -> Blocks]
    BY <1>6, <1>9
  <2>q. QED BY <1>3, <2>1, SeqDef, LenProperties
<1>11. LoadingAt(d) = {}
  BY <1>9, <1>10 DEF LoadingAt
<1>12. \A m \in 1..Len(d) : /\ f[m] \in 1..Len(blocks)
                            /\ d[m] = blocks[f[m]]
                            /\ \A k \in 1..Len(d) : f[k] = f[m] => k = m
  <2>1. \A m \in 1..Cardinality(K) : f[m] \in 1..Len(blocks) /\ d[m] = blocks[f[m]]
    BY <1>2, <1>5, <1>6
  <2>2. \A m, k \in 1..Cardinality(K) : f[k] = f[m] => k = m
    BY <1>5
  <2>q. QED BY <1>10, <2>1, <2>2
<1>q. QED BY <1>7, <1>10, <1>11, <1>12

\* A list whose answers all come from different places of an older one has
\* no more answers than that one, and none of them twice.
LEMMA AnswersCarryOver ==
  ASSUME NEW old \in Seq(Blocks), NEW new \in Seq(Blocks), NEW f, Distinct(old),
         \A m \in 1..Len(new) : new[m].role = "assistant" /\ new[m].by \in Requests =>
           f[m] \in 1..Len(old) /\ new[m] = old[f[m]],
         \A m, k \in 1..Len(new) : f[k] = f[m] => k = m
  PROVE  Distinct(new) /\ Answered(new) \subseteq Answered(old)
<1>1. ASSUME NEW q \in Requests, NEW m \in AnswersOf(new, q)
      PROVE  m \in 1..Len(new) /\ f[m] \in AnswersOf(old, q)
  BY DEF AnswersOf
<1>2. Answered(new) \subseteq Answered(old)
  BY <1>1 DEF Answered
<1>3. ASSUME NEW q \in Requests, NEW m \in AnswersOf(new, q), NEW k \in AnswersOf(new, q)
      PROVE  k = m
  <2>1. f[k] = f[m]
    BY <1>1 DEF Distinct
  <2>q. QED BY <1>1, <2>1
<1>q. QED BY <1>2, <1>3 DEF Distinct

\* Blocks are blocks.
LEMMA BlocksAre ==
  ASSUME NEW q \in Requests
  PROVE  User(q) \in Blocks /\ makeLoadingBlock \in Blocks /\ Answer(q) \in Blocks
BY DEF User, makeLoadingBlock, Answer, Blocks

\* A turn keeps the blocks, adds no answer and ends in a loading block.
LEMMA TurnIs ==
  ASSUME NEW q \in Requests, NEW blocks \in Seq(Blocks), Distinct(blocks)
  PROVE  /\ Turn(blocks, q) \in Seq(Blocks)
         /\ Turn(blocks, q) # <<>>
         /\ Turn(blocks, q)[Len(Turn(blocks, q))].loading
         /\ Distinct(Turn(blocks, q))
         /\ Answered(Turn(blocks, q)) \subseteq Answered(blocks)
<1>1. PICK two : two = <<User(q), makeLoadingBlock>>
  OBVIOUS
<1>2. two \in Seq(Blocks) /\ Len(two) = 2 /\ two[1] = User(q) /\ two[2] = makeLoadingBlock
  BY <1>1, BlocksAre
<1>3. PICK n \in Nat : n = Len(blocks)
  OBVIOUS
<1>4. PICK new : new = blocks \o two
  OBVIOUS
<1>5. /\ new \in Seq(Blocks) /\ Len(new) = n + 2
      /\ \A i \in 1..n : new[i] = blocks[i]
      /\ new[n + 1] = User(q) /\ new[n + 2] = makeLoadingBlock
  <2>1. /\ new \in Seq(Blocks)
        /\ Len(new) = n + Len(two)
        /\ \A i \in 1..(n + Len(two)) : new[i] = IF i <= n THEN blocks[i] ELSE two[i - n]
    BY <1>2, <1>3, <1>4, ConcatProperties
  <2>2. new[n + 1] = two[1] /\ new[n + 2] = two[2]
    BY <1>2, <2>1
  <2>q. QED BY <1>2, <2>1, <2>2
<1>6. PICK f : f = [i \in 1..Len(new) |-> i]
  OBVIOUS
<1>7. ASSUME NEW m \in 1..Len(new), new[m].role = "assistant", new[m].by \in Requests
      PROVE  f[m] \in 1..Len(blocks) /\ new[m] = blocks[f[m]]
  <2>1. m \in 1..n \/ m = n + 1 \/ m = n + 2
    BY <1>5
  <2>2. m # n + 1 /\ m # n + 2
    BY <1>5, <1>7, NoneAssumption DEF User, makeLoadingBlock
  <2>q. QED BY <1>3, <1>5, <1>6, <2>1, <2>2
<1>8. Distinct(new) /\ Answered(new) \subseteq Answered(blocks)
  <2>1. \A m, k \in 1..Len(new) : f[k] = f[m] => k = m
    BY <1>6
  <2>2. \A m \in 1..Len(new) : new[m].role = "assistant" /\ new[m].by \in Requests =>
          f[m] \in 1..Len(blocks) /\ new[m] = blocks[f[m]]
    BY ONLY <1>7, Zenon
  <2>q. QED BY ONLY <1>5, <2>1, <2>2, blocks \in Seq(Blocks), Distinct(blocks), AnswersCarryOver, Zenon
<1>9. new # <<>> /\ new[Len(new)].loading
  BY <1>5 DEF makeLoadingBlock
<1>q. QED BY <1>1, <1>4, <1>5, <1>8, <1>9 DEF Turn

\* InsertIndex keeps a prefix.
LEMMA TruncateIs ==
  ASSUME NEW blocks \in Seq(Blocks), Distinct(blocks), NEW i \in InsertIndexes \cup {None}
  PROVE  /\ Truncate(blocks, i) \in Seq(Blocks)
         /\ Distinct(Truncate(blocks, i))
         /\ Answered(Truncate(blocks, i)) \subseteq Answered(blocks)
<1>1. CASE i # None /\ i < Len(blocks)
  <2>1. i \in Nat /\ i < Len(blocks)
    BY <1>1, IndexAssumption
  <2>2. PICK new : new = SubSeq(blocks, 1, i)
    OBVIOUS
  <2>3. \A k \in 1..i : blocks[k] \in Blocks /\ k \in 1..Len(blocks)
    BY <2>1
  <2>4. new \in Seq(Blocks) /\ Len(new) = i /\ \A m \in 1..i : new[m] = blocks[m]
    BY <2>1, <2>2, <2>3, SubSeqProperties
  <2>5. PICK f : f = [m \in 1..Len(new) |-> m]
    OBVIOUS
  <2>6. \A m \in 1..Len(new) : f[m] = m /\ m \in 1..Len(blocks) /\ new[m] = blocks[m]
    BY <2>3, <2>4, <2>5
  <2>7. Distinct(new) /\ Answered(new) \subseteq Answered(blocks)
    <3>1. \A m \in 1..Len(new) : new[m].role = "assistant" /\ new[m].by \in Requests =>
            f[m] \in 1..Len(blocks) /\ new[m] = blocks[f[m]]
      BY ONLY <2>6, Zenon
    <3>2. \A m, k \in 1..Len(new) : f[k] = f[m] => k = m
      BY ONLY <2>6, Zenon
    <3>q. QED BY ONLY <2>4, <3>1, <3>2, blocks \in Seq(Blocks), Distinct(blocks), AnswersCarryOver, Zenon
  <2>q. QED BY <1>1, <2>2, <2>4, <2>7 DEF Truncate
<1>2. CASE ~(i # None /\ i < Len(blocks))
  BY <1>2 DEF Truncate
<1>q. QED BY <1>1, <1>2

\* dropLoadingBlocks adds no answer and doubles none.
LEMMA DropKeepsAnswers ==
  ASSUME NEW blocks \in Seq(Blocks), Distinct(blocks)
  PROVE  /\ dropLoadingBlocks(blocks) \in Seq(Blocks)
         /\ LoadingAt(dropLoadingBlocks(blocks)) = {}
         /\ Distinct(dropLoadingBlocks(blocks))
         /\ Answered(dropLoadingBlocks(blocks)) \subseteq Answered(blocks)
<1>1. PICK new : new = dropLoadingBlocks(blocks)
  OBVIOUS
<1>2. /\ new \in Seq(Blocks) /\ LoadingAt(new) = {}
      /\ \E f : \A m \in 1..Len(new) :
           /\ f[m] \in 1..Len(blocks)
           /\ new[m] = blocks[f[m]]
           /\ \A k \in 1..Len(new) : f[k] = f[m] => k = m
  BY <1>1, DropIs
<1>3. PICK f : \A m \in 1..Len(new) :
           /\ f[m] \in 1..Len(blocks)
           /\ new[m] = blocks[f[m]]
           /\ \A k \in 1..Len(new) : f[k] = f[m] => k = m
  BY <1>2
<1>4. Distinct(new) /\ Answered(new) \subseteq Answered(blocks)
  <2>1. \A m \in 1..Len(new) : new[m].role = "assistant" /\ new[m].by \in Requests =>
          f[m] \in 1..Len(blocks) /\ new[m] = blocks[f[m]]
    BY ONLY <1>3, Zenon
  <2>2. \A m, k \in 1..Len(new) : f[k] = f[m] => k = m
    BY ONLY <1>3, Zenon
  <2>q. QED BY ONLY <1>2, <2>1, <2>2, blocks \in Seq(Blocks), Distinct(blocks), AnswersCarryOver, Zenon
<1>q. QED BY <1>1, <1>2, <1>4

\* resolveLoadingBlock adds one answer, of a task that had none.
LEMMA ResolveIs ==
  ASSUME NEW q \in Requests, NEW blocks \in Seq(Blocks), Distinct(blocks),
         q \notin Answered(blocks)
  PROVE  /\ resolveLoadingBlock(blocks, q) \in Seq(Blocks)
         /\ Distinct(resolveLoadingBlock(blocks, q))
         /\ Answered(resolveLoadingBlock(blocks, q)) \subseteq Answered(blocks) \cup {q}
<1>1. PICK new : new = resolveLoadingBlock(blocks, q)
  OBVIOUS
<1>2. /\ new \in Seq(Blocks)
      /\ \E at \in 1..Len(new) :
           /\ new[at] = Answer(q)
           /\ \A m \in 1..Len(new) \ {at} : m \in 1..Len(blocks) /\ new[m] = blocks[m]
  <2>1. CASE LoadingAt(blocks) = {}
    <3>1. new = Append(blocks, Answer(q))
      BY <1>1, <2>1 DEF resolveLoadingBlock
    <3>2. /\ new \in Seq(Blocks) /\ Len(new) = Len(blocks) + 1
          /\ new[Len(blocks) + 1] = Answer(q)
          /\ \A m \in 1..Len(blocks) : new[m] = blocks[m]
      BY <3>1, BlocksAre, AppendProperties
    <3>3. Len(blocks) + 1 \in 1..Len(new)
      BY <3>2
    <3>q. QED BY <3>2, <3>3
  <2>2. CASE LoadingAt(blocks) # {}
    <3>1. PICK T : T = LoadingAt(blocks) /\ T \in SUBSET (1..Len(blocks)) /\ T # {}
      BY <2>2 DEF LoadingAt
    <3>2. \E x \in T : \A y \in T : y <= x
      <4>1. PICK n \in Nat : n = Len(blocks)
        OBVIOUS
      <4>2. T \in SUBSET (1..n) /\ T # {}
        BY <3>1, <4>1
      <4>q. QED BY <4>2, GreatestExists
    <3>3. PICK last : last = CHOOSE i \in T : \A j \in T : j <= i
      OBVIOUS
    <3>4. last \in 1..Len(blocks)
      BY <3>1, <3>2, <3>3
    <3>5. new = [blocks EXCEPT ![last] = Answer(q)]
      BY <1>1, <2>2, <3>1, <3>3 DEF resolveLoadingBlock
    <3>6. /\ new \in Seq(Blocks) /\ Len(new) = Len(blocks)
          /\ \A m \in 1..Len(blocks) : new[m] = IF m = last THEN Answer(q) ELSE blocks[m]
      <4>1. Answer(q) \in Blocks
        BY BlocksAre
      <4>2. Len(new) = Len(blocks) /\ new \in Seq(Blocks)
        BY <3>4, <3>5, <4>1, ExceptSeq
      <4>3. \A m \in 1..Len(blocks) : new[m] = IF m = last THEN Answer(q) ELSE blocks[m]
        BY <3>4, <3>5
      <4>q. QED BY <4>2, <4>3
    <3>q. QED BY <3>4, <3>6
  <2>q. QED BY <2>1, <2>2
<1>3. PICK at \in 1..Len(new) :
           /\ new[at] = Answer(q)
           /\ \A m \in 1..Len(new) \ {at} : m \in 1..Len(blocks) /\ new[m] = blocks[m]
  BY <1>2
<1>4. ASSUME NEW p \in Requests, NEW m \in AnswersOf(new, p)
      PROVE  (p = q /\ m = at) \/ (p # q /\ m \in AnswersOf(blocks, p))
  <2>1. CASE m = at
    BY <1>3, <2>1 DEF AnswersOf, Answer
  <2>2. CASE m # at
    <3>1. m \in AnswersOf(blocks, p)
      BY <1>3, <2>2 DEF AnswersOf
    <3>q. QED BY <3>1 DEF Answered
  <2>q. QED BY <2>1, <2>2
<1>5. Distinct(new)
  BY <1>4 DEF Distinct
<1>6. Answered(new) \subseteq Answered(blocks) \cup {q}
  BY <1>4 DEF Answered
<1>q. QED BY <1>1, <1>2, <1>5, <1>6

-----------------------------------------------------------------------------
\* What startRun stores.
LEMMA StartedIs ==
  ASSUME NEW q \in Requests
  PROVE  LET s == State("processing", Turn(<<>>, q), FALSE, None) IN
         s \in States /\ Coherent(s) /\ Answered(s.blocks) = {} /\ s.reason = None
<1>1. PICK e : e = <<>> /\ e \in Seq(Blocks) /\ Distinct(e) /\ Answered(e) = {}
  <2>0. <<>> \in Seq(Blocks) /\ Len(<<>>) = 0
    OBVIOUS
  <2>1. PICK e : e = <<>> /\ e \in Seq(Blocks) /\ Len(e) = 0
    BY <2>0, Zenon
  <2>2. \A p : AnswersOf(e, p) = {}
    BY <2>1 DEF AnswersOf
  <2>q. QED BY <2>1, <2>2 DEF Distinct, Answered
<1>2. PICK b : b = Turn(e, q) /\ b \in Seq(Blocks) /\ b # <<>> /\ b[Len(b)].loading
                 /\ Distinct(b) /\ Answered(b) \subseteq Answered(e)
  BY <1>1, TurnIs
<1>3. PICK s : s = State("processing", b, FALSE, None)
  OBVIOUS
<1>4. s.status = "processing" /\ s.blocks = b /\ s.reason = None /\ s \in States
  BY <1>2, <1>3 DEF State, States, Statuses
<1>5. Coherent(s)
  BY <1>2, <1>4 DEF Coherent
<1>q. QED BY <1>1, <1>2, <1>3, <1>4, <1>5

\* What continueRun stores.
LEMMA ContinuedIs ==
  ASSUME NEW q \in Requests, NEW old \in States, Coherent(old),
         NEW i \in InsertIndexes \cup {None}
  PROVE  LET s == State("processing", Turn(Truncate(old.blocks, i), q), old.pending, None) IN
         /\ s \in States /\ Coherent(s) /\ s.reason = None
         /\ Answered(s.blocks) \subseteq Answered(old.blocks)
<1>0. old.blocks \in Seq(Blocks) /\ Distinct(old.blocks) /\ old.pending \in BOOLEAN
  BY DEF States, Coherent
<1>1. PICK e : e = Truncate(old.blocks, i) /\ e \in Seq(Blocks) /\ Distinct(e)
                 /\ Answered(e) \subseteq Answered(old.blocks)
  BY <1>0, TruncateIs
<1>2. PICK b : b = Turn(e, q) /\ b \in Seq(Blocks) /\ b # <<>> /\ b[Len(b)].loading
                 /\ Distinct(b) /\ Answered(b) \subseteq Answered(e)
  BY <1>1, TurnIs
<1>3. PICK s : s = State("processing", b, old.pending, None)
  OBVIOUS
<1>4. s.status = "processing" /\ s.blocks = b /\ s.reason = None /\ s \in States
  BY <1>0, <1>2, <1>3 DEF State, States, Statuses
<1>5. Coherent(s)
  BY <1>2, <1>4 DEF Coherent
<1>q. QED BY <1>1, <1>2, <1>3, <1>4, <1>5

\* What Update stores: it never leaves a processing state without a loading
\* block, since an interrupt, which drops them, also ends the run.
LEMMA EditedIs ==
  ASSUME NEW q \in Requests, NEW old \in States, Coherent(old),
         NEW kind \in EditKinds \cup {"answer"}
  PROVE  /\ Edited(old, kind, q) \in States
         /\ Coherent(Edited(old, kind, q))
         /\ Edited(old, kind, q).reason = None
         /\ Answered(Edited(old, kind, q).blocks) \subseteq Answered(old.blocks)
<1>0. /\ old.blocks \in Seq(Blocks) /\ Distinct(old.blocks)
      /\ old.pending \in BOOLEAN /\ old.status \in Statuses
  BY DEF States, Coherent
<1>1. PICK b : b = EditedBlocks(old.blocks, kind, q)
  OBVIOUS
<1>2. b \in Seq(Blocks) /\ Distinct(b) /\ Answered(b) \subseteq Answered(old.blocks)
  <2>1. CASE kind = "answer"
    BY <1>0, <1>1, <2>1, TurnIs DEF EditedBlocks
  <2>2. CASE kind = "interrupt"
    BY <1>0, <1>1, <2>2, DropKeepsAnswers DEF EditedBlocks
  <2>3. CASE kind \notin {"answer", "interrupt"}
    BY <1>0, <1>1, <2>3 DEF EditedBlocks
  <2>q. QED BY <2>1, <2>2, <2>3
<1>3. PICK status : status = CASE kind = "answer" -> "processing"
                               [] kind \in {"interrupt", "skip"} -> "completed"
                               [] kind = "await" -> "awaiting_user_input"
                               [] OTHER -> old.status
  OBVIOUS
<1>4. status \in Statuses
  BY <1>0, <1>3 DEF Statuses, EditKinds
<1>5. PICK pending \in BOOLEAN : pending = (kind = "await" \/ (kind = "create_pr" /\ old.pending))
  BY <1>0
<1>6. PICK s : s = State(status, b, pending, None)
  OBVIOUS
<1>7. Edited(old, kind, q) = s
  BY <1>1, <1>3, <1>5, <1>6 DEF Edited
<1>8. s.status = status /\ s.blocks = b /\ s.reason = None /\ s \in States
  BY <1>2, <1>4, <1>6 DEF State, States
<1>9. status = "processing" => b # <<>> /\ b[Len(b)].loading
  <2>1. CASE kind = "answer"
    BY <1>0, <1>1, <2>1, TurnIs DEF EditedBlocks
  <2>2. CASE kind # "answer" /\ status = "processing"
    <3>1. kind \notin {"answer", "interrupt"} /\ old.status = "processing"
      BY <1>3, <2>2
    <3>2. b = old.blocks
      BY <1>1, <3>1 DEF EditedBlocks
    <3>q. QED BY <3>1, <3>2 DEF Coherent
  <2>q. QED BY <2>1, <2>2
<1>10. status = "error" => LoadingAt(b) = {}
  <2>1. SUFFICES ASSUME status = "error" PROVE LoadingAt(b) = {}
    OBVIOUS
  <2>2. kind \notin {"answer", "interrupt"} /\ old.status = "error"
    BY <1>3, <2>1
  <2>3. b = old.blocks
    BY <1>1, <2>2 DEF EditedBlocks
  <2>q. QED BY <2>2, <2>3 DEF Coherent
<1>11. Coherent(s)
  BY <1>2, <1>8, <1>9, <1>10 DEF Coherent
<1>q. QED BY <1>2, <1>7, <1>8, <1>11

\* What completeRun stores.
LEMMA CompletedIs ==
  ASSUME NEW q \in Requests, NEW old \in States, Coherent(old), q \notin Answered(old.blocks)
  PROVE  LET s == State("completed", resolveLoadingBlock(old.blocks, q), old.pending, None) IN
         /\ s \in States /\ Coherent(s) /\ s.reason = None
         /\ Answered(s.blocks) \subseteq Answered(old.blocks) \cup {q}
<1>0. old.blocks \in Seq(Blocks) /\ Distinct(old.blocks) /\ old.pending \in BOOLEAN
  BY DEF States, Coherent
<1>1. PICK b : b = resolveLoadingBlock(old.blocks, q) /\ b \in Seq(Blocks) /\ Distinct(b)
                 /\ Answered(b) \subseteq Answered(old.blocks) \cup {q}
  BY <1>0, ResolveIs
<1>3. PICK s : s = State("completed", b, old.pending, None)
  OBVIOUS
<1>4. s.status = "completed" /\ s.blocks = b /\ s.reason = None /\ s \in States
  BY <1>0, <1>1, <1>3 DEF State, States, Statuses
<1>5. Coherent(s)
  BY <1>1, <1>4 DEF Coherent
<1>q. QED BY <1>1, <1>3, <1>4, <1>5

\* What failRun stores.
LEMMA FailedIs ==
  ASSUME NEW old \in States, Coherent(old), NEW why \in Reasons
  PROVE  LET s == State("error", dropLoadingBlocks(old.blocks), old.pending, why) IN
         /\ s \in States /\ Coherent(s) /\ s.reason = why
         /\ Answered(s.blocks) \subseteq Answered(old.blocks)
<1>0. old.blocks \in Seq(Blocks) /\ Distinct(old.blocks) /\ old.pending \in BOOLEAN
  BY DEF States, Coherent
<1>1. PICK b : b = dropLoadingBlocks(old.blocks) /\ b \in Seq(Blocks) /\ Distinct(b)
                 /\ LoadingAt(b) = {} /\ Answered(b) \subseteq Answered(old.blocks)
  BY <1>0, DropKeepsAnswers
<1>3. PICK s : s = State("error", b, old.pending, why)
  OBVIOUS
<1>4. s.status = "error" /\ s.blocks = b /\ s.reason = why /\ s \in States
  BY <1>0, <1>1, <1>3 DEF State, States, Statuses
<1>5. Coherent(s)
  BY <1>1, <1>4 DEF Coherent
<1>q. QED BY <1>1, <1>3, <1>4, <1>5

-----------------------------------------------------------------------------
\* The stages by name.
LEMMA Labels ==
  /\ Locked = {"editing", "completing", "failing"}
  /\ Copying = {"created", "read", "editing", "completing", "failing"}
  /\ Over = {"returned", "done", "dead"}
  /\ Tasking = {"running", "replied", "completing", "failed", "failing", "returned"}
  /\ TurnKinds = {"start", "continue", "answer"}
  /\ EditKinds = {"interrupt", "skip", "await", "create_pr"}
BY DEF Locked, Copying, Over, Tasking, TurnKinds, EditKinds

\* One step of a request's handler or task.
Step(q) == Chat(q) \/ Update(q) \/ dispatch(q) \/ Abandon(q) \/ chatTask(q)
Kept(p) == pc'[p] = pc[p] /\ op'[p] = op[p] /\ local'[p] = local[p] /\ cause'[p] = cause[p]

\* Every step is one request's, or the shutdown, or a restart, or changes
\* nothing.
LEMMA Steps ==
  ASSUME [Next]_vars
  PROVE  (\E q \in Requests : Step(q)) \/ Signal \/ Restart \/ UNCHANGED vars
BY DEF Next, Step, Quiet

\* A request that has begun works on a run; one that copies has the copy.
LEMMA Working ==
  ASSUME TypeOK, Shapes, NEW q \in Requests
  PROVE  /\ pc[q] # "idle" => /\ RunOf(q) \in Runs
                              /\ op[q].index \in InsertIndexes \cup {None}
         /\ pc[q] \in Copying => local[q] \in States
         /\ pc[q] \in {"failed", "failing"} => cause[q] \in Reasons
<1>1. Shape(q)
  BY DEF Shapes
<1>2. /\ op[q] \in [kind : TurnKinds \cup EditKinds, run : Runs,
                    index : InsertIndexes \cup {None}] \cup {NoOp}
      /\ local[q] \in States \cup {None} /\ cause[q] \in Reasons \cup {None}
  BY DEF TypeOK
<1>q. QED BY <1>1, <1>2 DEF Shape, RunOf, NoOp

\* A step of one request leaves the others where they are.
LEMMA OthersAreKept ==
  ASSUME TypeOK, NEW q \in Requests, Step(q)
  PROVE  \A p \in Requests \ {q} : Kept(p)
<1>1. CASE Chat(q) \/ Abandon(q)
  BY <1>1 DEF Chat, StartRun, StartStore, ContinueRead, ContinueWrite, Abandon, Begin, Kept, TypeOK, environment
<1>2. CASE Update(q) \/ dispatch(q)
  BY <1>2 DEF Update, UpdateRead, UpdateWrite, dispatch, Begin, Kept, TypeOK, environment
<1>3. CASE chatTask(q)
  BY <1>3 DEF chatTask, Reply, ReplyFails, CompleteRead, CompleteWrite, FailRead, FailWrite, Unregister,
           Kept, TypeOK, environment
<1>q. QED BY <1>1, <1>2, <1>3 DEF Step

Writes(q, r, s) ==
  /\ row' = [row EXCEPT ![r] = s]
  /\ Coherent(s)
  /\ s.reason = "shutdown" =>
       cause[q] = "shutdown" \/ (local[q] # None /\ local[q].reason = "shutdown")
  /\ \A p \in Answered(s.blocks) :
       \/ local[q] # None /\ p \in Answered(local[q].blocks)
       \/ p = q /\ pc[q] = "completing"
\* Whoever writes a row writes a coherent state to the row of its run, with
\* no more answers than its copy has and, if completeRun writes, its own.
LEMMA RowWrites ==
  ASSUME TypeOK, Shapes, AllCoherent, AnswersAreOver, NEW q \in Requests, Step(q), row' # row
  PROVE  \E r \in Runs, s \in States :
           Writes(q, r, s) /\ op'[q].run = r /\ (row[r] = None \/ pc[q] # "idle")
<1> USE Labels
<1>0. Shape(q)
  BY DEF Shapes
<1>1. ASSUME NEW r \in Runs, StartRun(q, r)
      PROVE  \E s \in States : Writes(q, r, s) /\ op'[q].run = r /\ row[r] = None
  <2>1. PICK s : s = State("processing", Turn(<<>>, q), FALSE, None)
                   /\ s \in States /\ Coherent(s) /\ Answered(s.blocks) = {} /\ s.reason = None
    BY StartedIs
  <2>2. row' = [row EXCEPT ![r] = s] /\ op'[q].run = r /\ row[r] = None
    BY <1>1, <2>1 DEF StartRun, Begin, TypeOK
  <2>3. Writes(q, r, s)
    BY <2>1, <2>2, ValuesAssumption DEF Writes, Reasons
  <2>q. QED BY <2>1, <2>2, <2>3
<1>2. ASSUME pc[q] \in Copying
      PROVE  RunOf(q) \in Runs /\ local[q] \in States /\ Coherent(local[q]) /\ local[q] # None
  BY <1>0, <1>2, Working DEF AllCoherent, Shape
<1>3. CASE StartStore(q)
  <2>1. pc[q] = "created" /\ row' = [row EXCEPT ![RunOf(q)] = local[q]] /\ op'[q] = op[q]
    BY <1>3 DEF StartStore
  <2>2. Writes(q, RunOf(q), local[q])
    BY <1>2, <2>1 DEF Writes
  <2>q. QED BY <1>2, <2>1, <2>2 DEF RunOf
<1>4. CASE ContinueWrite(q)
  <2>1. pc[q] = "read" /\ op'[q] = op[q]
    BY <1>4 DEF ContinueWrite
  <2>2. op[q].index \in InsertIndexes \cup {None}
    BY <2>1, Working
  <2>3. PICK s : /\ s = State("processing", Turn(Truncate(local[q].blocks, op[q].index), q),
                              local[q].pending, None)
                 /\ s \in States /\ Coherent(s) /\ s.reason = None
                 /\ Answered(s.blocks) \subseteq Answered(local[q].blocks)
    BY <1>2, <2>1, <2>2, ContinuedIs
  <2>4. row' = [row EXCEPT ![RunOf(q)] = s]
    BY <1>4, <2>3 DEF ContinueWrite
  <2>5. Writes(q, RunOf(q), s)
    BY <1>2, <2>1, <2>3, <2>4, ValuesAssumption DEF Writes, Reasons
  <2>q. QED BY <1>2, <2>1, <2>3, <2>5 DEF RunOf
<1>5. CASE UpdateWrite(q)
  <2>1. pc[q] = "editing" /\ op'[q] = op[q]
    BY <1>5 DEF UpdateWrite
  <2>2. op[q].kind \in EditKinds \cup {"answer"}
    BY <1>0, <2>1 DEF Shape
  <2>3. PICK s : /\ s = Edited(local[q], op[q].kind, q)
                 /\ s \in States /\ Coherent(s) /\ s.reason = None
                 /\ Answered(s.blocks) \subseteq Answered(local[q].blocks)
    BY <1>2, <2>1, <2>2, EditedIs
  <2>4. row' = [row EXCEPT ![RunOf(q)] = s]
    BY <1>5, <2>3 DEF UpdateWrite
  <2>5. Writes(q, RunOf(q), s)
    BY <1>2, <2>1, <2>3, <2>4, ValuesAssumption DEF Writes, Reasons
  <2>q. QED BY <1>2, <2>1, <2>3, <2>5 DEF RunOf
<1>6. CASE CompleteWrite(q)
  <2>1. pc[q] = "completing" /\ op'[q] = op[q] /\ ~ctxDone[q]
    BY <1>6 DEF CompleteWrite
  <2>2. q \notin Answered(local[q].blocks)
    BY <1>2, <2>1 DEF AnswersAreOver
  <2>3. PICK s : /\ s = State("completed", resolveLoadingBlock(local[q].blocks, q),
                              local[q].pending, None)
                 /\ s \in States /\ Coherent(s) /\ s.reason = None
                 /\ Answered(s.blocks) \subseteq Answered(local[q].blocks) \cup {q}
    BY <1>2, <2>1, <2>2, CompletedIs
  <2>4. row' = [row EXCEPT ![RunOf(q)] = s]
    BY <1>6, <2>1, <2>3 DEF CompleteWrite
  <2>5. Writes(q, RunOf(q), s)
    BY <1>2, <2>1, <2>3, <2>4, ValuesAssumption DEF Writes, Reasons
  <2>q. QED BY <1>2, <2>1, <2>3, <2>5 DEF RunOf
<1>7. CASE FailWrite(q)
  <2>1. pc[q] = "failing" /\ op'[q] = op[q] /\ cause[q] \in Reasons
    BY <1>7, Working DEF FailWrite
  <2>3. PICK s : /\ s = State("error", dropLoadingBlocks(local[q].blocks),
                              local[q].pending, cause[q])
                 /\ s \in States /\ Coherent(s) /\ s.reason = cause[q]
                 /\ Answered(s.blocks) \subseteq Answered(local[q].blocks)
    <3>1. PICK why \in Reasons : why = cause[q]
      BY <2>1
    <3>2. PICK old \in States : old = local[q] /\ Coherent(old)
      BY <1>2, <2>1
    <3>3. LET s == State("error", dropLoadingBlocks(old.blocks), old.pending, why) IN
          /\ s \in States /\ Coherent(s) /\ s.reason = why
          /\ Answered(s.blocks) \subseteq Answered(old.blocks)
      BY <3>2, FailedIs
    <3>q. QED BY <3>1, <3>2, <3>3
  <2>4. row' = [row EXCEPT ![RunOf(q)] = s]
    BY <1>7, <2>3 DEF FailWrite
  <2>5. Writes(q, RunOf(q), s)
    BY <1>2, <2>1, <2>3, <2>4 DEF Writes
  <2>q. QED BY <1>2, <2>1, <2>3, <2>5 DEF RunOf
<1>8. ASSUME NEW r \in Runs, NEW i \in InsertIndexes, ContinueRead(q, r, i) PROVE FALSE
  BY <1>8 DEF ContinueRead
<1>9. ASSUME NEW r \in Runs, NEW k \in EditKinds \cup {"answer"}, UpdateRead(q, r, k) PROVE FALSE
  BY <1>9 DEF UpdateRead
<1>10. ~dispatch(q) /\ ~Abandon(q)
  BY DEF dispatch, Abandon
<1>11. ~Reply(q) /\ ~CompleteRead(q) /\ ~FailRead(q) /\ ~Unregister(q)
  BY DEF Reply, CompleteRead, FailRead, Unregister
<1>12. \A why \in Reasons : ~ReplyFails(q, why)
  BY DEF ReplyFails
<1>13. CASE Chat(q)
  BY <1>1, <1>3, <1>4, <1>8, <1>13 DEF Chat
<1>14. CASE Update(q)
  BY <1>5, <1>9, <1>14 DEF Update
<1>15. CASE chatTask(q)
  BY <1>6, <1>7, <1>11, <1>12, <1>15 DEF chatTask
<1>q. QED BY <1>10, <1>13, <1>14, <1>15 DEF Step

\* A copy is dropped, or kept, or made of the row of the run; and a request
\* begins with a run that is in the table.
LEMMA CopyMoves ==
  ASSUME TypeOK, Shapes, RunsExist, NEW q \in Requests, Step(q)
  PROVE  /\ \/ local'[q] = None
            \/ local'[q] = local[q] /\ op'[q] = op[q]
            \/ op'[q].run \in Runs /\ row'[op'[q].run] # None /\ local'[q] = row'[op'[q].run]
         /\ pc[q] = "idle" => op'[q].run \in Runs /\ row'[op'[q].run] # None
<1> USE Labels
<1>1. ASSUME NEW r \in Runs, StartRun(q, r)
      PROVE  op'[q].run = r /\ row'[r] # None /\ local'[q] = row'[r]
  <2>1. PICK s : s = State("processing", Turn(<<>>, q), FALSE, None) /\ s \in States
    BY StartedIs
  <2>2. row' = [row EXCEPT ![r] = s] /\ op'[q].run = r /\ local'[q] = s
    BY <1>1, <2>1 DEF StartRun, Begin, TypeOK
  <2>q. QED BY <2>1, <2>2, ValuesAssumption DEF TypeOK
<1>2. ASSUME NEW r \in Runs, NEW i \in InsertIndexes, ContinueRead(q, r, i)
      PROVE  op'[q].run = r /\ row'[r] # None /\ local'[q] = row'[r]
  BY <1>2 DEF ContinueRead, Begin, TypeOK, RunsExist
<1>3. ASSUME NEW r \in Runs, NEW k \in EditKinds \cup {"answer"}, UpdateRead(q, r, k)
      PROVE  op'[q].run = r /\ row'[r] # None /\ local'[q] = row'[r]
  BY <1>3 DEF UpdateRead, Begin, TypeOK, RunsExist
<1>4. CASE Chat(q)
  BY <1>1, <1>2, <1>4 DEF Chat, StartStore, ContinueWrite, TypeOK
<1>5. CASE Update(q)
  BY <1>3, <1>5 DEF Update, UpdateWrite, TypeOK
<1>6. CASE dispatch(q) \/ Abandon(q)
  BY <1>6 DEF dispatch, Abandon, TypeOK
<1>7. CASE chatTask(q)
  <2>1. CASE Reply(q) \/ (\E why \in Reasons : ReplyFails(q, why)) \/ Unregister(q)
    BY <2>1 DEF Reply, ReplyFails, Unregister
  <2>2. CASE CompleteWrite(q) \/ FailWrite(q)
    BY <2>2 DEF CompleteWrite, FailWrite, TypeOK
  <2>3. CASE CompleteRead(q) \/ FailRead(q)
    <3>1. pc[q] # "idle" /\ op' = op /\ row' = row
      BY <2>3 DEF CompleteRead, FailRead
    <3>2. RunOf(q) \in Runs /\ row[RunOf(q)] # None
      BY <3>1, Working DEF RunsExist
    <3>3. local' = local \/ local' = [local EXCEPT ![q] = row[RunOf(q)]]
      BY <2>3 DEF CompleteRead, FailRead
    <3>q. QED BY <3>1, <3>2, <3>3 DEF RunOf, TypeOK
  <2>q. QED BY <1>7, <2>1, <2>2, <2>3 DEF chatTask
<1>q. QED BY <1>4, <1>5, <1>6, <1>7 DEF Step

\* What each step does to its own request's control state.
LEMMA PcMoves ==
  ASSUME TypeOK, NEW q \in Requests, Step(q)
  PROVE  /\ pc[q] = "idle" => op'[q].kind # "none" /\ op'[q].run \in Runs
         /\ pc[q] # "idle" => op' = op
         /\ pc'[q] # "idle"
         /\ pc[q] \in Tasking \cup {"done"} => pc'[q] \in Tasking \cup {"done"}
         /\ pc[q] \in Over => pc'[q] \in Over
         /\ pc[q] = "completing" => pc'[q] \in Over
         /\ pc[q] \notin {"done", "gone", "dead"}
         /\ root' = root /\ restarts' = restarts
<1> USE Labels
<1>1. CASE Chat(q)
  <2>1. ASSUME NEW r \in Runs, NEW kind, NEW i, NEW label, Begin(q, kind, r, i, label)
        PROVE  pc[q] = "idle" /\ pc'[q] = label /\ op'[q].kind = kind /\ op'[q].run = r
    BY <2>1 DEF Begin, TypeOK
  <2>2. ASSUME NEW r \in Runs, StartRun(q, r)
        PROVE  /\ pc[q] = "idle" /\ pc'[q] = "created"
               /\ op'[q].kind = "start" /\ op'[q].run = r /\ root' = root /\ restarts' = restarts
    BY <2>1, <2>2 DEF StartRun, environment
  <2>3. ASSUME NEW r \in Runs, NEW i \in InsertIndexes, ContinueRead(q, r, i)
        PROVE  /\ pc[q] = "idle" /\ pc'[q] = "read"
               /\ op'[q].kind = "continue" /\ op'[q].run = r /\ root' = root /\ restarts' = restarts
    BY <2>1, <2>3 DEF ContinueRead, environment
  <2>4. CASE StartStore(q) \/ ContinueWrite(q)
    BY <2>4 DEF StartStore, ContinueWrite, TypeOK, environment
  <2>q. QED BY <1>1, <2>2, <2>3, <2>4 DEF Chat
<1>2. CASE Update(q)
  BY <1>2 DEF Update, UpdateRead, UpdateWrite, Begin, TypeOK, environment
<1>3. CASE dispatch(q) \/ Abandon(q)
  BY <1>3 DEF dispatch, Abandon, TypeOK, environment
<1>4. CASE chatTask(q)
  BY <1>4 DEF chatTask, Reply, ReplyFails, CompleteRead, CompleteWrite, FailRead, FailWrite, Unregister,
           TypeOK, environment
<1>q. QED BY <1>1, <1>2, <1>3, <1>4 DEF Step

-----------------------------------------------------------------------------
\* The types.
LEMMA TypeStep ==
  ASSUME TypeOK, Shapes, RunsExist, AllCoherent, AnswersAreOver, [Next]_vars
  PROVE  TypeOK'
<1> USE Labels
<1>1. ASSUME NEW q \in Requests, Step(q) PROVE TypeOK'
  <2>1. row' \in [Runs -> States \cup {None}]
    <3>1. CASE row' = row
      BY <3>1 DEF TypeOK
    <3>2. CASE row' # row
      <4>1. PICK r \in Runs, s \in States : Writes(q, r, s)
        BY <1>1, <3>2, RowWrites
      <4>q. QED BY <4>1 DEF Writes, TypeOK
    <3>q. QED BY <3>1, <3>2
  <2>2. ASSUME NEW p \in Requests PROVE local'[p] \in States \cup {None}
    <3>1. CASE p # q
      BY <1>1, <3>1, OthersAreKept DEF Kept, TypeOK
    <3>2. CASE p = q
      <4>1. local'[q] = None \/ local'[q] = local[q]
              \/ (op'[q].run \in Runs /\ local'[q] = row'[op'[q].run])
        BY <1>1, CopyMoves
      <4>q. QED BY <2>1, <3>2, <4>1 DEF TypeOK
    <3>q. QED BY <3>1, <3>2
  <2>3. CASE Chat(q)
    <3>1. ASSUME NEW r \in Runs, StartRun(q, r) PROVE TypeOK'
      <4>1. local' \in [Requests -> States \cup {None}]
        BY <2>2, <3>1 DEF StartRun, TypeOK
      <4>2. op' \in [Requests -> [kind : TurnKinds \cup EditKinds, run : Runs,
                                  index : InsertIndexes \cup {None}] \cup {NoOp}]
        BY <3>1 DEF StartRun, Begin, TypeOK
      <4>q. QED BY <2>1, <3>1, <4>1, <4>2 DEF StartRun, Begin, TypeOK, environment
    <3>2. ASSUME NEW r \in Runs, NEW i \in InsertIndexes, ContinueRead(q, r, i) PROVE TypeOK'
      <4>1. local' \in [Requests -> States \cup {None}]
        BY <2>2, <3>2 DEF ContinueRead, TypeOK
      <4>2. op' \in [Requests -> [kind : TurnKinds \cup EditKinds, run : Runs,
                                  index : InsertIndexes \cup {None}] \cup {NoOp}]
        BY <3>2 DEF ContinueRead, Begin, TypeOK
      <4>q. QED BY <2>1, <3>2, <4>1, <4>2 DEF ContinueRead, Begin, TypeOK, environment
    <3>3. CASE StartStore(q) \/ ContinueWrite(q)
      BY <2>1, <3>3 DEF StartStore, ContinueWrite, NoteOvertaken, TypeOK, environment
    <3>q. QED BY <2>3, <3>1, <3>2, <3>3 DEF Chat
  <2>4. CASE Update(q)
    <3>1. ASSUME NEW r \in Runs, NEW k \in EditKinds \cup {"answer"}, UpdateRead(q, r, k) PROVE TypeOK'
      <4>1. local' \in [Requests -> States \cup {None}]
        BY <2>2, <3>1 DEF UpdateRead, TypeOK
      <4>2. op' \in [Requests -> [kind : TurnKinds \cup EditKinds, run : Runs,
                                  index : InsertIndexes \cup {None}] \cup {NoOp}]
        BY <3>1 DEF UpdateRead, Begin, TypeOK
      <4>q. QED BY <2>1, <3>1, <4>1, <4>2 DEF UpdateRead, Begin, TypeOK, environment
    <3>2. CASE UpdateWrite(q)
      BY <2>1, <3>2 DEF UpdateWrite, TypeOK, environment
    <3>q. QED BY <2>4, <3>1, <3>2 DEF Update
  <2>5. CASE dispatch(q)
    <3>1. pc[q] # "idle" /\ RunOf(q) \in Runs
      BY <2>5, Working DEF dispatch
    <3>2. ctxDone' \in [Requests -> BOOLEAN]
      BY <2>5 DEF dispatch, TypeOK
    <3>q. QED BY <2>5, <3>1, <3>2 DEF dispatch, TypeOK
  <2>6. CASE Abandon(q)
    <3>1. RunOf(q) \in Runs
      BY <2>6, Working DEF Abandon
    <3>q. QED BY <2>6, <3>1 DEF Abandon, TypeOK, environment
  <2>7. CASE chatTask(q)
    <3>1. CASE Reply(q) \/ (\E why \in Reasons : ReplyFails(q, why))
      BY <3>1 DEF Reply, ReplyFails, TypeOK, environment
    <3>2. CASE CompleteRead(q) \/ FailRead(q)
      <4>1. local' \in [Requests -> States \cup {None}]
        BY <2>2, <3>2 DEF CompleteRead, FailRead, TypeOK
      <4>q. QED BY <2>1, <3>2, <4>1 DEF CompleteRead, FailRead, TypeOK, environment
    <3>3. CASE CompleteWrite(q)
      <4>1. /\ pc' = [pc EXCEPT ![q] = "returned"] /\ local' = [local EXCEPT ![q] = None]
            /\ mu' \in {None, mu} /\ UNCHANGED <<environment, op, orphaned, overtaken>>
        BY <3>3 DEF CompleteWrite
      <4>q. QED BY <2>1, <4>1 DEF TypeOK, environment
    <3>4. CASE FailWrite(q)
      BY <2>1, <3>4 DEF FailWrite, TypeOK
    <3>5. CASE Unregister(q)
      BY <3>5 DEF Unregister, TypeOK
    <3>q. QED BY <2>7, <3>1, <3>2, <3>3, <3>4, <3>5 DEF chatTask
  <2>q. QED BY <1>1, <2>3, <2>4, <2>5, <2>6, <2>7 DEF Step
<1>2. CASE Signal
  BY <1>2 DEF Signal, TypeOK
<1>3. CASE Restart
  <2>1. restarts' \in 0..MaxRestarts
    BY <1>3, RestartAssumption DEF Restart, TypeOK
  <2>2. pc' \in [Requests -> Tasking \cup {"idle", "created", "read", "editing",
                                         "stored", "done", "gone", "dead"}]
    BY <1>3 DEF Restart, TypeOK
  <2>q. QED BY <1>3, <2>1, <2>2 DEF Restart, TypeOK
<1>4. CASE UNCHANGED vars
  BY <1>4 DEF vars, TypeOK
<1>q. QED BY <1>1, <1>2, <1>3, <1>4, Steps

\* Where a request is fits what it asks for and what it holds, in particular
\* mu: every path through Update, completeRun and failRun takes it once and
\* gives it back.
LEMMA ShapesStep ==
  ASSUME TypeOK, Shapes, RunsExist, AllCoherent, AnswersAreOver, [Next]_vars
  PROVE  Shapes'
<1> USE Labels
<1>0. \A p \in Requests : Shape(p)
  BY DEF Shapes
<1>m. mu \in Requests \cup {None} /\ None \notin Requests
  BY NoneAssumption DEF TypeOK
<1>1. ASSUME NEW q \in Requests, Step(q), NEW p \in Requests PROVE Shape(p)'
  <2>0. TypeOK'
    BY <1>1, TypeStep DEF Next, Step
  <2>1. CASE p # q
    <3>1. Kept(p)
      BY <1>1, <2>1, OthersAreKept
    <3>2. mu' = p <=> mu = p
      <4>1. CASE Chat(q)
        BY <1>m, <2>1, <4>1 DEF Chat, StartRun, ContinueRead, StartStore, ContinueWrite
      <4>2. CASE Update(q)
        BY <1>0, <1>m, <2>1, <4>2 DEF Update, UpdateRead, UpdateWrite, Shape
      <4>3. CASE dispatch(q) \/ Abandon(q)
        BY <1>m, <2>1, <4>3 DEF dispatch, Abandon
      <4>4. CASE chatTask(q)
        BY <1>0, <1>m, <2>1, <4>4 DEF chatTask, Reply, ReplyFails, CompleteRead, CompleteWrite, FailRead,
                 FailWrite, Unregister, Shape, environment
      <4>q. QED BY <1>1, <4>1, <4>2, <4>3, <4>4 DEF Step
    <3>q. QED BY <1>0, <3>1, <3>2 DEF Kept, Shape
  <2>2. CASE p = q
    <3> SUFFICES Shape(q)'
      BY <2>2
    <3>0. Shape(q)
      BY <1>0
    <3>1. CASE Chat(q)
      <4>1. ASSUME NEW r \in Runs, StartRun(q, r) PROVE Shape(q)'
        <5>1. /\ pc[q] = "idle" /\ pc'[q] = "created" /\ op'[q].kind = "start"
              /\ cause' = cause /\ mu' = mu
          BY <4>1 DEF StartRun, Begin, environment, TypeOK
        <5>2. local'[q] # None
          BY <4>1, StartedIs, ValuesAssumption DEF StartRun, TypeOK
        <5>q. QED BY <3>0, <5>1, <5>2 DEF Shape
      <4>2. ASSUME NEW r \in Runs, NEW i \in InsertIndexes, ContinueRead(q, r, i) PROVE Shape(q)'
        <5>1. /\ pc[q] = "idle" /\ pc'[q] = "read" /\ op'[q].kind = "continue"
              /\ cause' = cause /\ mu' = mu /\ local'[q] # None
          BY <4>2 DEF ContinueRead, Begin, environment, TypeOK, RunsExist
        <5>q. QED BY <3>0, <5>1 DEF Shape
      <4>3. CASE StartStore(q) \/ ContinueWrite(q)
        <5>1. /\ pc[q] \in {"created", "read"} /\ pc'[q] = "stored" /\ op' = op
              /\ cause' = cause /\ mu' = mu /\ local'[q] = None
          BY <4>3 DEF StartStore, ContinueWrite, environment, TypeOK
        <5>q. QED BY <3>0, <5>1 DEF Shape
      <4>q. QED BY <3>1, <4>1, <4>2, <4>3 DEF Chat
    <3>2. CASE Update(q)
      <4>1. ASSUME NEW r \in Runs, NEW k \in EditKinds \cup {"answer"}, UpdateRead(q, r, k) PROVE Shape(q)'
        <5>1. /\ pc[q] = "idle" /\ pc'[q] = "editing" /\ op'[q].kind = k
              /\ cause' = cause /\ mu' = q /\ local'[q] # None
          BY <4>1 DEF UpdateRead, Begin, environment, TypeOK, RunsExist
        <5>q. QED BY <3>0, <5>1 DEF Shape
      <4>2. CASE UpdateWrite(q)
        <5>1. /\ pc[q] = "editing" /\ op' = op /\ cause' = cause /\ local'[q] = None
              /\ IF op[q].kind = "answer" THEN pc'[q] = "stored" /\ mu' = mu
                 ELSE pc'[q] = "done" /\ mu' = None
          BY <4>2 DEF UpdateWrite, environment, TypeOK
        <5>q. QED BY <1>m, <3>0, <5>1 DEF Shape
      <4>q. QED BY <3>2, <4>1, <4>2 DEF Update
    <3>3. CASE dispatch(q)
      <4>1. /\ pc[q] = "stored" /\ pc'[q] = "running" /\ op' = op /\ cause' = cause
            /\ local' = local /\ mu' # q
        BY <1>m, <3>3 DEF dispatch, TypeOK
      <4>q. QED BY <3>0, <4>1 DEF Shape
    <3>4. CASE Abandon(q)
      <4>1. /\ pc[q] \in {"created", "read", "editing"} /\ pc'[q] = "gone" /\ op' = op
            /\ cause' = cause /\ local'[q] = None /\ mu' # q
        BY <1>m, <3>4 DEF Abandon, TypeOK, environment
      <4>q. QED BY <3>0, <4>1 DEF Shape
    <3>5. CASE chatTask(q)
      <4>1. CASE Reply(q) \/ Unregister(q)
        <5>1. /\ <<pc[q], pc'[q]>> \in {<<"running", "replied">>, <<"returned", "done">>}
              /\ op' = op /\ cause' = cause /\ local' = local /\ mu' = mu
          BY <4>1 DEF Reply, Unregister, TypeOK, environment
        <5>q. QED BY <3>0, <5>1 DEF Shape
      <4>2. ASSUME NEW why \in Reasons, ReplyFails(q, why) PROVE Shape(q)'
        <5>1. /\ pc[q] = "running" /\ pc'[q] = "failed" /\ op' = op /\ cause'[q] # None
              /\ local' = local /\ mu' = mu
          BY <4>2, ValuesAssumption DEF ReplyFails, TypeOK
        <5>q. QED BY <3>0, <5>1 DEF Shape
      <4>3. CASE CompleteRead(q)
        <5>1. /\ pc[q] = "replied" /\ op' = op /\ cause' = cause
              /\ \/ pc'[q] = "returned" /\ local' = local /\ mu' = mu
                 \/ pc'[q] = "completing" /\ local'[q] = row[RunOf(q)] /\ mu' = q
          BY <4>3 DEF CompleteRead, TypeOK, environment
        <5>2. row[RunOf(q)] # None
          BY <5>1 DEF RunsExist
        <5>q. QED BY <3>0, <5>1, <5>2 DEF Shape
      <4>4. CASE FailRead(q)
        <5>1. /\ pc[q] = "failed" /\ op' = op /\ cause' = cause
              /\ pc'[q] = "failing" /\ local'[q] = row[RunOf(q)] /\ mu' = q
          BY <4>4 DEF FailRead, TypeOK, environment
        <5>2. row[RunOf(q)] # None
          BY <5>1 DEF RunsExist
        <5>q. QED BY <3>0, <5>1, <5>2 DEF Shape
      <4>5. CASE CompleteWrite(q)
        <5>1. /\ pc[q] = "completing" /\ op' = op /\ cause' = cause
              /\ pc'[q] = "returned" /\ local'[q] = None /\ mu' # q
          BY <1>m, <4>5 DEF CompleteWrite, TypeOK, environment
        <5>q. QED BY <3>0, <5>1 DEF Shape
      <4>6. CASE FailWrite(q)
        <5>1. /\ pc[q] = "failing" /\ op' = op /\ cause'[q] = None
              /\ pc'[q] = "returned" /\ local'[q] = None /\ mu' # q
          BY <1>m, <4>6 DEF FailWrite, TypeOK
        <5>q. QED BY <3>0, <5>1 DEF Shape
      <4>q. QED BY <3>5, <4>1, <4>2, <4>3, <4>4, <4>5, <4>6 DEF chatTask
    <3>q. QED BY <1>1, <2>2, <3>1, <3>2, <3>3, <3>4, <3>5 DEF Step
  <2>q. QED BY <2>1, <2>2
<1>2. CASE Signal
  BY <1>0, <1>2 DEF Signal, Shapes, Shape
<1>3. CASE Restart
  <2>1. SUFFICES ASSUME NEW p \in Requests PROVE Shape(p)'
    BY DEF Shapes
  <2>2. /\ op' = op /\ local'[p] = None /\ cause'[p] = None /\ mu' # p
        /\ pc'[p] = IF pc[p] \in {"idle", "done", "gone"} THEN pc[p] ELSE "dead"
    BY <1>3, <1>m DEF Restart
  <2>q. QED BY <1>0, <2>2 DEF Shape
<1>4. CASE UNCHANGED vars
  BY <1>0, <1>4 DEF vars, Shapes, Shape
<1>q. QED BY <1>1, <1>2, <1>3, <1>4, Steps DEF Shapes

\* Rows are never deleted.
LEMMA RowsStay ==
  ASSUME TypeOK, Shapes, AllCoherent, AnswersAreOver, NEW q \in Requests, Step(q),
         NEW r \in Runs, row[r] # None
  PROVE  row'[r] # None
<1>1. CASE row' = row
  BY <1>1
<1>2. CASE row' # row
  <2>1. PICK x \in Runs, s \in States : Writes(q, x, s)
    BY <1>2, RowWrites
  <2>q. QED BY <2>1, ValuesAssumption DEF Writes, TypeOK
<1>q. QED BY <1>1, <1>2

\* A run that somebody works on, or a client knows, stays in the table.
LEMMA RunsExistStep ==
  ASSUME TypeOK, Shapes, RunsExist, AllCoherent, AnswersAreOver, [Next]_vars
  PROVE  RunsExist'
<1> USE Labels
<1>1. ASSUME NEW q \in Requests, Step(q) PROVE RunsExist'
  <2>1. ASSUME NEW p \in Requests, pc'[p] # "idle" PROVE row'[op'[p].run] # None
    <3>1. CASE p # q
      <4>1. pc[p] # "idle" /\ op'[p] = op[p]
        BY <1>1, <2>1, <3>1, OthersAreKept DEF Kept
      <4>2. op[p].run \in Runs /\ row[op[p].run] # None
        BY <4>1, Working DEF RunsExist, RunOf
      <4>q. QED BY <1>1, <4>1, <4>2, RowsStay
    <3>2. CASE p = q /\ pc[q] # "idle"
      <4>1. op'[q] = op[q]
        BY <1>1, <3>2, PcMoves
      <4>2. op[q].run \in Runs /\ row[op[q].run] # None
        BY <3>2, Working DEF RunsExist, RunOf
      <4>q. QED BY <1>1, <3>2, <4>1, <4>2, RowsStay
    <3>3. CASE p = q /\ pc[q] = "idle"
      BY <1>1, <3>3, CopyMoves
    <3>q. QED BY <3>1, <3>2, <3>3
  <2>2. known' = known \/ (pc[q] # "idle" /\ known' = known \cup {RunOf(q)})
    <3>1. CASE dispatch(q)
      BY <3>1 DEF dispatch
    <3>2. CASE Chat(q) \/ Abandon(q)
      BY <3>2 DEF Chat, StartRun, ContinueRead, StartStore, ContinueWrite, Abandon, environment
    <3>3. CASE Update(q)
      BY <3>3 DEF Update, UpdateRead, UpdateWrite, environment
    <3>4. CASE chatTask(q)
      BY <3>4 DEF chatTask, Reply, ReplyFails, CompleteRead, CompleteWrite, FailRead, FailWrite,
               Unregister, environment
    <3>q. QED BY <1>1, <3>1, <3>2, <3>3, <3>4 DEF Step
  <2>3. ASSUME NEW r \in known' PROVE row'[r] # None
    <3>1. r \in known \/ (pc[q] # "idle" /\ r = RunOf(q))
      BY <2>2
    <3>2. r \in Runs /\ row[r] # None
      BY <3>1, Working DEF RunsExist, TypeOK
    <3>q. QED BY <1>1, <3>2, RowsStay
  <2>q. QED BY <2>1, <2>3 DEF RunsExist, RunOf
<1>2. CASE Signal
  BY <1>2 DEF Signal, RunsExist, RunOf
<1>3. CASE Restart
  BY <1>3 DEF Restart, RunsExist, RunOf
<1>4. CASE UNCHANGED vars
  BY <1>4 DEF vars, RunsExist, RunOf
<1>q. QED BY <1>1, <1>2, <1>3, <1>4, Steps

\* A copy made under mu goes stale only when a chat call, which takes no
\* lock, writes the row: every other writer holds mu itself.
LEMMA FreshStep ==
  ASSUME TypeOK, Shapes, RunsExist, AllCoherent, AnswersAreOver, LockedCopiesAreFresh, [Next]_vars
  PROVE  LockedCopiesAreFresh'
<1> USE Labels
<1>0. \A p \in Requests : Shape(p)
  BY DEF Shapes
<1>1. ASSUME NEW q \in Requests, Step(q), NEW p \in Requests, pc'[p] \in Locked
      PROVE  overtaken' \/ local'[p] = row'[op'[p].run]
  <2>1. CASE p = q
    <3>1. ASSUME NEW r \in Runs, NEW k \in EditKinds \cup {"answer"}, UpdateRead(q, r, k)
          PROVE  local'[q] = row'[op'[q].run]
      BY <3>1 DEF UpdateRead, Begin, TypeOK
    <3>2. CASE CompleteRead(q) \/ FailRead(q)
      BY <1>1, <2>1, <3>2 DEF CompleteRead, FailRead, TypeOK, RunOf
    <3>3. CASE Chat(q)
      BY <1>1, <2>1, <3>3 DEF Chat, StartRun, ContinueRead, StartStore, ContinueWrite, Begin, TypeOK
    <3>4. CASE UpdateWrite(q) \/ dispatch(q) \/ Abandon(q)
      BY <1>1, <2>1, <3>4 DEF UpdateWrite, dispatch, Abandon, TypeOK
    <3>5. CASE Reply(q) \/ (\E why \in Reasons : ReplyFails(q, why)) \/ CompleteWrite(q)
               \/ FailWrite(q) \/ Unregister(q)
      BY <1>1, <2>1, <3>5 DEF Reply, ReplyFails, CompleteWrite, FailWrite, Unregister, TypeOK
    <3>q. QED BY <1>1, <2>1, <3>1, <3>2, <3>3, <3>4, <3>5 DEF Step, Update, chatTask
  <2>2. CASE p # q
    <3>1. pc[p] \in Locked /\ op'[p] = op[p] /\ local'[p] = local[p]
      BY <1>1, <2>2, OthersAreKept DEF Kept
    <3>2. mu = p /\ (overtaken \/ local[p] = row[op[p].run]) /\ op[p].run \in Runs
      BY <1>0, <3>1, Working DEF Shape, LockedCopiesAreFresh, RunOf
    <3>3. row[op[p].run] # None
      BY <3>1 DEF RunsExist, RunOf
    <3>4. ASSUME NEW r \in Runs, StartRun(q, r)
          PROVE  overtaken' = overtaken /\ row'[op[p].run] = row[op[p].run]
      BY <3>2, <3>3, <3>4 DEF StartRun, TypeOK
    <3>5. CASE StartStore(q) \/ ContinueWrite(q)
      <4>1. CASE RunOf(p) = RunOf(q)
        BY <2>2, <3>2, <3>5, <4>1 DEF StartStore, ContinueWrite, NoteOvertaken
      <4>2. CASE RunOf(p) # RunOf(q)
        BY <3>1, <3>2, <3>5, <4>2 DEF StartStore, ContinueWrite, NoteOvertaken, TypeOK, RunOf
      <4>q. QED BY <4>1, <4>2
    <3>6. ~UpdateWrite(q) /\ ~CompleteWrite(q) /\ ~FailWrite(q)
      BY <1>0, <2>2, <3>2 DEF UpdateWrite, CompleteWrite, FailWrite, Shape
    <3>7. ~CompleteRead(q) \/ (row' = row /\ overtaken' = overtaken)
      BY <3>2, NoneAssumption DEF CompleteRead
    <3>8. ~FailRead(q) /\ \A r \in Runs, k \in EditKinds \cup {"answer"} : ~UpdateRead(q, r, k)
      BY <3>2, NoneAssumption DEF FailRead, UpdateRead
    <3>9. CASE \/ \E r \in Runs : \E i \in InsertIndexes : ContinueRead(q, r, i)
               \/ dispatch(q) \/ Abandon(q) \/ Reply(q) \/ Unregister(q)
               \/ \E why \in Reasons : ReplyFails(q, why)
      BY <3>1, <3>2, <3>9 DEF ContinueRead, dispatch, Abandon, Reply, Unregister, ReplyFails
    <3>q. QED BY <1>1, <3>1, <3>2, <3>4, <3>5, <3>6, <3>7, <3>8, <3>9 DEF Step, Chat, Update, chatTask
  <2>q. QED BY <2>1, <2>2
<1>2. CASE Signal
  BY <1>2 DEF Signal, LockedCopiesAreFresh, RunOf
<1>3. CASE Restart
  BY <1>3 DEF Restart, LockedCopiesAreFresh
<1>4. CASE UNCHANGED vars
  BY <1>4 DEF vars, LockedCopiesAreFresh, RunOf
<1>5. CASE \E q \in Requests : Step(q)
  BY <1>1, <1>5 DEF LockedCopiesAreFresh, RunOf
<1>q. QED BY <1>2, <1>3, <1>4, <1>5, Steps

\* Every state, stored or copied, stays coherent.
LEMMA CoherentStep ==
  ASSUME TypeOK, Shapes, RunsExist, AllCoherent, AnswersAreOver, [Next]_vars
  PROVE  AllCoherent'
<1>1. ASSUME NEW q \in Requests, Step(q) PROVE AllCoherent'
  <2>1. ASSUME NEW r \in Runs, row'[r] # None PROVE Coherent(row'[r])
    <3>1. CASE row' = row
      BY <2>1, <3>1 DEF AllCoherent
    <3>2. CASE row' # row
      <4>1. PICK x \in Runs, s \in States : Writes(q, x, s)
        BY <1>1, <3>2, RowWrites
      <4>2. row'[r] = s \/ row'[r] = row[r]
        BY <4>1 DEF Writes, TypeOK
      <4>q. QED BY <2>1, <4>1, <4>2 DEF Writes, AllCoherent
    <3>q. QED BY <3>1, <3>2
  <2>2. ASSUME NEW p \in Requests, local'[p] # None PROVE Coherent(local'[p])
    <3>1. CASE local'[p] = local[p]
      BY <2>2, <3>1 DEF AllCoherent
    <3>2. CASE local'[p] # local[p]
      <4>1. p = q
        BY <1>1, <3>2, OthersAreKept DEF Kept
      <4>2. op'[q].run \in Runs /\ row'[op'[q].run] # None /\ local'[q] = row'[op'[q].run]
        BY <1>1, <2>2, <3>2, <4>1, CopyMoves
      <4>q. QED BY <2>1, <4>1, <4>2
    <3>q. QED BY <3>1, <3>2
  <2>3. /\ \A r \in Runs : row'[r] # None => Coherent(row'[r])
        /\ \A p \in Requests : local'[p] # None => Coherent(local'[p])
    BY <2>1, <2>2
  <2>q. QED BY <2>3 DEF AllCoherent, Coherent, Distinct
<1>2. CASE Signal \/ Restart \/ UNCHANGED vars
  <2>1. row' = row /\ \A p \in Requests : local'[p] \in {local[p], None}
    BY <1>2 DEF Signal, Restart, vars
  <2>2. /\ \A r \in Runs : row'[r] # None => Coherent(row'[r])
        /\ \A p \in Requests : local'[p] # None => Coherent(local'[p])
    BY <2>1 DEF AllCoherent
  <2>q. QED BY <2>2 DEF AllCoherent, Coherent, Distinct
<1>q. QED BY <1>1, <1>2, Steps

\* An answer is in a row, or in a copy of one, only when its task is over.
LEMMA AnswersStep ==
  ASSUME TypeOK, Shapes, RunsExist, AllCoherent, AnswersAreOver, [Next]_vars
  PROVE  AnswersAreOver'
<1> USE Labels
<1>1. ASSUME NEW q \in Requests, Step(q) PROVE AnswersAreOver'
  <2>0. ASSUME NEW p \in Requests, pc[p] \in Over PROVE pc'[p] \in Over
    BY <1>1, <2>0, OthersAreKept, PcMoves DEF Kept
  <2>1. ASSUME NEW r \in Runs, row'[r] # None, NEW p \in Answered(row'[r].blocks)
        PROVE  pc'[p] \in Over
    <3>0. p \in Requests
      BY DEF Answered
    <3>1. CASE row'[r] = row[r]
      BY <2>0, <2>1, <3>0, <3>1 DEF AnswersAreOver
    <3>2. CASE row'[r] # row[r]
      <4>1. PICK x \in Runs, s \in States : Writes(q, x, s)
        BY <1>1, <3>2, RowWrites
      <4>2. row'[r] = s
        BY <3>2, <4>1 DEF Writes, TypeOK
      <4>3. \/ local[q] # None /\ p \in Answered(local[q].blocks)
            \/ p = q /\ pc[q] = "completing"
        BY <2>1, <4>1, <4>2 DEF Writes
      <4>4. CASE local[q] # None /\ p \in Answered(local[q].blocks)
        BY <2>0, <3>0, <4>4 DEF AnswersAreOver
      <4>5. CASE p = q /\ pc[q] = "completing"
        BY <1>1, <4>5, PcMoves
      <4>q. QED BY <4>3, <4>4, <4>5
    <3>q. QED BY <3>1, <3>2
  <2>2. ASSUME NEW x \in Requests, local'[x] # None, NEW p \in Answered(local'[x].blocks)
        PROVE  pc'[p] \in Over
    <3>0. p \in Requests
      BY DEF Answered
    <3>1. CASE local'[x] = local[x]
      BY <2>0, <2>2, <3>0, <3>1 DEF AnswersAreOver
    <3>2. CASE local'[x] # local[x]
      <4>1. x = q
        BY <1>1, <3>2, OthersAreKept DEF Kept
      <4>2. op'[q].run \in Runs /\ row'[op'[q].run] # None /\ local'[q] = row'[op'[q].run]
        BY <1>1, <2>2, <3>2, <4>1, CopyMoves
      <4>q. QED BY <2>1, <2>2, <4>1, <4>2
    <3>q. QED BY <3>1, <3>2
  <2>3. /\ \A r \in Runs : row'[r] # None => \A p \in Answered(row'[r].blocks) : pc'[p] \in Over
        /\ \A x \in Requests : local'[x] # None => \A p \in Answered(local'[x].blocks) : pc'[p] \in Over
    BY <2>1, <2>2
  <2>q. QED BY <2>3 DEF AnswersAreOver, Answered
<1>2. CASE Signal
  BY <1>2 DEF Signal, AnswersAreOver, Answered
<1>3. CASE Restart
  <2>1. \A p \in Requests : pc[p] \in Over => pc'[p] \in Over
    BY <1>3 DEF Restart
  <2>2. row' = row /\ \A p \in Requests : local'[p] = None
    BY <1>3 DEF Restart
  <2>3. \A blocks : Answered(blocks) \subseteq Requests
    BY DEF Answered
  <2>4. /\ \A r \in Runs : row'[r] # None => \A p \in Answered(row'[r].blocks) : pc'[p] \in Over
        /\ \A x \in Requests : local'[x] # None => \A p \in Answered(local'[x].blocks) : pc'[p] \in Over
    BY <2>1, <2>2, <2>3 DEF AnswersAreOver
  <2>q. QED BY <2>4 DEF AnswersAreOver, Answered
<1>4. CASE UNCHANGED vars
  BY <1>4 DEF vars, AnswersAreOver, Answered
<1>q. QED BY <1>1, <1>2, <1>3, <1>4, Steps

\* The manager's handle of a run is a dispatched turn of it: the deferred
\* delete drops whatever handle the run has, so that it may drop too much
\* but leaves none behind.
LEMMA HandlesStep ==
  ASSUME TypeOK, Shapes, Handles, [Next]_vars
  PROVE  Handles'
<1> USE Labels
<1>1. ASSUME NEW q \in Requests, Step(q) PROVE Handles'
  <2>1. ASSUME NEW r \in Runs, handle'[r] # None, handle'[r] = handle[r], handle'[r] # q
        PROVE  op'[handle'[r]].run = r /\ pc'[handle'[r]] \in Tasking
    <3>1. PICK p \in Requests \ {q} : p = handle[r]
      BY <2>1 DEF TypeOK
    <3>2. op[p].run = r /\ pc[p] \in Tasking
      BY <2>1, <3>1 DEF Handles, RunOf
    <3>q. QED BY <1>1, <2>1, <3>1, <3>2, OthersAreKept DEF Kept
  <2>2. CASE dispatch(q)
    <3>1. handle' = [handle EXCEPT ![RunOf(q)] = q] /\ pc'[q] = "running" /\ op' = op /\ RunOf(q) \in Runs
      BY <2>2, Working DEF dispatch, TypeOK
    <3>2. ASSUME NEW r \in Runs, handle'[r] # None
          PROVE  op'[handle'[r]].run = r /\ pc'[handle'[r]] \in Tasking
      <4>1. CASE r = RunOf(q)
        BY <3>1, <4>1 DEF RunOf, TypeOK
      <4>2. CASE r # RunOf(q)
        <5>1. handle'[r] = handle[r]
          BY <3>1, <4>2 DEF TypeOK
        <5>2. handle[r] # q
          BY <2>2, <3>2, <5>1 DEF Handles, dispatch
        <5>q. QED BY <2>1, <3>2, <5>1, <5>2
      <4>q. QED BY <4>1, <4>2
    <3>q. QED BY <3>2 DEF Handles, RunOf
  <2>3. CASE Unregister(q)
    <3>1. handle' = [handle EXCEPT ![RunOf(q)] = None] /\ pc[q] = "returned" /\ RunOf(q) \in Runs
      BY <2>3, Working DEF Unregister
    <3>2. ASSUME NEW r \in Runs, handle'[r] # None
          PROVE  op'[handle'[r]].run = r /\ pc'[handle'[r]] \in Tasking
      <4>1. r # RunOf(q) /\ handle'[r] = handle[r]
        BY <3>1, <3>2 DEF TypeOK
      <4>2. handle[r] # q
        BY <3>2, <4>1 DEF Handles
      <4>q. QED BY <2>1, <3>2, <4>1, <4>2
    <3>q. QED BY <3>2 DEF Handles, RunOf
  <2>4. CASE ~dispatch(q) /\ ~Unregister(q)
    <3>1. handle' = handle
      <4>1. CASE Chat(q) \/ Abandon(q)
        BY <4>1 DEF Chat, StartRun, ContinueRead, StartStore, ContinueWrite, Abandon, environment
      <4>2. CASE Update(q)
        BY <4>2 DEF Update, UpdateRead, UpdateWrite, environment
      <4>3. CASE chatTask(q)
        BY <2>4, <4>3 DEF chatTask, Reply, ReplyFails, CompleteRead, CompleteWrite, FailRead, FailWrite,
                 environment
      <4>q. QED BY <1>1, <2>4, <4>1, <4>2, <4>3 DEF Step
    <3>2. pc[q] \in Tasking => pc'[q] \in Tasking
      <4>1. CASE Chat(q) \/ Abandon(q)
        BY <4>1 DEF Chat, StartRun, ContinueRead, StartStore, ContinueWrite, Abandon, Begin
      <4>2. CASE Update(q)
        BY <4>2 DEF Update, UpdateRead, UpdateWrite, Begin
      <4>3. CASE chatTask(q)
        BY <2>4, <4>3 DEF chatTask, Reply, ReplyFails, CompleteRead, CompleteWrite, FailRead, FailWrite,
                 TypeOK
      <4>q. QED BY <1>1, <2>4, <4>1, <4>2, <4>3 DEF Step
    <3>3. ASSUME NEW r \in Runs, handle'[r] # None
          PROVE  op'[handle'[r]].run = r /\ pc'[handle'[r]] \in Tasking
      <4>1. CASE handle[r] = q
        <5>1. op[q].run = r /\ pc[q] \in Tasking
          BY <3>1, <3>3, <4>1 DEF Handles, RunOf
        <5>2. op' = op
          BY <1>1, <5>1, PcMoves
        <5>q. QED BY <3>1, <3>2, <4>1, <5>1, <5>2
      <4>2. CASE handle[r] # q
        BY <2>1, <3>1, <3>3, <4>2
      <4>q. QED BY <4>1, <4>2
    <3>q. QED BY <3>3 DEF Handles, RunOf
  <2>q. QED BY <2>2, <2>3, <2>4
<1>2. CASE Signal
  BY <1>2 DEF Signal, Handles, RunOf
<1>3. CASE Restart
  BY <1>3 DEF Restart, Handles
<1>4. CASE UNCHANGED vars
  BY <1>4 DEF vars, Handles, RunOf
<1>q. QED BY <1>1, <1>2, <1>3, <1>4, Steps

-----------------------------------------------------------------------------
\* Once the end of a task is explained it stays so: turns that were
\* dispatched stay dispatched until a restart, which is an explanation too.
LEMMA ExplanationsStay ==
  ASSUME TypeOK, Shapes, NEW r \in Runs, Explained(r), [Next]_vars
  PROVE  Explained(r)'
<1> USE Labels
<1>1. ASSUME NEW q \in Requests, Step(q) PROVE Explained(r)'
  <2>1. root' = root /\ restarts' = restarts
    BY <1>1, PcMoves
  <2>2. ASSUME NEW x \in Requests, pc[x] \in Tasking \cup {"done"}
        PROVE  op'[x] = op[x] /\ pc'[x] \in Tasking \cup {"done"}
    BY <1>1, <2>2, OthersAreKept, PcMoves DEF Kept
  <2>3. CASE Superseded(r)
    <3>1. PICK p, q1 \in Requests :
            /\ p # q1
            /\ \A x \in {p, q1} : /\ RunOf(x) = r
                                  /\ op[x].kind \in TurnKinds
                                  /\ pc[x] \in Tasking \cup {"done"}
      BY <2>3 DEF Superseded
    <3>2. \A x \in {p, q1} : /\ op'[x].run = r
                             /\ op'[x].kind \in TurnKinds
                             /\ pc'[x] \in Tasking \cup {"done"}
      BY <2>2, <3>1 DEF RunOf
    <3>q. QED BY <3>1, <3>2 DEF Explained, Superseded, RunOf
  <2>q. QED BY <2>1, <2>3 DEF Explained
<1>2. CASE Signal
  BY <1>2 DEF Signal, Explained
<1>3. CASE Restart
  <2>1. restarts' > 0
    BY <1>3 DEF Restart, TypeOK
  <2>q. QED BY <2>1 DEF Explained
<1>4. CASE UNCHANGED vars
  BY <1>4 DEF vars, Explained, Superseded, RunOf
<1>q. QED BY <1>1, <1>2, <1>3, <1>4, Steps

\* A task is cancelled by the shutdown or by the dispatch of a later turn of
\* its run; its own release comes when it is done.
LEMMA Cancellations ==
  ASSUME TypeOK, Shapes, Handles, AllExplained, NEW q \in Requests, Step(q),
         NEW p \in Requests, pc'[p] \in Tasking, ctxDone'[p],
         NEW r \in Runs, op'[p].run = r
  PROVE  Explained(r)'
<1> USE Labels
<1>0. [Next]_vars /\ root' = root /\ op'[p] = op[p] /\ op[p].run = r
  <2>1. CASE p = q
    <3>1. pc[q] # "idle"
      <4>1. CASE Chat(q)
        BY <2>1, <4>1 DEF Chat, StartRun, ContinueRead, StartStore, ContinueWrite, Begin, TypeOK
      <4>2. CASE Update(q)
        BY <2>1, <4>2 DEF Update, UpdateRead, UpdateWrite, Begin, TypeOK
      <4>3. CASE dispatch(q) \/ Abandon(q)
        BY <4>3 DEF dispatch, Abandon
      <4>4. CASE chatTask(q)
        BY <4>4 DEF chatTask, Reply, ReplyFails, CompleteRead, CompleteWrite, FailRead, FailWrite,
                 Unregister
      <4>q. QED BY <4>1, <4>2, <4>3, <4>4 DEF Step
    <3>q. QED BY <2>1, <3>1, PcMoves, Working DEF Next, Step, RunOf
  <2>2. CASE p # q
    <3>1. Kept(p)
      BY <2>2, OthersAreKept
    <3>2. pc[p] # "idle"
      BY <3>1 DEF Kept
    <3>q. QED BY <3>1, <3>2, PcMoves, Working DEF Kept, Next, Step, RunOf
  <2>q. QED BY <2>1, <2>2
<1>1. CASE dispatch(q)
  <2>1. /\ pc[q] = "stored" /\ pc'[q] = "running" /\ op' = op /\ RunOf(q) \in Runs
        /\ op[q].kind \in TurnKinds
    BY <1>1, Working DEF dispatch, TypeOK, Shapes, Shape
  <2>2. CASE p = q
    <3>1. root
      BY <1>1, <2>2 DEF dispatch
    <3>q. QED BY <1>0, <3>1 DEF Explained
  <2>3. CASE p # q /\ ctxDone[p]
    <3>1. Explained(r)
      BY <1>0, <2>3, OthersAreKept DEF Kept, AllExplained, RunOf
    <3>q. QED BY <1>0, <3>1, ExplanationsStay
  <2>4. CASE p # q /\ p = handle[RunOf(q)]
    <3>1. RunOf(p) = RunOf(q) /\ pc[p] \in Tasking
      BY <2>1, <2>4, NoneAssumption DEF Handles
    <3>2. op[p].kind \in TurnKinds
      BY <3>1 DEF Shapes, Shape
    <3>3. pc'[p] = pc[p]
      BY <2>4, OthersAreKept DEF Kept
    <3>4. \A x \in {p, q} : /\ op'[x].run = r
                            /\ op'[x].kind \in TurnKinds
                            /\ pc'[x] \in Tasking \cup {"done"}
      BY <1>0, <2>1, <3>1, <3>2, <3>3 DEF RunOf
    <3>q. QED BY <2>4, <3>4 DEF Explained, Superseded, RunOf
  <2>5. p = q \/ ctxDone[p] \/ p = handle[RunOf(q)]
    BY <1>1 DEF dispatch
  <2>q. QED BY <2>2, <2>3, <2>4, <2>5
<1>2. CASE ~dispatch(q)
  <2>1. ctxDone'[p] = ctxDone[p]
    <3>1. CASE Chat(q) \/ Abandon(q)
      BY <3>1 DEF Chat, StartRun, ContinueRead, StartStore, ContinueWrite, Abandon, environment
    <3>2. CASE Update(q)
      BY <3>2 DEF Update, UpdateRead, UpdateWrite, environment
    <3>3. CASE Reply(q) \/ (\E why \in Reasons : ReplyFails(q, why)) \/ CompleteRead(q) \/ CompleteWrite(q)
               \/ FailRead(q) \/ FailWrite(q)
      <4>1. ctxDone' = ctxDone
        BY ONLY <3>3, Zenon DEF Reply, ReplyFails, CompleteRead, CompleteWrite, FailRead, FailWrite, environment
      <4>q. QED BY ONLY <4>1, Zenon
    <3>4. CASE Unregister(q)
      BY <3>4 DEF Unregister, TypeOK
    <3>q. QED BY <1>2, <3>1, <3>2, <3>3, <3>4 DEF Step, chatTask
  <2>2. pc[p] \in Tasking
    <3>1. CASE p # q
      BY <3>1, OthersAreKept DEF Kept
    <3>2. CASE p = q /\ (Chat(q) \/ Abandon(q))
      <4>1. CASE StartStore(q) \/ ContinueWrite(q) \/ Abandon(q)
        BY <3>2, <4>1 DEF StartStore, ContinueWrite, Abandon, TypeOK
      <4>2. CASE Chat(q) /\ ~StartStore(q) /\ ~ContinueWrite(q)
        BY <3>2, <4>2 DEF Chat, StartRun, ContinueRead, Begin, TypeOK
      <4>q. QED BY <3>2, <4>1, <4>2
    <3>3. CASE p = q /\ Update(q)
      BY <3>3 DEF Update, UpdateRead, UpdateWrite, Begin, TypeOK
    <3>4. CASE p = q /\ chatTask(q)
      BY <3>4 DEF chatTask, Reply, ReplyFails, CompleteRead, CompleteWrite, FailRead, FailWrite,
               Unregister
    <3>q. QED BY <1>2, <3>1, <3>2, <3>3, <3>4 DEF Step
  <2>3. Explained(r)
    BY <1>0, <2>1, <2>2 DEF AllExplained, RunOf
  <2>q. QED BY <1>0, <2>3, ExplanationsStay
<1>q. QED BY <1>1, <1>2

\* The reason "shutdown", from the cancelled context through classifyFailure
\* and failRun into the row and into later copies of it, is explained.
LEMMA ExplainedStep ==
  ASSUME IInv, [Next]_vars
  PROVE  AllExplained'
<1> USE Labels
<1>0. TypeOK /\ Shapes /\ RunsExist /\ AllCoherent /\ AnswersAreOver /\ Handles /\ AllExplained
  BY DEF IInv
<1>t. TypeOK' /\ Shapes'
  BY <1>0, TypeStep, ShapesStep
<1>s. ASSUME NEW r \in Runs, Explained(r) PROVE Explained(r)'
  BY <1>0, <1>s, ExplanationsStay
<1>1. ASSUME NEW q \in Requests, Step(q) PROVE AllExplained'
  <2>1. ASSUME NEW p \in Requests, pc'[p] \in Tasking, ctxDone'[p],
               NEW r \in Runs, op'[p].run = r
        PROVE  Explained(r)'
    BY <1>0, <1>1, <2>1, Cancellations
  <2>2. ASSUME NEW p \in Requests, cause'[p] = "shutdown", NEW r \in Runs, op'[p].run = r
        PROVE  Explained(r)'
    <3>1. CASE cause[p] = "shutdown"
      <4>1. pc[p] # "idle" /\ op[p].run \in Runs
        <5>1. Shape(p) /\ cause[p] # None
          BY <1>0, <3>1, ValuesAssumption DEF Shapes, Reasons
        <5>2. pc[p] \in {"failed", "failing"}
          BY <5>1 DEF Shape
        <5>q. QED BY <1>0, <5>2, Working DEF RunOf
      <4>2. op'[p] = op[p]
        BY <1>0, <1>1, <4>1, OthersAreKept, PcMoves DEF Kept
      <4>3. Explained(r)
        BY <1>0, <2>2, <3>1, <4>2 DEF AllExplained, RunOf
      <4>q. QED BY <1>s, <4>3
    <3>2. CASE cause[p] # "shutdown"
      <4>1. p = q
        BY <1>0, <1>1, <2>2, <3>2, OthersAreKept DEF Kept
      <4>2. ReplyFails(q, "shutdown")
        <5>1. CASE Chat(q) \/ Abandon(q) \/ Update(q) \/ dispatch(q)
          BY <2>2, <3>2, <4>1, <5>1 DEF Chat, StartRun, ContinueRead, StartStore, ContinueWrite, Abandon,
                   Update, UpdateRead, UpdateWrite, dispatch, environment
        <5>2. CASE chatTask(q) /\ ~\E why \in Reasons : ReplyFails(q, why)
          <6>1. cause'[q] \in {cause[q], None}
            BY <1>0, <5>2 DEF chatTask, Reply, CompleteRead, CompleteWrite, FailRead, FailWrite,
                     Unregister, environment, TypeOK
          <6>q. QED BY <2>2, <3>2, <4>1, <6>1, ValuesAssumption DEF Reasons
        <5>3. ASSUME NEW why \in Reasons, ReplyFails(q, why) PROVE why = "shutdown"
          BY <1>0, <2>2, <4>1, <5>3 DEF ReplyFails, TypeOK
        <5>q. QED BY <1>1, <5>1, <5>2, <5>3 DEF Step
      <4>3. pc'[q] \in Tasking /\ ctxDone'[q]
        BY <1>0, <4>2 DEF ReplyFails, TypeOK
      <4>q. QED BY <2>1, <2>2, <4>1, <4>3
    <3>q. QED BY <3>1, <3>2
  <2>3. ASSUME NEW r \in Runs, row'[r] # None, row'[r].reason = "shutdown"
        PROVE  Explained(r)'
    <3>1. CASE row'[r] = row[r]
      BY <1>0, <1>s, <2>3, <3>1 DEF AllExplained
    <3>2. CASE row'[r] # row[r]
      <4>1. PICK x \in Runs, s \in States :
              Writes(q, x, s) /\ op'[q].run = x /\ (row[x] = None \/ pc[q] # "idle")
        BY <1>0, <1>1, <3>2, RowWrites
      <4>2. row'[r] = s /\ r = x
        BY <1>0, <3>2, <4>1 DEF Writes, TypeOK
      <4>3. cause[q] = "shutdown" \/ (local[q] # None /\ local[q].reason = "shutdown")
        BY <2>3, <4>1, <4>2 DEF Writes
      <4>4. pc[q] # "idle"
        BY <1>0, <4>3, ValuesAssumption DEF Shapes, Shape, Reasons
      <4>5. op'[q] = op[q]
        BY <1>0, <1>1, <4>4, PcMoves
      <4>6. Explained(r)
        BY <1>0, <4>1, <4>2, <4>3, <4>5 DEF AllExplained, RunOf
      <4>q. QED BY <1>s, <4>6
    <3>q. QED BY <3>1, <3>2
  <2>4. ASSUME NEW p \in Requests, local'[p] # None, local'[p].reason = "shutdown",
               NEW r \in Runs, op'[p].run = r
        PROVE  Explained(r)'
    <3>1. CASE local'[p] = local[p] /\ op'[p] = op[p]
      <4>1. Explained(r)
        BY <1>0, <2>4, <3>1 DEF AllExplained, RunOf
      <4>q. QED BY <1>s, <4>1
    <3>2. CASE ~(local'[p] = local[p] /\ op'[p] = op[p])
      <4>1. p = q
        BY <1>0, <1>1, <3>2, OthersAreKept DEF Kept
      <4>2. row'[r] # None /\ local'[q] = row'[r]
        BY <1>0, <1>1, <2>4, <3>2, <4>1, CopyMoves
      <4>q. QED BY <2>3, <2>4, <4>1, <4>2
    <3>q. QED BY <3>1, <3>2
  <2>5. ASSUME NEW p \in Requests,
               \/ pc'[p] \in Tasking /\ ctxDone'[p]
               \/ cause'[p] = "shutdown"
               \/ local'[p] # None /\ local'[p].reason = "shutdown"
        PROVE  Explained(RunOf(p))'
    <3>1. pc'[p] # "idle"
      BY <1>t, <2>5, ValuesAssumption DEF Shapes, Shape, Reasons
    <3>2. op'[p].run \in Runs
      BY <1>t, <3>1, NoneAssumption DEF TypeOK, Shapes, Shape, NoOp
    <3>3. PICK r \in Runs : r = op'[p].run
      BY <3>2
    <3>4. Explained(r)'
      BY <2>1, <2>2, <2>4, <2>5, <3>3
    <3>q. QED BY <3>3, <3>4 DEF Explained, Superseded, RunOf
  <2>6. ASSUME NEW r \in Runs, (row[r] # None /\ row[r].reason = "shutdown")'
        PROVE  Explained(r)'
    BY <2>3, <2>6
  <2>q. QED BY <2>5, <2>6 DEF AllExplained
<1>2. CASE Signal \/ Restart
  <2>1. root' \/ restarts' > 0
    BY <1>0, <1>2 DEF Signal, Restart, TypeOK
  <2>q. QED BY <2>1 DEF AllExplained, Explained
<1>3. CASE UNCHANGED vars
  BY <1>0, <1>3 DEF vars, AllExplained, Explained, Superseded, RunOf
<1>q. QED BY <1>1, <1>2, <1>3, Steps

-----------------------------------------------------------------------------
\* The tables are empty at first.
LEMMA InitIInv == Init => IInv
<1> USE Labels
<1>1. SUFFICES ASSUME Init PROVE IInv
  OBVIOUS
<1>2. TypeOK
  <2>1. 0 \in 0..MaxRestarts
    BY RestartAssumption
  <2>2. pc \in [Requests -> {"idle"}] /\ op \in [Requests -> {NoOp}]
    BY <1>1 DEF Init
  <2>3. /\ row \in [Runs -> {None}] /\ local \in [Requests -> {None}]
        /\ cause \in [Requests -> {None}] /\ handle \in [Runs -> {None}]
        /\ ctxDone \in [Requests -> {FALSE}]
    BY <1>1 DEF Init
  <2>q. QED BY <1>1, <2>1, <2>2, <2>3 DEF Init, TypeOK
<1>3. Shapes
  <2>1. SUFFICES ASSUME NEW q \in Requests PROVE Shape(q)
    BY DEF Shapes
  <2>2. /\ pc[q] = "idle" /\ op[q].kind = "none" /\ local[q] = None /\ cause[q] = None
        /\ mu # q
    BY <1>1, NoneAssumption DEF Init, NoOp
  <2>q. QED BY <2>2 DEF Shape
<1>4. RunsExist /\ LockedCopiesAreFresh /\ Handles
  BY <1>1 DEF Init, RunsExist, LockedCopiesAreFresh, Handles
<1>5. AllCoherent /\ AnswersAreOver
  BY <1>1 DEF Init, AllCoherent, AnswersAreOver
<1>6. AllExplained
  BY <1>1, ValuesAssumption DEF Init, AllExplained, Reasons
<1>q. QED BY <1>2, <1>3, <1>4, <1>5, <1>6 DEF IInv

\* The inductive invariant holds of every behaviour of the chat service.
THEOREM Invariance == Spec => []IInv
<1>1. ASSUME IInv, [Next]_vars PROVE IInv'
  <2>0. /\ TypeOK /\ Shapes /\ RunsExist /\ LockedCopiesAreFresh /\ AllCoherent /\ AnswersAreOver
        /\ Handles /\ AllExplained
    BY <1>1 DEF IInv
  <2>1. TypeOK' /\ Shapes' /\ RunsExist'
    BY <1>1, <2>0, TypeStep, ShapesStep, RunsExistStep
  <2>2. LockedCopiesAreFresh' /\ AllCoherent' /\ AnswersAreOver'
    BY <1>1, <2>0, FreshStep, CoherentStep, AnswersStep
  <2>3. Handles' /\ AllExplained'
    BY <1>1, <2>0, HandlesStep, ExplainedStep
  <2>q. QED BY <2>1, <2>2, <2>3 DEF IInv
<1>q. QED BY <1>1, InitIInv, PTL DEF Spec

\* Updates and finishing tasks never lose each other's writes: mu is held
\* from the read of the row to its write, and only chat calls, which take no
\* lock, can get in between.
THEOREM LockedCopies == Spec => []LockedCopiesAreFresh
<1>1. IInv => LockedCopiesAreFresh
  BY DEF IInv
<1>q. QED BY <1>1, Invariance, PTL

\* What a client reads in a row agrees with itself: a processing run ends in
\* a loading block, a failed one has none, and only a failed one has a
\* reason, whichever of the whole-blob writes came last.
THEOREM CoherentRows == Spec => []RowsAreCoherent
<1>1. ASSUME IInv PROVE RowsAreCoherent
  <2>1. TypeOK /\ \A r \in Runs : row[r] # None => Coherent(row[r])
    BY <1>1 DEF IInv, AllCoherent
  <2>2. ProcessingShowsProgress
    BY ONLY <2>1 DEF ProcessingShowsProgress, Processing, Coherent
  <2>3. FailureIsFinal
    BY <2>1 DEF FailureIsFinal, Coherent
  <2>q. QED BY <2>1, <2>2, <2>3 DEF RowsAreCoherent
<1>q. QED BY <1>1, Invariance, PTL

\* No reply is recorded twice: completeRun fills or appends one block, a
\* task completes once, and every other writer keeps at most what it copied.
THEOREM RepliesAreRecordedOnce == Spec => []ReplyRecordedOnce
<1>1. ASSUME IInv, NEW r \in Runs, NEW q \in Requests, row[r] # None
      PROVE  Cardinality({i \in 1..Len(row[r].blocks) :
                row[r].blocks[i].role = "assistant" /\ row[r].blocks[i].by = q}) <= 1
  <2>1. PICK S : S = AnswersOf(row[r].blocks, q)
    OBVIOUS
  <2>2. \A i, j \in S : i = j
    <3>1. Distinct(row[r].blocks)
      BY <1>1, Zenon DEF IInv, AllCoherent, Coherent
    <3>q. QED BY ONLY <2>1, <3>1, q \in Requests, Zenon DEF Distinct
  <2>3. Cardinality(S) <= 1
    <3>1. CASE S = {}
      BY <3>1, FS_EmptySet
    <3>2. CASE S # {}
      <4>1. PICK i : S = {i}
        BY <2>2, <3>2
      <4>2. Cardinality({i}) = 1
        BY FS_Singleton
      <4>q. QED BY <4>1, <4>2
    <3>q. QED BY <3>1, <3>2
  <2>q. QED BY <2>1, <2>3 DEF AnswersOf
<1>2. IInv => ReplyRecordedOnce
  BY <1>1 DEF ReplyRecordedOnce
<1>q. QED BY <1>2, Invariance, PTL

\* "shutdown" is recorded for a run only in a shutdown, after a restart, or
\* when two of its turns were dispatched, one of which cancelled the other.
THEOREM ShutdownsAreExplained == Spec => []ShutdownReasonExplained
<1>1. IInv => ShutdownReasonExplained
  BY DEF IInv, AllExplained, ShutdownReasonExplained, Explained, Superseded
<1>q. QED BY <1>1, Invariance, PTL
=============================================================================
