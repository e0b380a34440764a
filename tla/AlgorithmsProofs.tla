-------------------------- MODULE AlgorithmsProofs --------------------------
(***************************************************************************)
(* What the sequential functions compute, whatever the sizes of their      *)
(* inputs: replies can be shown and failures are not acknowledged, chunks  *)
(* are the file, the first value of a completion is decoded and listings   *)
(* are whole.  What a recursive function computes is shown by induction on *)
(* sets of numbers: its defining equation has a solution, and a set that   *)
(* has a number of a range whenever it has all smaller (or all greater)    *)
(* ones is the whole range.                                                *)
(***************************************************************************)
EXTENDS Algorithms, FiniteSetTheorems, SequenceTheorems, WellFoundedInduction, TLAPS

TreeInput(i) ==
  \E tree \in Repositories : \E limit \in 1 .. Cardinality(tree) + 1 :
    i = [tree |-> tree, limit |-> limit]
\* The arguments are those the function takes.
Domains ==
  /\ fn = "chunkText" => in \in ChunkInputs
  /\ fn = "ExtractJSON" => in \in ExtractInputs
  /\ fn = "ReadTree" => TreeInput(in)
  /\ fn = "GetPRFiles" => in \in FilesInputs
  /\ fn = "ListSupergroups" => in \in SupergroupInputs
  /\ fn = "SummarizeIssue" => in \in IssueInputs
  /\ fn = "SummarizeTrace" => in \in TraceInputs
  /\ fn = "LabelGroups" => in \in LabelInputs
  /\ fn = "OneShot" => in \in OneShotInputs
  /\ fn = "UnitTests" => in \in UnitTestInputs
  /\ fn = "Scores" => in \in ScoreInputs
  /\ fn = "Title" => in \in TitleInputs

\* An answer is the function's.
Computed ==
  out # Pending =>
    /\ fn = "chunkText" =>
         out = LET s == Sizes(in.size, in.overlap) IN chunkText(in.text, s.size, s.overlap)
    /\ fn = "ExtractJSON" => out = ExtractJSON(in.text, in.kind)
    /\ fn = "ReadTree" => out = ReadTree(in.tree, in.limit)
    /\ fn = "GetPRFiles" => out = GetPRFiles(in.files, in.perPage, in.maxPages)
    /\ fn = "ListSupergroups" =>
         out = [sqlite |-> ListSQLite(in.rows, in.projects, Offset(in.offset), Limit(in.limit)),
                pg |-> ListPG(in.rows, in.projects, Offset(in.offset), Limit(in.limit))]
    /\ fn = "SummarizeIssue" => out = SummarizeIssue(in.request, in.c)
    /\ fn = "SummarizeTrace" => out = SummarizeTrace(in.c)
    /\ fn = "LabelGroups" => out = LabelGroups(in.labels, in.c)
    /\ fn = "OneShot" => out = OneShot(in.id, in.payload, in.c)
    /\ fn = "UnitTests" => out = UnitTests(in.repo, in.pr, in.files, in.c)
    /\ fn = "Scores" =>
         out = [severity |-> Score(in.request, in.severity), fixability |-> Fixability(in.fixability)]
    /\ fn = "Title" => out = Title(in.lines, in.c)

IInv == Domains /\ Computed

\* Every call is answered with what the function computes of its input.
LEMMA Invariance == Spec => []IInv
<1>1. Init => IInv
  BY DEF Init, IInv, Domains, Computed, TreeInput
<1>2. ASSUME IInv, [Next]_vars PROVE IInv'
  <2>0. Domains /\ Computed
    BY <1>2 DEF IInv
  <2>1. CASE Answered \/ UNCHANGED vars
    BY <2>0, <2>1 DEF Answered, IInv, Domains, Computed, vars
  <2>2. CASE ~(Answered \/ UNCHANGED vars)
    <3>1. fn' = fn /\ in' = in
      BY <1>2, <2>2 DEF Next, Answer, RunChunkText, RunExtractJSON, RunReadTree, RunGetPRFiles,
               RunListSupergroups, RunSummarizeIssue, RunSummarizeTrace, RunLabelGroups, RunOneShot,
               RunUnitTests, RunScores, RunTitle
    <3>2. Computed'
      <4>1. CASE RunChunkText \/ RunExtractJSON \/ RunReadTree \/ RunGetPRFiles \/ RunListSupergroups
        BY <3>1, <4>1 DEF Answer, RunChunkText, RunExtractJSON, RunReadTree, RunGetPRFiles,
                 RunListSupergroups, Computed
      <4>2. CASE RunSummarizeIssue \/ RunSummarizeTrace \/ RunLabelGroups
        BY <3>1, <4>2 DEF Answer, RunSummarizeIssue, RunSummarizeTrace, RunLabelGroups, Computed
      <4>3. CASE RunOneShot \/ RunUnitTests \/ RunScores \/ RunTitle
        BY <3>1, <4>3 DEF Answer, RunOneShot, RunUnitTests, RunScores, RunTitle, Computed
      <4>q. QED BY <1>2, <2>2, <4>1, <4>2, <4>3 DEF Next
    <3>q. QED BY <2>0, <3>1, <3>2 DEF IInv, Domains
  <2>q. QED BY <2>1, <2>2
<1>q. QED BY <1>1, <1>2, PTL DEF Spec

-----------------------------------------------------------------------------
\* A clamped score is in its range.
LEMMA ClampIs ==
  ASSUME NEW x \in Int, NEW top \in Nat
  PROVE  Clamp(x, top) \in 0..top
<1>1. PICK low \in Int : low = Min({x, top}) /\ low <= top
  <2>1. \E m \in {x, top} : \A y \in {x, top} : m <= y
    OBVIOUS
  <2>q. QED BY <2>1 DEF Min
<1>2. \E m \in {0, low} : \A y \in {0, low} : m >= y
  OBVIOUS
<1>3. Max({0, low}) \in 0..top
  BY <1>1, <1>2 DEF Max
<1>q. QED BY <1>1, <1>3 DEF Clamp

\* Severity is a share of one, for any number the model gives and any count
\* of alarming words.
LEMMA ScoreIs ==
  ASSUME NEW request \in [tokens : Nat, stacktrace : BOOLEAN, handled : BOOLEAN \cup {Missing}],
         NEW c \in {Down, Garbage, Missing} \cup Int
  PROVE  Score(request, c) \in 0..100
<1>1. heuristicScore(request) \in 0..100
  <2>a. request.tokens \in Nat
    OBVIOUS
  <2>b. (IF request.stacktrace THEN 15 ELSE 0) \in Int
    OBVIOUS
  <2>c. ASSUME NEW p, NEW q
        PROVE  (CASE p -> 0 [] q -> -5 [] OTHER -> 15) \in Int
    OBVIOUS
  <2>d. \A t \in Nat : \A s, u \in Int : 25 + 18 * t + s + u \in Int
    OBVIOUS
  <2>1. PICK h \in Int : h = 25 + 18 * request.tokens + (IF request.stacktrace THEN 15 ELSE 0)
        + (CASE request.handled = Missing -> 0 [] request.handled = TRUE -> -5 [] OTHER -> 15)
    <3>1. PICK s \in Int : s = IF request.stacktrace THEN 15 ELSE 0
      BY ONLY <2>b, Zenon
    <3>2. PICK u \in Int :
            u = CASE request.handled = Missing -> 0 [] request.handled = TRUE -> -5 [] OTHER -> 15
      BY ONLY <2>c, Zenon
    <3>3. 25 + 18 * request.tokens + s + u \in Int
      BY ONLY <2>a, <2>d, s \in Int, u \in Int, Zenon
    <3>q. QED BY ONLY <3>1, <3>2, <3>3, Zenon
  <2>2. heuristicScore(request) = Clamp(h, 100)
    BY <2>1 DEF heuristicScore
  <2>q. QED BY <2>2, ClampIs
<1>2. CASE c \in {Down, Garbage} \/ c = Missing
  BY <1>1, <1>2 DEF Score
<1>3. CASE ~(c \in {Down, Garbage} \/ c = Missing)
  <2>0. c \in Int /\ 1000 \in Nat
    BY <1>3
  <2>1. PICK x \in Int, top \in Nat : x = c /\ top = 1000
    BY <2>0
  <2>3. PICK k \in 0..top : k = Clamp(x, top)
    BY ClampIs
  <2>2. (k + 5) \div 10 \in 0..100
    BY <2>1
  <2>q. QED BY <1>3, <2>1, <2>2, <2>3 DEF Score
<1>q. QED BY <1>2, <1>3

\* Fixability is one, too: a number out of range is replaced.
LEMMA FixabilityIs ==
  ASSUME NEW c, c \notin {Down, Garbage} => c.score \in {Missing} \cup Int
  PROVE  Fixability(c).score \in 0..100
<1>1. CASE c \in {Down, Garbage}
  BY <1>1 DEF Fixability
<1>2. CASE c \notin {Down, Garbage}
  <2>1. PICK s \in Int : s = firstNonEmpty(c.score, 0)
    BY <1>2 DEF firstNonEmpty
  <2>2. Fixability(c).score = IF s < 0 \/ s > 100 THEN 61 ELSE s
    BY <1>2, <2>1 DEF Fixability
  <2>q. QED BY <2>2
<1>q. QED BY <1>1, <1>2

\* A set of numbers has a least element: the first line that is not blank.
LEMMA LeastIs ==
  ASSUME NEW T \in SUBSET Nat, T # {}
  PROVE  Min(T) \in T /\ \A y \in T : Min(T) <= y
<1>1. PICK R : R = OpToRel(<, Nat)
  OBVIOUS
<1>2. IsWellFoundedOn(R, Nat)
  BY <1>1, NatLessThanWellFounded
<1>3. \A m, n \in Nat : m < n => <<m, n>> \in R
  BY <1>1 DEF OpToRel
<1>4. PICK x \in T : \A y \in T : ~(<<y, x>> \in R)
  BY <1>2, WFMin
<1>5. ASSUME NEW y \in T PROVE x <= y
  <2>1. x \in Nat /\ y \in Nat /\ ~(y < x)
    BY <1>3, <1>4
  <2>q. QED BY <2>1
<1>q. QED BY <1>5 DEF Min

\* A title is neither empty nor too long, for any lines and any answer.
LEMMA TitleIs ==
  ASSUME NEW lines \in Seq(Nat), NEW c \in {Down, Garbage} \cup Nat
  PROVE  Title(lines, c) \in 1..TitleLength
<1>1. ASSUME NEW n \in Nat, n > 0 PROVE truncateTitle(n) \in 1..TitleLength
  <2>1. \E m \in {n, 60} : \A y \in {n, 60} : m <= y
    OBVIOUS
  <2>2. Min({n, 60}) \in 1..60
    BY <1>1, <2>1 DEF Min
  <2>q. QED BY <2>2 DEF truncateTitle, TitleLength
<1>2. DeriveFeedbackTitle(lines) \in 1..TitleLength
  <2>1. PICK written : written = {i \in 1..Len(lines) : lines[i] > 0}
    OBVIOUS
  <2>2. CASE written = {}
    <3>1. DeriveFeedbackTitle(lines) = 13
      BY ONLY <2>1, <2>2, Zenon DEF DeriveFeedbackTitle
    <3>q. QED BY <3>1 DEF TitleLength
  <2>3. CASE written # {}
    <3>1. written \in SUBSET Nat
      BY <2>1
    <3>2. PICK i \in written : i = Min(written)
      BY <2>3, <3>1, LeastIs
    <3>3. lines[i] \in Nat /\ lines[i] > 0
      BY <2>1, <3>2
    <3>4. DeriveFeedbackTitle(lines) = truncateTitle(lines[i])
      BY <2>1, <2>3, <3>2 DEF DeriveFeedbackTitle
    <3>q. QED BY <1>1, <3>3, <3>4
  <2>q. QED BY <2>2, <2>3
<1>3. CASE c \in {Down, Garbage} \/ c = 0
  BY <1>2, <1>3 DEF Title
<1>4. CASE ~(c \in {Down, Garbage} \/ c = 0)
  BY <1>1, <1>4 DEF Title
<1>q. QED BY <1>3, <1>4

\* A request and the model's answer to it, with texts from T.
Summarizable(T, request, c) ==
  /\ Missing \notin T /\ {"Issue summary", NoTrace, HasTrace} \subseteq T
  /\ request \in [title : {Missing} \cup T, culprit : {Missing} \cup T, trace_tree : BOOLEAN]
  /\ c \notin {Down, Garbage} =>
       c \in [headline : {Missing} \cup T, whats_wrong : {Missing} \cup T, trace : {Missing} \cup T]

\* An issue summary is complete and does not deny a trace that was sent.
LEMMA SummaryIs ==
  ASSUME NEW T, NEW request, NEW c, Summarizable(T, request, c), SummarizeIssue(request, c) # Error
  PROVE  /\ request.trace_tree => SummarizeIssue(request, c).trace # NoTrace
         /\ SummarizeIssue(request, c).headline # Missing
         /\ SummarizeIssue(request, c).whats_wrong # Missing
         /\ SummarizeIssue(request, c).trace # Missing
<1> USE DEF Summarizable
<1>0. \A v \in {Missing} \cup T, d \in T : firstNonEmpty(v, d) \in T
  BY DEF firstNonEmpty
<1>1. PICK title \in T : title = IssueTitle(request)
  <2>0. "Issue summary" \in T /\ {request.title, request.culprit} \subseteq {Missing} \cup T
    OBVIOUS
  <2>1. firstNonEmpty(request.culprit, "Issue summary") \in T
    BY <1>0, <2>0
  <2>2. IssueTitle(request) \in T
    BY ONLY <1>0, <2>0, <2>1, Zenon DEF IssueTitle
  <2>q. QED BY <2>2
<1>2. c # Down
  BY ONLY CompletionsAssumption, SummarizeIssue(request, c) # Error, Zenon DEF SummarizeIssue
<1>3. ASSUME NEW t \in T
      PROVE  \E trace \in T :
               /\ trace = IF request.trace_tree /\ t = NoTrace THEN HasTrace ELSE t
               /\ request.trace_tree => trace # NoTrace
  BY DEF NoTrace, HasTrace
<1>4. CASE c = Garbage
  <2>0. PICK trace \in T : /\ trace = IF request.trace_tree /\ NoTrace = NoTrace THEN HasTrace ELSE NoTrace
                           /\ request.trace_tree => trace # NoTrace
    BY <1>3
  <2>1. SummarizeIssue(request, c) = [headline |-> title, whats_wrong |-> title, trace |-> trace]
    BY <1>1, <1>2, <1>4, <2>0 DEF SummarizeIssue
  <2>q. QED BY ONLY <2>0, <2>1, Missing \notin T
<1>5. CASE c # Garbage
  <2>1. PICK t \in T : t = firstNonEmpty(c.trace, NoTrace)
    BY <1>0, <1>2, <1>5 DEF NoTrace
  <2>2. PICK h \in T : h = firstNonEmpty(c.headline, title)
    BY <1>0, <1>2, <1>5
  <2>3. PICK w \in T : w = firstNonEmpty(c.whats_wrong, title)
    BY <1>0, <1>2, <1>5
  <2>0. PICK trace \in T : /\ trace = IF request.trace_tree /\ t = NoTrace THEN HasTrace ELSE t
                           /\ request.trace_tree => trace # NoTrace
    BY <1>3
  <2>4. SummarizeIssue(request, c) = [headline |-> h, whats_wrong |-> w, trace |-> trace]
    BY <1>1, <1>2, <1>5, <2>0, <2>1, <2>2, <2>3 DEF SummarizeIssue
  <2>q. QED BY ONLY <2>0, <2>4, Missing \notin T
<1>q. QED BY <1>4, <1>5

\* A trace summary has a text and a suggestion.
LEMMA TraceSummaryIs ==
  ASSUME NEW in0 \in TraceInputs
  PROVE  SummarizeTrace(in0.c).summary # Missing /\ SummarizeTrace(in0.c).suggested # <<>>
<1>1. CASE in0.c \in {Down, Garbage}
  BY <1>1, MissingAssumption DEF SummarizeTrace, Texts
<1>2. CASE in0.c \notin {Down, Garbage}
  <2>1. PICK c : c = in0.c /\ c \in [summary : {Missing, "model"}, suggested : {<<>>, <<"model">>}]
    BY <1>2 DEF TraceInputs, Answers
  <2>2. PICK u : u = firstNonEmpty(c.summary, "inspect") /\ u # Missing
    BY <2>1, MissingAssumption DEF firstNonEmpty, Texts
  <2>3. PICK l : l = (IF c.suggested = <<>> THEN <<"span">> ELSE c.suggested) /\ l # <<>>
    <3>1. <<"span">> # <<>>
      OBVIOUS
    <3>q. QED BY ONLY <3>1, Zenon
  <2>4. SummarizeTrace(in0.c) = [summary |-> u, suggested |-> l]
    BY <1>2, <2>1, <2>2, <2>3 DEF SummarizeTrace
  <2>q. QED BY ONLY <2>2, <2>3, <2>4
<1>q. QED BY <1>1, <1>2

\* Label groups list their labels, and without a usable answer each label is
\* a group of its own.
LEMMA GroupsAre ==
  ASSUME NEW in0 \in LabelInputs, NEW r, r = LabelGroups(in0.labels, in0.c), r # Error
  PROVE  /\ \A i \in 1..Len(r) : r[i].associated # Missing
         /\ in0.c = Garbage => {g.primary : g \in ToSet(r)} = ToSet(in0.labels)
<1>a. Down # <<>>
  BY CompletionsAssumption
<1>0. in0.c # Down
  <2>1. SUFFICES ASSUME in0.c = Down PROVE FALSE
    OBVIOUS
  <2>2. in0.c # Garbage /\ in0.c # <<>>
    BY <1>a, <2>1, CompletionsAssumption
  <2>q. QED BY <2>1, <2>2 DEF LabelGroups
<1>1. CASE in0.c = Garbage \/ in0.c = <<>>
  <2>0. PICK labels : labels = in0.labels
    OBVIOUS
  <2>1. PICK n \in Nat : n = Len(labels) /\ DOMAIN labels = 1..n
    <3>1. labels \in {<<>>, <<"l1">>, <<"l1", "l2">>}
      BY <2>0 DEF LabelInputs
    <3>2. CASE labels = <<>>
      BY <3>2
    <3>3. CASE labels = <<"l1">>
      BY <3>3
    <3>4. CASE labels = <<"l1", "l2">>
      BY <3>4
    <3>q. QED BY <3>1, <3>2, <3>3, <3>4
  <2>2. r = [i \in 1..n |-> [primary |-> labels[i], associated |-> {}]]
    BY <1>0, <1>1, <2>0, <2>1 DEF LabelGroups
  <2>3. \A i \in 1..n : r[i].associated = {} /\ r[i].primary = labels[i]
    BY <2>2
  <2>4. Len(r) = n /\ DOMAIN r = 1..n
    BY <2>2
  <2>5. {g.primary : g \in ToSet(r)} = {labels[i] : i \in 1..n}
    <3>1. ToSet(r) = {r[i] : i \in 1..n}
      BY <2>4 DEF ToSet
    <3>2. ASSUME NEW x PROVE x \in {g.primary : g \in ToSet(r)} <=> \E i \in 1..n : x = r[i].primary
      BY <3>1
    <3>3. ASSUME NEW x PROVE x \in {g.primary : g \in ToSet(r)} <=> x \in {labels[i] : i \in 1..n}
      BY <2>3, <3>2
    <3>q. QED BY <3>3
  <2>6. ToSet(labels) = {labels[i] : i \in 1..n}
    BY <2>1 DEF ToSet
  <2>q. QED BY <2>0, <2>3, <2>4, <2>5, <2>6, MissingAssumption
<1>2. CASE ~(in0.c = Garbage \/ in0.c = <<>>)
  <2>1. PICK g \in [primary : {Missing, "l1"}, associated : {Missing, {"l2"}}] : in0.c = <<g>>
    BY <1>0, <1>2 DEF LabelInputs, Answers
  <2>2. PICK a : a = firstNonEmpty(g.associated, {}) /\ a # Missing
    BY MissingAssumption DEF firstNonEmpty
  <2>3. r = [i \in 1..1 |-> [<<g>>[i] EXCEPT !.associated = firstNonEmpty(@, {})]]
    BY <1>0, <1>2, <2>1 DEF LabelGroups
  <2>4. Len(r) = 1 /\ r[1] = [g EXCEPT !.associated = a]
    BY <2>2, <2>3
  <2>5. r[1].associated = a
    BY <2>4
  <2>q. QED BY <1>2, <2>2, <2>4, <2>5
<1>q. QED BY <1>1, <1>2

\* A one-shot result is under the key of the task or is not the payload.
LEMMA ResultIsNoEcho ==
  ASSUME NEW id, NEW payload, NEW c, OneShot(id, payload, c) # Error
  PROVE  OneShot(id, payload, c) # [object |-> payload]
<1>0. ASSUME NEW v PROVE [object |-> v].object = v /\ DOMAIN [object |-> v] = {"object"}
  OBVIOUS
<1>a. ASSUME NEW v PROVE DOMAIN [key |-> v] = {"key"}
  OBVIOUS
<1>1. PICK bad : bad = [object |-> payload] /\ bad.object = payload /\ DOMAIN bad = {"object"}
  BY <1>0, Zenon
<1>2. PICK keyed : keyed = [key |-> OneShotKey(id)] /\ DOMAIN keyed = {"key"}
  BY <1>a, Zenon
<1>3. PICK result : result = [object |-> c] /\ result.object = c
  BY <1>0, Zenon
<1>4. "key" # "object"
  OBVIOUS
<1>5. keyed # bad
  BY <1>1, <1>2, <1>4
<1>6. c # payload => result # bad
  BY <1>1, <1>3
<1>q. QED BY <1>1, <1>2, <1>3, <1>5, <1>6 DEF OneShot

-----------------------------------------------------------------------------
\* UnitTests reports a failing host and a failing model, and only those, for
\* every outcome of the three calls it makes.
THEOREM FailuresAreReported == Spec => []FailuresAreNotAcknowledged
<1>1. ASSUME IInv PROVE FailuresAreNotAcknowledged
  <2>0. SUFFICES ASSUME fn = "UnitTests", out # Pending
                 PROVE  FailuresAreNotAcknowledged
    BY DEF FailuresAreNotAcknowledged, Has
  <2>1. PICK repo \in {"incomplete", "named"}, pr \in {"found", "not_found", "failed"},
             files \in {"some", "none", "not_found", "failed"}, c \in {Down, "tests"} :
          in.repo = repo /\ in.pr = pr /\ in.files = files /\ in.c = c
    BY <1>1, <2>0 DEF IInv, Domains, UnitTestInputs
  <2>2. out = UnitTests(repo, pr, files, c)
    BY <1>1, <2>0, <2>1 DEF IInv, Computed
  <2>a. \A v \in {Missing, "tests"} : [tests |-> v] # Error
    BY ErrorAssumption
  <2>3. PICK none : none = [tests |-> Missing] /\ none # Error
    BY <2>a, Zenon
  <2>4. PICK made : made = [tests |-> c] /\ (c # Down => made # Error)
    BY <2>a, Zenon
  <2>5. out = IF \/ repo = "incomplete"
                 \/ pr = "not_found"
                 \/ pr = "found" /\ files \in {"not_found", "none"}
              THEN none
              ELSE IF pr = "failed" \/ files = "failed" \/ c = Down THEN Error ELSE made
    BY <2>2, <2>3, <2>4 DEF UnitTests
  <2>q. QED BY <2>1, <2>3, <2>4, <2>5 DEF FailuresAreNotAcknowledged
<1>q. QED BY <1>1, Invariance, PTL

\* Whatever the model answers: an issue's and a trace's summary have their
\* texts and deny no trace that was sent, label groups have their lists of
\* labels (not always a primary one), the one-shot endpoint does not hand the
\* payload back, scores are clamped and titles cut, for all numbers and lengths.
THEOREM RepliesAreShown == Spec => []RepliesCanBeShown
<1>1. ASSUME IInv PROVE RepliesCanBeShown
  <2>0. Domains /\ Computed
    BY <1>1 DEF IInv
  <2>1. ASSUME Has("SummarizeIssue"), out # Error
        PROVE  /\ in.request.trace_tree => out.trace # NoTrace
               /\ Missing \notin {out.headline, out.whats_wrong, out.trace}
    <3>1. PICK T : T = Texts
      OBVIOUS
    <3>2. Missing \notin T /\ {"Issue summary", NoTrace, HasTrace} \subseteq T
      BY <3>1, MissingAssumption DEF Texts
    <3>3. PICK request, c :
            /\ in.request = request /\ in.c = c
            /\ request \in [title : {Missing} \cup T, culprit : {Missing} \cup T, trace_tree : BOOLEAN]
            /\ c \notin {Down, Garbage} =>
                 c \in [headline : {Missing} \cup T, whats_wrong : {Missing} \cup T,
                        trace : {Missing} \cup T]
      <4>1. in \in IssueInputs
        BY <2>0, <2>1 DEF Has, Domains
      <4>2. {"title", "culprit", "model", NoTrace} \subseteq T
        BY <3>1 DEF Texts
      <4>3. PICK request, c : in.request = request /\ in.c = c
        OBVIOUS
      <4>4. /\ request \in [title : {Missing, "title"}, culprit : {Missing, "culprit"}, trace_tree : BOOLEAN]
            /\ c \notin {Down, Garbage} =>
                 c \in [headline : {Missing, "model"}, whats_wrong : {Missing, "model"},
                        trace : {Missing, "model", NoTrace}]
        BY <4>1, <4>3 DEF IssueInputs, Answers
      <4>5. request \in [title : {Missing} \cup T, culprit : {Missing} \cup T, trace_tree : BOOLEAN]
        BY <4>2, <4>4
      <4>6. c \notin {Down, Garbage} =>
              c \in [headline : {Missing} \cup T, whats_wrong : {Missing} \cup T,
                     trace : {Missing} \cup T]
        BY <4>2, <4>4
      <4>q. QED BY <4>3, <4>5, <4>6
    <3>4. out = SummarizeIssue(request, c)
      BY <2>0, <2>1, <3>3 DEF Has, Computed
    <3>5. SummarizeIssue(request, c) # Error
      BY <2>1, <3>4
    <3>6. /\ request.trace_tree => SummarizeIssue(request, c).trace # NoTrace
          /\ SummarizeIssue(request, c).headline # Missing
          /\ SummarizeIssue(request, c).whats_wrong # Missing
          /\ SummarizeIssue(request, c).trace # Missing
      <4>1. Summarizable(T, request, c)
        BY ONLY <3>2, <3>3, Zenon DEF Summarizable
      <4>q. QED BY ONLY <3>5, <4>1, SummaryIs, Zenon
    <3>q. QED BY ONLY <3>3, <3>4, <3>6, Zenon
  <2>2. TraceIsNotDenied
    BY <2>1 DEF TraceIsNotDenied
  <2>3. RepliesAreFilled
    <3>1. Has("SummarizeTrace") => out.summary # Missing /\ out.suggested # <<>>
      BY <2>0, TraceSummaryIs DEF Has, Domains, Computed
    <3>2. ASSUME Has("LabelGroups"), out # Error
          PROVE  /\ \A i \in 1..Len(out) : out[i].associated # Missing
                 /\ in.c = Garbage => {g.primary : g \in ToSet(out)} = ToSet(in.labels)
      BY <2>0, <3>2, GroupsAre DEF Has, Domains, Computed
    <3>q. QED BY <2>1, <3>1, <3>2 DEF RepliesAreFilled
  <2>4. EchoIsNoResult
    BY <2>0, ResultIsNoEcho DEF EchoIsNoResult, Has, Computed
  <2>5. ScoresAreShares
    <3>0. SUFFICES ASSUME Has("Scores")
                   PROVE  out.severity \in 0..100 /\ out.fixability.score \in 0..100
      BY DEF ScoresAreShares
    <3>1. PICK request, s, f :
            /\ request \in [tokens : Nat, stacktrace : BOOLEAN, handled : BOOLEAN \cup {Missing}]
            /\ s \in {Down, Garbage, Missing} \cup Int
            /\ in.request = request /\ in.severity = s /\ in.fixability = f
            /\ f \notin {Down, Garbage} => f.score \in {Missing} \cup Int
      <4>1. in \in ScoreInputs
        BY <2>0, <3>0 DEF Has, Domains
      <4>2. PICK request, s, f : in.request = request /\ in.severity = s /\ in.fixability = f
        OBVIOUS
      <4>3. /\ request \in [tokens : 0..6, stacktrace : BOOLEAN, handled : BOOLEAN \cup {Missing}]
            /\ s \in {Down, Garbage, Missing} \cup Severities
            /\ f \notin {Down, Garbage} => f.score \in {Missing} \cup Fixabilities
        BY <4>1, <4>2 DEF ScoreInputs, Answers
      <4>4. \A k \in 0..6 : k \in Nat
        OBVIOUS
      <4>5. request \in [tokens : Nat, stacktrace : BOOLEAN, handled : BOOLEAN \cup {Missing}]
        BY <4>3, <4>4
      <4>6. Severities \subseteq Int /\ Fixabilities \subseteq Int
        BY NumbersAssumption
      <4>q. QED BY <4>2, <4>3, <4>5, <4>6, Zenon
    <3>2. out = [severity |-> Score(request, s), fixability |-> Fixability(f)]
      BY <2>0, <3>0, <3>1 DEF Has, Computed
    <3>3. Score(request, s) \in 0..100
      BY <3>1, ScoreIs
    <3>4. Fixability(f).score \in 0..100
      BY <3>1, FixabilityIs
    <3>q. QED BY ONLY <3>2, <3>3, <3>4
  <2>6. TitlesFit
    <3>0. SUFFICES ASSUME Has("Title") PROVE out \in 1..TitleLength
      BY DEF TitlesFit
    <3>1. PICK n, lines, c :
            /\ n \in 0..MaxRows /\ lines \in [1..n -> Lengths] /\ c \in {Down, Garbage} \cup Nat
            /\ in.lines = lines /\ in.c = c
      <4>1. in \in TitleInputs
        BY <2>0, <3>0 DEF Has, Domains
      <4>2. PICK lines, c : in.lines = lines /\ in.c = c
        OBVIOUS
      <4>3. lines \in UNION {[1..n -> Lengths] : n \in 0..MaxRows} /\ c \in {Down, Garbage} \cup Lengths
        BY <4>1, <4>2 DEF TitleInputs, Answers
      <4>4. PICK n \in 0..MaxRows : lines \in [1..n -> Lengths]
        BY <4>3
      <4>5. Lengths \subseteq Nat
        BY NumbersAssumption
      <4>q. QED BY <4>2, <4>3, <4>4, <4>5, Zenon
    <3>2. lines \in Seq(Nat)
      <4>1. n \in Nat
        BY <3>1, NumbersAssumption
      <4>2. lines \in [1..n -> Nat]
        BY <3>1, NumbersAssumption
      <4>q. QED BY ONLY <4>1, <4>2
    <3>3. out = Title(lines, c)
      BY <2>0, <3>0, <3>1 DEF Has, Computed
    <3>q. QED BY <3>1, <3>2, <3>3, TitleIs
  <2>q. QED BY <2>2, <2>3, <2>4, <2>5, <2>6 DEF RepliesCanBeShown
<1>q. QED BY <1>1, Invariance, PTL

-----------------------------------------------------------------------------
\* Induction from the end of a range to its beginning: what holds at its last
\* number, and at every number if at all later ones, holds throughout.
LEMMA DownwardInduction ==
  ASSUME NEW m \in Int, NEW n \in Int, NEW G \in SUBSET (m..n),
         \A x \in m..n : (\A y \in m..n : x < y => y \in G) => x \in G
  PROVE  G = m..n
<1>0. SUFFICES ASSUME NEW z \in m..n, z \notin G PROVE FALSE
  OBVIOUS
<1>1. PICK T : T = {d \in Nat : n - d \in m..n /\ n - d \notin G}
  OBVIOUS
<1>2. n - z \in T /\ T \in SUBSET Nat
  BY <1>0, <1>1
<1>3. PICK d \in T : \A y \in T : d <= y
  BY <1>2, LeastIs
<1>4. d \in Nat /\ n - d \in m..n /\ n - d \notin G
  BY <1>1, <1>3
<1>5. ASSUME NEW y \in m..n, n - d < y PROVE y \in G
  <2>1. y \notin G => n - y \in T
    BY <1>1
  <2>2. ~(d <= n - y)
    BY <1>4, <1>5
  <2>q. QED BY <1>3, <2>1, <2>2
<1>q. QED BY <1>4, <1>5

\* Induction from the beginning of a range to its end.
LEMMA UpwardInduction ==
  ASSUME NEW m \in Int, NEW n \in Int, NEW G \in SUBSET (m..n),
         \A x \in m..n : (\A y \in m..n : y < x => y \in G) => x \in G
  PROVE  G = m..n
<1>0. SUFFICES ASSUME NEW z \in m..n, z \notin G PROVE FALSE
  OBVIOUS
<1>1. PICK T : T = {d \in Nat : m + d \in m..n /\ m + d \notin G}
  OBVIOUS
<1>2. z - m \in T /\ T \in SUBSET Nat
  BY <1>0, <1>1
<1>3. PICK d \in T : \A y \in T : d <= y
  BY <1>2, LeastIs
<1>4. d \in Nat /\ m + d \in m..n /\ m + d \notin G
  BY <1>1, <1>3
<1>5. ASSUME NEW y \in m..n, y < m + d PROVE y \in G
  <2>1. y \notin G => y - m \in T
    BY <1>1
  <2>2. ~(d <= y - m)
    BY <1>4, <1>5
  <2>q. QED BY <1>3, <2>1, <2>2
<1>q. QED BY <1>4, <1>5

\* A loop over the numbers from m to n that goes up by step: g[x] is what it
\* collects from x on, A[x] what its turn at x adds, and L says where it ends.
Loops(g, m, n, step, A, L) == g = [x \in m..n |-> A[x] \o (IF L[x] THEN <<>> ELSE g[x + step])]
Ends(L, m, n, step) == \A x \in m..n : ~ L[x] => x + step <= n

\* Such a loop is a function if it ends where another step would leave the
\* range: its defining equation has a solution.
LEMMA LoopExists ==
  ASSUME NEW m \in Int, NEW n \in Int, m <= n, NEW step \in Nat, step > 0, NEW A, NEW L,
         Ends(L, m, n, step)
  PROVE  \E g : Loops(g, m, n, step, A, L)
<1>0. DEFINE Solves(g, k) == g = [x \in k..n |-> A[x] \o (IF L[x] THEN <<>> ELSE g[x + step])]
<1>1. PICK G : G = {k \in m..n : \E g : Solves(g, k)}
  OBVIOUS
<1>2. ASSUME NEW k \in m..n, \A y \in m..n : k < y => y \in G
      PROVE  k \in G
  <2>1. PICK h : k < n => Solves(h, k + 1)
    <3>1. k < n => k + 1 \in m..n /\ k < k + 1
      OBVIOUS
    <3>2. k < n => k + 1 \in G
      BY <1>2, <3>1
    <3>q. QED BY <1>1, <3>2
  <2>2. PICK a : a = A[k] \o (IF L[k] THEN <<>> ELSE h[k + step])
    OBVIOUS
  <2>3. PICK g : g = [x \in k..n |-> IF x = k THEN a ELSE h[x]]
    OBVIOUS
  <2>4. ASSUME NEW x \in k..n PROVE g[x] = A[x] \o (IF L[x] THEN <<>> ELSE g[x + step])
    <3>0. x \in m..n
      BY <1>2
    <3>1. ~ L[x] => x + step \in k..n /\ x + step # k /\ g[x + step] = h[x + step]
      BY <2>3, <3>0 DEF Ends
    <3>2. CASE x = k
      <4>1. g[x] = a
        BY <2>3, <3>2
      <4>q. QED BY <2>2, <3>1, <3>2, <4>1, Zenon
    <3>3. CASE x # k
      <4>1. g[x] = h[x] /\ x \in (k + 1)..n /\ k < n
        BY <2>3, <3>3
      <4>2. h[x] = A[x] \o (IF L[x] THEN <<>> ELSE h[x + step])
        BY <2>1, <4>1, Zenon
      <4>q. QED BY <3>1, <4>1, <4>2, Zenon
    <3>q. QED BY <3>2, <3>3
  <2>5. DOMAIN g = k..n /\ g = [x \in k..n |-> g[x]]
    BY <2>3
  <2>6. Solves(g, k)
    BY <2>4, <2>5, Zenon
  <2>q. QED BY <1>1, <2>6
<1>3. G = m..n
  BY <1>1, <1>2, DownwardInduction
<1>4. m \in m..n
  OBVIOUS
<1>5. m \in G
  BY <1>3, <1>4
<1>q. QED BY ONLY <1>1, <1>5, Zenon DEF Loops

\* Numbers that go up by at most one at a time ...
Creeps(g, n) == \A q \in 0..n : q > 0 => g[q] = g[q - 1] \/ g[q] = g[q - 1] + 1
\* ... leave none out.
LEMMA StepsFill ==
  ASSUME NEW n \in Nat, NEW g \in [0..n -> Nat], Creeps(g, n),
         NEW s \in 0..n, NEW e \in s..n
  PROVE  \A y : y \in g[s]..g[e] <=> \E q \in s..e : y = g[q]
<1>0. e \in 0..n /\ \A q \in s..e : q \in 0..n /\ q \in Nat /\ g[q] \in Nat
  OBVIOUS
<1>1. ASSUME NEW a \in 0..n, NEW b \in a..n PROVE g[a] <= g[b]
  <2>1. PICK T : T = {c \in a..n : g[c] < g[a]}
    OBVIOUS
  <2>2. SUFFICES ASSUME b \in T PROVE FALSE
    BY <2>1
  <2>3. T \in SUBSET Nat
    BY <2>1
  <2>4. PICK c \in T : \A y \in T : c <= y
    BY <2>2, <2>3, LeastIs
  <2>5. c \in a..n /\ g[c] < g[a] /\ c # a /\ c > 0
    BY <2>1, <2>4
  <2>6. c - 1 \notin T
    BY <2>4, <2>5
  <2>7. c - 1 \in a..n /\ c - 1 \in 0..n /\ c \in 0..n
    BY <2>5
  <2>8. ~(g[c - 1] < g[a])
    BY <2>1, <2>6, <2>7
  <2>q. QED BY <2>5, <2>7, <2>8 DEF Creeps
<1>2. ASSUME NEW q \in s..e PROVE g[q] \in g[s]..g[e]
  <2>1. q \in 0..n /\ e \in q..n /\ q \in s..n
    OBVIOUS
  <2>2. g[s] <= g[q] /\ g[q] <= g[e]
    BY <1>1, <2>1
  <2>q. QED BY <1>0, <2>2
<1>3. ASSUME NEW y \in g[s]..g[e] PROVE \E q \in s..e : y = g[q]
  <2>1. PICK T : T = {q \in s..e : y <= g[q]}
    OBVIOUS
  <2>2. e \in T /\ T \in SUBSET Nat
    BY <2>1
  <2>3. PICK q \in T : \A z \in T : q <= z
    BY <2>2, LeastIs
  <2>4. q \in s..e /\ y <= g[q]
    BY <2>1, <2>3
  <2>5. CASE q = s
    <3>1. y = g[q]
      BY <2>4, <2>5, <1>0
    <3>q. QED BY <2>4, <3>1
  <2>6. CASE q # s
    <3>1. q - 1 \in s..e /\ q - 1 \notin T /\ q > 0
      BY <2>3, <2>4, <2>6
    <3>2. ~(y <= g[q - 1])
      BY <2>1, <3>1
    <3>a. g[q] \in Nat /\ g[q - 1] \in Nat /\ y \in Int
      <4>1. g[s] \in Nat /\ g[e] \in Nat
        BY <1>0
      <4>q. QED BY <1>0, <2>4, <3>1, <4>1
    <3>b. g[q] = g[q - 1] \/ g[q] = g[q - 1] + 1
      BY <1>0, <2>4, <3>1 DEF Creeps
    <3>3. y = g[q]
      BY ONLY <2>4, <3>2, <3>a, <3>b
    <3>q. QED BY <2>4, <3>3
  <2>q. QED BY <2>5, <2>6
<1>q. QED BY <1>2, <1>3, Zenon

\* A line ends with a newline.
LEMMA LinesStep ==
  ASSUME NEW text, NEW q \in Nat
  PROVE  /\ lineNumber(text, q) \in Nat
         /\ q > 0 => lineNumber(text, q) = lineNumber(text, q - 1) + (IF text[q] = Newline THEN 1 ELSE 0)
<1>1. ASSUME NEW p \in Nat
      PROVE  /\ IsFiniteSet({i \in 1..p : text[i] = Newline})
             /\ Cardinality({i \in 1..p : text[i] = Newline}) \in Nat
  <2>1. IsFiniteSet(1..p)
    BY FS_Interval
  <2>2. IsFiniteSet({i \in 1..p : text[i] = Newline})
    BY <2>1, FS_Subset
  <2>q. QED BY <2>2, FS_CardinalityType
<1>2. lineNumber(text, q) \in Nat
  <2>1. Cardinality({i \in 1..q : text[i] = Newline}) \in Nat
    BY <1>1
  <2>2. \A c \in Nat : 1 + c \in Nat
    OBVIOUS
  <2>q. QED BY ONLY <2>1, <2>2, Zenon DEF lineNumber
<1>3. ASSUME q > 0
      PROVE  lineNumber(text, q) = lineNumber(text, q - 1) + (IF text[q] = Newline THEN 1 ELSE 0)
  <2>0. q - 1 \in Nat
    BY <1>3
  <2>1. PICK P : P = {i \in 1..(q - 1) : text[i] = Newline}
    OBVIOUS
  <2>2. PICK Q : Q = {i \in 1..q : text[i] = Newline}
    OBVIOUS
  <2>3. IsFiniteSet(P) /\ Cardinality(P) \in Nat
    BY <1>1, <2>0, <2>1
  <2>4. q \notin P
    BY <2>1
  <2>a. \A i : i \in 1..q <=> i \in 1..(q - 1) \/ i = q
    BY <1>3
  <2>5. Q = IF text[q] = Newline THEN P \cup {q} ELSE P
    <3>1. \A i : i \in Q <=> i \in P \/ (i = q /\ text[q] = Newline)
      BY ONLY <2>1, <2>2, <2>a
    <3>q. QED BY ONLY <3>1
  <2>6. Cardinality(P \cup {q}) = Cardinality(P) + 1
    BY <2>3, <2>4, FS_AddElement
  <2>7. lineNumber(text, q) = 1 + Cardinality(Q) /\ lineNumber(text, q - 1) = 1 + Cardinality(P)
    BY <2>1, <2>2 DEF lineNumber
  <2>q. QED BY <2>3, <2>5, <2>6, <2>7
<1>q. QED BY <1>2, <1>3

\* The lines of the runes after the first s and up to the e-th, and the line
\* that the last of them opens if it is a newline ...
LinesOf(text, s, e) ==
  {lineNumber(text, p - 1) : p \in (s + 1)..e}
  \cup (IF text[e] = Newline THEN {lineNumber(text, e - 1) + 1} ELSE {})
\* ... are the span that chunkText stores with them.
LEMMA SpanIs ==
  ASSUME NEW text, NEW n \in Nat, NEW s \in 0..n, NEW e \in 1..n, s < e
  PROVE  \A y : y \in lineNumber(text, s) .. lineNumber(text, e) <=> y \in LinesOf(text, s, e)
<1>1. PICK g : g = [q \in 0..n |-> lineNumber(text, q)]
  OBVIOUS
<1>2. \A q \in 0..n : q \in Nat /\ g[q] = lineNumber(text, q)
  BY <1>1
<1>3. g \in [0..n -> Nat]
  BY <1>1, <1>2, LinesStep
<1>4. ASSUME NEW q \in 0..n, q > 0
      PROVE  q - 1 \in 0..n /\ g[q] = g[q - 1] + (IF text[q] = Newline THEN 1 ELSE 0)
  <2>1. q - 1 \in 0..n
    BY <1>4
  <2>2. lineNumber(text, q) = lineNumber(text, q - 1) + (IF text[q] = Newline THEN 1 ELSE 0)
    BY <1>2, <1>4, LinesStep
  <2>q. QED BY <1>2, <2>1, <2>2
<1>5. Creeps(g, n)
  <2>1. ASSUME NEW q \in 0..n, q > 0 PROVE g[q] = g[q - 1] \/ g[q] = g[q - 1] + 1
    <3>1. g[q - 1] \in Nat
      BY <1>3, <1>4, <2>1
    <3>q. QED BY <1>4, <2>1, <3>1
  <2>q. QED BY <2>1 DEF Creeps
<1>6. e \in s..n /\ e \in 0..n /\ e - 1 \in s..n /\ e - 1 \in 0..n
  OBVIOUS
<1>7. \A y : y \in g[s]..g[e] <=> \E q \in s..e : y = g[q]
  BY <1>3, <1>5, <1>6, StepsFill
<1>8. PICK a : a = g[e - 1] /\ a \in Nat /\ g[e] = a + (IF text[e] = Newline THEN 1 ELSE 0)
  BY <1>3, <1>4, <1>6
<1>9. ASSUME NEW y
      PROVE (\E q \in s..e : y = g[q]) <=>
              \/ \E p \in (s + 1)..e : y = g[p - 1]
              \/ text[e] = Newline /\ y = a + 1
  <2>1. \A p \in (s + 1)..e : p - 1 \in s..e
    OBVIOUS
  <2>2. \A q \in s..e : q = e \/ (q + 1 \in (s + 1)..e /\ (q + 1) - 1 = q)
    OBVIOUS
  <2>3. e \in s..e /\ e \in (s + 1)..e
    OBVIOUS
  <2>4. text[e] # Newline => g[e] = g[e - 1]
    BY <1>8
  <2>5. text[e] = Newline => g[e] = a + 1
    BY <1>8
  <2>6. ASSUME NEW q \in s..e, y = g[q]
        PROVE  \/ \E p \in (s + 1)..e : y = g[p - 1]
               \/ text[e] = Newline /\ y = a + 1
    <3>1. CASE q = e
      BY <2>3, <2>4, <2>5, <2>6, <3>1, Zenon
    <3>2. CASE q # e
      BY <2>2, <2>6, <3>2, Zenon
    <3>q. QED BY <3>1, <3>2
  <2>q. QED BY <2>1, <2>3, <2>5, <2>6, Zenon
<1>10. \A p \in (s + 1)..e : lineNumber(text, p - 1) = g[p - 1]
  <2>1. \A p \in (s + 1)..e : p - 1 \in 0..n
    OBVIOUS
  <2>q. QED BY <1>2, <2>1
<1>11. g[s] = lineNumber(text, s) /\ g[e] = lineNumber(text, e) /\ a = lineNumber(text, e - 1)
  BY <1>2, <1>6, <1>8
<1>12. \A y : y \in lineNumber(text, s) .. lineNumber(text, e) <=> \E q \in s..e : y = g[q]
  BY <1>7, <1>11, Zenon
<1>13. ASSUME NEW y
       PROVE  y \in lineNumber(text, s) .. lineNumber(text, e) <=>
                \/ y \in {lineNumber(text, p - 1) : p \in (s + 1)..e}
                \/ text[e] = Newline /\ y = lineNumber(text, e - 1) + 1
  <2>1. (\E p \in (s + 1)..e : y = g[p - 1]) <=> y \in {lineNumber(text, p - 1) : p \in (s + 1)..e}
    BY ONLY <1>10, Zenon
  <2>q. QED BY ONLY <1>9, <1>11, <1>12, <2>1, Zenon
<1>q. QED BY ONLY <1>13, Zenon DEF LinesOf

\* A sequence after another of no element or one.
LEMMA Prefixed ==
  ASSUME NEW m \in Nat, NEW c, c = [i \in 1..m |-> c[i]], NEW a
  PROVE  /\ <<>> \o c = c
         /\ <<a>> \o c = [i \in 1..(m + 1) |-> IF i = 1 THEN a ELSE c[i - 1]]
         /\ <<>> \o <<>> = <<>> /\ <<a>> \o <<>> = <<a>>
<1>1. PICK S : S = {c[i] : i \in 1..m} \cup {a}
  OBVIOUS
<1>2. c \in [1..m -> S]
  BY <1>1
<1>3. c \in Seq(S) /\ Len(c) = m
  BY <1>2
<1>4. <<a>> \in Seq(S) /\ Len(<<a>>) = 1 /\ <<a>>[1] = a
  BY <1>1
<1>5. <<>> \o c = c
  BY <1>3, ConcatEmptySeq
<1>6. PICK d : d = <<a>> \o c
  OBVIOUS
<1>7. d \in Seq(S) /\ Len(d) = 1 + m /\ \A i \in 1..(1 + m) : d[i] = IF i <= 1 THEN <<a>>[i] ELSE c[i - 1]
  BY ONLY <1>3, <1>4, <1>6, m \in Nat, ConcatProperties
<1>8. d = [i \in 1..(m + 1) |-> IF i = 1 THEN a ELSE c[i - 1]]
  <2>1. d = [i \in 1..(m + 1) |-> d[i]]
    BY <1>7
  <2>2. \A i \in 1..(m + 1) : d[i] = IF i = 1 THEN a ELSE c[i - 1]
    <3>1. ASSUME NEW i \in 1..(m + 1) PROVE d[i] = IF i = 1 THEN a ELSE c[i - 1]
      <4>1. i \in 1..(1 + m) /\ (i <= 1 <=> i = 1)
        OBVIOUS
      <4>q. QED BY <1>4, <1>7, <4>1, Zenon
    <3>q. QED BY <3>1
  <2>q. QED BY <2>1, <2>2
<1>9. <<>> \in Seq(S) /\ <<>> \o <<>> = <<>> /\ <<a>> \o <<>> = <<a>>
  BY <1>4, ConcatEmptySeq
<1>q. QED BY <1>5, <1>6, <1>8, <1>9

\* Chunks c of the runes after the first x: none is empty or larger than
\* size, each ends at least size runes after x or with the text, and later
\* than those before it; what is in none of them is blank.
Cuts(text, n, size, x, c) ==
  \E m \in Nat : \E s, e \in [1..m -> Nat] :
    /\ c = [i \in 1..m |-> Chunk(text, s[i], e[i])]
    /\ \A i \in 1..m :
         /\ x <= s[i] /\ s[i] < e[i] /\ e[i] <= s[i] + size /\ e[i] <= n
         /\ x + size <= e[i] \/ e[i] = n
    /\ \A i, j \in 1..m : j < i => e[j] < e[i]
    /\ \A p \in (x + 1)..n :
         text[p] \in {Newline, " "} \/ \E i \in 1..m : s[i] < p /\ p <= e[i]

\* The chunk that reaches the end of the text ...
LEMMA LastCut ==
  ASSUME NEW text, NEW n \in Nat, NEW size \in Nat, NEW x \in 0..n, n <= x + size
  PROVE  Cuts(text, n, size, x,
           IF Blank(text, x + 1, n) THEN <<>> ELSE <<Chunk(text, x, n)>>)
<1>1. CASE Blank(text, x + 1, n)
  <2>1. PICK s \in [1..0 -> Nat] : TRUE
    <3>1. [i \in 1..0 |-> 0] \in [1..0 -> Nat]
      OBVIOUS
    <3>q. QED BY <3>1, Zenon
  <2>2. <<>> = [i \in 1..0 |-> Chunk(text, s[i], s[i])] /\ \A i \in 1..0 : FALSE
    OBVIOUS
  <2>3. \A p \in (x + 1)..n : text[p] \in {Newline, " "}
    BY <1>1 DEF Blank
  <2>4. 0 \in Nat
    OBVIOUS
  <2>5. Cuts(text, n, size, x, <<>>)
    BY ONLY <2>1, <2>2, <2>3, <2>4, Zenon DEF Cuts
  <2>q. QED BY <1>1, <2>5
<1>2. CASE ~Blank(text, x + 1, n)
  <2>1. x < n
    <3>1. x >= n => \A i \in (x + 1)..n : FALSE
      OBVIOUS
    <3>2. ~(x >= n)
      BY <1>2, <3>1, Zenon DEF Blank
    <3>q. QED BY <3>2
  <2>0. ASSUME NEW y \in Nat PROVE \E s \in [1..1 -> Nat] : s[1] = y
    <3>1. [i \in 1..1 |-> y] \in [1..1 -> Nat] /\ [i \in 1..1 |-> y][1] = y
      OBVIOUS
    <3>q. QED BY <3>1, Zenon
  <2>2. PICK s \in [1..1 -> Nat] : s[1] = x
    BY <2>0
  <2>3. PICK e \in [1..1 -> Nat] : e[1] = n
    BY <2>0
  <2>4. <<Chunk(text, x, n)>> = [i \in 1..1 |-> Chunk(text, s[i], e[i])]
    BY <2>2, <2>3
  <2>5. \A i \in 1..1 : i = 1
    OBVIOUS
  <2>6. \A i \in 1..1 :
          /\ x <= s[i] /\ s[i] < e[i] /\ e[i] <= s[i] + size /\ e[i] <= n
          /\ x + size <= e[i] \/ e[i] = n
    BY <2>1, <2>2, <2>3, <2>5
  <2>7. \A i, j \in 1..1 : ~(j < i)
    OBVIOUS
  <2>8. \A p \in (x + 1)..n : \E i \in 1..1 : s[i] < p /\ p <= e[i]
    <3>1. \A p \in (x + 1)..n : s[1] < p /\ p <= e[1]
      BY <2>2, <2>3
    <3>2. 1 \in 1..1
      OBVIOUS
    <3>q. QED BY <3>1, <3>2, Zenon
  <2>9. 1 \in Nat
    OBVIOUS
  <2>10. Cuts(text, n, size, x, <<Chunk(text, x, n)>>)
    <3>1. \A i, j \in 1..1 : j < i => e[j] < e[i]
      BY ONLY <2>7, Zenon
    <3>2. \A p \in (x + 1)..n :
            text[p] \in {Newline, " "} \/ \E i \in 1..1 : s[i] < p /\ p <= e[i]
      BY ONLY <2>8, Zenon
    <3>q. QED
      <4> SUFFICES \E m \in Nat : \E s1, e1 \in [1..m -> Nat] :
                     /\ <<Chunk(text, x, n)>> = [i \in 1..m |-> Chunk(text, s1[i], e1[i])]
                     /\ \A i \in 1..m :
                          /\ x <= s1[i] /\ s1[i] < e1[i] /\ e1[i] <= s1[i] + size /\ e1[i] <= n
                          /\ x + size <= e1[i] \/ e1[i] = n
                     /\ \A i, j \in 1..m : j < i => e1[j] < e1[i]
                     /\ \A p \in (x + 1)..n :
                          text[p] \in {Newline, " "} \/ \E i \in 1..m : s1[i] < p /\ p <= e1[i]
        BY DEF Cuts
      <4> WITNESS 1 \in Nat
      <4> WITNESS s \in [1..1 -> Nat], e \in [1..1 -> Nat]
      <4>q. QED BY ONLY <2>4, <2>6, <3>1, <3>2, Zenon
  <2>q. QED BY <1>2, <2>10
<1>q. QED BY <1>1, <1>2

\* ... and one that does not, before those that begin step runes later.
LEMMA NextCut ==
  ASSUME NEW text, NEW n \in Nat, NEW size \in Nat, NEW step \in 1..size, NEW x \in 0..n,
         x + size < n, NEW d, Cuts(text, n, size, x + step, d)
  PROVE  Cuts(text, n, size, x,
           (IF Blank(text, x + 1, x + size) THEN <<>> ELSE <<Chunk(text, x, x + size)>>) \o d)
<1>0. PICK m \in Nat : \E s, e \in [1..m -> Nat] :
        /\ d = [i \in 1..m |-> Chunk(text, s[i], e[i])]
        /\ \A i \in 1..m :
             /\ x + step <= s[i] /\ s[i] < e[i] /\ e[i] <= s[i] + size /\ e[i] <= n
             /\ x + step + size <= e[i] \/ e[i] = n
        /\ \A i, j \in 1..m : j < i => e[j] < e[i]
        /\ \A p \in (x + step + 1)..n :
             text[p] \in {Newline, " "} \/ \E i \in 1..m : s[i] < p /\ p <= e[i]
  BY DEF Cuts
<1>1. PICK s, e \in [1..m -> Nat] :
        /\ d = [i \in 1..m |-> Chunk(text, s[i], e[i])]
        /\ \A i \in 1..m :
             /\ x + step <= s[i] /\ s[i] < e[i] /\ e[i] <= s[i] + size /\ e[i] <= n
             /\ x + step + size <= e[i] \/ e[i] = n
        /\ \A i, j \in 1..m : j < i => e[j] < e[i]
        /\ \A p \in (x + step + 1)..n :
             text[p] \in {Newline, " "} \/ \E i \in 1..m : s[i] < p /\ p <= e[i]
  BY <1>0
<1>2. d = [i \in 1..m |-> d[i]]
  BY <1>1
<1>3. ASSUME NEW i \in 1..m
      PROVE  /\ s[i] \in Nat /\ e[i] \in Nat /\ x <= s[i] /\ s[i] < e[i]
             /\ e[i] <= s[i] + size /\ e[i] <= n /\ x + size < e[i]
  <2>1. s[i] \in Nat /\ e[i] \in Nat
    OBVIOUS
  <2>2. /\ x + step <= s[i] /\ s[i] < e[i] /\ e[i] <= s[i] + size /\ e[i] <= n
        /\ x + step + size <= e[i] \/ e[i] = n
    BY <1>1
  <2>q. QED BY ONLY n \in Nat, size \in Nat, step \in 1..size, x \in 0..n, x + size < n, <2>1, <2>2
<1>a. ASSUME NEW p \in (x + 1)..n, p > x + size
      PROVE  text[p] \in {Newline, " "} \/ \E i \in 1..m : s[i] < p /\ p <= e[i]
  <2>1. p \in (x + step + 1)..n
    BY <1>a
  <2>q. QED BY <1>1, <2>1
<1>4. CASE Blank(text, x + 1, x + size)
  <2>1. <<>> \o d = d
    BY <1>2, Prefixed
  <2>2. \A i \in 1..m :
          /\ x <= s[i] /\ s[i] < e[i] /\ e[i] <= s[i] + size /\ e[i] <= n
          /\ x + size <= e[i] \/ e[i] = n
    BY <1>3
  <2>3. ASSUME NEW p \in (x + 1)..n
        PROVE  text[p] \in {Newline, " "} \/ \E i \in 1..m : s[i] < p /\ p <= e[i]
    <3>1. p > x + size \/ p \in (x + 1)..(x + size)
      OBVIOUS
    <3>q. QED BY <1>4, <1>a, <3>1, Zenon DEF Blank
  <2>4. Cuts(text, n, size, x, d)
    BY ONLY m \in Nat, s \in [1..m -> Nat], e \in [1..m -> Nat], <1>1, <2>2, <2>3, Zenon DEF Cuts
  <2>q. QED BY <1>4, <2>1, <2>4
<1>5. CASE ~Blank(text, x + 1, x + size)
  <2>0. PICK a : a = Chunk(text, x, x + size)
    OBVIOUS
  <2>1. <<a>> \o d = [i \in 1..(m + 1) |-> IF i = 1 THEN a ELSE d[i - 1]]
    BY <1>2, Prefixed
  <2>2. PICK t : t = [i \in 1..(m + 1) |-> IF i = 1 THEN x ELSE s[i - 1]]
    OBVIOUS
  <2>3. PICK f : f = [i \in 1..(m + 1) |-> IF i = 1 THEN x + size ELSE e[i - 1]]
    OBVIOUS
  <2>4. m + 1 \in Nat /\ 1 \in 1..(m + 1) /\ \A i \in 1..(m + 1) : i = 1 \/ i - 1 \in 1..m
    OBVIOUS
  <2>5. t \in [1..(m + 1) -> Nat] /\ f \in [1..(m + 1) -> Nat]
    BY <1>3, <2>2, <2>3, <2>4
  <2>6. /\ t[1] = x /\ f[1] = x + size
        /\ \A i \in 1..(m + 1) : i # 1 => i - 1 \in 1..m /\ t[i] = s[i - 1] /\ f[i] = e[i - 1]
    BY <2>2, <2>3, <2>4
  <2>7. <<a>> \o d = [i \in 1..(m + 1) |-> Chunk(text, t[i], f[i])]
    <3>1. ASSUME NEW i \in 1..(m + 1)
          PROVE  (IF i = 1 THEN a ELSE d[i - 1]) = Chunk(text, t[i], f[i])
      BY <1>1, <2>0, <2>6
    <3>q. QED BY <2>1, <3>1
  <2>8. \A i \in 1..(m + 1) :
             /\ x <= t[i] /\ t[i] < f[i] /\ f[i] <= t[i] + size /\ f[i] <= n
             /\ x + size <= f[i] \/ f[i] = n
    <3>1. ASSUME NEW i \in 1..(m + 1)
          PROVE /\ x <= t[i] /\ t[i] < f[i] /\ f[i] <= t[i] + size /\ f[i] <= n
                /\ x + size <= f[i] \/ f[i] = n
      <4>1. CASE i = 1
        BY <2>6, <4>1
      <4>2. CASE i # 1
        <5>1. i - 1 \in 1..m /\ t[i] = s[i - 1] /\ f[i] = e[i - 1]
          BY <2>6, <4>2
        <5>2. PICK k \in 1..m : k = i - 1
          BY <5>1
        <5>q. QED BY <1>3, <5>1, <5>2
      <4>q. QED BY <4>1, <4>2
    <3>q. QED BY <3>1
  <2>9. ASSUME NEW i \in 1..(m + 1), NEW j \in 1..(m + 1), j < i PROVE f[j] < f[i]
    <3>1. i # 1 /\ i - 1 \in 1..m /\ f[i] = e[i - 1] /\ e[i - 1] \in Nat
      BY <1>3, <2>6, <2>9
    <3>2. CASE j = 1
      <4>1. x + size < e[i - 1]
        BY <1>3, <3>1
      <4>q. QED BY <2>6, <3>1, <3>2, <4>1
    <3>3. CASE j # 1
      <4>1. j - 1 \in 1..m /\ f[j] = e[j - 1] /\ j - 1 < i - 1
        BY <2>6, <2>9, <3>3
      <4>q. QED BY <1>1, <3>1, <4>1
    <3>q. QED BY <3>2, <3>3
  <2>10. ASSUME NEW p \in (x + 1)..n
         PROVE  text[p] \in {Newline, " "} \/ \E i \in 1..(m + 1) : t[i] < p /\ p <= f[i]
    <3>1. CASE p <= x + size
      <4>1. t[1] < p /\ p <= f[1]
        BY <2>6, <3>1
      <4>q. QED BY <2>4, <4>1, Zenon
    <3>2. CASE p > x + size
      <4>2. SUFFICES ASSUME NEW i \in 1..m, s[i] < p, p <= e[i]
                     PROVE  \E k \in 1..(m + 1) : t[k] < p /\ p <= f[k]
        BY <1>a, <3>2
      <4>3. i + 1 \in 1..(m + 1) /\ i + 1 # 1 /\ (i + 1) - 1 = i
        OBVIOUS
      <4>4. t[i + 1] = s[i] /\ f[i + 1] = e[i]
        BY <2>6, <4>3
      <4>q. QED BY <4>2, <4>3, <4>4
    <3>3. p <= x + size \/ p > x + size
      OBVIOUS
    <3>q. QED BY <3>1, <3>2, <3>3, Zenon
  <2>11. PICK k \in Nat : k = m + 1
    BY <2>4
  <2>12. Cuts(text, n, size, x, <<a>> \o d)
    BY ONLY <2>5, <2>7, <2>8, <2>9, <2>10, <2>11, Zenon DEF Cuts
  <2>q. QED BY <1>5, <2>0, <2>12
<1>q. QED BY <1>4, <1>5

\* chunkText cuts the whole text: its loop ends, and what each turn adds goes
\* before what the later ones do.
LEMMA ChunksCut ==
  ASSUME NEW n \in Nat, NEW text, Len(text) = n, n > 0,
         NEW size \in Nat, NEW overlap \in Nat, overlap < size
  PROVE  Cuts(text, n, size, 0, chunkText(text, size, overlap))
<1>1. PICK step \in 1..size : step = IF size - overlap <= 0 THEN size ELSE size - overlap
  OBVIOUS
<1>2. PICK E : E = [x \in 0..n |-> IF x + size < n THEN x + size ELSE n]
  OBVIOUS
<1>3. PICK A : A = [x \in 0..n |->
                      IF Blank(text, x + 1, E[x]) THEN <<>> ELSE <<Chunk(text, x, E[x])>>]
  OBVIOUS
<1>4. PICK L : L = [x \in 0..n |-> E[x] = n]
  OBVIOUS
<1>5. ASSUME NEW x \in 0..n
      PROVE  /\ E[x] = IF x + size < n THEN x + size ELSE n
             /\ A[x] = IF Blank(text, x + 1, E[x]) THEN <<>> ELSE <<Chunk(text, x, E[x])>>
             /\ L[x] <=> E[x] = n
             /\ L[x] <=> ~(x + size < n)
  <2>1. E[x] = IF x + size < n THEN x + size ELSE n
    BY <1>2
  <2>2. A[x] = IF Blank(text, x + 1, E[x]) THEN <<>> ELSE <<Chunk(text, x, E[x])>>
    BY <1>3, Zenon
  <2>3. L[x] <=> E[x] = n
    BY <1>4, Zenon
  <2>4. E[x] = n <=> ~(x + size < n)
    BY <2>1
  <2>q. QED BY <2>1, <2>2, <2>3, <2>4, Zenon
<1>6. PICK g : Loops(g, 0, n, step, A, L)
  <2>1. \A x \in 0..n : x + size < n => x + step <= n
    OBVIOUS
  <2>2. Ends(L, 0, n, step)
    BY <1>5, <2>1, Zenon DEF Ends
  <2>3. 0 \in Int /\ n \in Int /\ 0 <= n /\ step \in Nat /\ step > 0
    OBVIOUS
  <2>q. QED BY ONLY <2>2, <2>3, LoopExists
<1>0. DEFINE End(x) == IF x + size < Len(text) THEN x + size ELSE Len(text)
             Is(f) == f = [x \in 0..Len(text) |->
                (IF Blank(text, x + 1, End(x)) THEN <<>> ELSE <<Chunk(text, x, End(x))>>)
                \o (IF End(x) = Len(text) THEN <<>>
                    ELSE f[x + (IF size - overlap <= 0 THEN size ELSE size - overlap)])]
<1>7. Is(g)
  <2>1. ASSUME NEW x \in 0..n
        PROVE  A[x] \o (IF L[x] THEN <<>> ELSE g[x + step]) =
                (IF Blank(text, x + 1, End(x)) THEN <<>> ELSE <<Chunk(text, x, End(x))>>)
                \o (IF End(x) = Len(text) THEN <<>>
                    ELSE g[x + (IF size - overlap <= 0 THEN size ELSE size - overlap)])
    <3>1. E[x] = End(x)
      BY <1>5
    <3>q. QED BY ONLY <1>1, <1>5, <2>1, <3>1, Len(text) = n, Zenon
  <2>q. QED BY ONLY <1>6, <2>1, Len(text) = n, Zenon DEF Loops
<1>8. PICK f : f = CHOOSE h : Is(h)
  OBVIOUS
<1>9. Is(f)
  BY <1>7, <1>8, Zenon
<1>10. chunkText(text, size, overlap) = f[0]
  <2>1. Len(text) # 0
    OBVIOUS
  <2>q. QED BY ONLY <1>8, <2>1, Zenon DEF chunkText
<1>11. ASSUME NEW x \in 0..n
       PROVE  f[x] = (IF Blank(text, x + 1, E[x]) THEN <<>> ELSE <<Chunk(text, x, E[x])>>)
                     \o (IF L[x] THEN <<>> ELSE f[x + step])
  <2>1. f[x] = (IF Blank(text, x + 1, End(x)) THEN <<>> ELSE <<Chunk(text, x, End(x))>>)
               \o (IF End(x) = Len(text) THEN <<>>
                   ELSE f[x + (IF size - overlap <= 0 THEN size ELSE size - overlap)])
    BY ONLY <1>9, <1>11, Len(text) = n, Zenon
  <2>2. E[x] = End(x)
    BY <1>5
  <2>q. QED BY ONLY <1>1, <1>5, <1>11, <2>1, <2>2, Len(text) = n, Zenon
<1>12. PICK G : G = {x \in 0..n : Cuts(text, n, size, x, f[x])}
  OBVIOUS
<1>13. ASSUME NEW x \in 0..n, \A y \in 0..n : x < y => y \in G
       PROVE  x \in G
  <2>1. PICK a : a = IF Blank(text, x + 1, E[x]) THEN <<>> ELSE <<Chunk(text, x, E[x])>>
    OBVIOUS
  <2>2. f[x] = a \o (IF L[x] THEN <<>> ELSE f[x + step])
    BY ONLY <1>11, <2>1, x \in 0..n, Zenon
  <2>3. CASE L[x]
    <3>1. n <= x + size /\ E[x] = n
      <4>1. ~(x + size < n) /\ E[x] = n
        BY <1>5, <2>3, Zenon
      <4>q. QED BY <4>1
    <3>a. a = IF Blank(text, x + 1, n) THEN <<>> ELSE <<Chunk(text, x, n)>>
      BY ONLY <2>1, <3>1, Zenon
    <3>2. Cuts(text, n, size, x, a)
      <4>1. n \in Nat /\ size \in Nat /\ x \in 0..n
        OBVIOUS
      <4>q. QED BY ONLY <3>a, <3>1, <4>1, LastCut, Zenon
    <3>3. a \o <<>> = a
      <4>1. ASSUME NEW b PROVE <<>> \o <<>> = <<>> /\ <<b>> \o <<>> = <<b>>
        <5>1. PICK c : c = [i \in 1..0 |-> b]
          OBVIOUS
        <5>2. c = [i \in 1..0 |-> c[i]] /\ 0 \in Nat
          BY <5>1
        <5>q. QED BY <5>2, Prefixed
      <4>q. QED BY ONLY <2>1, <4>1, Zenon
    <3>4. Cuts(text, n, size, x, f[x])
      BY ONLY <2>2, <2>3, <3>2, <3>3, Zenon
    <3>q. QED BY ONLY <1>12, <1>13, <3>4, Zenon
  <2>4. CASE ~ L[x]
    <3>1. x + size < n /\ E[x] = x + size
      BY <1>5, <2>4
    <3>2. x + step \in 0..n /\ x < x + step
      BY <3>1
    <3>3. Cuts(text, n, size, x + step, f[x + step])
      BY ONLY <1>12, <1>13, <3>2, Zenon
    <3>4. Cuts(text, n, size, x, a \o f[x + step])
      BY <2>1, <3>1, <3>3, NextCut
    <3>5. Cuts(text, n, size, x, f[x])
      BY ONLY <2>2, <2>4, <3>4, Zenon
    <3>q. QED BY ONLY <1>12, <1>13, <3>5, Zenon
  <2>q. QED BY <2>3, <2>4
<1>14. G = 0..n
  <2>1. 0 \in Int /\ n \in Int
    OBVIOUS
  <2>2. G \in SUBSET (0..n)
    BY <1>12
  <2>q. QED BY ONLY <1>13, <2>1, <2>2, DownwardInduction
<1>15. 0 \in G
  BY <1>14
<1>q. QED BY ONLY <1>10, <1>12, <1>15, Zenon

\* Whatever is configured, chunkText works with a size and a smaller overlap.
LEMMA SizesAre ==
  ASSUME NEW a \in Int, NEW b \in Int
  PROVE  \E size, overlap \in Nat :
           Sizes(a, b).size = size /\ Sizes(a, b).overlap = overlap /\ overlap < size
<1>1. PICK size \in Nat : size = (IF a <= 0 THEN 1000 ELSE a) /\ size > 0
  OBVIOUS
<1>2. PICK overlap \in Nat : overlap = (IF b < 0 \/ b >= size THEN size \div 5 ELSE b) /\ overlap < size
  <2>1. size \div 5 \in Nat /\ size \div 5 < size
    BY <1>1
  <2>q. QED BY <2>1
<1>3. Sizes(a, b) = [size |-> size, overlap |-> overlap]
  BY <1>1, <1>2 DEF Sizes
<1>q. QED BY <1>2, <1>3

\* For files of any length and any configured size and overlap, the chunks
\* hold every rune that is not blank, none is too large or within an earlier
\* one, and the lines stored with each are those of its runes.
THEOREM ChunksCover == Spec => []ChunksAreTheFile
<1>1. ASSUME IInv PROVE ChunksAreTheFile
  <2>0. SUFFICES ASSUME fn = "chunkText", out # Pending
                 PROVE  ChunksAreTheFile
    BY DEF ChunksAreTheFile, ChunksCoverTheFile, ChunkSpansAreItsLines, Has
  <2>1. in \in ChunkInputs
    BY <1>1, <2>0 DEF IInv, Domains
  <2>2. PICK n \in 0..MaxFile : in.text \in [1..n -> {"x", " ", Newline}]
    BY <2>1 DEF ChunkInputs
  <2>3. PICK text : in.text = text
    OBVIOUS
  <2>4. n \in Nat /\ Len(text) = n
    <3>0. MaxFile \in Nat
      BY NumbersAssumption
    <3>1. n \in Nat
      BY ONLY <3>0, n \in 0..MaxFile
    <3>2. PICK S : S = {"x", " ", Newline}
      OBVIOUS
    <3>3. text \in [1..n -> S]
      BY ONLY <2>2, <2>3, <3>2, Zenon
    <3>q. QED BY ONLY <3>1, <3>3
  <2>5. PICK size, overlap \in Nat :
          /\ Sizes(in.size, in.overlap).size = size
          /\ Sizes(in.size, in.overlap).overlap = overlap /\ overlap < size
    <3>1. in.size \in Int /\ in.overlap \in Int
      BY <2>1, NumbersAssumption DEF ChunkInputs
    <3>q. QED BY <3>1, SizesAre
  <2>6. out = chunkText(text, size, overlap)
    BY <1>1, <2>0, <2>3, <2>5 DEF IInv, Computed
  <2>7. Cuts(text, n, size, 0, out)
    <3>1. CASE n > 0
      BY <2>4, <2>5, <2>6, <3>1, ChunksCut
    <3>2. CASE n = 0
      <4>1. chunkText(text, size, overlap) = <<>>
        BY <2>4, <3>2, Zenon DEF chunkText
      <4>2. n <= 0 + size /\ 0 \in 0..n /\ \A i \in (0 + 1)..n : FALSE
        BY <2>5, <3>2
      <4>3. Blank(text, 0 + 1, n)
        BY <4>2, Zenon DEF Blank
      <4>4. Cuts(text, n, size, 0, IF Blank(text, 0 + 1, n) THEN <<>> ELSE <<Chunk(text, 0, n)>>)
        BY ONLY <2>4, <2>5, <4>2, LastCut, Zenon
      <4>q. QED BY ONLY <2>6, <4>1, <4>3, <4>4, Zenon
    <3>q. QED BY <2>4, <3>1, <3>2
  <2>8. PICK m \in Nat : \E s, e \in [1..m -> Nat] :
          /\ out = [i \in 1..m |-> Chunk(text, s[i], e[i])]
          /\ \A i \in 1..m :
               /\ 0 <= s[i] /\ s[i] < e[i] /\ e[i] <= s[i] + size /\ e[i] <= n
               /\ 0 + size <= e[i] \/ e[i] = n
          /\ \A i, j \in 1..m : j < i => e[j] < e[i]
          /\ \A p \in (0 + 1)..n :
               text[p] \in {Newline, " "} \/ \E i \in 1..m : s[i] < p /\ p <= e[i]
    BY <2>7 DEF Cuts
  <2>9. PICK s, e \in [1..m -> Nat] :
          /\ out = [i \in 1..m |-> Chunk(text, s[i], e[i])]
          /\ \A i \in 1..m :
               /\ 0 <= s[i] /\ s[i] < e[i] /\ e[i] <= s[i] + size /\ e[i] <= n
               /\ 0 + size <= e[i] \/ e[i] = n
          /\ \A i, j \in 1..m : j < i => e[j] < e[i]
          /\ \A p \in (0 + 1)..n :
               text[p] \in {Newline, " "} \/ \E i \in 1..m : s[i] < p /\ p <= e[i]
    BY <2>8
  <2>10. Len(out) = m
    <3>1. out = [i \in 1..m |-> Chunk(text, s[i], e[i])]
      BY <2>9
    <3>q. QED BY ONLY <3>1, m \in Nat
  <2>11. ASSUME NEW i \in 1..m
         PROVE  /\ out[i].from = s[i] + 1 /\ out[i].to = e[i]
                /\ out[i].startLine = lineNumber(text, s[i]) /\ out[i].endLine = lineNumber(text, e[i])
                /\ s[i] \in 0..n /\ e[i] \in 1..n /\ s[i] < e[i] /\ e[i] <= s[i] + size
    <3>1. out[i] = Chunk(text, s[i], e[i])
      BY <2>9
    <3>2. s[i] \in Nat /\ e[i] \in Nat /\ s[i] < e[i] /\ e[i] <= s[i] + size /\ e[i] <= n
      BY <2>9
    <3>3. s[i] \in 0..n /\ e[i] \in 1..n
      BY <2>4, <3>2
    <3>q. QED BY <3>1, <3>2, <3>3 DEF Chunk
  <2>12. ChunksCoverTheFile
    <3>1. ASSUME NEW p \in 1..n
          PROVE  text[p] \in {Newline, " "} \/ \E i \in 1..m : p \in out[i].from .. out[i].to
      <4>1. p \in (0 + 1)..n
        BY <2>4
      <4>2. SUFFICES ASSUME NEW i \in 1..m, s[i] < p, p <= e[i]
                     PROVE  p \in out[i].from .. out[i].to
        BY <2>9, <4>1
      <4>3. PICK a, b \in Nat : out[i].from = a + 1 /\ out[i].to = b /\ a < p /\ p <= b
        BY <2>9, <2>11, <4>2
      <4>4. p \in (a + 1)..b
        BY ONLY <4>3, p \in 1..n, a \in Nat, b \in Nat
      <4>q. QED BY ONLY <4>3, <4>4, Zenon
    <3>2. ASSUME NEW i \in 1..m PROVE Cardinality(out[i].from .. out[i].to) \in 1..size
      <4>1. PICK a, b \in Nat : a = s[i] /\ b = e[i]
        BY <2>11
      <4>2. a < b /\ b <= a + size /\ out[i].from = a + 1 /\ out[i].to = b
        BY <2>11, <4>1
      <4>3. PICK z \in Int : z = a + 1 /\ b \in Int
        OBVIOUS
      <4>4. Cardinality(z..b) = IF z > b THEN 0 ELSE b - z + 1
        BY ONLY <4>3, FS_Interval
      <4>5. b - z + 1 \in 1..size /\ ~(z > b) /\ out[i].from = z
        BY <4>2, <4>3
      <4>q. QED BY ONLY <4>2, <4>4, <4>5, Zenon
    <3>3. ASSUME NEW i \in 1..m, NEW j \in 1..(i - 1)
          PROVE  ~ (out[i].from .. out[i].to \subseteq out[j].from .. out[j].to)
      <4>1. j \in 1..m /\ j < i
        OBVIOUS
      <4>2. e[j] < e[i]
        BY <2>9, <4>1
      <4>3. PICK a, b, c, d \in Nat : a = s[i] /\ b = e[i] /\ c = s[j] /\ d = e[j]
        BY <2>11, <4>1
      <4>4. b \in (a + 1)..b /\ ~(b \in (c + 1)..d)
        <5>1. a < b /\ d < b
          BY <2>11, <4>2, <4>3
        <5>q. QED BY ONLY <5>1, a \in Nat, b \in Nat, c \in Nat, d \in Nat
      <4>q. QED BY ONLY <2>11, <4>1, <4>3, <4>4, Zenon
    <3>q. QED BY ONLY <2>3, <2>4, <2>5, <2>10, <3>1, <3>2, <3>3, Zenon DEF ChunksCoverTheFile
  <2>13. ChunkSpansAreItsLines
    <3>1. ASSUME NEW i \in 1..m
          PROVE  out[i].startLine .. out[i].endLine =
                   {1 + Cardinality({k \in 1 .. p - 1 : in.text[k] = Newline}) : p \in out[i].from .. out[i].to}
                   \cup (IF in.text[out[i].to] = Newline
                         THEN {1 + Cardinality({k \in 1 .. out[i].to - 1 : in.text[k] = Newline}) + 1}
                         ELSE {})
      <4>1. PICK a, b : a = s[i] /\ b = e[i]
        OBVIOUS
      <4>2. /\ a \in 0..n /\ b \in 1..n /\ a < b /\ out[i].from = a + 1 /\ out[i].to = b
            /\ out[i].startLine = lineNumber(in.text, a) /\ out[i].endLine = lineNumber(in.text, b)
        BY ONLY <2>3, <2>11, <4>1, <3>1, Zenon
      <4>3. lineNumber(in.text, a) .. lineNumber(in.text, b) = LinesOf(in.text, a, b)
        <5>1. \A y : y \in lineNumber(text, a) .. lineNumber(text, b) <=> y \in LinesOf(text, a, b)
          <6>1. n \in Nat /\ a \in 0..n /\ b \in 1..n /\ a < b
            BY <2>4, <4>2
          <6>q. QED BY ONLY <6>1, SpanIs
        <5>q. QED BY ONLY <2>3, <5>1, Zenon
      <4>4. out[i].startLine .. out[i].endLine =
              {lineNumber(in.text, p - 1) : p \in out[i].from .. out[i].to}
              \cup (IF in.text[out[i].to] = Newline THEN {lineNumber(in.text, out[i].to - 1) + 1} ELSE {})
        BY ONLY <4>2, <4>3, Zenon DEF LinesOf
      <4>q. QED BY ONLY <4>4, Zenon DEF lineNumber
    <3>q. QED BY ONLY <2>10, <3>1, Zenon DEF ChunkSpansAreItsLines
  <2>q. QED BY <2>12, <2>13 DEF ChunksAreTheFile
<1>q. QED BY <1>1, Invariance, PTL

-----------------------------------------------------------------------------
\* The bodies of strings are those that the recursion yields ...
LEMMA BodiesAre ==
  ASSUME NEW n \in 0..MaxText
  PROVE  StringBodies[n] = IF n = 0 THEN {<<>>} ELSE Longer(StringBodies[n - 1], n)
<1>0. DEFINE Solves(g, k) == g = [x \in 0..k |-> IF x = 0 THEN {<<>>} ELSE Longer(g[x - 1], x)]
<1>1. PICK G : G = {k \in 0..MaxText : \E g : Solves(g, k)}
  OBVIOUS
<1>2. ASSUME NEW k \in 0..MaxText, \A y \in 0..MaxText : y < k => y \in G
      PROVE  k \in G
  <2>0. k \in Nat
    BY <1>2
  <2>1. PICK h : k > 0 => Solves(h, k - 1)
    <3>1. k > 0 => k - 1 \in 0..MaxText /\ k - 1 < k
      BY <1>2, MaxTextAssumption
    <3>2. k > 0 => k - 1 \in G
      BY <1>2, <3>1
    <3>q. QED BY ONLY <1>1, <3>2, Zenon
  <2>2. PICK a : a = IF k = 0 THEN {<<>>} ELSE Longer(h[k - 1], k)
    OBVIOUS
  <2>3. PICK g : g = [x \in 0..k |-> IF x = k THEN a ELSE h[x]]
    OBVIOUS
  <2>4. ASSUME NEW x \in 0..k PROVE g[x] = IF x = 0 THEN {<<>>} ELSE Longer(g[x - 1], x)
    <3>1. x # 0 => x - 1 \in 0..k /\ x - 1 # k /\ g[x - 1] = h[x - 1]
      BY <2>0, <2>3
    <3>2. CASE x = k
      <4>1. g[x] = a
        BY <2>3, <3>2
      <4>q. QED BY ONLY <2>2, <3>1, <3>2, <4>1, Zenon
    <3>3. CASE x # k
      <4>1. g[x] = h[x] /\ x \in 0..(k - 1) /\ k > 0
        BY <2>0, <2>3, <3>3
      <4>2. h[x] = IF x = 0 THEN {<<>>} ELSE Longer(h[x - 1], x)
        BY ONLY <2>1, <4>1, Zenon
      <4>q. QED BY ONLY <3>1, <4>1, <4>2, Zenon
    <3>q. QED BY <3>2, <3>3
  <2>5. g = [x \in 0..k |-> g[x]]
    BY <2>3
  <2>6. Solves(g, k)
    BY ONLY <2>4, <2>5, Zenon
  <2>q. QED BY ONLY <1>1, <2>6, k \in 0..MaxText, Zenon
<1>3. G = 0..MaxText
  <2>1. 0 \in Int /\ MaxText \in Int /\ G \in SUBSET (0..MaxText)
    BY <1>1, MaxTextAssumption
  <2>q. QED BY ONLY <1>2, <2>1, UpwardInduction
<1>4. MaxText \in G
  BY <1>3, MaxTextAssumption
<1>5. PICK f : f = CHOOSE h : Solves(h, MaxText)
  OBVIOUS
<1>6. Solves(f, MaxText)
  BY ONLY <1>1, <1>4, <1>5, Zenon
<1>7. f = StringBodies
  BY <1>5 DEF StringBodies
<1>8. f[n] = IF n = 0 THEN {<<>>} ELSE Longer(f[n - 1], n)
  BY ONLY <1>6, n \in 0..MaxText, Zenon
<1>q. QED BY ONLY <1>7, <1>8, Zenon

\* ... and so are the values.
LEMMA ValuesAre ==
  ASSUME NEW n \in 0..MaxText
  PROVE  JSON[n] = IF n < 2 THEN {} ELSE Nested(JSON[n - 2], n)
<1>0. DEFINE Solves(g, k) == g = [x \in 0..k |-> IF x < 2 THEN {} ELSE Nested(g[x - 2], x)]
<1>1. PICK G : G = {k \in 0..MaxText : \E g : Solves(g, k)}
  OBVIOUS
<1>2. ASSUME NEW k \in 0..MaxText, \A y \in 0..MaxText : y < k => y \in G
      PROVE  k \in G
  <2>0. k \in Nat
    BY <1>2
  <2>1. PICK h : k > 0 => Solves(h, k - 1)
    <3>1. k > 0 => k - 1 \in 0..MaxText /\ k - 1 < k
      BY <1>2, MaxTextAssumption
    <3>2. k > 0 => k - 1 \in G
      BY <1>2, <3>1
    <3>q. QED BY ONLY <1>1, <3>2, Zenon
  <2>2. PICK a : a = IF k < 2 THEN {} ELSE Nested(h[k - 2], k)
    OBVIOUS
  <2>3. PICK g : g = [x \in 0..k |-> IF x = k THEN a ELSE h[x]]
    OBVIOUS
  <2>4. ASSUME NEW x \in 0..k PROVE g[x] = IF x < 2 THEN {} ELSE Nested(g[x - 2], x)
    <3>1. ~(x < 2) => x - 2 \in 0..k /\ x - 2 # k /\ g[x - 2] = h[x - 2]
      BY <2>0, <2>3
    <3>2. CASE x = k
      <4>1. g[x] = a
        BY <2>3, <3>2
      <4>q. QED BY ONLY <2>2, <3>1, <3>2, <4>1, Zenon
    <3>3. CASE x # k
      <4>1. g[x] = h[x] /\ x \in 0..(k - 1) /\ k > 0
        BY <2>0, <2>3, <3>3
      <4>2. h[x] = IF x < 2 THEN {} ELSE Nested(h[x - 2], x)
        BY ONLY <2>1, <4>1, Zenon
      <4>q. QED BY ONLY <3>1, <4>1, <4>2, Zenon
    <3>q. QED BY <3>2, <3>3
  <2>5. g = [x \in 0..k |-> g[x]]
    BY <2>3
  <2>6. Solves(g, k)
    BY ONLY <2>4, <2>5, Zenon
  <2>q. QED BY ONLY <1>1, <2>6, k \in 0..MaxText, Zenon
<1>3. G = 0..MaxText
  <2>1. 0 \in Int /\ MaxText \in Int /\ G \in SUBSET (0..MaxText)
    BY <1>1, MaxTextAssumption
  <2>q. QED BY ONLY <1>2, <2>1, UpwardInduction
<1>4. MaxText \in G
  BY <1>3, MaxTextAssumption
<1>5. PICK f : f = CHOOSE h : Solves(h, MaxText)
  OBVIOUS
<1>6. Solves(f, MaxText)
  BY ONLY <1>1, <1>4, <1>5, Zenon
<1>7. f = JSON
  BY <1>5 DEF JSON
<1>8. f[n] = IF n < 2 THEN {} ELSE Nested(f[n - 2], n)
  BY ONLY <1>6, n \in 0..MaxText, Zenon
<1>q. QED BY ONLY <1>7, <1>8, Zenon

\* The scanner's state, and that A holds it after each character of a text of
\* which the first lo are left out.
State(d, q, e) == [depth |-> d, inString |-> q, escaped |-> e]
Scans(A, text, lo, n) == \A i \in (lo + 1)..n : A[i] = Scan(A[i - 1], text[i])

\* Characters within strings and outside of them.
LEMMA ScanIs ==
  ASSUME NEW d \in Int, NEW c
  PROVE  /\ c \in Opener => Scan(State(d, FALSE, FALSE), c) = State(d + 1, FALSE, FALSE)
         /\ c \in Closer => Scan(State(d, FALSE, FALSE), c) = State(d - 1, FALSE, FALSE)
         /\ c = Quote => Scan(State(d, FALSE, FALSE), c) = State(d, TRUE, FALSE)
         /\ c \in Opener \cup Closer => Scan(State(d, TRUE, FALSE), c) = State(d, TRUE, FALSE)
         /\ c = Escape => Scan(State(d, TRUE, FALSE), c) = State(d, TRUE, TRUE)
         /\ c = Quote => Scan(State(d, TRUE, FALSE), c) = State(d, FALSE, FALSE)
         /\ Scan(State(d, TRUE, TRUE), c) = State(d, TRUE, FALSE)
<1>1. /\ c \in Opener => c \notin Closer /\ c # Quote /\ c # Escape
      /\ c \in Closer => c \notin Opener /\ c # Quote /\ c # Escape
      /\ c = Quote => c \notin Opener /\ c \notin Closer /\ c # Escape
      /\ c = Escape => c # Quote
  BY DEF Opener, Closer, Quote, Escape
<1>2. /\ c \in Opener => Turn(c) = 1
      /\ c \in Closer => Turn(c) = -1
      /\ c = Quote => Turn(c) = 0
  BY <1>1 DEF Turn
<1>3. \A q, e : /\ State(d, q, e).depth = d /\ State(d, q, e).inString = q /\ State(d, q, e).escaped = e
  BY DEF State
<1>4. Scan(State(d, FALSE, FALSE), c) = State(d + Turn(c), c = Quote, FALSE)
  BY <1>3 DEF Scan, State
<1>5. Scan(State(d, TRUE, FALSE), c) = State(d, c # Quote, c = Escape)
  BY <1>3 DEF Scan, State
<1>6. Scan(State(d, TRUE, TRUE), c) = State(d, TRUE, FALSE)
  BY <1>3 DEF Scan, State
<1>7. d + 1 = d + 1 /\ d + (-1) = d - 1 /\ d + 0 = d
  OBVIOUS
<1>q. QED BY <1>1, <1>2, <1>4, <1>5, <1>6, <1>7, Zenon

\* The characters of v are those of the text after the first a.
Occurs(v, text, a, n) == a + Len(v) <= n /\ \A i \in 1..Len(v) : text[a + i] = v[i]

\* A text that occurs is followed by the next.
LEMMA OccursInTurn ==
  ASSUME NEW S, NEW u \in Seq(S), NEW v \in Seq(S), NEW text, NEW a \in Nat, NEW n \in Nat,
         Occurs(u \o v, text, a, n)
  PROVE  /\ u \o v \in Seq(S) /\ Len(u \o v) = Len(u) + Len(v)
         /\ Occurs(u, text, a, n)
         /\ a + Len(u) \in Nat /\ Occurs(v, text, a + Len(u), n)
<1>1. PICK l, m \in Nat : l = Len(u) /\ m = Len(v)
  OBVIOUS
<1>2. PICK w : w = u \o v
  OBVIOUS
<1>3. w \in Seq(S) /\ Len(w) = l + m
  BY <1>1, <1>2
<1>4. a + (l + m) <= n /\ \A i \in 1..(l + m) : text[a + i] = w[i]
  BY <1>2, <1>3 DEF Occurs
<1>5. ASSUME NEW i \in 1..l PROVE text[a + i] = u[i]
  <2>1. i \in 1..(l + m)
    OBVIOUS
  <2>2. w[i] = u[i]
    BY <1>1, <1>2
  <2>q. QED BY <1>4, <2>1, <2>2
<1>6. ASSUME NEW i \in 1..m PROVE text[(a + l) + i] = v[i]
  <2>1. l + i \in 1..(l + m) /\ a + (l + i) = (a + l) + i
    OBVIOUS
  <2>2. w[l + i] = v[i]
    BY <1>1, <1>2
  <2>q. QED BY <1>4, <2>1, <2>2
<1>7. Occurs(u, text, a, n)
  BY <1>1, <1>4, <1>5 DEF Occurs
<1>8. Occurs(v, text, a + Len(u), n)
  BY <1>1, <1>4, <1>6 DEF Occurs
<1>q. QED BY <1>1, <1>2, <1>3, <1>7, <1>8

\* Within a string the scanner passes v, and ends where it began ...
PassedInString(v, A, text, lo, n) ==
  /\ v \in Seq(Characters)
  /\ \A p \in Nat, t \in Int :
       p >= lo /\ A[p] = State(t, TRUE, FALSE) /\ Occurs(v, text, p, n) =>
         /\ A[p + Len(v)] = State(t, TRUE, FALSE)
         /\ \A i \in p..(p + Len(v)) : A[i].depth = t
\* ... if v is the body of a string.
LEMMA BodiesArePassed ==
  ASSUME NEW n \in Nat, NEW lo \in Nat, NEW text, NEW A, Scans(A, text, lo, n),
         NEW k \in 0..MaxText, NEW b \in StringBodies[k]
  PROVE  PassedInString(b, A, text, lo, n)
<1>0. DEFINE Passed(v, p, t) ==
               /\ A[p + Len(v)] = State(t, TRUE, FALSE)
               /\ \A i \in p..(p + Len(v)) : A[i].depth = t
             Passes(v) == PassedInString(v, A, text, lo, n)
<1>1. PICK G : G = {x \in 0..MaxText : \A v \in StringBodies[x] : Passes(v)}
  OBVIOUS
<1>2. \A t \in Int : State(t, TRUE, FALSE).depth = t /\ State(t, TRUE, TRUE).depth = t
  BY DEF State
<1>3. Passes(<<>>)
  <2>0. <<>> \in Seq(Characters)
    OBVIOUS
  <2>1. SUFFICES ASSUME NEW p \in Nat, NEW t \in Int, A[p] = State(t, TRUE, FALSE)
                 PROVE  Passed(<<>>, p, t)
    BY <2>0, Zenon DEF PassedInString
  <2>2. p + Len(<<>>) = p /\ \A i \in p..p : i = p
    OBVIOUS
  <2>3. A[p].depth = t
    BY ONLY <1>2, <2>1, Zenon
  <2>q. QED BY ONLY <2>1, <2>2, <2>3, Zenon
<1>4. ASSUME NEW u \in StringUnits
      PROVE  Passes(u)
  <2>0. u \in Seq(Characters)
    <3>1. Escape \in Characters /\ Quote \in Characters /\ \A c \in Opener \cup Closer : c \in Characters
      BY DEF Characters
    <3>2. CASE \E c \in Opener \cup Closer : u = <<c>>
      BY <3>1, <3>2
    <3>3. CASE u = <<Escape, Quote>> \/ u = <<Escape, Escape>>
      <4>1. <<Escape, Quote>> \in Seq(Characters) /\ <<Escape, Escape>> \in Seq(Characters)
        BY ONLY <3>1
      <4>q. QED BY ONLY <3>3, <4>1, Zenon
    <3>q. QED BY <3>2, <3>3 DEF StringUnits
  <2>1. SUFFICES ASSUME NEW p \in Nat, NEW t \in Int, p >= lo, A[p] = State(t, TRUE, FALSE),
                        Occurs(u, text, p, n)
                 PROVE  Passed(u, p, t)
    BY <2>0, Zenon DEF PassedInString
  <2>2. p + 1 <= n => A[p + 1] = Scan(A[p], text[p + 1])
    <3>1. p + 1 <= n => p + 1 \in (lo + 1)..n /\ (p + 1) - 1 = p
      BY <2>1
    <3>q. QED BY ONLY <3>1, Scans(A, text, lo, n), Zenon DEF Scans
  <2>3. p + 2 <= n => A[p + 2] = Scan(A[p + 1], text[p + 2])
    <3>1. p + 2 <= n => p + 2 \in (lo + 1)..n /\ (p + 2) - 1 = p + 1
      BY <2>1
    <3>q. QED BY ONLY <3>1, Scans(A, text, lo, n), Zenon DEF Scans
  <2>4. CASE \E c \in Opener \cup Closer : u = <<c>>
    <3>1. PICK c \in Opener \cup Closer : u = <<c>>
      BY <2>4
    <3>2. Len(u) = 1 /\ p + 1 <= n /\ text[p + 1] = c
      BY <2>1, <3>1 DEF Occurs
    <3>3. A[p + 1] = State(t, TRUE, FALSE)
      BY <2>1, <2>2, <3>1, <3>2, ScanIs
    <3>4. \A i \in p..(p + 1) : i = p \/ i = p + 1
      OBVIOUS
    <3>5. A[p].depth = t /\ A[p + 1].depth = t
      BY ONLY <1>2, <2>1, <3>3, Zenon
    <3>q. QED BY ONLY <3>2, <3>3, <3>4, <3>5, Zenon
  <2>5. CASE u \in {<<Escape, Quote>>, <<Escape, Escape>>}
    <3>1. Len(u) = 2 /\ p + 1 <= n /\ p + 2 <= n /\ text[p + 1] = Escape
      <4>1. Len(u) = 2 /\ u[1] = Escape
        BY <2>5
      <4>q. QED BY <2>1, <4>1 DEF Occurs
    <3>2. A[p + 1] = State(t, TRUE, TRUE)
      BY <2>1, <2>2, <3>1, ScanIs
    <3>3. A[p + 2] = State(t, TRUE, FALSE)
      BY <2>3, <3>1, <3>2, ScanIs
    <3>4. \A i \in p..(p + 2) : i = p \/ i = p + 1 \/ i = p + 2
      OBVIOUS
    <3>5. A[p].depth = t /\ A[p + 1].depth = t /\ A[p + 2].depth = t
      BY ONLY <1>2, <2>1, <3>2, <3>3, Zenon
    <3>q. QED BY ONLY <3>1, <3>3, <3>4, <3>5, Zenon
  <2>q. QED BY <2>4, <2>5 DEF StringUnits
<1>5. ASSUME NEW u, NEW v, Passes(u), Passes(v) PROVE Passes(u \o v)
  <2>0. u \o v \in Seq(Characters) /\ Len(u \o v) = Len(u) + Len(v) /\ Len(u) \in Nat /\ Len(v) \in Nat
    <3>1. u \in Seq(Characters) /\ v \in Seq(Characters)
      BY ONLY <1>5, Zenon DEF PassedInString
    <3>q. QED BY ONLY <3>1
  <2>1. SUFFICES ASSUME NEW p \in Nat, NEW t \in Int, p >= lo, A[p] = State(t, TRUE, FALSE),
                        Occurs(u \o v, text, p, n)
                 PROVE  Passed(u \o v, p, t)
    BY <2>0, Zenon DEF PassedInString
  <2>2. PICK q \in Nat : q = p + Len(u) /\ q >= lo
    BY <2>0, <2>1
  <2>3. Occurs(u, text, p, n) /\ Occurs(v, text, q, n)
    <3>1. u \in Seq(Characters) /\ v \in Seq(Characters)
      BY ONLY <1>5, Zenon DEF PassedInString
    <3>2. Occurs(u \o v, text, p, n)
      BY <2>1
    <3>q. QED BY ONLY <2>2, <3>1, <3>2, p \in Nat, n \in Nat, OccursInTurn
  <2>4. Passed(u, p, t)
    BY ONLY <1>5, <2>1, <2>3, Zenon DEF PassedInString
  <2>5. A[q] = State(t, TRUE, FALSE)
    BY ONLY <2>2, <2>4, Zenon
  <2>6. Passed(v, q, t)
    BY ONLY <1>5, <2>1, <2>2, <2>3, <2>5, Zenon DEF PassedInString
  <2>7. /\ p + Len(u \o v) = q + Len(v)
        /\ \A i \in p..(q + Len(v)) : i \in p..(p + Len(u)) \/ i \in q..(q + Len(v))
    BY <2>0, <2>2
  <2>q. QED BY ONLY <2>4, <2>6, <2>7, Zenon
<1>6. ASSUME NEW x \in 0..MaxText, \A y \in 0..MaxText : y < x => y \in G
      PROVE  x \in G
  <2>1. ASSUME NEW v \in StringBodies[x] PROVE Passes(v)
    <3>1. CASE x = 0
      <4>1. StringBodies[x] = {<<>>}
        BY ONLY <3>1, x \in 0..MaxText, BodiesAre, Zenon
      <4>q. QED BY ONLY <1>3, <2>1, <4>1, Zenon
    <3>2. CASE x # 0
      <4>1. x - 1 \in 0..MaxText /\ x - 1 < x
        BY <3>2, MaxTextAssumption
      <4>2. StringBodies[x] = Longer(StringBodies[x - 1], x)
        BY ONLY <3>2, x \in 0..MaxText, BodiesAre, Zenon
      <4>3. \A w \in StringBodies[x - 1] : Passes(w)
        BY ONLY <1>1, <1>6, <4>1, Zenon
      <4>4. v \in StringBodies[x - 1] \/ \E w \in StringBodies[x - 1], u \in StringUnits : v = w \o u
        BY <2>1, <4>2 DEF Longer
      <4>q. QED BY ONLY <1>4, <1>5, <4>3, <4>4, Zenon
    <3>q. QED BY <3>1, <3>2
  <2>q. QED BY ONLY <1>1, <2>1, x \in 0..MaxText, Zenon
<1>7. G = 0..MaxText
  <2>1. 0 \in Int /\ MaxText \in Int /\ G \in SUBSET (0..MaxText)
    BY <1>1, MaxTextAssumption
  <2>q. QED BY ONLY <1>6, <2>1, UpwardInduction
<1>8. Passes(b)
  BY ONLY <1>1, <1>7, k \in 0..MaxText, b \in StringBodies[k], Zenon
<1>q. QED BY <1>8

\* Outside of strings it passes v, and ends where it began; below the bracket
\* that opens v, if one does, it comes back only with the last character ...
PassedOutside(v, A, text, lo, n) ==
  /\ v \in Seq(Characters) /\ Len(v) >= 2
  /\ \A p \in Nat, t \in Int :
       p >= lo /\ A[p] = State(t, FALSE, FALSE) /\ Occurs(v, text, p, n) =>
         /\ A[p + Len(v)] = State(t, FALSE, FALSE)
         /\ \A i \in p..(p + Len(v)) : A[i].depth \in Int /\ A[i].depth >= t
         /\ v[1] \in Opener =>
              /\ A[p + Len(v) - 1].depth = t + 1
              /\ \A i \in (p + 1)..(p + Len(v) - 1) : A[i].depth \in Int /\ A[i].depth >= t + 1
\* ... if v is a value.
LEMMA ValuesArePassed ==
  ASSUME NEW n \in Nat, NEW lo \in Nat, NEW text, NEW A, Scans(A, text, lo, n),
         NEW k \in 0..MaxText, NEW w \in JSON[k]
  PROVE  PassedOutside(w, A, text, lo, n)
<1>0. DEFINE Passed(v, p, t) ==
               /\ A[p + Len(v)] = State(t, FALSE, FALSE)
               /\ \A i \in p..(p + Len(v)) : A[i].depth \in Int /\ A[i].depth >= t
               /\ v[1] \in Opener =>
                    /\ A[p + Len(v) - 1].depth = t + 1
                    /\ \A i \in (p + 1)..(p + Len(v) - 1) : A[i].depth \in Int /\ A[i].depth >= t + 1
             Passes(v) == PassedOutside(v, A, text, lo, n)
<1>1. PICK G : G = {x \in 0..MaxText : \A v \in JSON[x] : Passes(v)}
  OBVIOUS
<1>2. \A t \in Int : State(t, TRUE, FALSE).depth = t /\ State(t, FALSE, FALSE).depth = t
  BY DEF State
<1>b. /\ Quote \in Characters /\ \A c \in Opener \cup Closer : c \in Characters
      /\ "{" \in Opener /\ "[" \in Opener /\ "}" \in Closer /\ "]" \in Closer /\ Quote \notin Opener
  BY DEF Characters, Opener, Closer, Quote
<1>c. ASSUME NEW p \in Nat, p >= lo, p + 1 <= n
      PROVE  A[p + 1] = Scan(A[p], text[p + 1])
  <2>1. p + 1 \in (lo + 1)..n /\ (p + 1) - 1 = p
    BY <1>c
  <2>q. QED BY ONLY <2>1, Scans(A, text, lo, n), Zenon DEF Scans
\* A string.
<1>3. ASSUME NEW x \in 0..MaxText, NEW b \in StringBodies[x]
      PROVE  Passes(<<Quote>> \o b \o <<Quote>>)
  <2>0. PassedInString(b, A, text, lo, n)
    BY <1>3, BodiesArePassed
  <2>1. b \in Seq(Characters) /\ <<Quote>> \in Seq(Characters)
    <3>1. b \in Seq(Characters)
      BY <2>0 DEF PassedInString
    <3>2. <<Quote>> \in Seq(Characters)
      <4>1. Quote \in Characters
        BY <1>b
      <4>q. QED BY ONLY <4>1
    <3>q. QED BY <3>1, <3>2
  <2>2. PICK l \in Nat : l = Len(b)
    BY ONLY <2>1
  <2>3. PICK u : u = <<Quote>> \o b
    OBVIOUS
  <2>4. PICK v : v = u \o <<Quote>>
    OBVIOUS
  <2>5. u \in Seq(Characters) /\ Len(u) = l + 1 /\ u[1] = Quote
    BY ONLY <2>1, <2>2, <2>3
  <2>6. v \in Seq(Characters) /\ Len(v) = l + 2 /\ Len(v) >= 2 /\ v[1] = Quote
    BY ONLY <2>1, <2>2, <2>4, <2>5
  <2>7. ASSUME NEW p \in Nat, NEW t \in Int, p >= lo, A[p] = State(t, FALSE, FALSE),
               Occurs(v, text, p, n)
        PROVE  Passed(v, p, t)
    <3>1. Occurs(u, text, p, n) /\ Occurs(<<Quote>>, text, p + (l + 1), n)
      BY ONLY <2>1, <2>4, <2>5, <2>7, n \in Nat, OccursInTurn
    <3>2. Occurs(<<Quote>>, text, p, n) /\ Occurs(b, text, p + 1, n)
      <4>1. Len(<<Quote>>) = 1
        OBVIOUS
      <4>q. QED BY ONLY <2>1, <2>3, <3>1, <4>1, p \in Nat, n \in Nat, OccursInTurn
    <3>3. text[p + 1] = Quote /\ p + 1 <= n
      BY ONLY <3>2, p \in Nat DEF Occurs
    <3>4. A[p + 1] = State(t, TRUE, FALSE)
      <4>1. A[p + 1] = Scan(State(t, FALSE, FALSE), Quote)
        BY ONLY <1>c, <2>7, <3>3, Zenon
      <4>q. QED BY ONLY <4>1, t \in Int, ScanIs, Zenon
    <3>5. PICK q \in Nat : q = p + 1 /\ q >= lo
      BY <2>7
    <3>6. A[q + l] = State(t, TRUE, FALSE) /\ \A i \in q..(q + l) : A[i].depth = t
      <4>1. Occurs(b, text, q, n) /\ A[q] = State(t, TRUE, FALSE)
        BY ONLY <3>2, <3>4, <3>5, Zenon
      <4>q. QED BY ONLY t \in Int, q \in Nat, <2>0, <2>2, <3>5, <4>1, Zenon DEF PassedInString
    <3>7. PICK r \in Nat : r = q + l /\ r >= lo /\ r = p + (l + 1) /\ p + Len(v) = r + 1
      BY <2>6, <3>5
    <3>8. text[r + 1] = Quote /\ r + 1 <= n
      <4>1. Occurs(<<Quote>>, text, r, n)
        BY ONLY <3>1, <3>7, Zenon
      <4>q. QED BY ONLY <4>1, r \in Nat DEF Occurs
    <3>9. A[r + 1] = State(t, FALSE, FALSE)
      <4>1. A[r + 1] = Scan(State(t, TRUE, FALSE), Quote)
        BY ONLY <1>c, <3>6, <3>7, <3>8, Zenon
      <4>q. QED BY ONLY <4>1, t \in Int, ScanIs, Zenon
    <3>10. \A i \in p..(r + 1) : i = p \/ i \in q..(q + l) \/ i = r + 1
      BY ONLY <3>5, <3>7, p \in Nat, l \in Nat
    <3>11. A[p].depth = t /\ A[r + 1].depth = t
      BY ONLY <1>2, <2>7, <3>9, Zenon
    <3>12. \A i \in p..(r + 1) : A[i].depth = t
      BY ONLY <3>6, <3>10, <3>11, Zenon
    <3>13. \A i \in p..(r + 1) : A[i].depth \in Int /\ A[i].depth >= t
      BY ONLY <3>12, t \in Int
    <3>q. QED BY ONLY <1>b, <2>6, <3>7, <3>9, <3>13, Zenon
  <2>8. Passes(v)
    BY ONLY <2>6, <2>7, Zenon DEF PassedOutside
  <2>q. QED BY ONLY <2>3, <2>4, <2>8, Zenon
\* Brackets about nothing, ...
<1>4. ASSUME NEW o \in Opener, NEW c \in Closer
      PROVE  Passes(<<o, c>>)
  <2>1. PICK v : v = <<o, c>>
    OBVIOUS
  <2>2. v \in Seq(Characters) /\ Len(v) = 2 /\ v[1] = o /\ v[2] = c
    <3>1. o \in Characters /\ c \in Characters
      BY <1>b
    <3>q. QED BY ONLY <2>1, <3>1
  <2>3. ASSUME NEW p \in Nat, NEW t \in Int, p >= lo, A[p] = State(t, FALSE, FALSE),
               Occurs(v, text, p, n)
        PROVE  Passed(v, p, t)
    <3>1. p + 1 <= n /\ p + 2 <= n /\ text[p + 1] = o /\ text[p + 2] = c
      BY ONLY <2>2, <2>3, n \in Nat DEF Occurs
    <3>2. A[p + 1] = State(t + 1, FALSE, FALSE)
      <4>1. A[p + 1] = Scan(State(t, FALSE, FALSE), o)
        BY ONLY <1>c, <2>3, <3>1, Zenon
      <4>q. QED BY ONLY <4>1, t \in Int, o \in Opener, ScanIs, Zenon
    <3>3. A[p + 2] = State(t, FALSE, FALSE)
      <4>1. PICK q \in Nat : q = p + 1 /\ q >= lo /\ q + 1 = p + 2
        BY <2>3
      <4>2. A[q + 1] = Scan(A[q], text[q + 1])
        BY <1>c, <3>1, <4>1
      <4>3. PICK y \in Int : y = t + 1 /\ y - 1 = t
        OBVIOUS
      <4>4. A[p + 2] = Scan(State(y, FALSE, FALSE), c)
        BY ONLY <3>1, <3>2, <4>1, <4>2, <4>3, Zenon
      <4>5. Scan(State(y, FALSE, FALSE), c) = State(y - 1, FALSE, FALSE)
        BY ONLY y \in Int, c \in Closer, ScanIs, Zenon
      <4>q. QED BY ONLY <4>3, <4>4, <4>5, Zenon
    <3>4. \A i \in p..(p + 2) : i = p \/ i = p + 1 \/ i = p + 2
      OBVIOUS
    <3>5. \A i \in (p + 1)..(p + 2 - 1) : i = p + 1
      OBVIOUS
    <3>6. t + 1 \in Int /\ p + 2 - 1 = p + 1
      OBVIOUS
    <3>7. A[p].depth = t /\ A[p + 1].depth = t + 1 /\ A[p + 2].depth = t
      BY ONLY <1>2, <2>3, <3>2, <3>3, <3>6, Zenon
    <3>8. /\ \A i \in p..(p + 2) : A[i].depth \in Int /\ A[i].depth >= t
          /\ \A i \in (p + 1)..(p + 2 - 1) : A[i].depth \in Int /\ A[i].depth >= t + 1
      BY ONLY <3>4, <3>5, <3>7, t \in Int
    <3>q. QED BY ONLY <2>2, <3>3, <3>6, <3>7, <3>8, Zenon
  <2>4. Len(v) >= 2
    BY ONLY <2>2
  <2>5. Passes(v)
    BY ONLY <2>2, <2>3, <2>4, Zenon DEF PassedOutside
  <2>q. QED BY ONLY <2>1, <2>5, Zenon
\* ... and about a value.
<1>5. ASSUME NEW z, Passes(z) PROVE Passes(<<"[">> \o z \o <<"]">>)
  <2>1. z \in Seq(Characters) /\ <<"[">> \in Seq(Characters) /\ <<"]">> \in Seq(Characters)
    <3>1. z \in Seq(Characters)
      BY ONLY <1>5, Zenon DEF PassedOutside
    <3>2. "[" \in Characters /\ "]" \in Characters
      BY <1>b
    <3>q. QED BY ONLY <3>1, <3>2
  <2>2. PICK l \in Nat : l = Len(z)
    BY ONLY <2>1
  <2>3. PICK u : u = <<"[">> \o z
    OBVIOUS
  <2>4. PICK v : v = u \o <<"]">>
    OBVIOUS
  <2>5. u \in Seq(Characters) /\ Len(u) = l + 1 /\ u[1] = "["
    BY ONLY <2>1, <2>2, <2>3
  <2>6. v \in Seq(Characters) /\ Len(v) = l + 2 /\ Len(v) >= 2 /\ v[1] = "["
    BY ONLY <2>1, <2>2, <2>4, <2>5
  <2>7. ASSUME NEW p \in Nat, NEW t \in Int, p >= lo, A[p] = State(t, FALSE, FALSE),
               Occurs(v, text, p, n)
        PROVE  Passed(v, p, t)
    <3>1. Occurs(u, text, p, n) /\ Occurs(<<"]">>, text, p + (l + 1), n)
      BY ONLY <2>1, <2>4, <2>5, <2>7, n \in Nat, OccursInTurn
    <3>2. Occurs(<<"[">>, text, p, n) /\ Occurs(z, text, p + 1, n)
      <4>1. Len(<<"[">>) = 1
        OBVIOUS
      <4>q. QED BY ONLY <2>1, <2>3, <3>1, <4>1, p \in Nat, n \in Nat, OccursInTurn
    <3>3. text[p + 1] = "[" /\ p + 1 <= n
      BY ONLY <3>2, p \in Nat DEF Occurs
    <3>4. A[p + 1] = State(t + 1, FALSE, FALSE)
      <4>1. A[p + 1] = Scan(State(t, FALSE, FALSE), "[")
        BY ONLY <1>c, <2>7, <3>3, Zenon
      <4>q. QED BY ONLY <1>b, <4>1, t \in Int, ScanIs, Zenon
    <3>5. PICK q \in Nat : q = p + 1 /\ q >= lo
      BY <2>7
    <3>a. PICK y \in Int : y = t + 1 /\ y - 1 = t
      OBVIOUS
    <3>6. /\ A[q + l] = State(y, FALSE, FALSE)
          /\ \A i \in q..(q + l) : A[i].depth \in Int /\ A[i].depth >= y
      <4>1. Passed(z, q, y)
        BY ONLY <1>5, <3>2, <3>4, <3>5, <3>a, Zenon DEF PassedOutside
      <4>q. QED BY ONLY <2>2, <4>1, Zenon
    <3>7. PICK r \in Nat : r = q + l /\ r >= lo /\ r = p + (l + 1) /\ p + Len(v) = r + 1
      BY <2>6, <3>5
    <3>8. text[r + 1] = "]" /\ r + 1 <= n
      <4>1. Occurs(<<"]">>, text, r, n)
        BY ONLY <3>1, <3>7, Zenon
      <4>q. QED BY ONLY <4>1, r \in Nat DEF Occurs
    <3>9. A[r + 1] = State(t, FALSE, FALSE)
      <4>1. A[r + 1] = Scan(State(y, FALSE, FALSE), "]")
        BY ONLY <1>c, <3>6, <3>7, <3>8, Zenon
      <4>2. A[r + 1] = State(y - 1, FALSE, FALSE)
        BY ONLY <1>b, <4>1, y \in Int, ScanIs, Zenon
      <4>q. QED BY ONLY <3>a, <4>2, Zenon
    <3>10. \A i \in p..(r + 1) : i = p \/ i \in q..(q + l) \/ i = r + 1
      BY ONLY <3>5, <3>7, p \in Nat, l \in Nat
    <3>11. A[p].depth = t /\ A[r + 1].depth = t /\ A[r].depth = t + 1
      BY ONLY <1>2, <2>7, <3>6, <3>7, <3>9, <3>a, Zenon
    <3>12. \A i \in p..(r + 1) : A[i].depth \in Int /\ A[i].depth >= t
      BY ONLY <3>6, <3>10, <3>11, <3>a, t \in Int
    <3>13. \A i \in (p + 1)..(r + 1 - 1) : i \in q..(q + l)
      BY ONLY <3>5, <3>7, p \in Nat, l \in Nat
    <3>14. \A i \in (p + 1)..(r + 1 - 1) : A[i].depth \in Int /\ A[i].depth >= t + 1
      BY ONLY <3>6, <3>13, <3>a, Zenon
    <3>15. r + 1 - 1 = r
      OBVIOUS
    <3>16. /\ \A i \in p..(p + Len(v)) : A[i].depth \in Int /\ A[i].depth >= t
           /\ \A i \in (p + 1)..(p + Len(v) - 1) : A[i].depth \in Int /\ A[i].depth >= t + 1
      <4>1. p + Len(v) = r + 1
        BY ONLY <3>7
      <4>2. \A i \in p..(p + Len(v)) : A[i].depth \in Int /\ A[i].depth >= t
        BY ONLY <3>12, <4>1, Zenon
      <4>3. \A i \in (p + 1)..(p + Len(v) - 1) : A[i].depth \in Int /\ A[i].depth >= t + 1
        <5>1. p + Len(v) - 1 = r
          BY ONLY <3>7, r \in Nat
        <5>q. QED BY ONLY <3>14, <3>15, <5>1, Zenon
      <4>q. QED BY ONLY <4>2, <4>3, Zenon
    <3>17. A[p + Len(v)] = State(t, FALSE, FALSE) /\ A[p + Len(v) - 1].depth = t + 1
      <4>1. p + Len(v) = r + 1 /\ p + Len(v) - 1 = r
        BY ONLY <3>7, r \in Nat
      <4>q. QED BY ONLY <3>9, <3>11, <4>1, Zenon
    <3>q. QED BY ONLY <3>16, <3>17, Zenon
  <2>8. Passes(v)
    BY ONLY <2>6, <2>7, Zenon DEF PassedOutside
  <2>q. QED BY ONLY <2>3, <2>4, <2>8, Zenon
<1>6. ASSUME NEW x \in 0..MaxText, \A y \in 0..MaxText : y < x => y \in G
      PROVE  x \in G
  <2>1. ASSUME NEW v \in JSON[x] PROVE Passes(v)
    <3>1. ~(x < 2) /\ JSON[x] = Nested(JSON[x - 2], x)
      BY ONLY <2>1, x \in 0..MaxText, ValuesAre, Zenon
    <3>2. x - 2 \in 0..MaxText /\ x - 2 < x
      BY <3>1, MaxTextAssumption
    <3>3. \A z \in JSON[x - 2] : Passes(z)
      BY ONLY <1>1, <1>6, <3>2, Zenon
    <3>4. \/ \E b \in StringBodies[x - 2] : v = <<Quote>> \o b \o <<Quote>>
          \/ v = <<"{", "}">> \/ v = <<"[", "]">>
          \/ \E z \in JSON[x - 2] : v = <<"[">> \o z \o <<"]">>
      BY <2>1, <3>1 DEF Nested
    <3>5. CASE \E b \in StringBodies[x - 2] : v = <<Quote>> \o b \o <<Quote>>
      BY ONLY <1>3, <3>2, <3>5, Zenon
    <3>6. CASE v = <<"{", "}">> \/ v = <<"[", "]">>
      BY ONLY <1>4, <1>b, <3>6, Zenon
    <3>7. CASE \E z \in JSON[x - 2] : v = <<"[">> \o z \o <<"]">>
      BY ONLY <1>5, <3>3, <3>7, Zenon
    <3>q. QED BY ONLY <3>4, <3>5, <3>6, <3>7, Zenon
  <2>q. QED BY ONLY <1>1, <2>1, x \in 0..MaxText, Zenon
<1>7. G = 0..MaxText
  <2>1. 0 \in Int /\ MaxText \in Int /\ G \in SUBSET (0..MaxText)
    BY <1>1, MaxTextAssumption
  <2>q. QED BY ONLY <1>6, <2>1, UpwardInduction
<1>8. Passes(w)
  BY ONLY <1>1, <1>7, k \in 0..MaxText, w \in JSON[k], Zenon
<1>q. QED BY <1>8

\* jsonEnd ends with a value that begins where it begins, if a bracket opens it.
LEMMA EndIs ==
  ASSUME NEW n \in Nat, NEW text, Len(text) = n, NEW start \in 1..n, NEW v \in Values,
         v[1] \in Opener, Occurs(v, text, start - 1, n)
  PROVE  Len(v) \in Nat /\ Len(v) >= 2 /\ jsonEnd(text, start) = start - 1 + Len(v)
<1>a. PICK lo \in Nat : lo = start - 1 /\ lo < n /\ start = lo + 1
  OBVIOUS
<1>0. DEFINE Solves(g, k) ==
               g = [i \in start - 1 .. k |-> IF i < start THEN [depth |-> 0, inString |-> FALSE, escaped |-> FALSE]
                                             ELSE Scan(g[i - 1], text[i])]
<1>1. PICK G : G = {k \in lo..n : \E g : Solves(g, k)}
  OBVIOUS
<1>2. ASSUME NEW k \in lo..n, \A y \in lo..n : y < k => y \in G
      PROVE  k \in G
  <2>1. PICK h : k > lo => Solves(h, k - 1)
    <3>1. k > lo => k - 1 \in lo..n /\ k - 1 < k
      BY <1>2
    <3>2. k > lo => k - 1 \in G
      BY <1>2, <3>1
    <3>q. QED BY ONLY <1>1, <3>2, Zenon
  <2>2. PICK a : a = IF k < start THEN [depth |-> 0, inString |-> FALSE, escaped |-> FALSE]
                     ELSE Scan(h[k - 1], text[k])
    OBVIOUS
  <2>3. PICK g : g = [i \in start - 1 .. k |-> IF i = k THEN a ELSE h[i]]
    OBVIOUS
  <2>4. ASSUME NEW i \in start - 1 .. k
        PROVE  g[i] = IF i < start THEN [depth |-> 0, inString |-> FALSE, escaped |-> FALSE]
                      ELSE Scan(g[i - 1], text[i])
    <3>1. ~(i < start) => i - 1 \in start - 1 .. k /\ i - 1 # k /\ g[i - 1] = h[i - 1]
      BY <2>3
    <3>2. CASE i = k
      <4>1. g[i] = a
        BY <2>3, <3>2
      <4>q. QED BY ONLY <2>2, <3>1, <3>2, <4>1, Zenon
    <3>3. CASE i # k
      <4>1. g[i] = h[i] /\ i \in start - 1 .. k - 1 /\ k > lo
        BY <1>a, <2>3, <3>3
      <4>2. h[i] = IF i < start THEN [depth |-> 0, inString |-> FALSE, escaped |-> FALSE]
                   ELSE Scan(h[i - 1], text[i])
        BY ONLY <2>1, <4>1, Zenon
      <4>q. QED BY ONLY <3>1, <4>1, <4>2, Zenon
    <3>q. QED BY <3>2, <3>3
  <2>5. g = [i \in start - 1 .. k |-> g[i]]
    BY <2>3
  <2>6. Solves(g, k)
    BY ONLY <2>4, <2>5, Zenon
  <2>q. QED BY ONLY <1>1, <2>6, k \in lo..n, Zenon
<1>3. G = lo..n
  <2>1. lo \in Int /\ n \in Int /\ G \in SUBSET (lo..n)
    BY <1>1
  <2>q. QED BY ONLY <1>2, <2>1, UpwardInduction
<1>4. n \in G
  BY <1>3, <1>a
<1>5. PICK A : A = CHOOSE h : Solves(h, Len(text))
  OBVIOUS
<1>6. Solves(A, n)
  BY ONLY <1>1, <1>4, <1>5, Len(text) = n, Zenon
<1>7. A[lo] = State(0, FALSE, FALSE)
  <2>1. start - 1 \in start - 1 .. n /\ start - 1 < start
    OBVIOUS
  <2>2. A[start - 1] = [depth |-> 0, inString |-> FALSE, escaped |-> FALSE]
    BY ONLY <1>6, <2>1, Zenon
  <2>q. QED BY <1>a, <2>2 DEF State
<1>8. Scans(A, text, lo, n)
  <2>1. ASSUME NEW i \in (lo + 1)..n PROVE A[i] = Scan(A[i - 1], text[i])
    <3>1. i \in start - 1 .. n /\ ~(i < start)
      BY <1>a
    <3>q. QED BY ONLY <1>6, <3>1, Zenon
  <2>q. QED BY ONLY <2>1, Zenon DEF Scans
<1>9. PassedOutside(v, A, text, lo, n)
  <2>1. MaxText \in 0..MaxText /\ v \in JSON[MaxText]
    BY MaxTextAssumption DEF Values
  <2>q. QED BY ONLY <1>8, <2>1, n \in Nat, lo \in Nat, ValuesArePassed
<1>10. v \in Seq(Characters) /\ Len(v) >= 2
  BY ONLY <1>9, Zenon DEF PassedOutside
<1>11. PICK l \in Nat : l = Len(v) /\ l >= 2 /\ lo + l <= n
  <2>1. lo + Len(v) <= n
    BY <1>a DEF Occurs
  <2>q. QED BY ONLY <1>10, <2>1
<1>12. /\ A[lo + l] = State(0, FALSE, FALSE)
       /\ A[lo + l - 1].depth = 0 + 1
       /\ \A i \in (lo + 1)..(lo + l - 1) : A[i].depth \in Int /\ A[i].depth >= 0 + 1
  <2>1. lo >= lo /\ 0 \in Int /\ Occurs(v, text, lo, n)
    BY <1>a
  <2>q. QED BY ONLY <1>7, <1>9, <1>11, <2>1, lo \in Nat, v[1] \in Opener, Zenon DEF PassedOutside
<1>13. A[lo + l].depth = 0 /\ A[lo + l - 1].depth = 1
  BY <1>12 DEF State
<1>14. PICK closed : closed = {i \in start .. n : A[i].depth = 0 /\ A[i - 1].depth = 1}
  OBVIOUS
<1>15. lo + l \in closed
  <2>1. lo + l \in start .. n
    BY <1>11, <1>a
  <2>q. QED BY ONLY <1>13, <1>14, <2>1
<1>16. ASSUME NEW i \in closed PROVE lo + l <= i
  <2>1. i \in start .. n /\ A[i].depth = 0
    BY ONLY <1>14, <1>16, i \in closed, Zenon
  <2>2. SUFFICES ASSUME i < lo + l PROVE FALSE
    BY <2>1
  <2>3. i \in (lo + 1)..(lo + l - 1)
    BY <1>a, <2>1, <2>2
  <2>4. A[i].depth >= 0 + 1
    BY ONLY <1>12, <2>3, Zenon
  <2>q. QED BY ONLY <2>1, <2>4
<1>17. Min(closed) = lo + l
  <2>1. closed \in SUBSET Nat
    BY <1>14
  <2>2. Min(closed) \in closed /\ \A y \in closed : Min(closed) <= y
    BY ONLY <1>15, <2>1, LeastIs
  <2>3. Min(closed) \in Nat /\ Min(closed) <= lo + l /\ lo + l <= Min(closed)
    BY ONLY <1>15, <1>16, <2>1, <2>2
  <2>q. QED BY ONLY <2>3, lo \in Nat, l \in Nat
<1>18. jsonEnd(text, start) = IF closed = {} THEN 0 ELSE Min(closed)
  <2>1. closed = {i \in start .. Len(text) : A[i].depth = 0 /\ A[i - 1].depth = 1}
    BY ONLY <1>14, Len(text) = n, Zenon
  <2>q. QED BY ONLY <1>5, <2>1, Zenon DEF jsonEnd
<1>19. jsonEnd(text, start) = lo + l
  BY ONLY <1>15, <1>17, <1>18, Zenon
<1>q. QED BY ONLY <1>11, <1>19, <1>a, Zenon

\* It ends within the text, or nowhere.
LEMMA EndIsWithin ==
  ASSUME NEW n \in Nat, NEW text, Len(text) = n, NEW start \in 1..n
  PROVE  jsonEnd(text, start) = 0 \/ jsonEnd(text, start) \in start..n
<1>1. PICK closed \in SUBSET (start..n) : jsonEnd(text, start) = IF closed = {} THEN 0 ELSE Min(closed)
  <2>0. DEFINE Solves(g, k) ==
                 g = [i \in start - 1 .. k |-> IF i < start THEN [depth |-> 0, inString |-> FALSE, escaped |-> FALSE]
                                               ELSE Scan(g[i - 1], text[i])]
  <2>1. PICK A : A = CHOOSE h : Solves(h, Len(text))
    OBVIOUS
  <2>2. PICK closed : closed = {i \in start .. Len(text) : A[i].depth = 0 /\ A[i - 1].depth = 1}
    OBVIOUS
  <2>3. jsonEnd(text, start) = IF closed = {} THEN 0 ELSE Min(closed)
    BY ONLY <2>1, <2>2, Zenon DEF jsonEnd
  <2>4. closed \in SUBSET (start..n)
    BY ONLY <2>2, Len(text) = n
  <2>q. QED BY <2>3, <2>4, Zenon
<1>2. closed # {} => Min(closed) \in closed
  <2>1. closed \in SUBSET Nat
    OBVIOUS
  <2>q. QED BY <2>1, LeastIs
<1>q. QED BY ONLY <1>1, <1>2, closed \in SUBSET (start..n), Zenon

\* No value is shorter than two characters.
LEMMA ValuesAreLong ==
  ASSUME NEW v \in Values
  PROVE  v \in Seq(Characters) /\ Len(v) >= 2
<1>1. PICK A : A = [i \in {} |-> {}]
  OBVIOUS
<1>2. Scans(A, v, 0, 0)
  BY DEF Scans
<1>3. MaxText \in 0..MaxText /\ v \in JSON[MaxText] /\ 0 \in Nat
  BY MaxTextAssumption DEF Values
<1>4. PassedOutside(v, A, v, 0, 0)
  BY ONLY <1>2, <1>3, ValuesArePassed
<1>q. QED BY ONLY <1>4, Zenon DEF PassedOutside

\* The brackets that open something in a text, and the ends of the values
\* that begin at the first of them ...
Openers(text, n) == {i \in 1..n : text[i] \in Opener}
ValueEnds(text, n) ==
  IF Openers(text, n) = {} THEN {}
  ELSE {e \in Min(Openers(text, n)) .. n : SubSeq(text, Min(Openers(text, n)), e) \in Values}
\* ... which is the value that ExtractJSON decodes.
LEMMA ExtractIs ==
  ASSUME NEW n \in Nat, NEW text \in [1..n -> Characters], NEW kind \in Opener
  PROVE  ExtractJSON(text, kind) =
           IF ValueEnds(text, n) # {} /\ text[Min(Openers(text, n))] = kind
           THEN <<Min(Openers(text, n)), Min(ValueEnds(text, n))>> ELSE NoValue
<1>a. PICK openers : openers = Openers(text, n)
  OBVIOUS
<1>b. PICK ends : ends = ValueEnds(text, n)
  OBVIOUS
<1>c. openers = {i \in 1..n : text[i] \in Opener}
  BY <1>a DEF Openers
<1>d. ends = IF openers = {} THEN {}
             ELSE {e \in Min(openers) .. n : SubSeq(text, Min(openers), e) \in Values}
  BY ONLY <1>a, <1>b, Zenon DEF ValueEnds
<1>0. SUFFICES ExtractJSON(text, kind) =
                 IF ends # {} /\ text[Min(openers)] = kind THEN <<Min(openers), Min(ends)>> ELSE NoValue
  BY <1>a, <1>b, Zenon
<1>1. Len(text) = n /\ text \in Seq(Characters)
  OBVIOUS
<1>2. PICK s : s = firstJSONStart(text)
  OBVIOUS
<1>3. s = IF openers = {} THEN 0 ELSE Min(openers)
  BY ONLY <1>1, <1>2, <1>c, Zenon DEF firstJSONStart
<1>4. PICK end : end = IF s = 0 THEN 0 ELSE jsonEnd(text, s)
  OBVIOUS
<1>5. PICK first : first <=> end > s /\ Unmarshal(SubSeq(text, s, end), kind)
  OBVIOUS
<1>6. ExtractJSON(text, kind) =
        CASE first -> <<s, end>> [] Unmarshal(text, kind) -> <<1, n>> [] OTHER -> NoValue
  BY ONLY <1>1, <1>2, <1>4, <1>5, Zenon DEF ExtractJSON
\* The whole text is a value only if its first character is the first bracket.
<1>7. ASSUME Unmarshal(text, kind)
      PROVE  /\ 1 \in openers /\ Min(openers) = 1 /\ n >= 2 /\ text[1] = kind
             /\ SubSeq(text, 1, n) \in Values
  <2>1. text \in Values /\ text[1] = kind
    BY <1>7 DEF Unmarshal
  <2>2. n >= 2
    BY <1>1, <2>1, ValuesAreLong
  <2>3. 1 \in openers /\ \A y \in openers : y \in Nat /\ 1 <= y
    BY <1>c, <2>1, <2>2
  <2>4. openers \in SUBSET Nat
    BY <2>3
  <2>5. Min(openers) \in openers /\ Min(openers) <= 1
    BY <2>3, <2>4, LeastIs
  <2>6. Min(openers) = 1
    BY <2>3, <2>5
  <2>7. SubSeq(text, 1, n) = text
    BY <1>1
  <2>q. QED BY <2>1, <2>2, <2>3, <2>6, <2>7
<1>8. CASE openers = {}
  <2>1. s = 0 /\ end = 0 /\ ~ first
    <3>1. s = 0 /\ end = 0 /\ ~(0 > 0)
      BY <1>3, <1>4, <1>8
    <3>q. QED BY ONLY <1>5, <3>1, Zenon
  <2>2. ~Unmarshal(text, kind)
    BY <1>7, <1>8
  <2>3. ends = {}
    BY ONLY <1>8, <1>d, Zenon
  <2>q. QED BY ONLY <1>6, <2>1, <2>2, <2>3, Zenon
<1>9. CASE openers # {}
  <2>1. s = Min(openers) /\ s \in openers
    <3>1. openers \in SUBSET Nat
      BY <1>c
    <3>q. QED BY <1>3, <1>9, <3>1, LeastIs
  <2>2. s \in 1..n /\ text[s] \in Opener /\ s # 0
    BY <1>c, <2>1
  <2>3. end = jsonEnd(text, s)
    BY ONLY <1>4, <2>2, Zenon
  <2>4. ends = {e \in s..n : SubSeq(text, s, e) \in Values}
    BY ONLY <1>9, <1>d, <2>1, Zenon
  <2>5. ASSUME NEW e \in ends
        PROVE  e \in s..n /\ end = e /\ end > s /\ SubSeq(text, s, e) \in Values
               /\ SubSeq(text, s, e)[1] = text[s]
    <3>1. e \in s..n /\ SubSeq(text, s, e) \in Values
      BY ONLY <2>4, e \in ends, Zenon
    <3>2. PICK v \in Values : v = SubSeq(text, s, e)
      BY <3>1
    <3>3. Len(v) = e - s + 1 /\ \A i \in 1..(e - s + 1) : v[i] = text[s + i - 1]
      BY ONLY <1>1, <2>2, <3>1, <3>2, n \in Nat
    <3>4. v[1] = text[s]
      BY ONLY <2>2, <3>1, <3>3, n \in Nat
    <3>5. Occurs(v, text, s - 1, n)
      <4>1. (s - 1) + (e - s + 1) <= n /\ \A i \in 1..(e - s + 1) : (s - 1) + i = s + i - 1
        BY ONLY <2>2, <3>1, n \in Nat
      <4>q. QED BY ONLY <3>3, <4>1 DEF Occurs
    <3>6. Len(v) \in Nat /\ Len(v) >= 2 /\ jsonEnd(text, s) = s - 1 + Len(v)
      BY ONLY <1>1, <2>2, <3>4, <3>5, n \in Nat, v \in Values, EndIs
    <3>7. end = e /\ end > s
      BY ONLY <2>2, <2>3, <3>1, <3>3, <3>6, n \in Nat
    <3>q. QED BY <3>1, <3>2, <3>4, <3>7
  <2>6. CASE ends # {}
    <3>1. PICK e \in ends : TRUE
      BY <2>6
    <3>2. Min(ends) = e
      <4>1. ends \in SUBSET Nat
        BY <2>2, <2>5
      <4>2. Min(ends) \in ends
        BY <2>6, <4>1, LeastIs
      <4>q. QED BY ONLY <2>5, <4>2, e \in ends, Zenon
    <3>3. first <=> text[s] = kind
      BY ONLY <1>5, <2>5, e \in ends, Zenon DEF Unmarshal
    <3>4. CASE text[s] = kind
      <4>1. first /\ end = e
        BY ONLY <2>5, <3>3, <3>4, e \in ends, Zenon
      <4>2. Unmarshal(text, kind) => <<1, n>> = <<s, e>>
        <5>1. SUFFICES ASSUME Unmarshal(text, kind) PROVE 1 = s /\ n = e
          OBVIOUS
        <5>2. s = 1 /\ n \in s..n /\ SubSeq(text, s, n) \in Values
          BY <1>7, <2>1, <5>1
        <5>3. n \in ends
          BY ONLY <2>4, <5>2, Zenon
        <5>q. QED BY ONLY <2>5, <5>2, <5>3, e \in ends, Zenon
      <4>3. ExtractJSON(text, kind) = <<s, e>>
        BY <1>6, <4>1, <4>2
      <4>q. QED BY ONLY <2>1, <2>6, <3>2, <3>4, <4>3, Zenon
    <3>5. CASE text[s] # kind
      <4>1. ~Unmarshal(text, kind)
        BY <1>7, <2>1, <3>5
      <4>2. ~first
        BY ONLY <3>3, <3>5, Zenon
      <4>q. QED BY ONLY <1>6, <2>1, <3>5, <4>1, <4>2, Zenon
    <3>q. QED BY <3>4, <3>5
  <2>7. CASE ends = {}
    <3>1. ~first
      <4>1. SUFFICES ASSUME first PROVE FALSE
        OBVIOUS
      <4>2. end > s /\ SubSeq(text, s, end) \in Values
        BY ONLY <1>5, <4>1, Zenon DEF Unmarshal
      <4>3. end \in s..n
        <5>1. end = 0 \/ end \in s..n
          BY ONLY <1>1, <2>2, <2>3, n \in Nat, EndIsWithin
        <5>q. QED BY ONLY <2>2, <4>2, <5>1, n \in Nat
      <4>q. QED BY ONLY <2>4, <2>7, <4>2, <4>3, Zenon
    <3>2. ~Unmarshal(text, kind)
      <4>1. SUFFICES ASSUME Unmarshal(text, kind) PROVE FALSE
        OBVIOUS
      <4>2. s = 1 /\ n \in s..n /\ SubSeq(text, s, n) \in Values
        BY <1>7, <2>1, <4>1
      <4>q. QED BY ONLY <2>4, <2>7, <4>2, Zenon
    <3>q. QED BY ONLY <1>6, <2>7, <3>1, <3>2, Zenon
  <2>q. QED BY <2>6, <2>7
<1>q. QED BY <1>8, <1>9

\* The ends of a value, written out.
LEMMA EndsAre ==
  ASSUME NEW text, NEW a
  PROVE  EndsOf(text, a) = {e \in a .. Len(text) : SubSeq(text, a, e) \in Values}
BY DEF EndsOf

\* For completions of any length: what ExtractJSON decodes is, by JSON's
\* grammar, the first complete object or array, of the kind asked for, and it
\* decodes that one whenever no bracket comes before it.
THEOREM TheFirstValueIsDecoded == Spec => []DecodesTheFirstValue
<1>1. ASSUME IInv PROVE DecodesTheFirstValue
  <2>0. SUFFICES ASSUME fn = "ExtractJSON", out # Pending
                 PROVE  DecodesTheFirstValue
    BY DEF DecodesTheFirstValue, Has
  <2>1. in \in ExtractInputs
    BY <1>1, <2>0 DEF IInv, Domains
  <2>2. PICK n \in 0..MaxText : in.text \in [1..n -> Characters]
    BY <2>1 DEF ExtractInputs
  <2>3. PICK kind \in Opener : in.kind = kind
    BY <2>1 DEF ExtractInputs
  <2>4. PICK text \in [1..n -> Characters] : in.text = text
    BY <2>2
  <2>5. n \in Nat /\ Len(text) = n
    <3>1. n \in Nat
      BY ONLY n \in 0..MaxText, MaxTextAssumption
    <3>q. QED BY ONLY <3>1, text \in [1..n -> Characters]
  <2>6. out = ExtractJSON(text, kind)
    BY <1>1, <2>0, <2>3, <2>4 DEF IInv, Computed
  <2>7. out = IF ValueEnds(text, n) # {} /\ text[Min(Openers(text, n))] = kind
              THEN <<Min(Openers(text, n)), Min(ValueEnds(text, n))>> ELSE NoValue
    BY ONLY <2>5, <2>6, text \in [1..n -> Characters], kind \in Opener, ExtractIs
  <2>8. PICK t, openers, ends, a :
          /\ t = in.text /\ openers = Openers(t, Len(t)) /\ ends = ValueEnds(t, Len(t)) /\ a = Min(openers)
    OBVIOUS
  <2>9. Len(t) = n /\ n \in Nat
    BY ONLY <2>4, <2>5, <2>8, Zenon
  <2>10. out = IF ends # {} /\ t[a] = in.kind THEN <<a, Min(ends)>> ELSE NoValue
    BY ONLY <2>3, <2>4, <2>5, <2>7, <2>8, Zenon
  <2>11. openers = {i \in 1..Len(t) : t[i] \in Opener}
    BY ONLY <2>8, Zenon DEF Openers
  <2>12. ends = IF openers = {} THEN {} ELSE EndsOf(t, a)
    <3>1. ends = IF openers = {} THEN {} ELSE {e \in a .. Len(t) : SubSeq(t, a, e) \in Values}
      BY ONLY <2>8, Zenon DEF ValueEnds
    <3>q. QED BY ONLY <3>1, EndsAre, Zenon
  <2>13. PICK begins : begins = Begins(t)
    OBVIOUS
  <2>14. \A i : i \in begins <=> i \in openers /\ EndsOf(t, i) # {}
    BY ONLY <2>11, <2>13 DEF Begins
  <2>15. openers \in SUBSET Nat /\ begins \in SUBSET Nat
    BY ONLY <2>9, <2>11, <2>14
  <2>16. openers # {} => a \in openers /\ \A y \in openers : a <= y
    BY ONLY <2>8, <2>15, LeastIs
  <2>17. PICK first, b : first = FirstComplete(t) /\ b = Min(begins)
    OBVIOUS
  <2>18. first = IF begins = {} THEN NoValue ELSE <<b, Min(EndsOf(t, b))>>
    BY ONLY <2>13, <2>17 DEF FirstComplete
  <2>19. begins # {} => b \in begins /\ \A y \in begins : b <= y
    BY ONLY <2>15, <2>17, LeastIs
  \* A value that begins at the first bracket is the first one.
  <2>20. ASSUME ends # {} PROVE first = <<a, Min(ends)>>
    <3>1. openers # {} /\ ends = EndsOf(t, a)
      BY ONLY <2>12, <2>20, Zenon
    <3>2. a \in begins
      BY ONLY <2>14, <2>16, <2>20, <3>1, Zenon
    <3>3. b \in begins /\ b \in openers /\ b <= a /\ a <= b
      BY ONLY <2>14, <2>16, <2>19, <3>1, <3>2, Zenon
    <3>4. a = b
      BY ONLY <2>15, <3>2, <3>3
    <3>q. QED BY ONLY <2>18, <3>1, <3>2, <3>4, Zenon
  <2>21. ASSUME out # NoValue PROVE out = first /\ t[first[1]] = in.kind
    <3>1. ends # {} /\ t[a] = in.kind /\ out = <<a, Min(ends)>>
      BY ONLY <2>10, <2>21, Zenon
    <3>2. PICK e : e = Min(ends)
      OBVIOUS
    <3>3. <<a, e>>[1] = a
      OBVIOUS
    <3>q. QED BY ONLY <2>20, <3>1, <3>2, <3>3, Zenon
  <2>22. ASSUME first # NoValue, \A i \in 1 .. first[1] - 1 : t[i] \notin Opener, t[first[1]] = in.kind
         PROVE  out = first
    <3>1. begins # {} /\ first = <<b, Min(EndsOf(t, b))>>
      BY ONLY <2>18, <2>22, Zenon
    <3>2. PICK e : e = Min(EndsOf(t, b))
      OBVIOUS
    <3>3. <<b, e>>[1] = b
      OBVIOUS
    <3>4. first[1] = b
      BY ONLY <3>1, <3>2, <3>3, Zenon
    <3>5. b \in openers /\ EndsOf(t, b) # {} /\ openers # {}
      BY ONLY <2>14, <2>19, <3>1, Zenon
    <3>6. a \in openers /\ a <= b /\ a \in 1..Len(t) /\ t[a] \in Opener /\ b \in 1..Len(t)
      BY ONLY <2>11, <2>16, <3>5, Zenon
    <3>7. a \notin 1 .. b - 1
      BY ONLY <2>22, <3>4, <3>6, Zenon
    <3>8. a = b
      BY ONLY <2>9, <3>6, <3>7
    <3>9. ends # {} /\ t[a] = in.kind
      BY ONLY <2>12, <2>22, <3>4, <3>5, <3>8, Zenon
    <3>q. QED BY ONLY <2>10, <2>20, <3>9, Zenon
  <2>q. QED BY ONLY <2>8, <2>17, <2>21, <2>22, Zenon DEF DecodesTheFirstValue
<1>q. QED BY <1>1, Invariance, PTL

-----------------------------------------------------------------------------
\* The smaller of two numbers.
LEMMA SmallerIs ==
  ASSUME NEW a \in Int, NEW b \in Int
  PROVE  Min({a, b}) = IF a <= b THEN a ELSE b
<1>1. PICK m \in {a, b} : m = (IF a <= b THEN a ELSE b) /\ \A y \in {a, b} : m <= y
  OBVIOUS
<1>2. ASSUME NEW x \in {a, b}, \A y \in {a, b} : x <= y PROVE x = m
  BY <1>1, <1>2
<1>q. QED BY <1>1, <1>2 DEF Min

\* Page by page, the files are read from the first to the last that the
\* client is willing to read.
LEMMA FilesAreRead ==
  ASSUME NEW S, NEW files \in Seq(S), NEW perPage \in Nat, perPage > 0,
         NEW maxPages \in Nat, maxPages > 0
  PROVE  GetPRFiles(files, perPage, maxPages) = SubSeq(files, 1, Min({Len(files), perPage * maxPages}))
<1>0. DEFINE n == Len(files)
             all == IF n <= perPage * maxPages THEN n ELSE perPage * maxPages
             Is(f) == f = [page \in 1..maxPages |->
               Page(files, perPage, page).batch
               \o (IF Page(files, perPage, page).next /\ page < maxPages THEN f[page + 1] ELSE <<>>)]
<1>1. n \in Nat /\ all \in Nat /\ all <= n /\ Min({Len(files), perPage * maxPages}) = all
  <2>1. n \in Nat /\ perPage * maxPages \in Nat
    OBVIOUS
  <2>q. QED BY <2>1, SmallerIs
<1>2. PICK A : A = [x \in 1..maxPages |-> Page(files, perPage, x).batch]
  OBVIOUS
<1>3. PICK L : L = [x \in 1..maxPages |-> ~(Page(files, perPage, x).next /\ x < maxPages)]
  OBVIOUS
<1>4. ASSUME NEW x \in 1..maxPages
      PROVE  /\ A[x] = Page(files, perPage, x).batch
             /\ L[x] <=> ~(Page(files, perPage, x).next /\ x < maxPages)
  BY <1>2, <1>3, Zenon
<1>5. PICK g : Loops(g, 1, maxPages, 1, A, L)
  <2>1. \A x \in 1..maxPages : x < maxPages => x + 1 <= maxPages
    OBVIOUS
  <2>2. Ends(L, 1, maxPages, 1)
    BY <1>4, <2>1, Zenon DEF Ends
  <2>3. 1 \in Int /\ maxPages \in Int /\ 1 <= maxPages /\ 1 \in Nat /\ 1 > 0
    OBVIOUS
  <2>q. QED BY ONLY <2>2, <2>3, LoopExists
<1>6. Is(g)
  <2>1. ASSUME NEW x \in 1..maxPages
        PROVE  A[x] \o (IF L[x] THEN <<>> ELSE g[x + 1]) =
                 Page(files, perPage, x).batch
                 \o (IF Page(files, perPage, x).next /\ x < maxPages THEN g[x + 1] ELSE <<>>)
    BY ONLY <1>4, <2>1, Zenon
  <2>q. QED BY ONLY <1>5, <2>1, Zenon DEF Loops
<1>7. PICK f : f = CHOOSE h : Is(h)
  OBVIOUS
<1>8. Is(f)
  BY <1>6, <1>7, Zenon
<1>9. GetPRFiles(files, perPage, maxPages) = f[1]
  BY ONLY <1>7, Zenon DEF GetPRFiles
<1>10. PICK G : G = {x \in 1..maxPages : f[x] = SubSeq(files, perPage * (x - 1) + 1, all)}
  OBVIOUS
<1>11. ASSUME NEW x \in 1..maxPages, \A y \in 1..maxPages : x < y => y \in G
       PROVE  x \in G
  <2>1. PICK a \in Nat : a = perPage * (x - 1) /\ a + perPage = perPage * x
    <3>1. x - 1 \in Nat /\ perPage * (x - 1) + perPage = perPage * x
      OBVIOUS
    <3>2. perPage * (x - 1) \in Nat
      BY <3>1
    <3>q. QED BY <3>1, <3>2
  <2>2. a + perPage <= perPage * maxPages
    <3>1. maxPages - x \in Nat /\ perPage * (maxPages - x) = perPage * maxPages - perPage * x
      OBVIOUS
    <3>2. perPage * (maxPages - x) \in Nat
      BY <3>1
    <3>q. QED BY <2>1, <3>1, <3>2
  <2>3. PICK to : to = IF a + perPage <= n THEN a + perPage ELSE n
    OBVIOUS
  <2>4. /\ Page(files, perPage, x).batch = SubSeq(files, a + 1, to)
        /\ Page(files, perPage, x).next <=> a + perPage < n
    <3>1. Min({a + perPage, n}) = to
      BY <1>1, <2>1, <2>3, SmallerIs
    <3>q. QED BY <2>1, <3>1 DEF Page, Slice
  <2>5. f[x] = SubSeq(files, a + 1, to)
               \o (IF a + perPage < n /\ x < maxPages THEN f[x + 1] ELSE <<>>)
    BY ONLY <1>8, <2>4, x \in 1..maxPages, Zenon
  <2>6. SubSeq(files, a + 1, to) \o <<>> = SubSeq(files, a + 1, to)
    <3>1. \A i \in (a + 1)..to : files[i] \in S
      BY <1>1, <2>1, <2>3
    <3>2. to \in Int /\ a + 1 \in Int
      BY <1>1, <2>1, <2>3
    <3>3. SubSeq(files, a + 1, to) \in Seq(S)
      BY <3>1, <3>2, SubSeqProperties
    <3>q. QED BY <3>3, ConcatEmptySeq
  <2>7. CASE ~(a + perPage < n /\ x < maxPages)
    <3>1. to = all \/ (a >= n /\ to < a + 1 /\ all < a + 1)
      <4>1. x < maxPages \/ x = maxPages
        OBVIOUS
      <4>2. x = maxPages => a + perPage = perPage * maxPages
        BY <2>1
      <4>q. QED BY <1>1, <2>1, <2>2, <2>3, <2>7, <4>1, <4>2
    <3>2. SubSeq(files, a + 1, to) = SubSeq(files, a + 1, all)
      <4>1. a + 1 \in Int /\ to \in Int /\ all \in Int
        BY <1>1, <2>1, <2>3
      <4>2. to < a + 1 /\ all < a + 1 =>
              SubSeq(files, a + 1, to) = <<>> /\ SubSeq(files, a + 1, all) = <<>>
        BY ONLY <4>1, SubSeqEmpty
      <4>q. QED BY ONLY <3>1, <4>2, Zenon
    <3>3. f[x] = SubSeq(files, perPage * (x - 1) + 1, all)
      BY ONLY <2>1, <2>5, <2>6, <2>7, <3>2, Zenon
    <3>q. QED BY ONLY <1>10, <3>3, x \in 1..maxPages, Zenon
  <2>8. CASE a + perPage < n /\ x < maxPages
    <3>1. to = a + perPage /\ x + 1 \in 1..maxPages /\ x < x + 1 /\ (x + 1) - 1 = x
      BY <2>3, <2>8
    <3>2. f[x + 1] = SubSeq(files, perPage * ((x + 1) - 1) + 1, all)
      BY ONLY <1>10, <1>11, <3>1, Zenon
    <3>3. f[x + 1] = SubSeq(files, to + 1, all)
      BY ONLY <2>1, <3>1, <3>2, Zenon
    <3>4. a + 1 \in 1..(Len(files) + 1) /\ to \in ((a + 1) - 1)..Len(files) /\ all \in to..Len(files)
      BY <1>1, <2>1, <2>2, <2>8, <3>1
    <3>5. SubSeq(files, a + 1, to) \o SubSeq(files, to + 1, all) = SubSeq(files, a + 1, all)
      BY ONLY <3>4, files \in Seq(S), ConcatAdjacentSubSeq
    <3>6. f[x] = SubSeq(files, perPage * (x - 1) + 1, all)
      BY ONLY <2>1, <2>5, <2>8, <3>3, <3>5, Zenon
    <3>q. QED BY ONLY <1>10, <3>6, x \in 1..maxPages, Zenon
  <2>q. QED BY <2>7, <2>8
<1>12. G = 1..maxPages
  <2>1. 1 \in Int /\ maxPages \in Int
    OBVIOUS
  <2>2. G \in SUBSET (1..maxPages)
    BY <1>10
  <2>q. QED BY ONLY <1>11, <2>1, <2>2, DownwardInduction
<1>13. 1 \in G /\ perPage * (1 - 1) + 1 = 1
  BY <1>12
<1>14. f[1] = SubSeq(files, 1, all)
  BY ONLY <1>10, <1>13, Zenon
<1>q. QED BY ONLY <1>1, <1>9, <1>14, Zenon

-----------------------------------------------------------------------------
\* f[k] is the first k of some sequences, one after another.
Joins(f, k, ss, E) ==
  f \in [0..k -> Seq(E)] /\ f[0] = <<>> /\ \A i \in 1..k : f[i] = f[i - 1] \o ss[i]
\* FlattenSeq goes through such an f.
LEMMA FlattenIs ==
  ASSUME NEW E, NEW n \in Nat, NEW ss \in [1..n -> Seq(E)]
  PROVE  \E f : Joins(f, n, ss, E) /\ FlattenSeq(ss) = f[n]
<1>1. PICK G : G = {k \in 0..n : \E f : Joins(f, k, ss, E)}
  OBVIOUS
<1>2. ASSUME NEW k \in 0..n, \A y \in 0..n : y < k => y \in G
      PROVE  k \in G
  <2>0. k \in Nat
    BY <1>2
  <2>1. CASE k = 0
    <3>1. PICK f : f = [i \in 0..0 |-> <<>>]
      OBVIOUS
    <3>2. Joins(f, 0, ss, E)
      BY <3>1, EmptySeq DEF Joins
    <3>q. QED BY ONLY <1>1, <2>1, <3>2, k \in 0..n, Zenon
  <2>2. CASE k > 0
    <3>1. k - 1 \in 0..n /\ k - 1 < k
      BY <2>0, <2>2
    <3>2. PICK h : Joins(h, k - 1, ss, E)
      BY ONLY <1>1, <1>2, <3>1, Zenon
    <3>3. h \in [0..(k - 1) -> Seq(E)] /\ h[0] = <<>> /\ \A i \in 1..(k - 1) : h[i] = h[i - 1] \o ss[i]
      BY <3>2 DEF Joins
    <3>4. PICK a : a = h[k - 1] \o ss[k]
      OBVIOUS
    <3>5. a \in Seq(E)
      <4>1. h[k - 1] \in Seq(E) /\ ss[k] \in Seq(E)
        BY <2>0, <2>2, <3>3
      <4>q. QED BY <3>4, <4>1, ConcatProperties
    <3>6. PICK f : f = [i \in 0..k |-> IF i = k THEN a ELSE h[i]]
      OBVIOUS
    <3>7. f \in [0..k -> Seq(E)] /\ f[0] = <<>>
      <4>1. \A i \in 0..k : i # k => i \in 0..(k - 1)
        BY ONLY <2>0
      <4>2. 0 \in 0..k /\ 0 # k
        BY ONLY <2>0, <2>2
      <4>3. \A i \in 0..k : (IF i = k THEN a ELSE h[i]) \in Seq(E)
        BY ONLY <3>3, <3>5, <4>1, Zenon
      <4>4. f \in [0..k -> Seq(E)]
        BY ONLY <3>6, <4>3, Zenon
      <4>5. f[0] = h[0]
        BY ONLY <3>6, <4>2, Zenon
      <4>q. QED BY ONLY <3>3, <4>4, <4>5, Zenon
    <3>8. ASSUME NEW i \in 1..k PROVE f[i] = f[i - 1] \o ss[i]
      <4>1. i \in 0..k /\ i - 1 \in 0..k /\ i - 1 # k /\ (i # k => i \in 1..(k - 1))
        BY <2>0
      <4>2. f[i - 1] = h[i - 1] /\ f[i] = IF i = k THEN a ELSE h[i]
        BY ONLY <3>6, <4>1, Zenon
      <4>q. QED BY ONLY <3>3, <3>4, <4>1, <4>2, Zenon
    <3>9. Joins(f, k, ss, E)
      BY ONLY <3>7, <3>8, Zenon DEF Joins
    <3>q. QED BY ONLY <1>1, <3>9, k \in 0..n, Zenon
  <2>q. QED BY <2>0, <2>1, <2>2
<1>3. G = 0..n
  <2>1. 0 \in Int /\ n \in Int /\ G \in SUBSET (0..n)
    BY <1>1
  <2>q. QED BY ONLY <1>2, <2>1, UpwardInduction
<1>4. n \in G
  BY <1>3
<1>5. PICK f : Joins(f, n, ss, E)
  BY ONLY <1>1, <1>4, Zenon
<1>6. f \in [0..n -> Seq(E)] /\ f[0] = <<>> /\ \A i \in 1..n : f[i] = f[i - 1] \o ss[i]
  BY <1>5 DEF Joins
<1>7. Len(ss) = n
  OBVIOUS
<1>8. CASE n = 0
  <2>1. ss = <<>>
    BY <1>8
  <2>2. FlattenSeq(ss) = ss
    BY ONLY <1>7, <1>8, Zenon DEF FlattenSeq
  <2>3. FlattenSeq(ss) = f[n]
    BY ONLY <1>6, <1>8, <2>1, <2>2, Zenon
  <2>q. QED BY ONLY <1>5, <2>3, Zenon
<1>9. CASE n > 0
  <2>0. DEFINE Is(h) == h = [i \in 1..Len(ss) |-> IF i = 1 THEN ss[i] ELSE h[i - 1] \o ss[i]]
  <2>1. PICK g : g = [i \in 1..n |-> f[i]]
    OBVIOUS
  <2>2. Is(g)
    <3>1. ASSUME NEW i \in 1..n PROVE g[i] = IF i = 1 THEN ss[i] ELSE g[i - 1] \o ss[i]
      <4>1. i # 1 => i - 1 \in 1..n /\ g[i - 1] = f[i - 1]
        BY <2>1
      <4>2. i = 1 => f[i - 1] \o ss[i] = ss[i]
        <5>1. i = 1 => f[i - 1] = <<>>
          BY <1>6
        <5>2. ss[i] \in Seq(E)
          OBVIOUS
        <5>3. <<>> \o ss[i] = ss[i]
          BY <5>2, ConcatEmptySeq
        <5>q. QED BY ONLY <5>1, <5>3, Zenon
      <4>3. g[i] = f[i - 1] \o ss[i]
        BY ONLY <1>6, <2>1, <3>1, Zenon
      <4>q. QED BY ONLY <4>1, <4>2, <4>3, Zenon
    <3>2. g = [i \in 1..n |-> g[i]]
      BY <2>1
    <3>q. QED BY ONLY <1>7, <3>1, <3>2, Zenon
  <2>3. PICK h : h = CHOOSE x : Is(x)
    OBVIOUS
  <2>4. Is(h)
    BY ONLY <2>2, <2>3, Zenon
  <2>5. FlattenSeq(ss) = h[n]
    <3>1. n # 0
      BY <1>9
    <3>q. QED BY ONLY <1>7, <2>3, <3>1, Zenon DEF FlattenSeq
  <2>6. PICK H : H = {k \in 1..n : h[k] = f[k]}
    OBVIOUS
  <2>7. ASSUME NEW k \in 1..n, \A y \in 1..n : y < k => y \in H
        PROVE  k \in H
    <3>1. h[k] = IF k = 1 THEN ss[k] ELSE h[k - 1] \o ss[k]
      BY ONLY <1>7, <2>4, k \in 1..n, Zenon
    <3>2. g[k] = IF k = 1 THEN ss[k] ELSE g[k - 1] \o ss[k]
      BY ONLY <1>7, <2>2, k \in 1..n, Zenon
    <3>3. k # 1 => k - 1 \in 1..n /\ k - 1 < k
      OBVIOUS
    <3>4. k # 1 => h[k - 1] = f[k - 1] /\ g[k - 1] = f[k - 1]
      BY ONLY <2>1, <2>6, <2>7, <3>3, Zenon
    <3>5. g[k] = f[k]
      BY <2>1
    <3>6. h[k] = f[k]
      BY ONLY <3>1, <3>2, <3>4, <3>5, Zenon
    <3>q. QED BY ONLY <2>6, <3>6, k \in 1..n, Zenon
  <2>8. H = 1..n
    <3>1. 1 \in Int /\ n \in Int /\ H \in SUBSET (1..n)
      BY <2>6
    <3>q. QED BY ONLY <2>7, <3>1, UpwardInduction
  <2>9. n \in H
    BY <1>9, <2>8
  <2>10. FlattenSeq(ss) = f[n]
    BY ONLY <2>5, <2>6, <2>9, Zenon
  <2>q. QED BY ONLY <1>5, <2>10, Zenon
<1>q. QED BY <1>8, <1>9

\* What is in the first k of some sequences.
Within(t, ss, k) == \A e : e \in ToSet(t) <=> \E i \in 1..k : e \in ToSet(ss[i])
\* A flattened sequence has the elements of its parts.
LEMMA FlattenHas ==
  ASSUME NEW E, NEW n \in Nat, NEW ss \in [1..n -> Seq(E)]
  PROVE  FlattenSeq(ss) \in Seq(E) /\ Within(FlattenSeq(ss), ss, n)
<1>1. PICK f : Joins(f, n, ss, E) /\ FlattenSeq(ss) = f[n]
  BY FlattenIs
<1>2. f \in [0..n -> Seq(E)] /\ f[0] = <<>> /\ \A i \in 1..n : f[i] = f[i - 1] \o ss[i]
  BY <1>1 DEF Joins
<1>3. PICK G : G = {k \in 0..n : Within(f[k], ss, k)}
  OBVIOUS
<1>4. ASSUME NEW k \in 0..n, \A y \in 0..n : y < k => y \in G
      PROVE  k \in G
  <2>1. CASE k = 0
    <3>1. ToSet(<<>>) = {} /\ 1..0 = {}
      BY DEF ToSet
    <3>2. Within(f[k], ss, k)
      BY ONLY <1>2, <2>1, <3>1, Zenon DEF Within
    <3>q. QED BY ONLY <1>3, <3>2, k \in 0..n, Zenon
  <2>2. CASE k # 0
    <3>1. k \in Nat /\ k \in 1..n /\ k - 1 \in 0..n /\ k - 1 < k
      BY <2>2
    <3>2. Within(f[k - 1], ss, k - 1)
      BY ONLY <1>3, <1>4, <3>1, Zenon
    <3>3. f[k - 1] \in Seq(E) /\ ss[k] \in Seq(E) /\ f[k] = f[k - 1] \o ss[k]
      BY <1>2, <3>1
    <3>4. ToSet(f[k]) = ToSet(f[k - 1]) \cup ToSet(ss[k])
      <4>1. Range(f[k]) = Range(f[k - 1]) \cup Range(ss[k])
        BY ONLY <3>3, RangeConcatenation
      <4>q. QED BY ONLY <4>1, Zenon DEF ToSet, Range
    <3>5. \A i : i \in 1..k <=> i \in 1..(k - 1) \/ i = k
      BY <3>1
    <3>6. Within(f[k], ss, k)
      BY ONLY <3>2, <3>4, <3>5, Zenon DEF Within
    <3>q. QED BY ONLY <1>3, <3>6, k \in 0..n, Zenon
  <2>q. QED BY <2>1, <2>2
<1>5. G = 0..n
  <2>1. 0 \in Int /\ n \in Int /\ G \in SUBSET (0..n)
    BY <1>3
  <2>q. QED BY ONLY <1>4, <2>1, UpwardInduction
<1>6. n \in G /\ n \in 0..n
  BY <1>5
<1>q. QED BY ONLY <1>1, <1>2, <1>3, <1>6, Zenon

\* A sequence, taken apart and put together.
LEMMA FlattenSingletons ==
  ASSUME NEW E, NEW s \in Seq(E)
  PROVE  FlattenSeq([i \in 1..Len(s) |-> <<s[i]>>]) = s
<1>1. PICK n \in Nat : n = Len(s)
  OBVIOUS
<1>2. PICK ss : ss = [i \in 1..n |-> <<s[i]>>]
  OBVIOUS
<1>3. ss \in [1..n -> Seq(E)]
  <2>1. \A i \in 1..n : s[i] \in E
    BY <1>1
  <2>q. QED BY <1>2, <2>1
<1>4. PICK f : Joins(f, n, ss, E) /\ FlattenSeq(ss) = f[n]
  BY <1>3, FlattenIs
<1>5. f \in [0..n -> Seq(E)] /\ f[0] = <<>> /\ \A i \in 1..n : f[i] = f[i - 1] \o ss[i]
  BY <1>4 DEF Joins
<1>6. PICK G : G = {k \in 0..n : f[k] = SubSeq(s, 1, k)}
  OBVIOUS
<1>7. ASSUME NEW k \in 0..n, \A y \in 0..n : y < k => y \in G
      PROVE  k \in G
  <2>1. CASE k = 0
    <3>1. SubSeq(s, 1, 0) = <<>>
      BY SubSeqEmpty
    <3>2. f[k] = SubSeq(s, 1, k)
      BY ONLY <1>5, <2>1, <3>1, Zenon
    <3>q. QED BY ONLY <1>6, <3>2, k \in 0..n, Zenon
  <2>2. CASE k # 0
    <3>1. k \in Nat /\ k \in 1..n /\ k - 1 \in 0..n /\ k - 1 < k
      BY <2>2
    <3>2. f[k - 1] = SubSeq(s, 1, k - 1)
      BY ONLY <1>6, <1>7, <3>1, Zenon
    <3>3. f[k] = f[k - 1] \o <<s[k]>>
      BY ONLY <1>2, <1>5, <3>1, Zenon
    <3>4. 1 \in 1..Len(s) /\ k \in 1..Len(s)
      BY <1>1, <3>1
    <3>5. SubSeq(s, 1, k) = SubSeq(s, 1, k - 1) \o <<s[k]>>
      BY ONLY <3>4, s \in Seq(E), SubSeqRecursiveSecond
    <3>6. f[k] = SubSeq(s, 1, k)
      BY ONLY <3>2, <3>3, <3>5, Zenon
    <3>q. QED BY ONLY <1>6, <3>6, k \in 0..n, Zenon
  <2>q. QED BY <2>1, <2>2
<1>8. G = 0..n
  <2>1. 0 \in Int /\ n \in Int /\ G \in SUBSET (0..n)
    BY <1>6
  <2>q. QED BY ONLY <1>7, <2>1, UpwardInduction
<1>9. n \in G
  BY <1>8
<1>10. SubSeq(s, 1, Len(s)) = s
  BY SubSeqFull
<1>q. QED BY ONLY <1>1, <1>2, <1>4, <1>6, <1>9, <1>10, Zenon

-----------------------------------------------------------------------------
\* g puts the members of S in an order.
Orders(g, n, S) ==
  /\ g \in [1..n -> S] /\ \A i, j \in 1..n : g[i] = g[j] => i = j
  /\ \A x \in S : \E i \in 1..n : g[i] = x
\* The paths in a directory.
Children(tree, d) == {Append(d, x) : x \in Names} \cap tree

\* A directory is listed in an order.
LEMMA ChildIs ==
  ASSUME NEW tree, NEW d
  PROVE  \E n \in Nat : Orders(Child(tree, d), n, Children(tree, d)) /\ Len(Child(tree, d)) = n
<1>1. PICK S : S = Children(tree, d)
  OBVIOUS
<1>2. IsFiniteSet(S)
  <2>1. PICK T : T = {Append(d, x) : x \in Names}
    OBVIOUS
  <2>2. PICK f : f = [x \in Names |-> Append(d, x)]
    OBVIOUS
  <2>3. f \in Surjection(Names, T)
    <3>1. f \in [Names -> T] /\ \A y \in T : \E x \in Names : f[x] = y
      BY ONLY <2>1, <2>2, Zenon
    <3>q. QED BY <3>1 DEF Surjection
  <2>4. IsFiniteSet(T)
    BY ONLY <2>3, NamesAssumption, FS_Surjection
  <2>5. S \subseteq T
    BY <1>1, <2>1 DEF Children
  <2>q. QED BY ONLY <2>4, <2>5, FS_Subset
<1>3. PICK n \in Nat : n = Cardinality(S) /\ ExistsBijection(1..n, S)
  BY <1>2, FS_CardinalityType
<1>4. PICK h \in [1..n -> S] : IsInjective(h)
  BY <1>3 DEF ExistsBijection, Bijection, Injection, IsInjective
<1>5. PICK g : g = CHOOSE f \in [1..n -> S] : IsInjective(f)
  OBVIOUS
<1>6. g \in [1..n -> S] /\ IsInjective(g)
  BY ONLY <1>4, <1>5, Zenon
<1>7. g = Child(tree, d)
  BY ONLY <1>1, <1>3, <1>5, Zenon DEF Child, SetToSeq, Children
<1>8. g \in Injection(1..n, S)
  BY <1>6 DEF Injection
<1>9. Cardinality(1..n) = n
  <2>1. Cardinality(1..n) = IF 1 > n THEN 0 ELSE n - 1 + 1
    BY FS_Interval
  <2>q. QED BY <2>1
<1>10. g \in Surjection(1..n, S)
  BY ONLY <1>2, <1>3, <1>8, <1>9, FS_Injection
<1>11. \A x \in S : \E i \in 1..n : g[i] = x
  BY <1>10 DEF Surjection
<1>12. \A i, j \in 1..n : g[i] = g[j] => i = j
  BY <1>6 DEF IsInjective
<1>13. Orders(g, n, S)
  BY ONLY <1>6, <1>11, <1>12, Zenon DEF Orders
<1>14. Len(g) = n
  BY <1>6
<1>q. QED BY ONLY <1>1, <1>3, <1>7, <1>13, <1>14, Zenon

\* Paths are sequences of names, and with a path the tree has what leads to it.
LEMMA PathsAre ==
  ASSUME NEW tree \in Repositories, NEW p \in tree
  PROVE  /\ p \in Seq(Names) /\ Len(p) \in 1..MaxDepth
         /\ \A m \in 1..Len(p) : SubSeq(p, 1, m) \in tree
<1>1. p \in Locations /\ \A q \in tree : q \in Locations /\ (Len(q) > 1 => Front(q) \in tree)
  BY DEF Repositories
<1>2. ASSUME NEW q \in Locations PROVE q \in Seq(Names) /\ Len(q) \in 1..MaxDepth
  <2>1. PICK n \in 1..MaxDepth : q \in [1..n -> Names]
    BY DEF Locations
  <2>2. n \in Nat
    BY NumbersAssumption
  <2>q. QED BY <2>1, <2>2
<1>3. PICK n \in Nat : n = Len(p) /\ 1 <= n
  BY <1>1, <1>2
<1>4. PICK G : G = {m \in 1..n : SubSeq(p, 1, m) \in tree}
  OBVIOUS
<1>5. ASSUME NEW m \in 1..n, \A y \in 1..n : m < y => y \in G
      PROVE  m \in G
  <2>0. p \in Seq(Names)
    BY <1>1, <1>2
  <2>1. CASE m = n
    <3>1. SubSeq(p, 1, Len(p)) = p
      BY <2>0, SubSeqFull
    <3>q. QED BY ONLY <1>3, <1>4, <2>1, <3>1, p \in tree, m \in 1..n, Zenon
  <2>2. CASE m # n
    <3>1. m + 1 \in 1..n /\ m < m + 1
      BY <2>2
    <3>2. SubSeq(p, 1, m + 1) \in tree
      BY ONLY <1>4, <1>5, <3>1, Zenon
    <3>3. PICK q : q = SubSeq(p, 1, m + 1)
      OBVIOUS
    <3>4. q \in Seq(Names) /\ Len(q) = m + 1
      BY <1>3, <2>0, <3>1, <3>3
    <3>5. Front(q) \in tree
      <4>1. Len(q) > 1
        BY <3>4
      <4>q. QED BY ONLY <1>1, <3>2, <3>3, <4>1, Zenon
    <3>6. Front(q) = SubSeq(q, 1, m)
      BY <3>4 DEF Front
    <3>7. SubSeq(q, 1, m) = SubSeq(p, 1, m)
      <4>1. 1 \in 1..Len(p) /\ m + 1 \in 1..Len(p) /\ 1 \in 1..((m + 1) - 1 + 1) /\ m \in 1..((m + 1) - 1 + 1)
        BY <1>3, <3>1
      <4>2. SubSeq(SubSeq(p, 1, m + 1), 1, m) = SubSeq(p, 1 + 1 - 1, 1 + m - 1)
        BY ONLY <2>0, <4>1, SubSeqOfSubSeq
      <4>3. 1 + 1 - 1 = 1 /\ 1 + m - 1 = m
        OBVIOUS
      <4>q. QED BY ONLY <3>3, <4>2, <4>3, Zenon
    <3>8. SubSeq(p, 1, m) \in tree
      BY ONLY <3>5, <3>6, <3>7, Zenon
    <3>q. QED BY ONLY <1>4, <3>8, m \in 1..n, Zenon
  <2>q. QED BY <2>1, <2>2
<1>6. G = 1..n
  <2>1. 1 \in Int /\ n \in Int /\ G \in SUBSET (1..n)
    BY <1>4
  <2>q. QED BY ONLY <1>5, <2>1, DownwardInduction
<1>7. \A m \in 1..Len(p) : SubSeq(p, 1, m) \in tree
  BY ONLY <1>3, <1>4, <1>6, Zenon
<1>q. QED BY <1>1, <1>2, <1>7

\* No path is longer than the tree is deep.
LEMMA DepthIs ==
  ASSUME NEW tree \in Repositories
  PROVE  Depth(tree) \in Nat /\ \A p \in tree : Len(p) <= Depth(tree)
<1>1. PICK S : S = {0} \cup {Len(p) : p \in tree}
  OBVIOUS
<1>2. 0 \in S /\ S \subseteq 0..MaxDepth /\ MaxDepth \in Nat
  <2>1. \A p \in tree : Len(p) \in 1..MaxDepth
    BY PathsAre
  <2>q. QED BY <1>1, <2>1, NumbersAssumption
<1>3. PICK T : T = {m \in 0..MaxDepth : \A x \in S : x <= m}
  OBVIOUS
<1>4. T \in SUBSET Nat /\ MaxDepth \in T
  BY <1>2, <1>3
<1>5. PICK m \in T : \A y \in T : m <= y
  BY <1>4, LeastIs
<1>6. m \in 0..MaxDepth /\ \A x \in S : x <= m
  BY <1>3, <1>5
<1>7. m \in S
  <2>1. SUFFICES ASSUME m \notin S PROVE FALSE
    OBVIOUS
  <2>2. m - 1 \in 0..MaxDepth /\ \A x \in S : x <= m - 1
    BY <1>2, <1>6, <2>1
  <2>3. m - 1 \in T
    BY <1>3, <2>2
  <2>q. QED BY <1>5, <1>6, <2>3
<1>8. \A x \in S : (\A y \in S : x >= y) => x = m
  BY <1>2, <1>6, <1>7
<1>9. \A y \in S : m >= y
  BY <1>2, <1>6
<1>10. Max(S) = m
  BY ONLY <1>7, <1>8, <1>9, Zenon DEF Max
<1>11. Depth(tree) = m
  BY ONLY <1>1, <1>10, Zenon DEF Depth
<1>12. \A p \in tree : Len(p) \in S
  BY <1>1
<1>q. QED BY <1>2, <1>6, <1>11, <1>12

\* The paths of at most k more names than the directory they are below.
Under(tree, d, k) ==
  {p \in tree : Len(d) < Len(p) /\ Len(p) <= Len(d) + k /\ \A i \in 1..Len(d) : p[i] = d[i]}
\* A path of a directory, with what is below it.
Branch(tree, c, k) == {c} \cup Under(tree, c, k - 1)

\* Those below a directory are those of its paths ...
LEMMA UnderSplits ==
  ASSUME NEW tree \in Repositories, NEW d \in Seq(Names), NEW k \in Nat, k > 0
  PROVE  \A p : p \in Under(tree, d, k) <=> \E c \in Children(tree, d) : p \in Branch(tree, c, k)
<1>0. PICK n \in Nat : n = Len(d)
  OBVIOUS
<1>1. ASSUME NEW c \in Children(tree, d)
      PROVE  c \in tree /\ c \in Seq(Names) /\ Len(c) = n + 1 /\ \A i \in 1..n : c[i] = d[i]
  <2>1. PICK x \in Names : c = Append(d, x)
    BY DEF Children
  <2>2. c \in tree
    BY DEF Children
  <2>q. QED BY <1>0, <2>1, <2>2, AppendProperties
<1>2. ASSUME NEW p, NEW c \in Children(tree, d), p \in Branch(tree, c, k)
      PROVE  p \in Under(tree, d, k)
  <2>1. CASE p = c
    BY <1>0, <1>1, <2>1 DEF Under
  <2>2. CASE p # c
    <3>1. p \in tree /\ Len(c) < Len(p) /\ Len(p) <= Len(c) + (k - 1) /\ \A i \in 1..Len(c) : p[i] = c[i]
      BY <1>2, <2>2 DEF Branch, Under
    <3>2. Len(p) \in Nat
      BY <3>1, PathsAre
    <3>3. \A i \in 1..n : i \in 1..(n + 1)
      OBVIOUS
    <3>4. \A i \in 1..n : p[i] = d[i]
      BY <1>1, <3>1, <3>3
    <3>q. QED BY <1>0, <1>1, <3>1, <3>2, <3>4 DEF Under
  <2>q. QED BY <2>1, <2>2
<1>3. ASSUME NEW p \in Under(tree, d, k)
      PROVE  \E c \in Children(tree, d) : p \in Branch(tree, c, k)
  <2>1. p \in tree /\ n < Len(p) /\ Len(p) <= n + k /\ \A i \in 1..n : p[i] = d[i]
    BY <1>0 DEF Under
  <2>2. p \in Seq(Names) /\ \A m \in 1..Len(p) : SubSeq(p, 1, m) \in tree
    BY <2>1, PathsAre
  <2>3. PICK c : c = SubSeq(p, 1, n + 1)
    OBVIOUS
  <2>4. c \in Seq(Names) /\ Len(c) = n + 1 /\ \A i \in 1..(n + 1) : c[i] = p[i]
    BY <2>1, <2>2, <2>3
  <2>5. n + 1 \in 1..Len(p) /\ p[n + 1] \in Names
    BY <2>1, <2>2
  <2>6. c \in tree
    BY <2>2, <2>3, <2>5
  <2>7. c = Append(d, p[n + 1])
    <3>1. PICK e : e = Append(d, p[n + 1])
      OBVIOUS
    <3>2. e \in Seq(Names) /\ Len(e) = n + 1 /\ (\A i \in 1..n : e[i] = d[i]) /\ e[n + 1] = p[n + 1]
      BY <1>0, <2>5, <3>1, AppendProperties
    <3>3. \A i \in 1..(n + 1) : i \in 1..n \/ i = n + 1
      OBVIOUS
    <3>4. \A i \in 1..Len(c) : c[i] = e[i]
      BY <2>1, <2>4, <3>2, <3>3
    <3>5. c = e
      BY ONLY <2>4, <3>2, <3>4, SeqEqual
    <3>q. QED BY <3>1, <3>5
  <2>8. c \in Children(tree, d)
    BY <2>5, <2>6, <2>7 DEF Children
  <2>9. p \in Branch(tree, c, k)
    <3>1. CASE Len(p) = n + 1
      <4>1. p = c
        BY ONLY <2>2, <2>4, <3>1, SeqEqual
      <4>q. QED BY <4>1 DEF Branch
    <3>2. CASE Len(p) # n + 1
      <4>1. Len(c) < Len(p) /\ Len(p) <= Len(c) + (k - 1) /\ \A i \in 1..Len(c) : p[i] = c[i]
        BY <2>1, <2>2, <2>4, <3>2
      <4>2. p \in Under(tree, c, k - 1)
        BY ONLY <2>1, <4>1, Zenon DEF Under
      <4>q. QED BY <4>2 DEF Branch
    <3>q. QED BY <3>1, <3>2
  <2>q. QED BY <2>8, <2>9
<1>q. QED BY <1>2, <1>3

\* ... no path is below two of them, and nothing is below to no depth.
LEMMA UnderIsOfOne ==
  ASSUME NEW tree \in Repositories, NEW d \in Seq(Names), NEW k \in Nat, k > 0,
         NEW b \in Children(tree, d), NEW c \in Children(tree, d), NEW p,
         p \in Branch(tree, b, k), p \in Branch(tree, c, k)
  PROVE  b = c
<1>0. PICK n \in Nat : n = Len(d)
  OBVIOUS
<1>1. ASSUME NEW a \in Children(tree, d), p \in Branch(tree, a, k)
      PROVE  a = Append(d, p[n + 1])
  <2>1. PICK x \in Names : a = Append(d, x)
    BY DEF Children
  <2>2. Len(a) = n + 1 /\ a[n + 1] = x
    BY <1>0, <2>1, AppendProperties
  <2>3. p = a \/ \A i \in 1..(n + 1) : p[i] = a[i]
    BY <1>1, <2>2 DEF Branch, Under
  <2>4. n + 1 \in 1..(n + 1)
    OBVIOUS
  <2>q. QED BY <2>1, <2>2, <2>3, <2>4, Zenon
<1>q. QED BY <1>1

\* g[k] is what k applications of H make of b.
Iterates(g, n, V, b, H) ==
  g \in [0..n -> V] /\ g[0] = b /\ \A k \in 1..n : g[k] = H[g[k - 1]]
\* A function can be applied any number of times.
LEMMA RoundsExist ==
  ASSUME NEW n \in Nat, NEW V, NEW b \in V, NEW H \in [V -> V]
  PROVE  \E g : Iterates(g, n, V, b, H)
<1>1. PICK G : G = {k \in 0..n : \E g : Iterates(g, k, V, b, H)}
  OBVIOUS
<1>2. ASSUME NEW k \in 0..n, \A y \in 0..n : y < k => y \in G
      PROVE  k \in G
  <2>0. k \in Nat
    BY <1>2
  <2>1. CASE k = 0
    <3>1. PICK g : g = [i \in 0..0 |-> b]
      OBVIOUS
    <3>2. Iterates(g, 0, V, b, H)
      BY <3>1 DEF Iterates
    <3>q. QED BY ONLY <1>1, <2>1, <3>2, k \in 0..n, Zenon
  <2>2. CASE k > 0
    <3>1. k - 1 \in 0..n /\ k - 1 < k
      BY <2>0, <2>2
    <3>2. PICK h : Iterates(h, k - 1, V, b, H)
      BY ONLY <1>1, <1>2, <3>1, Zenon
    <3>3. h \in [0..(k - 1) -> V] /\ h[0] = b /\ \A i \in 1..(k - 1) : h[i] = H[h[i - 1]]
      BY <3>2 DEF Iterates
    <3>4. PICK a : a = H[h[k - 1]]
      OBVIOUS
    <3>5. a \in V
      BY <2>0, <2>2, <3>3, <3>4
    <3>6. PICK g : g = [i \in 0..k |-> IF i = k THEN a ELSE h[i]]
      OBVIOUS
    <3>7. g \in [0..k -> V] /\ g[0] = b
      BY <2>0, <2>2, <3>3, <3>5, <3>6
    <3>8. ASSUME NEW i \in 1..k PROVE g[i] = H[g[i - 1]]
      <4>1. i \in 0..k /\ i - 1 \in 0..k /\ i - 1 # k /\ (i # k => i \in 1..(k - 1))
        BY <2>0
      <4>2. g[i - 1] = h[i - 1] /\ g[i] = IF i = k THEN a ELSE h[i]
        BY ONLY <3>6, <4>1, Zenon
      <4>q. QED BY ONLY <3>3, <3>4, <4>1, <4>2, Zenon
    <3>9. Iterates(g, k, V, b, H)
      BY ONLY <3>7, <3>8, Zenon DEF Iterates
    <3>q. QED BY ONLY <1>1, <3>9, k \in 0..n, Zenon
  <2>q. QED BY <2>0, <2>1, <2>2
<1>3. G = 0..n
  <2>1. 0 \in Int /\ n \in Int /\ G \in SUBSET (0..n)
    BY <1>1
  <2>q. QED BY ONLY <1>2, <2>1, UpwardInduction
<1>4. n \in G
  BY <1>3
<1>q. QED BY ONLY <1>1, <1>4, Zenon

Listing == [sha : Seq(Names), path : Seq(Names), isTree : BOOLEAN]
\* s lists each path of S once, under its full name.
Lists(tree, s, S) ==
  \E n \in Nat : \E g : Orders(g, n, S) /\ s = [i \in 1..n |-> Entry(tree, g[i], g[i])]

\* Nothing and one path are listed ...
LEMMA ListsOne ==
  ASSUME NEW tree, NEW p
  PROVE  Lists(tree, <<>>, {}) /\ Lists(tree, <<Entry(tree, p, p)>>, {p})
<1>1. Lists(tree, <<>>, {})
  <2>1. PICK g : g = [i \in 1..0 |-> p]
    OBVIOUS
  <2>2. Orders(g, 0, {}) /\ <<>> = [i \in 1..0 |-> Entry(tree, g[i], g[i])]
    BY <2>1 DEF Orders
  <2>3. 0 \in Nat
    OBVIOUS
  <2>q. QED BY ONLY <2>2, <2>3, Zenon DEF Lists
<1>2. Lists(tree, <<Entry(tree, p, p)>>, {p})
  <2>1. PICK g : g = [i \in 1..1 |-> p]
    OBVIOUS
  <2>2. Orders(g, 1, {p})
    BY <2>1 DEF Orders
  <2>3. PICK e : e = Entry(tree, p, p)
    OBVIOUS
  <2>4. <<e>> = [i \in 1..1 |-> e]
    OBVIOUS
  <2>5. [i \in 1..1 |-> Entry(tree, g[i], g[i])] = [i \in 1..1 |-> e]
    BY ONLY <2>1, <2>3, Zenon
  <2>6. <<Entry(tree, p, p)>> = [i \in 1..1 |-> Entry(tree, g[i], g[i])]
    BY ONLY <2>3, <2>4, <2>5, Zenon
  <2>7. 1 \in Nat
    OBVIOUS
  <2>q. QED BY ONLY <2>2, <2>6, <2>7, Zenon DEF Lists
<1>q. QED BY <1>1, <1>2

\* ... and two listings of different paths make one.
LEMMA ListsBoth ==
  ASSUME NEW tree, NEW E, NEW s \in Seq(E), NEW t \in Seq(E), NEW S, NEW T,
         Lists(tree, s, S), Lists(tree, t, T), \A x : ~(x \in S /\ x \in T)
  PROVE  Lists(tree, s \o t, S \cup T)
<1>1. PICK n \in Nat : \E g : Orders(g, n, S) /\ s = [i \in 1..n |-> Entry(tree, g[i], g[i])]
  BY DEF Lists
<1>2. PICK g : Orders(g, n, S) /\ s = [i \in 1..n |-> Entry(tree, g[i], g[i])]
  BY <1>1
<1>3. PICK m \in Nat : \E h : Orders(h, m, T) /\ t = [i \in 1..m |-> Entry(tree, h[i], h[i])]
  BY DEF Lists
<1>4. PICK h : Orders(h, m, T) /\ t = [i \in 1..m |-> Entry(tree, h[i], h[i])]
  BY <1>3
<1>5. /\ g \in [1..n -> S] /\ \A i, j \in 1..n : g[i] = g[j] => i = j
      /\ \A x \in S : \E i \in 1..n : g[i] = x
  BY <1>2 DEF Orders
<1>6. /\ h \in [1..m -> T] /\ \A i, j \in 1..m : h[i] = h[j] => i = j
      /\ \A x \in T : \E i \in 1..m : h[i] = x
  BY <1>4 DEF Orders
<1>7. Len(s) = n /\ Len(t) = m
  BY <1>2, <1>4
<1>8. PICK f : f = [i \in 1..(n + m) |-> IF i <= n THEN g[i] ELSE h[i - n]]
  OBVIOUS
<1>9. ASSUME NEW i \in 1..(n + m)
      PROVE  /\ i <= n => i \in 1..n /\ f[i] = g[i] /\ f[i] \in S
             /\ ~(i <= n) => i - n \in 1..m /\ f[i] = h[i - n] /\ f[i] \in T
  BY <1>5, <1>6, <1>8
<1>10. Orders(f, n + m, S \cup T)
  <2>1. f \in [1..(n + m) -> S \cup T]
    BY <1>8, <1>9
  <2>2. ASSUME NEW i \in 1..(n + m), NEW j \in 1..(n + m), f[i] = f[j] PROVE i = j
    <3>1. CASE i <= n /\ j <= n
      BY <1>5, <1>9, <2>2, <3>1
    <3>2. CASE ~(i <= n) /\ ~(j <= n)
      <4>1. i - n = j - n
        BY <1>6, <1>9, <2>2, <3>2
      <4>q. QED BY <4>1
    <3>3. CASE ~(i <= n <=> j <= n)
      BY <1>9, <2>2, <3>3
    <3>q. QED BY <3>1, <3>2, <3>3
  <2>3. ASSUME NEW x \in S \cup T PROVE \E i \in 1..(n + m) : f[i] = x
    <3>1. CASE x \in S
      <4>1. PICK i \in 1..n : g[i] = x
        BY <1>5, <3>1
      <4>2. i \in 1..(n + m) /\ f[i] = x
        BY <1>8, <4>1
      <4>q. QED BY <4>2
    <3>2. CASE x \in T
      <4>1. PICK i \in 1..m : h[i] = x
        BY <1>6, <3>2
      <4>2. i + n \in 1..(n + m) /\ ~(i + n <= n) /\ (i + n) - n = i
        OBVIOUS
      <4>3. f[i + n] = x
        BY <1>8, <4>1, <4>2
      <4>q. QED BY <4>2, <4>3
    <3>q. QED BY <3>1, <3>2
  <2>q. QED BY ONLY <2>1, <2>2, <2>3, Zenon DEF Orders
<1>11. PICK u : u = s \o t
  OBVIOUS
<1>12. /\ u \in Seq(E) /\ Len(u) = n + m
       /\ \A i \in 1..(n + m) : u[i] = IF i <= n THEN s[i] ELSE t[i - n]
  BY ONLY <1>7, <1>11, s \in Seq(E), t \in Seq(E), ConcatProperties
<1>13. ASSUME NEW i \in 1..(n + m) PROVE u[i] = Entry(tree, f[i], f[i])
  <2>1. i <= n => u[i] = Entry(tree, g[i], g[i])
    BY ONLY <1>2, <1>9, <1>12, <1>13, Zenon
  <2>2. ~(i <= n) => u[i] = Entry(tree, h[i - n], h[i - n])
    BY ONLY <1>4, <1>9, <1>12, <1>13, Zenon
  <2>q. QED BY ONLY <1>9, <1>13, <2>1, <2>2, Zenon
<1>14. u = [i \in 1..(n + m) |-> u[i]] /\ n + m \in Nat
  BY <1>12
<1>15. u = [i \in 1..(n + m) |-> Entry(tree, f[i], f[i])]
  BY ONLY <1>13, <1>14, Zenon
<1>16. PICK k \in Nat : k = n + m
  BY <1>14
<1>17. Orders(f, k, S \cup T) /\ u = [i \in 1..k |-> Entry(tree, f[i], f[i])]
  BY ONLY <1>10, <1>15, <1>16, Zenon
<1>q. QED BY ONLY <1>11, <1>17, k \in Nat, Zenon DEF Lists

UpTo(U, k) == UNION {U[i] : i \in 1..k}
\* Sequences that list disjoint sets list all of them when flattened.
LEMMA FlattenLists ==
  ASSUME NEW tree, NEW E, NEW n \in Nat, NEW ss \in [1..n -> Seq(E)], NEW U,
         \A i \in 1..n : Lists(tree, ss[i], U[i]),
         \A i, j \in 1..n : \A x : x \in U[i] /\ x \in U[j] => i = j
  PROVE  Lists(tree, FlattenSeq(ss), UpTo(U, n))
<1>1. PICK f : Joins(f, n, ss, E) /\ FlattenSeq(ss) = f[n]
  BY FlattenIs
<1>2. f \in [0..n -> Seq(E)] /\ f[0] = <<>> /\ \A i \in 1..n : f[i] = f[i - 1] \o ss[i]
  BY <1>1 DEF Joins
<1>3. PICK G : G = {k \in 0..n : Lists(tree, f[k], UpTo(U, k))}
  OBVIOUS
<1>4. ASSUME NEW k \in 0..n, \A y \in 0..n : y < k => y \in G
      PROVE  k \in G
  <2>1. CASE k = 0
    <3>1. 1..0 = {}
      OBVIOUS
    <3>2. UpTo(U, 0) = {}
      BY ONLY <3>1, Zenon DEF UpTo
    <3>3. Lists(tree, f[k], UpTo(U, k))
      BY ONLY <1>2, <2>1, <3>2, ListsOne, Zenon
    <3>q. QED BY ONLY <1>3, <3>3, k \in 0..n, Zenon
  <2>2. CASE k # 0
    <3>1. k \in Nat /\ k \in 1..n /\ k - 1 \in 0..n /\ k - 1 < k
      BY <2>2
    <3>2. Lists(tree, f[k - 1], UpTo(U, k - 1))
      BY ONLY <1>3, <1>4, <3>1, Zenon
    <3>3. f[k - 1] \in Seq(E) /\ ss[k] \in Seq(E) /\ f[k] = f[k - 1] \o ss[k]
      BY <1>2, <3>1
    <3>4. Lists(tree, ss[k], U[k])
      BY <3>1
    <3>5. \A i : i \in 1..k <=> i \in 1..(k - 1) \/ i = k
      BY <3>1
    <3>6. \A i \in 1..(k - 1) : i \in 1..n /\ i # k
      BY <3>1
    <3>7. \A x : ~(x \in UpTo(U, k - 1) /\ x \in U[k])
      BY <3>1, <3>6, Zenon DEF UpTo
    <3>8. UpTo(U, k) = UpTo(U, k - 1) \cup U[k]
      BY ONLY <3>5, Zenon DEF UpTo
    <3>9. Lists(tree, f[k - 1] \o ss[k], UpTo(U, k - 1) \cup U[k])
      BY ONLY <3>2, <3>3, <3>4, <3>7, ListsBoth, Zenon
    <3>10. Lists(tree, f[k], UpTo(U, k))
      BY ONLY <3>3, <3>8, <3>9, Zenon
    <3>q. QED BY ONLY <1>3, <3>10, k \in 0..n, Zenon
  <2>q. QED BY <2>1, <2>2
<1>5. G = 0..n
  <2>1. 0 \in Int /\ n \in Int /\ G \in SUBSET (0..n)
    BY <1>3
  <2>q. QED BY ONLY <1>4, <2>1, UpwardInduction
<1>6. n \in G
  BY <1>5
<1>q. QED BY ONLY <1>1, <1>3, <1>6, Zenon

\* An entry has the fields it is made of.
LEMMA EntryIs ==
  ASSUME NEW tree, NEW p \in Seq(Names), NEW q \in Seq(Names)
  PROVE  /\ Entry(tree, p, q) \in Listing
         /\ Entry(tree, p, q).sha = p /\ Entry(tree, p, q).path = q
         /\ Entry(tree, p, q).isTree = (Child(tree, p) # <<>>)
BY DEF Entry, Listing

\* The parts of what is below a directory, in the order of its paths.
LEMMA PartsAre ==
  ASSUME NEW tree \in Repositories, NEW below \in [tree \cup {<<>>} -> Seq(Listing)],
         NEW d \in tree \cup {<<>>}
  PROVE  \E n \in Nat : \E ss \in [1..n -> Seq(Listing)] :
           /\ Orders(Child(tree, d), n, Children(tree, d))
           /\ \A i \in 1..n : ss[i] = <<Entry(tree, Child(tree, d)[i], Child(tree, d)[i])>> \o below[Child(tree, d)[i]]
           /\ Deeper(tree, below)[d] = FlattenSeq(ss)
<1>1. PICK c : c = Child(tree, d)
  OBVIOUS
<1>2. PICK n \in Nat : Orders(c, n, Children(tree, d)) /\ Len(c) = n
  BY <1>1, ChildIs
<1>3. \A i \in 1..n : c[i] \in tree
  BY <1>2 DEF Orders, Children
<1>4. PICK ss : ss = [i \in 1..n |-> <<Entry(tree, c[i], c[i])>> \o below[c[i]]]
  OBVIOUS
<1>5. ss \in [1..n -> Seq(Listing)]
  <2>1. ASSUME NEW i \in 1..n PROVE <<Entry(tree, c[i], c[i])>> \o below[c[i]] \in Seq(Listing)
    <3>1. c[i] \in Seq(Names)
      BY <1>3, PathsAre
    <3>2. Entry(tree, c[i], c[i]) \in Listing
      BY <3>1, EntryIs
    <3>3. <<Entry(tree, c[i], c[i])>> \in Seq(Listing) /\ below[c[i]] \in Seq(Listing)
      BY <1>3, <3>2
    <3>q. QED BY ONLY <3>3, ConcatProperties
  <2>q. QED BY ONLY <1>4, <2>1, Zenon
<1>6. Deeper(tree, below)[d] = FlattenSeq(ss)
  BY ONLY <1>1, <1>2, <1>4, d \in tree \cup {<<>>}, Zenon DEF Deeper
<1>7. \A i \in 1..n : ss[i] = <<Entry(tree, c[i], c[i])>> \o below[c[i]]
  BY ONLY <1>4, Zenon
<1>q. QED BY ONLY <1>1, <1>2, <1>5, <1>6, <1>7, n \in Nat, Zenon

\* For each directory, below lists what is under it to depth k.
Below(tree, below, k) ==
  /\ below \in [tree \cup {<<>>} -> Seq(Listing)]
  /\ \A d \in tree \cup {<<>>} : Lists(tree, below[d], Under(tree, d, k))
\* From what is below the paths of a directory comes what is below it.
LEMMA DeeperStep ==
  ASSUME NEW tree \in Repositories, NEW below \in [tree \cup {<<>>} -> Seq(Listing)]
  PROVE  /\ Deeper(tree, below) \in [tree \cup {<<>>} -> Seq(Listing)]
         /\ \A k \in Nat : k > 0 /\ Below(tree, below, k - 1) => Below(tree, Deeper(tree, below), k)
<1>1. ASSUME NEW d \in tree \cup {<<>>} PROVE Deeper(tree, below)[d] \in Seq(Listing)
  <2>1. PICK n \in Nat : \E ss \in [1..n -> Seq(Listing)] : Deeper(tree, below)[d] = FlattenSeq(ss)
    BY ONLY PartsAre, tree \in Repositories, below \in [tree \cup {<<>>} -> Seq(Listing)],
            d \in tree \cup {<<>>}, Zenon
  <2>q. QED BY <2>1, FlattenHas
<1>2. Deeper(tree, below) \in [tree \cup {<<>>} -> Seq(Listing)]
  <2>1. Deeper(tree, below) = [d \in tree \cup {<<>>} |-> Deeper(tree, below)[d]]
    BY DEF Deeper
  <2>q. QED BY ONLY <1>1, <2>1, Zenon
<1>3. ASSUME NEW k \in Nat, k > 0, Below(tree, below, k - 1), NEW d \in tree \cup {<<>>}
      PROVE  Lists(tree, Deeper(tree, below)[d], Under(tree, d, k))
  <2>0. PICK c : c = Child(tree, d)
    OBVIOUS
  <2>1. PICK n \in Nat : \E ss \in [1..n -> Seq(Listing)] :
           /\ Orders(c, n, Children(tree, d))
           /\ \A i \in 1..n : ss[i] = <<Entry(tree, c[i], c[i])>> \o below[c[i]]
           /\ Deeper(tree, below)[d] = FlattenSeq(ss)
    BY ONLY <2>0, PartsAre, tree \in Repositories, below \in [tree \cup {<<>>} -> Seq(Listing)],
            d \in tree \cup {<<>>}, Zenon
  <2>2. PICK ss \in [1..n -> Seq(Listing)] :
           /\ Orders(c, n, Children(tree, d))
           /\ \A i \in 1..n : ss[i] = <<Entry(tree, c[i], c[i])>> \o below[c[i]]
           /\ Deeper(tree, below)[d] = FlattenSeq(ss)
    BY <2>1
  <2>3. /\ c \in [1..n -> Children(tree, d)] /\ \A i, j \in 1..n : c[i] = c[j] => i = j
        /\ \A x \in Children(tree, d) : \E i \in 1..n : c[i] = x
    BY <2>2 DEF Orders
  <2>4. PICK U : U = [i \in 1..n |-> Branch(tree, c[i], k)]
    OBVIOUS
  <2>5. d \in Seq(Names)
    BY PathsAre, EmptySeq
  <2>6. ASSUME NEW i \in 1..n PROVE Lists(tree, ss[i], U[i])
    <3>1. c[i] \in tree
      BY <2>3 DEF Children
    <3>2. PICK p : p = c[i]
      OBVIOUS
    <3>3. p \in Seq(Names) /\ Len(p) \in Nat
      BY <3>1, <3>2, PathsAre
    <3>4. Lists(tree, below[p], Under(tree, p, k - 1))
      BY <1>3, <3>1, <3>2 DEF Below
    <3>5. Lists(tree, <<Entry(tree, p, p)>>, {p})
      BY ListsOne
    <3>6. \A x : ~(x \in {p} /\ x \in Under(tree, p, k - 1))
      BY <3>3 DEF Under
    <3>7. <<Entry(tree, p, p)>> \in Seq(Listing) /\ below[p] \in Seq(Listing)
      <4>1. Entry(tree, p, p) \in Listing
        BY <3>3, EntryIs
      <4>q. QED BY <3>1, <3>2, <4>1
    <3>8. Lists(tree, <<Entry(tree, p, p)>> \o below[p], {p} \cup Under(tree, p, k - 1))
      BY ONLY <3>4, <3>5, <3>6, <3>7, ListsBoth, Zenon
    <3>9. ss[i] = <<Entry(tree, p, p)>> \o below[p] /\ U[i] = {p} \cup Under(tree, p, k - 1)
      BY ONLY <2>2, <2>4, <3>2, i \in 1..n, Zenon DEF Branch
    <3>q. QED BY ONLY <3>8, <3>9, Zenon
  <2>7. ASSUME NEW i \in 1..n, NEW j \in 1..n, NEW x, x \in U[i], x \in U[j] PROVE i = j
    <3>1. x \in Branch(tree, c[i], k) /\ x \in Branch(tree, c[j], k)
      BY ONLY <2>4, <2>7, Zenon
    <3>2. c[i] \in Children(tree, d) /\ c[j] \in Children(tree, d)
      BY <2>3
    <3>3. c[i] = c[j]
      BY ONLY <1>3, <2>5, <3>1, <3>2, tree \in Repositories, UnderIsOfOne
    <3>q. QED BY <2>3, <3>3
  <2>8. Lists(tree, FlattenSeq(ss), UpTo(U, n))
    BY ONLY <2>6, <2>7, n \in Nat, ss \in [1..n -> Seq(Listing)], FlattenLists, Zenon
  <2>9. UpTo(U, n) = Under(tree, d, k)
    <3>1. \A p : p \in Under(tree, d, k) <=> \E x \in Children(tree, d) : p \in Branch(tree, x, k)
      BY ONLY <1>3, <2>5, tree \in Repositories, UnderSplits
    <3>2. \A p : p \in UpTo(U, n) <=> \E i \in 1..n : p \in Branch(tree, c[i], k)
      BY ONLY <2>4, Zenon DEF UpTo
    <3>3. \A p : p \in UpTo(U, n) <=> p \in Under(tree, d, k)
      BY ONLY <2>3, <3>1, <3>2, Zenon
    <3>q. QED BY ONLY <3>3, Zenon
  <2>q. QED BY ONLY <2>2, <2>8, <2>9, Zenon
<1>q. QED BY ONLY <1>2, <1>3, Zenon DEF Below

\* The host's listing has every path of the repository once.
LEMMA EverythingIs ==
  ASSUME NEW tree \in Repositories
  PROVE  Everything(tree) \in Seq(Listing) /\ Lists(tree, Everything(tree), tree)
<1>0. DEFINE D == tree \cup {<<>>}
             Is(f) == f = [k \in 0 .. Depth(tree) |->
                IF k = 0 THEN [d \in D |-> <<>>] ELSE Deeper(tree, f[k - 1])]
<1>1. PICK n \in Nat : n = Depth(tree)
  BY DepthIs
<1>2. PICK V : V = [D -> Seq(Listing)]
  OBVIOUS
<1>3. PICK H : H = [v \in V |-> Deeper(tree, v)]
  OBVIOUS
<1>4. \A v \in V : Deeper(tree, v) \in V
  BY <1>2, DeeperStep
<1>5. H \in [V -> V]
  BY ONLY <1>3, <1>4, Zenon
<1>6. PICK b : b = [d \in D |-> <<>>]
  OBVIOUS
<1>7. b \in V
  BY <1>2, <1>6, EmptySeq
<1>8. PICK g : Iterates(g, n, V, b, H)
  BY ONLY <1>5, <1>7, n \in Nat, RoundsExist
<1>9. g \in [0..n -> V] /\ g[0] = b /\ \A k \in 1..n : g[k] = H[g[k - 1]]
  BY <1>8 DEF Iterates
<1>10. Is(g)
  <2>1. ASSUME NEW k \in 0..n PROVE g[k] = IF k = 0 THEN b ELSE Deeper(tree, g[k - 1])
    <3>1. k # 0 => k \in 1..n /\ k - 1 \in 0..n
      OBVIOUS
    <3>2. k # 0 => g[k - 1] \in V
      BY <1>9, <3>1
    <3>q. QED BY ONLY <1>3, <1>9, <3>1, <3>2, Zenon
  <2>2. g = [k \in 0..n |-> g[k]]
    BY <1>9
  <2>q. QED BY ONLY <1>1, <1>6, <2>1, <2>2, Zenon
<1>11. PICK f : f = CHOOSE h : Is(h)
  OBVIOUS
<1>12. Is(f)
  BY ONLY <1>10, <1>11, Zenon
<1>13. Everything(tree) = f[n][<<>>]
  BY ONLY <1>1, <1>11, Zenon DEF Everything
<1>14. PICK G : G = {k \in 0..n : Below(tree, f[k], k)}
  OBVIOUS
<1>15. ASSUME NEW k \in 0..n, \A y \in 0..n : y < k => y \in G
       PROVE  k \in G
  <2>1. f[k] = IF k = 0 THEN b ELSE Deeper(tree, f[k - 1])
    BY ONLY <1>1, <1>6, <1>12, k \in 0..n, Zenon
  <2>2. CASE k = 0
    <3>1. ASSUME NEW d \in D PROVE Under(tree, d, 0) = {} /\ b[d] = <<>>
      <4>1. d \in Seq(Names)
        BY PathsAre, EmptySeq
      <4>2. \A p \in tree : Len(p) \in Nat
        BY PathsAre
      <4>3. ASSUME NEW p \in Under(tree, d, 0) PROVE FALSE
        <5>1. p \in tree /\ Len(d) < Len(p) /\ Len(p) <= Len(d) + 0
          BY DEF Under
        <5>2. Len(p) \in Nat /\ Len(d) \in Nat
          BY <4>1, <4>2, <5>1
        <5>q. QED BY ONLY <5>1, <5>2
      <4>q. QED BY <1>6, <4>3
    <3>2. \A d \in D : Lists(tree, b[d], Under(tree, d, 0))
      BY ONLY <3>1, ListsOne, Zenon
    <3>3. Below(tree, b, 0)
      BY ONLY <1>2, <1>7, <3>2, Zenon DEF Below
    <3>q. QED BY ONLY <1>14, <2>1, <2>2, <3>3, k \in 0..n, Zenon
  <2>3. CASE k # 0
    <3>1. k \in Nat /\ k > 0 /\ k - 1 \in 0..n /\ k - 1 < k
      BY <2>3
    <3>2. Below(tree, f[k - 1], k - 1)
      BY ONLY <1>14, <1>15, <3>1, Zenon
    <3>3. f[k - 1] \in [tree \cup {<<>>} -> Seq(Listing)]
      BY ONLY <3>2, Zenon DEF Below
    <3>4. Below(tree, Deeper(tree, f[k - 1]), k)
      BY ONLY <3>1, <3>2, <3>3, tree \in Repositories, DeeperStep, Zenon
    <3>q. QED BY ONLY <1>14, <2>1, <2>3, <3>4, k \in 0..n, Zenon
  <2>q. QED BY <2>2, <2>3
<1>16. G = 0..n
  <2>1. 0 \in Int /\ n \in Int /\ G \in SUBSET (0..n)
    BY <1>14
  <2>q. QED BY ONLY <1>15, <2>1, UpwardInduction
<1>17. n \in G
  BY <1>16
<1>18. Below(tree, f[n], n)
  BY ONLY <1>14, <1>17, Zenon
<1>19. Lists(tree, f[n][<<>>], Under(tree, <<>>, n)) /\ f[n][<<>>] \in Seq(Listing)
  BY <1>18 DEF Below
<1>20. Under(tree, <<>>, n) = tree
  <2>1. ASSUME NEW p \in tree PROVE p \in Under(tree, <<>>, n)
    <3>1. Len(p) \in 1..MaxDepth /\ Len(p) <= n
      BY <1>1, PathsAre, DepthIs
    <3>2. Len(<<>>) = 0 /\ \A i \in 1..0 : FALSE
      OBVIOUS
    <3>q. QED BY <3>1, <3>2 DEF Under
  <2>q. QED BY <2>1 DEF Under
<1>q. QED BY ONLY <1>13, <1>19, <1>20, Zenon

-----------------------------------------------------------------------------
\* The trees among some entries.
LEMMA TreesAre ==
  ASSUME NEW entries \in Seq(Listing)
  PROVE  /\ Trees(entries) \in Seq(Listing)
         /\ \A e : e \in ToSet(Trees(entries)) <=> e \in ToSet(entries) /\ e.isTree
<1>1. PICK n \in Nat : n = Len(entries) /\ entries \in [1..n -> Listing]
  BY LenProperties
<1>2. PICK ss : ss = [i \in 1..n |-> IF entries[i].isTree THEN <<entries[i]>> ELSE <<>>]
  OBVIOUS
<1>3. ss \in [1..n -> Seq(Listing)]
  <2>1. ASSUME NEW i \in 1..n PROVE <<entries[i]>> \in Seq(Listing) /\ <<>> \in Seq(Listing)
    BY <1>1
  <2>q. QED BY ONLY <1>2, <2>1, Zenon
<1>4. Trees(entries) = FlattenSeq(ss)
  BY ONLY <1>1, <1>2, Zenon DEF Trees
<1>5. FlattenSeq(ss) \in Seq(Listing) /\ Within(FlattenSeq(ss), ss, n)
  BY ONLY <1>3, n \in Nat, FlattenHas
<1>6. ASSUME NEW x PROVE ToSet(<<x>>) = {x} /\ ToSet(<<>>) = {}
  <2>1. DOMAIN <<x>> = {1} /\ <<x>>[1] = x /\ DOMAIN <<>> = {}
    OBVIOUS
  <2>q. QED BY ONLY <2>1, Zenon DEF ToSet
<1>7. ASSUME NEW e, NEW i \in 1..n PROVE e \in ToSet(ss[i]) <=> e.isTree /\ e = entries[i]
  <2>1. ss[i] = IF entries[i].isTree THEN <<entries[i]>> ELSE <<>>
    BY ONLY <1>2, <1>7, Zenon
  <2>2. CASE entries[i].isTree
    BY ONLY <1>6, <2>1, <2>2
  <2>3. CASE ~ entries[i].isTree
    BY ONLY <1>6, <2>1, <2>3, Zenon
  <2>q. QED BY <2>2, <2>3
<1>8. \A e : e \in ToSet(entries) <=> \E i \in 1..n : e = entries[i]
  <2>1. DOMAIN entries = 1..n
    BY <1>1
  <2>q. QED BY ONLY <2>1, Zenon DEF ToSet
<1>9. \A e : e \in ToSet(FlattenSeq(ss)) <=> e \in ToSet(entries) /\ e.isTree
  <2>1. ASSUME NEW e PROVE e \in ToSet(FlattenSeq(ss)) <=> e \in ToSet(entries) /\ e.isTree
    <3>1. e \in ToSet(FlattenSeq(ss)) <=> \E i \in 1..n : e \in ToSet(ss[i])
      BY ONLY <1>5, Zenon DEF Within
    <3>2. \A i \in 1..n : e \in ToSet(ss[i]) <=> e.isTree /\ e = entries[i]
      BY ONLY <1>7, Zenon
    <3>3. e \in ToSet(entries) <=> \E i \in 1..n : e = entries[i]
      BY ONLY <1>8, Zenon
    <3>q. QED BY ONLY <3>1, <3>2, <3>3
  <2>q. QED BY ONLY <2>1, Zenon
<1>q. QED BY ONLY <1>4, <1>5, <1>9, Zenon

\* A tree's listing has each path of the directory.
LEMMA SubtreeIs ==
  ASSUME NEW tree \in Repositories, NEW d
  PROVE  /\ Subtree(tree, d) \in Seq(Listing)
         /\ \A c \in Children(tree, d) : \E e \in ToSet(Subtree(tree, d)) :
              e.sha = c /\ (Children(tree, c) # {} => e.isTree)
<1>1. PICK g : g = Child(tree, d)
  OBVIOUS
<1>2. PICK n \in Nat : Orders(g, n, Children(tree, d)) /\ Len(g) = n
  BY <1>1, ChildIs
<1>3. g \in [1..n -> Children(tree, d)] /\ \A x \in Children(tree, d) : \E i \in 1..n : g[i] = x
  BY <1>2 DEF Orders
<1>4. PICK s : s = [i \in 1..n |-> Entry(tree, g[i], <<Last(g[i])>>)]
  OBVIOUS
<1>5. s = Subtree(tree, d)
  BY ONLY <1>1, <1>2, <1>4, Zenon DEF Subtree
<1>6. ASSUME NEW i \in 1..n
      PROVE  s[i] \in Listing /\ s[i].sha = g[i] /\ (s[i].isTree = (Child(tree, g[i]) # <<>>))
  <2>1. g[i] \in tree
    BY <1>3 DEF Children
  <2>2. g[i] \in Seq(Names) /\ Len(g[i]) \in 1..MaxDepth
    BY <2>1, PathsAre
  <2>3. Last(g[i]) \in Names
    BY <2>2 DEF Last
  <2>4. <<Last(g[i])>> \in Seq(Names)
    BY <2>3
  <2>5. s[i] = Entry(tree, g[i], <<Last(g[i])>>)
    BY ONLY <1>4, i \in 1..n, Zenon
  <2>6. /\ Entry(tree, g[i], <<Last(g[i])>>) \in Listing
        /\ Entry(tree, g[i], <<Last(g[i])>>).sha = g[i]
        /\ Entry(tree, g[i], <<Last(g[i])>>).isTree = (Child(tree, g[i]) # <<>>)
    <3>1. PICK p, q : p = g[i] /\ q = <<Last(g[i])>>
      OBVIOUS
    <3>2. p \in Seq(Names) /\ q \in Seq(Names)
      BY ONLY <2>2, <2>4, <3>1, Zenon
    <3>3. /\ Entry(tree, p, q) \in Listing /\ Entry(tree, p, q).sha = p
          /\ Entry(tree, p, q).isTree = (Child(tree, p) # <<>>)
      BY ONLY <3>2, EntryIs
    <3>q. QED BY ONLY <3>1, <3>3, Zenon
  <2>q. QED BY ONLY <2>5, <2>6, Zenon
<1>7. s \in [1..n -> Listing]
  BY ONLY <1>4, <1>6, Zenon
<1>8. s \in Seq(Listing) /\ DOMAIN s = 1..n
  BY ONLY <1>7, n \in Nat
<1>9. ASSUME NEW c \in Children(tree, d)
      PROVE  \E e \in ToSet(s) : e.sha = c /\ (Children(tree, c) # {} => e.isTree)
  <2>1. PICK i \in 1..n : g[i] = c
    BY <1>3
  <2>2. s[i] \in ToSet(s)
    BY ONLY <1>8, <2>1, Zenon DEF ToSet
  <2>3. Children(tree, c) # {} => Child(tree, c) # <<>>
    <3>1. PICK m \in Nat : Orders(Child(tree, c), m, Children(tree, c)) /\ Len(Child(tree, c)) = m
      BY ChildIs
    <3>2. ASSUME NEW x \in Children(tree, c) PROVE Child(tree, c) # <<>>
      <4>1. \E i_1 \in 1..m : Child(tree, c)[i_1] = x
        BY ONLY <3>1, <3>2, Zenon DEF Orders
      <4>2. m # 0
        BY <4>1
      <4>3. Len(<<>>) = 0
        OBVIOUS
      <4>q. QED BY ONLY <3>1, <4>2, <4>3, Zenon
    <3>q. QED BY <3>2
  <2>q. QED BY ONLY <1>6, <2>1, <2>2, <2>3, Zenon
<1>q. QED BY ONLY <1>5, <1>8, <1>9, Zenon

\* The listings of some trees.
LEMMA ListedIs ==
  ASSUME NEW tree \in Repositories, NEW trees \in Seq(Listing)
  PROVE  /\ Listed(tree, trees) \in Seq(Listing)
         /\ \A t \in ToSet(trees) : \A e \in ToSet(Subtree(tree, t.sha)) : e \in ToSet(Listed(tree, trees))
<1>1. PICK n \in Nat : n = Len(trees) /\ trees \in [1..n -> Listing]
  BY LenProperties
<1>2. PICK ss : ss = [i \in 1..n |-> Subtree(tree, trees[i].sha)]
  OBVIOUS
<1>3. ss \in [1..n -> Seq(Listing)]
  BY ONLY <1>2, tree \in Repositories, SubtreeIs, Zenon
<1>4. Listed(tree, trees) = FlattenSeq(ss)
  BY ONLY <1>1, <1>2, Zenon DEF Listed
<1>5. FlattenSeq(ss) \in Seq(Listing) /\ Within(FlattenSeq(ss), ss, n)
  BY ONLY <1>3, n \in Nat, FlattenHas
<1>6. \A t \in ToSet(trees) : \E i \in 1..n : t = trees[i]
  <2>1. DOMAIN trees = 1..n
    BY <1>1
  <2>q. QED BY ONLY <2>1, Zenon DEF ToSet
<1>7. \A t \in ToSet(trees) : \A e \in ToSet(Subtree(tree, t.sha)) : e \in ToSet(FlattenSeq(ss))
  BY ONLY <1>2, <1>5, <1>6, Zenon DEF Within
<1>q. QED BY ONLY <1>4, <1>5, <1>7, Zenon

\* The walk comes to every path below a tree it begins with.
LEMMA WalkReaches ==
  ASSUME NEW tree \in Repositories, NEW pending \in Seq(Listing), NEW t \in ToSet(pending),
         NEW p \in tree, NEW a \in Nat, a > 0, a < Len(p), t.sha = SubSeq(p, 1, a)
  PROVE  /\ Walk(tree, pending) \in Seq(Listing)
         /\ \E e \in ToSet(Walk(tree, pending)) : e.sha = p
<1>0. DEFINE Is(f) == f = [k \in 0 .. Depth(tree) |->
                IF k = 0 THEN pending ELSE Trees(Listed(tree, f[k - 1]))]
<1>1. PICK n \in Nat : n = Depth(tree) /\ Len(p) <= n
  BY DepthIs
<1>2. PICK V : V = Seq(Listing)
  OBVIOUS
<1>3. \A v \in V : Trees(Listed(tree, v)) \in V
  BY ONLY <1>2, tree \in Repositories, ListedIs, TreesAre, Zenon
<1>4. PICK H : H = [v \in V |-> Trees(Listed(tree, v))]
  OBVIOUS
<1>5. H \in [V -> V] /\ pending \in V
  BY ONLY <1>2, <1>3, <1>4, pending \in Seq(Listing), Zenon
<1>6. PICK g : Iterates(g, n, V, pending, H)
  BY ONLY <1>5, n \in Nat, RoundsExist
<1>7. g \in [0..n -> V] /\ g[0] = pending /\ \A k \in 1..n : g[k] = H[g[k - 1]]
  BY <1>6 DEF Iterates
<1>8. Is(g)
  <2>1. ASSUME NEW k \in 0..n PROVE g[k] = IF k = 0 THEN pending ELSE Trees(Listed(tree, g[k - 1]))
    <3>1. k # 0 => k \in 1..n /\ k - 1 \in 0..n
      OBVIOUS
    <3>2. k # 0 => g[k - 1] \in V
      BY <1>7, <3>1
    <3>q. QED BY ONLY <1>4, <1>7, <3>1, <3>2, Zenon
  <2>2. g = [k \in 0..n |-> g[k]]
    BY <1>7
  <2>q. QED BY ONLY <1>1, <2>1, <2>2, Zenon
<1>9. DEFINE f == CHOOSE h : Is(h)
<1>10. Is(f)
  BY ONLY <1>8, Zenon
<1>a. Walk(tree, pending) = FlattenSeq([k \in 1 .. Depth(tree) + 1 |-> Listed(tree, f[k - 1])])
  BY DEF Walk
<1>b. HIDE DEF f
<1>11. \A m \in 1..Len(p) : SubSeq(p, 1, m) \in tree
  BY PathsAre
<1>12. p \in Seq(Names) /\ Len(p) \in Nat
  BY PathsAre
<1>13. ASSUME NEW m \in Nat, 0 < m, m < Len(p)
       PROVE  SubSeq(p, 1, m + 1) \in Children(tree, SubSeq(p, 1, m))
  <2>1. 1 \in 1..Len(p) /\ m + 1 \in 1..Len(p) /\ p[m + 1] \in Names /\ (m + 1) - 1 = m
    BY <1>12, <1>13
  <2>2. PICK q : q = SubSeq(p, 1, m)
    OBVIOUS
  <2>3. q \in Seq(Names)
    BY <1>12, <1>13, <2>2
  <2>4. SubSeq(p, 1, m + 1) = SubSeq(p, 1, (m + 1) - 1) \o <<p[m + 1]>>
    BY ONLY <1>12, <2>1, SubSeqRecursiveSecond
  <2>5. SubSeq(p, 1, m + 1) = q \o <<p[m + 1]>>
    BY ONLY <2>1, <2>2, <2>4, Zenon
  <2>6. Append(q, p[m + 1]) = q \o <<p[m + 1]>>
    BY ONLY <2>1, <2>3, AppendIsConcat
  <2>q. QED BY ONLY <1>11, <2>1, <2>2, <2>5, <2>6, Zenon DEF Children
<1>14. DEFINE Reached(k) ==
         /\ f[k] \in V
         /\ a + k < Len(p) => \E e \in ToSet(f[k]) : e.sha = SubSeq(p, 1, a + k)
<1>15. PICK G : G = {k \in 0..n : Reached(k)}
  OBVIOUS
<1>16. ASSUME NEW k \in Nat, f[k] \in V, a + k < Len(p), NEW e \in ToSet(f[k]), e.sha = SubSeq(p, 1, a + k)
       PROVE  \E x \in ToSet(Listed(tree, f[k])) :
                /\ x.sha = SubSeq(p, 1, a + k + 1)
                /\ a + k + 1 < Len(p) => x.isTree
  <2>1. a + k \in Nat /\ 0 < a + k /\ (a + k) + 1 = a + k + 1
    BY <1>16
  <2>2. PICK c : c = SubSeq(p, 1, a + k + 1)
    OBVIOUS
  <2>3. c \in Children(tree, e.sha)
    BY ONLY <1>13, <1>16, <2>1, <2>2, Zenon
  <2>4. PICK x \in ToSet(Subtree(tree, e.sha)) : x.sha = c /\ (Children(tree, c) # {} => x.isTree)
    BY ONLY <2>3, tree \in Repositories, SubtreeIs, Zenon
  <2>5. x \in ToSet(Listed(tree, f[k]))
    BY ONLY <1>2, <1>16, <2>4, tree \in Repositories, ListedIs, Zenon
  <2>6. a + k + 1 < Len(p) => Children(tree, c) # {}
    <3>1. a + k + 1 \in Nat /\ 0 < a + k + 1
      BY <1>16
    <3>q. QED BY ONLY <1>13, <2>2, <3>1, Zenon
  <2>q. QED BY ONLY <2>2, <2>4, <2>5, <2>6, Zenon
<1>17. ASSUME NEW k \in 0..n, \A y \in 0..n : y < k => y \in G
       PROVE  k \in G
  <2>1. f[k] = IF k = 0 THEN pending ELSE Trees(Listed(tree, f[k - 1]))
    BY ONLY <1>1, <1>10, k \in 0..n, Zenon
  <2>2. CASE k = 0
    <3>1. a + 0 = a
      OBVIOUS
    <3>2. Reached(k)
      BY ONLY <1>5, <2>1, <2>2, <3>1, t \in ToSet(pending), t.sha = SubSeq(p, 1, a), Zenon
    <3>q. QED BY ONLY <1>15, <3>2, k \in 0..n, Zenon
  <2>3. CASE k # 0
    <3>1. k - 1 \in 0..n /\ k - 1 \in Nat /\ k - 1 < k /\ a + (k - 1) + 1 = a + k
      BY <2>3
    <3>2. Reached(k - 1)
      BY ONLY <1>15, <1>17, <3>1, Zenon
    <3>3. f[k] \in V
      BY ONLY <1>3, <2>1, <2>3, <3>2, Zenon
    <3>4. ASSUME a + k < Len(p) PROVE \E e \in ToSet(f[k]) : e.sha = SubSeq(p, 1, a + k)
      <4>1. a + (k - 1) < Len(p)
        BY <1>12, <3>4
      <4>2. PICK e \in ToSet(f[k - 1]) : e.sha = SubSeq(p, 1, a + (k - 1))
        BY ONLY <3>2, <4>1, Zenon
      <4>3. PICK x \in ToSet(Listed(tree, f[k - 1])) : x.sha = SubSeq(p, 1, a + k) /\ x.isTree
        BY ONLY <1>16, <3>1, <3>2, <3>4, <4>1, <4>2, Zenon
      <4>4. Listed(tree, f[k - 1]) \in Seq(Listing)
        BY ONLY <1>2, <3>2, tree \in Repositories, ListedIs, Zenon
      <4>5. x \in ToSet(Trees(Listed(tree, f[k - 1])))
        BY ONLY <4>3, <4>4, TreesAre, Zenon
      <4>q. QED BY ONLY <2>1, <2>3, <4>3, <4>5, Zenon
    <3>5. Reached(k)
      BY ONLY <3>3, <3>4, Zenon
    <3>q. QED BY ONLY <1>15, <3>5, k \in 0..n, Zenon
  <2>q. QED BY <2>2, <2>3
<1>18. G = 0..n
  <2>1. 0 \in Int /\ n \in Int /\ G \in SUBSET (0..n)
    BY <1>15
  <2>q. QED BY ONLY <1>17, <2>1, UpwardInduction
<1>19. PICK ss : ss = [k \in 1..(n + 1) |-> Listed(tree, f[k - 1])]
  OBVIOUS
<1>20. n + 1 \in Nat /\ \A k \in 1..(n + 1) : k - 1 \in 0..n
  OBVIOUS
<1>21. ss \in [1..(n + 1) -> Seq(Listing)]
  <2>1. \A k \in 1..(n + 1) : f[k - 1] \in V
    BY ONLY <1>15, <1>18, <1>20, Zenon
  <2>q. QED BY ONLY <1>2, <1>19, <2>1, tree \in Repositories, ListedIs, Zenon
<1>22. Walk(tree, pending) = FlattenSeq(ss)
  <2>1. ss = [k \in 1 .. Depth(tree) + 1 |-> Listed(tree, f[k - 1])]
    BY ONLY <1>1, <1>19
  <2>q. QED BY ONLY <1>a, <2>1, Zenon
<1>23. FlattenSeq(ss) \in Seq(Listing) /\ Within(FlattenSeq(ss), ss, n + 1)
  BY ONLY <1>20, <1>21, FlattenHas
<1>24. \E e \in ToSet(FlattenSeq(ss)) : e.sha = p
  <2>1. PICK k : k = Len(p) - a - 1
    OBVIOUS
  <2>2. k \in 0..n /\ k \in Nat /\ a + k < Len(p) /\ a + k + 1 = Len(p) /\ k + 1 \in 1..(n + 1) /\ (k + 1) - 1 = k
    BY <1>1, <1>12, <2>1
  <2>3. Reached(k)
    BY ONLY <1>15, <1>18, <2>2, Zenon
  <2>4. PICK e \in ToSet(f[k]) : e.sha = SubSeq(p, 1, a + k)
    BY ONLY <2>2, <2>3, Zenon
  <2>5. PICK x \in ToSet(Listed(tree, f[k])) : x.sha = SubSeq(p, 1, Len(p))
    BY ONLY <1>16, <2>2, <2>3, <2>4, Zenon
  <2>6. SubSeq(p, 1, Len(p)) = p
    BY <1>12, SubSeqFull
  <2>7. x \in ToSet(ss[k + 1])
    BY ONLY <1>19, <2>2, <2>5, Zenon
  <2>8. x \in ToSet(FlattenSeq(ss))
    BY ONLY <1>23, <2>2, <2>7, Zenon DEF Within
  <2>q. QED BY ONLY <2>5, <2>6, <2>8, Zenon
<1>q. QED BY ONLY <1>22, <1>23, <1>24, Zenon

\* What ReadTree returns: all of the repository if the host lists it at once,
\* and else at least what is below the directories that the host listed.
Reads(tree, limit, entries) ==
  /\ ~ Root(tree, limit).truncated =>
       Len(entries) = Cardinality(tree) /\ {e.path : e \in ToSet(entries)} = tree
  /\ \A d \in ToSet(Trees(Root(tree, limit).entries)), f \in Files(tree) :
       IsStrictPrefix(d.sha, f) => f \in {e.sha : e \in ToSet(entries)}
\* The entries listed at once are the repository's, and the walk adds the rest.
LEMMA ReadIs ==
  ASSUME NEW tree \in Repositories, NEW limit \in 1 .. Cardinality(tree) + 1
  PROVE  Reads(tree, limit, ReadTree(tree, limit))
<1>1. PICK s : s = Everything(tree) /\ s \in Seq(Listing) /\ Lists(tree, s, tree)
  BY EverythingIs
<1>2. PICK n \in Nat : \E g : Orders(g, n, tree) /\ s = [i \in 1..n |-> Entry(tree, g[i], g[i])]
  BY <1>1 DEF Lists
<1>3. PICK g : Orders(g, n, tree) /\ s = [i \in 1..n |-> Entry(tree, g[i], g[i])]
  BY <1>2
<1>4. /\ g \in [1..n -> tree] /\ \A i, j \in 1..n : g[i] = g[j] => i = j
      /\ \A x \in tree : \E i \in 1..n : g[i] = x
  BY <1>3 DEF Orders
<1>5. Cardinality(tree) = n
  <2>1. g \in Bijection(1..n, tree)
    BY <1>4 DEF Bijection, Injection, Surjection, IsInjective
  <2>2. ExistsBijection(1..n, tree)
    BY <2>1 DEF ExistsBijection
  <2>q. QED BY <2>2, FS_CountingElements
<1>6. Len(s) = n /\ DOMAIN s = 1..n
  BY <1>3
<1>7. ASSUME NEW i \in 1..n PROVE s[i].sha = g[i] /\ s[i].path = g[i]
  <2>1. g[i] \in Seq(Names)
    BY <1>4, PathsAre
  <2>2. s[i] = Entry(tree, g[i], g[i])
    BY ONLY <1>3, <1>7, Zenon
  <2>3. PICK p : p = g[i]
    OBVIOUS
  <2>4. p \in Seq(Names)
    BY ONLY <2>1, <2>3, Zenon
  <2>5. Entry(tree, p, p).sha = p /\ Entry(tree, p, p).path = p
    BY DEF Entry
  <2>q. QED BY ONLY <2>2, <2>3, <2>5, Zenon
<1>8. limit \in Nat
  BY <1>5
<1>9. PICK m \in Nat : m = (IF limit <= n THEN limit ELSE n) /\ m <= n
  BY <1>8
<1>10. PICK root : root = Root(tree, limit)
  OBVIOUS
<1>11. (root.truncated <=> limit < n) /\ root.entries = SubSeq(s, 1, m)
  <2>1. Min({0 + limit, Len(s)}) = m
    BY <1>6, <1>8, <1>9, SmallerIs
  <2>2. root = [truncated |-> limit < Len(s), entries |-> Slice(s, 0, limit)]
    BY ONLY <1>1, <1>10, Zenon DEF Root
  <2>3. 0 + 1 = 1
    OBVIOUS
  <2>4. Slice(s, 0, limit) = SubSeq(s, 1, m)
    BY ONLY <2>1, <2>3, Zenon DEF Slice
  <2>5. (root.truncated <=> limit < Len(s)) /\ root.entries = Slice(s, 0, limit)
    BY ONLY <2>2
  <2>q. QED BY ONLY <1>6, <2>4, <2>5, Zenon
<1>12. /\ SubSeq(s, 1, m) \in Seq(Listing)
       /\ \A e \in ToSet(SubSeq(s, 1, m)) : e \in Listing /\ e.sha \in tree
  <2>1. PICK u : u = SubSeq(s, 1, m)
    OBVIOUS
  <2>2. u \in Seq(Listing) /\ Len(u) = m /\ \A i \in 1..m : u[i] = s[i]
    BY <1>1, <1>6, <1>9, <2>1
  <2>3. DOMAIN u = 1..m /\ \A i \in 1..m : u[i] \in Listing /\ i \in 1..n
    BY <1>9, <2>2
  <2>4. ASSUME NEW i \in 1..m PROVE u[i] \in Listing /\ u[i].sha \in tree
    <3>1. u[i] = s[i] /\ i \in 1..n /\ u[i] \in Listing
      BY <2>2, <2>3
    <3>2. g[i] \in tree
      BY <1>4, <3>1
    <3>q. QED BY ONLY <1>7, <3>1, <3>2, Zenon
  <2>5. \A e \in ToSet(u) : \E i \in 1..m : e = u[i]
    BY ONLY <2>3, Zenon DEF ToSet
  <2>q. QED BY ONLY <2>1, <2>2, <2>4, <2>5, Zenon
<1>13. PICK r : r = ReadTree(tree, limit)
  OBVIOUS
<1>14. r = SubSeq(s, 1, m) \o (IF root.truncated THEN Walk(tree, Trees(SubSeq(s, 1, m))) ELSE <<>>)
  BY ONLY <1>10, <1>11, <1>13, Zenon DEF ReadTree
<1>15. ~ root.truncated => r = s
  <2>1. ~ root.truncated => m = n
    BY <1>8, <1>9, <1>11
  <2>2. SubSeq(s, 1, n) = s
    BY <1>1, <1>6, SubSeqFull
  <2>3. s \o <<>> = s
    BY <1>1, ConcatEmptySeq
  <2>q. QED BY ONLY <1>14, <2>1, <2>2, <2>3, Zenon
<1>16. ~ root.truncated => Len(r) = Cardinality(tree) /\ {e.path : e \in ToSet(r)} = tree
  <2>1. {e.path : e \in ToSet(s)} = tree
    <3>1. \A x : x \in {e.path : e \in ToSet(s)} <=> \E i \in 1..n : x = s[i].path
      BY ONLY <1>6, Zenon DEF ToSet
    <3>2. \A x : x \in tree <=> \E i \in 1..n : x = g[i]
      BY <1>4
    <3>3. \A x : x \in {e.path : e \in ToSet(s)} <=> x \in tree
      <4>1. \A x : (\E i \in 1..n : x = s[i].path) <=> (\E i \in 1..n : x = g[i])
        BY ONLY <1>7, Zenon
      <4>q. QED BY ONLY <3>1, <3>2, <4>1, Zenon
    <3>q. QED BY ONLY <3>3, Zenon
  <2>q. QED BY ONLY <1>5, <1>6, <1>15, <2>1, Zenon
<1>17. ASSUME NEW d \in ToSet(Trees(SubSeq(s, 1, m))), NEW f \in Files(tree), IsStrictPrefix(d.sha, f)
       PROVE  \E e \in ToSet(r) : e.sha = f
  <2>1. f \in tree
    BY DEF Files
  <2>2. CASE ~ root.truncated
    <3>1. PICK i \in 1..n : g[i] = f
      BY <1>4, <2>1
    <3>2. s[i] \in ToSet(s) /\ s[i].sha = f
      BY ONLY <1>6, <1>7, <3>1, Zenon DEF ToSet
    <3>q. QED BY ONLY <1>15, <2>2, <3>2, Zenon
  <2>3. CASE root.truncated
    <3>1. PICK pending : pending = Trees(SubSeq(s, 1, m)) /\ pending \in Seq(Listing)
      BY <1>12, TreesAre
    <3>2. d \in ToSet(pending) /\ d.sha \in tree
      <4>1. d \in ToSet(SubSeq(s, 1, m))
        BY ONLY <1>12, <1>17, TreesAre, Zenon
      <4>q. QED BY ONLY <1>12, <1>17, <3>1, <4>1, Zenon
    <3>3. PICK q : q = d.sha
      OBVIOUS
    <3>4. q \in Seq(Names) /\ Len(q) \in Nat /\ Len(q) > 0 /\ f \in Seq(Names) /\ Len(f) \in Nat
      BY <2>1, <3>2, <3>3, PathsAre
    <3>5. Len(q) <= Len(f) /\ SubSeq(q, 1, Len(q)) = SubSeq(f, 1, Len(q)) /\ q # f
      BY ONLY <1>17, <3>3, Zenon DEF IsStrictPrefix, IsPrefix
    <3>6. q = SubSeq(f, 1, Len(q)) /\ SubSeq(f, 1, Len(f)) = f
      BY <3>4, <3>5, SubSeqFull
    <3>7. Len(q) # Len(f)
      BY ONLY <3>5, <3>6, Zenon
    <3>8. Len(q) < Len(f)
      BY ONLY <3>4, <3>5, <3>7
    <3>9. d.sha = SubSeq(f, 1, Len(q))
      BY ONLY <3>3, <3>6, Zenon
    <3>10. /\ Walk(tree, pending) \in Seq(Listing)
           /\ \E e \in ToSet(Walk(tree, pending)) : e.sha = f
      <4>1. PICK a : a = Len(q)
        OBVIOUS
      <4>2. /\ a \in Nat /\ a > 0 /\ a < Len(f) /\ d.sha = SubSeq(f, 1, a)
            /\ pending \in Seq(Listing) /\ d \in ToSet(pending)
        BY ONLY <3>1, <3>2, <3>4, <3>8, <3>9, <4>1, Zenon
      <4>q. QED BY ONLY <2>1, <4>2, tree \in Repositories, WalkReaches
    <3>11. r = SubSeq(s, 1, m) \o Walk(tree, pending)
      BY ONLY <1>14, <2>3, <3>1, Zenon
    <3>12. Range(r) = Range(SubSeq(s, 1, m)) \cup Range(Walk(tree, pending))
      <4>1. PICK u, w : u = SubSeq(s, 1, m) /\ w = Walk(tree, pending)
        OBVIOUS
      <4>2. u \in Seq(Listing) /\ w \in Seq(Listing)
        BY ONLY <1>12, <3>10, <4>1, Zenon
      <4>3. Range(u \o w) = Range(u) \cup Range(w)
        BY ONLY <4>2, RangeConcatenation
      <4>q. QED BY ONLY <3>11, <4>1, <4>3, Zenon
    <3>13. ToSet(r) = ToSet(SubSeq(s, 1, m)) \cup ToSet(Walk(tree, pending))
      BY ONLY <3>12, Zenon DEF ToSet, Range
    <3>q. QED BY ONLY <3>10, <3>13, Zenon
  <2>q. QED BY <2>2, <2>3
<1>18. Reads(tree, limit, r)
  BY ONLY <1>10, <1>11, <1>16, <1>17, Zenon DEF Reads
<1>q. QED BY ONLY <1>13, <1>18, Zenon

\* The rows of the projects asked for, none later than it comes among all the
\* rows.
Keeps(R, s, projects, kept) ==
  /\ kept \in Seq(R) /\ \A e \in ToSet(kept) : Asked(projects, e)
  /\ \A j \in 1..Len(s) : Asked(projects, s[j]) => \E p \in 1..Len(kept) : p <= j /\ kept[p] = s[j]
  /\ (\A i \in 1..Len(s) : Asked(projects, s[i])) => kept = s
\* That is what OfProjects takes from them.
LEMMA KeptIs ==
  ASSUME NEW R, NEW s \in Seq(R), NEW projects, NEW kept, kept = OfProjects(s, projects)
  PROVE  Keeps(R, s, projects, kept)
<1>1. PICK n \in Nat : n = Len(s)
  OBVIOUS
<1>2. PICK ss : ss = [i \in 1..n |-> IF Asked(projects, s[i]) THEN <<s[i]>> ELSE <<>>]
  OBVIOUS
<1>3. \A i \in 1..n : s[i] \in R /\ <<s[i]>> \in Seq(R) /\ ss[i] = IF Asked(projects, s[i]) THEN <<s[i]>> ELSE <<>>
  <2>1. ASSUME NEW i \in 1..n PROVE s[i] \in R /\ <<s[i]>> \in Seq(R)
    BY <1>1
  <2>q. QED BY <1>2, <2>1
<1>4. ss \in [1..n -> Seq(R)]
  <2>1. <<>> \in Seq(R)
    OBVIOUS
  <2>2. \A i \in 1..n : (IF Asked(projects, s[i]) THEN <<s[i]>> ELSE <<>>) \in Seq(R)
    BY ONLY <1>3, <2>1, Zenon
  <2>q. QED BY ONLY <1>2, <2>2, Zenon
<1>5. kept = FlattenSeq(ss)
  BY ONLY <1>1, <1>2, kept = OfProjects(s, projects), Zenon DEF OfProjects
<1>6. kept \in Seq(R) /\ Within(kept, ss, n)
  BY ONLY <1>4, <1>5, n \in Nat, FlattenHas
<1>7. ASSUME NEW e \in ToSet(kept) PROVE Asked(projects, e)
  <2>1. PICK i \in 1..n : e \in ToSet(ss[i])
    BY ONLY <1>6, e \in ToSet(kept), Zenon DEF Within
  <2>2. ToSet(<<>>) = {} /\ ToSet(<<s[i]>>) = {s[i]}
    BY DEF ToSet
  <2>3. CASE Asked(projects, s[i])
    <3>1. ss[i] = <<s[i]>>
      BY ONLY <1>3, <2>3, i \in 1..n, Zenon
    <3>2. e = s[i]
      BY ONLY <2>1, <2>2, <3>1
    <3>q. QED BY ONLY <2>3, <3>2, Zenon
  <2>4. CASE ~ Asked(projects, s[i])
    <3>1. ss[i] = <<>>
      BY ONLY <1>3, <2>4, i \in 1..n, Zenon
    <3>q. QED BY ONLY <2>1, <2>2, <3>1
  <2>q. QED BY ONLY <2>3, <2>4, Zenon
<1>8. PICK f : Joins(f, n, ss, R) /\ FlattenSeq(ss) = f[n]
  BY ONLY <1>4, n \in Nat, FlattenIs
<1>9. f \in [0..n -> Seq(R)] /\ f[0] = <<>> /\ \A i \in 1..n : f[i] = f[i - 1] \o ss[i]
  BY ONLY <1>8, Zenon DEF Joins
<1>10. DEFINE Placed(k) ==
          /\ Len(f[k]) <= k
          /\ \A j \in 1..k : Asked(projects, s[j]) => \E p \in 1..Len(f[k]) : p <= j /\ f[k][p] = s[j]
<1>11. PICK G : G = {k \in 0..n : Placed(k)}
  OBVIOUS
<1>12. ASSUME NEW k \in 0..n, \A y \in 0..n : y < k => y \in G
       PROVE  k \in G
  <2>1. CASE k = 0
    <3>1. Len(f[k]) <= k /\ 1..k = {}
      BY <1>9, <2>1
    <3>2. Placed(k)
      BY ONLY <3>1, Zenon
    <3>q. QED BY ONLY <1>11, <3>2, k \in 0..n, Zenon
  <2>2. CASE k # 0
    <3>1. k \in Nat /\ k \in 1..n /\ k - 1 \in 0..n /\ k - 1 < k
      BY <2>2
    <3>2. Placed(k - 1)
      BY ONLY <1>11, <1>12, <3>1, Zenon
    <3>3. PICK u, v, w : u = f[k - 1] /\ v = ss[k] /\ w = f[k]
      OBVIOUS
    <3>4. u \in Seq(R) /\ v \in Seq(R) /\ w = u \o v
      BY ONLY <1>4, <1>9, <3>1, <3>3, Zenon
    <3>5. /\ Len(u) <= k - 1
          /\ \A j \in 1..(k - 1) : Asked(projects, s[j]) => \E p \in 1..Len(u) : p <= j /\ u[p] = s[j]
      BY ONLY <3>2, <3>3, Zenon
    <3>6. v = IF Asked(projects, s[k]) THEN <<s[k]>> ELSE <<>>
      BY ONLY <1>3, <3>1, <3>3, Zenon
    <3>7. Len(v) = (IF Asked(projects, s[k]) THEN 1 ELSE 0) /\ (Asked(projects, s[k]) => v[1] = s[k])
      BY ONLY <3>6
    <3>8. /\ Len(w) = Len(u) + Len(v) /\ Len(u) \in Nat /\ Len(v) \in Nat
          /\ \A p \in 1..Len(u) : p \in 1..Len(w) /\ w[p] = u[p]
          /\ Len(v) = 1 => w[Len(u) + 1] = v[1]
      BY ONLY <3>4
    <3>9. Len(w) <= k
      BY ONLY <3>1, <3>5, <3>7, <3>8
    <3>10. ASSUME NEW j \in 1..k, Asked(projects, s[j])
           PROVE  \E p \in 1..Len(w) : p <= j /\ w[p] = s[j]
      <4>1. CASE j # k
        <5>1. j \in 1..(k - 1)
          BY ONLY <3>1, <4>1, j \in 1..k
        <5>2. PICK p \in 1..Len(u) : p <= j /\ u[p] = s[j]
          BY ONLY <3>5, <3>10, <5>1, Zenon
        <5>q. QED BY ONLY <3>8, <5>2, Zenon
      <4>2. CASE j = k
        <5>1. Len(v) = 1 /\ v[1] = s[k]
          BY ONLY <3>7, <3>10, <4>2, Zenon
        <5>2. PICK p : p = Len(u) + 1
          OBVIOUS
        <5>3. p \in 1..Len(w) /\ p <= k
          BY ONLY <3>1, <3>5, <3>8, <5>1, <5>2
        <5>4. w[p] = s[k]
          BY ONLY <3>8, <5>1, <5>2, Zenon
        <5>q. QED BY ONLY <4>2, <5>3, <5>4, Zenon
      <4>q. QED BY ONLY <4>1, <4>2, Zenon
    <3>11. Placed(k)
      BY ONLY <3>3, <3>9, <3>10, Zenon
    <3>q. QED BY ONLY <1>11, <3>11, k \in 0..n, Zenon
  <2>q. QED BY ONLY <2>1, <2>2, Zenon
<1>13. G = 0..n
  <2>1. 0 \in Int /\ n \in Int /\ G \in SUBSET (0..n)
    BY <1>11
  <2>q. QED BY ONLY <1>12, <2>1, UpwardInduction
<1>14. n \in G
  BY <1>13
<1>15. \A j \in 1..Len(s) : Asked(projects, s[j]) => \E p \in 1..Len(kept) : p <= j /\ kept[p] = s[j]
  BY ONLY <1>1, <1>5, <1>8, <1>11, <1>14, Zenon
<1>16. ASSUME \A i \in 1..Len(s) : Asked(projects, s[i]) PROVE kept = s
  <2>1. ss = [i \in 1..n |-> <<s[i]>>]
    BY ONLY <1>1, <1>2, <1>16, Zenon
  <2>2. FlattenSeq([i \in 1..Len(s) |-> <<s[i]>>]) = s
    BY FlattenSingletons
  <2>q. QED BY ONLY <1>1, <1>5, <2>1, <2>2, Zenon
<1>q. QED BY ONLY <1>6, <1>7, <1>15, <1>16, Zenon DEF Keeps

\* What BackendsAgree says of two pages.
Others(rows, projects) == {r \in ToSet(rows) : ~ Asked(projects, r)}
Agree(rows, projects, offset, limit, sqlite, pg) ==
  IF offset < 0 THEN sqlite = Panics /\ pg = Fails
  ELSE /\ ToSet(pg) \cap Others(rows, projects) = {}
       /\ Others(rows, projects) = {} /\ limit > 0 => sqlite = pg
       /\ Others(rows, projects) = {} /\ limit <= 0 =>
            pg = SubSeq(sqlite, 1, Min({DefaultLimit, Len(sqlite)}))
       /\ offset = 0 /\ limit > 0 => ToSet(sqlite) \ Others(rows, projects) \subseteq ToSet(pg)

\* t is the page of s after its first offset elements.
PageOf(s, offset, limit, t) ==
  /\ ToSet(t) \subseteq ToSet(s)
  /\ offset > Len(s) => t = <<>>
  /\ \A p \in 1..Len(s) : offset < p /\ p <= offset + limit => s[p] \in ToSet(t)
  /\ \A e \in ToSet(t) : \E p \in 1..Len(s) : p <= offset + limit /\ s[p] = e
\* A slice is a page.
LEMMA SliceIs ==
  ASSUME NEW R, NEW s \in Seq(R), NEW offset \in Nat, NEW limit \in Nat
  PROVE  PageOf(s, offset, limit, Slice(s, offset, limit))
<1>1. PICK n \in Nat : n = Len(s)
  OBVIOUS
<1>2. PICK m \in Nat : m = (IF offset + limit <= n THEN offset + limit ELSE n) /\ m = Min({offset + limit, n})
  BY SmallerIs
<1>3. PICK t : t = SubSeq(s, offset + 1, m)
  OBVIOUS
<1>4. Slice(s, offset, limit) = t
  BY ONLY <1>1, <1>2, <1>3, Zenon DEF Slice
<1>5. CASE offset + 1 > m
  <2>1. t = <<>>
    <3>1. offset + 1 \in Int /\ m \in Int /\ m < offset + 1
      BY <1>5
    <3>q. QED BY ONLY <1>3, <3>1, SubSeqEmpty
  <2>2. ToSet(t) = {} /\ t \in Seq(R)
    BY <2>1 DEF ToSet
  <2>3. \A p \in 1..Len(s) : ~(offset < p /\ p <= offset + limit)
    BY ONLY <1>1, <1>2, <1>5, n \in Nat, offset \in Nat, limit \in Nat
  <2>q. QED BY ONLY <1>4, <2>1, <2>2, <2>3, Zenon DEF PageOf
<1>6. CASE offset + 1 <= m
  <2>1. offset + 1 \in 1..n /\ m \in 1..n /\ m <= offset + limit
    BY ONLY <1>2, <1>6, n \in Nat, offset \in Nat, limit \in Nat
  <2>2. t \in Seq(R) /\ Len(t) = m - offset /\ \A i \in 1..(m - offset) : t[i] = s[offset + i]
    BY ONLY <1>1, <1>3, <1>6, <2>1, s \in Seq(R), n \in Nat, offset \in Nat
  <2>3. ToSet(t) = {t[i] : i \in 1..(m - offset)}
    BY ONLY <2>2 DEF ToSet
  <2>4. ASSUME NEW e \in ToSet(t) PROVE \E p \in 1..Len(s) : p <= offset + limit /\ s[p] = e
    <3>1. PICK i \in 1..(m - offset) : e = t[i]
      BY ONLY <2>3, e \in ToSet(t), Zenon
    <3>2. offset + i \in 1..n /\ offset + i <= offset + limit
      BY ONLY <2>1, i \in 1..(m - offset), n \in Nat, offset \in Nat, limit \in Nat
    <3>q. QED BY ONLY <1>1, <2>2, <3>1, <3>2, Zenon
  <2>5. ToSet(s) = {s[p] : p \in 1..Len(s)}
    BY DEF ToSet
  <2>6. ToSet(t) \subseteq ToSet(s)
    BY ONLY <2>4, <2>5
  <2>7. ASSUME NEW p \in 1..Len(s), offset < p, p <= offset + limit PROVE s[p] \in ToSet(t)
    <3>1. PICK i : i = p - offset
      OBVIOUS
    <3>2. i \in 1..(m - offset) /\ offset + i = p
      BY ONLY <1>1, <1>2, <2>7, <3>1, n \in Nat, offset \in Nat, limit \in Nat
    <3>3. t[i] = s[p]
      BY ONLY <2>2, <3>2, Zenon
    <3>q. QED BY ONLY <2>3, <3>2, <3>3, Zenon
  <2>8. ~(offset > Len(s))
    BY ONLY <1>1, <2>1, n \in Nat, offset \in Nat
  <2>q. QED BY ONLY <1>4, <2>4, <2>6, <2>7, <2>8, Zenon DEF PageOf
<1>q. QED BY <1>5, <1>6

\* The first elements of a piece of a sequence.
LEMMA FirstOfPiece ==
  ASSUME NEW R, NEW s \in Seq(R), NEW i \in 1..Len(s), NEW n \in 1..Len(s), NEW k \in 1..(n - i + 1)
  PROVE  SubSeq(SubSeq(s, i, n), 1, k) = SubSeq(s, i, i + k - 1)
<1>1. PICK t : t = SubSeq(s, i, n)
  OBVIOUS
<1>2. t \in Seq(R) /\ Len(t) = n - i + 1 /\ \A j \in 1..(n - i + 1) : t[j] = s[i + j - 1]
  BY <1>1
<1>3. PICK u : u = SubSeq(t, 1, k)
  OBVIOUS
<1>4. u \in Seq(R) /\ Len(u) = k /\ \A j \in 1..k : u[j] = t[j]
  BY ONLY <1>2, <1>3, k \in 1..(n - i + 1), i \in 1..Len(s), n \in 1..Len(s), s \in Seq(R)
<1>5. PICK v : v = SubSeq(s, i, i + k - 1)
  OBVIOUS
<1>6. v \in Seq(R) /\ Len(v) = k /\ \A j \in 1..k : v[j] = s[i + j - 1]
  BY <1>5
<1>7. \A j \in 1..Len(u) : u[j] = v[j]
  <2>1. Len(s) \in Nat
    BY ONLY s \in Seq(R)
  <2>2. \A j \in 1..k : j \in 1..(n - i + 1)
    BY ONLY <2>1, k \in 1..(n - i + 1), i \in 1..Len(s), n \in 1..Len(s)
  <2>3. \A j \in 1..k : u[j] = v[j]
    BY ONLY <1>2, <1>4, <1>6, <2>2, Zenon
  <2>q. QED BY ONLY <1>4, <2>3, Zenon
<1>8. u = v
  BY ONLY <1>4, <1>6, <1>7, SeqEqual
<1>q. QED BY ONLY <1>1, <1>3, <1>5, <1>8, Zenon

\* What either backend lists of the same rows.
LEMMA PagesAgree ==
  ASSUME NEW R, NEW rows \in Seq(R), NEW projects, NEW offset \in Int, NEW limit \in Int
  PROVE  Agree(rows, projects, offset, limit, ListSQLite(rows, projects, offset, limit),
                                              ListPG(rows, projects, offset, limit))
<1>1. PICK rev, n : rev = Reverse(rows) /\ n = Len(rows)
  OBVIOUS
<1>2. rev \in Seq(R) /\ Len(rev) = n /\ n \in Nat /\ \A i \in 1..n : rev[i] = rows[n - i + 1]
  BY <1>1 DEF Reverse
<1>3. PICK kept : kept = OfProjects(rev, projects)
  OBVIOUS
<1>4. /\ kept \in Seq(R) /\ \A e \in ToSet(kept) : Asked(projects, e)
      /\ \A j \in 1..n : Asked(projects, rev[j]) => \E p \in 1..Len(kept) : p <= j /\ kept[p] = rev[j]
      /\ (\A i \in 1..n : Asked(projects, rev[i])) => kept = rev
  <2>1. Keeps(R, rev, projects, kept)
    BY ONLY <1>2, <1>3, KeptIs, Zenon
  <2>q. QED BY ONLY <1>2, <2>1, Zenon DEF Keeps
<1>5. PICK others : others = Others(rows, projects)
  OBVIOUS
<1>6. \A i \in 1..n : rev[i] \in ToSet(rows)
  <2>1. ASSUME NEW i \in 1..n PROVE n - i + 1 \in 1..n
    BY ONLY <1>2
  <2>2. ToSet(rows) = {rows[i] : i \in 1..n}
    BY <1>1 DEF ToSet
  <2>q. QED BY ONLY <1>2, <2>1, <2>2, Zenon
<1>7. \A e : e \in others <=> e \in ToSet(rows) /\ ~ Asked(projects, e)
  BY ONLY <1>5 DEF Others
<1>8. PICK size \in Nat : size = (IF limit <= 0 THEN DefaultLimit ELSE limit) /\ size > 0
  BY DefaultLimitAssumption
<1>9. PICK sqlite, pg : sqlite = ListSQLite(rows, projects, offset, limit) /\ pg = ListPG(rows, projects, offset, limit)
  OBVIOUS
<1>10. pg = IF offset < 0 THEN Fails ELSE Slice(kept, offset, size)
  BY ONLY <1>1, <1>3, <1>8, <1>9, Zenon DEF ListPG
<1>11. CASE offset < 0
  <2>1. ~(offset > Len(rows))
    BY <1>1, <1>2, <1>11
  <2>2. sqlite = Panics
    BY ONLY <1>9, <1>11, <2>1 DEF ListSQLite
  <2>q. QED BY ONLY <1>9, <1>10, <1>11, <2>2, Zenon DEF Agree
<1>12. CASE ~(offset < 0)
  <2>0. offset \in Nat
    BY <1>12
  <2>1. pg = Slice(kept, offset, size)
    BY ONLY <1>10, <1>12, Zenon
  <2>a. PageOf(kept, offset, size, pg)
    BY ONLY <1>4, <2>0, <2>1, size \in Nat, SliceIs, Zenon
  <2>2. ToSet(pg) \cap others = {}
    <3>1. ToSet(pg) \subseteq ToSet(kept)
      BY ONLY <2>a, Zenon DEF PageOf
    <3>q. QED BY ONLY <1>4, <1>7, <3>1, Zenon
  <2>3. PICK all \in Nat : all = IF limit > 0 THEN limit ELSE n
    BY <1>2
  <2>4. sqlite = IF offset > n THEN <<>> ELSE Slice(rev, offset, all)
    BY ONLY <1>1, <1>9, <1>12, <2>3 DEF ListSQLite
  <2>b. PageOf(rev, offset, all, Slice(rev, offset, all))
    BY ONLY <1>2, <2>0, all \in Nat, SliceIs, Zenon
  <2>5. sqlite = Slice(rev, offset, all)
    <3>1. offset > n => Slice(rev, offset, all) = <<>>
      BY ONLY <1>2, <2>b, Zenon DEF PageOf
    <3>q. QED BY ONLY <2>4, <3>1, Zenon
  <2>6. others = {} => kept = rev
    BY ONLY <1>4, <1>6, <1>7, Zenon
  <2>7. ASSUME others = {}, limit > 0 PROVE sqlite = pg
    <3>1. all = limit /\ size = limit
      BY <1>8, <2>3, <2>7
    <3>q. QED BY ONLY <2>1, <2>5, <2>6, <2>7, <3>1, Zenon
  <2>8. ASSUME others = {}, limit <= 0 PROVE pg = SubSeq(sqlite, 1, Min({DefaultLimit, Len(sqlite)}))
    <3>0. all = n /\ size = DefaultLimit /\ DefaultLimit \in Nat
      BY <1>8, <2>3, <2>8
    <3>1. sqlite = SubSeq(rev, offset + 1, n)
      <4>1. Min({offset + n, n}) = n
        <5>1. offset + n \in Int /\ n \in Int /\ (offset + n <= n => offset + n = n)
          BY ONLY <1>2, <2>0
        <5>q. QED BY ONLY <5>1, SmallerIs
      <4>q. QED BY ONLY <1>2, <2>5, <3>0, <4>1, Zenon DEF Slice
    <3>2. pg = SubSeq(rev, offset + 1, Min({offset + size, n}))
      BY ONLY <1>2, <2>1, <2>6, <2>8, Zenon DEF Slice
    <3>3. PICK m \in Nat : m = Min({offset + size, n}) /\ m = IF offset + size <= n THEN offset + size ELSE n
      BY <1>2, <2>0, SmallerIs
    <3>4. CASE offset >= n
      <4>1. sqlite = <<>> /\ pg = <<>>
        <5>1. offset + 1 \in Int /\ n \in Int /\ n < offset + 1 /\ m \in Int /\ m < offset + 1
          BY ONLY <1>2, <1>8, <2>0, <3>3, <3>4
        <5>2. SubSeq(rev, offset + 1, n) = <<>> /\ SubSeq(rev, offset + 1, m) = <<>>
          BY ONLY <5>1, SubSeqEmpty
        <5>q. QED BY ONLY <3>1, <3>2, <3>3, <5>2, Zenon
      <4>2. Min({DefaultLimit, Len(sqlite)}) = 0
        <5>1. Len(sqlite) = 0 /\ 0 \in Int /\ DefaultLimit \in Int /\ (DefaultLimit <= 0 => DefaultLimit = 0)
          BY ONLY <3>0, <4>1
        <5>2. Min({DefaultLimit, 0}) = IF DefaultLimit <= 0 THEN DefaultLimit ELSE 0
          BY ONLY <5>1, SmallerIs
        <5>q. QED BY ONLY <5>1, <5>2, Zenon
      <4>3. PICK k : k = Min({DefaultLimit, Len(sqlite)})
        OBVIOUS
      <4>4. SubSeq(sqlite, 1, k) = <<>>
        <5>1. k = 0
          BY ONLY <4>2, <4>3, Zenon
        <5>2. 1 \in Int /\ k \in Int /\ k < 1
          BY ONLY <5>1
        <5>q. QED BY ONLY <5>2, SubSeqEmpty
      <4>q. QED BY ONLY <4>1, <4>3, <4>4, Zenon
    <3>5. CASE offset < n
      <4>1. Len(sqlite) = n - offset
        BY ONLY <1>2, <2>0, <3>1, <3>5
      <4>2. Min({DefaultLimit, Len(sqlite)}) = m - offset
        <5>1. DefaultLimit \in Int /\ n - offset \in Int
          BY ONLY <1>2, <2>0, <3>0
        <5>2. Min({DefaultLimit, n - offset}) = IF DefaultLimit <= n - offset THEN DefaultLimit ELSE n - offset
          BY ONLY <5>1, SmallerIs
        <5>3. (IF DefaultLimit <= n - offset THEN DefaultLimit ELSE n - offset) = m - offset
          BY ONLY <1>2, <2>0, <3>0, <3>3
        <5>q. QED BY ONLY <4>1, <5>2, <5>3, Zenon
      <4>3. PICK i, k : i = offset + 1 /\ k = m - offset
        OBVIOUS
      <4>4. /\ i \in 1..Len(rev) /\ n \in 1..Len(rev) /\ k \in 1..(n - i + 1)
            /\ i + k - 1 = m
        <5>1. n \in Nat /\ Len(rev) = n /\ m = (IF offset + size <= n THEN offset + size ELSE n) /\ size > 0
          BY ONLY <1>2, <1>8, <3>3, Zenon
        <5>2. 1 <= m - offset /\ m <= n /\ offset + 1 + (m - offset) - 1 = m
          BY ONLY <2>0, <3>5, <5>1, size \in Nat
        <5>q. QED BY ONLY <2>0, <3>5, <4>3, <5>1, <5>2, m \in Nat
      <4>5. SubSeq(SubSeq(rev, i, n), 1, k) = SubSeq(rev, i, i + k - 1)
        BY ONLY <1>2, <4>4, FirstOfPiece, Zenon
      <4>q. QED BY ONLY <3>1, <3>2, <3>3, <4>2, <4>3, <4>4, <4>5, Zenon
    <3>6. offset >= n \/ offset < n
      BY ONLY <1>2, <2>0
    <3>q. QED BY ONLY <3>4, <3>5, <3>6, Zenon
  <2>9. ASSUME offset = 0, limit > 0 PROVE ToSet(sqlite) \ others \subseteq ToSet(pg)
    <3>1. SUFFICES ASSUME NEW e \in ToSet(sqlite), e \notin others PROVE e \in ToSet(pg)
      OBVIOUS
    <3>2. all = limit /\ size = limit
      BY <1>8, <2>3, <2>9
    <3>4. PICK p \in 1..n : p <= offset + all /\ rev[p] = e
      BY ONLY <1>2, <2>5, <2>b, <3>1, Zenon DEF PageOf
    <3>5. Asked(projects, rev[p])
      BY ONLY <1>6, <1>7, <3>1, <3>4, Zenon
    <3>6. PICK k \in 1..Len(kept) : k <= p /\ kept[k] = e
      BY ONLY <1>4, <3>4, <3>5, Zenon
    <3>7. offset < k /\ k <= offset + size
      <4>1. Len(kept) \in Nat
        BY ONLY <1>4
      <4>q. QED BY ONLY <1>2, <2>9, <3>2, <3>4, <3>6, <4>1, size \in Nat
    <3>q. QED BY ONLY <2>a, <3>6, <3>7, Zenon DEF PageOf
  <2>q. QED BY ONLY <1>5, <1>9, <1>12, <2>2, <2>7, <2>8, <2>9, Zenon DEF Agree
<1>q. QED BY ONLY <1>11, <1>12, Zenon

\* For repositories of any depth and any limit of the host, pull requests and
\* pages of any size and any number of supergroups: every file below a listed
\* directory is read, pull requests are whole up to the last page read, and
\* the backends' pages differ only as BackendsAgree says.
THEOREM ListingsWhole == Spec => []ListingsAreWhole
<1>1. ASSUME IInv PROVE ListingsAreWhole
  <2>0. Domains /\ Computed
    BY <1>1 DEF IInv
  <2>1. ListedDirectoriesAreRead
    <3>0. SUFFICES ASSUME fn = "ReadTree", out # Pending PROVE ListedDirectoriesAreRead
      BY DEF ListedDirectoriesAreRead, Has
    <3>1. TreeInput(in) /\ out = ReadTree(in.tree, in.limit)
      BY <2>0, <3>0 DEF Domains, Computed
    <3>2. in.tree \in Repositories /\ in.limit \in 1 .. Cardinality(in.tree) + 1
      BY <3>1 DEF TreeInput
    <3>3. Reads(in.tree, in.limit, out)
      <4>1. PICK tree, limit : tree = in.tree /\ limit = in.limit
        OBVIOUS
      <4>2. Reads(tree, limit, ReadTree(tree, limit))
        BY <3>2, <4>1, ReadIs
      <4>q. QED BY ONLY <3>1, <4>1, <4>2, Zenon
    <3>q. QED BY ONLY <3>3, Zenon DEF Reads, ListedDirectoriesAreRead
  <2>2. PRFilesAreWhole
    <3>0. SUFFICES ASSUME fn = "GetPRFiles", out # Pending PROVE PRFilesAreWhole
      BY DEF PRFilesAreWhole, Has
    <3>1. in \in FilesInputs /\ out = GetPRFiles(in.files, in.perPage, in.maxPages)
      BY <2>0, <3>0 DEF Domains, Computed
    <3>2. PICK files, perPage, maxPages : files = in.files /\ perPage = in.perPage /\ maxPages = in.maxPages
      OBVIOUS
    <3>3. perPage \in 1..MaxPages /\ maxPages \in 1..MaxPages /\ files \in {[i \in 1..n |-> i] : n \in 0..MaxRows}
      BY <3>1, <3>2 DEF FilesInputs
    <3>4. perPage \in Nat /\ perPage > 0 /\ maxPages \in Nat /\ maxPages > 0
      BY <3>3, NumbersAssumption
    <3>5. files \in Seq(Nat)
      <4>1. PICK n \in 0..MaxRows : files = [i \in 1..n |-> i]
        BY <3>3
      <4>2. n \in Nat
        BY NumbersAssumption
      <4>q. QED BY <4>1, <4>2
    <3>6. GetPRFiles(files, perPage, maxPages) = SubSeq(files, 1, Min({Len(files), perPage * maxPages}))
      BY ONLY <3>4, <3>5, FilesAreRead
    <3>q. QED BY ONLY <3>1, <3>2, <3>6, Zenon DEF PRFilesAreWhole
  <2>3. BackendsAgree
    <3>0. SUFFICES ASSUME fn = "ListSupergroups", out # Pending PROVE BackendsAgree
      BY DEF BackendsAgree, Has
    <3>1. /\ in \in SupergroupInputs
          /\ out = [sqlite |-> ListSQLite(in.rows, in.projects, Offset(in.offset), Limit(in.limit)),
                    pg |-> ListPG(in.rows, in.projects, Offset(in.offset), Limit(in.limit))]
      BY <2>0, <3>0 DEF Domains, Computed
    <3>2. PICK rows, offset, limit : rows = in.rows /\ offset = Offset(in.offset) /\ limit = Limit(in.limit)
      OBVIOUS
    <3>3. /\ rows \in {Rows(f) : f \in UNION {[1..n -> {1, 2}] : n \in 0..MaxRows}}
          /\ in.offset \in {Absent} \cup (-1 .. MaxRows + 1) /\ in.limit \in {Absent} \cup (-1 .. MaxRows)
      BY <3>1, <3>2 DEF SupergroupInputs
    <3>4. offset \in Int /\ limit \in Int
      BY <3>2, <3>3, NumbersAssumption, DefaultLimitAssumption DEF Offset, Limit
    <3>5. PICK R : rows \in Seq(R)
      <4>1. PICK n \in 0..MaxRows : \E f \in [1..n -> {1, 2}] : rows = Rows(f)
        BY <3>3
      <4>2. PICK f \in [1..n -> {1, 2}] : rows = Rows(f)
        BY <4>1
      <4>3. n \in Nat
        BY NumbersAssumption
      <4>4. Len(f) = n
        BY <4>3
      <4>5. PICK R : R = {[id |-> i, project |-> f[i]] : i \in 1..n}
        OBVIOUS
      <4>6. rows \in [1..n -> R]
        BY ONLY <4>2, <4>4, <4>5, Zenon DEF Rows
      <4>7. rows \in Seq(R)
        BY ONLY <4>3, <4>6
      <4>q. QED BY ONLY <4>7, Zenon
    <3>6. PICK projects, sqlite, pg :
            /\ projects = in.projects /\ sqlite = ListSQLite(rows, projects, offset, limit)
            /\ pg = ListPG(rows, projects, offset, limit)
      OBVIOUS
    <3>7. Agree(rows, projects, offset, limit, sqlite, pg)
      <4>1. Agree(rows, projects, offset, limit, ListSQLite(rows, projects, offset, limit),
                  ListPG(rows, projects, offset, limit))
        BY ONLY <3>4, <3>5, PagesAgree
      <4>q. QED BY ONLY <3>6, <4>1, Zenon
    <3>8. out = [sqlite |-> sqlite, pg |-> pg]
      BY ONLY <3>1, <3>2, <3>6, Zenon
    <3>9. out.sqlite = sqlite /\ out.pg = pg
      BY ONLY <3>8
    <3>10. Agree(in.rows, in.projects, Offset(in.offset), Limit(in.limit), out.sqlite, out.pg)
      BY ONLY <3>2, <3>6, <3>7, <3>9, Zenon
    <3>q. QED BY ONLY <3>10, Zenon DEF Agree, Others, BackendsAgree
  <2>q. QED BY <2>1, <2>2, <2>3 DEF ListingsAreWhole
<1>q. QED BY <1>1, Invariance, PTL
=============================================================================
