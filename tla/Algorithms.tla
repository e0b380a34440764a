----------------------------- MODULE Algorithms -----------------------------
(***************************************************************************)
(* The sequential functions of Text, Listings and Replies, each applied to *)
(* every input within the bounds and held against a definition of what it  *)
(* should compute.  A behaviour is one call: its input is chosen, then its *)
(* answer is worked out.                                                   *)
(***************************************************************************)
EXTENDS Text, Listings, Replies

CONSTANTS
  MaxFile,      \* bound: the runes of a file that is cut into chunks
  FileSizes,    \* bound: the configured chunk sizes and overlaps
  MaxRows,      \* bound: files of a pull request, supergroups of an
                \* organization, lines of a message
  MaxPages,     \* bound: the files of a page and the pages that are read
  MaxDepth,     \* bound: the depth of a repository
  Severities, Fixabilities,   \* bound: the scores a model gives
  Lengths,      \* bound: the lengths of a line and of a title a model gives
  Pending       \* a call that has not answered

ASSUME NumbersAssumption ==
  /\ MaxFile \in Nat /\ FileSizes \subseteq Int /\ MaxRows \in Nat
  /\ MaxPages \in Nat /\ MaxDepth \in Nat
  /\ Severities \subseteq Int /\ Fixabilities \subseteq Int /\ Lengths \subseteq Nat

\* Texts of requests, of completions and of the service itself.
Texts == {"title", "culprit", "model", "Issue summary", "inspect", NoTrace, HasTrace}
ASSUME MissingAssumption == Missing \notin Texts /\ Missing # {} /\ Missing # {"l2"}
ASSUME ErrorAssumption == Error \notin [tests : {Missing, "tests"}]

VARIABLES fn, in, out      \* the function, its arguments, its answer

vars == <<fn, in, out>>

\* Every repository of some depth: sets of paths, closed under prefixes.
Locations == UNION {[1..n -> Names] : n \in 1..MaxDepth}
Repositories == {t \in SUBSET Locations : \A p \in t : Len(p) > 1 => Front(p) \in t}
Rows(f) == [i \in 1..Len(f) |-> [id |-> i, project |-> f[i]]]
Answers(records) == {Down, Garbage} \cup records

ChunkInputs ==
  [text : UNION {[1..n -> {"x", " ", Newline}] : n \in 0..MaxFile}, size : FileSizes, overlap : FileSizes]
ExtractInputs == [text : UNION {[1..n -> Characters] : n \in 0..MaxText}, kind : Opener]
FilesInputs ==
  [files : {[i \in 1..n |-> i] : n \in 0..MaxRows}, perPage : 1..MaxPages, maxPages : 1..MaxPages]
SupergroupInputs ==
  [rows : {Rows(f) : f \in UNION {[1..n -> {1, 2}] : n \in 0..MaxRows}}, projects : SUBSET {1, 2},
   offset : {Absent} \cup (-1 .. MaxRows + 1), limit : {Absent} \cup (-1 .. MaxRows)]
IssueInputs ==
  [request : [title : {Missing, "title"}, culprit : {Missing, "culprit"}, trace_tree : BOOLEAN],
   c : Answers([headline : {Missing, "model"}, whats_wrong : {Missing, "model"},
                trace : {Missing, "model", NoTrace}])]
TraceInputs == [c : Answers([summary : {Missing, "model"}, suggested : {<<>>, <<"model">>}])]
LabelInputs ==
  [labels : {<<>>, <<"l1">>, <<"l1", "l2">>},
   c : Answers({<<>>} \cup {<<g>> : g \in [primary : {Missing, "l1"}, associated : {Missing, {"l2"}}]})]
OneShotInputs ==
  [id : {"conversation_title", "agent_question"}, payload : {Missing, "o1", "o2"},
   c : Answers({"o1", "o2"})]
UnitTestInputs ==
  [repo : {"incomplete", "named"}, pr : {"found", "not_found", "failed"},
   files : {"some", "none", "not_found", "failed"}, c : {Down, "tests"}]
ScoreInputs ==
  [request : [tokens : 0..6, stacktrace : BOOLEAN, handled : BOOLEAN \cup {Missing}],
   severity : Answers({Missing} \cup Severities),
   fixability : Answers([score : {Missing} \cup Fixabilities, is_fixable : BOOLEAN \cup {Missing}])]
TitleInputs == [lines : UNION {[1..n -> Lengths] : n \in 0..MaxRows}, c : Answers(Lengths)]

Init ==
  /\ out = Pending
  /\ \/ fn = "chunkText" /\ in \in ChunkInputs
     \/ fn = "ExtractJSON" /\ in \in ExtractInputs
     \/ /\ fn = "ReadTree"
        /\ \E tree \in Repositories : \E limit \in 1 .. Cardinality(tree) + 1 :
             in = [tree |-> tree, limit |-> limit]
     \/ fn = "GetPRFiles" /\ in \in FilesInputs
     \/ fn = "ListSupergroups" /\ in \in SupergroupInputs
     \/ fn = "SummarizeIssue" /\ in \in IssueInputs
     \/ fn = "SummarizeTrace" /\ in \in TraceInputs
     \/ fn = "LabelGroups" /\ in \in LabelInputs
     \/ fn = "OneShot" /\ in \in OneShotInputs
     \/ fn = "UnitTests" /\ in \in UnitTestInputs
     \/ fn = "Scores" /\ in \in ScoreInputs
     \/ fn = "Title" /\ in \in TitleInputs

Answer(f, answer) == fn = f /\ out = Pending /\ out' = answer /\ UNCHANGED <<fn, in>>

RunChunkText ==
  Answer("chunkText",
    LET s == Sizes(in.size, in.overlap) IN chunkText(in.text, s.size, s.overlap))
RunExtractJSON == Answer("ExtractJSON", ExtractJSON(in.text, in.kind))
RunReadTree == Answer("ReadTree", ReadTree(in.tree, in.limit))
RunGetPRFiles == Answer("GetPRFiles", GetPRFiles(in.files, in.perPage, in.maxPages))
RunListSupergroups ==
  Answer("ListSupergroups",
    [sqlite |-> ListSQLite(in.rows, in.projects, Offset(in.offset), Limit(in.limit)),
     pg |-> ListPG(in.rows, in.projects, Offset(in.offset), Limit(in.limit))])
RunSummarizeIssue == Answer("SummarizeIssue", SummarizeIssue(in.request, in.c))
RunSummarizeTrace == Answer("SummarizeTrace", SummarizeTrace(in.c))
RunLabelGroups == Answer("LabelGroups", LabelGroups(in.labels, in.c))
RunOneShot == Answer("OneShot", OneShot(in.id, in.payload, in.c))
RunUnitTests == Answer("UnitTests", UnitTests(in.repo, in.pr, in.files, in.c))
RunScores ==
  Answer("Scores", [severity |-> Score(in.request, in.severity), fixability |-> Fixability(in.fixability)])
RunTitle == Answer("Title", Title(in.lines, in.c))

Answered == out # Pending /\ UNCHANGED vars

Next ==
  \/ RunChunkText \/ RunExtractJSON
  \/ RunReadTree \/ RunGetPRFiles \/ RunListSupergroups
  \/ RunSummarizeIssue \/ RunSummarizeTrace \/ RunLabelGroups
  \/ RunOneShot \/ RunUnitTests \/ RunScores \/ RunTitle
  \/ Answered

Spec == Init /\ [][Next]_vars

Has(f) == fn = f /\ out # Pending

-----------------------------------------------------------------------------
\* chunkText: every rune that is not blank is in some chunk, no chunk exceeds
\* the size in force, and each brings a rune that no earlier one has, so that
\* a file is embedded whole and nothing only because the loop ran on.
ChunksCoverTheFile ==
  Has("chunkText") =>
    LET Runes(i) == out[i].from .. out[i].to
        chunks == 1..Len(out)
    IN /\ \A p \in 1..Len(in.text) :
            in.text[p] \in {Newline, " "} \/ \E i \in chunks : p \in Runes(i)
       /\ \A i \in chunks :
            /\ Cardinality(Runes(i)) \in 1..Sizes(in.size, in.overlap).size
            /\ \A j \in 1 .. i - 1 : ~ (Runes(i) \subseteq Runes(j))

\* chunkText: the line span stored with a chunk, by which search results are
\* shown, is that of its runes, reaching one line further only when the
\* chunk's last rune is a newline.
ChunkSpansAreItsLines ==
  Has("chunkText") =>
    LET Line(p) == 1 + Cardinality({i \in 1 .. p - 1 : in.text[i] = Newline})
    IN \A i \in 1..Len(out) :
         LET lines == {Line(p) : p \in out[i].from .. out[i].to}
             opened == IF in.text[out[i].to] = Newline THEN {Line(out[i].to) + 1} ELSE {}
         IN out[i].startLine .. out[i].endLine = lines \cup opened

\* chunkText: the chunks are the file, in text and in line numbers.
ChunksAreTheFile == ChunksCoverTheFile /\ ChunkSpansAreItsLines

\* Where a complete value that begins at s ends, by JSON's grammar; where the
\* complete objects and arrays begin; and the first of them.
EndsOf(text, s) == {e \in s .. Len(text) : SubSeq(text, s, e) \in Values}
Begins(text) == {s \in 1..Len(text) : text[s] \in Opener /\ EndsOf(text, s) # {}}
FirstComplete(text) ==
  IF Begins(text) = {} THEN NoValue ELSE <<Min(Begins(text)), Min(EndsOf(text, Min(Begins(text))))>>

\* ExtractJSON: what is decoded is, by JSON's grammar and not by counting
\* brackets, the first complete object or array of the completion, whatever
\* brackets its strings hold, and it is of the kind asked for.  It is found
\* whenever no bracket comes before it.
DecodesTheFirstValue ==
  Has("ExtractJSON") =>
    LET first == FirstComplete(in.text)
        Leads == \A i \in 1 .. first[1] - 1 : in.text[i] \notin Opener
    IN /\ out # NoValue => out = first /\ in.text[first[1]] = in.kind
       /\ first # NoValue => (Leads /\ in.text[first[1]] = in.kind => out = first)

\* llm/json.go: "ExtractJSON decodes the first complete JSON object or array
\* found in a model completion into out", also when a bracket of the prose
\* around it comes first.
FirstCompleteIsDecoded ==
  Has("ExtractJSON") =>
    LET first == FirstComplete(in.text)
    IN first # NoValue => (in.text[first[1]] = in.kind => out = first)

\* ReadTree: a listing that the host did not truncate yields each path once;
\* of a truncated one, no file is missing below any directory it lists (a
\* directory within a listed one is walked again, and its files come twice).
ListedDirectoriesAreRead ==
  Has("ReadTree") =>
    LET root == Root(in.tree, in.limit)
    IN /\ ~ root.truncated => Len(out) = Cardinality(in.tree) /\ {e.path : e \in ToSet(out)} = in.tree
       /\ \A d \in ToSet(Trees(root.entries)), f \in Files(in.tree) :
            IsStrictPrefix(d.sha, f) => f \in {e.sha : e \in ToSet(out)}

\* git/github.go: "ReadTree returns the full recursive tree for a ref";
\* "truncated results are completed": each file has its path in the result.
TreeIsComplete ==
  Has("ReadTree") => Files(in.tree) \subseteq {e.path : e \in ToSet(out)}

\* GetPRFiles: the files come in order, each once, and all of them unless
\* they fill more pages than the client is willing to read.
PRFilesAreWhole ==
  Has("GetPRFiles") => out = SubSeq(in.files, 1, Min({Len(in.files), in.perPage * in.maxPages}))

\* ListSupergroups: how far the two vector stores answer a request alike.
\* Neither has a page for a negative offset: SQLite panics, PostgreSQL reports
\* an error.  PostgreSQL lists only projects asked for.  If all rows are of
\* those, the pages are the same, but for a limit of zero or less SQLite goes
\* on where PostgreSQL stops after the default.  If they are not, SQLite's
\* first page has others in between, and what it has of the projects asked
\* for is on PostgreSQL's.
BackendsAgree ==
  Has("ListSupergroups") =>
    LET offset == Offset(in.offset)
        limit == Limit(in.limit)
        others == {r \in ToSet(in.rows) : ~ Asked(in.projects, r)}
    IN IF offset < 0 THEN out.sqlite = Panics /\ out.pg = Fails
       ELSE /\ ToSet(out.pg) \cap others = {}
            /\ others = {} /\ limit > 0 => out.sqlite = out.pg
            /\ others = {} /\ limit <= 0 =>
                 out.pg = SubSeq(out.sqlite, 1, Min({DefaultLimit, Len(out.sqlite)}))
            /\ offset = 0 /\ limit > 0 => ToSet(out.sqlite) \ others \subseteq ToSet(out.pg)

\* The listings that are put together from several answers or rows.  No file
\* is lost below a listed directory or at the edge of a page up to the last
\* page read; an untruncated tree and a pull request have no file twice; and
\* the vector stores differ in their pages only as BackendsAgree says.
ListingsAreWhole == ListedDirectoriesAreRead /\ PRFilesAreWhole /\ BackendsAgree

\* SummarizeIssue: an issue sent with its trace is never summarized as having
\* none, not even in the words of the model.
TraceIsNotDenied ==
  Has("SummarizeIssue") => (out # Error /\ in.request.trace_tree => out.trace # NoTrace)

\* The texts of the summaries, the suggestions of a trace summary and the
\* associated labels of a group are there, whichever fields the model leaves
\* out; groups that are made without the model name all the labels.  (Those
\* of the model are passed on with the primary labels it gave, or left out.)
RepliesAreFilled ==
  /\ Has("SummarizeIssue") =>
       (out # Error => Missing \notin {out.headline, out.whats_wrong, out.trace})
  /\ Has("SummarizeTrace") => out.summary # Missing /\ out.suggested # <<>>
  /\ Has("LabelGroups") =>
       (out # Error =>
         /\ \A i \in 1..Len(out) : out[i].associated # Missing
         /\ in.c = Garbage => {g.primary : g \in ToSet(out)} = ToSet(in.labels))

\* A one-shot result is never the request's own payload handed back.
EchoIsNoResult == Has("OneShot") => (out # Error => out # [object |-> in.payload])

\* A unit-test request that nothing came of is acknowledged only when there
\* was nothing to test: neither a failing host nor a failing model is hidden
\* behind the acknowledgement.
FailuresAreNotAcknowledged ==
  Has("UnitTests") =>
    LET fetched == in.repo = "named" /\ in.pr = "found"
        failed == \/ in.repo = "named" /\ in.pr = "failed"
                  \/ fetched /\ in.files = "failed"
                  \/ fetched /\ in.files = "some" /\ in.c = Down
    IN failed <=> out = Error

\* Severity and fixability are shares of one, whatever numbers the model
\* gives and however many alarming words the message has.
ScoresAreShares ==
  Has("Scores") => out.severity \in 0..100 /\ out.fixability.score \in 0..100

\* A feedback title is never empty and at most 60 runes, whoever wrote it.
TitlesFit == Has("Title") => out \in 1..TitleLength

\* Whatever the model answers, or fails to: a summary does not deny a trace
\* that was sent and lacks none of its texts, label groups have their lists,
\* a one-shot result is no echo, and scores and titles are within bounds.
RepliesCanBeShown ==
  /\ TraceIsNotDenied
  /\ RepliesAreFilled
  /\ EchoIsNoResult
  /\ ScoresAreShares
  /\ TitlesFit
=============================================================================
