------------------------------- MODULE Replies -------------------------------
(***************************************************************************)
(* The endpoints that answer from one completion and keep no state: issue  *)
(* and trace summaries, fixability, severity, feedback, one-shot tasks and *)
(* unit tests.  Each asks the model, takes from the answer what it can     *)
(* decode and fills in the rest, or reports the model's failure.           *)
(*                                                                         *)
(* A completion is Down (the call failed), Garbage (no value of the shape  *)
(* that is expected can be decoded) or a record with the value of each     *)
(* field, Missing when it is absent or blank.  A reply is Error or a       *)
(* record; texts are named after where they come from.                     *)
(***************************************************************************)
EXTENDS Integers, Sequences, SequencesExt

CONSTANTS Down, Garbage, Missing, Error

ASSUME CompletionsAssumption == Down # Garbage /\ Down # <<>>

\* firstNonEmpty: the first of two texts that is not blank.
firstNonEmpty(value, default) == IF value = Missing THEN default ELSE value
Clamp(score, top) == Max({0, Min({score, top})})

-----------------------------------------------------------------------------
NoTrace == "Trace context was not provided."
HasTrace == "Trace context is available and should be reviewed."

IssueTitle(request) == firstNonEmpty(request.title, firstNonEmpty(request.culprit, "Issue summary"))

\* Mutant of SummarizeIssue: a trace the model has written is left as it is.
SummarizeIssueTrusting(request, c) ==
  LET title == IssueTitle(request)
      trace == IF request.trace_tree THEN HasTrace ELSE NoTrace
  IN CASE c = Down -> Error
       [] c = Garbage -> [headline |-> title, whats_wrong |-> title, trace |-> trace]
       [] OTHER -> [headline |-> firstNonEmpty(c.headline, title),
                    whats_wrong |-> firstNonEmpty(c.whats_wrong, title),
                    trace |-> firstNonEmpty(c.trace, trace)]
\* Without an answer that can be decoded the summary is made of the title.
SummarizeIssue(request, c) ==
  LET title == IssueTitle(request)
      Trace(t) == IF request.trace_tree /\ t = NoTrace THEN HasTrace ELSE t
  IN CASE c = Down -> Error
       [] c = Garbage -> [headline |-> title, whats_wrong |-> title, trace |-> Trace(NoTrace)]
       [] OTHER -> [headline |-> firstNonEmpty(c.headline, title),
                    whats_wrong |-> firstNonEmpty(c.whats_wrong, title),
                    trace |-> Trace(firstNonEmpty(c.trace, NoTrace))]

\* Scores in hundredths.  A score the model leaves out is decoded as zero;
\* one outside 0..1 is replaced.
Fixability(c) ==
  IF c \in {Down, Garbage} THEN [score |-> 61, is_fixable |-> TRUE]
  ELSE LET score == firstNonEmpty(c.score, 0)
       IN [score |-> IF score < 0 \/ score > 100 THEN 61 ELSE score,
           is_fixable |-> firstNonEmpty(c.is_fixable, TRUE)]

\* A trace summary never fails on the model's account; an empty list of
\* suggestions is replaced by the fixed one.
SummarizeTrace(c) ==
  IF c \in {Down, Garbage} THEN [summary |-> "inspect", suggested |-> <<"span">>]
  ELSE [summary |-> firstNonEmpty(c.summary, "inspect"),
        suggested |-> IF c.suggested = <<>> THEN <<"span">> ELSE c.suggested]

-----------------------------------------------------------------------------
\* How many of the six alarming words the message has, a stack trace, and
\* whether the error was handled.
heuristicScore(request) ==
  Clamp(25 + 18 * request.tokens + (IF request.stacktrace THEN 15 ELSE 0)
        + (CASE request.handled = Missing -> 0 [] request.handled = TRUE -> -5 [] OTHER -> 15), 100)

\* The model's score, here in thousandths, is clamped and rounded.
Score(request, c) ==
  IF c \in {Down, Garbage} \/ c = Missing THEN heuristicScore(request)
  ELSE (Clamp(c, 1000) + 5) \div 10

-----------------------------------------------------------------------------
\* Texts by their length in runes, blank ones 0.
TitleLength == 60
truncateTitle(length) == Min({length, TitleLength})
\* ("User feedback" has 13.)
DeriveFeedbackTitle(lines) ==
  LET written == {i \in 1..Len(lines) : lines[i] > 0}
  IN IF written = {} THEN 13 ELSE truncateTitle(lines[Min(written)])
Title(lines, c) ==
  IF c \in {Down, Garbage} \/ c = 0 THEN DeriveFeedbackTitle(lines) ELSE truncateTitle(c)

\* The model's groups, or each label for itself.
LabelGroups(labels, c) ==
  CASE c = Down -> Error
    [] c = Garbage \/ c = <<>> -> [i \in 1..Len(labels) |-> [primary |-> labels[i], associated |-> {}]]
    [] OTHER -> [i \in 1..Len(c) |-> [c[i] EXCEPT !.associated = firstNonEmpty(@, {})]]

-----------------------------------------------------------------------------
\* One-shot: objects by name; the payload may be absent.  A text that is no
\* object, and an echo of the payload, go under the key of the task.
OneShotKey(id) == IF id = "conversation_title" THEN "title" ELSE "answer"

OneShot(id, payload, c) ==
  CASE c = Down -> Error
    [] c = Garbage \/ c = payload -> [key |-> OneShotKey(id)]
    [] OTHER -> [object |-> c]

\* Mutant of UnitTests: any failure to fetch the pull request is acknowledged.
UnitTestsLenient(repo, pr, files, c) ==
  LET nothing == repo = "incomplete" \/ pr # "found" \/ files \in {"not_found", "none"}
  IN IF nothing THEN [tests |-> Missing]
     ELSE IF files = "failed" \/ c = Down THEN Error ELSE [tests |-> c]
\* Without a provider, a whole repository name, a pull request or files in it
\* there is nothing to test, and that is a success.  The files are fetched
\* after the pull request, the model is asked last.
UnitTests(repo, pr, files, c) ==
  LET nothing == \/ repo = "incomplete"
                 \/ pr = "not_found"
                 \/ pr = "found" /\ files \in {"not_found", "none"}
  IN IF nothing THEN [tests |-> Missing]
     ELSE IF pr = "failed" \/ files = "failed" \/ c = Down THEN Error ELSE [tests |-> c]
=============================================================================
