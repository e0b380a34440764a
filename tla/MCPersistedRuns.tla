--------------------------- MODULE MCPersistedRuns ---------------------------
(* Two or three requests: creates under one key and commands to the first  *)
(* run, whether it exists, was created for an answer, or not.              *)
EXTENDS PersistedRuns

\* Requests are interchangeable: it is enough to let them arrive in order.
ArriveInOrder ==
  \A p, q \in Requests : (p < q /\ pc[q] # "idle") => pc[p] # "idle"

Begun == {q \in Requests : pc[q] # "idle"}

\* Command ids are interchangeable, too: numbers, used in order.
IdsInOrder ==
  \A q \in Requests : op[q].kind = "command" =>
    \A id \in CommandIds : id < op[q].key => \E p \in Requests : p < q /\ op[p].key = id

\* Bound: tasks in a behaviour, and, when three requests have arrived, commands
\* and tasks together: three commands, or two commands with one task, or one
\* with two tasks.
MaxTasks == 2
MaxWork == 3
LittleWork ==
  LET tasks == Cardinality({q \in Requests : pc[q] \in Tasking \cup {"done"}})
  IN /\ tasks <= MaxTasks
     /\ \/ Cardinality(Begun) <= 2
        \/ Cardinality({q \in Requests : op[q].kind = "command"}) + tasks <= MaxWork

\* Bound: commands that expect a version ahead of the stored one, and only
\* when no create has arrived; a third command then repeats the id of the
\* others.
MaxAhead == 1
FewAhead ==
  LET ahead == {q \in Requests : op[q].expected > 1}
  IN /\ Cardinality(ahead) <= MaxAhead
     /\ \/ ahead = {}
        \/ /\ \A q \in Requests : op[q].kind \notin Creates
           /\ Cardinality(Begun) <= 2 \/ Cardinality({op[q].key : q \in Begun}) = 1

\* Bound: requests in a behaviour that has a create without a key, which no
\* other create looks up.
MaxBesideKeyless == 2
FewBesideKeyless ==
  (\E q \in Requests : op[q].kind \in Creates /\ op[q].key = None) =>
    Cardinality(Begun) <= MaxBesideKeyless

\* Bound: requests in a behaviour with a shutdown.
MaxEnding == 2
FewAtTheEnd == root => Cardinality(Begun) <= MaxEnding

\* Bound: commands with different ids, and only when no create has arrived.
FewIds ==
  LET commanding == {q \in Requests : op[q].kind = "command"}
  IN \/ Cardinality({op[q].key : q \in commanding}) <= 1
     \/ \A q \in Requests : op[q].kind \notin Creates
=============================================================================
