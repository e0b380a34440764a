---------------------------- MODULE MCCodeIndex ----------------------------
(* Three requests of any kind about one repository, which requests name    *)
(* with or without its provider, in an organization or in none (number 0,  *)
(* whose index is one of its own).                                         *)
EXTENDS CodeIndex, TLC

PathsAlike == Permutations(Paths)
MCRepos == {[provider |-> p, name |-> "widget"] : p \in {"", "github"}}

\* Requests are interchangeable: it is enough to let them arrive in order.
ArriveInOrder ==
  \A p, q \in Requests : (p < q /\ pc[q] # "idle") => pc[p] # "idle"

\* Bound: preferences and index meet in RemovedSet only.  A behaviour has
\* edits of any preferences, one request about the index after one edit, or
\* requests about the index and no preferences.
Either ==
  LET indexing == Cardinality(Of("index") \cup Of("offboard"))
      edits == Cardinality(Of("remove") \cup Of("handoffs"))
  IN \/ indexing = 0
     \/ indexing = 1 /\ edits <= 1
     \/ edits = 0 /\ was[1] = None

\* Bound: one request is of no organization or leaves its provider out.
OneOdd ==
  LET bare == {q \in Of("index") \cup Of("offboard") : RepoOf(q).provider = ""}
  IN Cardinality(bare \cup {q \in Requests : op[q].kind # "none" /\ op[q].org # 1}) <= 1

\* Bound: requests in a behaviour with a shutdown, which stops tasks only.
MaxEnding == 2
FewAtTheEnd ==
  root => Of("index") # {} /\ Cardinality({q \in Requests : pc[q] # "idle"}) <= MaxEnding
=============================================================================
