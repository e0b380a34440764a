------------------------------ MODULE MCAutofix ------------------------------
(* Three requests about one or two runs with two agents.                   *)
EXTENDS Autofix, TLC

CONSTANTS a1, a2
ReportSets == {{}, {a1}, {a2}}
AgentsAlike == Permutations(Agents)

\* Requests are interchangeable: it is enough to let them arrive in order.
ArriveInOrder ==
  \A p, q \in Requests : (p < q /\ pc[q] # "idle") => pc[p] # "idle"

\* Bound: reports about runs other than the first.
MaxElsewhere == 1
FewElsewhere ==
  Cardinality({q \in Requests : op[q].kind = "store" /\ RunOf(q) # 1}) <= MaxElsewhere

\* Bound: requests in a behaviour with a shutdown.
MaxEnding == 2
FewAtTheEnd == root => Cardinality({q \in Requests : pc[q] # "idle"}) <= MaxEnding
=============================================================================
