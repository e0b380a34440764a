------------------------------ MODULE MCGitHub ------------------------------
(* Four writers of a main branch and a second one, with two files.         *)
EXTENDS GitHub, TLC

PathsAlike == Permutations(Paths)

\* Requests are interchangeable: it is enough to let them arrive in order.
ArriveInOrder ==
  \A p, q \in Requests : (p < q /\ pc[q] # "idle") => pc[p] # "idle"

\* Bound: branches created, and commits beside two of them: a branch that is
\* created, deleted and created again under two racing commits, or three
\* commits.
MaxBranchings == 2
Few ==
  LET branchings == Cardinality({q \in Requests : op[q].kind = "branch"})
      commitments == Cardinality({q \in Requests : op[q].kind = "commit"})
  IN branchings <= MaxBranchings /\ (branchings + commitments <= 3 \/ commitments <= 2)
=============================================================================
