---------------------------- MODULE MCAlgorithms ----------------------------
(* Repositories over two names; pages of two supergroups by default.       *)
EXTENDS Algorithms

Configured == -1 .. 4
\* About the ends of the range and about the steps of rounding.
SomeSeverities == {-5, 0, 4, 5, 994, 995, 1000, 1001}
SomeFixabilities == {-1, 0, 100, 101}
SomeLengths == {0, 1, 60, 61}
=============================================================================
