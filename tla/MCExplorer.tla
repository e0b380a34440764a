----------------------------- MODULE MCExplorer -----------------------------
(* Three requests on one run: one starts it, the others race its task.     *)
EXTENDS Explorer

\* dropLoadingBlocks is the loop it stands for, on every short list.
SomeBlocks == UNION {[1..n -> {User(1), makeLoadingBlock, Answer(2)}] : n \in 0..5}
ASSUME DropIsTheLoop ==
  \A blocks \in SomeBlocks :
    dropLoadingBlocks(blocks) = SelectSeq(blocks, LAMBDA b : ~b.loading)

\* Requests are interchangeable: it is enough to let them arrive in order.
ArriveInOrder ==
  \A p, q \in Requests : (p < q /\ pc[q] # "idle") => pc[p] # "idle"

\* Bound: a process that was restarted is not shut down again; its shutdown
\* is that of a first process which finds an older row.
OneEnding == ~(root /\ restarts = MaxRestarts)

\* Bound: the shutdown finds or leaves at most two requests, and at most two
\* are of the process that was restarted or had ended before that.
Begun == {q \in Requests : pc[q] # "idle"}
MaxEnding == 2
FewAtTheEnd ==
  /\ root => Cardinality(Begun) <= MaxEnding
  /\ restarts > 0 => Cardinality({q \in Begun : pc[q] # "dead"}) <= MaxEnding
=============================================================================
