------------------------------- MODULE MCWorker -------------------------------
(* Standalone jobs, and two threads that lease the lane of the same batch.   *)
EXTENDS Worker, TLC

CONSTANTS j1, j2, c1, c2, b1

MCOwner == [c \in Leasers |-> b1]
Symmetry == Permutations(Jobs) \cup Permutations(Leasers)
=============================================================================
