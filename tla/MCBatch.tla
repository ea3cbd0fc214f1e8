------------------------------- MODULE MCBatch -------------------------------
(* One list, of one or two sources.                                          *)
EXTENDS BatchCoordinator, TLC

CONSTANTS s1, s2

Symmetry == Permutations(Sources)
=============================================================================
