---------------------------- MODULE MCHeapTimer ----------------------------
(* HeapTimer for TLC.  Descriptors are interchangeable: nothing in the     *)
(* timer orders them.                                                      *)
EXTENDS HeapTimer, TLC

Symmetry == Permutations(Fds)
=============================================================================
