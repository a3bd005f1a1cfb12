---------------------------- MODULE MCThreadPool ----------------------------
(* ThreadPool for TLC: tasks, threads and callers are interchangeable.     *)
EXTENDS ThreadPool, TLC

Symmetry == Permutations(Tasks) \cup Permutations(Workers) \cup Permutations(Callers)
=============================================================================
