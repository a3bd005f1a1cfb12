------------------------------ MODULE MCBuffer ------------------------------
(* Buffer for TLC: two byte values besides '\0', and the strings of up to  *)
(* three of them.                                                          *)
EXTENDS Buffer, TLC

CONSTANTS z, c1, c2, MaxLen

MCByte == {z, c1, c2}
MCStrings == UNION {[1 .. n -> {c1, c2}] : n \in 1 .. MaxLen}
Symmetry == Permutations(Bufs) \cup Permutations({c1, c2})
=============================================================================
