----------------------------- MODULE MCMappings -----------------------------
(* Mappings for TLC: three pages of four bytes under a library that assumes *)
(* two, lengths of nothing, of one page, of two and of too much.            *)
EXTENDS Mappings, TLC

MCPages == 1 .. 3
MCSizes == {0, 1, 5, 13}
MCOffsets == {0, 1, 2}
ThreadSymmetry == Permutations(Threads)
=============================================================================
