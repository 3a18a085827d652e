---------------------------- MODULE MCDescriptors ----------------------------
(* Descriptors for TLC: two threads that compete for three numbers.         *)
EXTENDS Descriptors, TLC

MCFds == 0 .. 2
ThreadSymmetry == Permutations(Threads)
=============================================================================
