------------------------------ MODULE MCMemmove ------------------------------
(* Memmove for TLC: every position of two regions in six bytes of memory    *)
(* whose contents are arbitrary.                                            *)
EXTENDS Memmove
=============================================================================
