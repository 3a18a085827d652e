----------------------------- MODULE SortParams -----------------------------
(* What qsort and bsearch share: the array lengths considered, and the null *)
(* pointer bsearch returns, which is the index of no element.               *)
EXTENDS Integers

CONSTANTS Lengths, NULL

ASSUME LengthsAssumption == Lengths \subseteq Nat
ASSUME NullAssumption == NULL \notin Nat
=============================================================================
