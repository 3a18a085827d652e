------------------------------- MODULE Bsearch -------------------------------
(***************************************************************************)
(* bsearch (crates/mytilus-stdlib/src/sort.rs): the halving search over an *)
(* array of nel0 elements.  A pointer into the array is the index of the   *)
(* element it points to.                                                   *)
(*                                                                         *)
(* side[x] is the comparator's view of element x against the key: -1 when  *)
(* the key is smaller, 1 when it is greater, 0 when they are equal.  The   *)
(* array is sorted when the signs only ever fall.  The caller may have     *)
(* left the array unsorted, so side is any function, and a comparator need *)
(* not even answer the same twice: honest FALSE is one that answers        *)
(* anything.                                                               *)
(***************************************************************************)
EXTENDS Integers, SortParams

VARIABLES nel0, side, honest, base, nel, pc, result, cmps

vars == <<nel0, side, honest, base, nel, pc, result, cmps>>

args == <<nel0, side, honest>>

Array == 0 .. nel0 - 1

Signs == {-1, 0, 1}

try == base + nel \div 2

cmp(x) == IF honest THEN {side[x]} ELSE Signs

Init ==
    /\ nel0 \in Lengths
    /\ side \in [Array -> Signs]
    /\ honest \in BOOLEAN
    /\ base = 0
    /\ nel = nel0
    /\ pc = "loop"
    /\ result = NULL
    /\ cmps = 0

Smaller ==
    /\ pc = "loop" /\ nel > 0
    /\ \E s \in cmp(try) : s < 0
    /\ nel' = nel \div 2
    /\ cmps' = cmps + 1
    /\ UNCHANGED <<args, base, pc, result>>

Greater ==
    /\ pc = "loop" /\ nel > 0
    /\ \E s \in cmp(try) : s > 0
    /\ base' = try + 1
    /\ nel' = nel - (nel \div 2 + 1)
    /\ cmps' = cmps + 1
    /\ UNCHANGED <<args, pc, result>>

Equal ==
    /\ pc = "loop" /\ nel > 0
    /\ \E s \in cmp(try) : s = 0
    /\ result' = try
    /\ pc' = "done"
    /\ cmps' = cmps + 1
    /\ UNCHANGED <<args, base, nel>>

(* Mutant: the loop ends with one element left in the window.               *)
ExhaustedMutant ==
    /\ pc = "loop" /\ nel <= 1
    /\ pc' = "done"
    /\ UNCHANGED <<args, base, nel, result, cmps>>

Exhausted ==
    /\ pc = "loop" /\ nel = 0
    /\ pc' = "done"
    /\ UNCHANGED <<args, base, nel, result, cmps>>

Done == pc = "done" /\ UNCHANGED vars

Next == Smaller \/ Greater \/ Equal \/ Exhausted \/ Done

Spec == Init /\ [][Next]_vars

-----------------------------------------------------------------------------
Sorted == \A x, y \in Array : x <= y => side[y] <= side[x]

(* Types; the window length is a size_t, so it must not fall below zero.    *)
TypeOK ==
    /\ nel0 \in Lengths /\ honest \in BOOLEAN
    /\ side \in [Array -> Signs]
    /\ base \in Nat /\ nel \in Nat /\ cmps \in Nat
    /\ pc \in {"loop", "done"}
    /\ result \in Nat \cup {NULL}

(* The window stays inside the array whatever the comparator answers, so    *)
(* every pointer it is given, and the one returned, is to an element.       *)
WindowInArray == base + nel <= nel0 /\ (result # NULL => result < nel0)

(* On a sorted array the answer is right: an equal element when there is    *)
(* one, NULL when there is none.                                            *)
FindsIfPresent ==
    pc = "done" /\ honest /\ Sorted
        => IF \E x \in Array : side[x] = 0
             THEN result \in Array /\ side[result] = 0
             ELSE result = NULL

(* Each comparison at least halves the window, whatever it answers: a       *)
(* search of nel0 elements makes at most 1 + log2(nel0) comparisons.        *)
Halves == [][cmps' = cmps + 1 => (pc' = "done" \/ 2 * nel' <= nel)]_vars

(* What makes FindsIfPresent true: the elements dropped in front are all    *)
(* smaller than the key, those dropped behind all greater.                  *)
Window ==
    honest /\ Sorted /\ pc = "loop"
        => /\ \A x \in Array : x < base => side[x] = 1
           /\ \A x \in Array : x >= base + nel => side[x] = -1

Answer ==
    /\ pc = "loop" => result = NULL
    /\ pc = "done" /\ honest /\ Sorted /\ result = NULL
           => \A x \in Array : side[x] # 0
    /\ result # NULL => result \in Array /\ (honest => side[result] = 0)

Inv == TypeOK /\ WindowInArray /\ Window /\ Answer
=============================================================================
