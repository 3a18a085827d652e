------------------------------ MODULE Heapsort ------------------------------
(***************************************************************************)
(* qsort and qsort_r (crates/mytilus-stdlib/src/sort.rs): an in-place      *)
(* heapsort that calls back into the program for every comparison.         *)
(*                                                                         *)
(* The elements are named by the place they had at the call: a[i] is the   *)
(* element now at index i, key[e] what the comparator sees of element e.   *)
(* An honest comparator orders by key.  The standard leaves the order      *)
(* undefined for any other comparator, and a C program can still pass one, *)
(* so when honest is FALSE every comparison has any outcome.               *)
(*                                                                         *)
(* Between two steps that compare, the comparator runs: it sees the array  *)
(* as it is, and may leave by longjmp.                                     *)
(***************************************************************************)
EXTENDS Integers, FiniteSets, SortParams

CONSTANTS Widths, Keys

ASSUME WidthsAssumption == Widths \subseteq Nat
ASSUME KeysAssumption == Keys \subseteq Int

VARIABLES
    n, width,     \* arguments nel and width
    key, honest,  \* the comparator
    a,
    pc,
    root,         \* heapsort's i: the next node to sift is root - 1
    end,          \* heapsort's end
    i, limit,     \* sift_down's i and n
    child,
    cmps          \* comparator calls made, read by no action

vars == <<n, width, key, honest, a, pc, root, end, i, limit, child, cmps>>

args == <<n, width, key, honest>>

Index == 0 .. n - 1

Sign(d) == IF d < 0 THEN -1 ELSE IF d > 0 THEN 1 ELSE 0

(* What cmp may return for the elements at two indices.                     *)
cmp(x, y) == IF honest THEN {Sign(key[a[x]] - key[a[y]])} ELSE {-1, 0, 1}

(* Mutant: the saved element is not written back.                           *)
swap_bytesMutant(x, y) == [a EXCEPT ![x] = a[y]]

swap_bytes(x, y) == [a EXCEPT ![x] = a[y], ![y] = a[x]]

Init ==
    /\ n \in Lengths
    /\ width \in Widths
    /\ honest \in BOOLEAN
    /\ key \in [Index -> Keys]
    /\ a = [x \in Index |-> x]
    /\ pc = "start"
    /\ root = 0 /\ end = 0 /\ i = 0 /\ limit = 0 /\ child = 0
    /\ cmps = 0

-----------------------------------------------------------------------------
Start ==
    /\ pc = "start"
    /\ IF n < 2 \/ width = 0
         THEN pc' = "done" /\ UNCHANGED root
         ELSE pc' = "build" /\ root' = n \div 2
    /\ UNCHANGED <<args, a, end, i, limit, child, cmps>>

(* Mutant: the first node sifted is one below the last internal one.        *)
BuildMutant ==
    /\ pc = "build"
    /\ root > 0
    /\ root' = root - 1
    /\ i' = IF root = n \div 2 /\ root > 1 THEN root - 2 ELSE root - 1
    /\ limit' = n
    /\ pc' = "sift"
    /\ UNCHANGED <<args, a, end, child, cmps>>

Build ==
    /\ pc = "build"
    /\ root > 0
    /\ root' = root - 1
    /\ i' = root - 1
    /\ limit' = n
    /\ pc' = "sift"
    /\ UNCHANGED <<args, a, end, child, cmps>>

Built ==
    /\ pc = "build"
    /\ root = 0
    /\ end' = n
    /\ pc' = "extract"
    /\ UNCHANGED <<args, a, root, i, limit, child, cmps>>

Extract ==
    /\ pc = "extract"
    /\ end > 1
    /\ end' = end - 1
    /\ a' = swap_bytes(0, end - 1)
    /\ i' = 0
    /\ limit' = end - 1
    /\ pc' = "sift"
    /\ UNCHANGED <<args, root, child, cmps>>

(* Mutant: the loop also waits for the last element to be extracted.        *)
FinishMutant ==
    /\ pc = "extract"
    /\ end < 1
    /\ pc' = "done"
    /\ UNCHANGED <<args, a, root, end, i, limit, child, cmps>>

Finish ==
    /\ pc = "extract"
    /\ end <= 1
    /\ pc' = "done"
    /\ UNCHANGED <<args, a, root, end, i, limit, child, cmps>>

-----------------------------------------------------------------------------
(* sift_down returns to the loop that called it.                            *)
SiftReturn == pc' = IF end = 0 THEN "build" ELSE "extract"

SiftLeaf ==
    /\ pc = "sift"
    /\ 2 * i + 1 >= limit
    /\ SiftReturn
    /\ UNCHANGED <<args, a, root, end, i, limit, child, cmps>>

(* Mutant: the right child is read whenever there is a left one.            *)
SiftChildMutant ==
    /\ pc = "sift"
    /\ 2 * i + 1 < limit
    /\ child' = 2 * i + 1
    /\ pc' = "pick"
    /\ UNCHANGED <<args, a, root, end, i, limit, cmps>>

SiftChild ==
    /\ pc = "sift"
    /\ 2 * i + 1 < limit
    /\ child' = 2 * i + 1
    /\ pc' = IF 2 * i + 2 < limit THEN "pick" ELSE "parent"
    /\ UNCHANGED <<args, a, root, end, i, limit, cmps>>

Pick ==
    /\ pc = "pick"
    /\ \E s \in cmp(child, child + 1) :
           child' = IF s < 0 THEN child + 1 ELSE child
    /\ cmps' = cmps + 1
    /\ pc' = "parent"
    /\ UNCHANGED <<args, a, root, end, i, limit>>

InPlace ==
    /\ pc = "parent"
    /\ \E s \in cmp(i, child) : s >= 0
    /\ cmps' = cmps + 1
    /\ SiftReturn
    /\ UNCHANGED <<args, a, root, end, i, limit, child>>

(* Mutant: the loop goes on from the same node.                             *)
DescendMutant ==
    /\ pc = "parent"
    /\ \E s \in cmp(i, child) : s < 0
    /\ cmps' = cmps + 1
    /\ a' = swap_bytes(i, child)
    /\ pc' = "sift"
    /\ UNCHANGED <<args, root, end, i, limit, child>>

Descend ==
    /\ pc = "parent"
    /\ \E s \in cmp(i, child) : s < 0
    /\ cmps' = cmps + 1
    /\ a' = swap_bytes(i, child)
    /\ i' = child
    /\ pc' = "sift"
    /\ UNCHANGED <<args, root, end, limit, child>>

Done == pc = "done" /\ UNCHANGED vars

Next ==
    \/ Start \/ Build \/ Built \/ Extract \/ Finish
    \/ SiftLeaf \/ SiftChild \/ Pick \/ InPlace \/ Descend
    \/ Done

Spec == Init /\ [][Next]_vars

-----------------------------------------------------------------------------
ArrayOK ==
    /\ n \in Lengths /\ width \in Widths /\ honest \in BOOLEAN
    /\ key \in [Index -> Keys]
    /\ a \in [Index -> Index]

LoopsOK ==
    /\ pc \in {"start", "build", "extract", "sift", "pick", "parent", "done"}
    /\ root \in Nat /\ end \in Nat /\ limit \in Nat /\ cmps \in Nat
    /\ i \in Nat /\ child \in Nat

(* Array and loop variables have their types: no size_t goes below zero.    *)
TypeOK == ArrayOK /\ LoopsOK

(* Every comparison and every swap is of two different elements of the      *)
(* array, whatever the comparator answers: the pointers elt makes stay      *)
(* inside the array and swap_bytes is never given one element twice, as its *)
(* safety comment requires.                                                 *)
AccessesValid ==
    /\ pc = "pick" => child + 1 < n
    /\ pc = "parent" => i < n /\ child < n /\ i # child
    /\ pc = "extract" /\ end > 1 => end <= n

(* At every comparator call and at the return the array holds exactly the   *)
(* elements it was given, whatever the comparator has answered: a           *)
(* comparator that longjmps out of qsort loses and duplicates nothing.      *)
Permutation == {a[x] : x \in Index} = Index

(* A comparator that orders the elements gets a sorted array.               *)
SortedWhenDone ==
    pc = "done" /\ honest /\ width > 0
        => \A x, y \in Index : x < y => key[a[x]] <= key[a[y]]
=============================================================================
