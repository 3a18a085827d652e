----------------------------- MODULE SortSearch -----------------------------
(***************************************************************************)
(* A program that sorts an array with qsort and then looks an element up   *)
(* with bsearch, with the same comparator: the use both calls exist for.   *)
(* bsearch reads what the sort left, so side, its comparator's view of the *)
(* array, is computed from the sorted array a and the target.              *)
(***************************************************************************)
EXTENDS Heapsort

CONSTANT Targets
ASSUME TargetsAssumption == Targets \subseteq Int

VARIABLES target, base, nel, bpc, result, bcmps

searchVars == <<target, base, nel, bpc, result, bcmps>>
allVars == <<vars, searchVars>>

(* What the comparator says of the target against each element.             *)
side == [x \in Index |-> Sign(target - key[a[x]])]

B == INSTANCE Bsearch WITH nel0 <- n, pc <- bpc, cmps <- bcmps

(* A comparator that answers anything never looks at the keys.              *)
AllInit ==
    /\ Init
    /\ honest \/ \A x, y \in Index : key[x] = key[y]
    /\ target = 0 /\ base = 0 /\ nel = 0 /\ bpc = "idle" /\ result = NULL /\ bcmps = 0

SortStep == Next /\ pc # "done" /\ UNCHANGED searchVars

(* bsearch is called with the array's full length; the locals of the sort   *)
(* are dead.                                                                *)
Search ==
    /\ pc = "done" /\ bpc = "idle"
    /\ target' \in Targets
    /\ nel' = n /\ bpc' = "loop"
    /\ root' = 0 /\ end' = 0 /\ i' = 0 /\ limit' = 0 /\ child' = 0
    /\ UNCHANGED <<args, a, pc, cmps, base, result, bcmps>>

SearchStep == bpc = "loop" /\ UNCHANGED <<vars, target>> /\ B!Next

AllDone == bpc = "done" /\ UNCHANGED allVars

AllNext == SortStep \/ Search \/ SearchStep \/ AllDone

(* The comparator always returns; nothing else can hold the program up.     *)
AllSpec == AllInit /\ [][AllNext]_allVars /\ WF_allVars(AllNext)

-----------------------------------------------------------------------------
(* bsearch's window stays inside the array whatever the comparator answers, *)
(* also after a sort by a comparator that contradicts itself; and on an     *)
(* array qsort has ordered, bsearch finds an element with the target's key  *)
(* exactly when the program's original array had one.                       *)
SearchAfterSort ==
    /\ bpc # "idle" => B!WindowInArray
    /\ bpc = "done" /\ honest /\ width > 0 =>
          IF \E e \in Index : key[e] = target
            THEN result \in Index /\ key[a[result]] = target
            ELSE result = NULL

(* How often m can be halved before nothing but one is left.                *)
Log2[m \in Nat] == IF m < 2 THEN 0 ELSE 1 + Log2[m \div 2]

(* qsort makes at most two comparisons for each level of each sift, the     *)
(* header comment's O(n log n), and bsearch at most 1 + log2(n), whatever   *)
(* the comparator answers.                                                  *)
ComparisonBound ==
    LET levels == IF n = 0 THEN 0 ELSE Log2[n]
    IN  cmps <= 2 * n * levels /\ bcmps <= (IF n = 0 THEN 0 ELSE 1 + levels)

(* Both calls return, whatever the comparator answers.                      *)
Terminates == <>(bpc = "done")
=============================================================================
