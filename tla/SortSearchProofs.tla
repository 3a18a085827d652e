-------------------------- MODULE SortSearchProofs --------------------------
(***************************************************************************)
(* qsort is safe for arrays of every length, elements of every width and   *)
(* every comparator, and sorts when the comparator orders by key; bsearch  *)
(* then finds a key exactly when the program's array had it; neither makes *)
(* more comparisons than its levels and halvings allow.                    *)
(***************************************************************************)
EXTENDS SortSearch, HeapsortInv, WellFoundedInduction, TLAPS

(* swap_bytes of two indices of the array keeps every element in it.        *)
LEMMA SwapKeeps ==
    ASSUME a \in [Index -> Index], Onto, NEW x \in Index, NEW y \in Index
    PROVE  LET b == swap_bytes(x, y)
           IN  /\ b \in [Index -> Index]
               /\ \A e \in Index : \E z \in Index : b[z] = e
<1> DEFINE b == swap_bytes(x, y)
<1>1. b \in [Index -> Index]
  BY DEF swap_bytes
<1>2. \A z \in Index : b[z] = IF z = y THEN a[x] ELSE IF z = x THEN a[y] ELSE a[z]
  BY DEF swap_bytes
<1>3. ASSUME NEW e \in Index PROVE \E z \in Index : b[z] = e
  <2>1. PICK w \in Index : a[w] = e
    BY DEF Onto
  <2>2. CASE w = x
    BY <1>2, <2>1, <2>2
  <2>3. CASE w = y /\ w # x
    BY <1>2, <2>1, <2>3
  <2>4. CASE w # x /\ w # y
    BY <1>2, <2>1, <2>4
  <2> QED BY <2>2, <2>3, <2>4
<1> QED BY <1>1, <1>3

(* The invariant holds when qsort_r is called.                              *)
LEMMA InitInv == Init => Inv
  BY LengthsAssumption DEF Init, Inv, TypeOK, ArrayOK, LoopsOK, Onto, LoopInv, Index

(* Every step of heapsort and sift_down preserves it.                       *)
LEMMA StepInv == Inv /\ [Next]_vars => Inv'
<1> SUFFICES ASSUME Inv, [Next]_vars PROVE Inv'
  OBVIOUS
<1>n. n \in Nat
  BY LengthsAssumption DEF Inv, TypeOK, ArrayOK
<1>l. LoopsOK /\ LoopInv
  BY DEF Inv, TypeOK
<1>a. ASSUME UNCHANGED <<args, a>> PROVE ArrayOK' /\ Onto' /\ n' = n
  BY <1>a DEF Inv, TypeOK, ArrayOK, Onto, args, Index
<1>s. ASSUME NEW x \in Index, NEW y \in Index, a' = swap_bytes(x, y), UNCHANGED args
      PROVE  ArrayOK' /\ Onto' /\ n' = n
  <2>1. Index' = Index
    BY <1>s DEF args, Index
  <2>2. a' \in [Index -> Index] /\ \A e \in Index : \E z \in Index : a'[z] = e
    <3>1. a \in [Index -> Index] /\ Onto
      BY DEF Inv, TypeOK, ArrayOK
    <3>2. LET b == swap_bytes(x, y)
          IN  b \in [Index -> Index] /\ \A e \in Index : \E z \in Index : b[z] = e
      BY ONLY <3>1, SwapKeeps, x \in Index, y \in Index, Zenon
    <3> QED BY <1>s, <3>2
  <2> QED BY <1>s, <2>1, <2>2 DEF Inv, TypeOK, ArrayOK, Onto, args
<1> SUFFICES LoopsOK' /\ LoopInv' /\ ArrayOK' /\ Onto'
  BY DEF Inv, TypeOK
<1>1. CASE Start
  BY <1>1, <1>n, <1>l, <1>a DEF Start, LoopsOK, LoopInv
<1>2. CASE Build
  BY <1>2, <1>n, <1>l, <1>a DEF Build, LoopsOK, LoopInv
<1>3. CASE Built
  BY <1>3, <1>n, <1>l, <1>a DEF Built, LoopsOK, LoopInv
<1>4. CASE Extract
  <2>1. 0 \in Index /\ end - 1 \in Index
    BY <1>4, <1>n, <1>l DEF Extract, LoopsOK, LoopInv, Index
  <2>2. ArrayOK' /\ Onto' /\ n' = n
    BY <1>4, <2>1, <1>s DEF Extract
  <2> QED BY <1>4, <1>n, <1>l, <2>2 DEF Extract, LoopsOK, LoopInv
<1>5. CASE Finish
  BY <1>5, <1>n, <1>l, <1>a DEF Finish, LoopsOK, LoopInv
<1>6. CASE SiftLeaf
  BY <1>6, <1>n, <1>l, <1>a DEF SiftLeaf, SiftReturn, LoopsOK, LoopInv
<1>7. CASE SiftChild
  BY <1>7, <1>n, <1>l, <1>a DEF SiftChild, LoopsOK, LoopInv
<1>8. CASE Pick
  BY <1>8, <1>n, <1>l, <1>a DEF Pick, LoopsOK, LoopInv
<1>9. CASE InPlace
  BY <1>9, <1>n, <1>l, <1>a DEF InPlace, SiftReturn, LoopsOK, LoopInv
<1>10. CASE Descend
  <2>1. i \in Index /\ child \in Index
    BY <1>10, <1>n, <1>l DEF Descend, LoopsOK, LoopInv, Index
  <2>2. ArrayOK' /\ Onto' /\ n' = n
    BY <1>10, <2>1, <1>s DEF Descend
  <2> QED BY <1>10, <1>n, <1>l, <2>1, <2>2 DEF Descend, LoopsOK, LoopInv, Index
<1>11. CASE Done \/ UNCHANGED vars
  BY <1>11, <1>l, <1>a DEF Done, vars, args, LoopsOK, LoopInv
<1> QED
  BY <1>1, <1>2, <1>3, <1>4, <1>5, <1>6, <1>7, <1>8, <1>9, <1>10, <1>11 DEF Next

(* The invariant of qsort_r's loops, for every length and comparator.       *)
THEOREM Invariance == Spec => []Inv
  BY InitInv, StepInv, PTL DEF Spec

(* What the loop bounds say of the accesses.                                *)
LEMMA InvGivesAccesses == Inv => AccessesValid
<1> SUFFICES ASSUME Inv PROVE AccessesValid
  OBVIOUS
<1>1. n \in Nat
  BY LengthsAssumption DEF Inv, TypeOK, ArrayOK
<1> QED BY <1>1 DEF Inv, TypeOK, LoopsOK, LoopInv, AccessesValid

(* elt never leaves the array and swap_bytes never meets an element twice,  *)
(* for every length and comparator.                                         *)
THEOREM AccessTheorem == Spec => []AccessesValid
  BY InvGivesAccesses, Invariance, PTL

(* An onto map of the indices into themselves loses none.                   *)
LEMMA InvGivesPermutation == Inv => Permutation
  BY DEF Inv, TypeOK, ArrayOK, Onto, Permutation

(* qsort_r only ever rearranges the array, for every length and comparator. *)
THEOREM PermutationTheorem == Spec => []Permutation
  BY InvGivesPermutation, Invariance, PTL

-----------------------------------------------------------------------------
(* A set of indices has a least one.                                        *)
LEMMA LeastExists ==
    ASSUME NEW S, S \subseteq Nat, S # {}
    PROVE  \E x \in S : \A y \in S : x <= y
<1>1. IsWellFoundedOn(OpToRel(<, Nat), Nat)
  BY NatLessThanWellFounded
<1> DEFINE R == OpToRel(<, Nat)
<1>2. PICK x \in S : \A y \in S : ~(<<y, x>> \in R)
  <2> HIDE DEF R
  <2> QED BY <1>1, WFMin DEF R
<1>3. \A y \in S : ~(y < x)
  BY <1>2 DEF OpToRel
<1> QED BY <1>3

(* The keys compared are integers.                                          *)
LEMMA ValInt ==
    ASSUME Inv
    PROVE  n \in Nat /\ \A x \in Index : val(x) \in Int /\ x \in Nat /\ x < n
<1>1. n \in Nat
  BY LengthsAssumption DEF Inv, TypeOK, ArrayOK
<1>2. \A x \in Index : val(x) \in Int
  BY KeysAssumption DEF Inv, TypeOK, ArrayOK, val
<1> QED BY <1>1, <1>2 DEF Index

(* What a step that swaps nothing, and one that swaps, do to the keys.      *)
LEMMA ValKept ==
    ASSUME UNCHANGED <<args, a>>
    PROVE  /\ n' = n /\ width' = width /\ honest' = honest /\ Index' = Index
           /\ \A x \in Index : val(x)' = val(x)
  BY DEF args, Index, val

(* A swap exchanges the keys at two indices and leaves the others.          *)
LEMMA ValSwapped ==
    ASSUME Inv, NEW x \in Index, NEW y \in Index, a' = swap_bytes(x, y), UNCHANGED args
    PROVE  /\ n' = n /\ width' = width /\ honest' = honest /\ Index' = Index
           /\ \A z \in Index : val(z)' = IF z = y THEN val(x) ELSE IF z = x THEN val(y) ELSE val(z)
  BY DEF args, Index, val, swap_bytes, Inv, TypeOK, ArrayOK

(* The greatest element of a heap is at its root.                           *)
LEMMA RootIsGreatest ==
    ASSUME Inv, NEW e \in Nat, e <= n, HeapBut(0, e, {}), NEW z \in Index, z < e
    PROVE  val(z) <= val(0)
<1>0. n \in Nat /\ 0 \in Index
  BY ValInt DEF Index
<1> DEFINE S == {x \in Index : x < e /\ val(x) > val(0)}
<1> SUFFICES ASSUME S # {} PROVE FALSE
  BY <1>0, ValInt
<1>1. S \subseteq Nat
  BY ValInt
<1> HIDE DEF S
<1>2. PICK m \in S : \A y \in S : m <= y
  BY <1>1, LeastExists
<1>3. m \in Index /\ m < e /\ val(m) > val(0) /\ m \in Nat /\ m # 0 /\ val(m) \in Int /\ val(0) \in Int
  BY <1>0, ValInt DEF S
<1>4. PICK p \in Nat : m \in Children(p) /\ p < m
  <2>1. (m - 1) \div 2 \in Nat /\ (m = 2 * ((m - 1) \div 2) + 1 \/ m = 2 * ((m - 1) \div 2) + 2)
    BY ONLY <1>3
  <2> QED BY ONLY <1>3, <2>1 DEF Children
<1>5. p \in Index /\ p < e
  BY ONLY <1>0, <1>3, <1>4, e \in Nat DEF Index
<1>6. val(m) <= val(p)
  BY ONLY <1>3, <1>4, <1>5, HeapBut(0, e, {}) DEF HeapBut
<1>7. p \notin S
  BY ONLY <1>1, <1>2, <1>3, <1>4
<1>8. val(p) <= val(0)
  BY <1>0, <1>5, <1>7, ValInt DEF S
<1>9. val(p) \in Int
  BY <1>5, ValInt
<1> QED BY ONLY <1>3, <1>6, <1>8, <1>9

-----------------------------------------------------------------------------
(* What an honest comparator's answer says of the keys.                     *)
LEMMA Compared ==
    ASSUME Inv, honest, NEW x \in Index, NEW y \in Index, NEW s \in cmp(x, y)
    PROVE  (s < 0 => val(x) < val(y)) /\ (s >= 0 => val(y) <= val(x))
<1>1. s = Sign(val(x) - val(y))
  BY DEF cmp, val
<1>2. val(x) \in Int /\ val(y) \in Int
  BY ValInt
<1> QED BY ONLY <1>1, <1>2 DEF Sign

(* The two loops that call sift_down hand it a heap but for one node.       *)
LEMMA OrderLoops ==
    ASSUME Inv, OrderInv, honest, Start \/ Build \/ Built \/ Finish
    PROVE  OrderInv'
<1>k. UNCHANGED <<args, a>>
  BY DEF Start, Build, Built, Finish
<1>v. /\ n' = n /\ width' = width /\ honest' = honest /\ Index' = Index
      /\ \A x \in Index : val(x)' = val(x)
  BY ONLY <1>k, ValKept
<1>n. n \in Nat /\ \A x \in Index : val(x) \in Int /\ x \in Nat /\ x < n
  BY ONLY Inv, ValInt
<1>l. root \in Nat /\ end \in Nat /\ LoopInv
  BY DEF Inv, TypeOK, LoopsOK
<1>1. CASE Start
  <2>1. pc' = "build" => HeapBut(root, n, {})'
    BY ONLY <1>1, <1>n, <1>v DEF Start, HeapBut, Children
  <2>2. pc' = "done" /\ width' > 0 => Suffix(0)'
    <3>1. ASSUME pc' = "done", width > 0 PROVE n < 2
      <4>1. width # 0
        BY <3>1
      <4> QED BY ONLY <1>1, <3>1, <4>1 DEF Start
    <3> QED BY ONLY <3>1, <1>n, <1>v DEF Suffix
  <2>3. pc' \in {"build", "done"}
    BY ONLY <1>1 DEF Start
  <2> QED BY ONLY <2>1, <2>2, <2>3 DEF OrderInv
<1>2. CASE Build
  <2>1. pc' = "sift" /\ limit' = n /\ root' = root - 1 /\ i' = root - 1 /\ end' = 0 /\ HeapBut(root, n, {})
    BY <1>2, <1>l DEF Build, LoopInv, OrderInv
  <2>2. HeapBut(root, limit, {i})'
    BY ONLY <1>n, <1>v, <1>l, <2>1 DEF HeapBut
  <2>3. \A p, c \in Index' : root' <= p /\ i' \in Children(p) /\ c \in Children(i') /\ c < limit' => val(c)' <= val(p)'
    BY ONLY <1>n, <1>v, <1>l, <2>1 DEF Children
  <2>4. Sifting'
    BY ONLY <1>v, <1>l, <2>1, <2>2, <2>3 DEF Sifting
  <2> QED BY ONLY <2>1, <2>4 DEF OrderInv
<1>3. CASE Built
  <2>1. pc' = "extract" /\ root' = 0 /\ end' = n /\ root = 0 /\ HeapBut(root, n, {})
    BY <1>3 DEF Built, OrderInv
  <2>2. HeapBut(0, end, {})'
    BY ONLY <1>v, <2>1 DEF HeapBut
  <2>3. Suffix(end)'
    BY ONLY <1>n, <1>v, <2>1 DEF Suffix
  <2> QED BY ONLY <2>1, <2>2, <2>3 DEF OrderInv
<1>4. CASE Finish
  <2>1. pc' = "done" /\ end = 1 /\ Suffix(end)
    BY <1>4, <1>l DEF Finish, OrderInv, LoopInv
  <2>2. Suffix(0)'
    BY ONLY <1>n, <1>v, <2>1 DEF Suffix
  <2> QED BY ONLY <2>1, <2>2 DEF OrderInv
<1> QED BY <1>1, <1>2, <1>3, <1>4

(* The greatest element of the heap goes to the end of it.                  *)
LEMMA OrderExtract ==
    ASSUME Inv, OrderInv, honest, Extract
    PROVE  OrderInv'
<1>n. n \in Nat /\ \A x \in Index : val(x) \in Int /\ x \in Nat /\ x < n
  BY ONLY Inv, ValInt
<1>1. /\ pc' = "sift" /\ limit' = end - 1 /\ end' = end - 1 /\ i' = 0 /\ root' = 0
      /\ HeapBut(0, end, {}) /\ Suffix(end) /\ end \in Nat /\ end > 1 /\ end <= n
  BY DEF Extract, OrderInv, Inv, TypeOK, LoopsOK, LoopInv
<1>2. 0 \in Index /\ end - 1 \in Index
  BY ONLY <1>n, <1>1 DEF Index
<1>v. /\ n' = n /\ honest' = honest /\ Index' = Index
      /\ \A z \in Index : val(z)' = IF z = end - 1 THEN val(0) ELSE IF z = 0 THEN val(end - 1) ELSE val(z)
  <2>1. a' = swap_bytes(0, end - 1) /\ UNCHANGED args
    BY DEF Extract
  <2> QED BY ONLY <2>1, <1>2, Inv, ValSwapped
<1>r. ASSUME NEW z \in Index, z < end PROVE val(z) <= val(0)
  BY ONLY Inv, <1>r, <1>1, RootIsGreatest
<1>3. Suffix(end)'
  <2> SUFFICES ASSUME NEW x \in Index, NEW y \in Index, x < y, end - 1 <= y PROVE val(x)' <= val(y)'
    BY <1>1, <1>v DEF Suffix
  <2>1. CASE y = end - 1
    BY ONLY <1>n, <1>1, <1>2, <1>v, <1>r, <2>1, x \in Index, y \in Index, x < y
  <2>2. CASE y # end - 1
    <3>1. y >= end /\ y # 0 /\ val(y)' = val(y)
      BY ONLY <1>n, <1>1, <1>v, <2>2, x \in Index, y \in Index, x < y, end - 1 <= y
    <3>2. PICK z \in Index : val(x)' = val(z) /\ z < y
      <4>1. CASE x = end - 1
        BY ONLY <1>n, <1>1, <1>2, <1>v, <3>1, <4>1
      <4>2. CASE x = 0
        BY ONLY <1>n, <1>1, <1>2, <1>v, <3>1, <4>2, y \in Index
      <4>3. CASE x # end - 1 /\ x # 0
        BY ONLY <1>v, <4>3, x \in Index, x < y
      <4> QED BY ONLY <4>1, <4>2, <4>3
    <3> QED BY ONLY <3>1, <3>2, <1>1, y \in Index DEF Suffix
  <2> QED BY ONLY <2>1, <2>2
<1>4. HeapBut(root, limit, {i})'
  <2> SUFFICES ASSUME NEW p \in Index, NEW c \in Index, p # 0, c \in Children(p), c < end - 1 PROVE val(c)' <= val(p)'
    BY <1>1, <1>v DEF HeapBut
  <2>1. c # 0 /\ c # end - 1 /\ p # end - 1 /\ c < end /\ p >= 0
    BY ONLY <1>n, <1>1, p \in Index, c \in Index, c \in Children(p), c < end - 1 DEF Children
  <2>2. val(c)' = val(c) /\ val(p)' = val(p)
    BY ONLY <1>v, <2>1, p \in Index, c \in Index, p # 0
  <2> QED BY ONLY <2>1, <2>2, <1>1, p \in Index, c \in Index, c \in Children(p) DEF HeapBut
<1>5. \A p, c \in Index' : root' <= p /\ i' \in Children(p) /\ c \in Children(i') /\ c < limit' => val(c)' <= val(p)'
  BY ONLY <1>n, <1>v, <1>1 DEF Children
<1>6. Sifting'
  BY ONLY <1>1, <1>3, <1>4, <1>5 DEF Sifting
<1> QED BY ONLY <1>1, <1>6 DEF OrderInv

(* sift_down stops where the node is no smaller than its children.          *)
LEMMA OrderReturn ==
    ASSUME Inv, OrderInv, honest, SiftLeaf \/ InPlace
    PROVE  OrderInv'
<1>k. UNCHANGED <<args, a, root, end>> /\ Sifting /\ SiftReturn
  BY DEF SiftLeaf, InPlace, OrderInv
<1>v. /\ n' = n /\ honest' = honest /\ Index' = Index /\ root' = root /\ end' = end
      /\ \A x \in Index : val(x)' = val(x)
  BY ONLY <1>k, ValKept
<1>n. n \in Nat /\ \A x \in Index : val(x) \in Int /\ x \in Nat /\ x < n
  BY ONLY Inv, ValInt
<1>l. root \in Nat /\ end \in Nat /\ i \in Nat /\ limit \in Nat /\ child \in Nat /\ LoopInv /\ i < n /\ limit <= n
  BY DEF Inv, TypeOK, LoopsOK, LoopInv, SiftLeaf, InPlace
<1>1. ASSUME NEW c \in Index, c \in Children(i), c < limit PROVE val(c) <= val(i)
  <2>1. CASE SiftLeaf
    BY ONLY <1>1, <1>n, <1>l, <2>1 DEF SiftLeaf, Children
  <2>2. CASE InPlace
    <3>1. i \in Index /\ child \in Index /\ pc = "parent"
      BY <1>n, <1>l, <2>2 DEF InPlace, LoopInv, Index
    <3>2. val(child) <= val(i)
      BY ONLY Inv, honest, <2>2, <3>1, Compared DEF InPlace
    <3>3. val(c) <= val(child)
      BY ONLY OrderInv, honest, <1>1, <3>1 DEF OrderInv
    <3> QED BY ONLY <1>1, <1>n, <3>1, <3>2, <3>3
  <2> QED BY <2>1, <2>2
<1>2. HeapBut(root, limit, {})
  <2> SUFFICES ASSUME NEW p \in Index, NEW c \in Index, root <= p, c \in Children(p), c < limit PROVE val(c) <= val(p)
    BY DEF HeapBut
  <2>1. CASE p = i
    BY ONLY <1>1, <2>1, c \in Index, c \in Children(p), c < limit
  <2>2. CASE p # i
    BY ONLY <1>k, <2>2, p \in Index, c \in Index, root <= p, c \in Children(p), c < limit DEF Sifting, HeapBut
  <2> QED BY ONLY <2>1, <2>2
<1>3. CASE end = 0
  <2>1. pc' = "build" /\ limit = n
    BY ONLY <1>k, <1>3 DEF SiftReturn, Sifting
  <2>2. HeapBut(root, n, {})'
    BY ONLY <1>v, <1>2, <2>1 DEF HeapBut
  <2> QED BY ONLY <2>1, <2>2 DEF OrderInv
<1>4. CASE end # 0
  <2>1. pc' = "extract" /\ limit = end /\ root = 0 /\ Suffix(end)
    BY ONLY <1>k, <1>4 DEF SiftReturn, Sifting
  <2>2. HeapBut(0, end, {})'
    BY ONLY <1>v, <1>2, <2>1 DEF HeapBut
  <2>3. Suffix(end)'
    BY ONLY <1>v, <2>1 DEF Suffix
  <2> QED BY ONLY <1>v, <2>1, <2>2, <2>3 DEF OrderInv
<1> QED BY ONLY <1>3, <1>4

(* sift_down chooses the greater child.                                     *)
LEMMA OrderChoose ==
    ASSUME Inv, OrderInv, honest, SiftChild \/ Pick
    PROVE  OrderInv'
<1>k. UNCHANGED <<args, a, root, end, i, limit>> /\ Sifting
  BY DEF SiftChild, Pick, OrderInv
<1>v. /\ n' = n /\ honest' = honest /\ Index' = Index
      /\ root' = root /\ end' = end /\ i' = i /\ limit' = limit
      /\ \A x \in Index : val(x)' = val(x)
  BY ONLY <1>k, ValKept
<1>n. n \in Nat /\ \A x \in Index : val(x) \in Int /\ x \in Nat /\ x < n
  BY ONLY Inv, ValInt
<1>l. i \in Nat /\ limit \in Nat /\ limit <= n
  BY DEF Inv, TypeOK, LoopsOK, LoopInv, SiftChild, Pick
<1>1. Sifting'
  <2>1. HeapBut(root, limit, {i})'
    BY ONLY <1>k, <1>v DEF Sifting, HeapBut
  <2>2. end' # 0 => root' = 0 /\ Suffix(end)'
    BY ONLY <1>k, <1>v DEF Sifting, Suffix
  <2>3. \A p, c \in Index' : root' <= p /\ i' \in Children(p) /\ c \in Children(i') /\ c < limit' => val(c)' <= val(p)'
    BY ONLY <1>k, <1>v DEF Sifting
  <2>4. limit' = (IF end' = 0 THEN n' ELSE end') /\ root' <= i'
    BY ONLY <1>k, <1>v DEF Sifting
  <2> QED BY ONLY <2>1, <2>2, <2>3, <2>4 DEF Sifting
<1>2. pc' \in {"pick", "parent"}
  BY DEF SiftChild, Pick
<1>3. ASSUME pc' = "parent", NEW c \in Index, c \in Children(i), c < limit PROVE val(c) <= val(child')
  <2>1. CASE SiftChild
    <3>1. c = 2 * i + 1 /\ child' = 2 * i + 1
      BY ONLY <1>3, <1>n, <1>l, <2>1 DEF SiftChild, Children
    <3> QED BY ONLY <1>n, <1>3, <3>1
  <2>2. CASE Pick
    <3>1. child = 2 * i + 1 /\ child + 1 < limit
      BY <2>2 DEF Pick, Inv, LoopInv
    <3>2. child \in Index /\ child + 1 \in Index /\ c \in {child, child + 1}
      BY ONLY <1>3, <1>n, <1>l, <3>1 DEF Index, Children
    <3>3. PICK s \in cmp(child, child + 1) : child' = IF s < 0 THEN child + 1 ELSE child
      BY ONLY <2>2 DEF Pick
    <3>4. (s < 0 => val(child) < val(child + 1)) /\ (s >= 0 => val(child + 1) <= val(child))
      BY ONLY Inv, honest, <3>2, <3>3, Compared
    <3>5. s \in {-1, 0, 1}
      BY ONLY <3>3 DEF cmp, Sign
    <3>6. val(child) \in Int /\ val(child + 1) \in Int
      BY ONLY <1>n, <3>2
    <3>7. CASE s < 0
      BY ONLY <3>2, <3>3, <3>4, <3>6, <3>7
    <3>8. CASE s >= 0
      BY ONLY <3>2, <3>3, <3>4, <3>5, <3>6, <3>8
    <3> QED BY ONLY <3>5, <3>7, <3>8
  <2> QED BY <2>1, <2>2
<1>4. child' \in Index \/ pc' # "parent"
  BY <1>n, <1>l DEF SiftChild, Pick, Index, Inv, LoopInv
<1>5. pc' = "parent" => \A c \in Index' : c \in Children(i') /\ c < limit' => val(c)' <= val(child)'
  <2>1. pc' = "parent" => val(child)' = val(child')
    BY ONLY <1>v, <1>k DEF val, args
  <2> QED BY ONLY <1>v, <1>3, <2>1
<1> QED BY ONLY <1>1, <1>2, <1>5 DEF OrderInv

(* sift_down moves the greater child up and goes on where it was.           *)
LEMMA OrderDescend ==
    ASSUME Inv, OrderInv, honest, Descend
    PROVE  OrderInv'
<1>n. n \in Nat /\ \A x \in Index : val(x) \in Int /\ x \in Nat /\ x < n
  BY ONLY Inv, ValInt
<1>1. /\ pc' = "sift" /\ i' = child /\ root' = root /\ end' = end /\ limit' = limit
      /\ Sifting /\ pc = "parent"
  BY DEF Descend, OrderInv
<1>2. i \in Index /\ child \in Index /\ child \in Children(i) /\ child < limit /\ i < child
      /\ limit \in Nat /\ root \in Nat /\ end \in Nat
  BY <1>n, <1>1 DEF Inv, TypeOK, LoopsOK, LoopInv, Index, Children
<1>v. /\ n' = n /\ honest' = honest /\ Index' = Index
      /\ \A z \in Index : val(z)' = IF z = child THEN val(i) ELSE IF z = i THEN val(child) ELSE val(z)
  <2>1. a' = swap_bytes(i, child) /\ UNCHANGED args
    BY DEF Descend
  <2> QED BY ONLY <2>1, <1>2, Inv, ValSwapped
<1>3. val(i) < val(child)
  BY ONLY Inv, honest, <1>2, Descend, Compared DEF Descend
<1>4. \A c \in Index : c \in Children(i) /\ c < limit => val(c) <= val(child)
  BY ONLY OrderInv, honest, <1>1 DEF OrderInv
<1>5. end' # 0 => root' = 0 /\ Suffix(end)'
  <2> SUFFICES ASSUME end # 0, NEW x \in Index, NEW y \in Index, x < y, end <= y PROVE val(x)' <= val(y)'
    BY <1>1, <1>v DEF Suffix, Sifting
  <2>1. limit = end /\ Suffix(end)
    BY ONLY <1>1, end # 0 DEF Sifting
  <2>2. y # i /\ y # child /\ i < y /\ child < y
    BY ONLY <1>n, <1>2, <2>1, y \in Index, end <= y
  <2>3. val(y)' = val(y)
    BY ONLY <1>v, <2>2, y \in Index
  <2>4. PICK z \in Index : val(x)' = val(z) /\ z < y
    <3>1. CASE x = child
      BY ONLY <1>v, <1>2, <2>2, <3>1
    <3>2. CASE x = i
      BY ONLY <1>n, <1>v, <1>2, <2>2, <3>2
    <3>3. CASE x # child /\ x # i
      BY ONLY <1>v, <3>3, x \in Index, x < y
    <3> QED BY ONLY <3>1, <3>2, <3>3
  <2> QED BY ONLY <2>1, <2>3, <2>4, y \in Index, end <= y DEF Suffix
<1>6. HeapBut(root, limit, {i})'
  <2> SUFFICES ASSUME NEW p \in Index, NEW c \in Index, root <= p, p # child, c \in Children(p), c < limit
               PROVE  val(c)' <= val(p)'
    BY <1>1, <1>v DEF HeapBut
  <2>0. c > p
    BY ONLY <1>n, p \in Index, c \in Index, c \in Children(p) DEF Children
  <2>1. CASE p = i /\ c = child
    BY ONLY <1>n, <1>v, <1>2, <1>3, <2>1
  <2>2. CASE p = i /\ c # child
    <3>1. val(c)' = val(c) /\ val(p)' = val(child)
      BY ONLY <1>n, <1>v, <1>2, <2>0, <2>2, c \in Index
    <3> QED BY ONLY <3>1, <1>4, <2>2, c \in Index, c \in Children(p), c < limit
  <2>3. CASE p # i /\ c = i
    <3>1. val(c)' = val(child) /\ val(p)' = val(p)
      BY ONLY <1>n, <1>v, <1>2, <2>3, p \in Index, p # child
    <3> QED BY ONLY <3>1, <1>1, <1>2, <2>3, p \in Index, root <= p, c \in Children(p) DEF Sifting
  <2>4. CASE p # i /\ c # i
    <3>1. c # child
      BY ONLY <1>n, <1>2, <2>4, p \in Index, c \in Children(p) DEF Children
    <3>2. val(c)' = val(c) /\ val(p)' = val(p)
      BY ONLY <1>v, <2>4, <3>1, p \in Index, c \in Index, p # child
    <3> QED BY ONLY <3>2, <1>1, <2>4, p \in Index, c \in Index, root <= p, c \in Children(p), c < limit
            DEF Sifting, HeapBut
  <2> QED BY ONLY <2>1, <2>2, <2>3, <2>4
<1>7. \A p, c \in Index' : root' <= p /\ i' \in Children(p) /\ c \in Children(i') /\ c < limit' => val(c)' <= val(p)'
  <2> SUFFICES ASSUME NEW p \in Index, NEW c \in Index, child \in Children(p), c \in Children(child), c < limit
               PROVE  val(c)' <= val(p)'
    BY <1>1, <1>v
  <2>1. p = i
    BY ONLY <1>n, <1>2, p \in Index, child \in Children(p) DEF Children
  <2>2. c > child
    BY ONLY <1>n, <1>2, c \in Children(child) DEF Children
  <2>3. val(c)' = val(c) /\ val(p)' = val(child)
    BY ONLY <1>n, <1>v, <1>2, <2>1, <2>2, c \in Index, p \in Index
  <2>4. root <= child /\ child # i
    BY ONLY <1>n, <1>1, <1>2 DEF Sifting
  <2> QED BY ONLY <2>3, <2>4, <1>1, <1>2, c \in Index, c \in Children(child), c < limit DEF Sifting, HeapBut
<1>8. limit' = (IF end' = 0 THEN n' ELSE end') /\ root' <= i'
  BY ONLY <1>n, <1>1, <1>2, <1>v DEF Sifting
<1>9. Sifting'
  BY ONLY <1>5, <1>6, <1>7, <1>8 DEF Sifting
<1> QED BY ONLY <1>1, <1>9 DEF OrderInv

(* Every step of heapsort and sift_down keeps what makes it sort.           *)
LEMMA OrderStep == Inv /\ OrderInv /\ [Next]_vars => OrderInv'
<1> SUFFICES ASSUME Inv, OrderInv, [Next]_vars PROVE OrderInv'
  OBVIOUS
<1>1. CASE Done \/ UNCHANGED vars
  <2>1. UNCHANGED vars
    BY ONLY <1>1 DEF Done
  <2> QED BY <2>1 DEF vars, OrderInv, Sifting, HeapBut, Suffix, Index, val
<1>2. CASE ~honest
  <2>1. honest' = honest
    BY <1>1 DEF Next, Start, Build, Built, Extract, Finish, SiftLeaf, SiftChild, Pick, InPlace, Descend, Done, args, vars
  <2> QED BY ONLY <1>2, <2>1 DEF OrderInv
<1>3. CASE honest /\ Next /\ ~Done
  BY ONLY Inv, OrderInv, <1>3, OrderLoops, OrderExtract, OrderReturn, OrderChoose, OrderDescend DEF Next
<1> QED BY <1>1, <1>2, <1>3

(* At the end everything is in its final place.                             *)
LEMMA InvGivesSorted == Inv /\ OrderInv => SortedWhenDone
<1> SUFFICES ASSUME Inv, OrderInv, pc = "done", honest, width > 0,
                    NEW x \in Index, NEW y \in Index, x < y
             PROVE  val(x) <= val(y)
  BY DEF SortedWhenDone, val
<1>1. 0 <= y
  BY ValInt
<1> QED BY <1>1 DEF OrderInv, Suffix

(* qsort with a comparator that orders the elements sorts, for arrays of    *)
(* every length, elements of every width and all keys.                      *)
THEOREM SortedTheorem == Spec => []SortedWhenDone
<1>1. Init => OrderInv
  BY DEF Init, OrderInv
<1> QED BY <1>1, InvGivesSorted, OrderStep, Invariance, PTL DEF Spec

-----------------------------------------------------------------------------
(* bsearch, whatever the array holds and whatever its comparator says.      *)
(* The element bsearch tries lies in the window, the halves on its sides.   *)
LEMMA TryInWindow ==
    ASSUME NEW m \in Nat, m > 0
    PROVE  m \div 2 \in Nat /\ m \div 2 < m /\ m - (m \div 2 + 1) \in Nat
           /\ 2 * (m \div 2) <= m /\ 2 * (m - (m \div 2 + 1)) <= m
  OBVIOUS

(* The invariant holds at the call.                                         *)
LEMMA SearchInitInv == B!Init => B!Inv
  BY LengthsAssumption, NullAssumption
  DEF B!Init, B!Inv, B!TypeOK, B!WindowInArray, B!Window, B!Answer, B!Array

(* Every turn of the loop preserves it.                                     *)
LEMMA SearchStepInv == B!Inv /\ [B!Next]_B!vars => B!Inv'
<1> SUFFICES ASSUME B!Inv, [B!Next]_B!vars PROVE B!Inv'
  OBVIOUS
<1>n. n \in Nat
  BY LengthsAssumption DEF B!Inv, B!TypeOK
<1>a. ASSUME UNCHANGED B!args
      PROVE  /\ B!Array' = B!Array /\ B!Sorted' = B!Sorted /\ n' = n
             /\ n' \in Lengths /\ honest' \in BOOLEAN
             /\ side' \in [B!Array' -> B!Signs]
  BY <1>a DEF B!args, B!Array, B!Sorted, B!Inv, B!TypeOK
<1>1. CASE B!Smaller
  <2>1. B!try \in B!Array
    BY <1>1, <1>n, TryInWindow DEF B!Smaller, B!try, B!Array, B!Inv, B!TypeOK, B!WindowInArray
  <2>2. honest => side[B!try] = -1
    BY <1>1, <2>1 DEF B!Smaller, B!cmp, B!Inv, B!TypeOK, B!Signs
  <2>3. B!TypeOK' /\ B!WindowInArray'
    BY <1>1, <1>n, <1>a, TryInWindow DEF B!Smaller, B!Inv, B!TypeOK, B!WindowInArray
  <2>4. ASSUME honest, B!Sorted, NEW x \in B!Array, x >= base + nel \div 2
        PROVE  side[x] = -1
    <3>1. x >= B!try
      BY <2>4 DEF B!try
    <3>2. side[x] <= side[B!try]
      BY <2>1, <2>4, <3>1 DEF B!Sorted
    <3> QED BY <2>2, <2>4, <3>2 DEF B!Inv, B!TypeOK, B!Signs
  <2>5. B!Window'
    BY <1>1, <1>a, <2>4 DEF B!Smaller, B!args, B!Inv, B!Window
  <2>6. B!Answer'
    BY <1>1, <1>a DEF B!Smaller, B!args, B!Inv, B!Answer
  <2> QED BY <2>3, <2>5, <2>6 DEF B!Inv
<1>2. CASE B!Greater
  <2>1. B!try \in B!Array
    BY <1>2, <1>n, TryInWindow DEF B!Greater, B!try, B!Array, B!Inv, B!TypeOK, B!WindowInArray
  <2>2. honest => side[B!try] = 1
    BY <1>2, <2>1 DEF B!Greater, B!cmp, B!Inv, B!TypeOK, B!Signs
  <2>3. B!TypeOK' /\ B!WindowInArray'
    BY <1>2, <1>n, <1>a, TryInWindow DEF B!Greater, B!try, B!Inv, B!TypeOK, B!WindowInArray
  <2>4. ASSUME honest, B!Sorted, NEW x \in B!Array, x < B!try + 1
        PROVE  side[x] = 1
    <3>1. x <= B!try
      BY <1>n, <2>1, <2>4 DEF B!Array
    <3>2. side[B!try] <= side[x]
      BY <2>1, <2>4, <3>1 DEF B!Sorted
    <3> QED BY <2>2, <2>4, <3>2 DEF B!Inv, B!TypeOK, B!Signs
  <2>5. base' + nel' = base + nel
    BY <1>2, TryInWindow DEF B!Greater, B!try, B!Inv, B!TypeOK
  <2>6. B!Window'
    BY <1>2, <1>a, <2>4, <2>5 DEF B!Greater, B!args, B!Inv, B!Window
  <2>7. B!Answer'
    BY <1>2, <1>a DEF B!Greater, B!args, B!Inv, B!Answer
  <2> QED BY <2>3, <2>6, <2>7 DEF B!Inv
<1>3. CASE B!Equal
  <2>1. B!try \in B!Array
    BY <1>3, <1>n, TryInWindow DEF B!Equal, B!try, B!Array, B!Inv, B!TypeOK, B!WindowInArray
  <2>2. honest => side[B!try] = 0
    BY <1>3 DEF B!Equal, B!cmp
  <2>3. B!TypeOK' /\ B!WindowInArray'
    BY <1>3, <1>n, <1>a, <2>1 DEF B!Equal, B!Array, B!Inv, B!TypeOK, B!WindowInArray
  <2>4. B!Window'
    BY <1>3 DEF B!Equal, B!Window
  <2>5. B!try # NULL
    BY <2>1, <1>n, NullAssumption DEF B!Array
  <2>6. B!Answer'
    BY <1>3, <1>a, <2>1, <2>2, <2>5 DEF B!Equal, B!args, B!Answer
  <2> QED BY <2>3, <2>4, <2>6 DEF B!Inv
<1>4. CASE B!Exhausted
  <2>1. B!TypeOK' /\ B!WindowInArray' /\ B!Window'
    BY <1>4, <1>a DEF B!Exhausted, B!Inv, B!TypeOK, B!WindowInArray, B!Window
  <2>2. ASSUME honest, B!Sorted, NEW x \in B!Array PROVE side[x] # 0
    BY <1>4, <1>n, <2>2 DEF B!Exhausted, B!Array, B!Inv, B!TypeOK, B!Window
  <2>3. B!Answer'
    BY <1>4, <1>a, <2>2 DEF B!Exhausted, B!args, B!Inv, B!Answer
  <2> QED BY <2>1, <2>3 DEF B!Inv
<1>5. CASE B!Done \/ UNCHANGED B!vars
  BY <1>5, <1>a DEF B!Done, B!vars, B!args, B!Inv, B!TypeOK, B!WindowInArray, B!Window, B!Answer
<1> QED BY <1>1, <1>2, <1>3, <1>4, <1>5 DEF B!Next

(* The invariant of bsearch's loop, for arrays of every length.             *)
THEOREM SearchInvariance == B!Spec => []B!Inv
  BY SearchInitInv, SearchStepInv, PTL DEF B!Spec

(* bsearch reads only elements of its array, for every comparator and array.*)
THEOREM WindowTheorem == B!Spec => []B!WindowInArray
  BY SearchInvariance, PTL DEF B!Inv

(* bsearch of a sorted array of any length returns an equal element when    *)
(* there is one and NULL when there is none.                                *)
THEOREM FindTheorem == B!Spec => []B!FindsIfPresent
<1>1. B!Inv => B!FindsIfPresent
  <2> SUFFICES ASSUME B!Inv, bpc = "done", honest, B!Sorted
               PROVE  IF \E x \in B!Array : side[x] = 0
                        THEN result \in B!Array /\ side[result] = 0
                        ELSE result = NULL
    BY DEF B!FindsIfPresent
  <2> QED BY DEF B!Inv, B!Answer
<1> QED BY <1>1, SearchInvariance, PTL

(* Every comparison bsearch makes halves its window.                        *)
THEOREM HalvingTheorem == B!Spec => B!Halves
<1>1. B!Inv /\ [B!Next]_B!vars => [bcmps' = bcmps + 1 => (bpc' = "done" \/ 2 * nel' <= nel)]_B!vars
  <2> SUFFICES ASSUME B!Inv, B!Next PROVE bcmps' = bcmps + 1 => (bpc' = "done" \/ 2 * nel' <= nel)
    OBVIOUS
  <2>1. nel \in Nat /\ bcmps \in Nat
    BY DEF B!Inv, B!TypeOK
  <2>2. CASE B!Smaller \/ B!Greater
    BY <2>1, <2>2, TryInWindow DEF B!Smaller, B!Greater
  <2>3. CASE B!Equal \/ B!Exhausted \/ B!Done
    BY <2>1, <2>3 DEF B!Equal, B!Exhausted, B!Done, B!vars
  <2> QED BY <2>2, <2>3 DEF B!Next
<1> QED BY <1>1, SearchInvariance, PTL DEF B!Spec, B!Halves
-----------------------------------------------------------------------------
(* The search after the sort: until bsearch is called its locals are as at  *)
(* first, and from then on its own invariant holds of the array as the sort *)
(* left it.                                                                 *)
SearchInv ==
    /\ bpc = "idle" => base = 0 /\ nel = 0 /\ result = NULL /\ bcmps = 0
    /\ bpc # "idle" => pc = "done" /\ target \in Int /\ B!Inv

AllInv == Inv /\ OrderInv /\ SearchInv

(* What the comparator says of each element, on its own.                    *)
LEMMA SideSigns ==
    ASSUME Inv, target \in Int
    PROVE  \A x \in Index : /\ Sign(target - val(x)) \in {-1, 0, 1}
                            /\ Sign(target - val(x)) = 0 <=> val(x) = target
<1>1. \A x \in Index : val(x) \in Int
  BY ONLY Inv, ValInt
<1> QED BY ONLY <1>1, target \in Int DEF Sign

(* bsearch starts on the whole array.                                       *)
LEMMA SearchBegins ==
    ASSUME AllInv, Search
    PROVE  AllInv'
<1>1. UNCHANGED <<args, a, pc>> /\ pc = "done" /\ target' \in Int
  BY TargetsAssumption DEF Search
<1>v. /\ n' = n /\ width' = width /\ honest' = honest /\ Index' = Index
      /\ \A x \in Index : val(x)' = val(x)
  BY ONLY <1>1, ValKept
<1>n. n \in Nat /\ \A x \in Index : val(x) \in Int /\ x \in Nat /\ x < n
  BY ONLY AllInv, ValInt DEF AllInv
<1>2. Inv'
  <2>1. ArrayOK' /\ Onto'
    BY <1>1 DEF AllInv, Inv, TypeOK, ArrayOK, Onto, args, Index
  <2>2. LoopsOK' /\ LoopInv'
    BY <1>1, <1>n, <1>v DEF AllInv, Inv, TypeOK, LoopsOK, LoopInv, Search
  <2> QED BY ONLY <2>1, <2>2 DEF Inv, TypeOK
<1>3. OrderInv'
  <2>1. honest /\ width > 0 => Suffix(0)
    BY ONLY AllInv, <1>1 DEF AllInv, OrderInv
  <2>2. honest' /\ width' > 0 => Suffix(0)'
    BY ONLY <1>v, <2>1 DEF Suffix
  <2>3. pc' = "done"
    BY ONLY <1>1
  <2> QED BY ONLY <2>2, <2>3 DEF OrderInv
<1>4. B!Inv'
  <2>1. base' = 0 /\ nel' = n /\ result' = NULL /\ bpc' = "loop" /\ bcmps' = 0
    BY DEF Search, AllInv, SearchInv
  <2>2. n \in Lengths /\ honest \in BOOLEAN
    BY DEF AllInv, Inv, TypeOK, ArrayOK
  <2>3. side' \in [Index' -> {-1, 0, 1}]
    <3>1. \A x \in Index' : Sign(target' - val(x)') \in {-1, 0, 1}
      BY ONLY <1>1, <1>n, <1>v DEF Sign
    <3> QED BY ONLY <3>1 DEF side, val
  <2>4. B!TypeOK'
    BY ONLY <1>n, <1>v, <2>1, <2>2, <2>3 DEF B!TypeOK, B!Array, B!Signs, Index
  <2>5. B!WindowInArray'
    BY ONLY <1>n, <1>v, <2>1 DEF B!WindowInArray
  <2>6. B!Window'
    BY ONLY <1>n, <1>v, <2>1 DEF B!Window, B!Array
  <2>7. B!Answer'
    BY ONLY <2>1 DEF B!Answer
  <2> QED BY ONLY <2>4, <2>5, <2>6, <2>7 DEF B!Inv
<1>5. bpc' = "loop" /\ pc' = "done"
  BY DEF Search
<1>6. SearchInv'
  BY ONLY <1>1, <1>4, <1>5 DEF SearchInv
<1> QED BY ONLY <1>2, <1>3, <1>6 DEF AllInv

(* Every step of the two calls preserves the invariant of both.             *)
LEMMA AllStep == AllInv /\ [AllNext]_allVars => AllInv'
<1> SUFFICES ASSUME AllInv, [AllNext]_allVars PROVE AllInv'
  OBVIOUS
<1>i. Inv /\ OrderInv /\ SearchInv
  BY DEF AllInv
<1>1. CASE SortStep
  <2>1. [Next]_vars /\ UNCHANGED searchVars /\ pc # "done"
    BY ONLY <1>1 DEF SortStep
  <2>2. Inv' /\ OrderInv'
    BY ONLY <1>i, <2>1, StepInv, OrderStep, LengthsAssumption, WidthsAssumption, KeysAssumption
  <2>3. bpc = "idle" /\ bpc' = bpc /\ base' = base /\ nel' = nel /\ result' = result /\ bcmps' = bcmps
    BY ONLY <1>i, <2>1 DEF SearchInv, searchVars
  <2>4. SearchInv'
    BY ONLY <1>i, <2>3 DEF SearchInv
  <2> QED BY ONLY <2>2, <2>4 DEF AllInv
<1>2. CASE Search
  BY ONLY AllInv, <1>2, SearchBegins
<1>3. CASE SearchStep
  <2>1. UNCHANGED vars /\ target' = target /\ bpc = "loop" /\ B!Next
    BY ONLY <1>3 DEF SearchStep
  <2>2. [Next]_vars /\ pc' = pc
    BY ONLY <2>1 DEF vars
  <2>3. Inv' /\ OrderInv'
    BY ONLY <1>i, <2>2, StepInv, OrderStep
  <2>4. B!Inv /\ B!Next /\ pc = "done" /\ target \in Int
    BY ONLY <1>i, <2>1 DEF SearchInv
  <2>5. B!Inv'
    BY ONLY <2>4, SearchStepInv, LengthsAssumption, NullAssumption
  <2>6. bpc' # "idle"
    BY ONLY <2>5 DEF B!Inv, B!TypeOK
  <2>7. SearchInv'
    BY ONLY <2>1, <2>2, <2>4, <2>5, <2>6 DEF SearchInv
  <2> QED BY ONLY <2>3, <2>7 DEF AllInv
<1>4. CASE AllDone \/ UNCHANGED allVars
  <2>1. UNCHANGED vars /\ UNCHANGED searchVars
    BY ONLY <1>4 DEF AllDone, allVars
  <2>2. [Next]_vars
    BY ONLY <2>1
  <2>3. Inv' /\ OrderInv'
    BY ONLY <1>i, <2>2, StepInv, OrderStep
  <2>4. SearchInv'
    <3>1. B!Inv => B!Inv'
      <4>1. UNCHANGED B!vars
        BY ONLY <2>1 DEF B!vars, vars, searchVars, Index, side
      <4> QED BY ONLY <4>1, SearchStepInv, LengthsAssumption, NullAssumption
    <3> QED BY ONLY <1>i, <2>1, <3>1 DEF SearchInv, vars, searchVars
  <2> QED BY ONLY <2>3, <2>4 DEF AllInv
<1> QED BY <1>1, <1>2, <1>3, <1>4 DEF AllNext

(* The invariant of a sort followed by a search, for every array, every     *)
(* comparator and every target.                                             *)
THEOREM AllInvariance == AllSpec => []AllInv
<1>1. AllInit => AllInv
  BY InitInv DEF AllInit, Init, AllInv, OrderInv, SearchInv
<1> QED BY <1>1, AllStep, PTL DEF AllSpec

(* bsearch reads only elements of the array, whatever the comparator        *)
(* answers, and on an array of any length that qsort has sorted finds the   *)
(* target exactly when the program's array had it.                          *)
THEOREM SearchTheorem == AllSpec => []SearchAfterSort
<1>1. AllInv => SearchAfterSort
  <2> SUFFICES ASSUME AllInv PROVE SearchAfterSort
    OBVIOUS
  <2>i. Inv /\ OrderInv /\ SearchInv
    BY DEF AllInv
  <2>1. bpc # "idle" => B!WindowInArray
    BY ONLY <2>i DEF SearchInv, B!Inv, B!WindowInArray, B!WindowInArray
  <2>2. ASSUME bpc = "done", honest, width > 0
        PROVE  IF \E e \in Index : key[e] = target
                 THEN result \in Index /\ key[a[result]] = target
                 ELSE result = NULL
    <3>n. n \in Nat /\ \A x \in Index : val(x) \in Int /\ x \in Nat /\ x < n
      BY ONLY <2>i, ValInt
    <3>1. B!Inv /\ pc = "done" /\ target \in Int
      BY ONLY <2>i, <2>2 DEF SearchInv
    <3>2. Suffix(0)
      BY ONLY <2>i, <2>2, <3>1 DEF OrderInv
    <3> DEFINE s(x) == Sign(target - val(x))
    <3>3. \A x \in Index : s(x) \in {-1, 0, 1} /\ (s(x) = 0 <=> val(x) = target)
      BY ONLY <2>i, <3>1, SideSigns
    <3>4. ASSUME NEW x \in Index, NEW y \in Index, x <= y PROVE s(y) <= s(x)
      <4>1. val(x) <= val(y)
        <5>1. CASE x = y
          BY ONLY <3>n, <3>4, <5>1
        <5>2. CASE x # y
          BY ONLY <3>n, <3>2, <3>4, <5>2 DEF Suffix
        <5> QED BY ONLY <5>1, <5>2
      <4> QED BY ONLY <3>n, <3>1, <3>4, <4>1 DEF Sign
    <3>5. Index = B!Array /\ \A x \in Index : side[x] = s(x)
      BY DEF Index, B!Array, val, side
    <3> HIDE DEF s
    <3>6. B!Sorted
      BY ONLY <3>4, <3>5 DEF B!Sorted
    <3>7. result = NULL => \A x \in Index : s(x) # 0
      BY ONLY <2>2, <3>1, <3>5, <3>6 DEF B!Inv, B!Answer
    <3>8. result # NULL => result \in Index /\ s(result) = 0
      BY ONLY <2>2, <3>1, <3>5, <3>6 DEF B!Inv, B!Answer
    <3>9. (\E e \in Index : key[e] = target) <=> (\E x \in Index : val(x) = target)
      BY ONLY <2>i DEF Inv, TypeOK, ArrayOK, Onto, val
    <3>10. CASE result = NULL
      BY ONLY <3>3, <3>7, <3>9, <3>10
    <3>11. CASE result # NULL
      BY ONLY <3>3, <3>8, <3>9, <3>11 DEF val
    <3> QED BY ONLY <3>10, <3>11
  <2> QED BY ONLY <2>1, <2>2 DEF SearchAfterSort
<1> QED BY <1>1, AllInvariance, PTL

(* The three promises of qsort also hold of the whole program.              *)
THEOREM SortInProgram == AllSpec => [](AccessesValid /\ Permutation /\ SortedWhenDone)
<1>1. AllInv => AccessesValid /\ Permutation /\ SortedWhenDone
  BY InvGivesAccesses, InvGivesPermutation, InvGivesSorted DEF AllInv
<1> QED BY <1>1, AllInvariance, PTL

-----------------------------------------------------------------------------
(* How many comparisons the two calls make.                                 *)

(* What holds of nothing and of one, and of a number if it holds of its     *)
(* half, holds of all.                                                      *)
LEMMA ByHalves ==
    ASSUME NEW S \in SUBSET Nat, 0 \in S, 1 \in S,
           \A m \in Nat : m >= 2 /\ m \div 2 \in S => m \in S
    PROVE  S = Nat
<1> SUFFICES ASSUME Nat \ S # {} PROVE FALSE
  OBVIOUS
<1>1. PICK m \in Nat \ S : \A y \in Nat \ S : m <= y
  <2>1. Nat \ S \subseteq Nat
    OBVIOUS
  <2> QED BY ONLY <2>1, Nat \ S # {}, LeastExists
<1>2. m >= 2
  BY ONLY m \in Nat \ S, 0 \in S, 1 \in S
<1>3. m \div 2 \in Nat /\ m \div 2 < m
  BY ONLY <1>2, m \in Nat \ S
<1>4. m \div 2 \in S
  BY ONLY <1>1, <1>3
<1> QED BY ONLY <1>2, <1>4, m \in Nat \ S, \A k \in Nat : k >= 2 /\ k \div 2 \in S => k \in S

(* What holds of one and of the successor of each, holds of all from one.   *)
LEMMA ByOnes ==
    ASSUME NEW S \in SUBSET Nat, 1 \in S, \A m \in S : m >= 1 => m + 1 \in S
    PROVE  \A m \in Nat : m >= 1 => m \in S
<1> DEFINE T == {m \in Nat : m >= 1 /\ m \notin S}
<1> SUFFICES ASSUME T # {} PROVE FALSE
  OBVIOUS
<1>1. PICK m \in T : \A y \in T : m <= y
  <2>1. T \subseteq Nat
    OBVIOUS
  <2> HIDE DEF T
  <2> QED BY ONLY <2>1, T # {}, LeastExists
<1>2. m \in Nat /\ m >= 1 /\ m \notin S
  OBVIOUS
<1>3. m # 1 /\ m - 1 \in Nat /\ m - 1 >= 1 /\ (m - 1) + 1 = m /\ ~(m <= m - 1)
  BY ONLY <1>2, 1 \in S
<1>4. m - 1 \in S
  BY ONLY <1>1, <1>3 DEF T
<1> QED BY ONLY <1>2, <1>3, <1>4, \A k \in S : k >= 1 => k + 1 \in S

(* h is computed from h of the half by e.                                   *)
Halving(h, z, e, top) ==
    h = [m \in top |-> IF m < 2 THEN z ELSE e[<<m, h[m \div 2]>>]]

(* Such a function exists up to every number: the value for one more comes  *)
(* from a half that is already there.                                       *)
LEMMA HalvingUpTo ==
    ASSUME NEW z \in Int, NEW e \in [Nat \X Int -> Int]
    PROVE  \A k \in Nat : k >= 1 => \E h \in [0 .. k -> Int] : Halving(h, z, e, 0 .. k)
<1> DEFINE S == {k \in Nat : \E h \in [0 .. k -> Int] : Halving(h, z, e, 0 .. k)}
<1>1. 1 \in S
  <2> DEFINE h == [m \in 0 .. 1 |-> z]
  <2>1. h \in [0 .. 1 -> Int]
    OBVIOUS
  <2>2. h = [m \in 0 .. 1 |-> IF m < 2 THEN z ELSE e[<<m, h[m \div 2]>>]]
    OBVIOUS
  <2> QED BY <2>1, <2>2 DEF Halving
<1>2. \A k \in S : k >= 1 => k + 1 \in S
  <2> TAKE k \in S
  <2>1. HAVE k >= 1
  <2>2. k \in Nat
    OBVIOUS
  <2>3. PICK h \in [0 .. k -> Int] : Halving(h, z, e, 0 .. k)
    OBVIOUS
  <2>4. \A m \in 0 .. k : h[m] = IF m < 2 THEN z ELSE e[<<m, h[m \div 2]>>]
    BY ONLY <2>3 DEF Halving
  <2>5. PICK r : r = [m \in 0 .. k + 1 |-> IF m = k + 1 THEN e[<<m, h[m \div 2]>>] ELSE h[m]]
    OBVIOUS
  <2>6. (k + 1) \div 2 \in 0 .. k /\ k + 1 \in Nat /\ k + 1 \in 0 .. k + 1 /\ ~(k + 1 < 2)
    BY ONLY <2>1, <2>2
  <2>7. \A m \in 0 .. k : r[m] = h[m]
    BY ONLY <2>2, <2>5
  <2>8. r[k + 1] = e[<<k + 1, h[(k + 1) \div 2]>>]
    BY ONLY <2>5, <2>6
  <2>9. r \in [0 .. k + 1 -> Int]
    <3>1. \A m \in 0 .. k + 1 : m = k + 1 \/ m \in 0 .. k
      BY ONLY <2>2
    <3>2. h[(k + 1) \div 2] \in Int
      BY ONLY <2>3, <2>6
    <3>3. r[k + 1] \in Int
      BY ONLY <2>6, <2>8, <3>2, e \in [Nat \X Int -> Int]
    <3>4. \A m \in 0 .. k + 1 : r[m] \in Int
      BY ONLY <2>3, <2>7, <3>1, <3>3
    <3> QED BY ONLY <2>5, <3>4
  <2>10. \A m \in 0 .. k + 1 : r[m] = IF m < 2 THEN z ELSE e[<<m, r[m \div 2]>>]
    <3> TAKE m \in 0 .. k + 1
    <3>1. CASE m = k + 1
      BY ONLY <2>6, <2>7, <2>8, <3>1
    <3>2. CASE m # k + 1
      <4>1. m \in 0 .. k /\ m \div 2 \in 0 .. k
        BY ONLY <2>2, <3>2, m \in 0 .. k + 1
      <4> QED BY ONLY <2>4, <2>7, <4>1
    <3> QED BY ONLY <3>1, <3>2
  <2>11. Halving(r, z, e, 0 .. k + 1)
    <3>1. r = [m \in 0 .. k + 1 |-> r[m]]
      BY ONLY <2>9
    <3> QED BY ONLY <2>10, <3>1 DEF Halving
  <2> QED BY ONLY <2>6, <2>9, <2>11 DEF S
<1> HIDE DEF S
<1>3. S \in SUBSET Nat
  BY DEF S
<1>4. \A m \in Nat : m >= 1 => m \in S
  BY ONLY <1>1, <1>2, <1>3, ByOnes
<1> QED BY ONLY <1>4 DEF S

(* Two of them agree where both are defined.                                *)
LEMMA HalvingAgrees ==
    ASSUME NEW z, NEW e, NEW j \in Nat, NEW k \in Nat, j <= k, NEW g, NEW h,
           Halving(g, z, e, 0 .. j), Halving(h, z, e, 0 .. k)
    PROVE  \A m \in 0 .. j : g[m] = h[m]
<1>1. /\ \A m \in 0 .. j : g[m] = IF m < 2 THEN z ELSE e[<<m, g[m \div 2]>>]
      /\ \A m \in 0 .. k : h[m] = IF m < 2 THEN z ELSE e[<<m, h[m \div 2]>>]
  BY DEF Halving
<1> DEFINE S == {m \in Nat : m <= j => g[m] = h[m]}
<1>2. S \in SUBSET Nat
  OBVIOUS
<1>3. 0 \in S /\ 1 \in S
  <2> SUFFICES ASSUME NEW m \in {0, 1}, m <= j PROVE g[m] = h[m]
    OBVIOUS
  <2>1. m \in 0 .. j /\ m \in 0 .. k /\ m < 2
    BY ONLY m \in {0, 1}, m <= j, j \in Nat, k \in Nat, j <= k
  <2>2. g[m] = z
    BY ONLY <1>1, <2>1
  <2>3. h[m] = z
    BY ONLY <1>1, <2>1
  <2> QED BY ONLY <2>2, <2>3
<1>4. \A m \in Nat : m >= 2 /\ m \div 2 \in S => m \in S
  <2> TAKE m \in Nat
  <2>1. HAVE m >= 2 /\ m \div 2 \in S
  <2>2. CASE m <= j
    <3>1. m \div 2 <= j /\ m \in 0 .. j /\ m \in 0 .. k /\ ~(m < 2)
      BY ONLY <2>1, <2>2, j \in Nat, k \in Nat, j <= k, m \in Nat
    <3>2. g[m \div 2] = h[m \div 2]
      BY ONLY <2>1, <3>1 DEF S
    <3> QED BY ONLY <1>1, <3>1, <3>2, m \in Nat DEF S
  <2>3. CASE ~(m <= j)
    BY ONLY <2>3, m \in Nat DEF S
  <2> QED BY ONLY <2>2, <2>3
<1> HIDE DEF S
<1>5. S = Nat
  BY ONLY <1>2, <1>3, <1>4, ByHalves
<1>6. \A m \in 0 .. j : m \in S /\ m <= j
  BY ONLY <1>5, j \in Nat
<1> QED BY ONLY <1>6 DEF S

(* So there is one on all numbers.                                          *)
LEMMA HalvingExists ==
    ASSUME NEW z \in Int, NEW e \in [Nat \X Int -> Int]
    PROVE  \E h \in [Nat -> Int] : Halving(h, z, e, Nat)
<1> DEFINE up(k) == CHOOSE h \in [0 .. k -> Int] : Halving(h, z, e, 0 .. k)
<1>1. \A k \in Nat : k >= 1 => up(k) \in [0 .. k -> Int] /\ Halving(up(k), z, e, 0 .. k)
  BY HalvingUpTo
<1> HIDE DEF up
<1>2. PICK h : h = [m \in Nat |-> up(m + 1)[m]]
  OBVIOUS
<1>3. \A m \in Nat : h[m] \in Int
  <2> TAKE m \in Nat
  <2>1. m + 1 \in Nat /\ m + 1 >= 1 /\ m \in 0 .. m + 1
    BY ONLY m \in Nat
  <2> QED BY ONLY <1>1, <1>2, <2>1, m \in Nat
<1>4. h \in [Nat -> Int]
  BY ONLY <1>2, <1>3
<1>5. \A m \in Nat : h[m] = IF m < 2 THEN z ELSE e[<<m, h[m \div 2]>>]
  <2> TAKE m \in Nat
  <2>1. PICK k \in Nat : k = m \div 2
    BY ONLY m \in Nat
  <2>2. /\ m + 1 \in Nat /\ m + 1 >= 1 /\ m \in 0 .. m + 1 /\ k + 1 \in Nat /\ k + 1 >= 1
        /\ k \in 0 .. k + 1 /\ k + 1 <= m + 1
    BY ONLY <2>1, m \in Nat
  <2>3. PICK g, f : g = up(k + 1) /\ f = up(m + 1)
    OBVIOUS
  <2>4. Halving(g, z, e, 0 .. k + 1) /\ Halving(f, z, e, 0 .. m + 1)
    BY ONLY <1>1, <2>2, <2>3
  <2>5. g[k] = f[k]
    <3>1. \A x \in 0 .. k + 1 : g[x] = f[x]
      BY ONLY <2>2, <2>4, HalvingAgrees
    <3> QED BY ONLY <2>2, <3>1
  <2>6. f[m] = IF m < 2 THEN z ELSE e[<<m, f[k]>>]
    BY ONLY <2>1, <2>2, <2>4 DEF Halving
  <2>7. h[m] = f[m] /\ h[k] = g[k]
    BY ONLY <1>2, <2>3, m \in Nat, k \in Nat
  <2> QED BY ONLY <2>1, <2>5, <2>6, <2>7
<1>6. h = [m \in Nat |-> h[m]]
  BY ONLY <1>2
<1> QED BY ONLY <1>4, <1>5, <1>6 DEF Halving

(* Log2 is defined by its recursion, and a number.                          *)
LEMMA Log2Is ==
    /\ Log2 \in [Nat -> Nat]
    /\ \A m \in Nat : Log2[m] = IF m < 2 THEN 0 ELSE 1 + Log2[m \div 2]
<1> DEFINE IsLog(h) == h = [m \in Nat |-> IF m < 2 THEN 0 ELSE 1 + h[m \div 2]]
<1>1. \E h : IsLog(h)
  <2>1. PICK e : e = [p \in Nat \X Int |-> 1 + p[2]]
    OBVIOUS
  <2>2. e \in [Nat \X Int -> Int] /\ \A m \in Nat, v \in Int : e[<<m, v>>] = 1 + v
    BY ONLY <2>1
  <2>3. PICK h \in [Nat -> Int] : Halving(h, 0, e, Nat)
    BY ONLY <2>2, HalvingExists, 0 \in Int
  <2>4. \A m \in Nat : m \div 2 \in Nat /\ h[m \div 2] \in Int
    BY ONLY h \in [Nat -> Int]
  <2>5. \A m \in Nat : h[m] = IF m < 2 THEN 0 ELSE 1 + h[m \div 2]
    BY ONLY <2>2, <2>3, <2>4 DEF Halving
  <2>6. h = [m \in Nat |-> h[m]]
    BY ONLY h \in [Nat -> Int]
  <2> QED BY ONLY <2>5, <2>6
<1>2. Log2 = CHOOSE h : IsLog(h)
  BY DEF Log2
<1>3. IsLog(Log2)
  <2> HIDE DEF IsLog
  <2> QED BY ONLY <1>1, <1>2, Zenon
<1>4. \A m \in Nat : Log2[m] = IF m < 2 THEN 0 ELSE 1 + Log2[m \div 2]
  BY ONLY <1>3
<1> DEFINE S == {m \in Nat : Log2[m] \in Nat}
<1>5. 0 \in S /\ 1 \in S
  BY ONLY <1>4
<1>6. \A m \in Nat : m >= 2 /\ m \div 2 \in S => m \in S
  BY ONLY <1>4
<1>7. S = Nat
  <2>1. S \in SUBSET Nat
    OBVIOUS
  <2> HIDE DEF S
  <2> QED BY ONLY <1>5, <1>6, <2>1, ByHalves
<1>8. Log2 = [m \in Nat |-> Log2[m]]
  BY ONLY <1>3
<1>9. \A m \in Nat : Log2[m] \in Nat
  BY ONLY <1>7
<1> QED BY ONLY <1>4, <1>8, <1>9

(* The greatest power of two that is not greater.                           *)
Pow[m \in Nat] == IF m < 2 THEN 1 ELSE 2 * Pow[m \div 2]

(* Pow is defined by its recursion, and a number.                           *)
LEMMA PowIs ==
    /\ \A m \in Nat : Pow[m] \in Nat
    /\ \A m \in Nat : Pow[m] = IF m < 2 THEN 1 ELSE 2 * Pow[m \div 2]
<1> DEFINE IsPow(h) == h = [m \in Nat |-> IF m < 2 THEN 1 ELSE 2 * h[m \div 2]]
<1>1. \E h : IsPow(h)
  <2>1. PICK e : e = [p \in Nat \X Int |-> 2 * p[2]]
    OBVIOUS
  <2>2. e \in [Nat \X Int -> Int] /\ \A m \in Nat, v \in Int : e[<<m, v>>] = 2 * v
    BY ONLY <2>1
  <2>3. PICK h \in [Nat -> Int] : Halving(h, 1, e, Nat)
    BY ONLY <2>2, HalvingExists, 1 \in Int
  <2>4. \A m \in Nat : m \div 2 \in Nat /\ h[m \div 2] \in Int
    BY ONLY h \in [Nat -> Int]
  <2>5. \A m \in Nat : h[m] = IF m < 2 THEN 1 ELSE 2 * h[m \div 2]
    BY ONLY <2>2, <2>3, <2>4 DEF Halving
  <2>6. h = [m \in Nat |-> h[m]]
    BY ONLY h \in [Nat -> Int]
  <2> QED BY ONLY <2>5, <2>6
<1>2. Pow = CHOOSE h : IsPow(h)
  BY DEF Pow
<1>3. IsPow(Pow)
  <2> HIDE DEF IsPow
  <2> QED BY ONLY <1>1, <1>2, Zenon
<1>4. \A m \in Nat : Pow[m] = IF m < 2 THEN 1 ELSE 2 * Pow[m \div 2]
  BY ONLY <1>3
<1> DEFINE S == {m \in Nat : Pow[m] \in Nat}
<1>5. 0 \in S /\ 1 \in S
  BY ONLY <1>4
<1>6. \A m \in Nat : m >= 2 /\ m \div 2 \in S => m \in S
  BY ONLY <1>4
<1>7. S = Nat
  <2>1. S \in SUBSET Nat
    OBVIOUS
  <2> HIDE DEF S
  <2> QED BY ONLY <1>5, <1>6, <2>1, ByHalves
<1> QED BY ONLY <1>4, <1>7

(* What building the heap has still to pay when r nodes are left: of m      *)
(* elements, one for each of the r that has a child, and as much again for  *)
(* the heap of half as many.                                                *)
Credit(r) ==
    LET g[m \in Nat] ==
            IF m < 2 THEN 0 ELSE (IF r <= m \div 2 THEN r ELSE m \div 2) + g[m \div 2]
    IN  g

(* Credit is defined by its recursion, and a number.                        *)
LEMMA CreditIs ==
    ASSUME NEW r \in Nat
    PROVE  /\ \A m \in Nat : Credit(r)[m] \in Nat
           /\ \A m \in Nat : Credit(r)[m] =
                 IF m < 2 THEN 0 ELSE (IF r <= m \div 2 THEN r ELSE m \div 2) + Credit(r)[m \div 2]
<1> DEFINE IsCredit(h) == h = [m \in Nat |->
               IF m < 2 THEN 0 ELSE (IF r <= m \div 2 THEN r ELSE m \div 2) + h[m \div 2]]
<1>1. \E h : IsCredit(h)
  <2>1. PICK e : e = [p \in Nat \X Int |-> (IF r <= p[1] \div 2 THEN r ELSE p[1] \div 2) + p[2]]
    OBVIOUS
  <2>2. /\ e \in [Nat \X Int -> Int]
        /\ \A m \in Nat, v \in Int : e[<<m, v>>] = (IF r <= m \div 2 THEN r ELSE m \div 2) + v
    BY ONLY <2>1, r \in Nat
  <2>3. PICK h \in [Nat -> Int] : Halving(h, 0, e, Nat)
    BY ONLY <2>2, HalvingExists, 0 \in Int
  <2>4. \A m \in Nat : m \div 2 \in Nat /\ h[m \div 2] \in Int
    BY ONLY h \in [Nat -> Int]
  <2>5. \A m \in Nat : h[m] =
           IF m < 2 THEN 0 ELSE (IF r <= m \div 2 THEN r ELSE m \div 2) + h[m \div 2]
    BY ONLY <2>2, <2>3, <2>4 DEF Halving
  <2>6. h = [m \in Nat |-> h[m]]
    BY ONLY h \in [Nat -> Int]
  <2> QED BY ONLY <2>5, <2>6
<1>2. Credit(r) = CHOOSE h : IsCredit(h)
  BY DEF Credit
<1> DEFINE c == Credit(r)
<1>3. IsCredit(c)
  <2> HIDE DEF IsCredit
  <2> QED BY ONLY <1>1, <1>2, Zenon
<1> HIDE DEF c
<1>4. \A m \in Nat : c[m] = IF m < 2 THEN 0 ELSE (IF r <= m \div 2 THEN r ELSE m \div 2) + c[m \div 2]
  BY ONLY <1>3
<1> DEFINE S == {m \in Nat : c[m] \in Nat}
<1>5. 0 \in S /\ 1 \in S
  BY ONLY <1>4
<1>6. \A m \in Nat : m >= 2 /\ m \div 2 \in S => m \in S
  BY ONLY <1>4, r \in Nat
<1>7. S = Nat
  <2>1. S \in SUBSET Nat
    OBVIOUS
  <2> HIDE DEF S
  <2> QED BY ONLY <1>5, <1>6, <2>1, ByHalves
<1> QED BY ONLY <1>4, <1>7 DEF c

(* Log2 grows.                                                              *)
LEMMA Log2Grows ==
    ASSUME NEW x \in Nat, NEW y \in Nat, x <= y PROVE Log2[x] <= Log2[y]
<1> DEFINE S == {m \in Nat : \A k \in Nat : k <= m => Log2[k] <= Log2[m]}
<1>1. \A m \in Nat : Log2[m] \in Nat /\ Log2[m] = IF m < 2 THEN 0 ELSE 1 + Log2[m \div 2]
  BY ONLY Log2Is
<1>2. 0 \in S /\ 1 \in S
  BY ONLY <1>1
<1>3. \A m \in Nat : m >= 2 /\ m \div 2 \in S => m \in S
  <2> TAKE m \in Nat
  <2>1. HAVE m >= 2 /\ m \div 2 \in S
  <2> SUFFICES ASSUME NEW k \in Nat, k <= m PROVE Log2[k] <= Log2[m]
    OBVIOUS
  <2>2. CASE k < 2
    BY ONLY <1>1, <2>2, m \in Nat, k \in Nat
  <2>3. CASE k >= 2
    <3>1. k \div 2 \in Nat /\ m \div 2 \in Nat /\ k \div 2 <= m \div 2
      BY ONLY k <= m, k \in Nat, m \in Nat
    <3>2. Log2[k \div 2] <= Log2[m \div 2]
      BY ONLY <2>1, <3>1 DEF S
    <3> QED BY ONLY <1>1, <2>1, <2>3, <3>1, <3>2, k \in Nat, m \in Nat
  <2> QED BY ONLY <2>2, <2>3, k \in Nat
<1>4. S = Nat
  <2>1. S \in SUBSET Nat
    OBVIOUS
  <2> HIDE DEF S
  <2> QED BY ONLY <1>2, <1>3, <2>1, ByHalves
<1> QED BY ONLY <1>4, x \in Nat, y \in Nat, x <= y DEF S

(* A number lies between its power and the next.                            *)
LEMMA PowBounds ==
    ASSUME NEW x \in Nat, x >= 1 PROVE Pow[x] <= x /\ x + 1 <= 2 * Pow[x]
<1> DEFINE S == {m \in Nat : m >= 1 => Pow[m] <= m /\ m + 1 <= 2 * Pow[m]}
<1>1. \A m \in Nat : Pow[m] \in Nat /\ Pow[m] = IF m < 2 THEN 1 ELSE 2 * Pow[m \div 2]
  BY ONLY PowIs
<1>2. 0 \in S /\ 1 \in S
  BY ONLY <1>1
<1>3. \A m \in Nat : m >= 2 /\ m \div 2 \in S => m \in S
  <2> TAKE m \in Nat
  <2>1. HAVE m >= 2 /\ m \div 2 \in S
  <2>2. PICK k \in Nat : k = m \div 2 /\ k >= 1 /\ 2 * k <= m /\ m <= 2 * k + 1
    BY ONLY <2>1, m \in Nat
  <2>3. Pow[k] <= k /\ k + 1 <= 2 * Pow[k]
    BY ONLY <2>1, <2>2
  <2>4. Pow[m] = 2 * Pow[k] /\ Pow[k] \in Nat
    BY ONLY <1>1, <2>1, <2>2, m \in Nat
  <2>5. Pow[m] <= m /\ m + 1 <= 2 * Pow[m]
    BY ONLY <2>2, <2>3, <2>4, m \in Nat
  <2> QED BY ONLY <2>5, m \in Nat DEF S
<1>4. S = Nat
  <2>1. S \in SUBSET Nat
    OBVIOUS
  <2> HIDE DEF S
  <2> QED BY ONLY <1>2, <1>3, <2>1, ByHalves
<1> QED BY ONLY <1>4, x \in Nat, x >= 1 DEF S

(* One more element: no new level, or the first element of a new one.       *)
LEMMA OneMore ==
    ASSUME NEW x \in Nat, x >= 1
    PROVE  \/ Log2[x + 1] = Log2[x] /\ Pow[x + 1] = Pow[x]
           \/ Log2[x + 1] = Log2[x] + 1 /\ Pow[x + 1] = 2 * Pow[x] /\ x + 1 = 2 * Pow[x]
<1> DEFINE T(m) == \/ Log2[m + 1] = Log2[m] /\ Pow[m + 1] = Pow[m]
                   \/ Log2[m + 1] = Log2[m] + 1 /\ Pow[m + 1] = 2 * Pow[m] /\ m + 1 = 2 * Pow[m]
           S == {m \in Nat : m >= 1 => T(m)}
<1>1. /\ \A m \in Nat : Pow[m] \in Nat /\ Pow[m] = IF m < 2 THEN 1 ELSE 2 * Pow[m \div 2]
      /\ \A m \in Nat : Log2[m] \in Nat /\ Log2[m] = IF m < 2 THEN 0 ELSE 1 + Log2[m \div 2]
  BY ONLY PowIs, Log2Is
<1>2. 0 \in S /\ 1 \in S
  <2>1. 2 \div 2 = 1 /\ 1 + 1 = 2 /\ 1 \in Nat /\ 2 \in Nat
    OBVIOUS
  <2>2. Pow[1] = 1 /\ Log2[1] = 0 /\ Pow[2] = 2 /\ Log2[2] = 1
    BY ONLY <1>1, <2>1
  <2>3. T(1)
    BY ONLY <2>1, <2>2
  <2> HIDE DEF T
  <2>4. 0 \in Nat /\ 1 \in Nat /\ ~(0 >= 1)
    OBVIOUS
  <2> QED BY ONLY <2>3, <2>4 DEF S
<1>3. \A m \in Nat : m >= 2 /\ m \div 2 \in S => m \in S
  <2> TAKE m \in Nat
  <2>1. HAVE m >= 2 /\ m \div 2 \in S
  <2>2. PICK k \in Nat : k = m \div 2 /\ k >= 1
    BY ONLY <2>1, m \in Nat
  <2>3. T(k)
    BY ONLY <2>1, <2>2
  <2>4. Pow[m] = 2 * Pow[k] /\ Log2[m] = 1 + Log2[k]
    BY ONLY <1>1, <2>1, <2>2, m \in Nat
  <2>5. m + 1 \in Nat /\ Pow[m + 1] = 2 * Pow[(m + 1) \div 2] /\ Log2[m + 1] = 1 + Log2[(m + 1) \div 2]
    BY ONLY <1>1, <2>1, m \in Nat
  <2>6. CASE m = 2 * k
    <3>1. (m + 1) \div 2 = k
      BY ONLY <2>6, k \in Nat
    <3>2. T(m)
      BY ONLY <2>4, <2>5, <3>1
    <3> QED BY ONLY <3>2, m \in Nat
  <2>7. CASE m = 2 * k + 1
    <3>1. (m + 1) \div 2 = k + 1 /\ k + 1 \in Nat
      BY ONLY <2>7, k \in Nat
    <3>2. Pow[k] \in Nat /\ Log2[k] \in Nat /\ Pow[k + 1] \in Nat /\ Log2[k + 1] \in Nat
      BY ONLY <1>1, <3>1
    <3>3. T(m)
      BY ONLY <2>3, <2>4, <2>5, <2>7, <3>1, <3>2
    <3> QED BY ONLY <3>3, m \in Nat
  <2>8. m = 2 * k \/ m = 2 * k + 1
    BY ONLY <2>2, m \in Nat
  <2> QED BY ONLY <2>6, <2>7, <2>8
<1>4. S = Nat
  <2>1. S \in SUBSET Nat
    OBVIOUS
  <2> HIDE DEF S
  <2> QED BY ONLY <1>2, <1>3, <2>1, ByHalves
<1> QED BY ONLY <1>4, x \in Nat, x >= 1 DEF S

(* The levels of all the heaps of 1 to e - 1 elements together, which is    *)
(* what the extractions from a heap of e elements can descend.              *)
Later(e) == e * Log2[e] - 2 * Pow[e] + 2

(* One extraction descends the levels of the heap it leaves.                *)
LEMMA LaterStep ==
    ASSUME NEW x \in Nat, x >= 1 PROVE Later(x + 1) = Later(x) + Log2[x] /\ Later(x) \in Int
<1>1. PICK l \in Nat : l = Log2[x]
  BY ONLY Log2Is, x \in Nat
<1>2. PICK p \in Nat : p = Pow[x]
  BY ONLY PowIs, x \in Nat
<1>3. x * l \in Int /\ (x + 1) * l = x * l + l /\ (x + 1) * (l + 1) = x * l + l + x + 1
  BY ONLY x \in Nat, l \in Nat
<1>4. Later(x) = x * l - 2 * p + 2 /\ Later(x + 1) = (x + 1) * Log2[x + 1] - 2 * Pow[x + 1] + 2
  BY ONLY <1>1, <1>2 DEF Later
<1>5. CASE Log2[x + 1] = l /\ Pow[x + 1] = p
  BY ONLY <1>1, <1>3, <1>4, <1>5, x \in Nat, l \in Nat, p \in Nat
<1>6. CASE Log2[x + 1] = l + 1 /\ Pow[x + 1] = 2 * p /\ x + 1 = 2 * p
  <2>1. Later(x + 1) = x * l + l + x + 1 - 2 * (2 * p) + 2
    BY ONLY <1>3, <1>4, <1>6
  <2>2. PICK w \in Int : w = x * l
    BY ONLY <1>3
  <2>3. w + l + x + 1 - 2 * (2 * p) + 2 = (w - 2 * p + 2) + l /\ w - 2 * p + 2 \in Int
    BY ONLY <1>6, x \in Nat, l \in Nat, p \in Nat, w \in Int
  <2> QED BY ONLY <1>1, <1>4, <2>1, <2>2, <2>3
<1> QED BY ONLY <1>1, <1>2, <1>5, <1>6, OneMore, x \in Nat, x >= 1

(* Later is a number.                                                       *)
LEMMA LaterNat ==
    ASSUME NEW x \in Nat, x >= 1 PROVE Later(x) \in Nat
<1> DEFINE S == {m \in Nat : Later(m) \in Nat}
<1>1. 1 \in S
  <2>1. Pow[1] = 1 /\ Log2[1] = 0
    BY ONLY PowIs, Log2Is
  <2>2. Later(1) = 0
    BY ONLY <2>1 DEF Later
  <2> QED BY ONLY <2>2
<1>2. \A m \in S : m >= 1 => m + 1 \in S
  <2> TAKE m \in S
  <2>1. HAVE m >= 1
  <2>2. m \in Nat /\ Later(m) \in Nat /\ Log2[m] \in Nat
    BY ONLY Log2Is, m \in S
  <2>3. Later(m + 1) = Later(m) + Log2[m]
    BY ONLY <2>1, <2>2, LaterStep
  <2> QED BY ONLY <2>2, <2>3
<1>3. \A m \in Nat : m >= 1 => m \in S
  <2>1. S \in SUBSET Nat
    OBVIOUS
  <2> HIDE DEF S
  <2> QED BY ONLY <1>1, <1>2, <2>1, ByOnes
<1> QED BY ONLY <1>3, x \in Nat, x >= 1 DEF S

(* Building a heap of m elements descends less than m levels altogether.    *)
LEMMA CreditBound ==
    ASSUME NEW r \in Nat, NEW x \in Nat, x >= 1 PROVE Credit(r)[x] <= x - 1
<1> DEFINE c == Credit(r)
           S == {m \in Nat : m >= 1 => c[m] <= m - 1}
<1>1. \A m \in Nat :
         /\ c[m] \in Nat
         /\ c[m] = IF m < 2 THEN 0 ELSE (IF r <= m \div 2 THEN r ELSE m \div 2) + c[m \div 2]
  BY ONLY CreditIs, r \in Nat
<1> HIDE DEF c
<1>2. 0 \in S /\ 1 \in S
  BY ONLY <1>1
<1>3. \A m \in Nat : m >= 2 /\ m \div 2 \in S => m \in S
  <2> TAKE m \in Nat
  <2>1. HAVE m >= 2 /\ m \div 2 \in S
  <2>2. PICK k \in Nat : k = m \div 2 /\ k >= 1 /\ 2 * k <= m
    BY ONLY <2>1, m \in Nat
  <2>3. c[k] <= k - 1 /\ c[k] \in Nat
    BY ONLY <1>1, <2>1, <2>2
  <2>4. c[m] = (IF r <= k THEN r ELSE k) + c[k]
    BY ONLY <1>1, <2>1, <2>2, m \in Nat
  <2>5. c[m] <= m - 1
    BY ONLY <2>2, <2>3, <2>4, m \in Nat, r \in Nat
  <2> QED BY ONLY <2>5, m \in Nat DEF S
<1>4. S = Nat
  <2>1. S \in SUBSET Nat
    OBVIOUS
  <2> HIDE DEF S
  <2> QED BY ONLY <1>2, <1>3, <2>1, ByHalves
<1> QED BY ONLY <1>4, x \in Nat, x >= 1 DEF S, c

(* No node is left to sift: nothing to pay.                                 *)
LEMMA CreditNone ==
    ASSUME NEW x \in Nat PROVE Credit(0)[x] = 0
<1> DEFINE c == Credit(0)
           S == {m \in Nat : c[m] = 0}
<1>1. \A m \in Nat :
         c[m] = IF m < 2 THEN 0 ELSE (IF 0 <= m \div 2 THEN 0 ELSE m \div 2) + c[m \div 2]
  BY ONLY CreditIs, 0 \in Nat
<1> HIDE DEF c
<1>2. 0 \in S /\ 1 \in S
  BY ONLY <1>1
<1>3. \A m \in Nat : m >= 2 /\ m \div 2 \in S => m \in S
  <2> TAKE m \in Nat
  <2>1. HAVE m >= 2 /\ m \div 2 \in S
  <2>2. m \div 2 \in Nat /\ 0 <= m \div 2 /\ c[m \div 2] = 0
    BY ONLY <2>1, m \in Nat
  <2>3. c[m] = 0
    BY ONLY <1>1, <2>1, <2>2, m \in Nat
  <2> QED BY ONLY <2>3, m \in Nat
<1>4. S = Nat
  <2>1. S \in SUBSET Nat
    OBVIOUS
  <2> HIDE DEF S
  <2> QED BY ONLY <1>2, <1>3, <2>1, ByHalves
<1> QED BY ONLY <1>4, x \in Nat DEF S, c

(* The levels below node x in a heap of m elements.                         *)
Depth(x, m) == Log2[m \div (x + 1)]

(* A quotient by another number.                                            *)
LEMMA Quotient ==
    ASSUME NEW m \in Nat, NEW y \in Nat, y >= 1
    PROVE  m \div y \in Nat /\ y * (m \div y) <= m /\ m < y * (m \div y) + y
  OBVIOUS

(* Halving a quotient is dividing the half.                                 *)
LEMMA HalfQuotient ==
    ASSUME NEW m \in Nat, NEW y \in Nat, y >= 1
    PROVE  /\ m \div (2 * y) = (m \div y) \div 2 /\ (m \div 2) \div y = (m \div y) \div 2
           /\ m \div (2 * y + 1) <= m \div (2 * y)
           /\ 2 * y <= m <=> m \div y >= 2
<1>1. m \div (2 * y) = (m \div y) \div 2
  OBVIOUS
<1>2. (m \div 2) \div y = (m \div y) \div 2
  OBVIOUS
<1>3. m \div (2 * y + 1) <= m \div (2 * y)
  OBVIOUS
<1>4. 2 * y <= m <=> m \div y >= 2
  OBVIOUS
<1> QED BY ONLY <1>1, <1>2, <1>3, <1>4

(* A child has a level less below it.                                       *)
LEMMA DepthStep ==
    ASSUME NEW x \in Nat, NEW m \in Nat, 2 * x + 1 < m, NEW k \in {2 * x + 1, 2 * x + 2}
    PROVE  Depth(x, m) \in Nat /\ Depth(k, m) \in Nat /\ Depth(k, m) + 1 <= Depth(x, m)
<1>1. PICK y \in Nat : y = x + 1 /\ y >= 1 /\ 2 * y <= m
  BY ONLY x \in Nat, m \in Nat, 2 * x + 1 < m
<1>2. k + 1 = 2 * y \/ k + 1 = 2 * y + 1
  BY ONLY <1>1, x \in Nat, k \in {2 * x + 1, 2 * x + 2}
<1>3. /\ m \div y \in Nat /\ m \div y >= 2 /\ (m \div y) \div 2 \in Nat
      /\ m \div (2 * y) = (m \div y) \div 2 /\ m \div (2 * y + 1) <= m \div (2 * y)
  <2>1. /\ m \div (2 * y) = (m \div y) \div 2 /\ m \div (2 * y + 1) <= m \div (2 * y)
        /\ m \div y >= 2
    BY ONLY <1>1, HalfQuotient, m \in Nat
  <2>2. m \div y \in Nat
    BY ONLY <1>1, Quotient, m \in Nat
  <2>3. \A q \in Nat : q \div 2 \in Nat
    OBVIOUS
  <2> QED BY ONLY <2>1, <2>2, <2>3
<1>4. m \div (2 * y) \in Nat /\ m \div (2 * y + 1) \in Nat
  <2>1. 2 * y \in Nat /\ 2 * y >= 1 /\ 2 * y + 1 \in Nat /\ 2 * y + 1 >= 1
    BY ONLY <1>1
  <2> QED BY ONLY <2>1, Quotient, m \in Nat
<1>5. m \div (k + 1) \in Nat /\ m \div (k + 1) <= (m \div y) \div 2
  BY ONLY <1>2, <1>3, <1>4
<1>6. PICK a0 \in Nat, b0 \in Nat, h0 \in Nat : a0 = m \div (k + 1) /\ b0 = m \div y /\ h0 = (m \div y) \div 2
  BY ONLY <1>3, <1>5
<1>7. /\ Log2[a0] \in Nat /\ Log2[b0] \in Nat /\ Log2[h0] \in Nat /\ Log2[b0] = 1 + Log2[h0]
      /\ Log2[a0] <= Log2[h0]
  <2>1. b0 >= 2 /\ h0 = b0 \div 2 /\ a0 <= h0
    BY ONLY <1>3, <1>5, <1>6
  <2>2. Log2[b0] = 1 + Log2[h0]
    BY ONLY <2>1, Log2Is, b0 \in Nat
  <2>3. Log2[a0] <= Log2[h0]
    BY ONLY <2>1, Log2Grows, a0 \in Nat, h0 \in Nat
  <2> QED BY ONLY <2>2, <2>3, Log2Is, a0 \in Nat, b0 \in Nat, h0 \in Nat
<1>8. Depth(x, m) = Log2[b0] /\ Depth(k, m) = Log2[a0]
  BY ONLY <1>1, <1>6 DEF Depth
<1> QED BY ONLY <1>7, <1>8

(* Depth is a number, and at the root all levels of the heap.               *)
LEMMA DepthIs ==
    ASSUME NEW x \in Nat, NEW m \in Nat PROVE Depth(x, m) \in Nat /\ Depth(0, m) = Log2[m]
<1>1. m \div (x + 1) \in Nat /\ m \div (0 + 1) = m
  BY ONLY x \in Nat, m \in Nat
<1> QED BY ONLY <1>1, Log2Is DEF Depth

(* Sifting node r - 1 pays for the levels below it.                         *)
LEMMA CreditStep ==
    ASSUME NEW r \in Nat, r >= 1, NEW x \in Nat
    PROVE  Credit(r)[x] = Credit(r - 1)[x] + Depth(r - 1, x)
<1> DEFINE c == Credit(r)
           d == Credit(r - 1)
           S == {m \in Nat : c[m] = d[m] + Log2[m \div r]}
<1>1. \A m \in Nat :
         c[m] = IF m < 2 THEN 0 ELSE (IF r <= m \div 2 THEN r ELSE m \div 2) + c[m \div 2]
  BY ONLY CreditIs, r \in Nat
<1>2. \A m \in Nat :
         /\ d[m] \in Nat
         /\ d[m] = IF m < 2 THEN 0 ELSE (IF r - 1 <= m \div 2 THEN r - 1 ELSE m \div 2) + d[m \div 2]
  BY ONLY CreditIs, r - 1 \in Nat
<1> HIDE DEF c, d
<1>3. 0 \in S /\ 1 \in S
  <2> SUFFICES ASSUME NEW m \in {0, 1} PROVE c[m] = d[m] + Log2[m \div r]
    OBVIOUS
  <2>1. m \in Nat /\ m < 2 /\ m \div r \in Nat /\ m \div r < 2
    BY ONLY r \in Nat, r >= 1, m \in {0, 1}
  <2>2. c[m] = 0 /\ d[m] = 0
    BY ONLY <1>1, <1>2, <2>1
  <2>3. Log2[m \div r] = 0
    BY ONLY <2>1, Log2Is
  <2> QED BY ONLY <2>2, <2>3
<1>4. \A m \in Nat : m >= 2 /\ m \div 2 \in S => m \in S
  <2> TAKE m \in Nat
  <2>1. HAVE m >= 2 /\ m \div 2 \in S
  <2>2. PICK k \in Nat : k = m \div 2
    BY ONLY m \in Nat
  <2>3. c[k] = d[k] + Log2[k \div r]
    BY ONLY <2>1, <2>2
  <2>4. /\ c[m] = (IF r <= k THEN r ELSE k) + c[k] /\ d[k] \in Nat
        /\ d[m] = (IF r - 1 <= k THEN r - 1 ELSE k) + d[k]
    BY ONLY <1>1, <1>2, <2>1, <2>2, m \in Nat
  <2>5. PICK q \in Nat : q = m \div r
    BY ONLY Quotient, m \in Nat, r \in Nat, r >= 1
  <2>6. k \div r = q \div 2 /\ (2 * r <= m <=> q >= 2)
    BY ONLY <2>2, <2>5, HalfQuotient, m \in Nat, r \in Nat, r >= 1
  <2>7. (r <= k <=> 2 * r <= m) /\ q \div 2 \in Nat
    BY ONLY <2>2, <2>5, m \in Nat, r \in Nat
  <2>8. Log2[q] = (IF q < 2 THEN 0 ELSE 1 + Log2[q \div 2]) /\ Log2[q \div 2] \in Nat
    BY ONLY <2>7, Log2Is, q \in Nat
  <2>9. CASE r <= k
    <3>1. c[m] = r + c[k] /\ d[m] = (r - 1) + d[k] /\ Log2[q] = 1 + Log2[q \div 2]
      BY ONLY <2>4, <2>6, <2>7, <2>8, <2>9, r \in Nat, k \in Nat, q \in Nat
    <3>2. c[m] = d[m] + Log2[q]
      BY ONLY <2>3, <2>4, <2>6, <2>8, <3>1, r \in Nat
    <3> QED BY ONLY <2>5, <3>2, m \in Nat
  <2>10. CASE ~(r <= k)
    <3>1. q < 2 /\ q \div 2 = 0
      BY ONLY <2>6, <2>7, <2>10, q \in Nat
    <3>2. Log2[q] = 0 /\ Log2[q \div 2] = 0
      BY ONLY <2>8, <3>1, Log2Is
    <3>3. c[m] = k + c[k] /\ d[m] = k + d[k]
      BY ONLY <2>4, <2>10, r \in Nat, k \in Nat
    <3>4. c[m] = d[m] + Log2[q]
      BY ONLY <2>3, <2>4, <2>6, <3>2, <3>3, k \in Nat
    <3> QED BY ONLY <2>5, <3>4, m \in Nat
  <2> QED BY ONLY <2>9, <2>10
<1>5. S = Nat
  <2>1. S \in SUBSET Nat
    OBVIOUS
  <2> HIDE DEF S
  <2> QED BY ONLY <1>3, <1>4, <2>1, ByHalves
<1>6. (r - 1) + 1 = r
  BY ONLY r \in Nat
<1> QED BY ONLY <1>5, <1>6, x \in Nat DEF S, c, d, Depth

(* Building the heap and taking it apart again is paid for by one descent   *)
(* of all levels for each element.                                          *)
LEMMA CreditSuffices ==
    ASSUME NEW r \in Nat, NEW x \in Nat, x >= 1
    PROVE  Credit(r)[x] + Later(x) <= x * Log2[x]
<1>1. Credit(r)[x] <= x - 1 /\ Credit(r)[x] \in Nat
  BY ONLY CreditBound, CreditIs, r \in Nat, x \in Nat, x >= 1
<1>2. PICK p \in Nat : p = Pow[x] /\ x + 1 <= 2 * p
  BY ONLY PowBounds, PowIs, x \in Nat, x >= 1
<1>3. PICK l \in Nat : l = Log2[x]
  BY ONLY Log2Is, x \in Nat
<1>4. PICK w \in Int : w = x * l
  BY ONLY x \in Nat, l \in Nat
<1>5. Later(x) = w - 2 * p + 2
  BY ONLY <1>2, <1>3, <1>4 DEF Later
<1> QED BY ONLY <1>1, <1>2, <1>3, <1>4, <1>5, x \in Nat

(* What the sifts still to come can descend.                                *)
Ahead == IF end = 0 THEN Later(n) + Credit(root)[n] ELSE Later(end)

(* Two comparisons for each level: those made, those of the sift in         *)
(* progress and those of the sifts to come stay within the bound.           *)
Cost == 2 * (n * Log2[n])

CostInv ==
    /\ cmps \in Nat
    /\ n < 2 => cmps = 0
    /\ pc = "start" => cmps = 0
    /\ pc = "build" => cmps + 2 * Ahead <= Cost
    /\ pc = "extract" => cmps + 2 * Ahead <= Cost
    /\ pc \in {"sift", "pick", "parent"} => limit = IF end = 0 THEN n ELSE end
    /\ pc \in {"sift", "pick"} => cmps + 2 * (Ahead + Depth(i, limit)) <= Cost
    /\ pc = "parent" => cmps + 2 * (Ahead + Depth(i, limit)) <= Cost + 1
    /\ pc = "done" => cmps <= Cost

(* bsearch has a comparison left for each halving of its window.            *)
SearchCost ==
    /\ bpc = "idle" => bcmps = 0
    /\ bpc # "idle" /\ n = 0 => bcmps = 0
    /\ bpc # "idle" /\ n > 0 => bcmps <= 1 + Log2[n]
    /\ bpc = "loop" /\ nel > 0 => bcmps + Log2[nel] <= Log2[n]

(* What is ahead, and the bound, are numbers.                               *)
LEMMA CostNat ==
    ASSUME n \in Nat, n >= 1, root \in Nat, end \in Nat
    PROVE  Ahead \in Nat /\ Cost \in Nat
<1>1. Later(n) \in Nat /\ Credit(root)[n] \in Nat
  BY ONLY LaterNat, CreditIs, n \in Nat, n >= 1, root \in Nat
<1>2. end # 0 => Later(end) \in Nat
  BY ONLY LaterNat, end \in Nat
<1>3. Log2[n] \in Nat
  BY ONLY Log2Is, n \in Nat
<1>4. n * Log2[n] \in Nat
  BY ONLY <1>3, n \in Nat
<1> QED BY ONLY <1>1, <1>2, <1>4 DEF Ahead, Cost

(* Every step of qsort keeps to the bound.                                  *)
LEMMA CostStep ==
    ASSUME Inv, CostInv, [Next]_vars PROVE CostInv'
<1>t. /\ n \in Nat /\ root \in Nat /\ end \in Nat /\ i \in Nat /\ limit \in Nat /\ child \in Nat
      /\ cmps \in Nat /\ LoopInv
  BY ONLY Inv, LengthsAssumption DEF Inv, TypeOK, ArrayOK, LoopsOK
<1>n. pc \in {"build", "extract", "sift", "pick", "parent"} => n >= 2 /\ Ahead \in Nat /\ Cost \in Nat
  <2> SUFFICES ASSUME pc \in {"build", "extract", "sift", "pick", "parent"}
               PROVE  n >= 2 /\ Ahead \in Nat /\ Cost \in Nat
    OBVIOUS
  <2>1. n >= 2
    BY ONLY <1>t, pc \in {"build", "extract", "sift", "pick", "parent"} DEF LoopInv
  <2> QED BY ONLY <1>t, <2>1, CostNat
<1>d. Depth(i, limit) \in Nat
  BY ONLY <1>t, DepthIs
<1>1. CASE Start
  <2>1. pc = "start" /\ cmps' = cmps /\ n' = n /\ end' = end /\ cmps = 0 /\ end = 0
    BY ONLY <1>1, <1>t, CostInv DEF Start, args, CostInv, LoopInv
  <2>2. CASE n < 2 \/ width = 0
    <3>1. pc' = "done"
      BY ONLY <1>1, <2>2 DEF Start
    <3>2. Log2[n] \in Nat
      BY ONLY <1>t, Log2Is
    <3>3. n * Log2[n] \in Nat
      BY ONLY <1>t, <3>2
    <3>4. Cost' >= 0
      BY ONLY <2>1, <3>3 DEF Cost
    <3> QED BY ONLY <2>1, <3>1, <3>4 DEF CostInv
  <2>3. CASE ~(n < 2 \/ width = 0)
    <3>1. pc' = "build" /\ root' = n \div 2
      BY ONLY <1>1, <2>3 DEF Start
    <3>2. n >= 1 /\ n \div 2 \in Nat /\ ~(n < 2)
      BY ONLY <1>t, <2>3
    <3>3. Credit(n \div 2)[n] + Later(n) <= n * Log2[n]
      BY ONLY <1>t, <3>2, CreditSuffices
    <3>4. Ahead' = Later(n) + Credit(n \div 2)[n] /\ Cost' = 2 * (n * Log2[n])
      BY ONLY <2>1, <3>1 DEF Ahead, Cost
    <3>5. Later(n) \in Nat /\ Credit(n \div 2)[n] \in Nat /\ Log2[n] \in Nat
      BY ONLY <1>t, <3>2, LaterNat, CreditIs, Log2Is
    <3>6. n * Log2[n] \in Nat
      BY ONLY <1>t, <3>5
    <3>7. 0 + 2 * Ahead' <= Cost'
      BY ONLY <3>3, <3>4, <3>5, <3>6
    <3> QED BY ONLY <2>1, <3>1, <3>2, <3>7 DEF CostInv
  <2> QED BY ONLY <2>2, <2>3
<1>2. CASE Build
  <2>1. /\ pc = "build" /\ root > 0 /\ root' = root - 1 /\ i' = root - 1 /\ limit' = n /\ pc' = "sift"
        /\ n' = n /\ end' = end /\ cmps' = cmps /\ end = 0 /\ cmps + 2 * Ahead <= Cost
    BY ONLY <1>2, <1>t, CostInv DEF Build, args, CostInv, LoopInv
  <2>2. Credit(root)[n] = Credit(root - 1)[n] + Depth(root - 1, n)
    BY ONLY <1>t, <2>1, CreditStep
  <2>3. Ahead' = Later(n) + Credit(root - 1)[n] /\ Ahead = Later(n) + Credit(root)[n] /\ Cost' = Cost
    BY ONLY <2>1 DEF Ahead, Cost
  <2>4. Depth(i, limit)' = Depth(root - 1, n)
    BY ONLY <2>1 DEF Depth
  <2>5. n >= 2 /\ root - 1 \in Nat
    BY ONLY <1>n, <1>t, <2>1
  <2>6. Later(n) \in Nat /\ Credit(root - 1)[n] \in Nat /\ Depth(root - 1, n) \in Nat
    BY ONLY <1>t, <2>5, LaterNat, CreditIs, DepthIs
  <2>7. Ahead' + Depth(i, limit)' = Ahead
    BY ONLY <2>2, <2>3, <2>4, <2>6
  <2> QED BY ONLY <1>t, <2>1, <2>3, <2>5, <2>7 DEF CostInv
<1>3. CASE Built
  <2>1. /\ pc = "build" /\ root = 0 /\ end' = n /\ pc' = "extract" /\ n' = n /\ cmps' = cmps
        /\ end = 0 /\ cmps + 2 * Ahead <= Cost
    BY ONLY <1>3, <1>t, CostInv DEF Built, args, CostInv, LoopInv
  <2>2. n >= 2 /\ Later(n) \in Nat
    BY ONLY <1>n, <1>t, <2>1, LaterNat
  <2>3. Credit(0)[n] = 0
    BY ONLY <1>t, CreditNone
  <2>4. Ahead' = Later(n) /\ Ahead = Later(n) + Credit(0)[n] /\ Cost' = Cost
    BY ONLY <1>t, <2>1, <2>2 DEF Ahead, Cost
  <2>5. Ahead' = Ahead
    BY ONLY <2>2, <2>3, <2>4
  <2> QED BY ONLY <1>t, <2>1, <2>2, <2>4, <2>5 DEF CostInv
<1>4. CASE Extract
  <2>1. /\ pc = "extract" /\ end > 1 /\ end' = end - 1 /\ i' = 0 /\ limit' = end - 1 /\ pc' = "sift"
        /\ n' = n /\ cmps' = cmps /\ cmps + 2 * Ahead <= Cost
    BY ONLY <1>4, CostInv DEF Extract, args, CostInv
  <2>2. PICK e \in Nat : e = end - 1 /\ e >= 1 /\ end = e + 1 /\ e # 0 /\ end # 0
    BY ONLY <1>t, <2>1
  <2>3. Later(e + 1) = Later(e) + Log2[e] /\ Depth(0, e) = Log2[e]
    BY ONLY <2>2, LaterStep, DepthIs, 0 \in Nat
  <2>4. Ahead = Later(e + 1) /\ Ahead' = Later(e) /\ Depth(i, limit)' = Depth(0, e) /\ Cost' = Cost
    BY ONLY <2>1, <2>2 DEF Ahead, Depth, Cost
  <2>5. Ahead' + Depth(i, limit)' = Ahead
    BY ONLY <2>3, <2>4
  <2>6. n >= 2
    BY ONLY <1>n, <2>1
  <2> QED BY ONLY <1>t, <2>1, <2>2, <2>4, <2>5, <2>6 DEF CostInv
<1>5. CASE Finish
  <2>1. pc = "extract" /\ pc' = "done" /\ n' = n /\ cmps' = cmps /\ cmps + 2 * Ahead <= Cost
    BY ONLY <1>5, CostInv DEF Finish, args, CostInv
  <2>2. n >= 2 /\ Ahead \in Nat /\ Cost \in Nat /\ Cost' = Cost
    BY ONLY <1>n, <2>1 DEF Cost
  <2> QED BY ONLY <1>t, <2>1, <2>2 DEF CostInv
<1>6. CASE SiftLeaf \/ SiftChild
  <2>1. /\ pc = "sift" /\ UNCHANGED <<n, root, end, i, limit, cmps>>
        /\ cmps + 2 * (Ahead + Depth(i, limit)) <= Cost
        /\ limit = IF end = 0 THEN n ELSE end
        /\ pc' \in {"pick", "parent"} \/ pc' = IF end = 0 THEN "build" ELSE "extract"
    BY ONLY <1>6, CostInv DEF SiftLeaf, SiftChild, SiftReturn, args, CostInv
  <2>2. n >= 2 /\ Ahead \in Nat /\ Cost \in Nat
    BY ONLY <1>n, <2>1
  <2>3. Ahead' = Ahead /\ Cost' = Cost /\ Depth(i, limit)' = Depth(i, limit)
    BY ONLY <2>1 DEF Ahead, Cost, Depth
  <2>4. cmps' + 2 * (Ahead' + Depth(i, limit)') <= Cost' /\ cmps' + 2 * Ahead' <= Cost'
    BY ONLY <1>t, <1>d, <2>1, <2>2, <2>3
  <2>5. Cost' \in Nat /\ Ahead' \in Nat /\ Depth(i, limit)' \in Nat /\ cmps' \in Nat
    BY ONLY <1>t, <1>d, <2>1, <2>2, <2>3
  <2>6. cmps' + 2 * (Ahead' + Depth(i, limit)') <= Cost' + 1
    BY ONLY <2>4, <2>5
  <2>7. n' = n /\ ~(n < 2) /\ limit' = IF end' = 0 THEN n' ELSE end'
    BY ONLY <1>t, <2>1, <2>2
  <2>8. CASE pc' \in {"pick", "parent"}
    BY ONLY <2>4, <2>5, <2>6, <2>7, <2>8 DEF CostInv
  <2>9. CASE pc' = IF end = 0 THEN "build" ELSE "extract"
    BY ONLY <2>4, <2>5, <2>7, <2>9 DEF CostInv
  <2> QED BY ONLY <2>1, <2>8, <2>9
<1>7. CASE Pick
  <2>1. /\ pc = "pick" /\ UNCHANGED <<n, root, end, i, limit>> /\ cmps' = cmps + 1 /\ pc' = "parent"
        /\ cmps + 2 * (Ahead + Depth(i, limit)) <= Cost
        /\ limit = IF end = 0 THEN n ELSE end
    BY ONLY <1>7, CostInv DEF Pick, args, CostInv
  <2>2. n >= 2 /\ Ahead \in Nat /\ Cost \in Nat
    BY ONLY <1>n, <2>1
  <2>3. Ahead' = Ahead /\ Cost' = Cost /\ Depth(i, limit)' = Depth(i, limit)
    BY ONLY <2>1 DEF Ahead, Cost, Depth
  <2>4. cmps' + 2 * (Ahead' + Depth(i, limit)') <= Cost' + 1 /\ cmps' \in Nat
    BY ONLY <1>t, <1>d, <2>1, <2>2, <2>3
  <2>5. n' = n /\ ~(n < 2) /\ pc' = "parent" /\ limit' = IF end' = 0 THEN n' ELSE end'
    BY ONLY <1>t, <2>1, <2>2
  <2> QED BY ONLY <2>4, <2>5 DEF CostInv
<1>8. CASE InPlace \/ Descend
  <2>1. /\ pc = "parent" /\ UNCHANGED <<n, root, end, limit>> /\ cmps' = cmps + 1
        /\ cmps + 2 * (Ahead + Depth(i, limit)) <= Cost + 1
        /\ limit = IF end = 0 THEN n ELSE end
        /\ \/ pc' = IF end = 0 THEN "build" ELSE "extract"
           \/ pc' = "sift" /\ i' = child
    BY ONLY <1>8, CostInv DEF InPlace, Descend, SiftReturn, args, CostInv
  <2>2. n >= 2 /\ Ahead \in Nat /\ Cost \in Nat /\ child \in {2 * i + 1, 2 * i + 2} /\ 2 * i + 1 < limit
    BY ONLY <1>n, <1>t, <2>1 DEF LoopInv
  <2>3. Ahead' = Ahead /\ Cost' = Cost /\ (i' = child => Depth(i, limit)' = Depth(child, limit))
    BY ONLY <2>1 DEF Ahead, Cost, Depth
  <2>4. Depth(child, limit) \in Nat /\ Depth(child, limit) + 1 <= Depth(i, limit)
    BY ONLY <1>t, <2>2, DepthStep
  <2>5. /\ cmps' + 2 * Ahead <= Cost /\ cmps' + 2 * (Ahead + Depth(child, limit)) <= Cost
        /\ cmps' \in Nat
    BY ONLY <1>t, <1>d, <2>1, <2>2, <2>4
  <2>6. n' = n /\ ~(n < 2) /\ limit' = IF end' = 0 THEN n' ELSE end'
    BY ONLY <1>t, <2>1, <2>2
  <2>7. cmps' + 2 * Ahead' <= Cost' /\ (i' = child => cmps' + 2 * (Ahead' + Depth(i, limit)') <= Cost')
    BY ONLY <2>3, <2>5
  <2>8. CASE pc' = IF end = 0 THEN "build" ELSE "extract"
    BY ONLY <2>5, <2>6, <2>7, <2>8 DEF CostInv
  <2>9. CASE pc' = "sift" /\ i' = child
    BY ONLY <2>5, <2>6, <2>7, <2>9 DEF CostInv
  <2> QED BY ONLY <2>1, <2>8, <2>9
<1>9. CASE Done \/ UNCHANGED vars
  <2>1. UNCHANGED <<n, pc, root, end, i, limit, cmps>>
    BY ONLY <1>9 DEF Done, vars
  <2>2. Ahead' = Ahead /\ Cost' = Cost /\ Depth(i, limit)' = Depth(i, limit)
    BY ONLY <2>1 DEF Ahead, Cost, Depth
  <2> QED BY ONLY <2>1, <2>2, CostInv DEF CostInv
<1> QED BY <1>1, <1>2, <1>3, <1>4, <1>5, <1>6, <1>7, <1>8, <1>9 DEF Next

(* Every turn of bsearch's loop keeps to its bound.                         *)
LEMMA SearchCostStep ==
    ASSUME B!Inv, SearchCost, bpc # "idle", B!Next, n' = n, n \in Nat PROVE SearchCost'
<1>1. /\ nel \in Nat /\ base \in Nat /\ bcmps \in Nat /\ nel <= n /\ bpc \in {"loop", "done"}
      /\ Log2[n] \in Nat
  <2>1. nel \in Nat /\ base \in Nat /\ bcmps \in Nat /\ bpc \in {"loop", "done"} /\ base + nel <= n
    BY ONLY B!Inv DEF B!Inv, B!TypeOK, B!WindowInArray
  <2>2. Log2[n] \in Nat
    BY ONLY Log2Is, n \in Nat
  <2> QED BY ONLY <2>1, <2>2, n \in Nat
<1>2. CASE B!Smaller \/ B!Greater
  <2>1. /\ bpc = "loop" /\ bpc' = bpc /\ nel > 0 /\ bcmps' = bcmps + 1
        /\ nel' = nel \div 2 \/ nel' = nel - (nel \div 2 + 1)
    BY ONLY <1>2 DEF B!Smaller, B!Greater
  <2>2. nel' \in Nat /\ nel' <= nel \div 2 /\ nel \div 2 \in Nat /\ n > 0
    BY ONLY <1>1, <2>1, n \in Nat
  <2>3. bcmps + Log2[nel] <= Log2[n] /\ Log2[nel] \in Nat
    BY ONLY <1>1, <2>1, SearchCost, Log2Is DEF SearchCost
  <2>4. bcmps' <= 1 + Log2[n]
    BY ONLY <1>1, <2>1, <2>3
  <2>5. ASSUME nel' > 0 PROVE bcmps' + Log2[nel'] <= Log2[n]
    <3>1. ~(nel < 2)
      BY ONLY <1>1, <2>2, <2>5
    <3>2. Log2[nel] = 1 + Log2[nel \div 2] /\ Log2[nel \div 2] \in Nat /\ Log2[nel'] \in Nat
      BY ONLY <1>1, <2>2, <3>1, Log2Is
    <3>3. Log2[nel'] <= Log2[nel \div 2]
      BY ONLY <2>2, Log2Grows
    <3> QED BY ONLY <1>1, <2>1, <2>3, <3>2, <3>3
  <2> QED BY ONLY <2>1, <2>2, <2>4, <2>5, n' = n, n \in Nat DEF SearchCost
<1>3. CASE B!Equal
  <2>1. bpc = "loop" /\ bpc' = "done" /\ nel > 0 /\ bcmps' = bcmps + 1
    BY ONLY <1>3 DEF B!Equal
  <2>2. bcmps + Log2[nel] <= Log2[n] /\ Log2[nel] \in Nat /\ n > 0
    BY ONLY <1>1, <2>1, SearchCost, Log2Is, n \in Nat DEF SearchCost
  <2>3. bcmps' <= 1 + Log2[n]
    BY ONLY <1>1, <2>1, <2>2
  <2> QED BY ONLY <2>1, <2>2, <2>3, n' = n, n \in Nat DEF SearchCost
<1>4. CASE B!Exhausted \/ B!Done
  <2>1. bcmps' = bcmps /\ (bpc' = "done" \/ (bpc' = bpc /\ nel' = nel))
    BY ONLY <1>4 DEF B!Exhausted, B!Done, B!vars
  <2> QED BY ONLY <1>1, <2>1, SearchCost, bpc # "idle", n' = n DEF SearchCost
<1> QED BY ONLY <1>2, <1>3, <1>4, B!Next DEF B!Next

(* Every step of the program keeps both bounds.                             *)
LEMMA CostKept ==
    ASSUME AllInv, CostInv, SearchCost, [AllNext]_allVars PROVE CostInv' /\ SearchCost'
<1>i. Inv /\ SearchInv /\ n \in Nat
  BY ONLY AllInv, LengthsAssumption DEF AllInv, Inv, TypeOK, ArrayOK
<1>1. CASE SortStep
  <2>1. [Next]_vars /\ pc # "done" /\ UNCHANGED searchVars
    BY ONLY <1>1 DEF SortStep
  <2>2. CostInv'
    BY ONLY <1>i, <2>1, CostInv, CostStep, LengthsAssumption
  <2>3. bpc = "idle" /\ bpc' = bpc /\ bcmps' = bcmps /\ bcmps = 0
    BY ONLY <1>i, <2>1 DEF SearchInv, searchVars
  <2>4. SearchCost'
    BY ONLY <2>3 DEF SearchCost
  <2> QED BY ONLY <2>2, <2>4
<1>2. CASE Search
  <2>1. /\ pc = "done" /\ pc' = pc /\ n' = n /\ cmps' = cmps /\ bpc = "idle" /\ bpc' = "loop"
        /\ nel' = n /\ bcmps' = bcmps
    BY ONLY <1>2 DEF Search, args
  <2>2. CostInv'
    <3>1. Cost' = Cost
      BY ONLY <2>1 DEF Cost
    <3> QED BY ONLY <2>1, <3>1, CostInv DEF CostInv
  <2>3. bcmps = 0 /\ Log2[n] \in Nat
    BY ONLY <1>i, <2>1, Log2Is DEF SearchInv
  <2>4. SearchCost'
    BY ONLY <1>i, <2>1, <2>3 DEF SearchCost
  <2> QED BY ONLY <2>2, <2>4
<1>3. CASE SearchStep
  <2>1. UNCHANGED vars /\ bpc = "loop" /\ B!Next /\ n' = n
    BY ONLY <1>3 DEF SearchStep, vars
  <2>2. CostInv'
    BY ONLY <1>i, <2>1, CostInv, CostStep, LengthsAssumption
  <2>3. B!Inv
    BY ONLY <1>i, <2>1 DEF SearchInv
  <2>4. SearchCost'
    BY ONLY <1>i, <2>1, <2>3, SearchCost, SearchCostStep
  <2> QED BY ONLY <2>2, <2>4
<1>4. CASE AllDone \/ UNCHANGED allVars
  <2>1. UNCHANGED vars /\ UNCHANGED searchVars /\ n' = n
    BY ONLY <1>4 DEF AllDone, allVars, vars
  <2>2. CostInv'
    BY ONLY <1>i, <2>1, CostInv, CostStep, LengthsAssumption
  <2>3. SearchCost'
    BY ONLY <2>1, SearchCost DEF SearchCost, searchVars
  <2> QED BY ONLY <2>2, <2>3
<1> QED BY <1>1, <1>2, <1>3, <1>4 DEF AllNext

(* qsort makes at most 2 n log2(n) comparisons and bsearch at most          *)
(* 1 + log2(n), for every length and whatever the comparator answers: the   *)
(* O(n log n) worst case that the header of sort.rs claims.                 *)
THEOREM ComparisonTheorem == AllSpec => []ComparisonBound
<1>1. AllInit => CostInv /\ SearchCost
  BY DEF AllInit, Init, CostInv, SearchCost
<1>2. AllInv /\ CostInv /\ SearchCost => ComparisonBound
  <2> SUFFICES ASSUME AllInv, CostInv, SearchCost PROVE ComparisonBound
    OBVIOUS
  <2>1. Inv /\ SearchInv /\ n \in Nat /\ cmps \in Nat /\ root \in Nat /\ end \in Nat
    BY ONLY AllInv, LengthsAssumption DEF AllInv, Inv, TypeOK, ArrayOK, LoopsOK
  <2>2. bcmps <= IF n = 0 THEN 0 ELSE 1 + Log2[n]
    <3>1. Log2[n] \in Nat
      BY ONLY <2>1, Log2Is
    <3> QED BY ONLY <2>1, <3>1, SearchCost DEF SearchCost
  <2>3. cmps <= 2 * n * (IF n = 0 THEN 0 ELSE Log2[n])
    <3>1. CASE n = 0
      BY ONLY <2>1, <3>1, CostInv DEF CostInv
    <3>2. CASE n # 0
      <4>1. n >= 1 /\ Log2[n] \in Nat
        BY ONLY <2>1, <3>2, Log2Is
      <4>2. Ahead \in Nat /\ Cost \in Nat
        BY ONLY <2>1, <4>1, CostNat
      <4>3. Cost = 2 * n * Log2[n]
        BY ONLY <2>1, <4>1 DEF Cost
      <4>4. pc \in {"sift", "pick", "parent"} => Depth(i, limit) \in Nat
        BY ONLY <2>1, DepthIs DEF Inv, TypeOK, LoopsOK
      <4>5. pc = "parent" => Depth(i, limit) >= 1
        <5> SUFFICES ASSUME pc = "parent" PROVE Depth(i, limit) >= 1
          OBVIOUS
        <5>1. i \in Nat /\ limit \in Nat /\ child \in {2 * i + 1, 2 * i + 2} /\ 2 * i + 1 < limit
          BY ONLY <2>1, pc = "parent" DEF Inv, TypeOK, LoopsOK, LoopInv
        <5>2. Depth(i, limit) \in Nat /\ Depth(child, limit) \in Nat
              /\ Depth(child, limit) + 1 <= Depth(i, limit)
          BY ONLY <5>1, DepthStep
        <5> QED BY ONLY <5>2
      <4>6. pc \in {"start", "build", "extract", "sift", "pick", "parent", "done"}
        BY ONLY <2>1 DEF Inv, TypeOK, LoopsOK
      <4>7. CASE pc \in {"start", "build", "extract", "done"}
        <5>1. cmps = 0 \/ cmps + 2 * Ahead <= Cost \/ cmps <= Cost
          BY ONLY <4>7, CostInv DEF CostInv
        <5>2. cmps <= Cost
          BY ONLY <2>1, <4>2, <5>1
        <5> QED BY ONLY <3>2, <4>3, <5>2
      <4>8. CASE pc \in {"sift", "pick"}
        <5>1. cmps + 2 * (Ahead + Depth(i, limit)) <= Cost
          BY ONLY <4>8, CostInv DEF CostInv
        <5> QED BY ONLY <2>1, <4>2, <4>3, <4>4, <4>8, <5>1, <3>2
      <4>9. CASE pc = "parent"
        <5>1. cmps + 2 * (Ahead + Depth(i, limit)) <= Cost + 1
          BY ONLY <4>9, CostInv DEF CostInv
        <5> QED BY ONLY <2>1, <4>2, <4>3, <4>4, <4>5, <4>9, <5>1, <3>2
      <4> QED BY ONLY <4>6, <4>7, <4>8, <4>9
    <3> QED BY ONLY <3>1, <3>2
  <2> QED BY ONLY <2>2, <2>3 DEF ComparisonBound
<1>3. AllInv /\ CostInv /\ SearchCost /\ [AllNext]_allVars => CostInv' /\ SearchCost'
  BY CostKept
<1> QED BY <1>1, <1>2, <1>3, AllInvariance, PTL DEF AllSpec
=============================================================================
