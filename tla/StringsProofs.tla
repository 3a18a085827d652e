---------------------------- MODULE StringsProofs ----------------------------
(***************************************************************************)
(* The string functions, for strings, buffers and counts of every size,    *)
(* every byte and every int, and the token streams that cut what a copy    *)
(* has left, for every separator set and every order of the calls.         *)
(***************************************************************************)
EXTENDS TokenizeCopy, FiniteSetTheorems, WellFoundedInduction, TLAPS

(* l bytes, and a string of l bytes with its terminator.                    *)
Bytes(o, l) == l \in Nat /\ o \in [0 .. l - 1 -> 0 .. 255]
Str(o, l) ==
    /\ l \in Nat /\ o \in [0 .. l -> 0 .. 255]
    /\ o[l] = Nul /\ \A k \in 0 .. l - 1 : o[k] # Nul

(* What may be read under a count of m: l bytes and a terminator, or m      *)
(* bytes without one.                                                       *)
Limited(o, l, m) ==
    /\ l \in Nat /\ m \in Nat /\ l <= m
    /\ o \in [0 .. (IF l < m THEN l ELSE l - 1) -> 0 .. 255]
    /\ (\A k \in 0 .. l - 1 : o[k] # Nul) /\ (l < m => o[l] = Nul)

(* A buffer with a terminator at l, and possibly before.                    *)
Buf(o, l) == l \in Nat /\ o \in [0 .. l -> 0 .. 255] /\ o[l] = Nul

-----------------------------------------------------------------------------
(* A set of naturals has a least element, which Min names.                  *)
LEMMA Least ==
    ASSUME NEW S \in SUBSET Nat, S # {}
    PROVE  Min(S) \in S /\ \A y \in S : Min(S) <= y
<1> DEFINE R == OpToRel(<, Nat)
<1>1. IsWellFoundedOn(R, Nat)
  BY NatLessThanWellFounded
<1>2. PICK m \in S : \A y \in S : ~(<<y, m>> \in R)
  <2> HIDE DEF R
  <2> QED BY <1>1, WFMin
<1>3. \A y \in S : m <= y
  <2>1. \A y \in S : y \in Nat /\ m \in Nat
    BY ONLY S \in SUBSET Nat, m \in S
  <2>2. \A y \in S : ~(y < m)
    BY ONLY <1>2, <2>1 DEF OpToRel, R
  <2> QED BY ONLY <2>1, <2>2
<1> QED BY ONLY <1>3, m \in S DEF Min

(* The least element is the only one.                                       *)
LEMMA LeastIs ==
    ASSUME NEW S \in SUBSET Int, NEW z \in S, \A y \in S : z <= y
    PROVE  Min(S) = z
<1>1. Min(S) \in S /\ \A y \in S : Min(S) <= y
  BY ONLY z \in S, \A y \in S : z <= y DEF Min
<1>2. Min(S) \in Int /\ z \in Int /\ Min(S) <= z /\ z <= Min(S)
  BY ONLY <1>1, z \in S, \A y \in S : z <= y, S \in SUBSET Int
<1> QED BY ONLY <1>2

(* A bounded set of naturals has a greatest element, which Max names.       *)
LEMMA Greatest ==
    ASSUME NEW m \in Nat, NEW S \in SUBSET (0 .. m), S # {}
    PROVE  Max(S) \in S /\ \A y \in S : y <= Max(S)
<1> DEFINE D == {m - y : y \in S}
<1>1. D \in SUBSET Nat /\ D # {}
  <2>1. \A y \in S : m - y \in Nat
    BY ONLY S \in SUBSET (0 .. m), m \in Nat
  <2>2. PICK y \in S : TRUE
    BY ONLY S # {}
  <2>3. m - y \in D
    BY ONLY y \in S DEF D
  <2> QED BY ONLY <2>1, <2>3 DEF D
<1>2. Min(D) \in D /\ \A y \in D : Min(D) <= y
  <2> HIDE DEF D
  <2> QED BY ONLY <1>1, Least
<1>3. PICK z \in S : \A y \in S : m - z <= m - y
  BY <1>2
<1>4. \A y \in S : z >= y
  BY <1>3
<1>5. Max(S) \in S /\ \A y \in S : Max(S) >= y
  BY ONLY <1>4, z \in S DEF Max
<1> QED BY <1>5

(* The greater of two.                                                      *)
LEMMA MaxTwo ==
    ASSUME NEW a \in Int, NEW b \in Int
    PROVE  Max({a, b}) = IF a >= b THEN a ELSE b
<1> DEFINE m == IF a >= b THEN a ELSE b
<1>1. m \in {a, b} /\ \A y \in {a, b} : m >= y
  OBVIOUS
<1>2. Max({a, b}) \in {a, b} /\ \A y \in {a, b} : Max({a, b}) >= y
  <2> HIDE DEF m
  <2> QED BY ONLY <1>1 DEF Max
<1> QED BY <1>1, <1>2

(* The lesser of two.                                                       *)
LEMMA MinTwo ==
    ASSUME NEW a \in Int, NEW b \in Int
    PROVE  Min({a, b}) = IF a <= b THEN a ELSE b
<1> DEFINE m == IF a <= b THEN a ELSE b
<1>1. m \in {a, b} /\ \A y \in {a, b} : m <= y
  OBVIOUS
<1>2. Min({a, b}) \in {a, b} /\ \A y \in {a, b} : Min({a, b}) <= y
  <2> HIDE DEF m
  <2> QED BY ONLY <1>1 DEF Min
<1> QED BY <1>1, <1>2

(* The size of an object is the number of its bytes.                        *)
LEMMA SizeOf ==
    ASSUME NEW l \in Nat, NEW o, DOMAIN o = 0 .. l - 1
    PROVE  Size(o) = l
<1>1. Cardinality(0 .. l - 1) = IF 0 > l - 1 THEN 0 ELSE l - 1 - 0 + 1
  BY ONLY FS_Interval, l \in Nat, 0 \in Int, l - 1 \in Int
<1> QED BY <1>1 DEF Size

(* Where a loop ends that the members of S end: at a member, and before it  *)
(* there was none.                                                          *)
LEMMA Stop ==
    ASSUME NEW a \in Nat, NEW l \in Nat, NEW S \in SUBSET (a .. l), S # {}
    PROVE  Min(S) \in S /\ Min(S) \in a .. l /\ \A k \in a .. Min(S) - 1 : k \notin S
<1>1. S \in SUBSET Nat
  OBVIOUS
<1>2. Min(S) \in S /\ \A y \in S : Min(S) <= y
  BY ONLY <1>1, Least, S # {}
<1>3. Min(S) \in a .. l
  BY ONLY <1>2, S \in SUBSET (a .. l)
<1>4. \A k \in a .. Min(S) - 1 : ~(Min(S) <= k)
  BY ONLY <1>3, a \in Nat, l \in Nat
<1> QED BY ONLY <1>2, <1>3, <1>4

(* A buffer is read up to its terminator.                                   *)
LEMMA BufRead ==
    ASSUME NEW o, NEW l, Buf(o, l)
    PROVE  /\ \A k \in 0 .. l : At(o, k) = o[k] /\ o[k] \in 0 .. 255
           /\ \A a \in 0 .. l : From(a, o) = a .. l + 1
           /\ Size(o) = l + 1 /\ l \in Nat /\ DOMAIN o = 0 .. l /\ o[l] = 0
<1>1. l \in Nat /\ o \in [0 .. l -> 0 .. 255] /\ DOMAIN o = 0 .. l /\ o[l] = 0
  BY ONLY Buf(o, l) DEF Buf, Nul
<1>2. l + 1 \in Nat /\ (l + 1) - 1 = l
  BY ONLY <1>1
<1>3. Size(o) = l + 1
  BY ONLY <1>1, <1>2, SizeOf
<1>4. \A k \in 0 .. l : At(o, k) = o[k] /\ o[k] \in 0 .. 255
  BY ONLY <1>1 DEF At
<1>5. ASSUME NEW a \in 0 .. l PROVE From(a, o) = a .. l + 1
  <2>1. a \in Int /\ l + 1 \in Int /\ ~(a >= l + 1)
    BY ONLY <1>1, <1>5
  <2>2. Max({a, l + 1}) = l + 1
    BY ONLY <2>1, MaxTwo
  <2> QED BY ONLY <1>3, <2>2 DEF From
<1> QED BY ONLY <1>1, <1>3, <1>4, <1>5

(* A loop that the terminator ends stays in the buffer.                     *)
LEMMA BufStop ==
    ASSUME NEW o, NEW l, Buf(o, l), NEW a \in 0 .. l, NEW S \in SUBSET (a .. l + 1), l \in S
    PROVE  /\ Min(S) \in S /\ Min(S) \in a .. l /\ Min(S) \in 0 .. l
           /\ \A k \in a .. Min(S) - 1 : k \notin S /\ k \in 0 .. l /\ k \in a .. l + 1
<1> DEFINE h == l + 1
           m == Min(S)
<1>1. l \in Nat /\ a \in Nat /\ h \in Nat /\ S \in SUBSET (a .. h) /\ S # {}
  BY ONLY Buf(o, l), a \in 0 .. l, S \in SUBSET (a .. l + 1), l \in S DEF Buf
<1>2. m \in S /\ m \in a .. h /\ \A k \in a .. m - 1 : k \notin S
  <2> HIDE DEF h
  <2> QED BY ONLY <1>1, Stop
<1> HIDE DEF m
<1>3. m <= l
  BY ONLY <1>1, <1>2, l \in S, a \in 0 .. l
<1>4. m \in a .. l /\ m \in 0 .. l /\ \A k \in a .. m - 1 : k \in 0 .. l /\ k \in a .. l + 1
  BY ONLY <1>1, <1>2, <1>3
<1> QED BY ONLY <1>2, <1>4 DEF m

(* strlen: the next terminator.                                             *)
LEMMA strlenIs ==
    ASSUME NEW o, NEW l, Buf(o, l), NEW a \in 0 .. l
    PROVE  LET e == a + strlen(o, a)
           IN  /\ strlen(o, a) \in Nat /\ e \in a .. l /\ o[e] = 0
               /\ \A k \in a .. e - 1 : o[k] # 0
<1> DEFINE S == {k \in a .. l + 1 : At(o, k) = Nul}
           m == Min(S)
<1>1. /\ \A k \in 0 .. l : At(o, k) = o[k]
      /\ From(a, o) = a .. l + 1 /\ l \in Nat /\ o[l] = 0
  BY BufRead
<1>2. strlen(o, a) = m - a
  BY ONLY <1>1 DEF strlen
<1>3. S \in SUBSET (a .. l + 1) /\ l \in S
  BY ONLY <1>1, a \in 0 .. l DEF Nul
<1>4. /\ m \in S /\ m \in a .. l /\ m \in 0 .. l
      /\ \A k \in a .. m - 1 : k \notin S /\ k \in 0 .. l /\ k \in a .. l + 1
  <2> HIDE DEF S
  <2> QED BY ONLY <1>3, BufStop, Buf(o, l), a \in 0 .. l
<1> HIDE DEF m
<1>5. o[m] = 0 /\ \A k \in a .. m - 1 : o[k] # 0
  BY ONLY <1>1, <1>4 DEF Nul
<1>6. strlen(o, a) \in Nat /\ a + strlen(o, a) = m
  BY ONLY <1>1, <1>2, <1>4, a \in 0 .. l
<1> QED BY ONLY <1>4, <1>5, <1>6

(* strchrnul: the next byte of that value, or the next terminator.          *)
LEMMA strchrnulIs ==
    ASSUME NEW o, NEW l, Buf(o, l), NEW a \in 0 .. l, NEW ch
    PROVE  LET e == strchrnul(o, a, ch)
           IN  /\ e \in a .. l /\ (o[e] = 0 \/ o[e] = Byte(ch))
               /\ \A k \in a .. e - 1 : o[k] # 0 /\ o[k] # Byte(ch)
<1> DEFINE S == {k \in a .. l + 1 : At(o, k) = Nul \/ At(o, k) = Byte(ch)}
           m == Min(S)
<1>1. /\ \A k \in 0 .. l : At(o, k) = o[k]
      /\ From(a, o) = a .. l + 1 /\ l \in Nat /\ o[l] = 0
  BY BufRead
<1>2. CASE Byte(ch) = 0
  BY ONLY <1>2, strlenIs, Buf(o, l), a \in 0 .. l DEF strchrnul
<1>3. CASE Byte(ch) # 0
  <2>1. strchrnul(o, a, ch) = m
    BY ONLY <1>1, <1>3 DEF strchrnul
  <2>2. S \in SUBSET (a .. l + 1) /\ l \in S
    BY ONLY <1>1, a \in 0 .. l DEF Nul
  <2>3. /\ m \in S /\ m \in a .. l /\ m \in 0 .. l
        /\ \A k \in a .. m - 1 : k \notin S /\ k \in 0 .. l /\ k \in a .. l + 1
    <3> HIDE DEF S
    <3> QED BY ONLY <2>2, BufStop, Buf(o, l), a \in 0 .. l
  <2> HIDE DEF m
  <2>4. (o[m] = 0 \/ o[m] = Byte(ch)) /\ \A k \in a .. m - 1 : o[k] # 0 /\ o[k] # Byte(ch)
    BY ONLY <1>1, <2>3 DEF Nul
  <2> QED BY ONLY <2>1, <2>3, <2>4
<1> QED BY ONLY <1>2, <1>3

(* A byte is not changed by the conversion to a byte.                       *)
LEMMA ByteSelf == ASSUME NEW v \in 0 .. 255 PROVE Byte(v) = v
  BY DEF Byte

(* A string is a buffer, and its length is its length.                      *)
LEMMA StrLength ==
    ASSUME NEW o, NEW l, Str(o, l)
    PROVE  Buf(o, l) /\ strlen(o, 0) = l
<1>1. /\ l \in Nat /\ Buf(o, l) /\ 0 \in 0 .. l /\ \A k \in 0 .. l - 1 : o[k] # 0
  BY ONLY Str(o, l) DEF Str, Buf, Nul
<1> DEFINE e == 0 + strlen(o, 0)
<1>2. strlen(o, 0) \in Nat /\ e \in 0 .. l /\ o[e] = 0
  BY ONLY <1>1, strlenIs
<1>3. e = l
  BY ONLY <1>1, <1>2
<1> QED BY ONLY <1>1, <1>2, <1>3

(* What is known of a string.                                               *)
LEMMA StrFacts ==
    ASSUME NEW o, NEW l, Str(o, l)
    PROVE  /\ l \in Nat /\ DOMAIN o = 0 .. l /\ o[l] = 0 /\ \A k \in 0 .. l - 1 : o[k] # 0
           /\ \A k \in 0 .. l : At(o, k) = o[k] /\ o[k] \in 0 .. 255
           /\ Buf(o, l) /\ Size(o) = l + 1 /\ 0 \in 0 .. l /\ From(0, o) = 0 .. l + 1
<1>1. Buf(o, l)
  BY ONLY StrLength, Str(o, l)
<1>2. l \in Nat /\ \A k \in 0 .. l - 1 : o[k] # 0
  BY ONLY Str(o, l) DEF Str, Nul
<1>3. 0 \in 0 .. l
  BY ONLY <1>2
<1> QED BY ONLY <1>1, <1>2, <1>3, BufRead

(* The set of a separator string: its bytes other than the terminator.      *)
LEMMA BytesetIs ==
    ASSUME NEW p, NEW q, Str(p, q)
    PROVE  /\ Byteset(p) = {p[k] : k \in 0 .. q - 1}
           /\ Byteset(p) = {p[k] : k \in DOMAIN p} \ {0}
           /\ Byteset(p) \subseteq 1 .. 255
<1>1. /\ q \in Nat /\ p \in [0 .. q -> 0 .. 255] /\ p[q] = 0
      /\ \A k \in 0 .. q - 1 : p[k] # 0
  BY ONLY Str(p, q) DEF Str, Nul
<1>2. Byteset(p) = {p[k] : k \in 0 .. q - 1}
  BY ONLY StrLength, Str(p, q) DEF Byteset
<1>3. \A k \in 0 .. q : k = q \/ k \in 0 .. q - 1
  BY ONLY <1>1
<1>4. 0 .. q - 1 \subseteq 0 .. q /\ DOMAIN p = 0 .. q
  BY ONLY <1>1
<1>5. Byteset(p) = {p[k] : k \in 0 .. q} \ {0}
  BY ONLY <1>1, <1>2, <1>3, <1>4
<1>6. \A k \in 0 .. q - 1 : p[k] \in 1 .. 255
  BY ONLY <1>1, <1>4
<1>7. Byteset(p) \subseteq 1 .. 255
  BY ONLY <1>2, <1>6
<1>8. {p[k] : k \in DOMAIN p} = {p[k] : k \in 0 .. q}
  BY ONLY <1>4
<1> QED BY ONLY <1>2, <1>5, <1>7, <1>8

(* strcspn: the next byte of the set or terminator, whether the set is      *)
(* empty, a single byte or built as a bit set.                              *)
LEMMA strcspnIs ==
    ASSUME NEW o, NEW l, Buf(o, l), NEW a \in 0 .. l, NEW p, NEW q, Str(p, q)
    PROVE  LET e == a + strcspn(o, a, p)
           IN  /\ strcspn(o, a, p) \in Nat /\ e \in a .. l
               /\ (o[e] = 0 \/ o[e] \in Byteset(p))
               /\ \A k \in a .. e - 1 : o[k] # 0 /\ o[k] \notin Byteset(p)
<1>1. /\ \A k \in 0 .. l : At(o, k) = o[k]
      /\ From(a, o) = a .. l + 1 /\ l \in Nat /\ o[l] = 0
  BY BufRead
<1>p. Buf(p, q) /\ q \in Nat /\ \A k \in 0 .. q - 1 : p[k] # 0
  BY ONLY StrLength, Str(p, q) DEF Str, Nul
<1>r. /\ \A k \in 0 .. q : At(p, k) = p[k] /\ p[k] \in 0 .. 255
      /\ DOMAIN p = 0 .. q /\ p[q] = 0
  BY ONLY <1>p, BufRead
<1>b. Byteset(p) = {p[k] : k \in 0 .. q - 1} /\ Byteset(p) \subseteq 1 .. 255
  BY ONLY BytesetIs, Str(p, q)
<1>2. CASE At(p, 0) = Nul \/ At(p, 1) = Nul
  <2> DEFINE e == strchrnul(o, a, At(p, 0))
  <2>1. strcspn(o, a, p) = e - a
    BY ONLY <1>2 DEF strcspn
  <2>2. /\ e \in a .. l /\ (o[e] = 0 \/ o[e] = Byte(At(p, 0)))
        /\ \A k \in a .. e - 1 : o[k] # 0 /\ o[k] # Byte(At(p, 0))
    BY ONLY strchrnulIs, Buf(o, l), a \in 0 .. l
  <2>3. At(p, 0) = p[0] /\ p[0] \in 0 .. 255 /\ Byte(At(p, 0)) = p[0]
    <3>1. At(p, 0) = p[0] /\ p[0] \in 0 .. 255
      BY ONLY <1>p, <1>r
    <3> QED BY ONLY <3>1, ByteSelf
  <2>4. q = 0 \/ q = 1
    <3>1. CASE q >= 1
      BY ONLY <1>2, <1>p, <1>r, <3>1 DEF Nul
    <3> QED BY ONLY <1>p, <3>1
  <2>5. \A v : v # 0 => (v \in Byteset(p) <=> v = p[0])
    <3>1. CASE q = 0
      BY ONLY <1>r, <1>b, <3>1
    <3>2. CASE q = 1
      <4>1. 0 .. q - 1 = {0}
        BY ONLY <3>2
      <4> QED BY ONLY <1>b, <4>1
    <3> QED BY ONLY <2>4, <3>1, <3>2
  <2> HIDE DEF e
  <2>6. e - a \in Nat /\ a + (e - a) = e
    BY ONLY <1>1, <2>2, a \in 0 .. l
  <2>7. (o[e] = 0 \/ o[e] \in Byteset(p)) /\ \A k \in a .. e - 1 : o[k] # 0 /\ o[k] \notin Byteset(p)
    BY ONLY <2>2, <2>3, <2>5
  <2> QED BY ONLY <2>1, <2>2, <2>6, <2>7
<1>3. CASE ~(At(p, 0) = Nul \/ At(p, 1) = Nul)
  <2> DEFINE S == {k \in a .. l + 1 : At(o, k) = Nul \/ At(o, k) \in Byteset(p)}
             m == Min(S)
  <2>1. strcspn(o, a, p) = m - a
    BY ONLY <1>1, <1>3 DEF strcspn
  <2>2. S \in SUBSET (a .. l + 1) /\ l \in S
    BY ONLY <1>1, a \in 0 .. l DEF Nul
  <2>3. /\ m \in S /\ m \in a .. l /\ m \in 0 .. l
        /\ \A k \in a .. m - 1 : k \notin S /\ k \in 0 .. l /\ k \in a .. l + 1
    <3> HIDE DEF S
    <3> QED BY ONLY <2>2, BufStop, Buf(o, l), a \in 0 .. l
  <2> HIDE DEF m
  <2>4. /\ o[m] = 0 \/ o[m] \in Byteset(p)
        /\ \A k \in a .. m - 1 : o[k] # 0 /\ o[k] \notin Byteset(p)
    BY ONLY <1>1, <2>3 DEF Nul
  <2>5. m - a \in Nat /\ a + (m - a) = m
    BY ONLY <1>1, <2>3, a \in 0 .. l
  <2> QED BY ONLY <2>1, <2>3, <2>4, <2>5
<1> QED BY ONLY <1>2, <1>3

(* strspn: the next byte outside the set.                                   *)
LEMMA strspnIs ==
    ASSUME NEW o, NEW l, Buf(o, l), NEW a \in 0 .. l, NEW p, NEW q, Str(p, q)
    PROVE  LET e == a + strspn(o, a, p)
           IN  /\ strspn(o, a, p) \in Nat /\ e \in a .. l /\ o[e] \notin Byteset(p)
               /\ \A k \in a .. e - 1 : o[k] \in Byteset(p)
<1>1. /\ \A k \in 0 .. l : At(o, k) = o[k]
      /\ From(a, o) = a .. l + 1 /\ l \in Nat /\ o[l] = 0
  BY BufRead
<1>p. Buf(p, q) /\ q \in Nat /\ \A k \in 0 .. q - 1 : p[k] # 0
  BY ONLY StrLength, Str(p, q) DEF Str, Nul
<1>r. /\ \A k \in 0 .. q : At(p, k) = p[k] /\ p[k] \in 0 .. 255
      /\ DOMAIN p = 0 .. q /\ p[q] = 0
  BY ONLY <1>p, BufRead
<1>b. Byteset(p) = {p[k] : k \in 0 .. q - 1} /\ Byteset(p) \subseteq 1 .. 255
  BY ONLY BytesetIs, Str(p, q)
<1>2. CASE At(p, 0) = Nul
  <2>1. q = 0 /\ Byteset(p) = {}
    BY ONLY <1>2, <1>p, <1>r, <1>b DEF Nul
  <2>2. strspn(o, a, p) = 0
    BY ONLY <1>2 DEF strspn
  <2> QED BY ONLY <1>1, <2>1, <2>2, a \in 0 .. l
<1>3. CASE At(p, 0) # Nul /\ At(p, 1) = Nul
  <2> DEFINE S == {k \in a .. l + 1 : At(o, k) # At(p, 0)}
             m == Min(S)
  <2>1. strspn(o, a, p) = m - a
    BY ONLY <1>1, <1>3 DEF strspn
  <2>2. S \in SUBSET (a .. l + 1) /\ l \in S
    BY ONLY <1>1, <1>3, a \in 0 .. l DEF Nul
  <2>3. /\ m \in S /\ m \in a .. l /\ m \in 0 .. l
        /\ \A k \in a .. m - 1 : k \notin S /\ k \in 0 .. l /\ k \in a .. l + 1
    <3> HIDE DEF S
    <3> QED BY ONLY <2>2, BufStop, Buf(o, l), a \in 0 .. l
  <2> HIDE DEF m
  <2>4. q = 1
    <3>1. q >= 1
      BY ONLY <1>3, <1>p, <1>r DEF Nul
    <3> QED BY ONLY <1>3, <1>p, <1>r, <3>1 DEF Nul
  <2>5. \A v : v \in Byteset(p) <=> v = At(p, 0)
    BY ONLY <1>r, <1>b, <2>4
  <2>6. o[m] \notin Byteset(p) /\ \A k \in a .. m - 1 : o[k] \in Byteset(p)
    BY ONLY <1>1, <2>3, <2>5
  <2>7. m - a \in Nat /\ a + (m - a) = m
    BY ONLY <1>1, <2>3, a \in 0 .. l
  <2> QED BY ONLY <2>1, <2>3, <2>6, <2>7
<1>4. CASE At(p, 0) # Nul /\ At(p, 1) # Nul
  <2> DEFINE S == {k \in a .. l + 1 : At(o, k) = Nul \/ At(o, k) \notin Byteset(p)}
             m == Min(S)
  <2>1. strspn(o, a, p) = m - a
    BY ONLY <1>1, <1>4 DEF strspn
  <2>2. S \in SUBSET (a .. l + 1) /\ l \in S
    BY ONLY <1>1, a \in 0 .. l DEF Nul
  <2>3. /\ m \in S /\ m \in a .. l /\ m \in 0 .. l
        /\ \A k \in a .. m - 1 : k \notin S /\ k \in 0 .. l /\ k \in a .. l + 1
    <3> HIDE DEF S
    <3> QED BY ONLY <2>2, BufStop, Buf(o, l), a \in 0 .. l
  <2> HIDE DEF m
  <2>4. 0 \notin Byteset(p)
    BY ONLY <1>b
  <2>5. o[m] \notin Byteset(p) /\ \A k \in a .. m - 1 : o[k] \in Byteset(p)
    BY ONLY <1>1, <2>3, <2>4 DEF Nul
  <2>6. m - a \in Nat /\ a + (m - a) = m
    BY ONLY <1>1, <2>3, a \in 0 .. l
  <2> QED BY ONLY <2>1, <2>3, <2>5, <2>6
<1> QED BY ONLY <1>2, <1>3, <1>4

-----------------------------------------------------------------------------
(* What a call that has returned read, and what a search returned: the      *)
(* parts of AccessesInObjects and ScanExact that a scan decides.            *)
Returned ==
    LET out == Outcome(f, src, dst, c, size)
    IN  res = out.res /\ readAt = out.l /\ readDst = out.r

ReadsInside == readAt \subseteq DOMAIN src /\ readDst \subseteq DOMAIN dst

Sought ==
    IF Wanted = {} THEN res = NULL
    ELSE /\ res \in Wanted
         /\ \A k \in Wanted : IF f \in {"strrchr", "memrchr"} THEN k <= res ELSE res <= k

(* The first of the wanted offsets.                                         *)
LEMMA FirstFound ==
    ASSUME f \notin {"strrchr", "memrchr"}, NEW e \in Nat, NEW X \in SUBSET Nat, Wanted = X,
           \A k \in X : ~(k < e),
           (res = e /\ e \in X) \/ (res = NULL /\ X = {})
    PROVE  Sought
  BY DEF Sought

(* The calls on one string: strlen.                                         *)
LEMMA strlenFound ==
    ASSUME NEW l, Str(src, l), f = "strlen", Returned PROVE ReadsInside /\ Sought
<1>1. Buf(src, l) /\ strlen(src, 0) = l
  BY StrLength
<1>2. l \in Nat /\ DOMAIN src = 0 .. l /\ src[l] = 0 /\ \A k \in 0 .. l - 1 : src[k] # 0
  BY DEF Str, Nul
<1>3. res = l /\ readAt = 0 .. l /\ readDst = {}
  BY ONLY <1>1, f = "strlen", Returned DEF Returned, Outcome, Upto, Result
<1> DEFINE X == {k \in DOMAIN src : src[k] = Nul}
<1>4. Wanted = X
  BY ONLY f = "strlen" DEF Wanted
<1>5. l \in X /\ X \in SUBSET Nat /\ \A k \in X : ~(k < l)
  BY ONLY <1>2 DEF Nul
<1>6. Sought
  <2> HIDE DEF X
  <2> QED BY ONLY <1>2, <1>3, <1>4, <1>5, f = "strlen", FirstFound
<1> QED BY ONLY <1>2, <1>3, <1>6 DEF ReadsInside

(* strchrnul finds the byte or the terminator.                              *)
LEMMA strchrnulFound ==
    ASSUME NEW l, Str(src, l), f = "strchrnul", Returned PROVE ReadsInside /\ Sought
<1>1. Buf(src, l)
  BY StrLength
<1>2. l \in Nat /\ DOMAIN src = 0 .. l /\ 0 \in 0 .. l
  BY DEF Str, Nul
<1> DEFINE e == strchrnul(src, 0, c)
<1>3. res = e /\ readAt = 0 .. e /\ readDst = {}
  BY ONLY <1>1, f = "strchrnul", Returned DEF Returned, Outcome, Upto, Result
<1>4. /\ e \in 0 .. l /\ (src[e] = 0 \/ src[e] = Byte(c))
      /\ \A k \in 0 .. e - 1 : src[k] # 0 /\ src[k] # Byte(c)
  BY ONLY <1>1, <1>2, strchrnulIs
<1> DEFINE X == {k \in DOMAIN src : src[k] = Nul} \cup {k \in DOMAIN src : src[k] = c % 256}
<1>5. Wanted = X
  BY ONLY f = "strchrnul" DEF Wanted
<1> HIDE DEF e
<1>6. e \in Nat /\ e \in X /\ X \in SUBSET Nat /\ \A k \in X : ~(k < e)
  BY ONLY <1>2, <1>4 DEF Nul, Byte
<1>7. Sought
  <2> HIDE DEF X
  <2> QED BY ONLY <1>3, <1>5, <1>6, f = "strchrnul", FirstFound
<1> QED BY ONLY <1>2, <1>3, <1>4, <1>7 DEF ReadsInside

(* strchr finds the byte, the terminator only when that is the byte.        *)
LEMMA strchrFound ==
    ASSUME NEW l, Str(src, l), f = "strchr", Returned PROVE ReadsInside /\ Sought
<1>1. Buf(src, l)
  BY StrLength
<1>2. l \in Nat /\ DOMAIN src = 0 .. l /\ 0 \in 0 .. l /\ \A k \in 0 .. l - 1 : src[k] # 0
  BY DEF Str, Nul
<1> DEFINE e == strchrnul(src, 0, c)
<1>3. /\ e \in 0 .. l /\ (src[e] = 0 \/ src[e] = Byte(c))
      /\ \A k \in 0 .. e - 1 : src[k] # 0 /\ src[k] # Byte(c)
  BY ONLY <1>1, <1>2, strchrnulIs
<1>4. res = Unless(src[e] # Byte(c), e) /\ readAt = 0 .. e /\ readDst = {}
  <2>1. At(src, e) = src[e]
    BY ONLY <1>2, <1>3 DEF At
  <2> QED BY ONLY <1>1, <2>1, f = "strchr", Returned DEF Returned, Outcome, strchr, Result
<1> DEFINE X == {k \in DOMAIN src : src[k] = c % 256}
<1>5. Wanted = X
  BY ONLY f = "strchr" DEF Wanted
<1> HIDE DEF e
<1>6. e \in Nat /\ X \in SUBSET Nat /\ \A k \in X : ~(k < e)
  BY ONLY <1>2, <1>3 DEF Byte
<1>7. CASE src[e] = Byte(c)
  <2>1. e \in X /\ res = e
    BY ONLY <1>2, <1>3, <1>4, <1>7 DEF Byte, Unless
  <2> HIDE DEF X
  <2>2. Sought
    BY ONLY <1>5, <1>6, <2>1, f = "strchr", FirstFound
  <2> QED BY ONLY <1>2, <1>3, <1>4, <2>2 DEF ReadsInside
<1>8. CASE src[e] # Byte(c)
  <2>1. e = l
    BY ONLY <1>2, <1>3, <1>8
  <2>2. X = {} /\ res = NULL
    BY ONLY <1>2, <1>3, <1>4, <1>6, <1>8, <2>1 DEF Byte, Unless
  <2> HIDE DEF X
  <2>3. Sought
    BY ONLY <1>5, <1>6, <2>2, f = "strchr", FirstFound
  <2> QED BY ONLY <1>2, <1>3, <1>4, <2>3 DEF ReadsInside
<1> QED BY ONLY <1>7, <1>8

(* memrchr: the last byte of that value among m, or NULL.                   *)
LEMMA memrchrIs ==
    ASSUME NEW o, NEW m \in Nat, 0 .. m - 1 \subseteq DOMAIN o, NEW ch,
           NEW X, X = {k \in 0 .. m - 1 : o[k] = Byte(ch)}
    PROVE  LET out == memrchr(o, ch, m)
           IN  /\ out.l \subseteq 0 .. m - 1 /\ out.r = {}
               /\ IF X = {} THEN out.res = NULL
                            ELSE out.res \in X /\ \A k \in X : k <= out.res
<1>1. X = {k \in 0 .. m - 1 : At(o, k) = Byte(ch)}
  BY DEF At
<1>2. CASE X = {}
  <2>1. memrchr(o, ch, m) = Result(NULL, 0 .. m - 1, {})
    BY ONLY <1>1, <1>2 DEF memrchr
  <2> QED BY ONLY <1>2, <2>1 DEF Result
<1>3. CASE X # {}
  <2>1. memrchr(o, ch, m) = Result(Max(X), Max(X) .. m - 1, {})
    BY ONLY <1>1, <1>3 DEF memrchr
  <2>2. X \in SUBSET (0 .. m)
    BY ONLY m \in Nat, X = {k \in 0 .. m - 1 : o[k] = Byte(ch)}
  <2>3. Max(X) \in X /\ \A y \in X : y <= Max(X)
    BY ONLY <1>3, <2>2, m \in Nat, Greatest
  <2>4. Max(X) .. m - 1 \subseteq 0 .. m - 1
    BY ONLY <2>3, m \in Nat, X = {k \in 0 .. m - 1 : o[k] = Byte(ch)}
  <2> QED BY ONLY <1>3, <2>1, <2>3, <2>4 DEF Result
<1> QED BY ONLY <1>2, <1>3

(* memchr: the first one.                                                   *)
LEMMA memchrIs ==
    ASSUME NEW o, NEW m \in Nat, 0 .. m - 1 \subseteq DOMAIN o, NEW ch,
           NEW X, X = {k \in 0 .. m - 1 : o[k] = Byte(ch)}
    PROVE  LET out == memchr(o, ch, m)
           IN  /\ out.l \subseteq 0 .. m - 1 /\ out.r = {}
               /\ IF X = {} THEN out.res = NULL
                            ELSE out.res \in X /\ \A k \in X : out.res <= k
<1>1. X = {k \in 0 .. m - 1 : At(o, k) = Byte(ch)}
  BY DEF At
<1>2. CASE X = {}
  <2>1. memchr(o, ch, m) = Result(NULL, 0 .. m - 1, {})
    BY ONLY <1>1, <1>2 DEF memchr
  <2> QED BY ONLY <1>2, <2>1 DEF Result
<1>3. CASE X # {}
  <2>1. memchr(o, ch, m) = Result(Min(X), 0 .. Min(X), {})
    BY ONLY <1>1, <1>3 DEF memchr
  <2>2. X \in SUBSET Nat
    BY ONLY m \in Nat, X = {k \in 0 .. m - 1 : o[k] = Byte(ch)}
  <2>3. Min(X) \in X /\ \A y \in X : Min(X) <= y
    BY ONLY <1>3, <2>2, Least
  <2>4. 0 .. Min(X) \subseteq 0 .. m - 1
    BY ONLY <2>3, m \in Nat, X = {k \in 0 .. m - 1 : o[k] = Byte(ch)}
  <2> QED BY ONLY <1>3, <2>1, <2>3, <2>4 DEF Result
<1> QED BY ONLY <1>2, <1>3

(* strrchr looks from the end, at the terminator too.                       *)
LEMMA strrchrFound ==
    ASSUME NEW l, Str(src, l), f = "strrchr", Returned PROVE ReadsInside /\ Sought
<1>1. strlen(src, 0) = l
  BY StrLength
<1>2. l \in Nat /\ DOMAIN src = 0 .. l
  BY DEF Str, Nul
<1> DEFINE m == l + 1
           out == memrchr(src, c, m)
           X == {k \in 0 .. m - 1 : src[k] = Byte(c)}
<1>3. res = out.res /\ readAt = (0 .. l) \cup out.l /\ readDst = {}
  BY ONLY <1>1, f = "strrchr", Returned DEF Returned, Outcome, strrchr, Result
<1>4. m \in Nat /\ 0 .. m - 1 = 0 .. l /\ 0 .. m - 1 \subseteq DOMAIN src
  BY ONLY <1>2
<1>5. Wanted = X
  BY ONLY <1>2, <1>4, f = "strrchr" DEF Wanted, Byte
<1>6. /\ out.l \subseteq 0 .. m - 1
      /\ IF X = {} THEN out.res = NULL ELSE out.res \in X /\ \A k \in X : k <= out.res
  <2> HIDE DEF m
  <2> QED BY ONLY <1>4, memrchrIs
<1> HIDE DEF X, out, m
<1>7. Sought
  BY ONLY <1>3, <1>5, <1>6, f = "strrchr" DEF Sought
<1>8. ReadsInside
  BY ONLY <1>2, <1>3, <1>4, <1>6 DEF ReadsInside
<1> QED BY ONLY <1>7, <1>8

(* memchr and memrchr look at n bytes, terminators or not.                  *)
LEMMA memchrFound ==
    ASSUME Bytes(src, size), f \in {"memchr", "memrchr"}, Returned PROVE ReadsInside /\ Sought
<1>1. size \in Nat /\ DOMAIN src = 0 .. size - 1
  BY DEF Bytes
<1> DEFINE X == {k \in 0 .. size - 1 : src[k] = Byte(c)}
           out == IF f = "memchr" THEN memchr(src, c, size) ELSE memrchr(src, c, size)
<1>2. res = out.res /\ readAt = out.l /\ readDst = out.r
  BY ONLY f \in {"memchr", "memrchr"}, Returned DEF Returned, Outcome
<1>3. Wanted = X
  BY ONLY <1>1, f \in {"memchr", "memrchr"} DEF Wanted, Byte
<1>4. /\ out.l \subseteq 0 .. size - 1 /\ out.r = {}
      /\ IF X = {} THEN out.res = NULL
         ELSE out.res \in X /\ \A k \in X : IF f = "memchr" THEN out.res <= k ELSE k <= out.res
  <2>1. CASE f = "memchr"
    <3>1. out = memchr(src, c, size)
      BY ONLY <2>1
    <3>2. LET q == memchr(src, c, size)
          IN  /\ q.l \subseteq 0 .. size - 1 /\ q.r = {}
              /\ IF X = {} THEN q.res = NULL ELSE q.res \in X /\ \A k \in X : q.res <= k
      BY ONLY <1>1, memchrIs
    <3> HIDE DEF X, out
    <3> QED BY ONLY <2>1, <3>1, <3>2
  <2>2. CASE f # "memchr"
    <3>1. out = memrchr(src, c, size)
      BY ONLY <2>2
    <3>2. LET q == memrchr(src, c, size)
          IN  /\ q.l \subseteq 0 .. size - 1 /\ q.r = {}
              /\ IF X = {} THEN q.res = NULL ELSE q.res \in X /\ \A k \in X : k <= q.res
      BY ONLY <1>1, memrchrIs
    <3> HIDE DEF X, out
    <3> QED BY ONLY <2>2, <3>1, <3>2
  <2> QED BY ONLY <2>1, <2>2
<1> HIDE DEF X, out
<1>5. Sought
  BY ONLY <1>2, <1>3, <1>4, f \in {"memchr", "memrchr"} DEF Sought
<1>6. ReadsInside
  BY ONLY <1>1, <1>2, <1>4 DEF ReadsInside
<1> QED BY ONLY <1>5, <1>6

(* The calls that build a set of bytes from their second string.            *)
LEMMA strspnFound ==
    ASSUME NEW l, Str(src, l), NEW q, Str(dst, q), f = "strspn", Returned
    PROVE  ReadsInside /\ Sought
<1>1. Buf(src, l) /\ strlen(dst, 0) = q
  BY StrLength
<1>2. l \in Nat /\ DOMAIN src = 0 .. l /\ 0 \in 0 .. l /\ q \in Nat /\ DOMAIN dst = 0 .. q
  BY DEF Str, Nul
<1> DEFINE e == strspn(src, 0, dst)
           X == {k \in DOMAIN src : src[k] \notin Byteset(dst)}
<1>3. res = e /\ readAt \subseteq 0 .. e /\ readDst = 0 .. q
  BY ONLY <1>1, f = "strspn", Returned DEF Returned, Outcome, Upto, Result
<1>4. e \in 0 .. l /\ src[e] \notin Byteset(dst) /\ \A k \in 0 .. e - 1 : src[k] \in Byteset(dst)
  <2>1. LET x == 0 + strspn(src, 0, dst)
        IN  /\ strspn(src, 0, dst) \in Nat /\ x \in 0 .. l /\ src[x] \notin Byteset(dst)
            /\ \A k \in 0 .. x - 1 : src[k] \in Byteset(dst)
    BY ONLY <1>1, <1>2, strspnIs, Str(dst, q)
  <2>2. 0 + e = e /\ e \in Nat
    BY ONLY <2>1
  <2> QED BY ONLY <2>1, <2>2
<1>5. Wanted = X
  <2>1. Byteset(dst) = {dst[k] : k \in DOMAIN dst} \ {0}
    BY ONLY BytesetIs, Str(dst, q)
  <2> QED BY ONLY <2>1, f = "strspn" DEF Wanted, Nul
<1> HIDE DEF e
<1>6. e \in Nat /\ e \in X /\ X \in SUBSET Nat /\ \A k \in X : ~(k < e)
  BY ONLY <1>2, <1>4
<1>7. Sought
  <2> HIDE DEF X
  <2> QED BY ONLY <1>3, <1>5, <1>6, f = "strspn", FirstFound
<1>8. ReadsInside
  BY ONLY <1>2, <1>3, <1>4 DEF ReadsInside
<1> QED BY ONLY <1>7, <1>8

(* strcspn ends at a byte of the set or at the terminator, and strpbrk is   *)
(* NULL in the latter case.                                                 *)
LEMMA strcspnFound ==
    ASSUME NEW l, Str(src, l), NEW q, Str(dst, q), f \in {"strcspn", "strpbrk"}, Returned
    PROVE  ReadsInside /\ Sought
<1>1. Buf(src, l) /\ strlen(dst, 0) = q
  BY StrLength
<1>2. /\ l \in Nat /\ DOMAIN src = 0 .. l /\ 0 \in 0 .. l /\ q \in Nat /\ DOMAIN dst = 0 .. q
      /\ src[l] = 0 /\ \A k \in 0 .. l - 1 : src[k] # 0
  BY DEF Str, Nul
<1>b. Byteset(dst) = {dst[k] : k \in DOMAIN dst} \ {0} /\ 0 \notin Byteset(dst)
  <2>1. Byteset(dst) = {dst[k] : k \in DOMAIN dst} \ {0}
    BY ONLY BytesetIs, Str(dst, q)
  <2> QED BY ONLY <2>1
<1> DEFINE e == strcspn(src, 0, dst)
           Y == {k \in DOMAIN src : src[k] \in Byteset(dst)}
           X == IF f = "strpbrk" THEN Y ELSE {k \in DOMAIN src : src[k] = Nul} \cup Y
<1>4. /\ e \in 0 .. l /\ (src[e] = 0 \/ src[e] \in Byteset(dst))
      /\ \A k \in 0 .. e - 1 : src[k] # 0 /\ src[k] \notin Byteset(dst)
  <2>1. LET x == 0 + strcspn(src, 0, dst)
        IN  /\ strcspn(src, 0, dst) \in Nat /\ x \in 0 .. l
            /\ (src[x] = 0 \/ src[x] \in Byteset(dst))
            /\ \A k \in 0 .. x - 1 : src[k] # 0 /\ src[k] \notin Byteset(dst)
    BY ONLY <1>1, <1>2, strcspnIs, Str(dst, q)
  <2>2. 0 + e = e /\ e \in Nat
    BY ONLY <2>1
  <2> QED BY ONLY <2>1, <2>2
<1>3. /\ readAt = 0 .. e /\ readDst = 0 .. q
      /\ res = IF f = "strpbrk" /\ src[e] = 0 THEN NULL ELSE e
  <2>1. At(src, e) = src[e]
    BY ONLY <1>2, <1>4 DEF At
  <2>2. CASE f = "strpbrk"
    BY ONLY <1>1, <2>1, <2>2, Returned DEF Returned, Outcome, strpbrk, Result, Unless, Nul
  <2>3. CASE f = "strcspn"
    BY ONLY <1>1, <2>3, Returned DEF Returned, Outcome, Upto, Result
  <2> QED BY ONLY <2>2, <2>3, f \in {"strcspn", "strpbrk"}
<1>5. Wanted = X
  <2>2. CASE f = "strpbrk"
    BY ONLY <1>b, <2>2 DEF Wanted, Nul
  <2>3. CASE f = "strcspn"
    BY ONLY <1>b, <2>3 DEF Wanted, Nul
  <2> QED BY ONLY <2>2, <2>3, f \in {"strcspn", "strpbrk"}
<1> HIDE DEF e
<1>6. e \in Nat /\ X \in SUBSET Nat /\ \A k \in X : ~(k < e)
  <2>1. \A k \in X : k \in 0 .. l /\ (src[k] = 0 \/ src[k] \in Byteset(dst))
    BY ONLY <1>2 DEF Nul
  <2> HIDE DEF X
  <2> QED BY ONLY <1>2, <1>4, <2>1
<1>7. (res = e /\ e \in X) \/ (res = NULL /\ X = {})
  <2>1. CASE f = "strpbrk" /\ src[e] = 0
    <3>1. e = l
      BY ONLY <1>2, <1>4, <2>1
    <3>2. \A k \in 0 .. l : src[k] \notin Byteset(dst)
      BY ONLY <1>2, <1>4, <1>b, <3>1
    <3> QED BY ONLY <1>2, <1>3, <2>1, <3>2
  <2>2. CASE f = "strpbrk" /\ src[e] # 0
    BY ONLY <1>2, <1>3, <1>4, <2>2
  <2>3. CASE f # "strpbrk"
    BY ONLY <1>2, <1>3, <1>4, <2>3 DEF Nul
  <2> QED BY ONLY <2>1, <2>2, <2>3
<1>8. Sought
  <2> HIDE DEF X
  <2> QED BY ONLY <1>5, <1>6, <1>7, f \in {"strcspn", "strpbrk"}, FirstFound
<1>9. ReadsInside
  BY ONLY <1>2, <1>3, <1>4 DEF ReadsInside
<1> QED BY ONLY <1>8, <1>9

(* How far a needle matches: inside both strings, and to the needle's end   *)
(* exactly where it occurs.                                                 *)
LEMMA MatchedIs ==
    ASSUME NEW o, NEW l, Str(o, l), NEW p, NEW q, Str(p, q), NEW h \in 0 .. l
    PROVE  /\ Matched(o, h, p) \in 0 .. q /\ h + Matched(o, h, p) \in 0 .. l
           /\ At(p, Matched(o, h, p)) = Nul <=>
                 \A r \in 0 .. q - 1 : h + r \in 0 .. l /\ o[h + r] = p[r]
<1>o. /\ l \in Nat /\ DOMAIN o = 0 .. l /\ o[l] = 0 /\ \A k \in 0 .. l - 1 : o[k] # 0
      /\ \A k \in 0 .. l : At(o, k) = o[k]
  BY ONLY StrFacts, Str(o, l)
<1>p. /\ q \in Nat /\ p[q] = 0 /\ \A k \in 0 .. q - 1 : p[k] # 0
      /\ \A k \in 0 .. q : At(p, k) = p[k]
  BY ONLY StrFacts, Str(p, q)
<1>b. Buf(p, q) /\ Size(p) = q + 1 /\ 0 \in 0 .. q
  BY ONLY StrFacts, Str(p, q)
<1> DEFINE S == {r \in 0 .. q + 1 : \/ At(o, h + r) = Nul \/ At(p, r) = Nul
                                  \/ At(o, h + r) # At(p, r)}
           m == Min(S)
<1>1. Matched(o, h, p) = m
  BY ONLY <1>b DEF Matched
<1>2. S \in SUBSET (0 .. q + 1) /\ q \in S
  BY ONLY <1>p DEF Nul
<1>3. /\ m \in S /\ m \in 0 .. q
      /\ \A k \in 0 .. m - 1 : k \notin S /\ k \in 0 .. q /\ k \in 0 .. q + 1
  <2> HIDE DEF S
  <2> QED BY ONLY <1>b, <1>2, BufStop
<1> HIDE DEF m
<1>4. \A r \in 0 .. m - 1 : At(o, h + r) # 0 /\ At(p, r) # 0 /\ At(o, h + r) = At(p, r)
  BY ONLY <1>3 DEF Nul
<1>5. h + m <= l
  <2>1. ASSUME h + m > l PROVE FALSE
    <3>1. l - h \in 0 .. m - 1 /\ h + (l - h) = l
      BY ONLY <1>o, <1>p, <1>3, h \in 0 .. l, <2>1
    <3>2. At(o, l) # 0
      BY ONLY <1>4, <3>1
    <3>3. l \in 0 .. l
      BY ONLY <1>o
    <3> QED BY ONLY <1>o, <3>2, <3>3
  <2> QED BY ONLY <1>o, <1>p, <1>3, h \in 0 .. l, <2>1
<1>6. \A r \in 0 .. m : h + r \in 0 .. l /\ At(o, h + r) = o[h + r] /\ At(p, r) = p[r]
  <2> TAKE r \in 0 .. m
  <2>1. h + r \in 0 .. l /\ r \in 0 .. q
    BY ONLY <1>o, <1>p, <1>3, <1>5, h \in 0 .. l, r \in 0 .. m
  <2> QED BY ONLY <1>o, <1>p, <2>1
<1>7. ASSUME At(p, m) = Nul
      PROVE  \A r \in 0 .. q - 1 : h + r \in 0 .. l /\ o[h + r] = p[r]
  <2>1. m = q
    BY ONLY <1>p, <1>3, <1>7 DEF Nul
  <2>2. \A r \in 0 .. q - 1 : r \in 0 .. m /\ r \in 0 .. m - 1
    BY ONLY <1>p, <2>1
  <2> QED BY ONLY <1>4, <1>6, <2>2
<1>8. ASSUME \A r \in 0 .. q - 1 : h + r \in 0 .. l /\ o[h + r] = p[r]
      PROVE  At(p, m) = Nul
  <2>1. CASE m = q
    BY ONLY <1>p, <2>1 DEF Nul
  <2>2. CASE m # q
    <3>1. m \in 0 .. q - 1 /\ m \in 0 .. m
      BY ONLY <1>p, <1>3, <2>2
    <3>2. At(o, h + m) = p[m] /\ At(p, m) = p[m] /\ p[m] # 0
      BY ONLY <1>p, <1>6, <1>8, <3>1
    <3> QED BY ONLY <1>3, <3>2 DEF Nul
  <2> QED BY ONLY <2>1, <2>2
<1>9. h + m \in 0 .. l
  BY ONLY <1>o, <1>p, <1>3, <1>5, h \in 0 .. l
<1> QED BY ONLY <1>1, <1>3, <1>7, <1>8, <1>9

(* strstr returns the first offset where the needle occurs.                 *)
LEMMA strstrFound ==
    ASSUME NEW l, Str(src, l), NEW q, Str(dst, q), f = "strstr", Returned
    PROVE  ReadsInside /\ Sought
<1>o. /\ l \in Nat /\ DOMAIN src = 0 .. l /\ src[l] = 0 /\ \A k \in 0 .. l - 1 : src[k] # 0
      /\ \A k \in 0 .. l : At(src, k) = src[k]
      /\ Buf(src, l) /\ 0 \in 0 .. l /\ From(0, src) = 0 .. l + 1
  BY ONLY StrFacts, Str(src, l)
<1>p. /\ q \in Nat /\ DOMAIN dst = 0 .. q /\ dst[q] = 0 /\ \A k \in 0 .. q - 1 : dst[k] # 0
      /\ At(dst, 0) = dst[0] /\ Size(dst) = q + 1 /\ (q + 1) - 2 = q - 1
  <2>1. /\ q \in Nat /\ DOMAIN dst = 0 .. q /\ dst[q] = 0 /\ \A k \in 0 .. q - 1 : dst[k] # 0
        /\ 0 \in 0 .. q /\ \A k \in 0 .. q : At(dst, k) = dst[k]
        /\ Size(dst) = q + 1
    BY ONLY StrFacts, Str(dst, q)
  <2> QED BY ONLY <2>1
<1> DEFINE Hit(k) == At(dst, Matched(src, k, dst)) = Nul
           X == {k \in 0 .. l : \A r \in 0 .. q - 1 : k + r \in 0 .. l /\ src[k + r] = dst[r]}
           S == {k \in 0 .. l + 1 : At(src, k) = Nul \/ Hit(k)}
           h == Min(S)
           tried == 0 .. IF At(src, h) = Nul THEN h - 1 ELSE h
<1>1. Wanted = X
  BY ONLY <1>o, <1>p, f = "strstr" DEF Wanted
<1>m. \A k \in 0 .. l : Matched(src, k, dst) \in 0 .. q /\ k + Matched(src, k, dst) \in 0 .. l
  BY ONLY MatchedIs, Str(src, l), Str(dst, q)
<1>2. \A k \in 0 .. l : k \in X <=> Hit(k)
  <2> TAKE k \in 0 .. l
  <2>1. Hit(k) <=> \A r \in 0 .. q - 1 : k + r \in 0 .. l /\ src[k + r] = dst[r]
    BY ONLY MatchedIs, Str(src, l), Str(dst, q), k \in 0 .. l
  <2> QED BY ONLY <2>1, k \in 0 .. l
<1>3. CASE At(dst, 0) = Nul
  <2>1. q = 0
    BY ONLY <1>p, <1>3 DEF Nul
  <2>2. X = 0 .. l
    BY ONLY <2>1
  <2>3. res = 0 /\ readAt = {} /\ readDst = {0}
    BY ONLY <1>3, f = "strstr", Returned DEF Returned, Outcome, strstr, Result
  <2>4. X \in SUBSET Nat /\ 0 \in X /\ 0 \in Nat /\ \A k \in X : ~(k < 0)
    <3> HIDE DEF X
    <3> QED BY ONLY <1>o, <2>2
  <2>5. Sought
    <3> HIDE DEF X
    <3> QED BY ONLY <1>1, <2>3, <2>4, f = "strstr", FirstFound
  <2> QED BY ONLY <1>p, <2>1, <2>3, <2>5 DEF ReadsInside
<1>4. CASE At(dst, 0) # Nul
  <2>1. /\ res = Unless(At(src, h) = Nul, h)
        /\ readAt = (0 .. h) \cup UNION {k .. k + Matched(src, k, dst) : k \in tried}
        /\ readDst = {0} \cup UNION {0 .. Matched(src, k, dst) : k \in tried}
    BY ONLY <1>o, <1>4, f = "strstr", Returned DEF Returned, Outcome, strstr, Result
  <2>2. S \in SUBSET (0 .. l + 1) /\ l \in S
    BY ONLY <1>o DEF Nul
  <2>3. /\ h \in S /\ h \in 0 .. l
        /\ \A k \in 0 .. h - 1 : k \notin S /\ k \in 0 .. l /\ k \in 0 .. l + 1
    <3> HIDE DEF S
    <3> QED BY ONLY <1>o, <2>2, BufStop
  <2> HIDE DEF h
  <2>4. q >= 1 /\ dst[0] # 0 /\ 0 \in 0 .. q - 1
    BY ONLY <1>p, <1>4 DEF Nul
  <2>5. h \in Nat /\ X \in SUBSET Nat /\ \A k \in X : k \in 0 .. l
    BY ONLY <1>o, <2>3
  <2>x. l \notin X
    <3>1. l + 0 = l /\ src[l] # dst[0]
      BY ONLY <1>o, <2>4
    <3> QED BY ONLY <2>4, <3>1
  <2>6. \A k \in X : ~(k < h)
    <3> SUFFICES ASSUME NEW k \in X, k < h PROVE FALSE
      OBVIOUS
    <3>1. k \in 0 .. h - 1 /\ k \in 0 .. l
      BY ONLY <2>5, <1>o, k < h, k \in X
    <3>2. Hit(k)
      <4>1. k \in 0 .. l
        BY ONLY <3>1
      <4> HIDE DEF X
      <4> QED BY ONLY <1>2, <4>1, k \in X
    <3> QED BY ONLY <2>3, <3>1, <3>2
  <2>7. (res = h /\ h \in X) \/ (res = NULL /\ X = {})
    <3>1. At(src, h) = src[h]
      BY ONLY <1>o, <2>3
    <3>2. CASE src[h] = 0
      <4>1. h = l /\ res = NULL
        BY ONLY <1>o, <2>1, <2>3, <3>1, <3>2 DEF Nul, Unless
      <4> HIDE DEF X
      <4>2. \A k \in X : k = l
        BY ONLY <1>o, <2>5, <2>6, <4>1
      <4> QED BY ONLY <2>x, <4>1, <4>2
    <3>3. CASE src[h] # 0
      <4>1. Hit(h) /\ res = h
        BY ONLY <2>1, <2>3, <3>1, <3>3 DEF Nul, Unless
      <4> QED BY ONLY <1>2, <2>3, <4>1
    <3> QED BY ONLY <3>2, <3>3
  <2>8. Sought
    <3> HIDE DEF X
    <3> QED BY ONLY <1>1, <2>5, <2>6, <2>7, f = "strstr", FirstFound
  <2>9. ReadsInside
    <3>1. \A k \in tried : k \in 0 .. l
      BY ONLY <1>o, <2>3
    <3> HIDE DEF tried
    <3>2. \A k \in tried : k .. k + Matched(src, k, dst) \subseteq 0 .. l /\ 0 .. Matched(src, k, dst) \subseteq 0 .. q
      <4> TAKE k \in tried
      <4>1. k \in 0 .. l /\ Matched(src, k, dst) \in 0 .. q /\ k + Matched(src, k, dst) \in 0 .. l
        <5>1. k \in 0 .. l
          BY ONLY <3>1, k \in tried
        <5> QED BY ONLY <1>m, <5>1
      <4> QED BY ONLY <1>o, <1>p, <4>1
    <3>3. 0 .. h \subseteq 0 .. l /\ 0 \in 0 .. q
      BY ONLY <1>o, <1>p, <2>3
    <3>4. readAt \subseteq 0 .. l
      BY ONLY <2>1, <3>2, <3>3
    <3>5. readDst \subseteq 0 .. q
      BY ONLY <2>1, <3>2, <3>3
    <3> QED BY ONLY <1>o, <1>p, <3>4, <3>5 DEF ReadsInside
  <2> QED BY ONLY <2>8, <2>9
<1> QED BY ONLY <1>3, <1>4

(* A bounded string is read up to its end, which reads as zero.             *)
LEMMA LimitedRead ==
    ASSUME NEW o, NEW l, NEW m, Limited(o, l, m)
    PROVE  /\ l \in Nat /\ m \in Nat /\ l <= m /\ strlen(o, 0) = l
           /\ \A k \in 0 .. l : At(o, k) \in 0 .. 255
           /\ \A k \in 0 .. l - 1 : At(o, k) = o[k] /\ At(o, k) # 0
           /\ At(o, l) = 0
           /\ 0 .. (IF l < m THEN l ELSE l - 1) = DOMAIN o
<1>1. /\ l \in Nat /\ m \in Nat /\ l <= m /\ o \in [0 .. (IF l < m THEN l ELSE l - 1) -> 0 .. 255]
      /\ \A k \in 0 .. l - 1 : o[k] # 0 /\ (l < m => o[l] = 0)
  BY DEF Limited, Nul
<1>2. DOMAIN o = 0 .. (IF l < m THEN l ELSE l - 1)
  BY ONLY <1>1
<1>3. \A k \in 0 .. l - 1 : k \in DOMAIN o
  BY ONLY <1>1, <1>2
<1>4. At(o, l) = 0
  <2>1. CASE l < m
    BY ONLY Limited(o, l, m), <1>1, <1>2, <2>1 DEF At, Limited, Nul
  <2>2. CASE ~(l < m)
    <3>1. l \notin DOMAIN o
      BY ONLY <1>1, <1>2, <2>2
    <3> QED BY ONLY <3>1 DEF At, Nul
  <2> QED BY ONLY <2>1, <2>2
<1>5. \A k \in 0 .. l - 1 : At(o, k) = o[k] /\ At(o, k) # 0 /\ At(o, k) \in 0 .. 255
  BY ONLY <1>1, <1>2, <1>3 DEF At
<1>6. \A k \in 0 .. l : k = l \/ k \in 0 .. l - 1
  BY ONLY <1>1
<1>7. strlen(o, 0) = l
  <2>1. PICK z \in Nat : z = (IF l < m THEN l + 1 ELSE l)
    BY ONLY <1>1
  <2>2. z - 1 = IF l < m THEN l ELSE l - 1
    BY ONLY <1>1, <2>1
  <2>3. Size(o) = z
    BY ONLY <1>2, <2>2, SizeOf, z \in Nat
  <2>4. From(0, o) = 0 .. z
    <3>1. Max({0, z}) = z
      BY ONLY MaxTwo, z \in Nat
    <3> QED BY ONLY <2>3, <3>1 DEF From
  <2> DEFINE S == {k \in 0 .. z : At(o, k) = Nul}
  <2>5. l \in S /\ S \in SUBSET Int /\ \A y \in S : l <= y
    <3>1. l \in 0 .. z
      BY ONLY <1>1, <2>1
    <3>2. \A y \in 0 .. z : ~(l <= y) => y \in 0 .. l - 1
      BY ONLY <1>1, <2>1
    <3> QED BY ONLY <1>4, <1>5, <3>1, <3>2 DEF Nul
  <2>6. Min(S) = l
    <3> HIDE DEF S
    <3> QED BY ONLY <2>5, LeastIs
  <2>7. strlen(o, 0) = Min(S) - 0
    BY ONLY <2>4 DEF strlen
  <2> HIDE DEF S
  <2> QED BY ONLY <1>1, <2>6, <2>7
<1>8. \A k \in 0 .. l : At(o, k) \in 0 .. 255
  BY ONLY <1>4, <1>5, <1>6
<1> QED BY ONLY <1>1, <1>2, <1>4, <1>5, <1>7, <1>8

(* strnlen stops at n, and reads no byte at n.                              *)
LEMMA strnlenFound ==
    ASSUME NEW l, Limited(src, l, size), f = "strnlen", Returned PROVE ReadsInside /\ Sought
<1>1. /\ l \in Nat /\ size \in Nat /\ l <= size
      /\ \A k \in 0 .. l - 1 : At(src, k) = src[k] /\ At(src, k) # 0
      /\ At(src, l) = 0
      /\ 0 .. (IF l < size THEN l ELSE l - 1) = DOMAIN src
  BY LimitedRead
<1> DEFINE S == {size} \cup {k \in 0 .. size - 1 : At(src, k) = Nul}
           X == {k \in DOMAIN src : src[k] = Nul} \cup {size}
<1>2. l \in S /\ S \in SUBSET Int /\ \A y \in S : l <= y
  <2>1. \A y \in 0 .. size - 1 : ~(l <= y) => y \in 0 .. l - 1
    BY ONLY <1>1
  <2>2. l = size \/ l \in 0 .. size - 1
    BY ONLY <1>1
  <2> QED BY ONLY <1>1, <2>1, <2>2 DEF Nul
<1>3. Min(S) = l
  <2> HIDE DEF S
  <2> QED BY ONLY <1>2, LeastIs
<1>4. res = l /\ readAt = 0 .. Min({l, size - 1}) /\ readDst = {}
  BY ONLY <1>3, f = "strnlen", Returned DEF Returned, Outcome, strnlen, Result
<1>5. 0 .. Min({l, size - 1}) = DOMAIN src
  <2>1. Min({l, size - 1}) = IF l <= size - 1 THEN l ELSE size - 1
    <3>1. l \in Int /\ size - 1 \in Int
      BY ONLY <1>1
    <3> QED BY ONLY <3>1, MinTwo
  <2>2. Min({l, size - 1}) = IF l < size THEN l ELSE l - 1
    BY ONLY <1>1, <2>1
  <2> QED BY ONLY <1>1, <2>2
<1>6. Wanted = X
  BY ONLY f = "strnlen" DEF Wanted
<1>7. l \in X /\ X \in SUBSET Nat /\ \A k \in X : ~(k < l)
  <2>1. CASE l < size
    <3>1. DOMAIN src = 0 .. l
      BY ONLY <1>1, <2>1
    <3>2. src[l] = 0
      BY ONLY <1>1, <3>1 DEF At
    <3> QED BY ONLY <1>1, <2>1, <3>1, <3>2 DEF Nul
  <2>2. CASE ~(l < size)
    <3>1. DOMAIN src = 0 .. l - 1 /\ l = size
      BY ONLY <1>1, <2>2
    <3> QED BY ONLY <1>1, <3>1 DEF Nul
  <2> QED BY ONLY <2>1, <2>2
<1>8. Sought
  <2> HIDE DEF X
  <2> QED BY ONLY <1>1, <1>4, <1>6, <1>7, f = "strnlen", FirstFound
<1> QED BY ONLY <1>4, <1>5, <1>8 DEF ReadsInside

-----------------------------------------------------------------------------
(* The conversion of an int to unsigned, where it changes nothing and where *)
(* it wraps.                                                                *)
LEMMA Unsigned ==
    ASSUME NEW m \in Nat, m > 0, NEW x \in Int, -m <= x, x < m
    PROVE  (0 <= x => x % m = x) /\ (x < 0 => x % m = x + m)
  OBVIOUS

(* The single unsigned comparison is an interval test.                      *)
LEMMA WithinIs ==
    ASSUME NEW x \in Nat, NEW base \in 0 .. 100, NEW width \in 0 .. 100, x - base < Span
    PROVE  Within(x, base, width) <=> base <= x /\ x < base + width
<1>1. Span \in Nat /\ Span > 256
  BY SpanAssumption
<1>2. /\ x - base \in Int /\ -Span <= x - base /\ x - base < Span /\ Span > 0
  BY <1>1
<1>3. /\ 0 <= x - base => u(x - base) = x - base
      /\ x - base < 0 => u(x - base) = x - base + Span
  BY ONLY <1>1, <1>2, Unsigned DEF u
<1> QED BY ONLY <1>1, <1>3, x \in Nat, base \in 0 .. 100, width \in 0 .. 100 DEF Within

(* `c | 32', which moves the letters in upper case and makes no letter of   *)
(* anything else.                                                           *)
LEMMA SetBit5Is ==
    ASSUME NEW x \in Nat
    PROVE  /\ SetBit5(x) = x \/ SetBit5(x) = x + 32
           /\ x \in 64 .. 95 => SetBit5(x) = x + 32
           /\ x \in 96 .. 127 => SetBit5(x) = x
           /\ x \in 0 .. 63 => SetBit5(x) < 96
<1>1. x \in 64 .. 95 => x \div 32 = 2
  OBVIOUS
<1>2. x \in 96 .. 127 => x \div 32 = 3
  OBVIOUS
<1>3. 3 % 2 = 1 /\ 2 % 2 = 0
  OBVIOUS
<1> QED BY ONLY <1>1, <1>2, <1>3, x \in Nat DEF SetBit5

(* The unsigned value of an int, and each class as an interval of ints.     *)
LEMMA IntClass ==
    ASSUME NEW v \in -(Span \div 2) .. (Span \div 2) - 1
    PROVE  /\ isupper(v) <=> v \in 65 .. 90
           /\ islower(v) <=> v \in 97 .. 122
           /\ isdigit(v) <=> v \in 48 .. 57
           /\ isalpha(v) <=> v \in (65 .. 90) \cup (97 .. 122)
           /\ isspace(v) <=> v \in {32} \cup (9 .. 13)
           /\ isxdigit(v) <=> v \in (48 .. 57) \cup (65 .. 70) \cup (97 .. 102)
           /\ isgraph(v) <=> v \in 33 .. 126
           /\ isprint(v) <=> v \in 32 .. 126
           /\ iscntrl(v) <=> v \in (0 .. 31) \cup {127}
           /\ isascii(v) <=> v \in 0 .. 127
<1>1. Span \in Nat /\ Span > 256
  BY SpanAssumption
<1>2. v \in Int /\ -Span <= v /\ v < Span /\ v + Span >= 128
  BY <1>1
<1>3. PICK x \in Nat : x = u(v) /\ x < Span /\ (0 <= v => x = v) /\ (v < 0 => x >= 128)
  <2>1. (0 <= v => u(v) = v) /\ (v < 0 => u(v) = v + Span)
    BY ONLY <1>1, <1>2, Unsigned DEF u
  <2> QED BY ONLY <1>1, <1>2, <2>1
<1>4. \A base, width \in 0 .. 100 : Within(x, base, width) <=> base <= x /\ x < base + width
  <2> TAKE base, width \in 0 .. 100
  <2>1. x - base < Span
    BY ONLY <1>1, <1>3, base \in 0 .. 100
  <2> QED BY ONLY <1>3, <2>1, WithinIs, base \in 0 .. 100, width \in 0 .. 100
<1>6. PICK y \in Nat : /\ y = SetBit5(x)
                       /\ y = x \/ y = x + 32
                       /\ x \in 64 .. 95 => y = x + 32
                       /\ x \in 96 .. 127 => y = x
                       /\ x \in 0 .. 63 => y < 96
  <2>1. /\ SetBit5(x) = x \/ SetBit5(x) = x + 32
        /\ x \in 64 .. 95 => SetBit5(x) = x + 32
        /\ x \in 96 .. 127 => SetBit5(x) = x
        /\ x \in 0 .. 63 => SetBit5(x) < 96
    BY ONLY SetBit5Is, x \in Nat
  <2>2. SetBit5(x) \in Nat
    BY ONLY <2>1, x \in Nat
  <2> QED BY ONLY <2>1, <2>2
<1>7. \A width \in 0 .. 100 : Within(y, 97, width) <=> 97 <= y /\ y < 97 + width
  <2> TAKE width \in 0 .. 100
  <2>1. y - 97 < Span /\ 97 \in 0 .. 100
    BY ONLY <1>1, <1>3, <1>6
  <2> QED BY ONLY <1>6, <2>1, WithinIs, width \in 0 .. 100
<1>8. Within(y, 97, 26) <=> x \in (65 .. 90) \cup (97 .. 122)
  <2>1. 97 <= y /\ y < 97 + 26 <=> x \in (65 .. 90) \cup (97 .. 122)
    BY ONLY <1>3, <1>6
  <2> QED BY ONLY <1>7, <2>1
<1>9. Within(y, 97, 6) <=> x \in (65 .. 70) \cup (97 .. 102)
  <2>1. 97 <= y /\ y < 97 + 6 <=> x \in (65 .. 70) \cup (97 .. 102)
    BY ONLY <1>3, <1>6
  <2> QED BY ONLY <1>7, <2>1
<1>10. isupper(v) <=> v \in 65 .. 90
  <2>1. Within(x, 65, 26) <=> 65 <= x /\ x < 65 + 26
    <3>1. 65 \in 0 .. 100 /\ 26 \in 0 .. 100
      OBVIOUS
    <3> QED BY ONLY <1>4, <3>1, Zenon
  <2> QED BY ONLY <1>2, <1>3, <2>1 DEF isupper
<1>11. islower(v) <=> v \in 97 .. 122
  <2>1. Within(x, 97, 26) <=> 97 <= x /\ x < 97 + 26
    <3>1. 97 \in 0 .. 100 /\ 26 \in 0 .. 100
      OBVIOUS
    <3> QED BY ONLY <1>4, <3>1, Zenon
  <2> QED BY ONLY <1>2, <1>3, <2>1 DEF islower
<1>12. isdigit(v) <=> v \in 48 .. 57
  <2>1. Within(x, 48, 10) <=> 48 <= x /\ x < 48 + 10
    <3>1. 48 \in 0 .. 100 /\ 10 \in 0 .. 100
      OBVIOUS
    <3> QED BY ONLY <1>4, <3>1, Zenon
  <2> QED BY ONLY <1>2, <1>3, <2>1 DEF isdigit
<1>13. isalpha(v) <=> v \in (65 .. 90) \cup (97 .. 122)
  <2>1. x \in (65 .. 90) \cup (97 .. 122) <=> v \in (65 .. 90) \cup (97 .. 122)
    BY ONLY <1>2, <1>3
  <2> QED BY ONLY <1>3, <1>6, <1>8, <2>1 DEF isalpha
<1>14. isspace(v) <=> v \in {32} \cup (9 .. 13)
  <2>1. Within(x, 9, 5) <=> 9 <= x /\ x < 9 + 5
    <3>1. 9 \in 0 .. 100 /\ 5 \in 0 .. 100
      OBVIOUS
    <3> QED BY ONLY <1>4, <3>1, Zenon
  <2> QED BY ONLY <1>2, <1>3, <2>1 DEF isspace
<1>15. isxdigit(v) <=> v \in (48 .. 57) \cup (65 .. 70) \cup (97 .. 102)
  <2>1. x \in (65 .. 70) \cup (97 .. 102) <=> v \in (65 .. 70) \cup (97 .. 102)
    BY ONLY <1>2, <1>3
  <2>2. isxdigit(v) <=> isdigit(v) \/ Within(y, 97, 6)
    BY ONLY <1>3, <1>6 DEF isxdigit
  <2> QED BY ONLY <1>9, <1>12, <2>1, <2>2
<1>16. isgraph(v) <=> v \in 33 .. 126
  <2>1. Within(x, 33, 94) <=> 33 <= x /\ x < 33 + 94
    <3>1. 33 \in 0 .. 100 /\ 94 \in 0 .. 100
      OBVIOUS
    <3> QED BY ONLY <1>4, <3>1, Zenon
  <2> QED BY ONLY <1>2, <1>3, <2>1 DEF isgraph
<1>17. isprint(v) <=> v \in 32 .. 126
  <2>1. Within(x, 32, 95) <=> 32 <= x /\ x < 32 + 95
    <3>1. 32 \in 0 .. 100 /\ 95 \in 0 .. 100
      OBVIOUS
    <3> QED BY ONLY <1>4, <3>1, Zenon
  <2> QED BY ONLY <1>2, <1>3, <2>1 DEF isprint
<1>18. iscntrl(v) <=> v \in (0 .. 31) \cup {127}
  <2>1. x < 32 <=> v \in 0 .. 31
    BY ONLY <1>2, <1>3
  <2> QED BY ONLY <1>3, <2>1 DEF iscntrl
<1>19. isascii(v) <=> v \in 0 .. 127
  <2>1. x \div 128 = 0 <=> x < 128
    BY ONLY <1>3
  <2>2. x < 128 <=> v \in 0 .. 127
    BY ONLY <1>2, <1>3
  <2> QED BY ONLY <1>3, <2>1, <2>2 DEF isascii
<1> QED BY ONLY <1>10, <1>11, <1>12, <1>13, <1>14, <1>15, <1>16, <1>17, <1>18, <1>19

(* The case mappings move the letters and nothing else, and toascii keeps   *)
(* the low seven bits.                                                      *)
LEMMA IntMaps ==
    ASSUME NEW v \in -(Span \div 2) .. (Span \div 2) - 1
    PROVE  /\ tolower(v) = IF v \in 65 .. 90 THEN v + 32 ELSE v
           /\ toupper(v) = IF v \in 97 .. 122 THEN v - 32 ELSE v
           /\ toascii(v) = (v + Span) % 128
<1>1. Span \in Nat /\ Span > 256 /\ Span % 256 = 0
  BY SpanAssumption
<1>2. v \in Int
  BY <1>1
<1>3. tolower(v) = IF v \in 65 .. 90 THEN v + 32 ELSE v
  <2>1. isupper(v) <=> v \in 65 .. 90
    BY IntClass
  <2>2. v \in 65 .. 90 => v \in Nat /\ v \in 64 .. 95
    BY ONLY <1>2
  <2>3. v \in 65 .. 90 => SetBit5(v) = v + 32
    BY ONLY <2>2, SetBit5Is
  <2> QED BY ONLY <2>1, <2>3 DEF tolower
<1>4. toupper(v) = IF v \in 97 .. 122 THEN v - 32 ELSE v
  <2>1. islower(v) <=> v \in 97 .. 122
    BY IntClass
  <2>2. v \in 97 .. 122 => v \div 64 = 1 /\ v % 32 = v - 96 /\ 1 % 2 = 1
    BY ONLY <1>2
  <2>3. v \in 97 .. 122 => ClearBit5(v) = v - 32
    BY ONLY <1>2, <2>2 DEF ClearBit5
  <2> QED BY ONLY <2>1, <2>3 DEF toupper
<1>5. toascii(v) = (v + Span) % 128
  <2>1. PICK z \in Int : Span = z * 128
    <3>1. Span = (Span \div 256) * 256 + (Span % 256) /\ Span \div 256 \in Int
      BY ONLY <1>1
    <3>2. Span = ((Span \div 256) * 2) * 128 /\ (Span \div 256) * 2 \in Int
      BY ONLY <1>1, <3>1
    <3> QED BY ONLY <3>2
  <2>2. (v + z * 128) % 128 = v % 128
    BY ONLY <1>2, z \in Int
  <2> QED BY ONLY <2>1, <2>2 DEF toascii
<1> QED BY ONLY <1>3, <1>4, <1>5

(* The classes and mappings are those of the C locale, for every int.       *)
LEMMA ClassesRight ==
    ASSUME c \in -(Span \div 2) .. (Span \div 2) - 1, f = "ctype", Returned
    PROVE  ReadsInside /\ ClassesExact
<1> DEFINE U == 65 .. 90
           L == 97 .. 122
           D == 48 .. 57
           P == (33 .. 47) \cup (58 .. 64) \cup (91 .. 96) \cup (123 .. 126)
<1>1. res = Classes(c) /\ readAt = {} /\ readDst = {}
  BY ONLY f = "ctype", Returned DEF Returned, Outcome, Result
<1>2. c \in Int
  BY SpanAssumption
<1>3. /\ isupper(c) <=> c \in U
      /\ islower(c) <=> c \in L
      /\ isdigit(c) <=> c \in D
      /\ isalpha(c) <=> c \in U \cup L
      /\ isspace(c) <=> c \in {32} \cup (9 .. 13)
      /\ isxdigit(c) <=> c \in D \cup (65 .. 70) \cup (97 .. 102)
      /\ isgraph(c) <=> c \in 33 .. 126
      /\ isprint(c) <=> c \in 32 .. 126
      /\ iscntrl(c) <=> c \in (0 .. 31) \cup {127}
      /\ isascii(c) <=> c \in 0 .. 127
  BY IntClass
<1>4. /\ tolower(c) = IF c \in U THEN c + 32 ELSE c
      /\ toupper(c) = IF c \in L THEN c - 32 ELSE c
      /\ toascii(c) = (c + Span) % 128
  BY IntMaps
<1>5. isalnum(c) <=> c \in U \cup L \cup D
  BY ONLY <1>3 DEF isalnum
<1>6. c \in 33 .. 126 <=> c \in P \cup U \cup L \cup D
  BY ONLY <1>2
<1>7. ispunct(c) <=> c \in P
  <2>1. c \in P => c \notin U \cup L \cup D
    BY ONLY <1>2
  <2>2. ispunct(c) <=> isgraph(c) /\ ~isalnum(c)
    BY ONLY DEF ispunct
  <2> HIDE DEF P, U, L, D
  <2> QED BY ONLY <1>3, <1>5, <1>6, <2>1, <2>2
<1>8. c \in 32 .. 126 <=> c \in {32} \cup P \cup U \cup L \cup D
  BY ONLY <1>2
<1>9. isblank(c) <=> c \in {9, 32}
  BY ONLY DEF isblank
<1>10. isgraph(c) <=> c \in P \cup U \cup L \cup D
  BY ONLY <1>3, <1>6
<1>11. isprint(c) <=> c \in {32} \cup P \cup U \cup L \cup D
  BY ONLY <1>3, <1>8
<1>12. /\ isalpha(c) \in BOOLEAN /\ isdigit(c) \in BOOLEAN /\ isspace(c) \in BOOLEAN
       /\ isupper(c) \in BOOLEAN /\ islower(c) \in BOOLEAN /\ isalnum(c) \in BOOLEAN
       /\ isxdigit(c) \in BOOLEAN /\ isgraph(c) \in BOOLEAN /\ isprint(c) \in BOOLEAN
       /\ ispunct(c) \in BOOLEAN /\ iscntrl(c) \in BOOLEAN /\ isblank(c) \in BOOLEAN
       /\ isascii(c) \in BOOLEAN
  BY ONLY DEF isalpha, isdigit, isspace, isupper, islower, isalnum, isxdigit, isgraph, isprint,
     ispunct, iscntrl, isblank, isascii, Within
<1>13. Classes(c) =
         [isalpha |-> c \in U \cup L, isdigit |-> c \in D,
          isspace |-> c \in {32} \cup (9 .. 13),
          isupper |-> c \in U, islower |-> c \in L, isalnum |-> c \in U \cup L \cup D,
          isxdigit |-> c \in D \cup (65 .. 70) \cup (97 .. 102),
          isgraph |-> c \in P \cup U \cup L \cup D,
          isprint |-> c \in {32} \cup P \cup U \cup L \cup D,
          ispunct |-> c \in P, iscntrl |-> c \in (0 .. 31) \cup {127},
          isblank |-> c \in {9, 32}, isascii |-> c \in 0 .. 127,
          tolower |-> IF c \in U THEN c + 32 ELSE c,
          toupper |-> IF c \in L THEN c - 32 ELSE c,
          toascii |-> (c + Span) % 128]
  <2> HIDE DEF U, L, D, P
  <2>1. isalpha(c) = (c \in U \cup L)
    BY ONLY <1>3, <1>12
  <2>2. isdigit(c) = (c \in D)
    BY ONLY <1>3, <1>12
  <2>3. isspace(c) = (c \in {32} \cup (9 .. 13))
    BY ONLY <1>3, <1>12
  <2>4. isupper(c) = (c \in U)
    BY ONLY <1>3, <1>12
  <2>5. islower(c) = (c \in L)
    BY ONLY <1>3, <1>12
  <2>6. isalnum(c) = (c \in U \cup L \cup D)
    BY ONLY <1>5, <1>12
  <2>7. isxdigit(c) = (c \in D \cup (65 .. 70) \cup (97 .. 102))
    BY ONLY <1>3, <1>12
  <2>8. isgraph(c) = (c \in P \cup U \cup L \cup D)
    BY ONLY <1>10, <1>12
  <2>9. isprint(c) = (c \in {32} \cup P \cup U \cup L \cup D)
    BY ONLY <1>11, <1>12
  <2>10. ispunct(c) = (c \in P)
    BY ONLY <1>7, <1>12
  <2>11. iscntrl(c) = (c \in (0 .. 31) \cup {127})
    BY ONLY <1>3, <1>12
  <2>12. isblank(c) = (c \in {9, 32})
    BY ONLY <1>9, <1>12
  <2>13. isascii(c) = (c \in 0 .. 127)
    BY ONLY <1>3, <1>12
  <2> QED BY ONLY <1>4, <2>1, <2>2, <2>3, <2>4, <2>5, <2>6, <2>7, <2>8, <2>9, <2>10, <2>11,
             <2>12, <2>13 DEF Classes
<1> QED BY ONLY <1>1, <1>13 DEF ClassesExact, ReadsInside

-----------------------------------------------------------------------------
(* The comparisons.  Less is the lexicographic order that OrderExact names, *)
(* Weight what a byte counts in the comparison f.                           *)
Less(x, y) == \E k \in DOMAIN x : x[k] < y[k] /\ \A j \in 0 .. k - 1 : x[j] = y[j]

Ordered ==
    /\ (res < 0) = Less(Padded(src), Padded(dst))
    /\ (res > 0) = Less(Padded(dst), Padded(src))

Weight(b) == IF f \in {"strcmp", "strncmp", "memcmp"} THEN b ELSE fold(b)

(* A string that reads as l bytes and a zero.                               *)
EndsAt(o, l) ==
    /\ l \in Nat /\ strlen(o, 0) = l /\ At(o, l) = 0
    /\ \A k \in 0 .. l - 1 : At(o, k) = o[k] /\ At(o, k) \in 1 .. 255

(* Lower case, for a byte.                                                  *)
LEMMA foldIs ==
    ASSUME NEW b \in 0 .. 255
    PROVE  fold(b) = IF b \in 65 .. 90 THEN b + 32 ELSE b
<1>1. Span \in Nat /\ Span > 256 /\ Span % 256 = 0
  BY SpanAssumption
<1>2. Span >= 512
  BY ONLY <1>1
<1>3. b \in -(Span \div 2) .. (Span \div 2) - 1
  BY ONLY <1>1, <1>2, b \in 0 .. 255
<1>4. tolower(b) = IF b \in 65 .. 90 THEN b + 32 ELSE b
  BY ONLY <1>3, IntMaps
<1>5. tolower(b) \in 0 .. 255
  BY ONLY <1>4, b \in 0 .. 255
<1> QED BY ONLY <1>4, <1>5, ByteSelf DEF fold

(* Only the terminator counts zero.                                         *)
LEMMA WeightIs ==
    /\ \A b \in 0 .. 255 : Weight(b) \in 0 .. 255
    /\ \A b \in 0 .. 255 : Weight(b) = 0 <=> b = 0
    /\ Weight(0) = 0
<1>1. \A b \in 0 .. 255 : fold(b) = IF b \in 65 .. 90 THEN b + 32 ELSE b
  BY foldIs
<1>2. \A b \in 0 .. 255 : fold(b) \in 0 .. 255 /\ (fold(b) = 0 <=> b = 0)
  BY ONLY <1>1
<1>3. 0 \in 0 .. 255
  OBVIOUS
<1> QED BY ONLY <1>2, <1>3 DEF Weight

(* The first difference decides.                                            *)
LEMMA Decides ==
    ASSUME NEW M \in Nat, NEW x \in [0 .. M -> Int], NEW y \in [0 .. M -> Int], NEW a \in 0 .. M,
           \A j \in 0 .. a - 1 : x[j] = y[j],
           x[a] # y[a] \/ \A j \in a .. M : x[j] = y[j]
    PROVE  x[a] - y[a] < 0 <=> Less(x, y)
<1>1. DOMAIN x = 0 .. M /\ x[a] \in Int /\ y[a] \in Int
  OBVIOUS
<1>2. ASSUME x[a] < y[a] PROVE Less(x, y)
  BY <1>1, <1>2 DEF Less
<1>3. ASSUME Less(x, y) PROVE x[a] < y[a]
  <2>1. PICK k \in 0 .. M : x[k] < y[k] /\ \A j \in 0 .. k - 1 : x[j] = y[j]
    BY ONLY <1>1, <1>3 DEF Less
  <2>2. x[k] # y[k]
    <3>1. x[k] \in Int /\ y[k] \in Int
      BY ONLY k \in 0 .. M, x \in [0 .. M -> Int], y \in [0 .. M -> Int]
    <3> QED BY ONLY <2>1, <3>1
  <2>3. k \in a .. M
    <3>1. k \notin 0 .. a - 1
      BY ONLY <2>2, \A j \in 0 .. a - 1 : x[j] = y[j]
    <3> QED BY ONLY <3>1, k \in 0 .. M, a \in 0 .. M, M \in Nat
  <2>4. x[a] # y[a]
    BY ONLY <2>2, <2>3, x[a] # y[a] \/ \A j \in a .. M : x[j] = y[j]
  <2>5. k = a
    <3>1. a \notin 0 .. k - 1
      BY ONLY <2>1, <2>4
    <3> QED BY ONLY <2>3, <3>1, k \in 0 .. M, a \in 0 .. M, M \in Nat
  <2> QED BY ONLY <2>1, <2>5
<1>4. x[a] - y[a] < 0 <=> x[a] < y[a]
  BY ONLY <1>1
<1> QED BY ONLY <1>2, <1>3, <1>4

(* And in both directions.                                                  *)
LEMMA DecidesBoth ==
    ASSUME NEW M \in Nat, Padded(src) \in [0 .. M -> Int], Padded(dst) \in [0 .. M -> Int],
           NEW a \in 0 .. M,
           \A j \in 0 .. a - 1 : Padded(src)[j] = Padded(dst)[j],
           \/ Padded(src)[a] # Padded(dst)[a]
           \/ \A j \in a .. M : Padded(src)[j] = Padded(dst)[j],
           res = Padded(src)[a] - Padded(dst)[a]
    PROVE  Ordered
<1> DEFINE x == Padded(src)
           y == Padded(dst)
<1>1. /\ x \in [0 .. M -> Int] /\ y \in [0 .. M -> Int] /\ res = x[a] - y[a]
      /\ \A j \in 0 .. a - 1 : x[j] = y[j]
      /\ x[a] # y[a] \/ \A j \in a .. M : x[j] = y[j]
  OBVIOUS
<1> HIDE DEF x, y
<1>2. x[a] - y[a] < 0 <=> Less(x, y)
  BY ONLY <1>1, Decides, M \in Nat, a \in 0 .. M
<1>3. y[a] - x[a] < 0 <=> Less(y, x)
  <2>1. /\ \A j \in 0 .. a - 1 : y[j] = x[j]
        /\ y[a] # x[a] \/ \A j \in a .. M : y[j] = x[j]
    BY ONLY <1>1
  <2> QED BY ONLY <1>1, <2>1, Decides, M \in Nat, a \in 0 .. M
<1>4. res > 0 <=> y[a] - x[a] < 0
  BY ONLY <1>1, a \in 0 .. M
<1>5. Less(x, y) \in BOOLEAN /\ Less(y, x) \in BOOLEAN
  BY ONLY DEF Less
<1>6. (res < 0) = Less(x, y)
  BY ONLY <1>1, <1>2, <1>5
<1>7. (res > 0) = Less(y, x)
  BY ONLY <1>3, <1>4, <1>5
<1> QED BY ONLY <1>6, <1>7 DEF Ordered, x, y

(* What a comparison may look at, as weights.                               *)
LEMMA PaddedIs ==
    ASSUME f \in Comparisons \cup Bounded, NEW o, NEW l, EndsAt(o, l),
           f \in Bounded => size \in Nat /\ l <= size
    PROVE  /\ Padded(o) \in [0 .. MaxScan + MaxCount -> Int]
           /\ \A k \in 0 .. MaxScan + MaxCount :
                 Padded(o)[k] = IF k >= l THEN 0 ELSE Weight(At(o, k))
<1>1. l \in Nat /\ strlen(o, 0) = l /\ \A k \in 0 .. l - 1 : At(o, k) = o[k] /\ At(o, k) \in 1 .. 255
  BY DEF EndsAt
<1>2. f \in Bounded => Min({size, strlen(o, 0)}) = l
  <2>1. ASSUME f \in Bounded PROVE Min({size, l}) = l
    <3>1. size \in Int /\ l \in Int /\ l <= size
      BY <1>1, <2>1
    <3>2. Min({size, l}) = IF size <= l THEN size ELSE l
      BY ONLY <3>1, MinTwo
    <3> QED BY ONLY <3>1, <3>2
  <2> QED BY ONLY <1>1, <2>1
<1> DEFINE lower(b) == IF b \in 65 .. 90 THEN b + 32 ELSE b
           len == CASE f = "memcmp" -> size
                    [] f \in Bounded -> Min({size, strlen(o, 0)})
                    [] OTHER -> strlen(o, 0)
<1>3. len = l
  BY ONLY <1>1, <1>2, f \in Comparisons \cup Bounded DEF Comparisons, Bounded
<1>4. Padded(o) = [k \in 0 .. MaxScan + MaxCount |->
                     IF k >= len THEN Nul
                     ELSE IF f \in {"strcmp", "strncmp", "memcmp"} THEN o[k] ELSE lower(o[k])]
  BY ONLY DEF Padded
<1> HIDE DEF len
<1>5. \A k \in 0 .. MaxScan + MaxCount : ~(k >= l) => k \in 0 .. l - 1
  BY ONLY <1>1, BoundsAssumption
<1>6. \A k \in 0 .. MaxScan + MaxCount : ~(k >= l) =>
          /\ At(o, k) = o[k] /\ o[k] \in 0 .. 255 /\ fold(o[k]) = lower(o[k])
  <2> TAKE k \in 0 .. MaxScan + MaxCount
  <2> HAVE ~(k >= l)
  <2>1. At(o, k) = o[k] /\ At(o, k) \in 1 .. 255
    BY ONLY <1>1, <1>5, k \in 0 .. MaxScan + MaxCount, ~(k >= l)
  <2>2. o[k] \in 0 .. 255
    BY ONLY <2>1
  <2> QED BY ONLY <2>1, <2>2, foldIs
<1>7. \A k \in 0 .. MaxScan + MaxCount : Padded(o)[k] = IF k >= l THEN 0 ELSE Weight(At(o, k))
  <2> HIDE DEF lower
  <2> QED BY ONLY <1>3, <1>4, <1>6 DEF Weight, Nul
<1>8. DOMAIN Padded(o) = 0 .. MaxScan + MaxCount /\ Padded(o) = [k \in DOMAIN Padded(o) |-> Padded(o)[k]]
  BY ONLY <1>4
<1>9. \A k \in 0 .. MaxScan + MaxCount : Padded(o)[k] \in Int
  <2> TAKE k \in 0 .. MaxScan + MaxCount
  <2>1. CASE k >= l
    BY ONLY <1>7, <2>1, k \in 0 .. MaxScan + MaxCount
  <2>2. CASE ~(k >= l)
    <3>1. At(o, k) \in 0 .. 255
      <4> HIDE DEF lower
      <4> QED BY ONLY <1>6, <2>2, k \in 0 .. MaxScan + MaxCount
    <3>2. Weight(At(o, k)) \in Int
      <4>1. Weight(At(o, k)) \in 0 .. 255
        BY ONLY <3>1, WeightIs
      <4> QED BY ONLY <4>1
    <3> QED BY ONLY <1>7, <2>2, <3>2, k \in 0 .. MaxScan + MaxCount
  <2> QED BY ONLY <2>1, <2>2
<1>10. Padded(o) \in [0 .. MaxScan + MaxCount -> Int]
  BY ONLY <1>8, <1>9
<1> QED BY ONLY <1>7, <1>10

(* Where a string comparison may end: at the first difference of weights,   *)
(* at the end of a string, or at the last of n bytes.                       *)
LEMMA CompareAt ==
    ASSUME f \in Comparisons \cup Bounded,
           NEW l \in 0 .. MaxScan + MaxCount, EndsAt(src, l),
           NEW q \in 0 .. MaxScan + MaxCount, EndsAt(dst, q),
           f \in Bounded => size \in Nat /\ l <= size /\ q <= size,
           NEW a \in Nat, a <= l, a <= q,
           \A j \in 0 .. a - 1 : Weight(At(src, j)) = Weight(At(dst, j)),
           \/ Weight(At(src, a)) # Weight(At(dst, a))
           \/ At(src, a) = 0 \/ At(dst, a) = 0
           \/ f \in Bounded /\ a = size - 1,
           res = Weight(At(src, a)) - Weight(At(dst, a))
    PROVE  Ordered
<1> DEFINE M == MaxScan + MaxCount
           x == Padded(src)
           y == Padded(dst)
<1>1. M \in Nat /\ l \in Nat /\ q \in Nat /\ a \in 0 .. M /\ l <= M /\ q <= M
  BY BoundsAssumption
<1>2. /\ x \in [0 .. M -> Int]
      /\ \A k \in 0 .. M : x[k] = IF k >= l THEN 0 ELSE Weight(At(src, k))
  BY PaddedIs
<1>3. /\ y \in [0 .. M -> Int]
      /\ \A k \in 0 .. M : y[k] = IF k >= q THEN 0 ELSE Weight(At(dst, k))
  BY PaddedIs
<1>4. /\ At(src, l) = 0 /\ At(dst, q) = 0
      /\ \A k \in 0 .. l - 1 : At(src, k) \in 1 .. 255
      /\ \A k \in 0 .. q - 1 : At(dst, k) \in 1 .. 255
  BY DEF EndsAt
<1> HIDE DEF M, x, y
<1>5. x[a] = Weight(At(src, a)) /\ y[a] = Weight(At(dst, a))
  <2>1. a >= l => At(src, a) = 0
    BY ONLY <1>1, <1>4, a \in Nat, a <= l
  <2>2. a >= q => At(dst, a) = 0
    BY ONLY <1>1, <1>4, a \in Nat, a <= q
  <2> QED BY ONLY <1>1, <1>2, <1>3, <2>1, <2>2, WeightIs
<1>6. \A j \in 0 .. a - 1 : x[j] = y[j]
  <2> TAKE j \in 0 .. a - 1
  <2>1. j \in 0 .. M /\ ~(j >= l) /\ ~(j >= q)
    BY ONLY <1>1, a \in Nat, a <= l, a <= q, j \in 0 .. a - 1
  <2> QED BY ONLY <1>2, <1>3, <2>1, \A k \in 0 .. a - 1 : Weight(At(src, k)) = Weight(At(dst, k)),
              j \in 0 .. a - 1
<1>7. x[a] # y[a] \/ \A j \in a .. M : x[j] = y[j]
  <2> SUFFICES ASSUME x[a] = y[a], NEW j \in a .. M PROVE x[j] = y[j]
    OBVIOUS
  <2>1. Weight(At(src, a)) = Weight(At(dst, a))
    BY ONLY <1>5, x[a] = y[a]
  <2>2. At(src, a) \in 0 .. 255 /\ At(dst, a) \in 0 .. 255
    <3>1. a = l \/ a \in 0 .. l - 1
      BY ONLY <1>1, a \in Nat, a <= l
    <3>2. a = q \/ a \in 0 .. q - 1
      BY ONLY <1>1, a \in Nat, a <= q
    <3> QED BY ONLY <1>4, <3>1, <3>2
  <2>3. At(src, a) = 0 <=> At(dst, a) = 0
    BY ONLY <2>1, <2>2, WeightIs
  <2>4. CASE At(src, a) = 0 /\ At(dst, a) = 0
    <3>1. a = l /\ a = q
      BY ONLY <1>1, <1>4, <2>4, a \in Nat, a <= l, a <= q
    <3>2. j \in 0 .. M /\ j >= l /\ j >= q
      BY ONLY <1>1, <3>1, j \in a .. M
    <3> QED BY ONLY <1>2, <1>3, <3>2
  <2>5. CASE At(src, a) # 0 /\ At(dst, a) # 0
    <3>1. f \in Bounded /\ a = size - 1 /\ size \in Nat /\ l <= size /\ q <= size
      BY <2>1, <2>5
    <3>2. l = size /\ q = size
      BY ONLY <1>1, <1>4, <2>5, <3>1, a \in Nat, a <= l, a <= q
    <3>3. CASE j = a
      BY ONLY <3>3, x[a] = y[a]
    <3>4. CASE j # a
      <4>1. j \in 0 .. M /\ j >= l /\ j >= q
        BY ONLY <1>1, <3>1, <3>2, <3>4, a \in Nat, j \in a .. M
      <4> QED BY ONLY <1>2, <1>3, <4>1
    <3> QED BY ONLY <3>3, <3>4
  <2> QED BY ONLY <2>3, <2>4, <2>5
<1>8. res = x[a] - y[a]
  BY ONLY <1>5, res = Weight(At(src, a)) - Weight(At(dst, a))
<1> QED BY ONLY <1>1, <1>2, <1>3, <1>6, <1>7, <1>8, DecidesBoth DEF x, y

(* A string ends at its length.                                             *)
LEMMA StrEnds == ASSUME NEW o, NEW l, Str(o, l) PROVE EndsAt(o, l)
<1>1. strlen(o, 0) = l
  BY StrLength
<1>2. /\ l \in Nat /\ DOMAIN o = 0 .. l /\ o[l] = 0 /\ \A k \in 0 .. l - 1 : o[k] # 0
      /\ \A k \in 0 .. l : At(o, k) = o[k] /\ o[k] \in 0 .. 255
  BY StrFacts
<1>3. l \in 0 .. l /\ \A k \in 0 .. l - 1 : k \in 0 .. l
  BY ONLY <1>2
<1>4. \A k \in 0 .. l - 1 : At(o, k) = o[k] /\ At(o, k) \in 1 .. 255
  <2> TAKE k \in 0 .. l - 1
  <2>1. o[k] # 0
    BY ONLY <1>2, k \in 0 .. l - 1
  <2>2. k \in 0 .. l
    BY ONLY <1>3, k \in 0 .. l - 1
  <2>3. At(o, k) = o[k] /\ o[k] \in 0 .. 255
    BY ONLY <1>2, <2>2
  <2> QED BY ONLY <2>1, <2>3
<1>5. At(o, l) = 0
  BY ONLY <1>2, <1>3
<1> QED BY ONLY <1>1, <1>2, <1>4, <1>5 DEF EndsAt

(* The same for a bounded string.                                           *)
LEMMA LimitedEnds == ASSUME NEW o, NEW l, NEW m, Limited(o, l, m) PROVE EndsAt(o, l)
<1>1. /\ l \in Nat /\ strlen(o, 0) = l /\ At(o, l) = 0
      /\ \A k \in 0 .. l : At(o, k) \in 0 .. 255
      /\ \A k \in 0 .. l - 1 : At(o, k) = o[k] /\ At(o, k) # 0
  BY LimitedRead
<1>2. \A k \in 0 .. l - 1 : k \in 0 .. l
  BY ONLY <1>1
<1> QED BY ONLY <1>1, <1>2 DEF EndsAt

(* strcmp, strcasecmp and strcasecmp_l.                                     *)
LEMMA CompareOrdered ==
    ASSUME NEW l, Str(src, l), NEW q, Str(dst, q), l < MaxScan, q < MaxScan,
           f \in Comparisons, Returned
    PROVE  ReadsInside /\ Ordered
<1>1. l \in Nat /\ q \in Nat /\ DOMAIN src = 0 .. l /\ DOMAIN dst = 0 .. q
      /\ Size(src) = l + 1 /\ Size(dst) = q + 1
  BY StrFacts
<1>2. EndsAt(src, l) /\ EndsAt(dst, q)
  BY StrEnds
<1>3. At(src, l) = 0 /\ At(dst, q) = 0
  BY ONLY <1>2 DEF EndsAt
<1>4. l \in 0 .. MaxScan + MaxCount /\ q \in 0 .. MaxScan + MaxCount
  BY ONLY <1>1, BoundsAssumption, l < MaxScan, q < MaxScan
<1> DEFINE h == IF l + 1 >= q + 1 THEN l + 1 ELSE q + 1
<1>5. Either(src, dst) = 0 .. h /\ l \in 0 .. h /\ q \in 0 .. h /\ h \in Nat
  <2>1. l + 1 \in Int /\ q + 1 \in Int
    BY ONLY <1>1
  <2>2. Max({l + 1, q + 1}) = h
    BY ONLY <2>1, MaxTwo
  <2>3. l \in 0 .. h /\ q \in 0 .. h /\ h \in Nat
    BY ONLY <1>1
  <2> HIDE DEF h
  <2> QED BY ONLY <1>1, <2>2, <2>3 DEF Either
<1> HIDE DEF h
<1>6. PICK a \in Nat :
         /\ a <= l /\ a <= q
         /\ \A j \in 0 .. a - 1 : Weight(At(src, j)) = Weight(At(dst, j))
         /\ Weight(At(src, a)) # Weight(At(dst, a)) \/ At(src, a) = 0 \/ At(dst, a) = 0
         /\ res = Weight(At(src, a)) - Weight(At(dst, a))
         /\ readAt = 0 .. a /\ readDst = 0 .. a
  <2>1. CASE f = "strcmp"
    <3> DEFINE S == {k \in 0 .. h : At(src, k) # At(dst, k) \/ At(src, k) = Nul}
               m == Min(S)
    <3>1. res = At(src, m) - At(dst, m) /\ readAt = 0 .. m /\ readDst = 0 .. m
      BY ONLY <1>5, <2>1, Returned DEF Returned, Outcome, strcmp, Diff, Result
    <3>2. l \in S /\ S \in SUBSET Nat /\ S \in SUBSET (0 .. h) /\ S # {}
      BY ONLY <1>3, <1>5 DEF Nul
    <3>3. m \in S /\ m \in Nat /\ m <= l /\ \A k \in 0 .. m - 1 : k \notin S
      <4> HIDE DEF S
      <4>1. Min(S) \in S /\ \A y \in S : Min(S) <= y
        BY ONLY <3>2, Least
      <4>2. Min(S) \in S /\ Min(S) \in 0 .. h /\ \A k \in 0 .. Min(S) - 1 : k \notin S
        BY ONLY <1>5, <3>2, Stop
      <4> QED BY ONLY <3>2, <4>1, <4>2
    <3> HIDE DEF m
    <3>4. \A k \in 0 .. m - 1 : At(src, k) = At(dst, k) /\ At(src, k) # 0
      <4>1. \A k \in 0 .. m - 1 : k \in 0 .. h
        BY ONLY <1>1, <1>5, <3>3
      <4> QED BY ONLY <3>3, <4>1 DEF Nul
    <3>5. m <= q
      <4>1. q \notin 0 .. m - 1
        BY ONLY <1>3, <3>4
      <4> QED BY ONLY <1>1, <3>3, <4>1
    <3>6. \A b : Weight(b) = b
      BY ONLY <2>1 DEF Weight
    <3>7. At(src, m) # At(dst, m) \/ At(src, m) = 0
      BY ONLY <3>3 DEF Nul
    <3> HIDE DEF S
    <3> QED BY ONLY <3>1, <3>3, <3>4, <3>5, <3>6, <3>7
  <2>2. CASE f # "strcmp"
    <3> DEFINE S == {k \in 0 .. h : At(src, k) = Nul \/ At(dst, k) = Nul
                                     \/ fold(At(src, k)) # fold(At(dst, k))}
               m == Min(S)
    <3>0. f \in {"strcasecmp", "strcasecmp_l"}
      BY ONLY <2>2, f \in Comparisons DEF Comparisons
    <3>1. res = fold(At(src, m)) - fold(At(dst, m)) /\ readAt = 0 .. m /\ readDst = 0 .. m
      BY ONLY <1>5, <3>0, Returned DEF Returned, Outcome, strcasecmp, strcasecmp_l, Diff, Result
    <3>2. l \in S /\ q \in S /\ S \in SUBSET Nat /\ S \in SUBSET (0 .. h) /\ S # {}
      BY ONLY <1>3, <1>5 DEF Nul
    <3>3. m \in S /\ m \in Nat /\ m <= l /\ m <= q /\ \A k \in 0 .. m - 1 : k \notin S
      <4> HIDE DEF S
      <4>1. Min(S) \in S /\ \A y \in S : Min(S) <= y
        BY ONLY <3>2, Least
      <4>2. Min(S) \in S /\ Min(S) \in 0 .. h /\ \A k \in 0 .. Min(S) - 1 : k \notin S
        BY ONLY <1>5, <3>2, Stop
      <4> QED BY ONLY <3>2, <4>1, <4>2
    <3> HIDE DEF m
    <3>4. \A k \in 0 .. m - 1 : fold(At(src, k)) = fold(At(dst, k))
      <4>1. \A k \in 0 .. m - 1 : k \in 0 .. h
        BY ONLY <1>1, <1>5, <3>3
      <4> QED BY ONLY <3>3, <4>1 DEF Nul
    <3>5. \A b : Weight(b) = fold(b)
      BY ONLY <3>0 DEF Weight
    <3>6. fold(At(src, m)) # fold(At(dst, m)) \/ At(src, m) = 0 \/ At(dst, m) = 0
      BY ONLY <3>3 DEF Nul
    <3> HIDE DEF S
    <3> QED BY ONLY <3>1, <3>3, <3>4, <3>5, <3>6
  <2> QED BY ONLY <2>1, <2>2
<1>7. f \in Comparisons \cup Bounded /\ f \notin Bounded
  BY ONLY f \in Comparisons DEF Comparisons, Bounded
<1>8. Ordered
  BY ONLY <1>2, <1>4, <1>6, <1>7, CompareAt
<1>9. ReadsInside
  BY ONLY <1>1, <1>6 DEF ReadsInside
<1> QED BY ONLY <1>8, <1>9

(* strncmp, strncasecmp and strncasecmp_l: none looks at the byte behind    *)
(* the last of n.                                                           *)
LEMMA BoundedOrdered ==
    ASSUME NEW l, Limited(src, l, size), NEW q, Limited(dst, q, size), size \in 0 .. MaxCount,
           f \in Bounded, Returned
    PROVE  ReadsInside /\ Ordered
<1>1. /\ l \in Nat /\ q \in Nat /\ size \in Nat /\ l <= size /\ q <= size
      /\ 0 .. (IF l < size THEN l ELSE l - 1) = DOMAIN src
      /\ 0 .. (IF q < size THEN q ELSE q - 1) = DOMAIN dst
  BY LimitedRead
<1>2. EndsAt(src, l) /\ EndsAt(dst, q)
  BY LimitedEnds
<1>3. At(src, l) = 0 /\ At(dst, q) = 0
  BY ONLY <1>2 DEF EndsAt
<1>4. l \in 0 .. MaxScan + MaxCount /\ q \in 0 .. MaxScan + MaxCount
  BY ONLY <1>1, BoundsAssumption, size \in 0 .. MaxCount
<1>5. f \in Comparisons \cup Bounded /\ f \in {"strncmp", "strncasecmp", "strncasecmp_l"}
  BY ONLY f \in Bounded DEF Bounded
<1>6. CASE size = 0
  <2>1. res = 0 /\ readAt = {} /\ readDst = {}
    BY ONLY <1>5, <1>6, Returned DEF Returned, Outcome, strncmp, strncasecmp, strncasecmp_l, Result
  <2>2. l = 0 /\ q = 0
    BY ONLY <1>1, <1>6
  <2>3. At(src, 0) = 0 /\ At(dst, 0) = 0 /\ 0 <= l /\ 0 <= q /\ 0 \in Nat
    BY ONLY <1>3, <2>2
  <2>4. res = Weight(At(src, 0)) - Weight(At(dst, 0))
    <3>1. Weight(At(src, 0)) = 0 /\ Weight(At(dst, 0)) = 0
      BY ONLY <2>3, WeightIs
    <3> QED BY ONLY <2>1, <3>1
  <2>5. \A j \in 0 .. 0 - 1 : Weight(At(src, j)) = Weight(At(dst, j))
    OBVIOUS
  <2>6. Ordered
    BY ONLY <1>1, <1>2, <1>4, <1>5, <2>3, <2>4, <2>5, CompareAt
  <2> QED BY ONLY <2>1, <2>6 DEF ReadsInside
<1>7. CASE size # 0
  <2> DEFINE h == size - 1
             S == {k \in 0 .. h : \/ k = h \/ At(src, k) = Nul \/ At(dst, k) = Nul
                                  \/ Weight(At(src, k)) # Weight(At(dst, k))}
             m == Min(S)
  <2>1. /\ res = Weight(At(src, m)) - Weight(At(dst, m))
        /\ readAt = 0 .. m /\ readDst = 0 .. m
    <3>1. CASE f = "strncmp"
      <4>1. \A b : Weight(b) = b
        BY ONLY <3>1 DEF Weight
      <4>2. Bound(src, dst, size) = m
        BY ONLY <4>1 DEF Bound
      <4> HIDE DEF m
      <4> QED BY ONLY <1>7, <3>1, <4>1, <4>2, Returned DEF Returned, Outcome, strncmp, Diff, Result
    <3>2. CASE f # "strncmp"
      <4>1. \A b : Weight(b) = fold(b)
        BY ONLY <1>5, <3>2 DEF Weight
      <4>2. Min({k \in 0 .. size - 1 :
                    \/ k = size - 1 \/ At(src, k) = Nul \/ At(dst, k) = Nul
                    \/ fold(At(src, k)) # fold(At(dst, k))}) = m
        BY ONLY <4>1
      <4> HIDE DEF m
      <4>3. strncasecmp(src, dst, size) = Diff(fold(At(src, m)), fold(At(dst, m)), m)
        BY ONLY <1>7, <4>2 DEF strncasecmp
      <4>4. f = "strncasecmp" \/ f = "strncasecmp_l"
        BY ONLY <1>5, <3>2
      <4>5. Outcome(f, src, dst, c, size) = strncasecmp(src, dst, size)
        BY ONLY <4>4 DEF Outcome, strncasecmp_l
      <4> QED BY ONLY <4>1, <4>3, <4>5, Returned DEF Returned, Diff, Result
    <3> QED BY ONLY <3>1, <3>2
  <2>2. h \in Nat /\ h \in S /\ S \in SUBSET Nat /\ S \in SUBSET (0 .. h) /\ S # {}
    <3>1. h \in Nat /\ h \in 0 .. h
      BY ONLY <1>1, <1>7
    <3>2. h \in S /\ S \in SUBSET (0 .. h)
      BY ONLY <3>1
    <3> HIDE DEF S, h
    <3> QED BY ONLY <3>1, <3>2
  <2>3. /\ m \in S /\ m \in 0 .. h /\ \A k \in 0 .. m - 1 : k \notin S
        /\ \A k \in S : m <= k
    <3> HIDE DEF S, h
    <3>1. Min(S) \in S /\ \A y \in S : Min(S) <= y
      BY ONLY <2>2, Least
    <3>2. Min(S) \in S /\ Min(S) \in 0 .. h /\ \A k \in 0 .. Min(S) - 1 : k \notin S
      BY ONLY <2>2, Stop
    <3> QED BY ONLY <3>1, <3>2
  <2> HIDE DEF m
  <2>4. m \in Nat /\ m <= size - 1
    BY ONLY <1>1, <2>3
  <2>5. m <= l
    <3>1. CASE l <= size - 1
      <4>1. l \in S
        BY ONLY <1>1, <1>3, <3>1 DEF Nul
      <4> HIDE DEF S
      <4> QED BY ONLY <2>3, <4>1
    <3> QED BY ONLY <1>1, <2>4, <3>1
  <2>6. m <= q
    <3>1. CASE q <= size - 1
      <4>1. q \in S
        BY ONLY <1>1, <1>3, <3>1 DEF Nul
      <4> HIDE DEF S
      <4> QED BY ONLY <2>3, <4>1
    <3> QED BY ONLY <1>1, <2>4, <3>1
  <2>7. \A k \in 0 .. m - 1 : Weight(At(src, k)) = Weight(At(dst, k))
    <3>1. \A k \in 0 .. m - 1 : k \in 0 .. h
      BY ONLY <1>1, <2>4
    <3> QED BY ONLY <2>3, <3>1
  <2>8. \/ Weight(At(src, m)) # Weight(At(dst, m))
        \/ At(src, m) = 0 \/ At(dst, m) = 0 \/ m = size - 1
    BY ONLY <2>3 DEF Nul
  <2>9. Ordered
    BY ONLY <1>1, <1>2, <1>4, <1>5, <2>1, <2>4, <2>5, <2>6, <2>7, <2>8, CompareAt, f \in Bounded
  <2>10. 0 .. m \subseteq DOMAIN src /\ 0 .. m \subseteq DOMAIN dst
    <3>1. m <= (IF l < size THEN l ELSE l - 1) /\ m <= (IF q < size THEN q ELSE q - 1)
      BY ONLY <1>1, <2>4, <2>5, <2>6
    <3> QED BY ONLY <1>1, <2>4, <3>1
  <2> QED BY ONLY <2>1, <2>9, <2>10 DEF ReadsInside
<1> QED BY ONLY <1>6, <1>7

(* What memcmp looks at.                                                    *)
LEMMA memcmpPadded ==
    ASSUME f = "memcmp", NEW o
    PROVE  Padded(o) = [k \in 0 .. MaxScan + MaxCount |-> IF k >= size THEN 0 ELSE o[k]]
<1> DEFINE len == CASE f = "memcmp" -> size
                    [] f \in Bounded -> Min({size, strlen(o, 0)})
                    [] OTHER -> strlen(o, 0)
           lower(b) == IF b \in 65 .. 90 THEN b + 32 ELSE b
<1>1. len = size
  BY ONLY f = "memcmp" DEF Bounded
<1>2. Padded(o) = [k \in 0 .. MaxScan + MaxCount |->
                     IF k >= len THEN Nul
                     ELSE IF f \in {"strcmp", "strncmp", "memcmp"} THEN o[k] ELSE lower(o[k])]
  BY ONLY DEF Padded
<1> HIDE DEF len, lower
<1>3. f \in {"strcmp", "strncmp", "memcmp"}
  BY ONLY f = "memcmp"
<1> QED BY ONLY <1>1, <1>2, <1>3 DEF Nul

(* memcmp compares n bytes, terminators or not.                             *)
LEMMA memcmpOrdered ==
    ASSUME Bytes(src, size), Bytes(dst, size), size \in 0 .. MaxCount, f = "memcmp", Returned
    PROVE  ReadsInside /\ Ordered
<1> DEFINE M == MaxScan + MaxCount
           x == Padded(src)
           y == Padded(dst)
           S == {k \in 0 .. size - 1 : At(src, k) # At(dst, k)}
           m == Min(S)
<1>1. size \in Nat /\ M \in Nat /\ size <= M
  BY ONLY BoundsAssumption, size \in 0 .. MaxCount
<1>d. /\ src \in [0 .. size - 1 -> 0 .. 255] /\ dst \in [0 .. size - 1 -> 0 .. 255]
      /\ DOMAIN src = 0 .. size - 1 /\ DOMAIN dst = 0 .. size - 1
  BY ONLY Bytes(src, size), Bytes(dst, size) DEF Bytes
<1>2. /\ x = [k \in 0 .. M |-> IF k >= size THEN 0 ELSE src[k]]
      /\ y = [k \in 0 .. M |-> IF k >= size THEN 0 ELSE dst[k]]
  BY ONLY f = "memcmp", memcmpPadded
<1>3. \A k \in 0 .. size - 1 : /\ At(src, k) = src[k] /\ At(dst, k) = dst[k]
                               /\ src[k] \in Int /\ dst[k] \in Int
  <2> TAKE k \in 0 .. size - 1
  <2>1. src[k] \in 0 .. 255 /\ dst[k] \in 0 .. 255
    BY ONLY <1>d, k \in 0 .. size - 1
  <2>2. At(src, k) = src[k] /\ At(dst, k) = dst[k]
    BY ONLY <1>d, k \in 0 .. size - 1 DEF At
  <2> QED BY ONLY <2>1, <2>2
<1> HIDE DEF M, x, y
<1>4. \A k \in 0 .. M : ~(k >= size) => k \in 0 .. size - 1
  BY ONLY <1>1
<1>5. x \in [0 .. M -> Int] /\ y \in [0 .. M -> Int]
  BY ONLY <1>2, <1>3, <1>4
<1>6. /\ \A k \in 0 .. M : x[k] = IF k >= size THEN 0 ELSE src[k]
      /\ \A k \in 0 .. M : y[k] = IF k >= size THEN 0 ELSE dst[k]
  BY ONLY <1>2
<1>7. CASE S = {}
  <2>1. res = 0 /\ readAt = 0 .. size - 1 /\ readDst = 0 .. size - 1
    BY ONLY <1>7, f = "memcmp", Returned DEF Returned, Outcome, memcmp, Result
  <2>2. \A k \in 0 .. size - 1 : src[k] = dst[k]
    BY ONLY <1>3, <1>7
  <2>3. \A k \in 0 .. M : x[k] = y[k]
    BY ONLY <1>4, <1>6, <2>2
  <2>4. 0 \in 0 .. M /\ x[0] \in Int
    BY ONLY <1>1, <1>5
  <2>5. res = x[0] - y[0]
    BY ONLY <2>1, <2>3, <2>4
  <2>6. \A j \in 0 .. 0 - 1 : x[j] = y[j]
    OBVIOUS
  <2>7. Ordered
    BY ONLY <1>1, <1>5, <2>3, <2>4, <2>5, <2>6, DecidesBoth DEF x, y
  <2> QED BY ONLY <1>d, <2>1, <2>7 DEF ReadsInside
<1>8. CASE S # {}
  <2>1. res = At(src, m) - At(dst, m) /\ readAt = 0 .. m /\ readDst = 0 .. m
    BY ONLY <1>8, f = "memcmp", Returned DEF Returned, Outcome, memcmp, Diff, Result
  <2>2. /\ m \in S /\ \A k \in S : m <= k
    <3>1. S \in SUBSET Nat
      BY ONLY <1>1
    <3> HIDE DEF S
    <3> QED BY ONLY <1>8, <3>1, Least
  <2> HIDE DEF m
  <2>3. m \in 0 .. size - 1 /\ At(src, m) # At(dst, m)
    BY ONLY <2>2
  <2>4. m \in 0 .. M /\ ~(m >= size) /\ \A j \in 0 .. m - 1 : j \in 0 .. M /\ j \in 0 .. size - 1 /\ ~(j >= size)
    BY ONLY <1>1, <2>3
  <2>5. x[m] = At(src, m) /\ y[m] = At(dst, m)
    BY ONLY <1>3, <1>6, <2>3, <2>4
  <2>6. \A j \in 0 .. m - 1 : x[j] = y[j]
    <3> TAKE j \in 0 .. m - 1
    <3>1. j \in 0 .. M /\ j \in 0 .. size - 1 /\ ~(j >= size)
      BY ONLY <2>4, j \in 0 .. m - 1
    <3>2. ~(m <= j)
      BY ONLY <1>1, <2>3, j \in 0 .. m - 1
    <3>3. At(src, j) = At(dst, j)
      BY ONLY <2>2, <3>1, <3>2
    <3> QED BY ONLY <1>3, <1>6, <3>1, <3>3
  <2>7. Ordered
    BY ONLY <1>1, <1>5, <2>1, <2>3, <2>4, <2>5, <2>6, DecidesBoth DEF x, y
  <2>8. 0 .. m \subseteq 0 .. size - 1
    BY ONLY <1>1, <2>3
  <2> QED BY ONLY <1>d, <2>1, <2>7, <2>8 DEF ReadsInside
<1> QED BY ONLY <1>7, <1>8

-----------------------------------------------------------------------------
(* What the calls are given: the operands of InitScan and InitSearch have   *)
(* these shapes.                                                            *)
LEMMA OperandBytes ==
    ASSUME NEW l \in Nat, NEW o \in Operands(l)
    PROVE  Bytes(o, l)
<1>1. ScanChars \cup {Nul} \subseteq 0 .. 255
  BY CharsAssumption DEF Nul
<1>2. o \in [0 .. l - 1 -> ScanChars \cup {Nul}]
  BY DEF Operands
<1> QED BY ONLY <1>1, <1>2, l \in Nat DEF Bytes

(* A string that ends at the end of its object.                             *)
LEMMA StringShape ==
    ASSUME NEW m \in Nat, NEW o, Bytes(o, m), IsString(o)
    PROVE  m > 0 /\ Str(o, m - 1)
<1>1. o \in [0 .. m - 1 -> 0 .. 255] /\ DOMAIN o = 0 .. m - 1
  BY ONLY Bytes(o, m) DEF Bytes
<1>2. Size(o) = m
  BY ONLY <1>1, SizeOf, m \in Nat
<1>3. m > 0 /\ strlen(o, 0) = m - 1
  BY ONLY <1>2, IsString(o) DEF IsString
<1>4. From(0, o) = 0 .. m
  <2>1. Max({0, m}) = m
    BY ONLY MaxTwo, m \in Nat
  <2> QED BY ONLY <1>2, <2>1 DEF From
<1> DEFINE S == {k \in 0 .. m : At(o, k) = Nul}
<1>5. m \in S /\ S \in SUBSET Nat /\ S # {}
  <2>1. m \notin DOMAIN o /\ m \in 0 .. m
    BY ONLY <1>1, m \in Nat
  <2> QED BY ONLY <2>1, m \in Nat DEF At
<1>6. strlen(o, 0) = Min(S) - 0
  BY ONLY <1>4 DEF strlen
<1>7. Min(S) \in S /\ \A k \in S : Min(S) <= k
  <2> HIDE DEF S
  <2> QED BY ONLY <1>5, Least
<1>8. Min(S) = m - 1
  <2>1. Min(S) \in Int
    <3>1. \A k \in S : k \in Int
      BY ONLY <1>5
    <3> HIDE DEF S
    <3> QED BY ONLY <1>7, <3>1
  <2> HIDE DEF S
  <2> QED BY ONLY <1>3, <1>6, <2>1, m \in Nat
<1>9. m - 1 \in 0 .. m - 1 /\ At(o, m - 1) = Nul
  <2>1. m - 1 \in S
    <3> HIDE DEF S
    <3> QED BY ONLY <1>7, <1>8
  <2> QED BY ONLY <1>3, <2>1, m \in Nat
<1>10. o[m - 1] = Nul
  BY ONLY <1>1, <1>9 DEF At
<1>11. \A k \in 0 .. (m - 1) - 1 : o[k] # Nul
  <2> TAKE k \in 0 .. (m - 1) - 1
  <2>1. k \in 0 .. m /\ k \in DOMAIN o /\ ~(m - 1 <= k)
    BY ONLY <1>1, m \in Nat, k \in 0 .. (m - 1) - 1
  <2>2. k \notin S
    <3> HIDE DEF S
    <3> QED BY ONLY <1>7, <1>8, <2>1
  <2> QED BY ONLY <2>1, <2>2 DEF At
<1> QED BY ONLY <1>1, <1>3, <1>10, <1>11, m \in Nat DEF Str

(* A C string of a scan.                                                    *)
LEMMA CStringShape ==
    ASSUME NEW o \in CStrings
    PROVE  \E l \in Nat : Str(o, l) /\ l < MaxScan
<1>1. PICK m \in 1 .. MaxScan : o \in Operands(m)
  BY DEF CStrings
<1>2. IsString(o)
  BY DEF CStrings
<1>3. m \in Nat /\ m - 1 < MaxScan /\ (m > 0 => m - 1 \in Nat)
  BY ONLY BoundsAssumption, m \in 1 .. MaxScan
<1>4. Bytes(o, m)
  BY ONLY <1>1, <1>3, OperandBytes
<1>5. m > 0 /\ Str(o, m - 1)
  BY ONLY <1>2, <1>3, <1>4, StringShape
<1> QED BY ONLY <1>3, <1>5

(* What strncmp and strnlen may be given.                                   *)
LEMMA BoundedShape ==
    ASSUME NEW m \in Nat, NEW o \in BoundedStrings(m)
    PROVE  \E l \in Nat : Limited(o, l, m)
<1>1. CASE o \in CStrings /\ Size(o) <= m
  <2>1. PICK l \in Nat : Str(o, l)
    BY ONLY <1>1, CStringShape
  <2>2. Size(o) = l + 1
    BY ONLY <2>1, StrFacts
  <2>3. l < m /\ l <= m
    BY ONLY <1>1, <2>2, l \in Nat, m \in Nat
  <2> QED BY ONLY <2>1, <2>3, m \in Nat, l \in Nat DEF Limited, Str
<1>2. CASE o \in Operands(m) /\ ~Terminated(o)
  <2>1. o \in [0 .. m - 1 -> 0 .. 255]
    BY ONLY <1>2, OperandBytes, m \in Nat DEF Bytes
  <2>2. \A k \in 0 .. m - 1 : o[k] # Nul
    BY ONLY <1>2, <2>1 DEF Terminated
  <2>3. ~(m < m) /\ m <= m
    BY ONLY m \in Nat
  <2> QED BY ONLY <2>1, <2>2, <2>3, m \in Nat DEF Limited
<1> QED BY <1>1, <1>2 DEF BoundedStrings

-----------------------------------------------------------------------------
(* The loops that write.  strcpy and strcat, with h bytes in front of the   *)
(* copy and l bytes to copy.                                                *)
CatAt(h, l) ==
    /\ f \in {"stpcpy", "strcat"} /\ pc \in {"strcat", "stpcpy", "ret"}
    /\ h \in Nat /\ l \in Nat /\ (f = "stpcpy" => h = 0 /\ pc # "strcat")
    /\ 0 .. l \subseteq DOMAIN src /\ src[l] = 0
    /\ \A k \in 0 .. l - 1 : src[k] # 0 /\ src[k] \in 0 .. 255
    /\ dst \in [0 .. h + l -> 0 .. 255] /\ readDst \subseteq 0 .. h
    /\ \A k \in 0 .. h - 1 : dst[k] # 0 /\ dst[k] = dst0[k]
    /\ IF pc = "strcat"
         THEN d \in 0 .. h /\ s = 0 /\ start = 0 /\ dst[h] = 0 /\ readAt = {} /\ wroteAt = {}
         ELSE /\ start = h /\ s \in 0 .. l /\ d = h + s
              /\ \A k \in 0 .. s - 1 : dst[h + k] = src[k]
              /\ readAt \subseteq 0 .. l /\ wroteAt \subseteq 0 .. h + l
    /\ pc = "ret" => s = l /\ res = (IF f = "strcat" THEN 0 ELSE h + l) /\ dst[h + l] = 0

(* strncpy, with e bytes to copy before a terminator or the end.            *)
NcpyAt(e) ==
    /\ f = "stpncpy" /\ pc \in {"stpncpy", "fill", "ret"} /\ start = 0
    /\ size \in Nat /\ e \in 0 .. size
    /\ \A k \in 0 .. e - 1 : k \in DOMAIN src /\ src[k] # 0 /\ src[k] \in 0 .. 255
    /\ e < size => e \in DOMAIN src /\ src[e] = 0
    /\ dst \in [0 .. size - 1 -> 0 .. 255]
    /\ readAt \subseteq DOMAIN src /\ readDst = {} /\ wroteAt \subseteq 0 .. size - 1
    /\ s \in 0 .. e /\ d = s /\ n = size - s
    /\ \A k \in 0 .. s - 1 : dst[k] = src[k]
    /\ IF pc = "stpncpy" THEN i = 0 ELSE s = e /\ i \in 0 .. n
    /\ \A k \in 0 .. i - 1 : dst[e + k] = 0
    /\ pc = "ret" => i = n /\ res = e

(* strerror_r, with a message of l bytes.                                   *)
MessageAt(l) ==
    /\ f = "strerror_r" /\ pc \in {"strerror_r", "message", "ret"}
    /\ size \in Nat /\ l \in Nat /\ src \in [0 .. l - 1 -> 1 .. 255]
    /\ dst \in [0 .. size - 1 -> 0 .. 255]
    /\ readAt \subseteq 0 .. l - 1 /\ readDst = {} /\ wroteAt \subseteq 0 .. size - 1
    /\ pc = "strerror_r" => i = 0
    /\ pc # "strerror_r" =>
          \/ pc = "ret" /\ size = 0 /\ res = ERANGE
          \/ /\ n \in Nat /\ n < size /\ n <= l /\ i \in 0 .. n
             /\ \A k \in 0 .. i - 1 : dst[k] = src[k]
             /\ IF l < size THEN n = l /\ res = 0 ELSE n = size - 1 /\ res = ERANGE
             /\ pc = "ret" => i = n /\ dst[n] = 0

(* The calls that only read, and their operands.                            *)
ScanArgs ==
    \/ f \in Spans /\ src \in CStrings /\ dst \in CStrings
    \/ f \in Comparisons /\ src \in CStrings /\ dst \in CStrings
    \/ f \in Bounded /\ size \in 0 .. MaxCount /\ src \in BoundedStrings(size) /\ dst \in BoundedStrings(size)
    \/ f = "memcmp" /\ size \in 0 .. MaxCount /\ src \in Operands(size) /\ dst \in Operands(size)
    \/ f \in Searches /\ src \in CStrings
    \/ f \in {"memchr", "memrchr"} /\ size \in 0 .. MaxCount /\ src \in Operands(size)
    \/ f = "strnlen" /\ size \in 0 .. MaxCount /\ src \in BoundedStrings(size)
    \/ f = "ctype" /\ c \in -(Span \div 2) .. (Span \div 2) - 1

ScanAt ==
    /\ ScanArgs /\ pc \in {"scan", "ret"} /\ dst = dst0 /\ wroteAt = {}
    /\ pc = "scan" => readAt = {} /\ readDst = {}
    /\ pc = "ret" => Returned

CallInv ==
    \/ \E h, l \in Nat : CatAt(h, l)
    \/ \E e \in Nat : NcpyAt(e)
    \/ \E l \in Nat : MessageAt(l)
    \/ ScanAt

(* A length is where the first zero is, whatever lies behind it.            *)
LEMMA FirstZero ==
    ASSUME NEW m \in Nat, NEW o \in [0 .. m - 1 -> 0 .. 255], Terminated(o)
    PROVE  LET e == strlen(o, 0)
           IN  e \in Nat /\ e < m /\ o[e] = 0 /\ \A k \in 0 .. e - 1 : o[k] # 0
<1>1. DOMAIN o = 0 .. m - 1 /\ Size(o) = m
  BY SizeOf
<1>2. From(0, o) = 0 .. m
  <2>1. Max({0, m}) = m
    BY ONLY MaxTwo, m \in Nat
  <2> QED BY ONLY <1>1, <2>1 DEF From
<1> DEFINE S == {k \in 0 .. m : At(o, k) = Nul}
<1>3. PICK z \in 0 .. m - 1 : o[z] = 0
  BY ONLY Terminated(o), <1>1 DEF Terminated, Nul
<1>4. z \in S /\ S \in SUBSET (0 .. m) /\ S \in SUBSET Nat /\ S # {}
  BY ONLY <1>1, <1>3, m \in Nat DEF At, Nul
<1>5. strlen(o, 0) = Min(S) - 0
  BY ONLY <1>2 DEF strlen
<1>6. Min(S) \in S /\ \A k \in S : Min(S) <= k
  <2> HIDE DEF S
  <2> QED BY ONLY <1>4, Least
<1>7. Min(S) \in 0 .. m /\ At(o, Min(S)) = 0
  BY ONLY <1>6 DEF Nul
<1> DEFINE e == Min(S)
<1>8. e \in Nat /\ e <= z /\ e < m /\ strlen(o, 0) = e
  <2> HIDE DEF S
  <2> QED BY ONLY <1>4, <1>5, <1>6, <1>7, m \in Nat, z \in 0 .. m - 1
<1>9. o[e] = 0
  <2> HIDE DEF S
  <2> QED BY ONLY <1>1, <1>7, <1>8, m \in Nat DEF At
<1>10. \A k \in 0 .. e - 1 : o[k] # 0
  <2> TAKE k \in 0 .. e - 1
  <2>1. k \in 0 .. m /\ k \in DOMAIN o /\ ~(e <= k)
    <3> HIDE DEF S
    <3> QED BY ONLY <1>1, <1>8, m \in Nat, k \in 0 .. e - 1
  <2>2. k \notin S
    <3> HIDE DEF S
    <3> QED BY ONLY <1>6, <2>1
  <2> QED BY ONLY <2>1, <2>2 DEF At, Nul
<1> QED BY ONLY <1>8, <1>9, <1>10

(* A zero with none before it is the first.                                 *)
LEMMA FirstZeroIs ==
    ASSUME NEW m \in Nat, NEW o \in [0 .. m - 1 -> 0 .. 255], NEW z \in 0 .. m - 1, o[z] = 0,
           \A k \in 0 .. z - 1 : o[k] # 0
    PROVE  Terminated(o) /\ strlen(o, 0) = z
<1>1. Terminated(o)
  BY DEF Terminated, Nul
<1> DEFINE e == strlen(o, 0)
<1>2. e \in Nat /\ e < m /\ o[e] = 0 /\ \A k \in 0 .. e - 1 : o[k] # 0
  BY ONLY <1>1, FirstZero, m \in Nat, o \in [0 .. m - 1 -> 0 .. 255]
<1>3. ~(e < z) /\ ~(z < e)
  <2> HIDE DEF e
  <2> QED BY ONLY <1>2, m \in Nat, z \in 0 .. m - 1, o[z] = 0, \A k \in 0 .. z - 1 : o[k] # 0
<1> QED BY ONLY <1>1, <1>2, <1>3, m \in Nat, z \in 0 .. m - 1

-----------------------------------------------------------------------------
(* The bytes of a copy's source.                                            *)
LEMMA ObjectBytes ==
    ASSUME NEW l \in Nat, NEW o \in Objects(l)
    PROVE  o \in [0 .. l - 1 -> 0 .. 255]
<1>1. Chars \cup {Nul} \subseteq 0 .. 255
  BY CharsAssumption DEF Nul
<1> QED BY <1>1 DEF Objects

(* The first state of a copy.                                               *)
LEMMA InitCall ==
    ASSUME Init PROVE CallInv
<1> USE DEF Init
<1>1. CASE InitCopy
  <2>1. PICK l \in 0 .. MaxLen : src \in Objects(l)
    BY ONLY <1>1 DEF InitCopy
  <2>2. PICK b \in Chars : InitStpcpy(b) \/ InitStpncpy(b) \/ InitStrcat(b) \/ InitStrerror(b)
    BY ONLY <1>1 DEF InitCopy
  <2>3. b \in 1 .. 255 /\ l \in Nat /\ pc = f
    BY ONLY <1>1, CharsAssumption, BoundsAssumption, b \in Chars, l \in 0 .. MaxLen DEF InitCopy
  <2>4. src \in [0 .. l - 1 -> 0 .. 255]
    BY ONLY ObjectBytes, <2>1, <2>3
  <2> DEFINE e == strlen(src, 0)
  <2>5. Terminated(src) => /\ e \in Nat /\ e < l /\ src[e] = 0
                           /\ \A k \in 0 .. e - 1 : src[k] # 0
    BY ONLY FirstZero, <2>3, <2>4
  <2>6. Terminated(src) => 0 .. e \subseteq DOMAIN src /\ \A k \in 0 .. e - 1 : src[k] \in 0 .. 255
    <3> HIDE DEF e
    <3> QED BY ONLY <2>3, <2>4, <2>5
  <2>7. CASE InitStpcpy(b)
    <3>1. f = "stpcpy" /\ Terminated(src) /\ dst = Blank(e + 1, b) /\ pc = "stpcpy"
      BY ONLY <2>3, <2>7 DEF InitStpcpy
    <3>2. dst \in [0 .. 0 + e -> 0 .. 255]
      <4> HIDE DEF e
      <4> QED BY ONLY <2>3, <2>5, <3>1 DEF Blank
    <3>3. CatAt(0, e)
      <4> HIDE DEF e
      <4> QED BY <2>5, <2>6, <3>1, <3>2 DEF CatAt
    <3> QED BY ONLY <2>5, <3>1, <3>3, 0 \in Nat DEF CallInv
  <2>8. CASE InitStpncpy(b)
    <3>1. /\ f = "stpncpy" /\ size \in Nat /\ dst = Blank(size, b) /\ pc = "stpncpy"
          /\ Terminated(src) \/ Size(src) >= size
      BY ONLY <2>3, <2>8, BoundsAssumption DEF InitStpncpy
    <3>2. dst \in [0 .. size - 1 -> 0 .. 255]
      BY ONLY <2>3, <3>1 DEF Blank
    <3>3. Size(src) = l
      BY ONLY <2>3, <2>4, SizeOf
    <3>4. \E x \in Nat : /\ x \in 0 .. size
                         /\ \A k \in 0 .. x - 1 : k \in DOMAIN src /\ src[k] # 0 /\ src[k] \in 0 .. 255
                         /\ x < size => x \in DOMAIN src /\ src[x] = 0
      <4>1. CASE Terminated(src) /\ e < size
        <5> HIDE DEF e
        <5> QED BY ONLY <2>5, <2>6, <3>1, <4>1
      <4>2. CASE Terminated(src) /\ ~(e < size)
        <5> HIDE DEF e
        <5>1. \A k \in 0 .. size - 1 : k \in 0 .. e - 1 /\ k \in 0 .. e
          BY ONLY <2>5, <3>1, <4>2
        <5>2. \A k \in 0 .. size - 1 : k \in DOMAIN src /\ src[k] # 0 /\ src[k] \in 0 .. 255
          BY ONLY <2>5, <2>6, <4>2, <5>1
        <5>3. size \in 0 .. size /\ ~(size < size)
          BY ONLY <3>1
        <5> QED BY ONLY <3>1, <5>2, <5>3
      <4>3. CASE ~Terminated(src)
        <5>1. size <= l
          BY ONLY <3>1, <3>3, <4>3
        <5>2. \A k \in 0 .. size - 1 : k \in DOMAIN src
          BY ONLY <2>3, <2>4, <3>1, <5>1
        <5>3. \A k \in 0 .. size - 1 : src[k] # 0 /\ src[k] \in 0 .. 255
          BY ONLY <2>4, <4>3, <5>2 DEF Terminated, Nul
        <5> QED BY ONLY <3>1, <5>2, <5>3
      <4> QED BY ONLY <4>1, <4>2, <4>3
    <3>5. PICK x \in Nat : /\ x \in 0 .. size
                           /\ \A k \in 0 .. x - 1 : k \in DOMAIN src /\ src[k] # 0 /\ src[k] \in 0 .. 255
                           /\ x < size => x \in DOMAIN src /\ src[x] = 0
      BY ONLY <3>4
    <3>6. NcpyAt(x)
      BY <3>1, <3>2, <3>5 DEF NcpyAt
    <3> QED BY ONLY <3>6 DEF CallInv
  <2>9. CASE InitStrcat(b)
    <3>1. PICK h \in 0 .. MaxLen : dst = [Blank(h + e + 1, b) EXCEPT ![h] = Nul]
      BY ONLY <2>9 DEF InitStrcat
    <3>2. f = "strcat" /\ Terminated(src) /\ pc = "strcat" /\ h \in Nat
      BY ONLY <2>3, <2>9, BoundsAssumption, h \in 0 .. MaxLen DEF InitStrcat
    <3> HIDE DEF e
    <3>3. Blank(h + e + 1, b) = [k \in 0 .. h + e |-> b]
      BY ONLY <2>3, <2>5, <3>2 DEF Blank
    <3>4. dst \in [0 .. h + e -> 0 .. 255] /\ dst[h] = 0 /\ \A k \in 0 .. h - 1 : dst[k] = b
      <4>1. h \in 0 .. h + e /\ (\A k \in 0 .. h - 1 : k \in 0 .. h + e /\ k # h) /\ 0 \in 0 .. 255 /\ b \in 0 .. 255
        BY ONLY <2>3, <2>5, <3>2
      <4>2. dst = [[k \in 0 .. h + e |-> b] EXCEPT ![h] = 0]
        BY ONLY <3>1, <3>3 DEF Nul
      <4>3. DOMAIN dst = 0 .. h + e /\ \A k \in 0 .. h + e : dst[k] = IF k = h THEN 0 ELSE b
        BY ONLY <4>1, <4>2
      <4>4. dst \in [0 .. h + e -> 0 .. 255]
        BY ONLY <4>1, <4>2
      <4> QED BY ONLY <4>1, <4>3, <4>4
    <3>5. \A k \in 0 .. h - 1 : dst[k] # 0
      BY ONLY <2>3, <3>4
    <3>6. /\ dst0 = dst /\ start = 0 /\ d = 0 /\ s = 0 /\ readAt = {} /\ readDst = {} /\ wroteAt = {}
          /\ 0 \in 0 .. h
      BY <3>2
    <3>7. CatAt(h, e)
      BY ONLY <2>5, <2>6, <3>2, <3>4, <3>5, <3>6 DEF CatAt
    <3> QED BY ONLY <2>5, <3>2, <3>7 DEF CallInv
  <2>10. CASE InitStrerror(b)
    <3>1. /\ f = "strerror_r" /\ size \in Nat /\ dst = Blank(size, b) /\ pc = "strerror_r"
          /\ ~Terminated(src)
      BY ONLY <2>3, <2>10, BoundsAssumption DEF InitStrerror
    <3>2. dst \in [0 .. size - 1 -> 0 .. 255]
      BY ONLY <2>3, <3>1 DEF Blank
    <3>3. \A k \in 0 .. l - 1 : src[k] \in 1 .. 255
      BY ONLY <2>3, <2>4, <3>1 DEF Terminated, Nul
    <3>4. src \in [0 .. l - 1 -> 1 .. 255]
      BY ONLY <2>4, <3>3
    <3>5. MessageAt(l)
      BY <2>3, <3>1, <3>2, <3>4 DEF MessageAt
    <3> QED BY ONLY <2>3, <3>5 DEF CallInv
  <2> QED BY ONLY <2>2, <2>7, <2>8, <2>9, <2>10
<1>2. CASE InitScan
  <2>1. ScanArgs
    BY ONLY <1>2 DEF InitScan, ScanArgs
  <2>2. pc = "scan"
    BY ONLY <1>2 DEF InitScan
  <2> QED BY <2>1, <2>2 DEF CallInv, ScanAt
<1>3. CASE InitSearch
  <2>1. ScanArgs
    BY ONLY <1>3 DEF InitSearch, ScanArgs
  <2>2. pc = "scan"
    BY ONLY <1>3 DEF InitSearch
  <2> QED BY <2>1, <2>2 DEF CallInv, ScanAt
<1>4. CASE InitCtype
  <2>1. ScanArgs
    BY ONLY <1>4 DEF InitCtype, ScanArgs
  <2>2. pc = "scan"
    BY ONLY <1>4 DEF InitCtype
  <2> QED BY <2>1, <2>2 DEF CallInv, ScanAt
<1> QED BY <1>1, <1>2, <1>3, <1>4

-----------------------------------------------------------------------------
(* strcat looks for the end of its first string.                            *)
LEMMA FindEndStep ==
    ASSUME CallInv, FindEnd PROVE CallInv'
<1>1. PICK h \in Nat, l \in Nat : CatAt(h, l)
  BY ONLY CallInv, FindEnd DEF CallInv, FindEnd, NcpyAt, MessageAt, ScanAt
<1>2. pc = "strcat" /\ d \in 0 .. h /\ s = 0 /\ dst[h] = 0 /\ readAt = {} /\ wroteAt = {} /\ f = "strcat"
  BY ONLY <1>1, FindEnd DEF CatAt, FindEnd
<1>3. UNCHANGED <<f, src, dst, dst0, s, readAt, wroteAt>> /\ readDst' = readDst \cup {d}
  BY ONLY FindEnd DEF FindEnd, objects
<1>4. /\ 0 .. l \subseteq DOMAIN src /\ src[l] = 0
      /\ \A k \in 0 .. l - 1 : src[k] # 0 /\ src[k] \in 0 .. 255
      /\ dst \in [0 .. h + l -> 0 .. 255] /\ readDst \subseteq 0 .. h
      /\ \A k \in 0 .. h - 1 : dst[k] # 0 /\ dst[k] = dst0[k]
  BY ONLY <1>1 DEF CatAt
<1>5. readDst' \subseteq 0 .. h
  BY ONLY <1>2, <1>3, <1>4
<1>6. CASE dst[d] # Nul
  <2>1. d' = d + 1 /\ pc' = pc /\ start' = start
    BY ONLY <1>6, FindEnd DEF FindEnd
  <2>2. d' \in 0 .. h
    BY ONLY <1>2, <1>6, <2>1, h \in Nat DEF Nul
  <2>3. start = 0
    BY ONLY <1>1, <1>2 DEF CatAt
  <2>4. CatAt(h, l)'
    BY ONLY <1>2, <1>3, <1>4, <1>5, <2>1, <2>2, <2>3, h \in Nat, l \in Nat DEF CatAt
  <2> QED BY ONLY <2>4 DEF CallInv
<1>7. CASE dst[d] = Nul
  <2>1. d' = d /\ pc' = "stpcpy" /\ start' = d
    BY ONLY <1>7, FindEnd DEF FindEnd, Goto
  <2>2. d = h
    <3>1. ~(d \in 0 .. h - 1)
      BY ONLY <1>4, <1>7 DEF Nul
    <3> QED BY ONLY <1>2, <3>1, h \in Nat
  <2>3. 0 \in 0 .. l /\ d' = h + s' /\ start' = h /\ s' = 0
    BY ONLY <1>2, <1>3, <2>1, <2>2, h \in Nat, l \in Nat
  <2>4. \A k \in 0 .. s' - 1 : dst[h + k] = src[k]
    BY ONLY <2>3
  <2>5. pc' # "strcat" /\ pc' # "ret" /\ pc' \in {"strcat", "stpcpy", "ret"} /\ f # "stpcpy"
    BY ONLY <1>2, <2>1
  <2>6. CatAt(h, l)'
    BY ONLY <1>2, <1>3, <1>4, <1>5, <2>3, <2>4, <2>5, h \in Nat, l \in Nat DEF CatAt
  <2> QED BY ONLY <2>6 DEF CallInv
<1> QED BY ONLY <1>6, <1>7

(* One byte of strcpy or strcat.                                            *)
LEMMA StpcpyStep ==
    ASSUME CallInv, Stpcpy PROVE CallInv'
<1>1. PICK h \in Nat, l \in Nat : CatAt(h, l)
  BY ONLY CallInv, Stpcpy DEF CallInv, Stpcpy, NcpyAt, MessageAt, ScanAt
<1>2. /\ pc = "stpcpy" /\ start = h /\ s \in 0 .. l /\ d = h + s /\ f \in {"stpcpy", "strcat"}
      /\ \A k \in 0 .. s - 1 : dst[h + k] = src[k]
      /\ readAt \subseteq 0 .. l /\ wroteAt \subseteq 0 .. h + l
  BY ONLY <1>1, Stpcpy DEF CatAt, Stpcpy
<1>3. /\ UNCHANGED <<f, src, dst0, start, readDst>> /\ readAt' = readAt \cup {s}
      /\ dst' = [dst EXCEPT ![d] = src[s]] /\ wroteAt' = wroteAt \cup {d}
  BY ONLY Stpcpy DEF Stpcpy, objects, Load, Store
<1>4. /\ 0 .. l \subseteq DOMAIN src /\ src[l] = 0 /\ (f = "stpcpy" => h = 0)
      /\ \A k \in 0 .. l - 1 : src[k] # 0 /\ src[k] \in 0 .. 255
      /\ dst \in [0 .. h + l -> 0 .. 255] /\ readDst \subseteq 0 .. h
      /\ \A k \in 0 .. h - 1 : dst[k] # 0 /\ dst[k] = dst0[k]
  BY ONLY <1>1 DEF CatAt
<1>5. d \in 0 .. h + l /\ \A k \in 0 .. s - 1 : h + k \in 0 .. h + l /\ h + k # d
  BY ONLY <1>2, h \in Nat, l \in Nat
<1>6. src[s] \in 0 .. 255
  <2>1. s = l \/ s \in 0 .. l - 1
    BY ONLY <1>2, l \in Nat
  <2>2. 0 \in 0 .. 255
    OBVIOUS
  <2> QED BY ONLY <1>4, <2>1, <2>2
<1>7. dst' \in [0 .. h + l -> 0 .. 255] /\ dst'[d] = src[s] /\ \A k \in 0 .. h + l : k # d => dst'[k] = dst[k]
  <2>1. dst' \in [0 .. h + l -> 0 .. 255]
    BY ONLY <1>3, <1>4, <1>5, <1>6
  <2>2. dst'[d] = src[s]
    BY ONLY <1>3, <1>4, <1>5
  <2>3. \A k \in 0 .. h + l : k # d => dst'[k] = dst[k]
    BY ONLY <1>3, <1>4
  <2> QED BY ONLY <2>1, <2>2, <2>3
<1>8. readAt' \subseteq 0 .. l /\ wroteAt' \subseteq 0 .. h + l
  BY ONLY <1>2, <1>3, <1>5
<1>9. \A k \in 0 .. s - 1 : dst'[h + k] = src[k]
  BY ONLY <1>2, <1>5, <1>7
<1>10. \A k \in 0 .. h - 1 : dst'[k] # 0 /\ dst'[k] = dst0[k]
  <2>1. \A k \in 0 .. h - 1 : k \in 0 .. h + l /\ k # d
    BY ONLY <1>2, h \in Nat, l \in Nat
  <2> QED BY ONLY <1>4, <1>7, <2>1
<1>11. CASE src[s] = Nul
  <2>1. pc' = "ret" /\ res' = (IF f = "strcat" THEN 0 ELSE d) /\ d' = d /\ s' = s
    BY ONLY <1>11, Stpcpy DEF Stpcpy, Goto
  <2>2. s = l
    <3>1. ~(s \in 0 .. l - 1)
      BY ONLY <1>4, <1>11 DEF Nul
    <3> QED BY ONLY <1>2, <3>1, l \in Nat
  <2>3. /\ res' = (IF f = "strcat" THEN 0 ELSE h + l) /\ dst'[h + l] = 0
        /\ s' = l /\ l \in 0 .. l /\ d' = h + s' /\ start' = h
    BY ONLY <1>2, <1>3, <1>4, <1>7, <2>1, <2>2, l \in Nat
  <2>4. CatAt(h, l)'
    <3>1. pc' # "strcat" /\ pc' \in {"strcat", "stpcpy", "ret"} /\ s' \in 0 .. l
      BY ONLY <2>1, <2>3
    <3>2. \A k \in 0 .. s' - 1 : dst'[h + k] = src[k]
      BY ONLY <1>9, <2>1
    <3>3. /\ s' = l /\ res' = (IF f' = "strcat" THEN 0 ELSE h + l)
          /\ dst'[h + l] = 0 /\ d' = h + s' /\ start' = h
      BY ONLY <1>3, <2>3
    <3>4. dst' \in [0 .. h + l -> 0 .. 255]
      BY ONLY <1>7
    <3>5. f' = f /\ src' = src /\ dst0' = dst0 /\ readDst' = readDst /\ f \in {"stpcpy", "strcat"}
      BY ONLY <1>2, <1>3
    <3> QED BY ONLY <1>4, <1>8, <1>10, <3>1, <3>2, <3>3, <3>4, <3>5, h \in Nat, l \in Nat DEF CatAt
  <2> QED BY ONLY <2>4 DEF CallInv
<1>12. CASE src[s] # Nul
  <2>1. pc' = "stpcpy" /\ d' = d + 1 /\ s' = s + 1
    BY ONLY <1>2, <1>12, Stpcpy DEF Stpcpy
  <2>2. s' \in 0 .. l /\ d' = h + s' /\ start' = h
    BY ONLY <1>2, <1>3, <1>4, <1>12, <2>1, h \in Nat, l \in Nat DEF Nul
  <2>3. \A k \in 0 .. s' - 1 : dst'[h + k] = src[k]
    <3> TAKE k \in 0 .. s' - 1
    <3>1. k \in 0 .. s - 1 \/ k = s
      BY ONLY <1>2, <2>1, l \in Nat, k \in 0 .. s' - 1
    <3> QED BY ONLY <1>2, <1>7, <1>9, <3>1
  <2>4. CatAt(h, l)'
    BY ONLY <1>2, <1>3, <1>4, <1>7, <1>8, <1>10, <2>1, <2>2, <2>3, h \in Nat, l \in Nat DEF CatAt
  <2> QED BY ONLY <2>4 DEF CallInv
<1> QED BY ONLY <1>11, <1>12

(* One byte of strncpy's copy.                                              *)
LEMMA StpncpyStep ==
    ASSUME CallInv, Stpncpy PROVE CallInv'
<1>1. PICK e \in Nat : NcpyAt(e)
  BY ONLY CallInv, Stpncpy DEF CallInv, Stpncpy, CatAt, MessageAt, ScanAt
<1>2. /\ pc = "stpncpy" /\ f = "stpncpy" /\ start = 0 /\ size \in Nat /\ e \in 0 .. size
      /\ \A k \in 0 .. e - 1 : k \in DOMAIN src /\ src[k] # 0 /\ src[k] \in 0 .. 255
      /\ e < size => e \in DOMAIN src /\ src[e] = 0
      /\ dst \in [0 .. size - 1 -> 0 .. 255]
      /\ readAt \subseteq DOMAIN src /\ readDst = {} /\ wroteAt \subseteq 0 .. size - 1
      /\ s \in 0 .. e /\ d = s /\ n = size - s /\ i = 0
      /\ \A k \in 0 .. s - 1 : dst[k] = src[k]
  BY ONLY <1>1, Stpncpy DEF NcpyAt, Stpncpy
<1>3. UNCHANGED <<f, src, size, start, readDst, i>>
  BY ONLY Stpncpy DEF Stpncpy, objects
<1>4. CASE ~(n > 0)
  <2>1. pc' = "fill" /\ UNCHANGED <<d, s, n, dst, readAt, wroteAt>>
    BY ONLY <1>4, Stpncpy DEF Stpncpy, Goto
  <2>2. s = e /\ i \in 0 .. n
    BY ONLY <1>2, <1>4
  <2>3. \A k \in 0 .. i - 1 : dst[e + k] = 0
    BY ONLY <1>2
  <2>4. NcpyAt(e)'
    BY ONLY <1>2, <1>3, <2>1, <2>2, <2>3 DEF NcpyAt
  <2> QED BY ONLY <2>4 DEF CallInv
<1>5. CASE n > 0
  <2>1. readAt' = readAt \cup {s} /\ dst' = [dst EXCEPT ![s] = src[s]] /\ wroteAt' = wroteAt \cup {s}
    BY ONLY <1>2, <1>5, Stpncpy DEF Stpncpy, Load, Store
  <2>2. s \in 0 .. size - 1 /\ (s = e \/ s \in 0 .. e - 1) /\ s < size /\ 0 \in 0 .. 255
    BY ONLY <1>2, <1>5
  <2>3. s \in DOMAIN src /\ src[s] \in 0 .. 255
    <3>1. CASE s = e
      <4>1. e < size
        BY ONLY <2>2, <3>1
      <4>2. e \in DOMAIN src /\ src[e] = 0
        BY ONLY <1>2, <4>1
      <4> QED BY ONLY <2>2, <3>1, <4>2
    <3>2. CASE s \in 0 .. e - 1
      BY ONLY <1>2, <3>2
    <3> QED BY ONLY <2>2, <3>1, <3>2
  <2>4. dst' \in [0 .. size - 1 -> 0 .. 255] /\ dst'[s] = src[s]
    BY ONLY <1>2, <2>1, <2>2, <2>3
  <2>5. \A k \in 0 .. s - 1 : dst'[k] = src[k]
    <3>1. \A k \in 0 .. s - 1 : k \in 0 .. size - 1 /\ k # s
      BY ONLY <1>2, <2>2
    <3> QED BY ONLY <1>2, <2>1, <3>1
  <2>6. readAt' \subseteq DOMAIN src /\ wroteAt' \subseteq 0 .. size - 1
    BY ONLY <1>2, <2>1, <2>2, <2>3
  <2>7. CASE src[s] = Nul
    <3>1. pc' = "fill" /\ UNCHANGED <<d, s, n>>
      BY ONLY <1>5, <2>7, Stpncpy DEF Stpncpy, Goto
    <3>2. s = e
      BY ONLY <1>2, <2>2, <2>7 DEF Nul
    <3>3. i \in 0 .. n /\ \A k \in 0 .. i - 1 : dst'[e + k] = 0
      BY ONLY <1>2, <1>5
    <3>4. NcpyAt(e)'
      BY ONLY <1>2, <1>3, <2>4, <2>5, <2>6, <3>1, <3>2, <3>3 DEF NcpyAt
    <3> QED BY ONLY <3>4 DEF CallInv
  <2>8. CASE src[s] # Nul
    <3>1. pc' = "stpncpy" /\ d' = d + 1 /\ s' = s + 1 /\ n' = n - 1
      BY ONLY <1>2, <1>5, <2>8, Stpncpy DEF Stpncpy
    <3>2. s' \in 0 .. e /\ d' = s' /\ n' = size - s'
      BY ONLY <1>2, <2>2, <2>8, <3>1 DEF Nul
    <3>3. \A k \in 0 .. s' - 1 : dst'[k] = src[k]
      <4> TAKE k \in 0 .. s' - 1
      <4>1. k \in 0 .. s - 1 \/ k = s
        BY ONLY <2>2, <3>1, k \in 0 .. s' - 1
      <4> QED BY ONLY <2>4, <2>5, <4>1
    <3>4. \A k \in 0 .. i - 1 : dst'[e + k] = 0
      BY ONLY <1>2
    <3>5. NcpyAt(e)'
      BY ONLY <1>2, <1>3, <2>4, <2>6, <3>1, <3>2, <3>3, <3>4 DEF NcpyAt
    <3> QED BY ONLY <3>5 DEF CallInv
  <2> QED BY ONLY <2>7, <2>8
<1> QED BY ONLY <1>4, <1>5

(* One byte of strncpy's fill.                                              *)
LEMMA FillStep ==
    ASSUME CallInv, Fill PROVE CallInv'
<1>1. PICK e \in Nat : NcpyAt(e)
  BY ONLY CallInv, Fill DEF CallInv, Fill, CatAt, MessageAt, ScanAt
<1>2. /\ pc = "fill" /\ f = "stpncpy" /\ start = 0 /\ size \in Nat /\ e \in 0 .. size
      /\ \A k \in 0 .. e - 1 : k \in DOMAIN src /\ src[k] # 0 /\ src[k] \in 0 .. 255
      /\ e < size => e \in DOMAIN src /\ src[e] = 0
      /\ dst \in [0 .. size - 1 -> 0 .. 255]
      /\ readAt \subseteq DOMAIN src /\ readDst = {} /\ wroteAt \subseteq 0 .. size - 1
      /\ s = e /\ d = e /\ n = size - e /\ i \in 0 .. n
      /\ \A k \in 0 .. e - 1 : dst[k] = src[k]
      /\ \A k \in 0 .. i - 1 : dst[e + k] = 0
  BY ONLY <1>1, Fill DEF NcpyAt, Fill
<1>3. UNCHANGED <<f, src, size, start, readDst, d, s, n, readAt>>
  BY ONLY Fill DEF Fill, objects
<1>4. CASE i < n
  <2>1. /\ dst' = [dst EXCEPT ![e + i] = 0] /\ wroteAt' = wroteAt \cup {e + i}
        /\ i' = i + 1 /\ UNCHANGED <<pc, res>>
    BY ONLY <1>2, <1>4, Fill DEF Fill, Store, Nul
  <2>2. e + i \in 0 .. size - 1 /\ i' \in 0 .. n /\ e \in 0 .. e /\ 0 \in 0 .. 255
    BY ONLY <1>2, <1>4, <2>1
  <2>3. dst' \in [0 .. size - 1 -> 0 .. 255] /\ dst'[e + i] = 0
    BY ONLY <1>2, <2>1, <2>2
  <2>4. \A k \in 0 .. size - 1 : k # e + i => dst'[k] = dst[k]
    BY ONLY <1>2, <2>1
  <2>5. \A k \in 0 .. e - 1 : dst'[k] = src[k]
    <3>1. \A k \in 0 .. e - 1 : k \in 0 .. size - 1 /\ k # e + i
      BY ONLY <1>2
    <3> QED BY ONLY <1>2, <2>4, <3>1
  <2>6. \A k \in 0 .. i' - 1 : dst'[e + k] = 0
    <3> TAKE k \in 0 .. i' - 1
    <3>1. k = i \/ (k \in 0 .. i - 1 /\ e + k \in 0 .. size - 1 /\ e + k # e + i)
      BY ONLY <1>2, <1>4, <2>1, k \in 0 .. i' - 1
    <3>2. CASE k = i
      BY ONLY <2>3, <3>2
    <3>3. CASE k \in 0 .. i - 1 /\ e + k \in 0 .. size - 1 /\ e + k # e + i
      <4>1. dst[e + k] = 0
        BY ONLY <1>2, <3>3
      <4>2. dst'[e + k] = dst[e + k]
        BY ONLY <2>4, <3>3
      <4> QED BY ONLY <4>1, <4>2
    <3> QED BY ONLY <3>1, <3>2, <3>3
  <2>7. wroteAt' \subseteq 0 .. size - 1
    BY ONLY <1>2, <2>1, <2>2
  <2>8. NcpyAt(e)'
    <3>1. /\ pc' = "fill" /\ s' = e /\ s' \in 0 .. e /\ d' = s' /\ n' = size - s' /\ i' \in 0 .. n'
          /\ readDst' = {} /\ readAt' \subseteq DOMAIN src /\ start' = 0
      BY ONLY <1>2, <1>3, <2>1, <2>2
    <3>2. dst' \in [0 .. size - 1 -> 0 .. 255]
      BY ONLY <2>3
    <3>3. f' = "stpncpy" /\ src' = src /\ size' = size
      BY ONLY <1>2, <1>3
    <3>4. /\ size \in Nat /\ e \in 0 .. size
          /\ \A k \in 0 .. e - 1 : k \in DOMAIN src /\ src[k] # 0 /\ src[k] \in 0 .. 255
          /\ e < size => e \in DOMAIN src /\ src[e] = 0
      BY ONLY <1>2
    <3> QED BY ONLY <2>5, <2>6, <2>7, <3>1, <3>2, <3>3, <3>4 DEF NcpyAt
  <2> QED BY ONLY <2>8 DEF CallInv
<1>5. CASE ~(i < n)
  <2>1. pc' = "ret" /\ res' = d /\ UNCHANGED <<dst, i, wroteAt>>
    BY ONLY <1>5, Fill DEF Fill, Goto
  <2>2. i = n /\ i \in 0 .. n /\ e \in 0 .. e
    BY ONLY <1>2, <1>5
  <2>3. NcpyAt(e)'
    BY ONLY <1>2, <1>3, <2>1, <2>2 DEF NcpyAt
  <2> QED BY ONLY <2>3 DEF CallInv
<1> QED BY ONLY <1>4, <1>5

(* strerror_r decides how much of the message it copies.                    *)
LEMMA StrerrorStep ==
    ASSUME CallInv, Strerror PROVE CallInv'
<1>1. PICK l \in Nat : MessageAt(l)
  BY ONLY CallInv, Strerror DEF CallInv, Strerror, CatAt, NcpyAt, ScanAt
<1>2. /\ pc = "strerror_r" /\ f = "strerror_r" /\ size \in Nat /\ src \in [0 .. l - 1 -> 1 .. 255]
      /\ dst \in [0 .. size - 1 -> 0 .. 255] /\ i = 0
      /\ readAt \subseteq 0 .. l - 1 /\ readDst = {} /\ wroteAt \subseteq 0 .. size - 1
  BY ONLY <1>1, Strerror DEF MessageAt, Strerror
<1>3. UNCHANGED <<f, src, size, dst, i, readAt, readDst, wroteAt>>
  BY ONLY Strerror DEF Strerror, objects
<1>4. Size(src) = l
  BY ONLY <1>2, l \in Nat, SizeOf
<1>5. \/ l >= size /\ size = 0 /\ pc' = "ret" /\ res' = ERANGE
      \/ l >= size /\ size > 0 /\ pc' = "message" /\ res' = ERANGE /\ n' = size - 1
      \/ l < size /\ pc' = "message" /\ res' = 0 /\ n' = l
  BY ONLY <1>4, Strerror DEF Strerror, Goto
<1>6. \A k \in 0 .. i' - 1 : dst'[k] = src'[k]
  BY ONLY <1>2, <1>3
<1>7. \/ pc' = "ret" /\ size = 0 /\ res' = ERANGE
      \/ /\ pc' = "message" /\ n' \in Nat /\ n' < size /\ n' <= l /\ i' \in 0 .. n'
         /\ IF l < size THEN n' = l /\ res' = 0 ELSE n' = size - 1 /\ res' = ERANGE
  BY ONLY <1>2, <1>3, <1>5, l \in Nat
<1>8. MessageAt(l)'
  BY ONLY <1>2, <1>3, <1>6, <1>7, l \in Nat DEF MessageAt
<1> QED BY ONLY <1>8 DEF CallInv

(* One byte of the message, or its terminator.                              *)
LEMMA MessageStep ==
    ASSUME CallInv, Message PROVE CallInv'
<1>1. PICK l \in Nat : MessageAt(l)
  BY ONLY CallInv, Message DEF CallInv, Message, CatAt, NcpyAt, ScanAt
<1>2. /\ pc = "message" /\ f = "strerror_r" /\ size \in Nat /\ src \in [0 .. l - 1 -> 1 .. 255]
      /\ dst \in [0 .. size - 1 -> 0 .. 255]
      /\ readAt \subseteq 0 .. l - 1 /\ readDst = {} /\ wroteAt \subseteq 0 .. size - 1
      /\ n \in Nat /\ n < size /\ n <= l /\ i \in 0 .. n
      /\ \A k \in 0 .. i - 1 : dst[k] = src[k]
  BY ONLY <1>1, Message DEF MessageAt, Message
<1>3. UNCHANGED <<f, src, size, n, res, readDst>>
  BY ONLY Message DEF Message, objects
<1>4. IF l < size THEN n' = l /\ res' = 0 ELSE n' = size - 1 /\ res' = ERANGE
  BY ONLY <1>1, <1>2, <1>3 DEF MessageAt
<1> DEFINE at == IF i < n THEN i ELSE n
           b == IF i < n THEN src[i] ELSE 0
<1>5. dst' = [dst EXCEPT ![at] = b] /\ wroteAt' = wroteAt \cup {at}
  BY ONLY Message DEF Message, Store, Nul
<1>6. at \in 0 .. size - 1 /\ at >= i /\ b \in 0 .. 255
  <2>1. i < n => i \in 0 .. l - 1
    BY ONLY <1>2, l \in Nat
  <2>2. \A k \in 0 .. l - 1 : src[k] \in 0 .. 255
    <3>1. \A k \in 0 .. l - 1 : src[k] \in 1 .. 255
      BY ONLY <1>2
    <3> QED BY ONLY <3>1
  <2>3. b \in 0 .. 255
    BY ONLY <2>1, <2>2
  <2>4. at \in 0 .. size - 1 /\ at >= i
    BY ONLY <1>2
  <2> QED BY ONLY <2>3, <2>4
<1> HIDE DEF at, b
<1>7. dst' \in [0 .. size - 1 -> 0 .. 255] /\ dst'[at] = b
  BY ONLY <1>2, <1>5, <1>6
<1>8. \A k \in 0 .. i - 1 : dst'[k] = src[k]
  <2>1. \A k \in 0 .. i - 1 : k \in 0 .. size - 1 /\ k # at
    BY ONLY <1>2, <1>6
  <2> QED BY ONLY <1>2, <1>5, <2>1
<1>9. wroteAt' \subseteq 0 .. size - 1
  BY ONLY <1>2, <1>5, <1>6
<1>10. CASE i < n
  <2>1. readAt' = readAt \cup {i} /\ i' = i + 1 /\ pc' = pc
    BY ONLY <1>10, Message DEF Message, Load
  <2>2. readAt' \subseteq 0 .. l - 1 /\ i' \in 0 .. n
    BY ONLY <1>2, <1>10, <2>1, l \in Nat
  <2>3. \A k \in 0 .. i' - 1 : dst'[k] = src[k]
    <3>1. at = i /\ b = src[i]
      BY ONLY <1>10 DEF at, b
    <3>2. \A k \in 0 .. i' - 1 : k \in 0 .. i - 1 \/ k = i
      BY ONLY <1>2, <2>1
    <3> QED BY ONLY <1>7, <1>8, <3>1, <3>2
  <2>4. MessageAt(l)'
    BY ONLY <1>2, <1>3, <1>4, <1>7, <1>9, <2>1, <2>2, <2>3, l \in Nat DEF MessageAt
  <2> QED BY ONLY <2>4 DEF CallInv
<1>11. CASE ~(i < n)
  <2>1. readAt' = readAt /\ i' = i /\ pc' = "ret"
    BY ONLY <1>11, Message DEF Message, Goto
  <2>2. i' = n /\ i \in 0 .. n /\ dst'[n] = 0
    BY ONLY <1>2, <1>7, <1>11, <2>1 DEF at, b
  <2>3. MessageAt(l)'
    <3>1. /\ n' \in Nat /\ n' < size /\ n' <= l /\ i' \in 0 .. n' /\ i' = n' /\ dst'[n'] = 0
          /\ \A k \in 0 .. i' - 1 : dst'[k] = src[k]
      BY ONLY <1>2, <1>3, <1>8, <2>1, <2>2
    <3>2. dst' \in [0 .. size - 1 -> 0 .. 255]
      BY ONLY <1>7
    <3>3. /\ f' = "strerror_r" /\ pc' = "ret" /\ size' = size /\ src' = src /\ readDst' = {}
          /\ readAt' \subseteq 0 .. l - 1 /\ size \in Nat /\ src \in [0 .. l - 1 -> 1 .. 255]
      BY ONLY <1>2, <1>3, <2>1
    <3> QED BY ONLY <1>4, <1>9, <3>1, <3>2, <3>3, l \in Nat DEF MessageAt
  <2> QED BY ONLY <2>3 DEF CallInv
<1> QED BY ONLY <1>10, <1>11

(* A call that only reads.                                                  *)
LEMMA ScanStep ==
    ASSUME CallInv, CallScan PROVE CallInv'
<1>1. ScanAt /\ pc = "scan"
  BY ONLY CallInv, CallScan DEF CallInv, CallScan, CatAt, NcpyAt, MessageAt
<1>2. UNCHANGED <<f, src, size, c, dst0, dst, wroteAt>> /\ pc' = "ret"
  BY ONLY CallScan DEF CallScan, objects, Goto
<1>3. Returned'
  BY ONLY <1>2, CallScan DEF CallScan, Returned
<1>4. ScanArgs'
  BY ONLY <1>1, <1>2 DEF ScanAt, ScanArgs
<1>5. ScanAt'
  BY ONLY <1>1, <1>2, <1>3, <1>4 DEF ScanAt
<1> QED BY ONLY <1>5 DEF CallInv

(* What changes nothing.                                                    *)
LEMMA CallKept ==
    ASSUME CallInv, UNCHANGED vars PROVE CallInv'
<1>1. UNCHANGED <<f, src, dst, size, c, start, d, s, n, i, pc, res, dst0, readAt, readDst, wroteAt>>
  BY ONLY UNCHANGED vars DEF vars
<1>2. ASSUME NEW h \in Nat, NEW l \in Nat, CatAt(h, l) PROVE CatAt(h, l)'
  <2>1. /\ f' = f /\ pc' = pc /\ src' = src /\ dst' = dst /\ dst0' = dst0 /\ d' = d /\ s' = s
        /\ start' = start /\ res' = res /\ readAt' = readAt /\ readDst' = readDst /\ wroteAt' = wroteAt
    BY ONLY <1>1
  <2>2. /\ 0 .. l \subseteq DOMAIN src' /\ src'[l] = 0
        /\ \A k \in 0 .. l - 1 : src'[k] # 0 /\ src'[k] \in 0 .. 255
        /\ dst' \in [0 .. h + l -> 0 .. 255] /\ readDst' \subseteq 0 .. h
        /\ \A k \in 0 .. h - 1 : dst'[k] # 0 /\ dst'[k] = dst0'[k]
    <3>1. /\ 0 .. l \subseteq DOMAIN src /\ src[l] = 0
          /\ \A k \in 0 .. l - 1 : src[k] # 0 /\ src[k] \in 0 .. 255
          /\ dst \in [0 .. h + l -> 0 .. 255] /\ readDst \subseteq 0 .. h
          /\ \A k \in 0 .. h - 1 : dst[k] # 0 /\ dst[k] = dst0[k]
      BY ONLY <1>2 DEF CatAt
    <3> QED BY ONLY <2>1, <3>1
  <2>3. /\ f' \in {"stpcpy", "strcat"} /\ pc' \in {"strcat", "stpcpy", "ret"}
        /\ f' = "stpcpy" => h = 0 /\ pc' # "strcat"
        /\ pc' = "ret" => s' = l /\ res' = (IF f' = "strcat" THEN 0 ELSE h + l) /\ dst'[h + l] = 0
    BY ONLY <1>2, <2>1 DEF CatAt
  <2>4. IF pc' = "strcat"
          THEN d' \in 0 .. h /\ s' = 0 /\ start' = 0 /\ dst'[h] = 0 /\ readAt' = {} /\ wroteAt' = {}
          ELSE /\ start' = h /\ s' \in 0 .. l /\ d' = h + s'
               /\ \A k \in 0 .. s' - 1 : dst'[h + k] = src'[k]
               /\ readAt' \subseteq 0 .. l /\ wroteAt' \subseteq 0 .. h + l
    <3>1. IF pc = "strcat"
            THEN d \in 0 .. h /\ s = 0 /\ start = 0 /\ dst[h] = 0 /\ readAt = {} /\ wroteAt = {}
            ELSE /\ start = h /\ s \in 0 .. l /\ d = h + s
                 /\ \A k \in 0 .. s - 1 : dst[h + k] = src[k]
                 /\ readAt \subseteq 0 .. l /\ wroteAt \subseteq 0 .. h + l
      BY ONLY <1>2 DEF CatAt
    <3> QED BY ONLY <2>1, <3>1
  <2> QED BY ONLY <1>2, <2>2, <2>3, <2>4 DEF CatAt
<1>3. ASSUME NEW e \in Nat, NcpyAt(e) PROVE NcpyAt(e)'
  BY ONLY <1>1, <1>3 DEF NcpyAt
<1>4. ASSUME NEW l \in Nat, MessageAt(l) PROVE MessageAt(l)'
  BY ONLY <1>1, <1>4 DEF MessageAt
<1>5. ASSUME ScanAt PROVE ScanAt'
  <2>1. ScanArgs'
    BY ONLY <1>1, <1>5 DEF ScanAt, ScanArgs
  <2>2. Returned => Returned'
    BY ONLY <1>1 DEF Returned
  <2> QED BY ONLY <1>1, <1>5, <2>1, <2>2 DEF ScanAt
<1> QED BY ONLY CallInv, <1>2, <1>3, <1>4, <1>5 DEF CallInv

(* Every step of a call keeps the invariant.                                *)
LEMMA CallStep ==
    ASSUME CallInv, [Next]_vars PROVE CallInv'
<1>1. CASE UNCHANGED vars
  BY ONLY CallInv, CallKept, <1>1
<1>2. CASE Done
  BY ONLY CallInv, CallKept, <1>2 DEF Done
<1> QED BY <1>1, <1>2, FindEndStep, StpcpyStep, StpncpyStep, FillStep, StrerrorStep,
           MessageStep, ScanStep DEF Next

-----------------------------------------------------------------------------
(* What the invariant says of a call that has returned, call by call.       *)
LEMMA CatRight ==
    ASSUME NEW h, NEW l, CatAt(h, l)
    PROVE  /\ AccessesInObjects /\ CopyExact
           /\ pc = "ret" => Str(dst, h + l)
<1>1. /\ f \in {"stpcpy", "strcat"} /\ h \in Nat /\ l \in Nat
      /\ 0 .. l \subseteq DOMAIN src /\ src[l] = 0
      /\ \A k \in 0 .. l - 1 : src[k] # 0 /\ src[k] \in 0 .. 255
      /\ dst \in [0 .. h + l -> 0 .. 255] /\ readDst \subseteq 0 .. h
      /\ \A k \in 0 .. h - 1 : dst[k] # 0 /\ dst[k] = dst0[k]
      /\ readAt \subseteq 0 .. l /\ wroteAt \subseteq 0 .. h + l
  <2>1. readAt \subseteq 0 .. l /\ wroteAt \subseteq 0 .. h + l
    BY ONLY CatAt(h, l) DEF CatAt
  <2> QED BY ONLY CatAt(h, l), <2>1 DEF CatAt
<1>2. AccessesInObjects
  <2>1. DOMAIN dst = 0 .. h + l /\ 0 .. h \subseteq 0 .. h + l
    BY ONLY <1>1
  <2> QED BY ONLY <1>1, <2>1 DEF AccessesInObjects
<1>3. ASSUME pc = "ret" PROVE Str(dst, h + l) /\ CopyExact
  <2>1. /\ start = h /\ res = (IF f = "strcat" THEN 0 ELSE h + l) /\ dst[h + l] = 0
        /\ \A k \in 0 .. l - 1 : dst[h + k] = src[k]
    BY ONLY <1>3, CatAt(h, l) DEF CatAt
  <2>2. \A k \in 0 .. h + l : \/ k \in 0 .. h - 1
                              \/ k - h \in 0 .. l - 1 /\ k = h + (k - h) /\ ~(k < h)
                              \/ k = h + l /\ k - h = l /\ ~(k < h)
    BY ONLY <1>1
  <2>3. \A k \in 0 .. h + l : dst[k] = IF k < h THEN dst0[k] ELSE src[k - h]
    <3> TAKE k \in 0 .. h + l
    <3>1. CASE k \in 0 .. h - 1
      <4>1. k < h
        BY ONLY <3>1, <1>1
      <4> QED BY ONLY <1>1, <3>1, <4>1
    <3>2. CASE k - h \in 0 .. l - 1 /\ k = h + (k - h) /\ ~(k < h)
      <4>1. dst[h + (k - h)] = src[k - h]
        BY ONLY <2>1, <3>2
      <4> QED BY ONLY <3>2, <4>1
    <3>3. CASE k = h + l /\ k - h = l /\ ~(k < h)
      BY ONLY <1>1, <2>1, <3>3
    <3> QED BY ONLY <2>2, <3>1, <3>2, <3>3
  <2>4. \A k \in 0 .. (h + l) - 1 : dst[k] # 0
    <3> TAKE k \in 0 .. (h + l) - 1
    <3>1. CASE k \in 0 .. h - 1
      BY ONLY <1>1, <3>1
    <3>2. CASE ~(k \in 0 .. h - 1)
      <4>1. k \in 0 .. h + l /\ ~(k < h) /\ k - h \in 0 .. l - 1
        BY ONLY <1>1, <3>2, k \in 0 .. (h + l) - 1
      <4>2. dst[k] = src[k - h]
        BY ONLY <2>3, <4>1
      <4> QED BY ONLY <1>1, <4>1, <4>2
    <3> QED BY ONLY <3>1, <3>2
  <2>5. Str(dst, h + l)
    BY ONLY <1>1, <2>1, <2>4, h + l \in Nat DEF Str, Nul
  <2>6. \A k \in DOMAIN dst : dst[k] = Expected(k)
    <3>1. DOMAIN dst = 0 .. h + l /\ f # "stpncpy"
      BY ONLY <1>1
    <3> QED BY ONLY <2>1, <2>3, <3>1 DEF Expected
  <2>7. ASSUME f # "strcat" PROVE ReturnsEnd
    <3>0. res = h + l
      BY ONLY <2>1, <2>7
    <3>1. res \in DOMAIN dst /\ dst[res] = Nul
      BY ONLY <1>1, <2>1, <3>0 DEF Nul
    <3>2. \A k \in start .. res - 1 : dst[k] # Nul
      <4>1. \A k \in start .. res - 1 : k \in 0 .. (h + l) - 1
        BY ONLY <1>1, <2>1, <3>0
      <4> QED BY ONLY <2>4, <4>1 DEF Nul
    <3> QED BY ONLY <3>1, <3>2 DEF ReturnsEnd
  <2>8. CopyExact
    BY ONLY <1>1, <2>1, <2>6, <2>7 DEF CopyExact
  <2> QED BY ONLY <2>5, <2>8
<1>4. pc # "ret" => CopyExact
  BY ONLY DEF CopyExact
<1> QED BY ONLY <1>2, <1>3, <1>4

(* strncpy.                                                                 *)
LEMMA NcpyRight ==
    ASSUME NEW e, NcpyAt(e)
    PROVE  AccessesInObjects /\ CopyExact
<1>1. /\ f = "stpncpy" /\ start = 0 /\ size \in Nat /\ e \in 0 .. size
      /\ \A k \in 0 .. e - 1 : k \in DOMAIN src /\ src[k] # 0 /\ src[k] \in 0 .. 255
      /\ e < size => e \in DOMAIN src /\ src[e] = 0
      /\ dst \in [0 .. size - 1 -> 0 .. 255]
      /\ readAt \subseteq DOMAIN src /\ readDst = {} /\ wroteAt \subseteq 0 .. size - 1
      /\ n = size - s
  BY DEF NcpyAt
<1>2. AccessesInObjects
  <2>1. DOMAIN dst = 0 .. size - 1
    BY ONLY <1>1
  <2> QED BY ONLY <1>1, <2>1 DEF AccessesInObjects
<1>3. ASSUME pc = "ret" PROVE CopyExact
  <2>1. res = e /\ s = e /\ i = n /\ n = size - e
    BY ONLY <1>3, NcpyAt(e) DEF NcpyAt
  <2>2. \A k \in 0 .. e - 1 : dst[k] = src[k]
    BY ONLY <2>1, NcpyAt(e) DEF NcpyAt
  <2>3. \A k \in e .. size - 1 : dst[k] = 0
    <3>1. \A k \in 0 .. (size - e) - 1 : dst[e + k] = 0
      BY ONLY <2>1, NcpyAt(e) DEF NcpyAt
    <3>2. \A k \in e .. size - 1 : k - e \in 0 .. (size - e) - 1 /\ e + (k - e) = k
      BY ONLY <1>1
    <3> TAKE k \in e .. size - 1
    <3>3. dst[e + (k - e)] = 0
      BY ONLY <3>1, <3>2
    <3> QED BY ONLY <3>2, <3>3
  <2>4. \A k \in DOMAIN dst : dst[k] = Expected(k)
    <3>1. DOMAIN dst = 0 .. size - 1
      BY ONLY <1>1
    <3> TAKE k \in DOMAIN dst
    <3>2. k \in 0 .. size - 1
      BY ONLY <3>1
    <3>3. CASE k < e
      <4>1. \A t \in 0 .. k : t \in 0 .. e - 1
        BY ONLY <1>1, <3>2, <3>3
      <4>2. ~ \E t \in 0 .. k : t \in DOMAIN src /\ src[t] = Nul
        BY ONLY <1>1, <4>1 DEF Nul
      <4>3. k \in 0 .. e - 1
        BY ONLY <1>1, <3>2, <3>3
      <4> QED BY ONLY <1>1, <2>2, <4>2, <4>3 DEF Expected
    <3>4. CASE ~(k < e)
      <4>1. e \in 0 .. k /\ e < size /\ k \in e .. size - 1
        BY ONLY <1>1, <3>2, <3>4
      <4>2. \E t \in 0 .. k : t \in DOMAIN src /\ src[t] = Nul
        BY ONLY <1>1, <4>1 DEF Nul
      <4> QED BY ONLY <1>1, <2>3, <4>1, <4>2 DEF Expected, Nul
    <3> QED BY ONLY <3>3, <3>4
  <2>5. \A k \in 0 .. e - 1 : dst[k] # 0
    BY ONLY <1>1, <2>2
  <2>6. ReturnsEnd
    <3>1. CASE e < size
      <4>1. e \in 0 .. size - 1 /\ e \in e .. size - 1 /\ DOMAIN dst = 0 .. size - 1
        BY ONLY <1>1, <3>1
      <4>2. res \in DOMAIN dst /\ dst[res] = Nul /\ \A k \in start .. res - 1 : dst[k] # Nul
        BY ONLY <1>1, <2>1, <2>3, <2>5, <4>1 DEF Nul
      <4> QED BY ONLY <4>2 DEF ReturnsEnd
    <3>2. CASE ~(e < size)
      <4>1. e = size
        BY ONLY <1>1, <3>2
      <4>2. ~Terminated(dst)
        BY ONLY <1>1, <2>5, <4>1 DEF Terminated, Nul
      <4> QED BY ONLY <1>1, <2>1, <4>1, <4>2 DEF ReturnsEnd
    <3> QED BY ONLY <3>1, <3>2
  <2> QED BY ONLY <1>1, <2>4, <2>6 DEF CopyExact
<1>4. pc # "ret" => CopyExact
  BY ONLY DEF CopyExact
<1> QED BY ONLY <1>2, <1>3, <1>4

(* strerror_r.                                                              *)
LEMMA MessageRight ==
    ASSUME NEW l, MessageAt(l)
    PROVE  AccessesInObjects /\ CopyExact
<1>1. /\ f = "strerror_r" /\ size \in Nat /\ l \in Nat /\ src \in [0 .. l - 1 -> 1 .. 255]
      /\ dst \in [0 .. size - 1 -> 0 .. 255]
      /\ readAt \subseteq 0 .. l - 1 /\ readDst = {} /\ wroteAt \subseteq 0 .. size - 1
  BY DEF MessageAt
<1>2. AccessesInObjects
  <2>1. DOMAIN dst = 0 .. size - 1 /\ DOMAIN src = 0 .. l - 1
    BY ONLY <1>1
  <2> QED BY ONLY <1>1, <2>1 DEF AccessesInObjects
<1>3. ASSUME pc = "ret" PROVE CopyExact
  <2>1. Size(src) = l
    BY ONLY <1>1, SizeOf
  <2>2. CASE size = 0
    <3>1. res = ERANGE
      BY ONLY <1>3, <2>2, MessageAt(l) DEF MessageAt
    <3>2. res # 0 /\ ~(size > 0)
      BY ONLY <2>2, <3>1 DEF ERANGE
    <3>3. MessageKept
      BY ONLY <3>2 DEF MessageKept
    <3> QED BY ONLY <1>1, <3>3 DEF CopyExact
  <2>3. CASE size # 0
    <3>1. /\ n \in Nat /\ n < size /\ n <= l /\ i = n /\ dst[n] = 0
          /\ \A k \in 0 .. n - 1 : dst[k] = src[k]
          /\ IF l < size THEN n = l /\ res = 0 ELSE n = size - 1 /\ res = ERANGE
      BY ONLY <1>3, <2>3, MessageAt(l) DEF MessageAt
    <3>2. \A k \in 0 .. n - 1 : dst[k] # 0
      <4>1. \A k \in 0 .. n - 1 : k \in 0 .. l - 1
        BY ONLY <1>1, <3>1
      <4>2. \A k \in 0 .. l - 1 : src[k] # 0
        <5>1. \A k \in 0 .. l - 1 : src[k] \in 1 .. 255
          BY ONLY <1>1
        <5> QED BY ONLY <5>1
      <4> QED BY ONLY <3>1, <4>1, <4>2
    <3>3. n \in 0 .. size - 1
      BY ONLY <1>1, <3>1
    <3>4. Terminated(dst) /\ strlen(dst, 0) = n
      <4>1. size \in Nat /\ dst \in [0 .. size - 1 -> 0 .. 255] /\ dst[n] = 0
        BY ONLY <1>1, <3>1
      <4> QED BY ONLY <3>2, <3>3, <4>1, FirstZeroIs
    <3>5. size > 0 /\ ((res = 0) = (n = l))
      BY ONLY <1>1, <3>1 DEF ERANGE
    <3>6. MessageKept
      BY ONLY <2>1, <3>1, <3>4, <3>5 DEF MessageKept
    <3> QED BY ONLY <1>1, <3>6 DEF CopyExact
  <2> QED BY ONLY <2>2, <2>3
<1>4. pc # "ret" => CopyExact
  BY ONLY DEF CopyExact
<1> QED BY ONLY <1>2, <1>3, <1>4

(* The calls that only read: each is one of the lemmas above.               *)
LEMMA ScanRight ==
    ASSUME ScanAt
    PROVE  AccessesInObjects /\ CopyExact /\ ScanExact /\ OrderExact /\ ClassesExact
<1>1. /\ ScanArgs /\ pc \in {"scan", "ret"} /\ dst = dst0 /\ wroteAt = {}
      /\ pc = "scan" => readAt = {} /\ readDst = {}
      /\ pc = "ret" => Returned
  BY DEF ScanAt
<1>2. CASE pc = "scan"
  <2>1. AccessesInObjects
    BY ONLY <1>1, <1>2 DEF AccessesInObjects
  <2> QED BY ONLY <1>2, <2>1 DEF CopyExact, ScanExact, OrderExact, ClassesExact
<1>3. CASE pc = "ret"
  <2>1. Returned
    BY ONLY <1>1, <1>3
  <2>2. f \notin {"stpcpy", "strcat", "stpncpy", "strerror_r"}
    BY ONLY <1>1 DEF ScanArgs, Spans, Comparisons, Bounded, Searches
  <2>3. CopyExact
    BY ONLY <1>1, <2>2 DEF CopyExact
  <2>4. ReadsInside => AccessesInObjects
    BY ONLY <1>1 DEF ReadsInside, AccessesInObjects
  <2>5. CASE f \in Spans /\ src \in CStrings /\ dst \in CStrings
    <3>1. PICK l \in Nat, q \in Nat : Str(src, l) /\ Str(dst, q)
      BY ONLY <2>5, CStringShape
    <3>2. ReadsInside /\ Sought
      BY ONLY <2>1, <2>5, <3>1, strstrFound, strspnFound, strcspnFound DEF Spans
    <3>3. ScanExact
      BY ONLY <3>2 DEF Sought, ScanExact
    <3>4. f \notin Comparisons \cup Bounded \cup {"memcmp", "ctype"}
      BY ONLY <2>5 DEF Spans, Comparisons, Bounded
    <3> QED BY ONLY <2>3, <2>4, <3>2, <3>3, <3>4 DEF OrderExact, ClassesExact
  <2>6. CASE f \in Comparisons /\ src \in CStrings /\ dst \in CStrings
    <3>1. PICK l \in Nat, q \in Nat : Str(src, l) /\ Str(dst, q) /\ l < MaxScan /\ q < MaxScan
      BY ONLY <2>6, CStringShape
    <3>2. ReadsInside /\ Ordered
      BY ONLY <2>1, <2>6, <3>1, CompareOrdered
    <3>3. OrderExact
      BY ONLY <3>2 DEF Ordered, Less, OrderExact
    <3>4. f \notin Searches \cup Spans \cup {"strnlen", "memchr", "memrchr", "ctype"}
      BY ONLY <2>6 DEF Spans, Comparisons, Searches
    <3> QED BY ONLY <2>3, <2>4, <3>2, <3>3, <3>4 DEF ScanExact, ClassesExact
  <2>7. CASE f \in Bounded /\ size \in 0 .. MaxCount /\ src \in BoundedStrings(size) /\ dst \in BoundedStrings(size)
    <3>1. size \in Nat
      BY ONLY <2>7, BoundsAssumption
    <3>2. PICK l \in Nat, q \in Nat : Limited(src, l, size) /\ Limited(dst, q, size)
      BY ONLY <2>7, <3>1, BoundedShape
    <3>3. ReadsInside /\ Ordered
      BY ONLY <2>1, <2>7, <3>2, BoundedOrdered
    <3>4. OrderExact
      BY ONLY <3>3 DEF Ordered, Less, OrderExact
    <3>5. f \notin Searches \cup Spans \cup {"strnlen", "memchr", "memrchr", "ctype"}
      BY ONLY <2>7 DEF Spans, Bounded, Searches
    <3> QED BY ONLY <2>3, <2>4, <3>3, <3>4, <3>5 DEF ScanExact, ClassesExact
  <2>8. CASE f = "memcmp" /\ size \in 0 .. MaxCount /\ src \in Operands(size) /\ dst \in Operands(size)
    <3>1. size \in Nat
      BY ONLY <2>8, BoundsAssumption
    <3>2. Bytes(src, size) /\ Bytes(dst, size)
      BY ONLY <2>8, <3>1, OperandBytes
    <3>3. ReadsInside /\ Ordered
      BY ONLY <2>1, <2>8, <3>2, memcmpOrdered
    <3>4. OrderExact
      BY ONLY <3>3 DEF Ordered, Less, OrderExact
    <3>5. f \notin Searches \cup Spans \cup {"strnlen", "memchr", "memrchr", "ctype"}
      BY ONLY <2>8 DEF Spans, Searches
    <3> QED BY ONLY <2>3, <2>4, <3>3, <3>4, <3>5 DEF ScanExact, ClassesExact
  <2>9. CASE f \in Searches /\ src \in CStrings
    <3>1. PICK l \in Nat : Str(src, l)
      BY ONLY <2>9, CStringShape
    <3>2. ReadsInside /\ Sought
      BY ONLY <2>1, <2>9, <3>1, strlenFound, strchrnulFound, strchrFound, strrchrFound DEF Searches
    <3>3. ScanExact
      BY ONLY <3>2 DEF Sought, ScanExact
    <3>4. f \notin Comparisons \cup Bounded \cup {"memcmp", "ctype"}
      BY ONLY <2>9 DEF Searches, Comparisons, Bounded
    <3> QED BY ONLY <2>3, <2>4, <3>2, <3>3, <3>4 DEF OrderExact, ClassesExact
  <2>10. CASE f \in {"memchr", "memrchr"} /\ size \in 0 .. MaxCount /\ src \in Operands(size)
    <3>1. size \in Nat
      BY ONLY <2>10, BoundsAssumption
    <3>2. Bytes(src, size)
      BY ONLY <2>10, <3>1, OperandBytes
    <3>3. ReadsInside /\ Sought
      BY ONLY <2>1, <2>10, <3>2, memchrFound
    <3>4. ScanExact
      BY ONLY <3>3 DEF Sought, ScanExact
    <3>5. f \notin Comparisons \cup Bounded \cup {"memcmp", "ctype"}
      BY ONLY <2>10 DEF Comparisons, Bounded
    <3> QED BY ONLY <2>3, <2>4, <3>3, <3>4, <3>5 DEF OrderExact, ClassesExact
  <2>11. CASE f = "strnlen" /\ size \in 0 .. MaxCount /\ src \in BoundedStrings(size)
    <3>1. size \in Nat
      BY ONLY <2>11, BoundsAssumption
    <3>2. PICK l \in Nat : Limited(src, l, size)
      BY ONLY <2>11, <3>1, BoundedShape
    <3>3. ReadsInside /\ Sought
      BY ONLY <2>1, <2>11, <3>2, strnlenFound
    <3>4. ScanExact
      BY ONLY <3>3 DEF Sought, ScanExact
    <3>5. f \notin Comparisons \cup Bounded \cup {"memcmp", "ctype"}
      BY ONLY <2>11 DEF Comparisons, Bounded
    <3> QED BY ONLY <2>3, <2>4, <3>3, <3>4, <3>5 DEF OrderExact, ClassesExact
  <2>12. CASE f = "ctype" /\ c \in -(Span \div 2) .. (Span \div 2) - 1
    <3>1. ReadsInside /\ ClassesExact
      BY ONLY <2>1, <2>12, ClassesRight
    <3>2. f \notin Searches \cup Spans \cup Comparisons \cup Bounded \cup {"strnlen", "memchr", "memrchr", "memcmp"}
      BY ONLY <2>12 DEF Searches, Spans, Comparisons, Bounded
    <3> QED BY ONLY <2>3, <2>4, <3>1, <3>2 DEF ScanExact, OrderExact
  <2> QED BY ONLY <1>1, <2>5, <2>6, <2>7, <2>8, <2>9, <2>10, <2>11, <2>12 DEF ScanArgs
<1> QED BY ONLY <1>1, <1>2, <1>3

(* A call in any state keeps all five properties.                           *)
LEMMA CallRight ==
    ASSUME CallInv
    PROVE  AccessesInObjects /\ CopyExact /\ ScanExact /\ OrderExact /\ ClassesExact
<1>1. ASSUME f \in {"stpcpy", "strcat", "stpncpy", "strerror_r"}
      PROVE  ScanExact /\ OrderExact /\ ClassesExact
  <2>1. f \notin Searches \cup Spans \cup Comparisons \cup Bounded \cup {"strnlen", "memchr", "memrchr", "memcmp", "ctype"}
    BY ONLY <1>1 DEF Searches, Spans, Comparisons, Bounded
  <2> QED BY ONLY <2>1 DEF ScanExact, OrderExact, ClassesExact
<1>2. CASE \E h, l \in Nat : CatAt(h, l)
  <2>1. PICK h \in Nat, l \in Nat : CatAt(h, l)
    BY ONLY <1>2
  <2>2. f \in {"stpcpy", "strcat", "stpncpy", "strerror_r"}
    BY ONLY <2>1 DEF CatAt
  <2> QED BY ONLY <1>1, <2>1, <2>2, CatRight
<1>3. CASE \E e \in Nat : NcpyAt(e)
  <2>1. PICK e \in Nat : NcpyAt(e)
    BY ONLY <1>3
  <2>2. f \in {"stpcpy", "strcat", "stpncpy", "strerror_r"}
    BY ONLY <2>1 DEF NcpyAt
  <2> QED BY ONLY <1>1, <2>1, <2>2, NcpyRight
<1>4. CASE \E l \in Nat : MessageAt(l)
  <2>1. PICK l \in Nat : MessageAt(l)
    BY ONLY <1>4
  <2>2. f \in {"stpcpy", "strcat", "stpncpy", "strerror_r"}
    BY ONLY <2>1 DEF MessageAt
  <2> QED BY ONLY <1>1, <2>1, <2>2, MessageRight
<1>5. CASE ScanAt
  BY ONLY <1>5, ScanRight
<1> QED BY ONLY CallInv, <1>2, <1>3, <1>4, <1>5 DEF CallInv

-----------------------------------------------------------------------------
(* The token streams.  IsSep, EndOf and StartSet say what the string held   *)
(* before the first cut: the separators of stream t, where a token that     *)
(* begins at x ends, and where the tokens of the region a .. b begin.       *)
Pos(t) == IF api[t] = "strtok" THEN STRTOK_STATE ELSE save[t]

IsSep(t, k) == dst0[k] \in Byteset(sep[t])

EndOf(t, x, b) == Min({k \in x .. b : k = b \/ IsSep(t, k)})

StartSet(t, a, b) ==
    IF api[t] = "strsep"
      THEN {a} \cup {k \in a + 1 .. b : IsSep(t, k - 1)}
      ELSE {k \in a .. b - 1 : ~IsSep(t, k) /\ (k = a \/ IsSep(t, k - 1))}

(* A list of tokens, in order, each cut off behind.                         *)
TokenList(t, a, b, g) ==
    /\ g \in Seq(Nat)
    /\ \A x, y \in 1 .. Len(g) : x < y => g[x] < g[y]
    /\ \A x \in 1 .. Len(g) : g[x] \in StartSet(t, a, b) /\ dst[EndOf(t, g[x], b)] = 0

(* The list holds the tokens that begin before p.                           *)
ListedTo(t, a, b, g, p) ==
    /\ \A x \in 1 .. Len(g) : g[x] < p
    /\ \A k \in StartSet(t, a, b) : k < p => \E x \in 1 .. Len(g) : g[x] = k

(* A position from which on the region is untouched.                        *)
FreshFrom(t, a, b, p) ==
    /\ p \in a .. b /\ (p = a \/ IsSep(t, p - 1))
    /\ \A k \in p .. b - 1 : dst[k] = dst0[k]

(* A stream on the region a .. b.                                           *)
Stream(t, a, b) ==
    /\ dst[b] = 0 /\ TokenList(t, a, b, got[t])
    /\ IF Pos(t) = NULL
         THEN \A k \in StartSet(t, a, b) : \E x \in 1 .. Len(got[t]) : got[t][x] = k
         ELSE Pos(t) # a /\ FreshFrom(t, a, b, Pos(t)) /\ ListedTo(t, a, b, got[t], Pos(t)) /\ ~ended[t]

(* The buffer of l bytes and its terminator: only separators are cut.       *)
Cuts(l) ==
    /\ Str(dst0, l) /\ Buf(dst, l)
    /\ \A k \in 0 .. l : dst[k] = dst0[k] \/ (dst[k] = 0 /\ \E t \in T!Streams : IsSep(t, k))

TokenTypes ==
    /\ f = "tokens" /\ pc = "tokens" /\ readAt = {} /\ readDst = {} /\ wroteAt = {}
    /\ api \in [T!Streams -> {"strtok", "strtok_r", "strsep"}]
    /\ api["outer"] # "strtok" \/ api["inner"] # "strtok"
    /\ sep \in [T!Streams -> Separators]
    /\ DOMAIN save = T!Streams /\ DOMAIN region = T!Streams
    /\ DOMAIN got = T!Streams /\ ended \in [T!Streams -> BOOLEAN]

OuterAt(l) ==
    \/ region["outer"] = <<>> /\ got["outer"] = <<>> /\ dst = dst0
    \/ region["outer"] = <<0, l>> /\ Stream("outer", 0, l)

(* The inner stream cuts one of the tokens of the outer one; the last of    *)
(* these is whole unless the inner stream is on it.                         *)
InnerAt(l) ==
    \/ region["inner"] = <<>> /\ got["inner"] = <<>>
    \/ \E x \in 1 .. Len(got["outer"]) :
          LET a == got["outer"][x]
              b == EndOf("outer", a, l)
          IN  region["inner"] = <<a, b>> /\ Stream("inner", a, b)

LastWhole(l) ==
    LET z == Len(got["outer"])
        a == got["outer"][z]
    IN  z > 0 /\ region["inner"] # <<a, EndOf("outer", a, l)>> =>
            \A k \in a .. EndOf("outer", a, l) - 1 : dst[k] = dst0[k]

TokensAt(l) == TokenTypes /\ Cuts(l) /\ OuterAt(l) /\ InnerAt(l) /\ LastWhole(l)

TokensInv == \E l \in Nat : TokensAt(l)

-----------------------------------------------------------------------------
(* The tokenizer's scans are the ones above.                                *)
LEMMA SameScans ==
    ASSUME NEW o, NEW a, NEW p
    PROVE  /\ T!strcspn(o, a, p) = strcspn(o, a, p)
           /\ T!strspn(o, a, p) = strspn(o, a, p)
           /\ T!Byteset(p) = Byteset(p)
<1>1. T!Byteset(p) = Byteset(p)
  BY ONLY DEF T!Byteset, Byteset, T!At, At, T!Nul, Nul, T!Min, Min, T!Max, Max, T!Size, Size,
     T!Cardinality, Cardinality, T!IsFiniteSet, IsFiniteSet, T!From, From, T!strlen, strlen
<1>2. T!strspn(o, a, p) = strspn(o, a, p)
  BY ONLY DEF T!strspn, strspn, T!Byteset, Byteset, T!At, At, T!Nul, Nul, T!Min, Min, T!Max, Max,
     T!Size, Size, T!Cardinality, Cardinality, T!IsFiniteSet, IsFiniteSet, T!From, From,
     T!strlen, strlen
<1>3. T!strcspn(o, a, p) = strcspn(o, a, p)
  BY ONLY DEF T!strcspn, strcspn, T!Byteset, Byteset, T!strchrnul, strchrnul, T!Byte, Byte, T!At,
     At, T!Nul, Nul, T!Min, Min, T!Max, Max, T!Size, Size, T!Cardinality, Cardinality,
     T!IsFiniteSet, IsFiniteSet, T!From, From, T!strlen, strlen
<1> QED BY ONLY <1>1, <1>2, <1>3

(* A separator set is a string.                                             *)
LEMMA SepString ==
    ASSUME NEW o \in Separators PROVE \E q \in Nat : Str(o, q)
<1>1. IsFiniteSet(DOMAIN o) /\ o \in [0 .. Size(o) - 1 -> 0 .. 255] /\ IsString(o)
  BY TokenAssumption
<1>2. Size(o) \in Nat
  BY ONLY <1>1, FS_CardinalityType DEF Size
<1>3. PICK m \in Nat : m = Size(o)
  BY ONLY <1>2
<1>4. Bytes(o, m)
  BY ONLY <1>1, <1>3 DEF Bytes
<1>5. m > 0 /\ Str(o, m - 1)
  BY ONLY <1>1, <1>4, StringShape, m \in Nat
<1> QED BY ONLY <1>5, m \in Nat

(* Where a token ends.                                                      *)
LEMMA EndIs ==
    ASSUME NEW t, NEW x \in Nat, NEW b \in Nat, x <= b
    PROVE  /\ EndOf(t, x, b) \in x .. b /\ (EndOf(t, x, b) = b \/ IsSep(t, EndOf(t, x, b)))
           /\ \A k \in x .. EndOf(t, x, b) - 1 : ~IsSep(t, k)
<1> DEFINE S == {k \in x .. b : k = b \/ IsSep(t, k)}
<1>1. S \in SUBSET (x .. b) /\ b \in S
  OBVIOUS
<1>2. EndOf(t, x, b) = Min(S)
  BY ONLY DEF EndOf
<1>3. Min(S) \in S /\ Min(S) \in x .. b /\ \A k \in x .. Min(S) - 1 : k \notin S
  <2> HIDE DEF S
  <2> QED BY ONLY <1>1, Stop, x \in Nat, b \in Nat
<1>4. Min(S) = b \/ IsSep(t, Min(S))
  BY ONLY <1>3
<1>5. \A k \in x .. Min(S) - 1 : ~IsSep(t, k)
  <2> TAKE k \in x .. Min(S) - 1
  <2>1. k \in x .. b
    <3> HIDE DEF S
    <3> QED BY ONLY <1>3, x \in Nat, b \in Nat, k \in x .. Min(S) - 1
  <2>2. k \notin S
    BY ONLY <1>3, k \in x .. Min(S) - 1
  <2> QED BY ONLY <2>1, <2>2
<1> QED BY ONLY <1>2, <1>3, <1>4, <1>5

(* And only there.                                                          *)
LEMMA EndUnique ==
    ASSUME NEW t, NEW x \in Nat, NEW b \in Nat, NEW y \in x .. b, y = b \/ IsSep(t, y),
           \A k \in x .. y - 1 : ~IsSep(t, k)
    PROVE  EndOf(t, x, b) = y
<1> DEFINE e == EndOf(t, x, b)
<1>1. e \in x .. b /\ (e = b \/ IsSep(t, e)) /\ \A k \in x .. e - 1 : ~IsSep(t, k)
  BY ONLY EndIs, x \in Nat, b \in Nat, y \in x .. b
<1> HIDE DEF e
<1>2. ~(e < y) /\ ~(y < e)
  <2>1. ASSUME e < y PROVE FALSE
    <3>1. e \in x .. y - 1 /\ e # b
      BY ONLY <1>1, <2>1, x \in Nat, b \in Nat, y \in x .. b
    <3> QED BY ONLY <1>1, <3>1, \A k \in x .. y - 1 : ~IsSep(t, k)
  <2>2. ASSUME y < e PROVE FALSE
    <3>1. y \in x .. e - 1 /\ y # b
      BY ONLY <1>1, <2>2, x \in Nat, b \in Nat, y \in x .. b
    <3> QED BY ONLY <1>1, <3>1, y = b \/ IsSep(t, y)
  <2> QED BY ONLY <2>1, <2>2
<1>3. e = y
  BY ONLY <1>1, <1>2, x \in Nat, b \in Nat, y \in x .. b
<1> QED BY ONLY <1>3 DEF e

-----------------------------------------------------------------------------
(* What a call that starts to look at p gives: no token, and there is none  *)
(* from p on; or the first one from p on, cut off behind.                   *)
CutOut(out, t, a, b, p) ==
    \/ out.r = NULL /\ out.p = NULL /\ out.m = dst /\ \A k \in StartSet(t, a, b) : k < p
    \/ /\ out.r \in p .. b /\ out.r \in StartSet(t, a, b)
       /\ LET e == EndOf(t, out.r, b)
          IN  /\ \A k \in StartSet(t, a, b) : k < p \/ k = out.r \/ k > e
              /\ IF e < b THEN out.p = e + 1 /\ IsSep(t, e) /\ out.m = [dst EXCEPT ![e] = 0]
                          ELSE out.p = NULL /\ out.m = dst

(* A region of the buffer, looked at from p on.                             *)
Looking(l, t, a, b, p) ==
    /\ Cuts(l) /\ t \in T!Streams /\ (\E q \in Nat : Str(sep[t], q))
    /\ a \in Nat /\ b \in 0 .. l /\ dst[b] = 0 /\ FreshFrom(t, a, b, p)

(* The bytes of such a region.                                              *)
LEMMA Looked ==
    ASSUME NEW l, NEW t, NEW a, NEW b, NEW p, Looking(l, t, a, b, p)
    PROVE  /\ l \in Nat /\ a \in Nat /\ b \in 0 .. l /\ b \in Nat /\ p \in a .. b /\ p \in 0 .. l /\ p \in Nat
           /\ Buf(dst, l) /\ dst[b] = 0 /\ (p = a \/ IsSep(t, p - 1)) /\ 0 \notin Byteset(sep[t])
           /\ \A k \in p .. b - 1 : dst[k] = dst0[k] /\ dst[k] # 0 /\ (IsSep(t, k) <=> dst[k] \in Byteset(sep[t]))
<1>1. /\ Str(dst0, l) /\ Buf(dst, l) /\ a \in Nat /\ b \in 0 .. l /\ dst[b] = 0
      /\ p \in a .. b /\ (p = a \/ IsSep(t, p - 1))
      /\ \A k \in p .. b - 1 : dst[k] = dst0[k]
  BY ONLY Looking(l, t, a, b, p) DEF Looking, Cuts, FreshFrom
<1>2. PICK q \in Nat : Str(sep[t], q)
  BY ONLY Looking(l, t, a, b, p) DEF Looking
<1>3. Byteset(sep[t]) \subseteq 1 .. 255
  BY ONLY <1>2, BytesetIs
<1>4. l \in Nat /\ \A k \in 0 .. l - 1 : dst0[k] # 0
  BY ONLY <1>1 DEF Str, Nul
<1>5. p \in 0 .. l /\ p \in Nat /\ b \in Nat /\ \A k \in p .. b - 1 : k \in 0 .. l - 1
  BY ONLY <1>1, <1>4
<1>6. \A k \in p .. b - 1 : dst[k] # 0 /\ (IsSep(t, k) <=> dst[k] \in Byteset(sep[t]))
  BY ONLY <1>1, <1>4, <1>5 DEF IsSep
<1>7. 0 \notin Byteset(sep[t])
  BY ONLY <1>3
<1> QED BY ONLY <1>1, <1>4, <1>5, <1>6, <1>7

(* A token that begins at x is cut where it ends.                           *)
LEMMA CutFrom ==
    ASSUME NEW l, NEW t, NEW a, NEW b, NEW p, Looking(l, t, a, b, p), NEW x \in p .. b
    PROVE  LET e == EndOf(t, x, b)
               out == T!CutAt(dst, x, x + T!strcspn(dst, x, sep[t]))
           IN  /\ out.r = x
               /\ IF e < b THEN out.p = e + 1 /\ IsSep(t, e) /\ out.m = [dst EXCEPT ![e] = 0]
                           ELSE out.p = NULL /\ out.m = dst
<1>1. /\ l \in Nat /\ b \in 0 .. l /\ b \in Nat /\ p \in Nat
      /\ Buf(dst, l) /\ dst[b] = 0
      /\ \A k \in p .. b - 1 : dst[k] # 0 /\ (IsSep(t, k) <=> dst[k] \in Byteset(sep[t]))
  BY ONLY Looked, Looking(l, t, a, b, p)
<1>2. PICK q \in Nat : Str(sep[t], q)
  BY ONLY Looking(l, t, a, b, p) DEF Looking
<1>3. PICK e : e = x + T!strcspn(dst, x, sep[t])
  OBVIOUS
<1>4. x \in 0 .. l /\ x \in Nat
  BY ONLY <1>1, x \in p .. b
<1>5. /\ e \in x .. l /\ (dst[e] = 0 \/ dst[e] \in Byteset(sep[t]))
      /\ \A k \in x .. e - 1 : dst[k] # 0 /\ dst[k] \notin Byteset(sep[t])
  <2>1. e = x + strcspn(dst, x, sep[t])
    BY ONLY <1>3, SameScans
  <2> QED BY ONLY <1>1, <1>2, <1>4, <2>1, strcspnIs
<1>6. e \in x .. b
  <2>1. ASSUME b < e PROVE FALSE
    <3>1. b \in x .. e - 1
      BY ONLY <1>1, <1>4, <1>5, <2>1, x \in p .. b
    <3> QED BY ONLY <1>1, <1>5, <3>1
  <2> QED BY ONLY <1>1, <1>4, <1>5, <2>1
<1>7. (e < b => dst[e] # 0 /\ IsSep(t, e)) /\ (~(e < b) => e = b /\ dst[e] = 0)
  <2>1. e < b => e \in p .. b - 1
    BY ONLY <1>1, <1>6, x \in p .. b
  <2>2. ~(e < b) => e = b
    BY ONLY <1>1, <1>4, <1>6
  <2> QED BY ONLY <1>1, <1>5, <2>1, <2>2
<1>8. EndOf(t, x, b) = e
  <2>1. e = b \/ IsSep(t, e)
    BY ONLY <1>7
  <2>2. \A k \in x .. e - 1 : k \in p .. b - 1
    BY ONLY <1>1, <1>4, <1>6, x \in p .. b
  <2>3. \A k \in x .. e - 1 : ~IsSep(t, k)
    BY ONLY <1>1, <1>5, <2>2
  <2> QED BY ONLY <1>1, <1>4, <1>6, <2>1, <2>3, EndUnique
<1> DEFINE out == T!CutAt(dst, x, e)
<1>9. out = IF dst[e] # 0 THEN [r |-> x, p |-> e + 1, m |-> [dst EXCEPT ![e] = 0]]
                          ELSE [r |-> x, p |-> NULL, m |-> dst]
  BY ONLY DEF T!CutAt, T!Cut, T!Nul, T!NULL, NULL
<1>10. out.r = x /\ IF dst[e] # 0 THEN out.p = e + 1 /\ out.m = [dst EXCEPT ![e] = 0]
                                  ELSE out.p = NULL /\ out.m = dst
  <2> HIDE DEF out
  <2> QED BY ONLY <1>9
<1>11. out.r = x /\ IF e < b THEN out.p = e + 1 /\ IsSep(t, e) /\ out.m = [dst EXCEPT ![e] = 0]
                             ELSE out.p = NULL /\ out.m = dst
  <2> HIDE DEF out
  <2> QED BY ONLY <1>7, <1>10
<1> QED BY ONLY <1>3, <1>8, <1>11

(* strsep's token begins at once.                                           *)
LEMMA strsepOut ==
    ASSUME NEW l, NEW t, NEW a, NEW b, NEW p, Looking(l, t, a, b, p), api[t] = "strsep"
    PROVE  CutOut(T!strsep(dst, p, sep[t]), t, a, b, p)
<1>1. a \in Nat /\ b \in Nat /\ p \in a .. b /\ p \in Nat /\ (p = a \/ IsSep(t, p - 1))
  BY ONLY Looked, Looking(l, t, a, b, p)
<1> DEFINE out == T!strsep(dst, p, sep[t])
           e == EndOf(t, p, b)
<1>2. p # NULL /\ p \in p .. b
  BY ONLY <1>1 DEF NULL
<1>3. out = T!CutAt(dst, p, p + T!strcspn(dst, p, sep[t]))
  BY ONLY <1>2 DEF T!strsep, T!NULL, NULL
<1>4. out.r = p /\ IF e < b THEN out.p = e + 1 /\ IsSep(t, e) /\ out.m = [dst EXCEPT ![e] = 0]
                            ELSE out.p = NULL /\ out.m = dst
  <2> DEFINE w == T!CutAt(dst, p, p + T!strcspn(dst, p, sep[t]))
  <2>1. w.r = p /\ IF e < b THEN w.p = e + 1 /\ IsSep(t, e) /\ w.m = [dst EXCEPT ![e] = 0]
                            ELSE w.p = NULL /\ w.m = dst
    BY ONLY <1>2, CutFrom, Looking(l, t, a, b, p)
  <2> HIDE DEF w, out, e
  <2>2. out = w
    BY ONLY <1>3 DEF w
  <2> QED BY ONLY <2>1, <2>2
<1>5. StartSet(t, a, b) = {a} \cup {k \in a + 1 .. b : IsSep(t, k - 1)}
  BY ONLY api[t] = "strsep" DEF StartSet
<1>6. e \in p .. b /\ \A k \in p .. e - 1 : ~IsSep(t, k)
  BY ONLY <1>1, EndIs
<1> HIDE DEF out, e
<1>7. p \in StartSet(t, a, b)
  <2>1. p = a \/ p \in a + 1 .. b
    BY ONLY <1>1
  <2> QED BY ONLY <1>1, <1>5, <2>1
<1>8. ASSUME NEW k \in StartSet(t, a, b) PROVE k < p \/ k = p \/ k > e
  <2>1. CASE k = a
    BY ONLY <1>1, <2>1
  <2>2. CASE k \in a + 1 .. b /\ IsSep(t, k - 1)
    <3>1. ~(k - 1 \in p .. e - 1)
      BY ONLY <1>6, <2>2
    <3> QED BY ONLY <1>1, <1>6, <2>2, <3>1
  <2> QED BY ONLY <1>5, <1>8, <2>1, <2>2
<1>9. CutOut(out, t, a, b, p)
  BY ONLY <1>2, <1>4, <1>7, <1>8 DEF CutOut, e
<1> QED BY ONLY <1>9 DEF out

(* strtok_r skips the separators, and may find nothing else.                *)
LEMMA strtokOut ==
    ASSUME NEW l, NEW t, NEW a, NEW b, NEW p, Looking(l, t, a, b, p), api[t] # "strsep",
           NEW s0, NEW p0, p = IF s0 = NULL THEN p0 ELSE s0
    PROVE  CutOut(T!strtok_r(dst, s0, sep[t], p0), t, a, b, p)
<1>1. /\ l \in Nat /\ a \in Nat /\ b \in 0 .. l /\ b \in Nat /\ p \in a .. b /\ p \in 0 .. l /\ p \in Nat
      /\ Buf(dst, l) /\ dst[b] = 0 /\ (p = a \/ IsSep(t, p - 1)) /\ 0 \notin Byteset(sep[t])
      /\ \A k \in p .. b - 1 : dst[k] # 0 /\ (IsSep(t, k) <=> dst[k] \in Byteset(sep[t]))
  BY ONLY Looked, Looking(l, t, a, b, p)
<1>2. PICK q \in Nat : Str(sep[t], q)
  BY ONLY Looking(l, t, a, b, p) DEF Looking
<1>3. PICK x : x = p + T!strspn(dst, p, sep[t])
  OBVIOUS
<1>4. x \in p .. l /\ dst[x] \notin Byteset(sep[t]) /\ \A k \in p .. x - 1 : dst[k] \in Byteset(sep[t])
  <2>1. x = p + strspn(dst, p, sep[t])
    BY ONLY <1>3, SameScans
  <2> QED BY ONLY <1>1, <1>2, <2>1, strspnIs
<1>5. x \in p .. b
  <2>1. ASSUME b < x PROVE FALSE
    <3>1. b \in p .. x - 1
      BY ONLY <1>1, <1>4, <2>1
    <3> QED BY ONLY <1>1, <1>4, <3>1
  <2> QED BY ONLY <1>1, <1>4, <2>1
<1>6. \A k \in p .. x - 1 : k \in p .. b - 1 /\ IsSep(t, k)
  <2>1. \A k \in p .. x - 1 : k \in p .. b - 1
    BY ONLY <1>1, <1>5
  <2> QED BY ONLY <1>1, <1>4, <2>1
<1>7. StartSet(t, a, b) = {k \in a .. b - 1 : ~IsSep(t, k) /\ (k = a \/ IsSep(t, k - 1))}
  BY ONLY api[t] # "strsep" DEF StartSet
<1>8. p # NULL
  BY ONLY <1>1 DEF NULL
<1> DEFINE out == T!strtok_r(dst, s0, sep[t], p0)
<1>9. out = IF dst[x] = 0 THEN [r |-> NULL, p |-> NULL, m |-> dst]
                          ELSE T!CutAt(dst, x, x + T!strcspn(dst, x, sep[t]))
  BY ONLY <1>3, <1>8, p = IF s0 = NULL THEN p0 ELSE s0
     DEF T!strtok_r, T!Cut, T!Nul, T!NULL, NULL
<1>10. CASE x = b
  <2>1. dst[x] = 0
    BY ONLY <1>1, <1>10
  <2>2. out.r = NULL /\ out.p = NULL /\ out.m = dst
    <3>1. out = [r |-> NULL, p |-> NULL, m |-> dst]
      BY ONLY <1>9, <2>1
    <3> HIDE DEF out
    <3> QED BY ONLY <3>1
  <2>3. ASSUME NEW k \in StartSet(t, a, b) PROVE k < p
    <3>1. k \in a .. b - 1 /\ ~IsSep(t, k)
      BY ONLY <1>7, <2>3
    <3>2. ~(k \in p .. x - 1)
      BY ONLY <1>6, <3>1
    <3> QED BY ONLY <1>1, <1>10, <3>1, <3>2
  <2> HIDE DEF out
  <2>4. CutOut(out, t, a, b, p)
    BY ONLY <2>2, <2>3 DEF CutOut
  <2> QED BY ONLY <2>4 DEF out
<1>11. CASE x # b
  <2>1. x \in p .. b - 1 /\ x \in Nat
    BY ONLY <1>1, <1>5, <1>11
  <2>2. dst[x] # 0 /\ ~IsSep(t, x)
    BY ONLY <1>1, <1>4, <2>1
  <2> DEFINE e == EndOf(t, x, b)
  <2>3. out = T!CutAt(dst, x, x + T!strcspn(dst, x, sep[t]))
    BY ONLY <1>9, <2>2
  <2>4. out.r = x /\ IF e < b THEN out.p = e + 1 /\ IsSep(t, e) /\ out.m = [dst EXCEPT ![e] = 0]
                              ELSE out.p = NULL /\ out.m = dst
    BY ONLY <1>5, <2>3, CutFrom, Looking(l, t, a, b, p)
  <2>5. e \in x .. b /\ \A k \in x .. e - 1 : ~IsSep(t, k)
    <3>1. x <= b
      BY ONLY <1>1, <1>5
    <3> QED BY ONLY <1>1, <2>1, <3>1, EndIs
  <2>6. e = b \/ IsSep(t, e)
    <3>1. x <= b
      BY ONLY <1>1, <1>5
    <3> QED BY ONLY <1>1, <2>1, <3>1, EndIs
  <2> HIDE DEF out, e
  <2>7. x \in StartSet(t, a, b)
    <3>1. x = a \/ IsSep(t, x - 1)
      <4>1. CASE x = p
        BY ONLY <1>1, <4>1
      <4>2. CASE x # p
        <5>1. x - 1 \in p .. x - 1
          BY ONLY <1>1, <2>1, <4>2
        <5> QED BY ONLY <1>6, <5>1
      <4> QED BY ONLY <4>1, <4>2
    <3>2. x \in a .. b - 1
      BY ONLY <1>1, <2>1
    <3> QED BY ONLY <1>7, <2>2, <3>1, <3>2
  <2>8. ASSUME NEW k \in StartSet(t, a, b) PROVE k < p \/ k = x \/ k > e
    <3>1. k \in a .. b - 1 /\ ~IsSep(t, k) /\ (k = a \/ IsSep(t, k - 1))
      BY ONLY <1>7, <2>8
    <3>2. ~(k \in p .. x - 1)
      BY ONLY <1>6, <3>1
    <3>3. ~(k - 1 \in x .. e - 1) \/ k = a
      BY ONLY <2>5, <3>1
    <3> QED BY ONLY <1>1, <2>1, <2>5, <3>1, <3>2, <3>3
  <2>9. CutOut(out, t, a, b, p)
    BY ONLY <1>5, <2>4, <2>7, <2>8 DEF CutOut, e
  <2> QED BY ONLY <2>9 DEF out
<1> QED BY ONLY <1>10, <1>11

-----------------------------------------------------------------------------
(* What a call on stream t that gave out leaves, with the list g before it. *)
Left(t, out, g) ==
    /\ dst' = out.m /\ Pos(t)' = out.p
    /\ got'[t] = (IF out.r = NULL THEN g ELSE Append(g, out.r))
    /\ ended'[t] = (out.r = NULL)
    /\ dst0' = dst0 /\ api' = api /\ sep' = sep

OtherKept(q) == Pos(q)' = Pos(q) /\ got'[q] = got[q] /\ ended'[q] = ended[q]

ApiOut(t, s0) ==
    IF api[t] = "strsep" THEN T!strsep(dst, IF s0 = NULL THEN Pos(t) ELSE s0, sep[t])
                         ELSE T!strtok_r(dst, s0, sep[t], Pos(t))

(* Each of the three calls keeps its position where the caller or strtok's  *)
(* static has it, and leaves the other stream's alone.                      *)
LEMMA ApiCall ==
    ASSUME TokenTypes, NEW t \in T!Streams, NEW q \in T!Streams, q # t, NEW s0, NEW g,
           T!CallApi(t, s0, g)
    PROVE  /\ Left(t, ApiOut(t, s0), g) /\ OtherKept(q)
           /\ DOMAIN save' = T!Streams /\ DOMAIN got' = T!Streams
           /\ ended' \in [T!Streams -> BOOLEAN]
<1>1. /\ api[t] \in {"strtok", "strtok_r", "strsep"} /\ (api[t] # "strtok" \/ api[q] # "strtok")
      /\ DOMAIN save = T!Streams /\ DOMAIN got = T!Streams /\ ended \in [T!Streams -> BOOLEAN]
  <2>1. {t, q} = {"outer", "inner"}
    BY DEF T!Streams
  <2> QED BY ONLY TokenTypes, <2>1, t \in T!Streams DEF TokenTypes
<1>2. PICK out : out = ApiOut(t, s0)
  OBVIOUS
<1>3. CASE api[t] = "strtok"
  <2>1. T!TakeHidden(t, T!strtok_r(dst, s0, sep[t], STRTOK_STATE), g)
    BY ONLY <1>3, T!CallApi(t, s0, g) DEF T!CallApi
  <2>2. out = T!strtok_r(dst, s0, sep[t], STRTOK_STATE)
    BY ONLY <1>2, <1>3 DEF ApiOut, Pos
  <2>3. T!TakeHidden(t, out, g)
    BY ONLY <2>1, <2>2
  <2>4. /\ STRTOK_STATE' = out.p /\ dst' = out.m /\ save' = save
        /\ dst0' = dst0 /\ api' = api /\ sep' = sep
        /\ got' = [got EXCEPT ![t] = IF out.r = NULL THEN g ELSE Append(g, out.r)]
        /\ ended' = [ended EXCEPT ![t] = (out.r = NULL)]
    BY ONLY <2>3 DEF T!TakeHidden, T!Note, T!args, T!NULL, NULL
  <2>5. Pos(t)' = out.p /\ Pos(q)' = Pos(q)
    BY ONLY <1>1, <1>3, <2>4 DEF Pos
  <2>6. /\ got'[t] = (IF out.r = NULL THEN g ELSE Append(g, out.r)) /\ got'[q] = got[q]
        /\ DOMAIN got' = T!Streams
    BY ONLY <1>1, <2>4, t \in T!Streams, q \in T!Streams, q # t
  <2>7. ended'[t] = (out.r = NULL) /\ ended'[q] = ended[q] /\ ended' \in [T!Streams -> BOOLEAN]
    BY ONLY <1>1, <2>4, t \in T!Streams, q \in T!Streams, q # t
  <2>8. Left(t, out, g)
    BY ONLY <2>4, <2>5, <2>6, <2>7 DEF Left
  <2>9. OtherKept(q)
    BY ONLY <2>5, <2>6, <2>7 DEF OtherKept
  <2> QED BY ONLY <1>1, <1>2, <2>4, <2>6, <2>7, <2>8, <2>9
<1>4. CASE api[t] # "strtok"
  <2>1. T!Take(t, out, g)
    <3>1. CASE api[t] = "strtok_r"
      <4>1. T!Take(t, T!strtok_r(dst, s0, sep[t], save[t]), g)
        BY ONLY <3>1, T!CallApi(t, s0, g) DEF T!CallApi
      <4>2. out = T!strtok_r(dst, s0, sep[t], save[t])
        BY ONLY <1>2, <3>1 DEF ApiOut, Pos
      <4> QED BY ONLY <4>1, <4>2
    <3>2. CASE api[t] = "strsep"
      <4>1. T!Take(t, T!strsep(dst, IF s0 = T!NULL THEN save[t] ELSE s0, sep[t]), g)
        BY ONLY <3>2, T!CallApi(t, s0, g) DEF T!CallApi
      <4>2. out = T!strsep(dst, IF s0 = T!NULL THEN save[t] ELSE s0, sep[t])
        BY ONLY <1>2, <3>2 DEF ApiOut, Pos, T!NULL, NULL
      <4> QED BY ONLY <4>1, <4>2
    <3> QED BY ONLY <1>1, <1>4, <3>1, <3>2
  <2>2. /\ save' = [save EXCEPT ![t] = out.p] /\ dst' = out.m /\ STRTOK_STATE' = STRTOK_STATE
        /\ dst0' = dst0 /\ api' = api /\ sep' = sep
        /\ got' = [got EXCEPT ![t] = IF out.r = NULL THEN g ELSE Append(g, out.r)]
        /\ ended' = [ended EXCEPT ![t] = (out.r = NULL)]
    BY ONLY <2>1 DEF T!Take, T!Note, T!args, T!NULL, NULL
  <2>3. save'[t] = out.p /\ save'[q] = save[q] /\ DOMAIN save' = T!Streams
    BY ONLY <1>1, <2>2, t \in T!Streams, q \in T!Streams, q # t
  <2>4. Pos(t)' = out.p /\ Pos(q)' = Pos(q)
    BY ONLY <1>4, <2>2, <2>3 DEF Pos
  <2>5. /\ got'[t] = (IF out.r = NULL THEN g ELSE Append(g, out.r)) /\ got'[q] = got[q]
        /\ DOMAIN got' = T!Streams
    BY ONLY <1>1, <2>2, t \in T!Streams, q \in T!Streams, q # t
  <2>6. ended'[t] = (out.r = NULL) /\ ended'[q] = ended[q] /\ ended' \in [T!Streams -> BOOLEAN]
    BY ONLY <1>1, <2>2, t \in T!Streams, q \in T!Streams, q # t
  <2>7. Left(t, out, g)
    BY ONLY <2>2, <2>4, <2>5, <2>6 DEF Left
  <2>8. OtherKept(q)
    BY ONLY <2>4, <2>5, <2>6 DEF OtherKept
  <2> QED BY ONLY <1>1, <1>2, <2>3, <2>5, <2>6, <2>7, <2>8
<1> QED BY ONLY <1>3, <1>4

(* The notions of the string before the first cut do not change.            *)
LEMMA Unmoved ==
    ASSUME dst0' = dst0, api' = api, sep' = sep
    PROVE  /\ \A t, k : IsSep(t, k)' = IsSep(t, k)
           /\ \A t, x, b : EndOf(t, x, b)' = EndOf(t, x, b)
           /\ \A t, a, b : StartSet(t, a, b)' = StartSet(t, a, b)
<1>1. ASSUME NEW t PROVE Byteset(sep[t])' = Byteset(sep[t])
  BY ONLY sep' = sep
<1>2. ASSUME NEW t, NEW k PROVE IsSep(t, k)' = IsSep(t, k)
  BY ONLY <1>1, dst0' = dst0 DEF IsSep
<1>3. ASSUME NEW t, NEW x, NEW b PROVE EndOf(t, x, b)' = EndOf(t, x, b)
  BY ONLY <1>2 DEF EndOf
<1>4. ASSUME NEW t, NEW a, NEW b PROVE StartSet(t, a, b)' = StartSet(t, a, b)
  BY ONLY <1>2, api' = api DEF StartSet
<1> QED BY ONLY <1>2, <1>3, <1>4

(* What a step of stream t may change in the buffer: separators of its own  *)
(* in lo .. hi - 1, which become terminators.                               *)
OnlyCut(l, t, lo, hi) ==
    \A k \in 0 .. l : dst'[k] = dst[k] \/ (k \in lo .. hi - 1 /\ dst'[k] = 0 /\ IsSep(t, k))

(* Nothing changes, or the list grows by a token that begins at p or later  *)
(* and is whole.                                                            *)
Grew(t, b, g, p) ==
    \/ got'[t] = g /\ dst' = dst
    \/ \E x \in Nat : /\ p <= x /\ got'[t] = Append(g, x)
                      /\ \A k \in x .. EndOf(t, x, b) - 1 : dst'[k] = dst0[k]

(* The tokens of a region begin in it, and behind a separator.              *)
LEMMA StartsInside ==
    ASSUME NEW t, NEW a \in Nat, NEW b \in Nat, a <= b, NEW k \in StartSet(t, a, b)
    PROVE  k \in a .. b /\ k \in Nat /\ (k = a \/ IsSep(t, k - 1))
<1>1. CASE api[t] = "strsep"
  BY <1>1 DEF StartSet
<1>2. CASE api[t] # "strsep"
  BY <1>2 DEF StartSet
<1> QED BY ONLY <1>1, <1>2

(* A stream that looked at p and called.                                    *)
LEMMA Advance ==
    ASSUME NEW l, NEW t, NEW a, NEW b, NEW p, Looking(l, t, a, b, p),
           NEW g, TokenList(t, a, b, g), ListedTo(t, a, b, g, p),
           NEW out, CutOut(out, t, a, b, p), Left(t, out, g)
    PROVE  Stream(t, a, b)' /\ OnlyCut(l, t, p, b) /\ Buf(dst, l)' /\ Grew(t, b, g, p)
<1>1. /\ l \in Nat /\ a \in Nat /\ b \in 0 .. l /\ b \in Nat /\ p \in a .. b /\ p \in Nat
      /\ Buf(dst, l) /\ dst[b] = 0
      /\ \A k \in p .. b - 1 : dst[k] = dst0[k]
  BY ONLY Looked, Looking(l, t, a, b, p)
<1>2. /\ dst' = out.m /\ Pos(t)' = out.p
      /\ got'[t] = (IF out.r = NULL THEN g ELSE Append(g, out.r))
      /\ ended'[t] = (out.r = NULL)
      /\ dst0' = dst0 /\ api' = api /\ sep' = sep
  BY ONLY Left(t, out, g) DEF Left
<1>3. /\ g \in Seq(Nat)
      /\ \A x, y \in 1 .. Len(g) : x < y => g[x] < g[y]
      /\ \A x \in 1 .. Len(g) : g[x] \in StartSet(t, a, b) /\ dst[EndOf(t, g[x], b)] = 0
  BY ONLY TokenList(t, a, b, g) DEF TokenList
<1>4. /\ \A x \in 1 .. Len(g) : g[x] < p
      /\ \A k \in StartSet(t, a, b) : k < p => \E x \in 1 .. Len(g) : g[x] = k
  BY ONLY ListedTo(t, a, b, g, p) DEF ListedTo
<1>5. /\ \A v, k : IsSep(v, k)' = IsSep(v, k)
      /\ \A v, x, y : EndOf(v, x, y)' = EndOf(v, x, y)
      /\ \A v, x, y : StartSet(v, x, y)' = StartSet(v, x, y)
  BY ONLY <1>2, Unmoved
<1>6. dst \in [0 .. l -> 0 .. 255] /\ DOMAIN dst = 0 .. l /\ dst[l] = 0
  BY ONLY <1>1 DEF Buf, Nul
<1>7. CASE out.r = NULL /\ out.p = NULL /\ out.m = dst /\ \A k \in StartSet(t, a, b) : k < p
  <2>1. dst' = dst /\ Pos(t)' = NULL /\ got'[t] = g
    BY ONLY <1>2, <1>7
  <2>2. TokenList(t, a, b, got[t])'
    BY ONLY <1>3, <1>5, <2>1 DEF TokenList
  <2>3. \A k \in StartSet(t, a, b)' : \E x \in 1 .. Len(got'[t]) : got'[t][x] = k
    BY ONLY <1>4, <1>5, <1>7, <2>1
  <2>4. Stream(t, a, b)'
    BY ONLY <1>1, <2>1, <2>2, <2>3 DEF Stream
  <2>5. OnlyCut(l, t, p, b)
    BY ONLY <2>1 DEF OnlyCut
  <2>6. Buf(dst, l)'
    BY ONLY <1>1, <2>1 DEF Buf
  <2>7. Grew(t, b, g, p)
    BY ONLY <2>1 DEF Grew
  <2> QED BY ONLY <2>4, <2>5, <2>6, <2>7
<1>8. CASE /\ out.r \in p .. b /\ out.r \in StartSet(t, a, b)
           /\ LET e == EndOf(t, out.r, b)
              IN  /\ \A k \in StartSet(t, a, b) : k < p \/ k = out.r \/ k > e
                  /\ IF e < b THEN out.p = e + 1 /\ IsSep(t, e) /\ out.m = [dst EXCEPT ![e] = 0]
                              ELSE out.p = NULL /\ out.m = dst
  <2>1. PICK x, e : x \in p .. b /\ x = out.r /\ e = EndOf(t, x, b)
    BY ONLY <1>8
  <2>2. /\ x \in StartSet(t, a, b) /\ \A k \in StartSet(t, a, b) : k < p \/ k = x \/ k > e
        /\ e < b => out.p = e + 1 /\ IsSep(t, e) /\ out.m = [dst EXCEPT ![e] = 0]
        /\ ~(e < b) => out.p = NULL /\ out.m = dst
    BY ONLY <1>8, <2>1
  <2>3. x \in Nat /\ x <= b /\ x # NULL
    BY ONLY <1>1, <2>1 DEF NULL
  <2>4. e \in x .. b
    BY ONLY <1>1, <2>1, <2>3, EndIs
  <2>5. e \in Nat /\ e \in 0 .. l /\ p <= x /\ x <= e /\ e <= b
    BY ONLY <1>1, <2>3, <2>4, <2>1
  <2>6. /\ \A k \in 0 .. l : k # e => dst'[k] = dst[k]
        /\ dst'[e] = 0 /\ dst' \in [0 .. l -> 0 .. 255]
    <3>1. CASE e < b
      <4>1. dst' = [dst EXCEPT ![e] = 0] /\ 0 \in 0 .. 255
        BY ONLY <1>2, <2>2, <3>1
      <4> QED BY ONLY <1>6, <2>5, <4>1
    <3>2. CASE ~(e < b)
      <4>1. dst' = dst /\ e = b
        BY ONLY <1>1, <1>2, <2>2, <2>5, <3>2
      <4> QED BY ONLY <1>1, <1>6, <4>1
    <3> QED BY ONLY <3>1, <3>2
  <2>7. \A k \in 0 .. l : dst[k] = 0 => dst'[k] = 0
    BY ONLY <2>6
  <2>8. OnlyCut(l, t, p, b)
    <3>1. e < b => e \in p .. b - 1 /\ IsSep(t, e)
      BY ONLY <2>3, <1>1, <2>2, <2>5
    <3>2. ~(e < b) => dst' = dst
      BY ONLY <1>2, <2>2
    <3> QED BY ONLY <2>6, <3>1, <3>2 DEF OnlyCut
  <2>9. Buf(dst, l)' /\ dst'[b] = 0
    <3>1. l \in 0 .. l
      BY ONLY <1>1
    <3> QED BY ONLY <1>1, <1>6, <2>6, <2>7, <3>1 DEF Buf, Nul
  <2>10. PICK h : h = Append(g, x)
    OBVIOUS
  <2>11. got'[t] = h /\ ended'[t] = FALSE
    BY ONLY <1>2, <2>1, <2>3, <2>10
  <2>12. /\ h \in Seq(Nat) /\ Len(h) = Len(g) + 1 /\ Len(g) \in Nat /\ h[Len(h)] = x
         /\ \A y \in 1 .. Len(g) : h[y] = g[y]
    BY ONLY <1>3, <2>3, <2>10
  <2>13. \A y \in 1 .. Len(h) : y = Len(h) \/ (y \in 1 .. Len(g) /\ h[y] = g[y])
    BY ONLY <2>12
  <2>14. \A y \in 1 .. Len(g) : g[y] \in Nat /\ g[y] < x
    <3>1. \A y \in 1 .. Len(g) : g[y] \in Nat
      BY ONLY <1>3
    <3> QED BY ONLY <1>1, <1>4, <2>3, <2>5, <3>1
  <2>15. \A y, z \in 1 .. Len(h) : y < z => h[y] < h[z]
    <3> TAKE y, z \in 1 .. Len(h)
    <3>1. HAVE y < z
    <3>2. y \in 1 .. Len(g) /\ h[y] = g[y]
      BY ONLY <2>12, <2>13, <3>1, y \in 1 .. Len(h), z \in 1 .. Len(h)
    <3>3. CASE z = Len(h)
      BY ONLY <2>12, <2>14, <3>2, <3>3
    <3>4. CASE z \in 1 .. Len(g) /\ h[z] = g[z]
      BY ONLY <1>3, <3>1, <3>2, <3>4
    <3> QED BY ONLY <2>13, <3>3, <3>4, z \in 1 .. Len(h)
  <2>16. \A y \in 1 .. Len(h) : h[y] \in StartSet(t, a, b) /\ dst'[EndOf(t, h[y], b)] = 0
    <3> TAKE y \in 1 .. Len(h)
    <3>1. CASE y = Len(h)
      BY ONLY <2>1, <2>2, <2>6, <2>12, <3>1
    <3>2. CASE y \in 1 .. Len(g) /\ h[y] = g[y]
      <4>1. g[y] \in StartSet(t, a, b) /\ dst[EndOf(t, g[y], b)] = 0
        BY ONLY <1>3, <3>2
      <4>2. a <= b
        BY ONLY <1>1
      <4>3. g[y] \in a .. b /\ g[y] \in Nat
        BY ONLY <1>1, <4>1, <4>2, StartsInside
      <4>4. g[y] <= b
        BY ONLY <1>1, <4>3
      <4>5. EndOf(t, g[y], b) \in g[y] .. b
        BY ONLY <1>1, <4>3, <4>4, EndIs
      <4>6. EndOf(t, g[y], b) \in 0 .. l
        BY ONLY <1>1, <4>3, <4>5
      <4> QED BY ONLY <2>7, <3>2, <4>1, <4>6
    <3> QED BY ONLY <2>13, <3>1, <3>2, y \in 1 .. Len(h)
  <2>17. TokenList(t, a, b, got[t])'
    BY ONLY <1>5, <2>11, <2>12, <2>15, <2>16 DEF TokenList
  <2>18. \A k \in StartSet(t, a, b) : k < p \/ k = x => \E y \in 1 .. Len(h) : h[y] = k
    <3> TAKE k \in StartSet(t, a, b)
    <3>1. CASE k < p
      <4>1. PICK y \in 1 .. Len(g) : g[y] = k
        BY ONLY <1>4, <3>1, k \in StartSet(t, a, b)
      <4>2. y \in 1 .. Len(h) /\ h[y] = k
        BY ONLY <2>12, <4>1
      <4> QED BY ONLY <4>2
    <3>2. CASE k = x
      <4>1. Len(h) \in 1 .. Len(h) /\ h[Len(h)] = k
        BY ONLY <2>12, <3>2
      <4> QED BY ONLY <4>1
    <3> QED BY ONLY <3>1, <3>2
  <2>g. Grew(t, b, g, p)
    <3>1. \A k \in x .. e - 1 : k \in p .. b - 1 /\ k \in 0 .. l /\ k # e
      BY ONLY <1>1, <2>3, <2>5
    <3>2. \A k \in x .. EndOf(t, x, b) - 1 : dst'[k] = dst0[k]
      BY ONLY <1>1, <2>1, <2>6, <3>1
    <3> QED BY ONLY <2>3, <2>5, <2>10, <2>11, <3>2 DEF Grew
  <2>19. CASE ~(e < b)
    <3>1. Pos(t)' = NULL /\ e = b
      BY ONLY <1>1, <1>2, <2>2, <2>5, <2>19
    <3>2. \A k \in StartSet(t, a, b) : ~(k > e)
      <4> TAKE k \in StartSet(t, a, b)
      <4>1. a <= b
        BY ONLY <1>1
      <4>2. k \in a .. b
        BY ONLY <1>1, <4>1, StartsInside, k \in StartSet(t, a, b)
      <4> QED BY ONLY <1>1, <3>1, <4>2
    <3>3. \A k \in StartSet(t, a, b) : \E y \in 1 .. Len(h) : h[y] = k
      BY ONLY <2>2, <2>18, <3>2
    <3>4. Stream(t, a, b)'
      BY ONLY <1>5, <2>9, <2>11, <2>17, <3>1, <3>3 DEF Stream
    <3> QED BY ONLY <2>8, <2>9, <2>g, <3>4
  <2>20. CASE e < b
    <3>1. Pos(t)' = e + 1 /\ IsSep(t, e) /\ (e + 1) - 1 = e /\ e + 1 # NULL /\ e + 1 # a /\ e + 1 \in a .. b
      BY ONLY <2>3, <1>1, <1>2, <2>2, <2>5, <2>20 DEF NULL
    <3>2. FreshFrom(t, a, b, Pos(t))'
      <4>1. \A k \in e + 1 .. b - 1 : k \in p .. b - 1 /\ k \in 0 .. l /\ k # e
        BY ONLY <2>3, <1>1, <2>5
      <4>2. \A k \in e + 1 .. b - 1 : dst'[k] = dst0[k]
        BY ONLY <1>1, <2>6, <4>1
      <4>3. IsSep(t, Pos(t) - 1)'
        BY ONLY <1>5, <3>1
      <4> QED BY ONLY <1>2, <3>1, <4>2, <4>3 DEF FreshFrom
    <3>3. ListedTo(t, a, b, got[t], Pos(t))'
      <4>1. \A y \in 1 .. Len(h) : h[y] < e + 1
        <5> TAKE y \in 1 .. Len(h)
        <5>1. CASE y = Len(h)
          BY ONLY <2>3, <2>5, <2>12, <5>1
        <5>2. CASE y \in 1 .. Len(g) /\ h[y] = g[y]
          BY ONLY <2>3, <2>5, <2>14, <5>2
        <5> QED BY ONLY <2>13, <5>1, <5>2, y \in 1 .. Len(h)
      <4>2. \A k \in StartSet(t, a, b) : k < e + 1 => \E y \in 1 .. Len(h) : h[y] = k
        <5> TAKE k \in StartSet(t, a, b)
        <5>1. HAVE k < e + 1
        <5>2. a <= b
          BY ONLY <1>1
        <5>3. k \in Nat
          BY ONLY <1>1, <5>2, StartsInside, k \in StartSet(t, a, b)
        <5>4. k < p \/ k = x
          BY ONLY <2>2, <2>5, <5>1, <5>3, k \in StartSet(t, a, b)
        <5> QED BY ONLY <2>18, <5>4, k \in StartSet(t, a, b)
      <4> QED BY ONLY <1>5, <2>11, <3>1, <4>1, <4>2 DEF ListedTo
    <3>4. Stream(t, a, b)'
      BY ONLY <2>9, <2>11, <2>17, <3>1, <3>2, <3>3 DEF Stream
    <3> QED BY ONLY <2>8, <2>9, <2>g, <3>4
  <2> QED BY ONLY <2>19, <2>20
<1> QED BY ONLY <1>7, <1>8, CutOut(out, t, a, b, p) DEF CutOut

(* The call itself, whichever it is.                                        *)
LEMMA CallOut ==
    ASSUME NEW l, NEW t, NEW a, NEW b, NEW s0,
           Looking(l, t, a, b, IF s0 = NULL THEN Pos(t) ELSE s0)
    PROVE  CutOut(ApiOut(t, s0), t, a, b, IF s0 = NULL THEN Pos(t) ELSE s0)
<1>1. PICK p : p = IF s0 = NULL THEN Pos(t) ELSE s0
  OBVIOUS
<1>2. Looking(l, t, a, b, p)
  BY <1>1
<1>3. CASE api[t] = "strsep"
  <2>1. ApiOut(t, s0) = T!strsep(dst, p, sep[t])
    BY ONLY <1>1, <1>3 DEF ApiOut
  <2>2. CutOut(T!strsep(dst, p, sep[t]), t, a, b, p)
    BY ONLY <1>2, <1>3, strsepOut
  <2> QED BY ONLY <1>1, <2>1, <2>2
<1>4. CASE api[t] # "strsep"
  <2>1. ApiOut(t, s0) = T!strtok_r(dst, s0, sep[t], Pos(t))
    BY ONLY <1>4 DEF ApiOut
  <2>2. PICK p0 : p0 = Pos(t)
    OBVIOUS
  <2>3. p = IF s0 = NULL THEN p0 ELSE s0
    BY ONLY <1>1, <2>2
  <2>4. CutOut(T!strtok_r(dst, s0, sep[t], p0), t, a, b, p)
    BY ONLY <1>2, <1>4, <2>3, strtokOut
  <2> QED BY ONLY <1>1, <2>1, <2>2, <2>4
<1> QED BY ONLY <1>3, <1>4

(* A separator set of a stream is a string.                                 *)
LEMMA SepOf ==
    ASSUME TokenTypes, NEW t \in T!Streams PROVE \E q \in Nat : Str(sep[t], q)
<1>1. sep[t] \in Separators
  BY DEF TokenTypes
<1> QED BY ONLY <1>1, SepString

(* A stream starts on an untouched region.                                  *)
LEMMA StartStream ==
    ASSUME TokenTypes, NEW l, Cuts(l), NEW t \in T!Streams, NEW a \in Nat, NEW b \in 0 .. l, a <= b,
           dst[b] = 0, \A k \in a .. b - 1 : dst[k] = dst0[k], Left(t, ApiOut(t, a), <<>>)
    PROVE  Stream(t, a, b)' /\ OnlyCut(l, t, a, b) /\ Buf(dst, l)' /\ Grew(t, b, <<>>, a)
<1>1. l \in Nat
  BY ONLY Cuts(l) DEF Cuts, Buf
<1>2. a # NULL /\ a \in a .. b
  BY ONLY <1>1, a \in Nat, b \in 0 .. l, a <= b DEF NULL
<1>3. FreshFrom(t, a, b, a)
  BY ONLY <1>2, \A k \in a .. b - 1 : dst[k] = dst0[k] DEF FreshFrom
<1>4. \E q \in Nat : Str(sep[t], q)
  BY ONLY SepOf, TokenTypes, t \in T!Streams
<1>5. Looking(l, t, a, b, a)
  BY ONLY <1>3, <1>4, Cuts(l), t \in T!Streams, a \in Nat, b \in 0 .. l, dst[b] = 0 DEF Looking
<1>6. PICK g : g = <<>>
  OBVIOUS
<1>7. g \in Seq(Nat) /\ Len(g) = 0 /\ \A x \in 1 .. Len(g) : FALSE
  BY ONLY <1>6
<1>8. TokenList(t, a, b, g)
  BY ONLY <1>7 DEF TokenList
<1>9. ListedTo(t, a, b, g, a)
  <2>1. ASSUME NEW k \in StartSet(t, a, b) PROVE ~(k < a)
    <3>1. b \in Nat
      BY ONLY <1>1, b \in 0 .. l
    <3>2. k \in a .. b
      BY ONLY <2>1, <3>1, StartsInside, a \in Nat, a <= b
    <3> QED BY ONLY <3>2, a \in Nat
  <2> QED BY ONLY <1>7, <2>1 DEF ListedTo
<1>10. PICK out : out = ApiOut(t, a)
  OBVIOUS
<1>11. CutOut(out, t, a, b, a)
  <2>1. (IF a = NULL THEN Pos(t) ELSE a) = a
    BY ONLY <1>2
  <2>2. CutOut(ApiOut(t, a), t, a, b, IF a = NULL THEN Pos(t) ELSE a)
    BY ONLY <1>5, <2>1, CallOut
  <2> QED BY ONLY <1>10, <2>1, <2>2
<1>12. Left(t, out, g)
  BY ONLY <1>6, <1>10, Left(t, ApiOut(t, a), <<>>)
<1>13. Stream(t, a, b)' /\ OnlyCut(l, t, a, b) /\ Buf(dst, l)' /\ Grew(t, b, g, a)
  BY ONLY <1>5, <1>8, <1>9, <1>11, <1>12, Advance
<1> QED BY ONLY <1>6, <1>13

(* A stream goes on from where it was, or has ended and stays so.           *)
LEMMA ContinueStream ==
    ASSUME TokenTypes, NEW l, Cuts(l), NEW t \in T!Streams, NEW a \in Nat, NEW b \in 0 .. l, a <= b,
           Stream(t, a, b), Left(t, ApiOut(t, NULL), got[t])
    PROVE  /\ Stream(t, a, b)' /\ Buf(dst, l)'
           /\ IF Pos(t) = NULL THEN dst' = dst /\ got'[t] = got[t]
                                ELSE OnlyCut(l, t, Pos(t), b) /\ Grew(t, b, got[t], Pos(t))
<1>1. l \in Nat /\ Buf(dst, l)
  BY ONLY Cuts(l) DEF Cuts, Buf
<1>2. dst[b] = 0 /\ TokenList(t, a, b, got[t])
  BY ONLY Stream(t, a, b) DEF Stream
<1>3. PICK out, g : out = ApiOut(t, NULL) /\ g = got[t]
  OBVIOUS
<1>4. Left(t, out, g)
  BY ONLY <1>3, Left(t, ApiOut(t, NULL), got[t])
<1>5. CASE Pos(t) = NULL
  <2>1. out = [r |-> NULL, p |-> NULL, m |-> dst]
    BY ONLY <1>3, <1>5 DEF ApiOut, T!strsep, T!strtok_r, T!Cut, T!NULL, NULL
  <2>2. out.r = NULL /\ out.p = NULL /\ out.m = dst
    BY ONLY <2>1
  <2>3. /\ dst' = dst /\ Pos(t)' = NULL /\ got'[t] = got[t]
        /\ dst0' = dst0 /\ api' = api /\ sep' = sep
    BY ONLY <1>3, <1>4, <2>2 DEF Left
  <2>4. /\ \A v, x, y : EndOf(v, x, y)' = EndOf(v, x, y)
        /\ \A v, x, y : StartSet(v, x, y)' = StartSet(v, x, y)
    BY ONLY <2>3, Unmoved
  <2>5. TokenList(t, a, b, got[t])'
    BY ONLY <1>2, <2>3, <2>4 DEF TokenList
  <2>6. \A k \in StartSet(t, a, b) : \E x \in 1 .. Len(got[t]) : got[t][x] = k
    BY ONLY <1>5, Stream(t, a, b) DEF Stream
  <2>7. Stream(t, a, b)'
    BY ONLY <1>2, <2>3, <2>4, <2>5, <2>6 DEF Stream
  <2>8. Buf(dst, l)'
    BY ONLY <1>1, <2>3 DEF Buf
  <2> QED BY ONLY <1>5, <2>3, <2>7, <2>8
<1>6. CASE Pos(t) # NULL
  <2>1. PICK p : p = Pos(t)
    OBVIOUS
  <2>2. FreshFrom(t, a, b, p) /\ ListedTo(t, a, b, g, p) /\ TokenList(t, a, b, g)
    BY ONLY <1>2, <1>3, <1>6, <2>1, Stream(t, a, b) DEF Stream
  <2>3. \E q \in Nat : Str(sep[t], q)
    BY ONLY SepOf, TokenTypes, t \in T!Streams
  <2>4. Looking(l, t, a, b, p)
    BY ONLY <1>2, <2>2, <2>3, Cuts(l), t \in T!Streams, a \in Nat, b \in 0 .. l DEF Looking
  <2>5. CutOut(out, t, a, b, p)
    <3>1. PICK s0 : s0 = NULL
      OBVIOUS
    <3>2. (IF s0 = NULL THEN Pos(t) ELSE s0) = p
      BY ONLY <2>1, <3>1
    <3>3. CutOut(ApiOut(t, s0), t, a, b, IF s0 = NULL THEN Pos(t) ELSE s0)
      BY ONLY <2>4, <3>2, CallOut
    <3> QED BY ONLY <1>3, <3>1, <3>2, <3>3
  <2>6. Stream(t, a, b)' /\ OnlyCut(l, t, p, b) /\ Buf(dst, l)' /\ Grew(t, b, g, p)
    BY ONLY <1>4, <2>2, <2>4, <2>5, Advance
  <2> QED BY ONLY <1>3, <1>6, <2>1, <2>6
<1> QED BY ONLY <1>5, <1>6

(* The other stream is not disturbed by a cut outside what it has before    *)
(* it.                                                                      *)
LEMMA KeptStream ==
    ASSUME NEW l \in Nat, NEW q, NEW a \in Nat, NEW b \in 0 .. l, a <= b, Stream(q, a, b),
           OtherKept(q),
           dst0' = dst0, api' = api, sep' = sep,
           \A k \in 0 .. l : dst'[k] = dst[k] \/ (dst'[k] = 0 /\ (Pos(q) = NULL \/ k < Pos(q) \/ k >= b))
    PROVE  Stream(q, a, b)'
<1>1. Pos(q)' = Pos(q) /\ got'[q] = got[q] /\ ended'[q] = ended[q]
  BY ONLY OtherKept(q) DEF OtherKept
<1>2. /\ \A v, k : IsSep(v, k)' = IsSep(v, k)
      /\ \A v, x, y : EndOf(v, x, y)' = EndOf(v, x, y)
      /\ \A v, x, y : StartSet(v, x, y)' = StartSet(v, x, y)
  BY ONLY Unmoved, dst0' = dst0, api' = api, sep' = sep
<1>3. b \in Nat /\ \A k \in 0 .. l : dst[k] = 0 => dst'[k] = 0
  BY ONLY l \in Nat, b \in 0 .. l,
     \A k \in 0 .. l : dst'[k] = dst[k] \/ (dst'[k] = 0 /\ (Pos(q) = NULL \/ k < Pos(q) \/ k >= b))
<1>4. /\ dst[b] = 0
      /\ got[q] \in Seq(Nat)
      /\ \A x, y \in 1 .. Len(got[q]) : x < y => got[q][x] < got[q][y]
      /\ \A x \in 1 .. Len(got[q]) : got[q][x] \in StartSet(q, a, b) /\ dst[EndOf(q, got[q][x], b)] = 0
  BY ONLY Stream(q, a, b) DEF Stream, TokenList
<1>5. dst'[b] = 0
  BY ONLY <1>3, <1>4, b \in 0 .. l
<1>6. \A x \in 1 .. Len(got[q]) : dst'[EndOf(q, got[q][x], b)] = 0
  <2> TAKE x \in 1 .. Len(got[q])
  <2>1. PICK y : y = got[q][x]
    OBVIOUS
  <2>2. y \in StartSet(q, a, b) /\ dst[EndOf(q, y, b)] = 0
    BY ONLY <1>4, <2>1, x \in 1 .. Len(got[q])
  <2>3. y \in a .. b /\ y \in Nat
    BY ONLY <1>3, <2>2, StartsInside, a \in Nat, a <= b
  <2>4. y <= b
    BY ONLY <1>3, <2>3
  <2>5. EndOf(q, y, b) \in y .. b
    BY ONLY <1>3, <2>3, <2>4, EndIs
  <2>6. EndOf(q, y, b) \in 0 .. l
    BY ONLY <2>3, <2>5, l \in Nat, b \in 0 .. l
  <2> QED BY ONLY <1>3, <2>1, <2>2, <2>6
<1>7. TokenList(q, a, b, got[q])'
  BY ONLY <1>1, <1>2, <1>4, <1>6 DEF TokenList
<1>8. CASE Pos(q) = NULL
  <2>1. \A k \in StartSet(q, a, b) : \E x \in 1 .. Len(got[q]) : got[q][x] = k
    BY ONLY <1>8, Stream(q, a, b) DEF Stream
  <2> QED BY ONLY <1>1, <1>2, <1>5, <1>7, <1>8, <2>1 DEF Stream
<1>9. CASE Pos(q) # NULL
  <2>1. PICK p : p = Pos(q)
    OBVIOUS
  <2>2. p # a /\ FreshFrom(q, a, b, p) /\ ListedTo(q, a, b, got[q], p) /\ ~ended[q]
    BY ONLY <1>9, <2>1, Stream(q, a, b) DEF Stream
  <2>3. p \in a .. b /\ (p = a \/ IsSep(q, p - 1)) /\ \A k \in p .. b - 1 : dst[k] = dst0[k]
    BY ONLY <2>2 DEF FreshFrom
  <2>4. \A k \in p .. b - 1 : dst'[k] = dst0[k]
    <3>1. \A k \in p .. b - 1 : k \in 0 .. l /\ ~(k < p) /\ ~(k >= b)
      BY ONLY <1>3, <2>3, l \in Nat, a \in Nat, b \in 0 .. l
    <3>2. \A k \in 0 .. l : dst'[k] = dst[k] \/ k < p \/ k >= b
      BY ONLY <1>9, <2>1,
         \A k \in 0 .. l : dst'[k] = dst[k] \/ (dst'[k] = 0 /\ (Pos(q) = NULL \/ k < Pos(q) \/ k >= b))
    <3> QED BY ONLY <2>3, <3>1, <3>2
  <2>5. Pos(q)' = p
    BY ONLY <1>1, <2>1
  <2>6. FreshFrom(q, a, b, Pos(q))'
    BY ONLY <1>2, <2>3, <2>4, <2>5, dst0' = dst0 DEF FreshFrom
  <2>7. ListedTo(q, a, b, got[q], Pos(q))'
    BY ONLY <1>1, <1>2, <2>2, <2>5 DEF ListedTo
  <2> QED BY ONLY <1>1, <1>5, <1>7, <1>9, <2>1, <2>2, <2>5, <2>6, <2>7 DEF Stream
<1> QED BY ONLY <1>8, <1>9

(* A token ends before the separator that a later position stands behind.   *)
LEMMA EndBefore ==
    ASSUME NEW t, NEW x \in Nat, NEW b \in Nat, NEW p \in Nat, x < p, p <= b, IsSep(t, p - 1)
    PROVE  EndOf(t, x, b) < p
<1>1. x <= b
  OBVIOUS
<1>2. EndOf(t, x, b) \in x .. b /\ \A k \in x .. EndOf(t, x, b) - 1 : ~IsSep(t, k)
  BY ONLY <1>1, EndIs, x \in Nat, b \in Nat
<1>3. ASSUME ~(EndOf(t, x, b) < p) PROVE FALSE
  <2>1. p - 1 \in x .. EndOf(t, x, b) - 1
    BY ONLY <1>2, <1>3, x \in Nat, b \in Nat, p \in Nat, x < p
  <2> QED BY ONLY <1>2, <2>1, IsSep(t, p - 1)
<1> QED BY ONLY <1>3

(* The tokens of the outer stream and where they end.                       *)
LEMMA OuterTokens ==
    ASSUME NEW l \in Nat, Stream("outer", 0, l), NEW x \in 1 .. Len(got["outer"])
    PROVE  LET a == got["outer"][x]
               b == EndOf("outer", a, l)
           IN  /\ a \in Nat /\ b \in 0 .. l /\ a <= b /\ dst[b] = 0
               /\ Pos("outer") = NULL \/ b < Pos("outer")
               /\ \A y \in 1 .. Len(got["outer"]) : x < y => b < got["outer"][y]
<1>1. PICK a, b : a = got["outer"][x] /\ b = EndOf("outer", a, l)
  OBVIOUS
<1>2. /\ got["outer"] \in Seq(Nat)
      /\ \A y, z \in 1 .. Len(got["outer"]) : y < z => got["outer"][y] < got["outer"][z]
      /\ \A y \in 1 .. Len(got["outer"]) :
            got["outer"][y] \in StartSet("outer", 0, l) /\ dst[EndOf("outer", got["outer"][y], l)] = 0
  BY ONLY Stream("outer", 0, l) DEF Stream, TokenList
<1>3. \A y \in 1 .. Len(got["outer"]) :
         /\ got["outer"][y] \in 0 .. l /\ got["outer"][y] \in Nat
         /\ got["outer"][y] = 0 \/ IsSep("outer", got["outer"][y] - 1)
  <2>1. 0 \in Nat /\ 0 <= l
    BY ONLY l \in Nat
  <2> QED BY ONLY <1>2, <2>1, StartsInside, l \in Nat
<1>4. a \in 0 .. l /\ a \in Nat /\ a <= l /\ dst[b] = 0
  <2>1. a \in 0 .. l /\ a \in Nat /\ dst[b] = 0
    BY ONLY <1>1, <1>2, <1>3, x \in 1 .. Len(got["outer"])
  <2> QED BY ONLY <2>1, l \in Nat
<1>5. b \in a .. l
  BY ONLY <1>1, <1>4, EndIs, l \in Nat
<1>6. Pos("outer") = NULL \/ b < Pos("outer")
  <2>1. SUFFICES ASSUME Pos("outer") # NULL PROVE b < Pos("outer")
    OBVIOUS
  <2>2. PICK p : p = Pos("outer")
    OBVIOUS
  <2>3. p # 0 /\ FreshFrom("outer", 0, l, p) /\ ListedTo("outer", 0, l, got["outer"], p)
    BY ONLY <2>1, <2>2, Stream("outer", 0, l) DEF Stream
  <2>4. p \in 0 .. l /\ IsSep("outer", p - 1)
    BY ONLY <2>3 DEF FreshFrom
  <2>5. a < p
    BY ONLY <1>1, <2>3, x \in 1 .. Len(got["outer"]) DEF ListedTo
  <2>6. p \in Nat /\ p <= l
    BY ONLY <2>4, l \in Nat
  <2>7. b < p
    BY ONLY <1>1, <1>4, <2>4, <2>5, <2>6, EndBefore, l \in Nat
  <2> QED BY ONLY <2>2, <2>7
<1>7. ASSUME NEW y \in 1 .. Len(got["outer"]), x < y PROVE b < got["outer"][y]
  <2>1. PICK e : e = got["outer"][y]
    OBVIOUS
  <2>2. e \in 0 .. l /\ e \in Nat /\ (e = 0 \/ IsSep("outer", e - 1))
    BY ONLY <1>3, <1>7, <2>1
  <2>3. a < e
    BY ONLY <1>1, <1>2, <1>7, <2>1, x \in 1 .. Len(got["outer"])
  <2>4. e # 0 /\ e <= l
    BY ONLY <1>4, <2>2, <2>3, l \in Nat
  <2>5. b < e
    BY ONLY <1>1, <1>4, <2>2, <2>3, <2>4, EndBefore, l \in Nat
  <2> QED BY ONLY <2>1, <2>5
<1>8. b \in 0 .. l /\ a <= b
  BY ONLY <1>4, <1>5, l \in Nat
<1> QED BY ONLY <1>1, <1>4, <1>6, <1>7, <1>8

(* The buffer after a cut.                                                  *)
LEMMA CutsKept ==
    ASSUME NEW l, Cuts(l), NEW t \in T!Streams, NEW lo, NEW hi, OnlyCut(l, t, lo, hi), Buf(dst, l)',
           dst0' = dst0, api' = api, sep' = sep
    PROVE  Cuts(l)'
<1>1. \A v, k : IsSep(v, k)' = IsSep(v, k)
  BY ONLY Unmoved, dst0' = dst0, api' = api, sep' = sep
<1>2. Str(dst0, l)'
  BY ONLY Cuts(l), dst0' = dst0 DEF Cuts, Str
<1>3. \A k \in 0 .. l : dst[k] = dst0[k] \/ (dst[k] = 0 /\ \E v \in T!Streams : IsSep(v, k))
  BY ONLY Cuts(l) DEF Cuts
<1>4. \A k \in 0 .. l : dst'[k] = dst[k] \/ (dst'[k] = 0 /\ IsSep(t, k))
  BY ONLY OnlyCut(l, t, lo, hi) DEF OnlyCut
<1>5. \A k \in 0 .. l : dst'[k] = dst0'[k] \/ (dst'[k] = 0 /\ \E v \in T!Streams : IsSep(v, k)')
  BY ONLY <1>1, <1>3, <1>4, dst0' = dst0, t \in T!Streams
<1> QED BY ONLY <1>2, <1>5, Buf(dst, l)' DEF Cuts

(* Nothing was cut.                                                         *)
LEMMA CutNothing ==
    ASSUME NEW l, NEW t, dst' = dst PROVE OnlyCut(l, t, 0, 0)
  BY DEF OnlyCut

(* A step of the tokenizer leaves the rest of the program alone.            *)
Apart == UNCHANGED <<f, pc, readAt, readDst, wroteAt>>

(* The tokenizer's variables keep their domains.                            *)
LEMMA TypesKept ==
    ASSUME TokenTypes, Apart, api' = api, sep' = sep, DOMAIN save' = T!Streams,
           DOMAIN got' = T!Streams,
           ended' \in [T!Streams -> BOOLEAN], DOMAIN region' = T!Streams
    PROVE  TokenTypes'
  BY DEF TokenTypes, Apart

(* The outer stream starts.                                                 *)
LEMMA StartOuterStep ==
    ASSUME NEW l, TokensAt(l), Apart, T!StartOuter PROVE TokensAt(l)'
<1>1. TokenTypes /\ Cuts(l) /\ OuterAt(l) /\ InnerAt(l)
  BY ONLY TokensAt(l) DEF TokensAt
<1>2. Buf(dst, l) /\ Str(dst0, l)
  BY ONLY <1>1 DEF Cuts
<1>3. l \in Nat /\ Size(dst) = l + 1 /\ dst[l] = 0 /\ Size(dst) - 1 = l
  <2>1. l \in Nat /\ Size(dst) = l + 1 /\ dst[l] = 0
    BY ONLY <1>2, BufRead
  <2> QED BY ONLY <2>1
<1>4. /\ region["outer"] = <<>> /\ region' = [region EXCEPT !["outer"] = <<0, l>>]
      /\ T!CallApi("outer", 0, <<>>)
  BY ONLY <1>3, T!StartOuter DEF T!StartOuter
<1>5. got["outer"] = <<>> /\ dst = dst0
  BY ONLY <1>1, <1>4 DEF OuterAt
<1>6. region["inner"] = <<>> /\ got["inner"] = <<>>
  <2>1. 1 .. Len(got["outer"]) = {}
    BY ONLY <1>5
  <2> QED BY ONLY <1>1, <2>1 DEF InnerAt
<1>7. "outer" \in T!Streams /\ "inner" \in T!Streams /\ "inner" # "outer"
  BY ONLY DEF T!Streams
<1>8. /\ Left("outer", ApiOut("outer", 0), <<>>) /\ OtherKept("inner")
      /\ DOMAIN save' = T!Streams /\ DOMAIN got' = T!Streams /\ ended' \in [T!Streams -> BOOLEAN]
  BY ONLY <1>1, <1>4, <1>7, ApiCall
<1>9. dst0' = dst0 /\ api' = api /\ sep' = sep /\ got'["inner"] = got["inner"]
  BY ONLY <1>8 DEF Left, OtherKept
<1>10. 0 \in Nat /\ l \in 0 .. l /\ 0 <= l
  BY ONLY <1>3
<1>11. \A k \in 0 .. l - 1 : dst[k] = dst0[k]
  BY ONLY <1>5
<1>12. /\ Stream("outer", 0, l)' /\ OnlyCut(l, "outer", 0, l) /\ Buf(dst, l)'
       /\ Grew("outer", l, <<>>, 0)
  BY ONLY <1>1, <1>3, <1>7, <1>8, <1>10, <1>11, StartStream
<1>13. region'["outer"] = <<0, l>> /\ region'["inner"] = <<>> /\ DOMAIN region' = T!Streams
  <2>1. DOMAIN region = T!Streams
    BY ONLY <1>1 DEF TokenTypes
  <2> QED BY ONLY <1>4, <1>6, <1>7, <2>1
<1>14. TokenTypes'
  BY ONLY <1>1, <1>8, <1>9, <1>13, Apart, TypesKept
<1>15. Cuts(l)'
  BY ONLY <1>1, <1>7, <1>9, <1>12, CutsKept
<1>16. OuterAt(l)'
  BY ONLY <1>12, <1>13 DEF OuterAt
<1>17. InnerAt(l)'
  BY ONLY <1>6, <1>9, <1>13 DEF InnerAt
<1>18. LastWhole(l)'
  <2>1. CASE got'["outer"] = <<>>
    <3>1. ~(Len(got'["outer"]) > 0)
      BY ONLY <2>1
    <3> QED BY ONLY <3>1 DEF LastWhole
  <2>2. CASE got'["outer"] # <<>>
    <3>1. PICK x \in Nat : /\ got'["outer"] = Append(<<>>, x)
                           /\ \A k \in x .. EndOf("outer", x, l) - 1 : dst'[k] = dst0[k]
      BY ONLY <1>12, <2>2 DEF Grew
    <3>2. got'["outer"][Len(got'["outer"])] = x
      BY ONLY <3>1
    <3>3. EndOf("outer", x, l)' = EndOf("outer", x, l)
      BY ONLY <1>9, Unmoved
    <3> QED BY ONLY <1>9, <3>1, <3>2, <3>3 DEF LastWhole
  <2> QED BY ONLY <2>1, <2>2
<1> QED BY ONLY <1>14, <1>15, <1>16, <1>17, <1>18 DEF TokensAt

(* The outer stream goes on: what the inner one has before it lies in front *)
(* of the outer position.                                                   *)
LEMMA ContinueOuterStep ==
    ASSUME NEW l, TokensAt(l), Apart, T!Continue("outer") PROVE TokensAt(l)'
<1>1. TokenTypes /\ Cuts(l) /\ OuterAt(l) /\ InnerAt(l) /\ LastWhole(l)
  BY ONLY TokensAt(l) DEF TokensAt
<1>2. Buf(dst, l) /\ l \in Nat
  BY ONLY <1>1 DEF Cuts, Buf
<1>3. region["outer"] # <<>> /\ region' = region /\ T!CallApi("outer", NULL, got["outer"])
  BY ONLY T!Continue("outer") DEF T!Continue, T!NULL, NULL
<1>4. region["outer"] = <<0, l>> /\ Stream("outer", 0, l)
  BY ONLY <1>1, <1>3 DEF OuterAt
<1>5. "outer" \in T!Streams /\ "inner" \in T!Streams /\ "inner" # "outer"
  BY ONLY DEF T!Streams
<1>6. /\ Left("outer", ApiOut("outer", NULL), got["outer"]) /\ OtherKept("inner")
      /\ DOMAIN save' = T!Streams /\ DOMAIN got' = T!Streams /\ ended' \in [T!Streams -> BOOLEAN]
  BY ONLY <1>1, <1>3, <1>5, ApiCall
<1>7. dst0' = dst0 /\ api' = api /\ sep' = sep /\ got'["inner"] = got["inner"]
  BY ONLY <1>6 DEF Left, OtherKept
<1>8. 0 \in Nat /\ l \in 0 .. l /\ 0 <= l
  BY ONLY <1>2
<1>9. /\ Stream("outer", 0, l)' /\ Buf(dst, l)'
      /\ IF Pos("outer") = NULL
           THEN dst' = dst /\ got'["outer"] = got["outer"]
           ELSE OnlyCut(l, "outer", Pos("outer"), l) /\ Grew("outer", l, got["outer"], Pos("outer"))
  BY ONLY <1>1, <1>4, <1>5, <1>6, <1>8, ContinueStream
<1>10. DOMAIN region' = T!Streams
  BY ONLY <1>1, <1>3 DEF TokenTypes
<1>11. TokenTypes'
  BY ONLY <1>1, <1>6, <1>7, <1>10, Apart, TypesKept
<1>12. Cuts(l)'
  <2>1. CASE Pos("outer") = NULL
    BY ONLY <1>1, <1>5, <1>7, <1>9, <2>1, CutNothing, CutsKept
  <2>2. CASE Pos("outer") # NULL
    BY ONLY <1>1, <1>5, <1>7, <1>9, <2>2, CutsKept
  <2> QED BY ONLY <2>1, <2>2
<1>13. OuterAt(l)'
  BY ONLY <1>3, <1>4, <1>9 DEF OuterAt
<1>14. got["outer"] \in Seq(Nat)
  BY ONLY <1>4 DEF Stream, TokenList
<1>15. \/ got'["outer"] = got["outer"] /\ dst' = dst
       \/ \E x \in Nat : /\ got'["outer"] = Append(got["outer"], x)
                         /\ \A k \in x .. EndOf("outer", x, l) - 1 : dst'[k] = dst0[k]
  BY ONLY <1>9 DEF Grew
<1>16. \A x \in 1 .. Len(got["outer"]) :
          x \in 1 .. Len(got'["outer"]) /\ got'["outer"][x] = got["outer"][x]
  <2>1. CASE got'["outer"] = got["outer"]
    BY ONLY <2>1
  <2>2. CASE \E x \in Nat : got'["outer"] = Append(got["outer"], x)
    BY ONLY <1>14, <2>2
  <2> QED BY ONLY <1>15, <2>1, <2>2
<1>17. \A v, x, y : EndOf(v, x, y)' = EndOf(v, x, y)
  BY ONLY <1>7, Unmoved
<1>18. InnerAt(l)'
  <2>1. CASE region["inner"] = <<>> /\ got["inner"] = <<>>
    BY ONLY <1>3, <1>7, <2>1 DEF InnerAt
  <2>2. CASE \E x \in 1 .. Len(got["outer"]) :
                LET a == got["outer"][x]
                    b == EndOf("outer", a, l)
                IN  region["inner"] = <<a, b>> /\ Stream("inner", a, b)
    <3>1. PICK x, a, b :
             /\ x \in 1 .. Len(got["outer"])
             /\ a = got["outer"][x] /\ b = EndOf("outer", a, l)
             /\ region["inner"] = <<a, b>> /\ Stream("inner", a, b)
      BY ONLY <2>2
    <3>2. a \in Nat /\ b \in 0 .. l /\ a <= b /\ (Pos("outer") = NULL \/ b < Pos("outer"))
      BY ONLY <1>2, <1>4, <3>1, OuterTokens
    <3>3. \A k \in 0 .. l : dst'[k] = dst[k]
             \/ (dst'[k] = 0 /\ (Pos("inner") = NULL \/ k < Pos("inner") \/ k >= b))
      <4>1. CASE Pos("outer") = NULL
        BY ONLY <1>9, <4>1
      <4>2. CASE Pos("outer") # NULL
        <5>1. PICK p : p = Pos("outer")
          OBVIOUS
        <5>2. p \in 0 .. l
          BY ONLY <1>4, <4>2, <5>1 DEF Stream, FreshFrom
        <5>3. \A k \in 0 .. l : dst'[k] = dst[k] \/ (k \in p .. l - 1 /\ dst'[k] = 0)
          BY ONLY <1>9, <4>2, <5>1 DEF OnlyCut
        <5>4. \A k \in p .. l - 1 : k >= b
          BY ONLY <1>2, <3>2, <4>2, <5>1, <5>2
        <5> QED BY ONLY <5>3, <5>4
      <4> QED BY ONLY <4>1, <4>2
    <3>4. Stream("inner", a, b)'
      BY ONLY <1>2, <1>6, <1>7, <3>1, <3>2, <3>3, KeptStream
    <3>5. region'["inner"] = <<a, b>> /\ a = got'["outer"][x] /\ b = EndOf("outer", a, l)'
      BY ONLY <1>3, <1>16, <1>17, <3>1
    <3>6. x \in 1 .. Len(got'["outer"])
      BY ONLY <1>16, <3>1
    <3> QED BY ONLY <3>4, <3>5, <3>6 DEF InnerAt
  <2> QED BY ONLY <1>1, <2>1, <2>2 DEF InnerAt
<1>19. LastWhole(l)'
  <2>1. CASE got'["outer"] = got["outer"] /\ dst' = dst
    BY ONLY <1>1, <1>3, <1>7, <1>17, <2>1 DEF LastWhole
  <2>2. CASE \E x \in Nat : /\ got'["outer"] = Append(got["outer"], x)
                            /\ \A k \in x .. EndOf("outer", x, l) - 1 : dst'[k] = dst0[k]
    <3>1. PICK x \in Nat : /\ got'["outer"] = Append(got["outer"], x)
                           /\ \A k \in x .. EndOf("outer", x, l) - 1 : dst'[k] = dst0[k]
      BY ONLY <2>2
    <3>2. got'["outer"][Len(got'["outer"])] = x
      BY ONLY <1>14, <3>1
    <3> QED BY ONLY <1>7, <1>17, <3>1, <3>2 DEF LastWhole
  <2> QED BY ONLY <1>15, <2>1, <2>2
<1> QED BY ONLY <1>11, <1>12, <1>13, <1>18, <1>19 DEF TokensAt

(* What the inner stream does to its region the outer one does not see.     *)
LEMMA OuterUndisturbed ==
    ASSUME NEW l \in Nat, Stream("outer", 0, l), OtherKept("outer"),
           dst0' = dst0, api' = api, sep' = sep,
           NEW b \in 0 .. l, Pos("outer") = NULL \/ b < Pos("outer"),
           \A k \in 0 .. l : dst'[k] = dst[k] \/ (dst'[k] = 0 /\ k < b)
    PROVE  Stream("outer", 0, l)'
<1>1. \A k \in 0 .. l : dst'[k] = dst[k]
         \/ (dst'[k] = 0 /\ (Pos("outer") = NULL \/ k < Pos("outer") \/ k >= l))
  <2>1. CASE Pos("outer") = NULL
    BY <2>1
  <2>2. CASE Pos("outer") # NULL
    <3>1. PICK p : p = Pos("outer")
      OBVIOUS
    <3>2. p \in 0 .. l /\ b < p
      BY ONLY <2>2, <3>1, Stream("outer", 0, l), Pos("outer") = NULL \/ b < Pos("outer")
         DEF Stream, FreshFrom
    <3>3. \A k \in 0 .. l : k < b => k < p
      BY ONLY <3>2, l \in Nat, b \in 0 .. l
    <3> QED BY ONLY <3>1, <3>3, \A k \in 0 .. l : dst'[k] = dst[k] \/ (dst'[k] = 0 /\ k < b)
  <2> QED BY ONLY <2>1, <2>2
<1>2. 0 \in Nat /\ l \in 0 .. l /\ 0 <= l
  BY ONLY l \in Nat
<1> QED BY ONLY <1>1, <1>2, KeptStream, l \in Nat, Stream("outer", 0, l), OtherKept("outer"),
                dst0' = dst0, api' = api, sep' = sep

(* The inner stream starts on the token the outer one gave last.            *)
LEMMA StartInnerStep ==
    ASSUME NEW l, TokensAt(l), Apart, T!StartInner PROVE TokensAt(l)'
<1>1. TokenTypes /\ Cuts(l) /\ OuterAt(l) /\ InnerAt(l) /\ LastWhole(l)
  BY ONLY TokensAt(l) DEF TokensAt
<1>2. Buf(dst, l) /\ l \in Nat /\ Size(dst) - 1 = l
  <2>1. Buf(dst, l)
    BY ONLY <1>1 DEF Cuts
  <2>2. l \in Nat /\ Size(dst) = l + 1
    BY ONLY <2>1, BufRead
  <2> QED BY ONLY <2>1, <2>2
<1>3. got["outer"] # <<>>
  BY ONLY T!StartInner DEF T!StartInner
<1>4. region["outer"] = <<0, l>> /\ Stream("outer", 0, l)
  BY ONLY <1>1, <1>3 DEF OuterAt
<1>5. PICK z : z = Len(got["outer"])
  OBVIOUS
<1>6. z \in 1 .. Len(got["outer"]) /\ z > 0
  <2>1. got["outer"] \in Seq(Nat)
    BY ONLY <1>4 DEF Stream, TokenList
  <2> QED BY ONLY <1>3, <1>5, <2>1
<1>7. PICK a, b : a = got["outer"][z] /\ b = EndOf("outer", a, l)
  OBVIOUS
<1>8. a \in Nat /\ b \in 0 .. l /\ a <= b /\ dst[b] = 0 /\ (Pos("outer") = NULL \/ b < Pos("outer"))
  BY ONLY <1>2, <1>4, <1>6, <1>7, OuterTokens
<1>9. T!OuterToken = <<a, b>>
  <2>1. T!OuterToken = <<a, T!Min({k \in a .. l : k = l \/ dst0[k] \in T!Byteset(sep["outer"])})>>
    BY ONLY <1>2, <1>5, <1>7 DEF T!OuterToken
  <2>2. T!Byteset(sep["outer"]) = Byteset(sep["outer"])
    BY ONLY SameScans
  <2>3. b = Min({k \in a .. l : k = l \/ dst0[k] \in Byteset(sep["outer"])})
    BY ONLY <1>7 DEF EndOf, IsSep
  <2>4. \A S : T!Min(S) = Min(S)
    BY ONLY DEF T!Min, Min
  <2> QED BY ONLY <2>1, <2>2, <2>3, <2>4
<1>10. /\ region["inner"] # <<a, b>> /\ region' = [region EXCEPT !["inner"] = <<a, b>>]
       /\ T!CallApi("inner", a, <<>>)
  <2>1. T!OuterToken[1] = a
    BY ONLY <1>9
  <2>2. /\ region["inner"] # T!OuterToken /\ region' = [region EXCEPT !["inner"] = T!OuterToken]
        /\ T!CallApi("inner", T!OuterToken[1], <<>>)
    BY ONLY T!StartInner DEF T!StartInner
  <2> QED BY ONLY <1>9, <2>1, <2>2
<1>11. \A k \in a .. b - 1 : dst[k] = dst0[k]
  BY ONLY <1>1, <1>5, <1>6, <1>7, <1>10 DEF LastWhole
<1>12. "outer" \in T!Streams /\ "inner" \in T!Streams /\ "inner" # "outer"
  BY ONLY DEF T!Streams
<1>13. /\ Left("inner", ApiOut("inner", a), <<>>) /\ OtherKept("outer")
       /\ DOMAIN save' = T!Streams /\ DOMAIN got' = T!Streams /\ ended' \in [T!Streams -> BOOLEAN]
  BY ONLY <1>1, <1>10, <1>12, ApiCall
<1>14. dst0' = dst0 /\ api' = api /\ sep' = sep /\ got'["outer"] = got["outer"]
  BY ONLY <1>13 DEF Left, OtherKept
<1>15. Stream("inner", a, b)' /\ OnlyCut(l, "inner", a, b) /\ Buf(dst, l)'
  BY ONLY <1>1, <1>8, <1>11, <1>12, <1>13, StartStream
<1>16. /\ region'["outer"] = <<0, l>> /\ region'["inner"] = <<a, b>> /\ DOMAIN region' = T!Streams
  <2>1. DOMAIN region = T!Streams
    BY ONLY <1>1 DEF TokenTypes
  <2> QED BY ONLY <1>4, <1>10, <1>12, <2>1
<1>17. TokenTypes'
  BY ONLY <1>1, <1>13, <1>14, <1>16, Apart, TypesKept
<1>18. Cuts(l)'
  BY ONLY <1>1, <1>12, <1>14, <1>15, CutsKept
<1>19. OuterAt(l)'
  <2>1. \A k \in a .. b - 1 : k < b
    BY ONLY <1>2, <1>8
  <2>2. \A k \in 0 .. l : dst'[k] = dst[k] \/ (dst'[k] = 0 /\ k < b)
    BY ONLY <1>15, <2>1 DEF OnlyCut
  <2>3. Stream("outer", 0, l)'
    BY ONLY <1>2, <1>4, <1>8, <1>13, <1>14, <2>2, OuterUndisturbed
  <2> QED BY ONLY <1>16, <2>3 DEF OuterAt
<1>20. EndOf("outer", a, l)' = EndOf("outer", a, l)
  BY ONLY <1>14, Unmoved
<1>21. InnerAt(l)'
  <2>1. z \in 1 .. Len(got'["outer"]) /\ a = got'["outer"][z] /\ b = EndOf("outer", a, l)'
    BY ONLY <1>6, <1>7, <1>14, <1>20
  <2> QED BY ONLY <1>15, <1>16, <2>1 DEF InnerAt
<1>22. LastWhole(l)'
  <2>1. a = got'["outer"][Len(got'["outer"])] /\ b = EndOf("outer", a, l)'
    BY ONLY <1>5, <1>7, <1>14, <1>20
  <2> QED BY ONLY <1>16, <2>1 DEF LastWhole
<1> QED BY ONLY <1>17, <1>18, <1>19, <1>21, <1>22 DEF TokensAt

(* The inner stream goes on: it stays in the token it was started on, and   *)
(* a later token of the outer one lies behind that.                         *)
LEMMA ContinueInnerStep ==
    ASSUME NEW l, TokensAt(l), Apart, T!Continue("inner") PROVE TokensAt(l)'
<1>1. TokenTypes /\ Cuts(l) /\ OuterAt(l) /\ InnerAt(l) /\ LastWhole(l)
  BY ONLY TokensAt(l) DEF TokensAt
<1>2. Buf(dst, l) /\ l \in Nat
  BY ONLY <1>1 DEF Cuts, Buf
<1>3. region["inner"] # <<>> /\ region' = region /\ T!CallApi("inner", NULL, got["inner"])
  BY ONLY T!Continue("inner") DEF T!Continue, T!NULL, NULL
<1>4. PICK x, a, b :
         /\ x \in 1 .. Len(got["outer"])
         /\ a = got["outer"][x] /\ b = EndOf("outer", a, l)
         /\ region["inner"] = <<a, b>> /\ Stream("inner", a, b)
  BY ONLY <1>1, <1>3 DEF InnerAt
<1>5. region["outer"] = <<0, l>> /\ Stream("outer", 0, l)
  <2>1. ASSUME got["outer"] = <<>> PROVE FALSE
    <3>1. 1 .. Len(got["outer"]) = {}
      BY ONLY <2>1
    <3> QED BY ONLY <3>1, <1>4
  <2> QED BY ONLY <1>1, <2>1 DEF OuterAt
<1>6. /\ a \in Nat /\ b \in 0 .. l /\ a <= b /\ (Pos("outer") = NULL \/ b < Pos("outer"))
      /\ \A y \in 1 .. Len(got["outer"]) : x < y => b < got["outer"][y]
  BY ONLY <1>2, <1>4, <1>5, OuterTokens
<1>7. "outer" \in T!Streams /\ "inner" \in T!Streams /\ "inner" # "outer"
  BY ONLY DEF T!Streams
<1>8. /\ Left("inner", ApiOut("inner", NULL), got["inner"]) /\ OtherKept("outer")
      /\ DOMAIN save' = T!Streams /\ DOMAIN got' = T!Streams /\ ended' \in [T!Streams -> BOOLEAN]
  BY ONLY <1>1, <1>3, <1>7, ApiCall
<1>9. dst0' = dst0 /\ api' = api /\ sep' = sep /\ got'["outer"] = got["outer"]
  BY ONLY <1>8 DEF Left, OtherKept
<1>10. /\ Stream("inner", a, b)' /\ Buf(dst, l)'
       /\ IF Pos("inner") = NULL
            THEN dst' = dst /\ got'["inner"] = got["inner"]
            ELSE OnlyCut(l, "inner", Pos("inner"), b) /\ Grew("inner", b, got["inner"], Pos("inner"))
  BY ONLY <1>1, <1>4, <1>6, <1>7, <1>8, ContinueStream
<1>11. DOMAIN region' = T!Streams
  BY ONLY <1>1, <1>3 DEF TokenTypes
<1>12. TokenTypes'
  BY ONLY <1>1, <1>8, <1>9, <1>11, Apart, TypesKept
<1>13. Cuts(l)'
  <2>1. CASE Pos("inner") = NULL
    BY ONLY <1>1, <1>7, <1>9, <1>10, <2>1, CutNothing, CutsKept
  <2>2. CASE Pos("inner") # NULL
    BY ONLY <1>1, <1>7, <1>9, <1>10, <2>2, CutsKept
  <2> QED BY ONLY <2>1, <2>2
<1>14. \A k \in 0 .. l : dst'[k] = dst[k] \/ (dst'[k] = 0 /\ k < b)
  <2>1. CASE Pos("inner") = NULL
    BY ONLY <1>10, <2>1
  <2>2. CASE Pos("inner") # NULL
    <3>1. PICK p : p = Pos("inner")
      OBVIOUS
    <3>2. p \in a .. b
      BY ONLY <1>4, <2>2, <3>1 DEF Stream, FreshFrom
    <3>3. \A k \in p .. b - 1 : k < b
      BY ONLY <1>2, <1>6, <3>2
    <3>4. \A k \in 0 .. l : dst'[k] = dst[k] \/ (k \in p .. b - 1 /\ dst'[k] = 0)
      BY ONLY <1>10, <2>2, <3>1 DEF OnlyCut
    <3> QED BY ONLY <3>3, <3>4
  <2> QED BY ONLY <2>1, <2>2
<1>15. OuterAt(l)'
  <2>1. Stream("outer", 0, l)'
    BY ONLY <1>2, <1>5, <1>6, <1>8, <1>9, <1>14, OuterUndisturbed
  <2> QED BY ONLY <1>3, <1>5, <2>1 DEF OuterAt
<1>16. \A v, y, w : EndOf(v, y, w)' = EndOf(v, y, w)
  BY ONLY <1>9, Unmoved
<1>17. InnerAt(l)'
  <2>1. x \in 1 .. Len(got'["outer"]) /\ a = got'["outer"][x] /\ b = EndOf("outer", a, l)'
    BY ONLY <1>4, <1>9, <1>16
  <2>2. region'["inner"] = <<a, b>>
    BY ONLY <1>3, <1>4
  <2> QED BY ONLY <1>10, <2>1, <2>2 DEF InnerAt
<1>18. LastWhole(l)'
  <2>1. PICK z : z = Len(got["outer"])
    OBVIOUS
  <2>2. PICK v, w : v = got["outer"][z] /\ w = EndOf("outer", v, l)
    OBVIOUS
  <2>3. ASSUME region["inner"] # <<v, w>> PROVE \A k \in v .. w - 1 : dst'[k] = dst0'[k]
    <3>1. x # z
      BY ONLY <1>4, <2>2, <2>3
    <3>2. z \in 1 .. Len(got["outer"]) /\ x < z /\ z > 0
      <4>1. got["outer"] \in Seq(Nat)
        BY ONLY <1>5 DEF Stream, TokenList
      <4>2. z \in Nat
        BY ONLY <2>1, <4>1
      <4> QED BY ONLY <2>1, <3>1, <4>2, <1>4
    <3>3. b < v
      BY ONLY <1>6, <2>2, <3>2
    <3>4. v \in Nat /\ w \in 0 .. l
      BY ONLY <1>2, <1>5, <2>2, <3>2, OuterTokens
    <3>5. \A k \in v .. w - 1 : dst[k] = dst0[k]
      BY ONLY <1>1, <2>1, <2>2, <2>3, <3>2 DEF LastWhole
    <3>6. \A k \in v .. w - 1 : k \in 0 .. l /\ ~(k < b)
      BY ONLY <1>2, <1>6, <3>3, <3>4
    <3> QED BY ONLY <1>9, <1>14, <3>5, <3>6
  <2> QED BY ONLY <1>3, <1>9, <1>16, <2>1, <2>2, <2>3 DEF LastWhole
<1> QED BY ONLY <1>12, <1>13, <1>15, <1>17, <1>18 DEF TokensAt

(* Every step of the tokenizer keeps its invariant.                         *)
LEMMA TokensStep ==
    ASSUME TokensInv, Apart, T!Next PROVE TokensInv'
<1>1. PICK l \in Nat : TokensAt(l)
  BY ONLY TokensInv DEF TokensInv
<1>2. TokensAt(l)'
  <2>1. CASE T!StartOuter
    BY ONLY <1>1, <2>1, Apart, StartOuterStep
  <2>2. CASE T!StartInner
    BY ONLY <1>1, <2>2, Apart, StartInnerStep
  <2>3. CASE T!Continue("outer")
    BY ONLY <1>1, <2>3, Apart, ContinueOuterStep
  <2>4. CASE T!Continue("inner")
    BY ONLY <1>1, <2>4, Apart, ContinueInnerStep
  <2> QED BY ONLY <2>1, <2>2, <2>3, <2>4, T!Next DEF T!Next, T!Streams
<1> QED BY ONLY <1>2 DEF TokensInv

-----------------------------------------------------------------------------
(* Each stream has its region, or has not been started.                     *)
LEMMA StreamOf ==
    ASSUME NEW l, TokensAt(l), NEW t \in T!Streams
    PROVE  \/ region[t] = <<>> /\ got[t] = <<>>
           \/ \E a, b \in Nat : a <= b /\ region[t] = <<a, b>> /\ Stream(t, a, b)
<1>1. Cuts(l) /\ OuterAt(l) /\ InnerAt(l)
  BY ONLY TokensAt(l) DEF TokensAt
<1>2. l \in Nat
  BY ONLY <1>1 DEF Cuts, Buf
<1>3. CASE t = "outer"
  <2>1. 0 \in Nat /\ 0 <= l
    BY ONLY <1>2
  <2> QED BY ONLY <1>1, <1>2, <1>3, <2>1 DEF OuterAt
<1>4. CASE t = "inner"
  <2>1. CASE region["inner"] = <<>> /\ got["inner"] = <<>>
    BY ONLY <1>4, <2>1
  <2>2. CASE \E x \in 1 .. Len(got["outer"]) :
                LET a == got["outer"][x]
                    b == EndOf("outer", a, l)
                IN  region["inner"] = <<a, b>> /\ Stream("inner", a, b)
    <3>1. PICK x, a, b :
             /\ x \in 1 .. Len(got["outer"])
             /\ a = got["outer"][x] /\ b = EndOf("outer", a, l)
             /\ region["inner"] = <<a, b>> /\ Stream("inner", a, b)
      BY ONLY <2>2
    <3>2. Stream("outer", 0, l)
      <4>1. ASSUME got["outer"] = <<>> PROVE FALSE
        <5>1. 1 .. Len(got["outer"]) = {}
          BY ONLY <4>1
        <5> QED BY ONLY <5>1, <3>1
      <4> QED BY ONLY <1>1, <4>1 DEF OuterAt
    <3>3. a \in Nat /\ b \in 0 .. l /\ a <= b
      BY ONLY <1>2, <3>1, <3>2, OuterTokens
    <3>4. b \in Nat
      BY ONLY <1>2, <3>3
    <3> QED BY ONLY <1>4, <3>1, <3>3, <3>4
  <2> QED BY ONLY <1>1, <2>1, <2>2 DEF InnerAt
<1> QED BY ONLY <1>3, <1>4, t \in T!Streams DEF T!Streams

(* A stream's list is the tokens of its region up to the last it gave.      *)
LEMMA ListRight ==
    ASSUME NEW t, NEW a \in Nat, NEW b \in Nat, a <= b, Stream(t, a, b)
    PROVE  {got[t][x] : x \in 1 .. Len(got[t])} =
               {k \in StartSet(t, a, b) :
                   ended[t] \/ (got[t] # <<>> /\ k <= got[t][Len(got[t])])}
<1>1. PICK g : g = got[t]
  OBVIOUS
<1>2. /\ g \in Seq(Nat)
      /\ \A x, y \in 1 .. Len(g) : x < y => g[x] < g[y]
      /\ \A x \in 1 .. Len(g) : g[x] \in StartSet(t, a, b)
  BY ONLY <1>1, Stream(t, a, b) DEF Stream, TokenList
<1>3. Len(g) \in Nat /\ (g # <<>> => Len(g) \in 1 .. Len(g)) /\ \A x \in 1 .. Len(g) : g[x] \in Nat
  BY ONLY <1>2
<1>4. \A x \in 1 .. Len(g) : g # <<>> /\ g[x] <= g[Len(g)]
  <2> TAKE x \in 1 .. Len(g)
  <2>1. Len(g) \in 1 .. Len(g) /\ g # <<>>
    <3>1. ASSUME g = <<>> PROVE FALSE
      <4>1. 1 .. Len(g) = {}
        BY ONLY <3>1
      <4> QED BY ONLY <4>1, x \in 1 .. Len(g)
    <3> QED BY ONLY <1>3, <3>1
  <2>2. CASE x = Len(g)
    BY ONLY <1>3, <2>1, <2>2
  <2>3. CASE x # Len(g)
    <3>1. x < Len(g)
      BY ONLY <1>3, <2>3, x \in 1 .. Len(g)
    <3>2. g[x] < g[Len(g)]
      BY ONLY <1>2, <2>1, <3>1, x \in 1 .. Len(g)
    <3> QED BY ONLY <1>3, <2>1, <3>2, x \in 1 .. Len(g)
  <2> QED BY ONLY <2>2, <2>3
<1>5. ASSUME NEW k \in StartSet(t, a, b), ended[t] \/ (g # <<>> /\ k <= g[Len(g)])
      PROVE  \E x \in 1 .. Len(g) : g[x] = k
  <2>1. CASE Pos(t) = NULL
    BY ONLY <1>1, <1>5, <2>1, Stream(t, a, b) DEF Stream
  <2>2. CASE Pos(t) # NULL
    <3>1. PICK p : p = Pos(t)
      OBVIOUS
    <3>2. FreshFrom(t, a, b, p) /\ ListedTo(t, a, b, g, p) /\ ~ended[t]
      BY ONLY <1>1, <2>2, <3>1, Stream(t, a, b) DEF Stream
    <3>3. p \in a .. b
      BY ONLY <3>2 DEF FreshFrom
    <3>4. g[Len(g)] < p /\ g[Len(g)] \in Nat /\ k <= g[Len(g)]
      BY ONLY <1>3, <1>5, <3>2 DEF ListedTo
    <3>5. k \in Nat
      BY ONLY <1>5, StartsInside, a \in Nat, b \in Nat, a <= b
    <3>6. k < p
      BY ONLY <3>3, <3>4, <3>5, a \in Nat, b \in Nat
    <3> QED BY ONLY <1>5, <3>2, <3>6 DEF ListedTo
  <2> QED BY ONLY <2>1, <2>2
<1>6. {g[x] : x \in 1 .. Len(g)} =
          {k \in StartSet(t, a, b) : ended[t] \/ (g # <<>> /\ k <= g[Len(g)])}
  BY ONLY <1>2, <1>4, <1>5
<1> QED BY ONLY <1>1, <1>6

(* The tokenizer's invariant says what its properties say.                  *)
LEMMA TokensRight ==
    ASSUME TokensInv PROVE T!StreamsIndependent /\ T!TokensIntact
<1>1. PICK l \in Nat : TokensAt(l)
  BY ONLY TokensInv DEF TokensInv
<1>2. Cuts(l)
  BY ONLY <1>1 DEF TokensAt
<1>3. Size(dst) - 1 = l
  <2>1. Size(dst) = l + 1
    BY ONLY <1>2, BufRead DEF Cuts
  <2> QED BY ONLY <2>1, l \in Nat
<1>4. \A p : T!Byteset(p) = Byteset(p)
  BY ONLY SameScans
<1>5. \A S : T!Min(S) = Min(S)
  BY ONLY DEF T!Min, Min
<1>6. T!StreamsIndependent
  <2>1. ASSUME NEW t \in T!Streams, region[t] # <<>>
        PROVE  /\ \A x, y \in 1 .. Len(got[t]) : x < y => got[t][x] < got[t][y]
               /\ {got[t][x] : x \in 1 .. Len(got[t])} =
                     {k \in T!Starts(t) : ended[t] \/ (got[t] # <<>> /\ k <= got[t][Len(got[t])])}
    <3>1. PICK a \in Nat, b \in Nat : a <= b /\ region[t] = <<a, b>> /\ Stream(t, a, b)
      BY ONLY <1>1, <2>1, StreamOf
    <3>2. region[t][1] = a /\ region[t][2] = b
      BY ONLY <3>1
    <3>3. T!Starts(t) = StartSet(t, a, b)
      BY ONLY <1>4, <3>2 DEF T!Starts, StartSet, IsSep
    <3>4. \A x, y \in 1 .. Len(got[t]) : x < y => got[t][x] < got[t][y]
      BY ONLY <3>1 DEF Stream, TokenList
    <3>5. {got[t][x] : x \in 1 .. Len(got[t])} =
              {k \in StartSet(t, a, b) : ended[t] \/ (got[t] # <<>> /\ k <= got[t][Len(got[t])])}
      BY ONLY <3>1, ListRight
    <3> QED BY ONLY <3>3, <3>4, <3>5
  <2> QED BY ONLY <2>1 DEF T!StreamsIndependent
<1>7. T!TokensIntact
  <2>1. \A k \in 0 .. l : dst[k] # dst0[k] =>
           dst[k] = 0 /\ \E t \in T!Streams : dst0[k] \in T!Byteset(sep[t])
    BY ONLY <1>2, <1>4 DEF Cuts, IsSep
  <2>2. ASSUME NEW t \in T!Streams, NEW x \in 1 .. Len(got[t])
        PROVE  LET hi == region[t][2]
                   b == got[t][x]
               IN  dst[T!Min({k \in b .. hi : k = hi \/ dst0[k] \in T!Byteset(sep[t])})] = 0
    <3>1. ASSUME got[t] = <<>> PROVE FALSE
      <4>1. 1 .. Len(got[t]) = {}
        BY ONLY <3>1
      <4> QED BY ONLY <4>1, x \in 1 .. Len(got[t])
    <3>2. PICK a \in Nat, b \in Nat : a <= b /\ region[t] = <<a, b>> /\ Stream(t, a, b)
      BY ONLY <1>1, <2>2, <3>1, StreamOf
    <3>3. region[t][2] = b
      BY ONLY <3>2
    <3>4. dst[EndOf(t, got[t][x], b)] = 0
      BY ONLY <3>2, x \in 1 .. Len(got[t]) DEF Stream, TokenList
    <3>5. EndOf(t, got[t][x], b) =
              T!Min({k \in got[t][x] .. b : k = b \/ dst0[k] \in T!Byteset(sep[t])})
      BY ONLY <1>4, <1>5 DEF EndOf, IsSep
    <3> QED BY ONLY <3>3, <3>4, <3>5
  <2> QED BY ONLY <1>3, <2>1, <2>2 DEF T!TokensIntact, T!Nul
<1> QED BY ONLY <1>6, <1>7

-----------------------------------------------------------------------------
(* The whole program: a call before the copy is adopted, the streams after. *)
Idle ==
    /\ save = NoStream(NULL) /\ region = NoStream(<<>>)
    /\ got = NoStream(<<>>) /\ ended = NoStream(FALSE)

AllInv == (CallInv /\ Idle) \/ TokensInv

(* The control state of a call and of the streams.                          *)
LEMMA Phases ==
    /\ CallInv => pc # "tokens"
    /\ TokensInv => pc = "tokens" /\ f = "tokens" /\ readAt = {} /\ readDst = {} /\ wroteAt = {}
<1>1. CallInv => pc # "tokens"
  BY DEF CallInv, CatAt, NcpyAt, MessageAt, ScanAt
<1>2. TokensInv => pc = "tokens" /\ f = "tokens" /\ readAt = {} /\ readDst = {} /\ wroteAt = {}
  BY DEF TokensInv, TokensAt, TokenTypes
<1> QED BY ONLY <1>1, <1>2

(* The streams find the string the copy made, and nothing cut yet.          *)
LEMMA AdoptStep ==
    ASSUME CallInv, Idle, Adopt PROVE TokensInv'
<1>1. pc = "ret" /\ f \in {"stpcpy", "strcat"}
  BY ONLY Adopt DEF Adopt
<1>2. PICK h \in Nat, m \in Nat : CatAt(h, m)
  BY ONLY CallInv, <1>1 DEF CallInv, NcpyAt, MessageAt, ScanAt, ScanArgs, Spans, Comparisons,
     Bounded, Searches
<1>3. PICK l : l = h + m
  OBVIOUS
<1>4. Str(dst, l)
  BY ONLY <1>1, <1>2, <1>3, CatRight
<1>5. /\ f' = "tokens" /\ pc' = "tokens" /\ dst0' = dst /\ dst' = dst
      /\ readAt' = {} /\ readDst' = {} /\ wroteAt' = {}
      /\ sep' \in [T!Streams -> Separators]
      /\ api' \in [T!Streams -> {"strtok", "strtok_r", "strsep"}]
      /\ ~(\A t \in T!Streams : api'[t] = "strtok")
      /\ save' = save /\ region' = region /\ got' = got /\ ended' = ended
  BY ONLY Adopt DEF Adopt, Goto
<1>6. /\ DOMAIN save = T!Streams /\ DOMAIN region = T!Streams /\ DOMAIN got = T!Streams
      /\ ended \in [T!Streams -> BOOLEAN]
      /\ \A t \in T!Streams : region[t] = <<>> /\ got[t] = <<>>
  BY ONLY Idle DEF Idle, NoStream
<1>7. region["outer"] = <<>> /\ got["outer"] = <<>> /\ region["inner"] = <<>> /\ got["inner"] = <<>>
  BY ONLY <1>6 DEF T!Streams
<1>8. TokenTypes'
  <2>1. api'["outer"] # "strtok" \/ api'["inner"] # "strtok"
    BY ONLY <1>5 DEF T!Streams
  <2> QED BY ONLY <1>5, <1>6, <2>1 DEF TokenTypes
<1>9. Cuts(l)'
  <2>1. Buf(dst, l)
    BY ONLY <1>4, StrLength
  <2>2. Str(dst0, l)' /\ Buf(dst, l)'
    BY ONLY <1>4, <1>5, <2>1 DEF Str, Buf
  <2> QED BY ONLY <1>5, <2>2 DEF Cuts
<1>10. OuterAt(l)' /\ InnerAt(l)'
  BY ONLY <1>5, <1>7 DEF OuterAt, InnerAt
<1>11. LastWhole(l)'
  <2>1. ~(Len(got'["outer"]) > 0)
    BY ONLY <1>5, <1>7
  <2> QED BY ONLY <2>1 DEF LastWhole
<1>12. l \in Nat
  BY ONLY <1>4 DEF Str
<1> QED BY ONLY <1>8, <1>9, <1>10, <1>11, <1>12 DEF TokensInv, TokensAt

(* What changes nothing keeps the streams.                                  *)
LEMMA TokensKept ==
    ASSUME TokensInv, UNCHANGED allVars PROVE TokensInv'
<1>1. UNCHANGED <<f, pc, readAt, readDst, wroteAt, dst, dst0, api, sep, STRTOK_STATE, save, region, got, ended>>
  BY ONLY UNCHANGED allVars DEF allVars, vars, tokenVars
<1>2. PICK l \in Nat : TokensAt(l)
  BY ONLY TokensInv DEF TokensInv
<1>3. TokenTypes /\ Cuts(l) /\ OuterAt(l) /\ InnerAt(l) /\ LastWhole(l)
  BY ONLY <1>2 DEF TokensAt
<1>4. /\ \A v, k : IsSep(v, k)' = IsSep(v, k)
      /\ \A v, x, y : EndOf(v, x, y)' = EndOf(v, x, y)
      /\ \A v, x, y : StartSet(v, x, y)' = StartSet(v, x, y)
  BY ONLY <1>1, Unmoved
<1>5. \A t : Pos(t)' = Pos(t)
  BY ONLY <1>1 DEF Pos
<1>6. ASSUME NEW t, NEW a, NEW b, Stream(t, a, b) PROVE Stream(t, a, b)'
  <2>1. TokenList(t, a, b, got[t]) => TokenList(t, a, b, got[t])'
    BY ONLY <1>1, <1>4 DEF TokenList
  <2>2. FreshFrom(t, a, b, Pos(t)) => FreshFrom(t, a, b, Pos(t))'
    BY ONLY <1>1, <1>4, <1>5 DEF FreshFrom
  <2>3. ListedTo(t, a, b, got[t], Pos(t)) => ListedTo(t, a, b, got[t], Pos(t))'
    BY ONLY <1>1, <1>4, <1>5 DEF ListedTo
  <2> QED BY ONLY <1>1, <1>4, <1>5, <1>6, <2>1, <2>2, <2>3 DEF Stream
<1>7. TokenTypes'
  BY ONLY <1>1, <1>3 DEF TokenTypes
<1>8. Cuts(l)'
  <2>1. Str(dst0, l)' /\ Buf(dst, l)'
    BY ONLY <1>1, <1>3 DEF Cuts, Str, Buf
  <2> QED BY ONLY <1>1, <1>3, <1>4, <2>1 DEF Cuts
<1>9. OuterAt(l)'
  BY ONLY <1>1, <1>3, <1>6 DEF OuterAt
<1>10. InnerAt(l)'
  <2>1. CASE region["inner"] = <<>> /\ got["inner"] = <<>>
    BY ONLY <1>1, <2>1 DEF InnerAt
  <2>2. CASE \E x \in 1 .. Len(got["outer"]) :
                LET a == got["outer"][x]
                    b == EndOf("outer", a, l)
                IN  region["inner"] = <<a, b>> /\ Stream("inner", a, b)
    BY ONLY <1>1, <1>4, <1>6, <2>2 DEF InnerAt
  <2> QED BY ONLY <1>3, <2>1, <2>2 DEF InnerAt
<1>11. LastWhole(l)'
  BY ONLY <1>1, <1>3, <1>4 DEF LastWhole
<1> QED BY ONLY <1>7, <1>8, <1>9, <1>10, <1>11 DEF TokensInv, TokensAt

(* The invariant of the whole program.                                      *)
LEMMA AllStep ==
    ASSUME AllInv, [AllNext]_allVars PROVE AllInv'
<1>1. CASE CopyStep
  <2>1. Next /\ UNCHANGED <<save, region, got, ended>>
    BY ONLY <1>1 DEF CopyStep, tokenVars
  <2>2. pc # "tokens"
    BY ONLY <2>1 DEF Next, FindEnd, Stpcpy, Stpncpy, Fill, Strerror, Message, CallScan, Done
  <2>3. CallInv /\ Idle
    BY ONLY AllInv, <2>2, Phases DEF AllInv
  <2>4. CallInv'
    BY ONLY <2>1, <2>3, CallStep
  <2>5. Idle'
    BY ONLY <2>1, <2>3 DEF Idle, NoStream
  <2> QED BY ONLY <2>4, <2>5 DEF AllInv
<1>2. CASE Adopt
  <2>1. pc # "tokens"
    BY ONLY <1>2 DEF Adopt
  <2>2. CallInv /\ Idle
    BY ONLY AllInv, <2>1, Phases DEF AllInv
  <2> QED BY ONLY <1>2, <2>2, AdoptStep DEF AllInv
<1>3. CASE TokenStep
  <2>1. pc = "tokens" /\ T!Next /\ Apart
    BY ONLY <1>3 DEF TokenStep, Apart
  <2>2. TokensInv
    BY ONLY AllInv, <2>1, Phases DEF AllInv
  <2> QED BY ONLY <2>1, <2>2, TokensStep DEF AllInv
<1>4. CASE UNCHANGED allVars
  <2>1. CASE CallInv /\ Idle
    <3>1. UNCHANGED vars /\ UNCHANGED <<save, region, got, ended>>
      BY ONLY <1>4 DEF allVars, tokenVars
    <3>2. CallInv'
      BY ONLY <2>1, <3>1, CallKept
    <3>3. Idle'
      BY ONLY <2>1, <3>1 DEF Idle, NoStream
    <3> QED BY ONLY <3>2, <3>3 DEF AllInv
  <2>2. CASE TokensInv
    BY ONLY <1>4, <2>2, TokensKept DEF AllInv
  <2> QED BY ONLY AllInv, <2>1, <2>2 DEF AllInv
<1> QED BY <1>1, <1>2, <1>3, <1>4 DEF AllNext

(* The whole program keeps the invariant.                                   *)
THEOREM StringsInvariance == AllSpec => []AllInv
<1>1. CopyInit => AllInv
  <2>1. CopyInit => Init /\ Idle
    BY DEF CopyInit, Idle
  <2> QED BY <2>1, InitCall DEF AllInv
<1> QED BY <1>1, AllStep, PTL DEF AllSpec

(* The properties, of every reachable state.                                *)
LEMMA AllRight ==
    ASSUME AllInv
    PROVE  /\ AccessesInObjects /\ CopyExact /\ ScanExact /\ OrderExact /\ ClassesExact
           /\ StreamsIndependent /\ TokensIntact
<1>1. CASE CallInv /\ Idle
  <2>1. AccessesInObjects /\ CopyExact /\ ScanExact /\ OrderExact /\ ClassesExact
    BY ONLY <1>1, CallRight
  <2>2. TokensIntact
    BY ONLY <1>1, Phases DEF TokensIntact
  <2>3. StreamsIndependent
    <3>1. \A t \in T!Streams : region[t] = <<>>
      BY ONLY <1>1 DEF Idle, NoStream
    <3> QED BY ONLY <3>1 DEF StreamsIndependent, T!StreamsIndependent
  <2> QED BY ONLY <2>1, <2>2, <2>3
<1>2. CASE TokensInv
  <2>1. pc # "ret" /\ readAt = {} /\ readDst = {} /\ wroteAt = {}
    BY ONLY <1>2, Phases
  <2>2. AccessesInObjects
    BY ONLY <2>1 DEF AccessesInObjects
  <2>3. CopyExact /\ ScanExact /\ OrderExact /\ ClassesExact
    BY ONLY <2>1 DEF CopyExact, ScanExact, OrderExact, ClassesExact
  <2>4. StreamsIndependent /\ TokensIntact
    BY ONLY <1>2, TokensRight DEF StreamsIndependent, TokensIntact
  <2> QED BY ONLY <2>2, <2>3, <2>4
<1> QED BY ONLY AllInv, <1>1, <1>2 DEF AllInv

-----------------------------------------------------------------------------
(* Whatever the bytes, the lengths and the order of the calls:              *)

(* No copy, search, comparison or concatenation touches a byte outside the  *)
(* objects its contract demands, strncpy and strerror_r at their limits     *)
(* included.                                                                *)
THEOREM AccessesTheorem == AllSpec => []AccessesInObjects
BY StringsInvariance, AllRight, PTL

(* What stpcpy, stpncpy, strcat and strerror_r leave in the destination is  *)
(* what their contracts say, up to the last byte, and so is what they       *)
(* return: stpcpy and stpncpy the end of what they wrote, strcat the        *)
(* beginning of its string, strerror_r whether it had to cut the message.   *)
THEOREM CopyTheorem == AllSpec => []CopyExact
BY StringsInvariance, AllRight, PTL

(* strchr, strrchr, memchr and the rest of the searches return the position *)
(* the reference definition names.                                          *)
THEOREM ScanTheorem == AllSpec => []ScanExact
BY StringsInvariance, AllRight, PTL

(* The comparisons order strings as their unsigned bytes are ordered, with  *)
(* case folded where the function folds it.                                 *)
THEOREM OrderTheorem == AllSpec => []OrderExact
BY StringsInvariance, AllRight, PTL

(* Every ctype predicate answers as the class is defined, and EOF and the   *)
(* other negative ints are in no class.                                     *)
THEOREM ClassesTheorem == AllSpec => []ClassesExact
BY StringsInvariance, AllRight, PTL

(* Two token streams, one nested in the other and through any two of        *)
(* strtok, strtok_r and strsep, each return the tokens of their own string, *)
(* in order, none lost and none invented.                                   *)
THEOREM StreamsTheorem == AllSpec => []StreamsIndependent
BY StringsInvariance, AllRight, PTL

(* The tokenizers overwrite separators only, and the byte behind every      *)
(* token they returned is a terminator and stays one.                       *)
THEOREM TokensTheorem == AllSpec => []TokensIntact
BY StringsInvariance, AllRight, PTL
=============================================================================
