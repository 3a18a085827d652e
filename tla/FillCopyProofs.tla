--------------------------- MODULE FillCopyProofs --------------------------
(***************************************************************************)
(* memset writes every byte of its destination and no other, with and      *)
(* without `dc zva'; memcpy copies every byte to its place and touches no  *)
(* other; and so does the one after the other.  For every length, every    *)
(* alignment and every byte.                                               *)
(***************************************************************************)
EXTENDS FillCopy, TLAPS

Interval == [from : Int, behind : Int]

Inside(s) == s \in Interval /\ dstin <= s.from /\ s.behind <= dstend

Covers(w, k) == \E s \in w : s.from <= k /\ k < s.behind

(* What the bits of a length up to 96 say of it.                            *)
LEMMA Lengths ==
    ASSUME NEW n \in Nat, n <= 96
    PROVE  /\ Bit(n, 64) => 64 <= n
           /\ ~Bit(n, 64) => n < 64
           /\ Bit(n, 32) /\ n < 64 => 32 <= n
           /\ ~Bit(n, 32) /\ n < 64 => n < 32
           /\ Bit(n, 8) /\ n < 16 => 8 <= n
           /\ ~Bit(n, 8) /\ n < 16 => n < 8
           /\ Bit(n, 4) /\ n < 8 => 4 <= n
           /\ ~Bit(n, 4) /\ n < 8 => n < 4
           /\ Bit(n, 2) /\ n < 4 => 2 <= n
  BY DEF Bit

(* The invariant holds when memset is entered.                              *)
LEMMA InitInv == Init => Inv
  BY AddressesAssumption, CountsAssumption, ValuesAssumption
  DEF Init, Inv, TypeInv, StoresInBounds, AllWritten, ZerosAsked, CounterNeverWraps, LoopInv

(* Stores inside the destination that cover what was not covered yet finish *)
(* the call.                                                                *)
LEMMA ReturnStep ==
    ASSUME Inv, NEW w, Return(w), \A s \in w : Inside(s),
           \A k \in dstin .. dstend - 1 : Covers(stores \cup zeroed \cup w, k)
    PROVE  Inv'
<1>1. dstend' = dstend /\ UNCHANGED args
  BY DEF Return, args, dstend
<1>2. TypeInv'
  BY DEF Inv, TypeInv, Return, args, Inside, Interval
<1>3. StoresInBounds'
  BY <1>1 DEF Inv, StoresInBounds, Return, args, Inside
<1>4. stores' \cup zeroed' = stores \cup zeroed \cup w
  BY DEF Return
<1>5. AllWritten'
  BY <1>1, <1>4 DEF AllWritten, Covers, args
<1>6. ZerosAsked' /\ CounterNeverWraps' /\ LoopInv'
  BY <1>1 DEF Inv, ZerosAsked, CounterNeverWraps, LoopInv, Return, args
<1> QED BY <1>2, <1>3, <1>5, <1>6 DEF Inv

(* The same when the stores cover the destination by themselves.            *)
LEMMA ReturnAll ==
    ASSUME Inv, NEW w, Return(w), \A s \in w : Inside(s),
           \A k \in dstin .. dstend - 1 : Covers(w, k)
    PROVE  Inv'
<1>1. \A k \in dstin .. dstend - 1 : Covers(stores \cup zeroed \cup w, k)
  BY DEF Covers
<1> QED BY <1>1, ReturnStep

(* Lengths below 16.                                                        *)
LEMMA SmallStep == Inv /\ Small => Inv'
<1> SUFFICES ASSUME Inv, Small PROVE Inv'
  OBVIOUS
<1>1. count = count0 /\ count0 \in Nat /\ dstin \in Nat /\ count < 16
  BY DEF Inv, TypeInv, LoopInv, Small
<1>2. CASE Bit(count, 8)
             /\ Return({St(dstin, 8), St(dstend - 8, 8)})
  <2> DEFINE w == {St(dstin, 8), St(dstend - 8, 8)}
  <2>1. 8 <= count0 /\ count0 < 16
    BY <1>1, <1>2, Lengths
  <2>2. \A s \in w : Inside(s)
    BY <1>1, <2>1 DEF Inside, Interval, St, dstend
  <2>3. \A k \in dstin .. dstend - 1 : Covers(w, k)
    BY <1>1, <2>1 DEF Covers, St, dstend
  <2> HIDE DEF w
  <2>4. Return(w)
    BY <1>2 DEF w
  <2> QED BY <2>2, <2>3, <2>4, ReturnAll
<1>3. CASE ~Bit(count, 8) /\ Bit(count, 4)
             /\ Return({St(dstin, 4), St(dstend - 4, 4)})
  <2> DEFINE w == {St(dstin, 4), St(dstend - 4, 4)}
  <2>1. 4 <= count0 /\ count0 < 8
    BY <1>1, <1>3, Lengths
  <2>2. \A s \in w : Inside(s)
    BY <1>1, <2>1 DEF Inside, Interval, St, dstend
  <2>3. \A k \in dstin .. dstend - 1 : Covers(w, k)
    BY <1>1, <2>1 DEF Covers, St, dstend
  <2> HIDE DEF w
  <2>4. Return(w)
    BY <1>3 DEF w
  <2> QED BY <2>2, <2>3, <2>4, ReturnAll
<1>4. CASE count = 0 /\ Return({})
  BY <1>1, <1>4, ReturnAll DEF dstend
<1>5. CASE count = 1
             /\ Return({St(dstin, 1)})
  <2> DEFINE w == {St(dstin, 1)}
  <2>1. count0 = 1
    BY <1>1, <1>5
  <2>2. \A s \in w : Inside(s)
    BY <1>1, <2>1 DEF Inside, Interval, St, dstend
  <2>3. \A k \in dstin .. dstend - 1 : Covers(w, k)
    BY <1>1, <2>1 DEF Covers, St, dstend
  <2> HIDE DEF w
  <2>4. Return(w)
    BY <1>5 DEF w
  <2> QED BY <2>2, <2>3, <2>4, ReturnAll
<1>6. CASE ~Bit(count, 8) /\ ~Bit(count, 4) /\ Bit(count, 2)
             /\ Return({St(dstin, 1), St(dstend - 2, 2)})
  <2> DEFINE w == {St(dstin, 1), St(dstend - 2, 2)}
  <2>1. 2 <= count0 /\ count0 < 4
    BY <1>1, <1>6, Lengths
  <2>2. \A s \in w : Inside(s)
    BY <1>1, <2>1 DEF Inside, Interval, St, dstend
  <2>3. \A k \in dstin .. dstend - 1 : Covers(w, k)
    BY <1>1, <2>1 DEF Covers, St, dstend
  <2> HIDE DEF w
  <2>4. Return(w)
    BY <1>6 DEF w
  <2> QED BY <2>2, <2>3, <2>4, ReturnAll
<1> QED BY <1>2, <1>3, <1>4, <1>5, <1>6 DEF Small

(* Lengths from 16 to 96.                                                   *)
LEMMA MediumStep == Inv /\ Medium => Inv'
<1> SUFFICES ASSUME Inv, Medium PROVE Inv'
  OBVIOUS
<1>1. count = count0 /\ count0 \in Nat /\ dstin \in Nat /\ 16 <= count /\ count <= 96
  BY DEF Inv, TypeInv, LoopInv, Medium
<1>2. CASE Bit(count, 64)
             /\ Return({St(dstin, 16), St(dstin + 16, 16), St(dstin + 32, 32), St(dstend - 32, 32)})
  <2> DEFINE w == {St(dstin, 16), St(dstin + 16, 16), St(dstin + 32, 32), St(dstend - 32, 32)}
  <2>1. 64 <= count0 /\ count0 <= 96
    BY <1>1, <1>2, Lengths
  <2>2. \A s \in w : Inside(s)
    BY <1>1, <2>1 DEF Inside, Interval, St, dstend
  <2>3. \A k \in dstin .. dstend - 1 : Covers(w, k)
    BY <1>1, <2>1 DEF Covers, St, dstend
  <2> HIDE DEF w
  <2>4. Return(w)
    BY <1>2 DEF w
  <2> QED BY <2>2, <2>3, <2>4, ReturnAll
<1>3. CASE ~Bit(count, 64) /\ Bit(count, 32)
             /\ Return({St(dstin, 16), St(dstin + 16, 16), St(dstend - 32, 16), St(dstend - 16, 16)})
  <2> DEFINE w == {St(dstin, 16), St(dstin + 16, 16), St(dstend - 32, 16), St(dstend - 16, 16)}
  <2>1. 32 <= count0 /\ count0 < 64
    BY <1>1, <1>3, Lengths
  <2>2. \A s \in w : Inside(s)
    BY <1>1, <2>1 DEF Inside, Interval, St, dstend
  <2>3. \A k \in dstin .. dstend - 1 : Covers(w, k)
    BY <1>1, <2>1 DEF Covers, St, dstend
  <2> HIDE DEF w
  <2>4. Return(w)
    BY <1>3 DEF w
  <2> QED BY <2>2, <2>3, <2>4, ReturnAll
<1>4. CASE ~Bit(count, 64) /\ ~Bit(count, 32)
             /\ Return({St(dstin, 16), St(dstend - 16, 16)})
  <2> DEFINE w == {St(dstin, 16), St(dstend - 16, 16)}
  <2>1. 16 <= count0 /\ count0 < 32
    BY <1>1, <1>4, Lengths
  <2>2. \A s \in w : Inside(s)
    BY <1>1, <2>1 DEF Inside, Interval, St, dstend
  <2>3. \A k \in dstin .. dstend - 1 : Covers(w, k)
    BY <1>1, <2>1 DEF Covers, St, dstend
  <2> HIDE DEF w
  <2>4. Return(w)
    BY <1>4 DEF w
  <2> QED BY <2>2, <2>3, <2>4, ReturnAll
<1> QED BY <1>2, <1>3, <1>4 DEF Medium

(* Stores added on the way: what stays true and what is covered.            *)
LEMMA MoreStores ==
    ASSUME Inv, UNCHANGED args, NEW w, NEW z,
           stores' = stores \cup w, zeroed' = zeroed \cup z,
           \A s \in w \cup z : Inside(s)
    PROVE  /\ stores' \subseteq Interval /\ zeroed' \subseteq Interval
           /\ StoresInBounds'
           /\ dstend' = dstend
           /\ \A k \in Int : Covers(stores \cup zeroed, k) \/ Covers(w, k) \/ Covers(z, k)
                              => Covers(stores' \cup zeroed', k)
<1>1. dstend' = dstend
  BY DEF args, dstend
<1>2. stores' \subseteq Interval /\ zeroed' \subseteq Interval
  BY DEF Inv, TypeInv, Inside, Interval
<1>3. StoresInBounds'
  BY <1>1 DEF Inv, StoresInBounds, Inside, args
<1>4. \A k \in Int : Covers(stores \cup zeroed, k) \/ Covers(w, k) \/ Covers(z, k)
                      => Covers(stores' \cup zeroed', k)
  BY DEF Covers
<1> QED BY <1>1, <1>2, <1>3, <1>4

(* The head of a long run without `dc zva'.                                 *)
LEMMA LongNoZvaStep == Inv /\ LongNoZva => Inv'
<1> SUFFICES ASSUME Inv, LongNoZva PROVE Inv'
  OBVIOUS
<1> DEFINE t == dstin % 16
           w == {St(dstin, 16)}
<1>1. /\ count = count0 /\ count0 \in Nat /\ count0 > 96 /\ dstin \in Nat
      /\ valw \in 0 .. 255 /\ t \in 0 .. 15
  BY DEF Inv, TypeInv, LoopInv, LongNoZva
<1>2. /\ stores' = stores \cup w /\ zeroed' = zeroed \cup {}
      /\ dst' = dstin - t - 16 /\ count' = dstin + count0 - (dstin - t) - 80
      /\ pc' = "no_zva_loop" /\ UNCHANGED args
  <2>1. stores' = stores \cup w /\ pc' = "no_zva_loop" /\ UNCHANGED args
    BY DEF LongNoZva
  <2>2. zeroed' = zeroed \cup {}
    BY DEF LongNoZva
  <2>3. dst' = bic(dstin, 16) - 16 /\ count' = dstend - bic(dstin, 16) - (64 + 16)
    BY DEF LongNoZva
  <2>4. bic(dstin, 16) = dstin - t
    BY DEF bic
  <2> HIDE DEF t, w
  <2>5. dst' = dstin - t - 16 /\ count' = dstin + count0 - (dstin - t) - 80
    BY <1>1, <2>3, <2>4 DEF dstend
  <2> QED BY <2>1, <2>2, <2>5
<1> HIDE DEF t
<1>3. \A s \in w \cup {} : Inside(s)
  BY <1>1 DEF Inside, Interval, St, dstend
<1>4. \A k \in dstin .. dst' + 31 : Covers(w, k)
  BY <1>1, <1>2 DEF Covers, St
<1> HIDE DEF w
<1>5. /\ stores' \subseteq Interval /\ zeroed' \subseteq Interval
      /\ StoresInBounds' /\ dstend' = dstend
      /\ \A k \in Int : Covers(w, k) => Covers(stores' \cup zeroed', k)
  BY <1>2, <1>3, MoreStores
<1>6. TypeInv'
  BY <1>1, <1>2, <1>5 DEF TypeInv, Interval, args
<1>7. ZerosAsked' /\ AllWritten' /\ CounterNeverWraps'
  BY <1>1, <1>2 DEF Inv, ZerosAsked, AllWritten, CounterNeverWraps, args
<1>8. Covered(dstin, dst + 32)'
  BY <1>1, <1>2, <1>4, <1>5 DEF Covered, Covers, args
<1>9. LoopInv'
  BY <1>1, <1>2, <1>5, <1>8 DEF LoopInv, args, dstend
<1> QED BY <1>5, <1>6, <1>7, <1>9 DEF Inv

(* A turn of the store loop.                                                *)
LEMMA NoZvaStep == Inv /\ NoZvaLoop => Inv'
<1> SUFFICES ASSUME Inv, NoZvaLoop PROVE Inv'
  OBVIOUS
<1> DEFINE w == {St(dst + 32, 32), St(dst + 64, 32)}
<1>1. /\ count0 \in Nat /\ count0 > 96 /\ dstin \in Nat /\ dst \in Int
      /\ valw \in 0 .. 255 /\ dst + 32 >= dstin
      /\ count = dstin + count0 - dst - 96 /\ count >= 0 /\ pc = "no_zva_loop"
  BY DEF Inv, TypeInv, LoopInv, CounterNeverWraps, NoZvaLoop, dstend
<1>2. /\ stores' = stores \cup w /\ zeroed' = zeroed \cup {}
      /\ dst' = dst + 64 /\ count' = count - 64
      /\ pc' = IF count > 64 THEN "no_zva_loop" ELSE "tail"
      /\ UNCHANGED args
  BY <1>1 DEF NoZvaLoop
<1>3. \A s \in w \cup {} : Inside(s)
  BY <1>1 DEF Inside, Interval, St, dstend
<1>4. \A k \in dst + 32 .. dst + 95 : Covers(w, k)
  BY <1>1 DEF Covers, St
<1> HIDE DEF w
<1>5. /\ stores' \subseteq Interval /\ zeroed' \subseteq Interval
      /\ StoresInBounds' /\ dstend' = dstend
      /\ \A k \in Int : Covers(stores \cup zeroed, k) \/ Covers(w, k)
                        => Covers(stores' \cup zeroed', k)
  BY <1>2, <1>3, MoreStores
<1>6. TypeInv'
  BY <1>1, <1>2, <1>5 DEF TypeInv, Interval, args
<1>7. ZerosAsked' /\ AllWritten' /\ CounterNeverWraps'
  BY <1>1, <1>2 DEF Inv, ZerosAsked, AllWritten, CounterNeverWraps, args
<1>8. \A k \in dstin .. dst + 95 : Covers(stores' \cup zeroed', k)
  <2>1. \A k \in dstin .. dst + 31 : Covers(stores \cup zeroed, k)
    BY <1>1 DEF Inv, LoopInv, Covered, Covers
  <2>2. TAKE k \in dstin .. dst + 95
  <2>3. k \in dstin .. dst + 31 \/ k \in dst + 32 .. dst + 95
    BY <1>1
  <2>4. k \in Int
    BY <1>1
  <2> QED BY <1>4, <1>5, <2>1, <2>3, <2>4
<1>9. Covered(dstin, dst + 32)'
  BY <1>1, <1>2, <1>8 DEF Covered, Covers, args
<1>10. pc' = "tail" => Covered(dstin, dstend - 64)'
  <2>1. pc' = "tail" => dstend' - 64 <= dst + 96
    BY <1>1, <1>2, <1>5 DEF dstend
  <2> QED BY <1>1, <1>2, <1>5, <1>8, <2>1 DEF Covered, Covers, args, dstend
<1>11. LoopInv'
  BY <1>1, <1>2, <1>5, <1>9, <1>10 DEF LoopInv, args, dstend
<1> QED BY <1>5, <1>6, <1>7, <1>11 DEF Inv

(* The head of a long run of zeros with `dc zva'.                           *)
LEMMA LongZvaStep == Inv /\ LongZva => Inv'
<1> SUFFICES ASSUME Inv, LongZva PROVE Inv'
  OBVIOUS
<1> DEFINE d == dstin - (dstin % 16)
           e == d - (d % 64)
           w == {St(dstin, 16), St(d + 16, 16), St(d + 32, 32)}
<1>1. /\ count = count0 /\ count0 \in Nat /\ count0 >= 160 /\ dstin \in Nat /\ valw = 0
      /\ d \in Nat /\ d <= dstin /\ dstin < d + 16
      /\ e \in Int /\ e <= d /\ d <= e + 48 /\ e % 64 = 0
  <2>1. count = count0 /\ count0 \in Nat /\ count0 >= 160 /\ dstin \in Nat /\ valw = 0
    BY DEF Inv, TypeInv, LoopInv, LongZva, UseZva
  <2>2. d \in Nat /\ d <= dstin /\ dstin < d + 16
    BY <2>1
  <2>3. dstin \div 16 \in Int /\ d = 16 * (dstin \div 16)
    BY <2>1
  <2> HIDE DEF d
  <2>4. e \in Int /\ e <= d /\ d < e + 64 /\ e % 64 = 0
    BY <2>2
  <2>5. d \div 64 \in Int /\ e = 64 * (d \div 64)
    BY <2>2
  <2> HIDE DEF e
  <2>6. d <= e + 48
    BY <2>3, <2>4, <2>5
  <2> QED BY <2>1, <2>2, <2>4, <2>6
<1>2. /\ stores' = stores \cup w /\ zeroed' = zeroed \cup {}
      /\ dst' = e /\ count' = dstin + count0 - e - 128
      /\ pc' = "zva_loop" /\ UNCHANGED args
  <2>1. stores' = stores \cup w /\ pc' = "zva_loop" /\ UNCHANGED args
    BY DEF LongZva, bic
  <2>2. zeroed' = zeroed \cup {}
    BY DEF LongZva
  <2>3. dst' = bic(bic(dstin, 16), 64) /\ count' = dstend - bic(bic(dstin, 16), 64) - 128
    BY DEF LongZva
  <2>4. bic(bic(dstin, 16), 64) = e
    BY DEF bic
  <2> HIDE DEF d, e, w
  <2>5. dst' = e /\ count' = dstin + count0 - e - 128
    BY <1>1, <2>3, <2>4 DEF dstend
  <2> QED BY <2>1, <2>2, <2>5
<1> HIDE DEF d, e
<1>3. \A s \in w \cup {} : Inside(s)
  BY <1>1 DEF Inside, Interval, St, dstend
<1>4. \A k \in dstin .. dst' + 63 : Covers(w, k)
  BY <1>1, <1>2 DEF Covers, St
<1> HIDE DEF w
<1>5. /\ stores' \subseteq Interval /\ zeroed' \subseteq Interval
      /\ StoresInBounds' /\ dstend' = dstend
      /\ \A k \in Int : Covers(w, k) => Covers(stores' \cup zeroed', k)
  BY <1>2, <1>3, MoreStores
<1>6. TypeInv'
  BY <1>1, <1>2, <1>5 DEF TypeInv, Interval, args
<1>7. ZerosAsked' /\ AllWritten' /\ CounterNeverWraps'
  BY <1>1, <1>2 DEF Inv, ZerosAsked, AllWritten, CounterNeverWraps, args
<1>8. Covered(dstin, dst + 64)'
  BY <1>1, <1>2, <1>4, <1>5 DEF Covered, Covers, args
<1>9. /\ dst' + 64 >= dstin /\ dst' % 64 = 0 /\ count0 > 96
      /\ count' = dstin + count0 - dst' - 128
  BY <1>1, <1>2
<1>10. dstin' = dstin /\ count0' = count0 /\ valw' = valw
  BY <1>2 DEF args
<1>11. LoopInv'
  BY <1>1, <1>2, <1>8, <1>9, <1>10 DEF LoopInv, dstend
<1> QED BY <1>5, <1>6, <1>7, <1>11 DEF Inv

(* A turn of the `dc zva' loop.                                             *)
LEMMA ZvaStep == Inv /\ ZvaLoop => Inv'
<1> SUFFICES ASSUME Inv, ZvaLoop PROVE Inv'
  OBVIOUS
<1> DEFINE z == {St(dst + 64, 64)}
<1>1. /\ count0 \in Nat /\ count0 > 96 /\ dstin \in Nat /\ dst \in Int
      /\ valw = 0 /\ dst + 64 >= dstin /\ dst % 64 = 0
      /\ count = dstin + count0 - dst - 128 /\ count >= 0 /\ pc = "zva_loop"
  BY DEF Inv, TypeInv, LoopInv, CounterNeverWraps, ZvaLoop, dstend
<1>2. /\ stores' = stores \cup {} /\ zeroed' = zeroed \cup z
      /\ dst' = dst + 64 /\ count' = count - 64
      /\ pc' = IF count > 64 THEN "zva_loop" ELSE "tail"
      /\ UNCHANGED args
  BY <1>1 DEF ZvaLoop
<1>3. \A s \in {} \cup z : Inside(s)
  BY <1>1 DEF Inside, Interval, St, dstend
<1>4. \A k \in dst + 64 .. dst + 127 : Covers(z, k)
  BY <1>1 DEF Covers, St
<1>5. \A s \in z : s.from % 64 = 0
  BY <1>1 DEF St
<1>6. (dst + 64) % 64 = 0
  BY <1>1
<1> HIDE DEF z
<1>7. /\ stores' \subseteq Interval /\ zeroed' \subseteq Interval
      /\ StoresInBounds' /\ dstend' = dstend
      /\ \A k \in Int : Covers(stores \cup zeroed, k) \/ Covers(z, k)
                        => Covers(stores' \cup zeroed', k)
  BY <1>2, <1>3, MoreStores
<1>8. TypeInv'
  BY <1>1, <1>2, <1>7 DEF TypeInv, Interval, args
<1>9. ZerosAsked' /\ AllWritten' /\ CounterNeverWraps'
  BY <1>1, <1>2, <1>5 DEF Inv, ZerosAsked, AllWritten, CounterNeverWraps, args
<1>10. \A k \in dstin .. dst + 127 : Covers(stores' \cup zeroed', k)
  <2>1. \A k \in dstin .. dst + 63 : Covers(stores \cup zeroed, k)
    BY <1>1 DEF Inv, LoopInv, Covered, Covers
  <2>2. TAKE k \in dstin .. dst + 127
  <2>3. k \in dstin .. dst + 63 \/ k \in dst + 64 .. dst + 127
    BY <1>1
  <2>4. k \in Int
    BY <1>1
  <2>5. Covers(stores \cup zeroed, k) \/ Covers(z, k)
    BY <1>4, <2>1, <2>3
  <2> QED BY <1>7, <2>4, <2>5
<1>11. Covered(dstin, dst + 64)'
  BY <1>1, <1>2, <1>10 DEF Covered, Covers, args
<1>12. pc' = "tail" => Covered(dstin, dstend - 64)'
  <2>1. pc' = "tail" => dstend' - 64 <= dst + 128
    BY <1>1, <1>2, <1>7 DEF dstend
  <2> QED BY <1>1, <1>2, <1>7, <1>10, <2>1 DEF Covered, Covers, args, dstend
<1>13. LoopInv'
  BY <1>1, <1>2, <1>6, <1>7, <1>11, <1>12 DEF LoopInv, args, dstend
<1> QED BY <1>7, <1>8, <1>9, <1>13 DEF Inv

(* The last 64 bytes.                                                       *)
LEMMA TailStep == Inv /\ Tail => Inv'
<1> SUFFICES ASSUME Inv, Tail PROVE Inv'
  OBVIOUS
<1> DEFINE w == {St(dstend - 64, 32), St(dstend - 32, 32)}
<1>1. count0 \in Nat /\ count0 > 96 /\ dstin \in Nat /\ Return(w)
  BY DEF Inv, TypeInv, LoopInv, Tail
<1>2. \A s \in w : Inside(s)
  BY <1>1 DEF Inside, Interval, St, dstend
<1>3. \A k \in dstend - 64 .. dstend - 1 : Covers(w, k)
  BY <1>1 DEF Covers, St, dstend
<1>4. \A k \in dstin .. dstend - 65 : Covers(stores \cup zeroed, k)
  BY <1>1 DEF Inv, LoopInv, Tail, Covered, Covers, dstend
<1>5. \A k \in Int : Covers(stores \cup zeroed, k) \/ Covers(w, k)
                      => Covers(stores \cup zeroed \cup w, k)
  BY DEF Covers
<1> HIDE DEF w
<1>6. \A k \in dstin .. dstend - 1 : Covers(stores \cup zeroed \cup w, k)
  BY <1>1, <1>3, <1>4, <1>5 DEF dstend
<1> QED BY <1>1, <1>2, <1>6, ReturnStep

(* Every step of memset preserves the invariant.                            *)
LEMMA StepInv == Inv /\ [Next]_vars => Inv'
<1>1. ASSUME Inv, Done \/ UNCHANGED vars PROVE Inv'
  <2>1. UNCHANGED vars
    BY <1>1 DEF Done
  <2>2. TypeInv' /\ StoresInBounds' /\ AllWritten'
    BY <1>1, <2>1 DEF vars, Inv, TypeInv, StoresInBounds, AllWritten, dstend
  <2>3. ZerosAsked' /\ CounterNeverWraps'
    BY <1>1, <2>1 DEF vars, Inv, ZerosAsked, CounterNeverWraps
  <2>4. LoopInv'
    BY <1>1, <2>1 DEF vars, Inv, LoopInv, Covered, dstend
  <2> QED BY <2>2, <2>3, <2>4 DEF Inv
<1> QED BY <1>1, SmallStep, MediumStep, LongNoZvaStep, NoZvaStep, LongZvaStep, ZvaStep,
           TailStep DEF Next

(* The invariant of memset, for every length, alignment and byte.           *)
THEOREM Invariance == Spec => []Inv
  BY InitInv, StepInv, PTL DEF Spec

(* memset writes nothing outside the caller's bytes, also with `dc zva'.    *)
THEOREM BoundsTheorem == Spec => []StoresInBounds
  BY Invariance, PTL DEF Inv

(* memset returns with every byte stored, and clears lines of memory with   *)
(* `dc zva' only for the byte zero.                                         *)
THEOREM SetTheorem == Spec => []SetExactly
<1>1. Inv => SetExactly
  BY DEF Inv, SetExactly
<1> QED BY <1>1, Invariance, PTL

(* The unsigned counter of the two loops never wraps.                       *)
THEOREM CounterTheorem == Spec => []CounterNeverWraps
  BY Invariance, PTL DEF Inv

-----------------------------------------------------------------------------
(* Whether a copy lies between equal offsets of the two regions.            *)
Good(c) ==
    /\ c \in [to : Int, from : Int, w : Int]
    /\ c.to - to = c.from - dstin
    /\ to <= c.to /\ c.to + c.w <= M!dstend

CopyCovers(cs, k) == \E c \in cs : c.to <= k /\ k < c.to + c.w

(* What the bits of a small length say of it.                               *)
LEMMA CopyLengths ==
    ASSUME NEW n \in Nat
    PROVE  /\ M!Bit(n, 8) /\ n < 16 => 8 <= n
           /\ ~M!Bit(n, 8) /\ n < 16 => n < 8
           /\ M!Bit(n, 4) /\ n < 8 => 4 <= n
           /\ ~M!Bit(n, 4) /\ n < 8 => n < 4
           /\ n < 4 /\ n # 0 => n \div 2 \in Nat /\ n \div 2 < n
           /\ n = 3 => n \div 2 = 1
  BY DEF M!Bit

(* The invariant holds when memcpy is entered.                              *)
LEMMA CopyInitInv == M!Init => M!Inv
  BY AddressesAssumption, CountsAssumption
  DEF M!Init, M!Inv, M!TypeInv, M!OffsetsAgree, M!AccessesInBounds, M!AllCopied, M!PipelineInv

(* Copies between equal offsets that together cover the destination finish  *)
(* the call.                                                                *)
LEMMA CopyReturn ==
    ASSUME M!Inv, NEW cs, M!CopyAndReturn(cs), \A c \in cs : Good(c),
           \A k \in to .. M!dstend - 1 : CopyCovers(cs, k)
    PROVE  M!Inv'
<1>1. M!TypeInv'
  BY DEF M!Inv, M!TypeInv, M!CopyAndReturn, M!args, M!pipeline, Good, M!Ld
<1>2. M!OffsetsAgree' /\ M!AllCopied' /\ M!PipelineInv'
  BY DEF M!Inv, M!OffsetsAgree, M!AllCopied, M!PipelineInv, M!CopyAndReturn, M!args, M!dstend, Good, CopyCovers
<1>3. \A c \in cs : dstin <= c.from /\ c.from + c.w <= M!srcend
  BY DEF M!Inv, M!TypeInv, M!dstend, M!srcend, Good
<1>4. M!AccessesInBounds'
  <2>1. \A l \in loads' : dstin <= l.from /\ l.from + l.w <= M!srcend
    BY <1>3 DEF M!Inv, M!AccessesInBounds, M!CopyAndReturn, M!Ld
  <2> QED BY <2>1 DEF M!Inv, M!AccessesInBounds, M!CopyAndReturn, M!args, M!srcend, M!dstend, Good
<1> QED BY <1>1, <1>2, <1>4 DEF M!Inv, M!CopyAndReturn

(* Front and Back make good copies.                                         *)
LEMMA FrontBack ==
    ASSUME M!TypeInv, NEW o \in Nat, NEW w \in Nat
    PROVE  /\ o + w <= count0 => Good(M!Front(o, w))
           /\ w <= o /\ o <= count0 => Good(M!Back(o, w))
  BY DEF M!TypeInv, M!Front, M!Back, M!Cp, M!srcend, M!dstend, Good

(* Copies of up to 32 bytes.                                                *)
LEMMA CopySmall == M!Inv /\ M!Small => M!Inv'
<1> SUFFICES ASSUME M!Inv, M!Small PROVE M!Inv'
  OBVIOUS
<1>1. M!TypeInv /\ ccount = count0 /\ count0 \in Nat /\ to \in Nat
  BY DEF M!Inv, M!TypeInv, M!Small
<1>3. CASE 16 <= ccount /\ ccount <= 32 /\ M!CopyAndReturn({M!Front(0, 16), M!Back(16, 16)})
  <2>1. Good(M!Front(0, 16)) /\ Good(M!Back(16, 16))
    BY <1>1, <1>3, FrontBack
  <2>2. \A k \in to .. M!dstend - 1 : CopyCovers({M!Front(0, 16), M!Back(16, 16)}, k)
    BY <1>1, <1>3 DEF CopyCovers, M!Front, M!Back, M!Cp, M!dstend
  <2> QED BY <1>3, <2>1, <2>2, CopyReturn
<1>4. CASE ccount < 16 /\ M!Bit(ccount, 8) /\ M!CopyAndReturn({M!Front(0, 8), M!Back(8, 8)})
  <2>1. 8 <= count0 /\ count0 < 16
    BY <1>1, <1>4, CopyLengths
  <2>2. Good(M!Front(0, 8)) /\ Good(M!Back(8, 8))
    BY <1>1, <2>1, FrontBack
  <2>3. \A k \in to .. M!dstend - 1 : CopyCovers({M!Front(0, 8), M!Back(8, 8)}, k)
    BY <1>1, <2>1 DEF CopyCovers, M!Front, M!Back, M!Cp, M!dstend
  <2> QED BY <1>4, <2>2, <2>3, CopyReturn
<1>5. CASE ccount < 16 /\ ~M!Bit(ccount, 8) /\ M!Bit(ccount, 4) /\ M!CopyAndReturn({M!Front(0, 4), M!Back(4, 4)})
  <2>1. 4 <= count0 /\ count0 < 8
    BY <1>1, <1>5, CopyLengths
  <2>2. Good(M!Front(0, 4)) /\ Good(M!Back(4, 4))
    BY <1>1, <2>1, FrontBack
  <2>3. \A k \in to .. M!dstend - 1 : CopyCovers({M!Front(0, 4), M!Back(4, 4)}, k)
    BY <1>1, <2>1 DEF CopyCovers, M!Front, M!Back, M!Cp, M!dstend
  <2> QED BY <1>5, <2>2, <2>3, CopyReturn
<1>6. CASE /\ ccount < 16 /\ ~M!Bit(ccount, 8) /\ ~M!Bit(ccount, 4) /\ ccount # 0
           /\ M!CopyAndReturn({M!Front(0, 1), M!Front(ccount \div 2, 1), M!Back(1, 1)})
  <2> DEFINE h == ccount \div 2
             cs == {M!Front(0, 1), M!Front(h, 1), M!Back(1, 1)}
  <2>1. count0 < 4 /\ count0 > 0 /\ h \in Nat /\ h < count0 /\ (count0 = 3 => h = 1)
    BY <1>1, <1>6, CopyLengths
  <2>2. M!CopyAndReturn(cs)
    BY <1>6
  <2> HIDE DEF h
  <2>3. \A c \in cs : Good(c)
    BY <1>1, <2>1, FrontBack
  <2>4. ASSUME NEW k \in to .. M!dstend - 1 PROVE CopyCovers(cs, k)
    <3>1. k = to \/ k = to + count0 - 1 \/ (count0 = 3 /\ k = to + h)
      BY <1>1, <2>1 DEF M!dstend
    <3> QED BY <1>1, <2>1, <3>1 DEF CopyCovers, M!Front, M!Back, M!Cp, M!dstend
  <2> HIDE DEF cs
  <2> QED BY <2>2, <2>3, <2>4, CopyReturn
<1>7. CASE ccount = 0 /\ M!CopyAndReturn({})
  BY <1>1, <1>7, CopyReturn DEF M!dstend
<1> QED BY <1>3, <1>4, <1>5, <1>6, <1>7 DEF M!Small

(* Copies of 33 to 128 bytes.                                               *)
LEMMA CopyMedium == M!Inv /\ M!Medium => M!Inv'
<1> SUFFICES ASSUME M!Inv, M!Medium PROVE M!Inv'
  OBVIOUS
<1>1. M!TypeInv /\ ccount = count0 /\ count0 \in Nat /\ to \in Nat
  BY DEF M!Inv, M!TypeInv, M!Medium
<1>2. CASE 32 < ccount /\ ccount <= 64 /\ M!CopyAndReturn(M!Copy64)
  <2>1. \A c \in M!Copy64 : Good(c)
    BY <1>1, <1>2, FrontBack DEF M!Copy64
  <2>2. \A k \in to .. M!dstend - 1 : CopyCovers(M!Copy64, k)
    BY <1>1, <1>2 DEF CopyCovers, M!Copy64, M!Front, M!Back, M!Cp, M!dstend
  <2> QED BY <1>2, <2>1, <2>2, CopyReturn
<1>3. CASE 64 < ccount /\ ccount <= 96 /\ M!CopyAndReturn(M!Copy96)
  <2>1. \A c \in M!Copy96 : Good(c)
    BY <1>1, <1>3, FrontBack DEF M!Copy64, M!Copy96
  <2>2. \A k \in to .. M!dstend - 1 : CopyCovers(M!Copy96, k)
    BY <1>1, <1>3 DEF CopyCovers, M!Copy64, M!Copy96, M!Front, M!Back, M!Cp, M!dstend
  <2> QED BY <1>3, <2>1, <2>2, CopyReturn
<1>4. CASE 96 < ccount /\ ccount <= 128 /\ M!CopyAndReturn(M!Copy128)
  <2>1. \A c \in M!Copy128 : Good(c)
    BY <1>1, <1>4, FrontBack DEF M!Copy64, M!Copy96, M!Copy128
  <2>2. \A k \in to .. M!dstend - 1 : CopyCovers(M!Copy128, k)
    BY <1>1, <1>4 DEF CopyCovers, M!Copy64, M!Copy96, M!Copy128, M!Front, M!Back, M!Cp, M!dstend
  <2> QED BY <1>4, <2>1, <2>2, CopyReturn
<1> QED BY <1>2, <1>3, <1>4 DEF M!Medium

(* Adding good copies and their loads keeps the accesses in bounds.         *)
LEMMA MoreCopies ==
    ASSUME M!Inv, UNCHANGED M!args, NEW cs, NEW ls,
           copies' = copies \cup cs, loads' = loads \cup ls,
           \A c \in cs : Good(c),
           \A l \in ls : /\ l \in [from : Int, w : Int]
                         /\ dstin <= l.from /\ l.from + l.w <= M!srcend
    PROVE  /\ M!OffsetsAgree' /\ M!AccessesInBounds'
           /\ copies' \subseteq [to : Int, from : Int, w : Int]
           /\ loads' \subseteq [from : Int, w : Int]
           /\ M!dstend' = M!dstend /\ M!srcend' = M!srcend
           /\ \A k \in Int : CopyCovers(copies, k) \/ CopyCovers(cs, k) <=> CopyCovers(copies', k)
<1>1. M!dstend' = M!dstend /\ M!srcend' = M!srcend
  BY DEF M!args, M!dstend, M!srcend
<1>2. M!OffsetsAgree' /\ M!AccessesInBounds'
  BY <1>1 DEF M!Inv, M!OffsetsAgree, M!AccessesInBounds, Good, M!args
<1>3. /\ copies' \subseteq [to : Int, from : Int, w : Int]
      /\ loads' \subseteq [from : Int, w : Int]
  BY DEF M!Inv, M!TypeInv, Good
<1>4. \A k \in Int : CopyCovers(copies, k) \/ CopyCovers(cs, k) <=> CopyCovers(copies', k)
  BY DEF CopyCovers
<1> QED BY <1>1, <1>2, <1>3, <1>4

(* The four pairs a turn of the pipeline stores.                            *)
Turn == {M!Cp(cdst + 16, A, 16), M!Cp(cdst + 32, B, 16), M!Cp(cdst + 48, C, 16), M!Cp(cdst + 64, D, 16)}

(* They are good, and extend what is covered by 64 bytes.                   *)
LEMMA TurnGood ==
    ASSUME M!Inv, cpc \in {"loop64", "from_end"}
    PROVE  /\ \A c \in Turn : Good(c)
           /\ \A k \in cdst + 16 .. cdst + 79 : CopyCovers(Turn, k)
<1>1. /\ dstin \in Nat /\ to \in Nat /\ count0 \in Nat /\ cdst \in Int
      /\ cdst + 16 > to /\ cdst + 80 < to + count0
      /\ A = cdst + 16 + (dstin - to) /\ B = cdst + 32 + (dstin - to)
      /\ C = cdst + 48 + (dstin - to) /\ D = cdst + 64 + (dstin - to)
  BY DEF M!Inv, M!TypeInv, M!PipelineInv, M!dstend
<1> QED BY <1>1 DEF Turn, Good, CopyCovers, M!Cp, M!dstend

(* The first 16 bytes of a long copy.                                       *)
LEMMA CopyLongStart == M!Inv /\ M!LongStart => M!Inv'
<1> SUFFICES ASSUME M!Inv, M!LongStart PROVE M!Inv'
  OBVIOUS
<1> DEFINE t == to % 16
           s == dstin - t
           cs == {M!Cp(to, dstin, 16)}
           ls == {M!Ld(dstin, 16), M!Ld(s + 16, 16), M!Ld(s + 32, 16), M!Ld(s + 48, 16), M!Ld(s + 64, 16)}
<1>1. /\ dstin \in Nat /\ to \in Nat /\ count0 \in Nat /\ count0 > 128 /\ ccount = count0
      /\ t \in 0 .. 15
  BY DEF M!Inv, M!TypeInv, M!LongStart
<1>2. /\ cdst' = to - t /\ csrc' = s + 64 /\ ccount' = count0 + t - 144
      /\ A' = s + 16 /\ B' = s + 32 /\ C' = s + 48 /\ D' = s + 64
      /\ copies' = copies \cup cs /\ loads' = loads \cup ls
      /\ cpc' = IF count0 + t > 144 THEN "loop64" ELSE "from_end"
      /\ UNCHANGED M!args
  BY <1>1 DEF M!LongStart, M!bic
<1> HIDE DEF t
<1>3. \A c \in cs : Good(c)
  BY <1>1 DEF Good, M!Cp, M!dstend
<1>4. \A l \in ls : l \in [from : Int, w : Int] /\ dstin <= l.from /\ l.from + l.w <= M!srcend
  BY <1>1 DEF M!Ld, M!srcend
<1>5. \A k \in to .. cdst' + 15 : CopyCovers(cs, k)
  BY <1>1, <1>2 DEF CopyCovers, M!Cp
<1> HIDE DEF cs, ls
<1>6. /\ M!OffsetsAgree' /\ M!AccessesInBounds'
      /\ copies' \subseteq [to : Int, from : Int, w : Int]
      /\ loads' \subseteq [from : Int, w : Int]
      /\ M!dstend' = M!dstend
      /\ \A k \in Int : CopyCovers(cs, k) => CopyCovers(copies', k)
  BY <1>2, <1>3, <1>4, MoreCopies
<1>7. M!TypeInv' /\ M!AllCopied'
  BY <1>1, <1>2, <1>6 DEF M!TypeInv, M!AllCopied, M!args
<1>8. M!Covered(to, cdst + 16)'
  BY <1>1, <1>2, <1>5, <1>6 DEF M!Covered, CopyCovers, M!args
<1>9. M!PipelineInv'
  BY <1>1, <1>2, <1>8 DEF M!PipelineInv, M!args, M!dstend
<1> QED BY <1>2, <1>6, <1>7, <1>9 DEF M!Inv

(* A turn of the pipelined loop.                                            *)
LEMMA CopyLoop == M!Inv /\ M!Loop64 => M!Inv'
<1> SUFFICES ASSUME M!Inv, M!Loop64 PROVE M!Inv'
  OBVIOUS
<1> DEFINE ls == {M!Ld(csrc + 16, 16), M!Ld(csrc + 32, 16), M!Ld(csrc + 48, 16), M!Ld(csrc + 64, 16)}
<1>1. /\ dstin \in Nat /\ to \in Nat /\ count0 \in Nat /\ count0 > 128
      /\ cdst \in Int /\ csrc = cdst + 64 + (dstin - to) /\ cdst + 16 > to
      /\ ccount = to + count0 - cdst - 144 /\ ccount > 0
      /\ cpc = "loop64"
  BY DEF M!Inv, M!TypeInv, M!PipelineInv, M!Loop64, M!dstend
<1>2. /\ cdst' = cdst + 64 /\ csrc' = csrc + 64 /\ ccount' = ccount - 64
      /\ A' = csrc + 16 /\ B' = csrc + 32 /\ C' = csrc + 48 /\ D' = csrc + 64
      /\ copies' = copies \cup Turn /\ loads' = loads \cup ls
      /\ cpc' = IF ccount > 64 THEN "loop64" ELSE "from_end"
      /\ UNCHANGED M!args
  BY DEF M!Loop64, Turn
<1>3. /\ \A c \in Turn : Good(c)
      /\ \A k \in cdst + 16 .. cdst + 79 : CopyCovers(Turn, k)
  BY <1>1, TurnGood
<1>4. \A l \in ls : l \in [from : Int, w : Int] /\ dstin <= l.from /\ l.from + l.w <= M!srcend
  BY <1>1 DEF M!Ld, M!srcend
<1> HIDE DEF ls
<1>5. /\ M!OffsetsAgree' /\ M!AccessesInBounds'
      /\ copies' \subseteq [to : Int, from : Int, w : Int]
      /\ loads' \subseteq [from : Int, w : Int]
      /\ M!dstend' = M!dstend
      /\ \A k \in Int : CopyCovers(copies, k) \/ CopyCovers(Turn, k) => CopyCovers(copies', k)
  BY <1>2, <1>3, <1>4, MoreCopies
<1>6. M!TypeInv' /\ M!AllCopied'
  BY <1>1, <1>2, <1>5 DEF M!TypeInv, M!AllCopied, M!args
<1>7. M!Covered(to, cdst + 16)'
  <2>1. \A k \in to .. cdst + 15 : CopyCovers(copies, k)
    BY <1>1 DEF M!Inv, M!PipelineInv, M!Covered, CopyCovers
  <2>2. \A k \in to .. cdst + 79 : CopyCovers(copies', k)
    BY <1>1, <1>3, <1>5, <2>1
  <2> QED BY <1>1, <1>2, <2>2 DEF M!Covered, CopyCovers, M!args
<1>8. M!PipelineInv'
  BY <1>1, <1>2, <1>7 DEF M!PipelineInv, M!args, M!dstend
<1> QED BY <1>2, <1>5, <1>6, <1>8 DEF M!Inv

(* The last turn and the last 64 bytes.                                     *)
LEMMA CopyFromEnd == M!Inv /\ M!Copy64FromEnd => M!Inv'
<1> SUFFICES ASSUME M!Inv, M!Copy64FromEnd PROVE M!Inv'
  OBVIOUS
<1> DEFINE end == {M!Back(64, 16), M!Back(48, 16), M!Back(32, 16), M!Back(16, 16)}
           ls == {M!Ld(c.from, 16) : c \in end}
           cs == end \cup Turn
<1>1. /\ dstin \in Nat /\ to \in Nat /\ count0 \in Nat /\ count0 > 128 /\ cdst \in Int
      /\ to + count0 - 64 <= cdst + 80 /\ cdst + 16 > to
      /\ cpc = "from_end" /\ M!TypeInv
  BY DEF M!Inv, M!TypeInv, M!PipelineInv, M!Copy64FromEnd, M!dstend
<1>2. /\ copies' = copies \cup cs /\ loads' = loads \cup ls
      /\ cpc' = "ret" /\ UNCHANGED M!args /\ UNCHANGED M!pipeline
  BY DEF M!Copy64FromEnd, Turn
<1>3. \A c \in end : Good(c)
  BY <1>1, FrontBack
<1>4. /\ \A c \in Turn : Good(c)
      /\ \A k \in cdst + 16 .. cdst + 79 : CopyCovers(Turn, k)
  BY <1>1, TurnGood
<1>5. \A l \in ls : l \in [from : Int, w : Int] /\ dstin <= l.from /\ l.from + l.w <= M!srcend
  BY <1>1 DEF M!Back, M!Cp, M!Ld, M!srcend
<1>6. \A k \in M!dstend - 64 .. M!dstend - 1 : CopyCovers(end, k)
  BY <1>1 DEF CopyCovers, M!Back, M!Cp, M!dstend
<1>7. \A k \in Int : CopyCovers(end, k) \/ CopyCovers(Turn, k) => CopyCovers(cs, k)
  BY DEF CopyCovers
<1>8. \A c \in cs : Good(c)
  BY <1>3, <1>4
<1> HIDE DEF cs, ls, end
<1>9. /\ M!OffsetsAgree' /\ M!AccessesInBounds'
      /\ copies' \subseteq [to : Int, from : Int, w : Int]
      /\ loads' \subseteq [from : Int, w : Int]
      /\ M!dstend' = M!dstend
      /\ \A k \in Int : CopyCovers(copies, k) \/ CopyCovers(cs, k) => CopyCovers(copies', k)
  BY <1>2, <1>5, <1>8, MoreCopies
<1>10. \A k \in to .. cdst + 15 : CopyCovers(copies, k)
  BY <1>1 DEF M!Inv, M!PipelineInv, M!Covered, CopyCovers
<1>11. \A k \in to .. M!dstend - 1 : CopyCovers(copies', k)
  BY <1>1, <1>4, <1>6, <1>7, <1>9, <1>10 DEF M!dstend
<1>12. M!AllCopied'
  BY <1>2, <1>9, <1>11 DEF M!AllCopied, CopyCovers, M!args
<1>13. M!TypeInv'
  BY <1>1, <1>2, <1>9 DEF M!TypeInv, M!args, M!pipeline
<1>14. M!PipelineInv'
  BY <1>2 DEF M!PipelineInv
<1> QED BY <1>2, <1>9, <1>12, <1>13, <1>14 DEF M!Inv

(* Every step of memcpy preserves the invariant.                            *)
LEMMA CopyStepInv == M!Inv /\ [M!Next]_M!vars => M!Inv'
<1>1. ASSUME M!Inv, M!Done \/ UNCHANGED M!vars PROVE M!Inv'
  <2>1. UNCHANGED M!vars
    BY <1>1 DEF M!Done
  <2>2. M!TypeInv' /\ (cpc = "memcpy" => ccount = count0)'
    BY <1>1, <2>1 DEF M!vars, M!Inv, M!TypeInv
  <2>3. M!OffsetsAgree' /\ M!AccessesInBounds' /\ M!AllCopied'
    BY <1>1, <2>1 DEF M!vars, M!Inv, M!OffsetsAgree, M!AccessesInBounds, M!AllCopied, M!srcend, M!dstend
  <2>4. M!PipelineInv'
    BY <1>1, <2>1 DEF M!vars, M!Inv, M!PipelineInv, M!Covered, M!dstend
  <2> QED BY <2>2, <2>3, <2>4 DEF M!Inv
<1> QED BY <1>1, CopySmall, CopyMedium, CopyLongStart, CopyLoop, CopyFromEnd DEF M!Next

(* The invariant of memcpy, for every length and alignment.                 *)
THEOREM CopyInvariance == M!Spec => []M!Inv
  BY CopyInitInv, CopyStepInv, PTL DEF M!Spec

(* memcpy returns with every byte of the destination stored, each from its  *)
(* own offset, also through the pipelined loop.                             *)
THEOREM CopyTheorem == M!Spec => []M!CopiedExactly
<1>1. M!Inv => M!CopiedExactly
  BY DEF M!Inv, M!CopiedExactly
<1> QED BY <1>1, CopyInvariance, PTL

(* memcpy reads and writes nothing outside the caller's two regions.        *)
THEOREM CopyBounds == M!Spec => []M!AccessesInBounds
  BY CopyInvariance, PTL DEF M!Inv

-----------------------------------------------------------------------------
(* The two calls one after the other.  Before the second, memcpy's registers*)
(* hold nothing it uses; from then on its own invariant holds of the buffer *)
(* memset has filled.                                                       *)
AllInv ==
    /\ Inv
    /\ cpc = "idle" => /\ loads = {} /\ copies = {}
                       /\ cdst \in Int /\ A \in Int /\ B \in Int /\ C \in Int /\ D \in Int
    /\ cpc # "idle" => pc = "ret" /\ M!Inv

(* memcpy is called with memset's buffer.                                   *)
LEMMA CopyCalled == AllInv /\ Copy => AllInv'
<1> SUFFICES ASSUME AllInv, Copy PROVE AllInv'
  OBVIOUS
<1>1. Inv /\ UNCHANGED vars /\ pc = "ret"
  BY DEF AllInv, Copy
<1>2. Inv'
  BY ONLY <1>1, StepInv, AddressesAssumption, CountsAssumption, ValuesAssumption
<1>3. pc' = "ret" /\ dstin' = dstin /\ count0' = count0
  BY ONLY <1>1 DEF vars
<1>4. dstin \in Nat /\ count0 \in Nat
  BY ONLY <1>1 DEF Inv, TypeInv
<1>5. /\ to' \in Nat /\ csrc' = dstin /\ ccount' = count0 /\ cpc' = "memcpy"
      /\ loads' = {} /\ copies' = {}
      /\ cdst' \in Int /\ A' \in Int /\ B' \in Int /\ C' \in Int /\ D' \in Int
  BY CopiesAssumption DEF AllInv, Copy
<1>6. M!TypeInv'
  BY ONLY <1>3, <1>4, <1>5 DEF M!TypeInv
<1>7. M!OffsetsAgree' /\ M!AccessesInBounds'
  BY ONLY <1>5 DEF M!OffsetsAgree, M!AccessesInBounds
<1>8. M!AllCopied' /\ M!PipelineInv'
  BY ONLY <1>5 DEF M!AllCopied, M!PipelineInv
<1>9. M!Inv'
  BY ONLY <1>3, <1>5, <1>6, <1>7, <1>8 DEF M!Inv
<1> QED BY ONLY <1>2, <1>3, <1>5, <1>9 DEF AllInv

(* Every step of the program preserves the invariant of both calls.         *)
LEMMA AllStep == AllInv /\ [AllNext]_allVars => AllInv'
<1> SUFFICES ASSUME AllInv, [AllNext]_allVars PROVE AllInv'
  OBVIOUS
<1>1. CASE FillStep
  <2>1. Inv /\ Next /\ pc # "ret" /\ UNCHANGED copyVars /\ cpc = "idle"
    BY ONLY <1>1, AllInv DEF FillStep, AllInv
  <2>2. Inv'
    BY ONLY <2>1, StepInv
  <2> QED BY ONLY <2>1, <2>2, AllInv DEF AllInv, copyVars
<1>2. CASE Copy
  BY ONLY <1>2, AllInv, CopyCalled
<1>3. CASE CopyStep
  <2>1. Inv /\ pc = "ret" /\ M!Inv /\ M!Next /\ UNCHANGED vars
    BY ONLY <1>3, AllInv DEF CopyStep, AllInv
  <2>2. Inv' /\ M!Inv' /\ pc' = "ret"
    BY ONLY <2>1, StepInv, CopyStepInv DEF vars
  <2>3. cpc' # "idle"
    BY ONLY <2>2 DEF M!Inv, M!TypeInv
  <2> QED BY ONLY <2>2, <2>3 DEF AllInv
<1>4. CASE AllDone \/ UNCHANGED allVars
  <2>1. Inv /\ UNCHANGED vars /\ UNCHANGED copyVars
    BY ONLY <1>4, AllInv DEF AllDone, allVars, AllInv
  <2>2. Inv'
    BY ONLY <2>1, StepInv
  <2>3. M!Inv => M!Inv'
    <3>1. UNCHANGED M!vars
      BY ONLY <2>1 DEF vars, copyVars, M!vars
    <3> QED BY ONLY <3>1, CopyStepInv
  <2> QED BY ONLY <2>1, <2>2, <2>3, AllInv DEF AllInv, vars, copyVars
<1> QED BY <1>1, <1>2, <1>3, <1>4 DEF AllNext

(* The invariant of a program that fills a buffer and copies it on, for     *)
(* all addresses, lengths and bytes.                                        *)
THEOREM AllInvariance == AllSpec => []AllInv
<1>1. AllInit => AllInv
  BY InitInv DEF AllInit, AllInv
<1> QED BY <1>1, AllStep, PTL DEF AllSpec

(* memcpy's contract holds of the buffer memset filled, wherever both       *)
(* regions begin and however long they are.                                 *)
THEOREM CopiedTheorem == AllSpec => []CopiedExactly
<1>1. AllInv => CopiedExactly
  BY DEF AllInv, CopiedExactly, M!Inv, M!CopiedExactly
<1> QED BY <1>1, AllInvariance, PTL

(* memset's contract holds in the same program, also while memcpy runs.     *)
THEOREM FilledTheorem == AllSpec => []SetExactly
<1>1. AllInv => SetExactly
  BY DEF AllInv, Inv, SetExactly
<1> QED BY <1>1, AllInvariance, PTL
=============================================================================
