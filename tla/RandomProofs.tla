---------------------------- MODULE RandomProofs ----------------------------
(***************************************************************************)
(* The invariant of the additive generator (RandomInv) is inductive: it    *)
(* holds for every number of threads and buffers, every word size and      *)
(* every interleaving of random, srandom, initstate and setstate.  One     *)
(* lemma per action; the properties follow, and then the refinement of     *)
(* RandomSpec, again with one lemma per action.  The last part is about    *)
(* rand48 and rand: for half words of any even number of values, the code  *)
(* of Rand48 implements the sequences of Lcg48.                            *)
(***************************************************************************)
EXTENDS RandomInv, Rand48, WellFoundedInduction, SequenceTheorems, TLAPS

(* A remainder lies below its modulus.                                      *)
LEMMA ModRange == ASSUME NEW a \in Int, NEW m \in Nat, m > 0
                  PROVE  a % m \in 0 .. m - 1
  OBVIOUS

(* The modulus of the double words is not below that of the words.          *)
LEMMA SquareAboveModulus == M * M \in Nat /\ M * M > 0 /\ M <= M * M
  BY ModulusAssumption

(* A seed is a valid starting value of the 64-bit generator.                *)
LEMMA WordsAreDoubleWords == Word \subseteq DoubleWord
  BY SquareAboveModulus, ModulusAssumption DEF Word, DoubleWord

(* A step of lcg31 stays a 32-bit word.                                     *)
LEMMA Lcg31Word == ASSUME NEW w \in Word PROVE lcg31(w) \in Word
  <1>1. M \div 2 \in Nat /\ M \div 2 > 0 /\ M \div 2 <= M
    BY ModulusAssumption
  <1>2. Mult31 * w + 12345 \in Nat
    BY MultiplierAssumption, ModulusAssumption DEF Word
  <1>3. lcg31(w) \in 0 .. (M \div 2) - 1
    BY <1>1, <1>2, ModRange DEF lcg31
  <1> QED
    BY <1>1, <1>3, ModulusAssumption DEF Word

(* A step of lcg64 stays a 64-bit word.                                     *)
LEMMA Lcg64DoubleWord == ASSUME NEW s \in DoubleWord PROVE lcg64(s) \in DoubleWord
  <1>1. Mult64 * s + 1 \in Nat
    BY MultiplierAssumption, SquareAboveModulus DEF DoubleWord
  <1> QED
    BY <1>1, SquareAboveModulus, ModRange DEF lcg64, DoubleWord

(* The upper half of a 64-bit word, which fills the table, is a word.       *)
LEMMA HighWordWord == ASSUME NEW s \in DoubleWord PROVE HighWord(s) \in Word
  <1>1. s \in Nat /\ s < M * M
    BY SquareAboveModulus DEF DoubleWord
  <1>2. M \in Nat /\ M > 0
    BY ModulusAssumption
  <1> DEFINE q == s \div M
  <1>3. q \in Int /\ q * M <= s /\ s < (q + 1) * M
    BY <1>1, <1>2
  <1>4. q >= 0 /\ q < M
    BY <1>1, <1>2, <1>3
  <1> QED
    BY <1>3, <1>4, <1>2 DEF HighWord, Word

(* Wrapping addition keeps parity: the modulus is even.                     *)
LEMMA SumParity ==
    ASSUME NEW a \in Word, NEW b \in Word
    PROVE  /\ (a + b) % M \in Word
           /\ Odd(a) /\ ~Odd(b) => Odd((a + b) % M)
  <1> DEFINE h == M \div 2
  <1>1. h \in Nat /\ M = 2 * h /\ h > 0
    BY ModulusAssumption
  <1> HIDE DEF h
  <1>2. (a + b) % M = IF a + b < M THEN a + b ELSE a + b - M
    BY ModulusAssumption DEF Word
  <1> QED
    BY <1>1, <1>2, ModulusAssumption DEF Word, Odd

(* The `x[0] |= 1' of srandom_locked.                                       *)
LEMMA MakeOddWord == ASSUME NEW w \in Word PROVE MakeOdd(w) \in Word /\ Odd(MakeOdd(w))
  BY ModulusAssumption DEF Word, MakeOdd, Odd

(* The degree initstate chooses fits the buffer and the header's byte.      *)
LEMMA DegreeFits ==
    ASSUME NEW size \in Nat, size >= 8
    PROVE  /\ Degree(size) \in Degrees
           /\ 4 * (Degree(size) + 1) <= size
  BY DEF Degree, Degrees

(* What a program may pass to each of the four entry points.                *)
LEMMA CallShape ==
    ASSUME NEW c \in Calls
    PROVE  /\ c.f \in {"random", "srandom", "initstate", "setstate"}
           /\ c.f \in {"srandom", "initstate"} => c.seed \in Word
           /\ c.f \in {"initstate", "setstate"} => c.buf \in Buffers
           /\ c.f = "initstate" => c.size \in Nat /\ c.size <= Bytes[c.buf]
  BY CallerAssumption DEF Calls, InitstateCalls

(* The locals of a thread outside every entry point.                        *)
LEMMA NoLocalsType == NoLocals \in Locals
  BY SquareAboveModulus DEF NoLocals, Frame, Locals, Degrees, DoubleWord

(* The pointer x_ptr returns, and that its lazy store does not change it.   *)
LEMMA XPtr ==
    ASSUME TypeOK
    PROVE  /\ x_ptr \in Buffers
           /\ RAND_X' = x_ptr => x_ptr' = x_ptr
           /\ RAND_X' = RAND_X => x_ptr' = x_ptr
  BY DefaultAssumption DEF TypeOK, x_ptr

(* The lock holder is alone.                                                *)
LEMMA Alone ==
    ASSUME LockInv, NEW t \in Threads, pc[t] \in CriticalSection
    PROVE  /\ RANDOM_LOCK # 0
           /\ \A u \in Threads \ {t} : pc[u] \notin CriticalSection
  BY DEF LockInv, MutualExclusion

(* A word stored inside the current buffer disturbs no parked generator.    *)
LEMMA WriteWord ==
    ASSUME TypeOK, WritesInBounds, ParkedInv,
           NEW k \in Slots, NEW w \in Word,
           4 * (k + 2) <= Bytes[x_ptr],
           Write(x_ptr, k, w), x_ptr' = x_ptr, hdr' = hdr
    PROVE  /\ words' \in [Buffers -> [Slots -> Word \cup {Garbage}]]
           /\ words'[x_ptr] = [words[x_ptr] EXCEPT ![k] = w]
           /\ ParkedInv'
           /\ WritesInBounds'
  <1>1. x_ptr \in Buffers
    BY XPtr
  <1>2. /\ words' \in [Buffers -> [Slots -> Word \cup {Garbage}]]
        /\ words'[x_ptr] = [words[x_ptr] EXCEPT ![k] = w]
        /\ \A b \in Buffers \ {x_ptr} : words'[b] = words[b]
    BY <1>1 DEF TypeOK, Write
  <1>3. ParkedInv'
    BY <1>2 DEF ParkedInv, GoodGen
  <1>4. WritesInBounds'
    <2> SUFFICES ASSUME NEW b \in Buffers, NEW m \in Slots, 4 * (m + 2) > Bytes[b]
                 PROVE  words'[b][m] = Garbage
      BY DEF WritesInBounds
    <2>1. CASE b = x_ptr
      <3>1. Bytes[x_ptr] \in Nat /\ m \in Nat /\ k \in Nat
        BY <1>1, CallerAssumption DEF Slots
      <3>2. m # k
        BY <2>1, <3>1
      <3> QED
        BY <1>2, <2>1, <3>2 DEF WritesInBounds, TypeOK
    <2>2. CASE b # x_ptr
      BY <1>2, <2>2 DEF WritesInBounds
    <2> QED
      BY <2>1, <2>2
  <1> QED
    BY <1>2, <1>3, <1>4

(* The statics are found again from the header they are packed into.       *)
LEMMA HeaderOfStatics ==
    ASSUME TypeOK
    PROVE  LET h == Pack(RAND_N, RAND_I, RAND_J)
           IN  h \in Nat /\ HeaderN(h) = RAND_N /\ HeaderI(h) = RAND_I /\ HeaderJ(h) = RAND_J
  <1>1. RAND_N \in 0 .. 255 /\ RAND_I \in 0 .. 255 /\ RAND_J \in 0 .. 255
    BY DEF TypeOK, Degrees
  <1> QED
    BY ONLY <1>1 DEF Pack, HeaderN, HeaderI, HeaderJ

(* savestate writes the header of the current buffer and no other.          *)
LEMMA SaveHeader ==
    ASSUME TypeOK, savestate
    PROVE  /\ x_ptr' = x_ptr
           /\ RAND_X' \in Buffers
           /\ hdr' \in [Buffers -> Nat \cup {Garbage}]
           /\ hdr'[x_ptr] = Pack(RAND_N, RAND_I, RAND_J)
           /\ hdr'[x_ptr] # Garbage
           /\ \A b \in Buffers : b # x_ptr => hdr'[b] = hdr[b]
           /\ \A b \in Buffers : hdr[b] # Garbage => hdr'[b] # Garbage
  <1>1. x_ptr \in Buffers /\ x_ptr' = x_ptr
    BY XPtr DEF savestate
  <1>2. Pack(RAND_N, RAND_I, RAND_J) \in Nat
    BY HeaderOfStatics
  <1> QED
    BY <1>1, <1>2 DEF savestate, TypeOK, Garbage

(* The heart of SomeOddWord: replacing x[i] by x[i] + x[j] keeps an odd     *)
(* word, because i and j differ: if x[i] was the only odd one the sum is    *)
(* odd, and otherwise another odd word stays where it is.                   *)
LEMMA AdditiveStep ==
    ASSUME NEW n \in Degrees, n # 0, NEW i \in 0 .. 62, NEW j \in 0 .. 62,
           GoodIndices(n, i, j), NEW w \in [Slots -> Word \cup {Garbage}], GoodWords(n, w)
    PROVE  /\ (w[i] + w[j]) % M \in Word
           /\ GoodWords(n, [w EXCEPT ![i] = (w[i] + w[j]) % M])
  <1> DEFINE v == (w[i] + w[j]) % M
             w2 == [w EXCEPT ![i] = v]
  <1>1. i \in 0 .. n - 1 /\ j \in 0 .. n - 1 /\ i # j /\ 0 .. n - 1 \subseteq Slots
    BY DEF GoodIndices, Separation, Degrees, Slots
  <1>2. w[i] \in Word /\ w[j] \in Word
    BY <1>1 DEF GoodWords
  <1>3. v \in Word /\ (Odd(w[i]) /\ ~Odd(w[j]) => Odd(v))
    BY <1>2, SumParity
  <1> HIDE DEF v
  <1>4. \A k \in 0 .. n - 1 : w2[k] = IF k = i THEN v ELSE w[k]
    BY <1>1
  <1>5. \A k \in 0 .. n - 1 : w2[k] \in Word
    BY <1>3, <1>4 DEF GoodWords
  <1>6. \E k \in 0 .. n - 1 : Odd(w2[k])
    <2>1. PICK k \in 0 .. n - 1 : Odd(w[k])
      BY DEF GoodWords
    <2>2. CASE Odd(w[j])
      BY <1>1, <1>4, <2>2
    <2>3. CASE ~Odd(w[j]) /\ k = i
      BY <1>1, <1>3, <1>4, <2>1, <2>3
    <2>4. CASE k # i
      BY <1>4, <2>1, <2>4
    <2> QED
      BY <2>2, <2>3, <2>4
  <1> HIDE DEF w2
  <1>7. 0 \in 0 .. n - 1
    BY DEF Degrees
  <1>8. GoodWords(n, w2)
    BY <1>5, <1>6, <1>7 DEF GoodWords
  <1> QED
    BY <1>3, <1>8 DEF w2, v

(* The lock holder t is alone in the critical section.                      *)
Holder(t) ==
    /\ RANDOM_LOCK # 0
    /\ pc[t] \in CriticalSection
    /\ \A u \in Threads \ {t} : pc[u] \notin CriticalSection

(* Nothing is said of the locals of a thread outside the critical section.  *)
LEMMA OthersLocal ==
    ASSUME NEW t \in Threads, Holder(t), LocalInv(t)',
           \A u \in Threads \ {t} : pc'[u] = pc[u]
    PROVE  LocalsInv'
  BY DEF Holder, LocalsInv, LocalInv, CriticalSection

(* The word random stores is a word.                                        *)
LEMMA NewWordWord ==
    ASSUME TypeOK, NEW b \in Buffers, GoodGen(b, RAND_N, RAND_I, RAND_J)
    PROVE  NewWord(words[b]) \in Word
  <1>1. CASE RAND_N = 0
    BY <1>1, Lcg31Word DEF NewWord, GoodGen, GoodWords
  <1>2. CASE RAND_N # 0
    <2>1. words[b] \in [Slots -> Word \cup {Garbage}]
      BY DEF TypeOK
    <2> QED
      BY <1>2, <2>1, AdditiveStep DEF NewWord, GoodGen
  <1> QED
    BY <1>1, <1>2

-----------------------------------------------------------------------------

(* A thread enters one of the four entry points.                            *)
LEMMA CallStep == ASSUME Inv, NEW t \in Threads, Call(t) PROVE Inv'
  <1> USE DefaultAssumption, CallerAssumption DEF Inv, Call, Goto, statics, memory, caller, x_ptr, TypeOK
  <1> USE MaxCallsAssumption
  <1>1. TypeOK'
    BY DEF Labels, CriticalSection, Locals, NoLocals
  <1>2. LockInv'
    BY DEF LockInv, MutualExclusion, CriticalSection
  <1>3. OpInv'
    BY DEF OpInv, CriticalSection, TooSmall, LockInv, MutualExclusion
  <1>4. ActiveInv'
    BY DEF ActiveInv, Reseeding, GoodGen, GoodWords, GoodIndices, Fits, LockInv, MutualExclusion, CriticalSection
  <1>5. ParkedInv'
    BY DEF ParkedInv, GoodGen, GoodWords, Fits
  <1>6. KnownInv'
    BY DEF KnownInv
  <1>7. LocalsInv'
    BY DEF LocalsInv, LocalInv, NewWord, LockInv, MutualExclusion, CriticalSection
  <1>8. WritesInBounds'
    BY DEF WritesInBounds, ActiveInv, Fits
  <1> QED
    BY <1>1, <1>2, <1>3, <1>4, <1>5, <1>6, <1>7, <1>8 DEF Inv

(* initstate refuses a buffer below 8 bytes before taking the lock.         *)
LEMMA InitstateSmallStep == ASSUME Inv, NEW t \in Threads, InitstateSmall(t) PROVE Inv'
  <1> USE DefaultAssumption, CallerAssumption DEF Inv, InitstateSmall, Goto, statics, memory, caller, x_ptr, Return, TooSmall, TypeOK
  <1>1. TypeOK'
    BY NoLocalsType DEF Labels, CriticalSection
  <1>2. LockInv'
    BY DEF LockInv, MutualExclusion, CriticalSection
  <1>3. OpInv'
    BY DEF OpInv, CriticalSection, TooSmall, LockInv, MutualExclusion
  <1>4. ActiveInv'
    BY DEF ActiveInv, Reseeding, GoodGen, GoodWords, GoodIndices, Fits, LockInv, MutualExclusion, CriticalSection
  <1>5. ParkedInv'
    BY DEF ParkedInv, GoodGen, GoodWords, Fits
  <1>6. KnownInv'
    BY DEF KnownInv
  <1>7. LocalsInv'
    BY DEF LocalsInv, LocalInv, NewWord, LockInv, MutualExclusion, CriticalSection
  <1>8. WritesInBounds'
    BY DEF WritesInBounds, ActiveInv, Fits
  <1> QED
    BY <1>1, <1>2, <1>3, <1>4, <1>5, <1>6, <1>7, <1>8 DEF Inv

(* A thread takes the spinlock.                                             *)
LEMMA LockStep == ASSUME Inv, NEW t \in Threads, Lock(t) PROVE Inv'
  <1> USE DefaultAssumption, CallerAssumption DEF Inv, Lock, Goto, statics, memory, caller, x_ptr, TooSmall, TypeOK
  <1>1. TypeOK'
    BY DEF Labels, CriticalSection, Locals, NoLocals
  <1>2. LockInv'
    BY DEF LockInv, MutualExclusion, CriticalSection
  <1>3. OpInv'
    BY CallShape DEF OpInv, CriticalSection, TooSmall
  <1>4. ActiveInv'
    BY DEF ActiveInv, Reseeding, GoodGen, GoodWords, GoodIndices, Fits, LockInv, MutualExclusion, CriticalSection
  <1>5. ParkedInv'
    BY DEF ParkedInv, GoodGen, GoodWords, Fits
  <1>6. KnownInv'
    BY DEF KnownInv
  <1>7. LocalsInv'
    BY DEF LocalsInv, LocalInv, NewWord, LockInv, MutualExclusion, CriticalSection
  <1>8. WritesInBounds'
    BY DEF WritesInBounds, ActiveInv, Fits
  <1> QED
    BY <1>1, <1>2, <1>3, <1>4, <1>5, <1>6, <1>7, <1>8 DEF Inv

(* A thread releases the spinlock and returns.                              *)
LEMMA UnlockStep == ASSUME Inv, NEW t \in Threads, Unlock(t) PROVE Inv'
  <1> USE DefaultAssumption, CallerAssumption DEF Inv, Unlock, Goto, statics, memory, caller, x_ptr, Return, TypeOK
  <1>1. TypeOK'
    <2>1. known' \subseteq Buffers
      BY CallShape DEF OpInv, LocalsInv, LocalInv
    <2>2. pc' \in [Threads -> Labels]
      BY DEF Labels, CriticalSection
    <2>3. op' \in [Threads -> Calls \cup {NoCall}]
      OBVIOUS
    <2>4. loc' \in [Threads -> Locals]
      BY NoLocalsType
    <2> QED
      BY <2>1, <2>2, <2>3, <2>4
  <1>2. LockInv'
    BY SMTT(20) DEF LockInv, MutualExclusion, CriticalSection
  <1>3. OpInv'
    BY SMTT(20) DEF OpInv, CriticalSection, TooSmall, LockInv, MutualExclusion
  <1>4. ActiveInv'
    BY DEF ActiveInv, Reseeding, GoodGen, GoodWords, GoodIndices, Fits, LockInv, MutualExclusion, CriticalSection
  <1>5. ParkedInv'
    BY DEF ParkedInv, GoodGen, GoodWords, Fits
  <1>6. KnownInv'
    BY CallShape DEF KnownInv, OpInv, LocalsInv, LocalInv
  <1>7. LocalsInv'
    BY DEF LocalsInv, LocalInv, NewWord, LockInv, MutualExclusion, CriticalSection
  <1>8. WritesInBounds'
    BY DEF WritesInBounds, ActiveInv, Fits
  <1> QED
    BY <1>1, <1>2, <1>3, <1>4, <1>5, <1>6, <1>7, <1>8 DEF Inv

(* random reads its two words.                                              *)
LEMMA ReadStep == ASSUME Inv, NEW t \in Threads, Read(t) PROVE Inv'
  <1> USE DEF Inv
  <1>1. x_ptr \in Buffers /\ x_ptr' = x_ptr /\ RAND_X' = x_ptr
    BY XPtr DEF Read
  <1>2. Holder(t)
    BY Alone DEF Read, Goto, CriticalSection, TypeOK, Holder
  <1>3. GoodGen(x_ptr, RAND_N, RAND_I, RAND_J)
    BY <1>2 DEF ActiveInv, Reseeding, CriticalSection, Read, Goto, Holder
  <1>4. NewWord(words[x_ptr]) \in Word
    BY <1>1, <1>3, NewWordWord
  <1>5. TypeOK'
    <2>1. NewWord(words[x_ptr]) \in DoubleWord
      BY <1>4, WordsAreDoubleWords
    <2>2. loc' \in [Threads -> Locals]
      BY <1>1, <2>1 DEF Locals, Frame, Read, TypeOK
    <2> QED
      BY <1>1, <2>2 DEF TypeOK, Labels, CriticalSection, Read, Goto, memory, caller
  <1>6. LockInv' /\ OpInv'
    BY <1>2 DEF LockInv, MutualExclusion, OpInv, TooSmall, CriticalSection, Read, Goto, caller, TypeOK, Holder
  <1>7. ActiveInv' /\ ParkedInv' /\ KnownInv' /\ WritesInBounds'
    BY <1>1, <1>3 DEF ActiveInv, ParkedInv, GoodGen, KnownInv, WritesInBounds, Read, memory, caller
  <1>8. LocalsInv'
    <2>1. LocalInv(t)'
      BY <1>1 DEF LocalInv, NewWord, Frame, Read, Goto, memory, TypeOK
    <2> QED
      BY <1>2, <2>1, OthersLocal DEF Read, Goto, LocalsInv, TypeOK
  <1> QED
    BY <1>5, <1>6, <1>7, <1>8

(* random with a degree of zero steps the one-word generator.               *)
LEMMA StoreLcgStep == ASSUME Inv, NEW t \in Threads, StoreLcg(t) PROVE Inv'
  <1> USE DEF Inv
  <1>1. x_ptr \in Buffers /\ x_ptr' = x_ptr
    BY XPtr DEF StoreLcg, statics
  <1>2. Holder(t)
    BY Alone DEF StoreLcg, Goto, CriticalSection, TypeOK, Holder
  <1>3. /\ loc[t].x = x_ptr /\ RAND_N = 0
        /\ loc[t].v = NewWord(words[x_ptr])
    BY DEF LocalsInv, LocalInv, StoreLcg, Goto
  <1>4. GoodGen(x_ptr, RAND_N, RAND_I, RAND_J)
    BY <1>2 DEF ActiveInv, Reseeding, CriticalSection, StoreLcg, Goto, Holder
  <1>5. loc[t].v \in Word
    BY <1>1, <1>3, <1>4, NewWordWord
  <1>6. /\ words' \in [Buffers -> [Slots -> Word \cup {Garbage}]]
        /\ words'[x_ptr] = [words[x_ptr] EXCEPT ![0] = loc[t].v]
        /\ ParkedInv' /\ WritesInBounds'
    <2>1. 0 \in Slots /\ 4 * (0 + 2) <= Bytes[x_ptr]
      BY <1>4 DEF GoodGen, Fits, Slots
    <2>2. Write(x_ptr, 0, loc[t].v) /\ hdr' = hdr
      BY <1>3 DEF StoreLcg
    <2> QED
      BY <1>1, <1>5, <2>1, <2>2, WriteWord
  <1>7. TypeOK'
    BY <1>6 DEF TypeOK, Labels, CriticalSection, StoreLcg, Goto, statics, caller
  <1>8. LockInv' /\ OpInv'
    BY <1>2 DEF LockInv, MutualExclusion, OpInv, TooSmall, CriticalSection, StoreLcg, Goto, caller, TypeOK, Holder
  <1>9. ActiveInv'
    <2>1. words'[x_ptr][0] \in Word
      BY <1>1, <1>5, <1>6 DEF Slots, TypeOK
    <2>2. GoodWords(0, words'[x_ptr])
      BY <2>1 DEF GoodWords
    <2> QED
      BY <1>1, <1>3, <1>4, <2>2 DEF ActiveInv, GoodGen, StoreLcg, statics
  <1>10. KnownInv'
    BY DEF KnownInv, StoreLcg, caller
  <1>11. LocalsInv'
    <2>1. op[t].f = "random" /\ LocalInv(t)'
      BY DEF LocalInv, OpInv, StoreLcg, Goto, TypeOK, caller
    <2> QED
      BY <1>2, <2>1, OthersLocal DEF StoreLcg, Goto, LocalsInv, TypeOK
  <1> QED
    BY <1>6, <1>7, <1>8, <1>9, <1>10, <1>11

(* random stores the sum.                                                   *)
LEMMA StoreStep == ASSUME Inv, NEW t \in Threads, Store(t) PROVE Inv'
  <1> USE DEF Inv
  <1>1. x_ptr \in Buffers /\ x_ptr' = x_ptr
    BY XPtr DEF Store, statics
  <1>2. Holder(t)
    BY Alone DEF Store, Goto, CriticalSection, TypeOK, Holder
  <1>3. /\ loc[t].x = x_ptr /\ RAND_N # 0 /\ loc[t].i = RAND_I
        /\ loc[t].v = NewWord(words[x_ptr])
    BY DEF LocalsInv, LocalInv, Store, Goto
  <1>4. GoodGen(x_ptr, RAND_N, RAND_I, RAND_J)
    BY <1>2 DEF ActiveInv, Reseeding, CriticalSection, Store, Goto, Holder
  <1>5. loc[t].v \in Word
    BY <1>1, <1>3, <1>4, NewWordWord
  <1>6. /\ words' \in [Buffers -> [Slots -> Word \cup {Garbage}]]
        /\ words'[x_ptr] = [words[x_ptr] EXCEPT ![RAND_I] = loc[t].v]
        /\ ParkedInv' /\ WritesInBounds'
    <2>1. Bytes[x_ptr] \in Nat
      BY <1>1, CallerAssumption
    <2>2. RAND_I \in Slots /\ 4 * (RAND_I + 2) <= Bytes[x_ptr]
      BY <1>3, <1>4, <2>1 DEF GoodGen, Fits, Slots, GoodIndices, Degrees
    <2>3. Write(x_ptr, RAND_I, loc[t].v) /\ hdr' = hdr
      BY <1>3 DEF Store
    <2> QED
      BY <1>1, <1>5, <2>2, <2>3, WriteWord
  <1>7. TypeOK'
    BY <1>6 DEF TypeOK, Labels, CriticalSection, Store, Goto, statics, caller
  <1>8. LockInv' /\ OpInv'
    BY <1>2 DEF LockInv, MutualExclusion, OpInv, TooSmall, CriticalSection, Store, Goto, caller, TypeOK, Holder
  <1>9. ActiveInv'
    <2>1. loc[t].v = (words[x_ptr][RAND_I] + words[x_ptr][RAND_J]) % M
      BY <1>3 DEF NewWord
    <2>2. words[x_ptr] \in [Slots -> Word \cup {Garbage}]
      BY <1>1 DEF TypeOK
    <2>3. GoodWords(RAND_N, words'[x_ptr])
      <3> DEFINE w == words[x_ptr]
      <3>1. GoodWords(RAND_N, [w EXCEPT ![RAND_I] = (w[RAND_I] + w[RAND_J]) % M])
        BY <1>3, <1>4, <2>2, AdditiveStep DEF GoodGen
      <3> QED
        BY <1>6, <2>1, <3>1
    <2> QED
      BY <1>1, <1>4, <2>3 DEF ActiveInv, GoodGen, Store, statics
  <1>10. KnownInv'
    BY DEF KnownInv, Store, caller
  <1>11. LocalsInv'
    <2>1. op[t].f = "random" /\ LocalInv(t)'
      BY <1>1, <1>3 DEF LocalsInv, LocalInv, OpInv, Store, Goto, TypeOK, caller, statics
    <2> QED
      BY <1>2, <2>1, OthersLocal DEF Store, Goto, LocalsInv, TypeOK
  <1> QED
    BY <1>6, <1>7, <1>8, <1>9, <1>10, <1>11

(* random moves both indices on, each with its own wrap.                    *)
LEMMA AdvanceIndicesStep == ASSUME Inv, NEW t \in Threads, AdvanceIndices(t) PROVE Inv'
  <1> USE DEF Inv
  <1>1. x_ptr \in Buffers /\ x_ptr' = x_ptr
    BY XPtr DEF AdvanceIndices
  <1>2. Holder(t)
    BY Alone DEF AdvanceIndices, Goto, CriticalSection, TypeOK, Holder
  <1>3. /\ RAND_N # 0
        /\ RAND_I' = Increment(RAND_I, RAND_N)
        /\ RAND_J' = Increment(RAND_J, RAND_N)
    BY DEF LocalsInv, LocalInv, AdvanceIndices, Goto
  <1>4. GoodGen(x_ptr, RAND_N, RAND_I, RAND_J)
    BY <1>2 DEF ActiveInv, Reseeding, CriticalSection, AdvanceIndices, Goto, Holder
  <1>5. RAND_I' \in 0 .. 62 /\ RAND_J' \in 0 .. 62 /\ GoodIndices(RAND_N, RAND_I', RAND_J')
    BY <1>3, <1>4 DEF GoodGen, GoodIndices, Increment, Degrees, Separation
  <1>6. TypeOK'
    BY <1>5 DEF TypeOK, Labels, CriticalSection, AdvanceIndices, Goto, memory, caller
  <1>7. LockInv' /\ OpInv'
    BY <1>2 DEF LockInv, MutualExclusion, OpInv, TooSmall, CriticalSection, AdvanceIndices, Goto, caller, TypeOK, Holder
  <1>8. ActiveInv' /\ ParkedInv' /\ KnownInv' /\ WritesInBounds'
    BY <1>1, <1>4, <1>5 DEF ActiveInv, ParkedInv, GoodGen, KnownInv, WritesInBounds, AdvanceIndices, memory, caller
  <1>9. LocalsInv'
    <2>1. op[t].f = "random" /\ LocalInv(t)'
      BY DEF LocalInv, OpInv, AdvanceIndices, Goto, TypeOK, caller
    <2> QED
      BY <1>2, <2>1, OthersLocal DEF AdvanceIndices, Goto, LocalsInv, TypeOK
  <1> QED
    BY <1>6, <1>7, <1>8, <1>9

(* srandom of a generator of degree zero.                                   *)
LEMMA SeedLcgStep == ASSUME Inv, NEW t \in Threads, SeedLcg(t) PROVE Inv'
  <1> USE DEF Inv
  <1>1. x_ptr \in Buffers /\ x_ptr' = x_ptr /\ RAND_X' = x_ptr
    BY XPtr DEF SeedLcg
  <1>2. Holder(t)
    BY Alone DEF SeedLcg, Goto, CriticalSection, TypeOK, Holder
  <1>3. op[t] \in Calls /\ op[t].f \in {"srandom", "initstate"} /\ op[t].seed \in Word
    BY CallShape DEF OpInv, SeedLcg, Goto
  <1>4. /\ words' \in [Buffers -> [Slots -> Word \cup {Garbage}]]
        /\ words'[x_ptr] = [words[x_ptr] EXCEPT ![0] = op[t].seed]
        /\ ParkedInv' /\ WritesInBounds'
    <2>1. 0 \in Slots /\ 4 * (0 + 2) <= Bytes[x_ptr]
      BY DEF ActiveInv, Fits, Slots
    <2>2. Write(x_ptr, 0, op[t].seed) /\ hdr' = hdr
      BY DEF SeedLcg
    <2> QED
      BY <1>1, <1>3, <2>1, <2>2, WriteWord
  <1>5. TypeOK'
    BY <1>1, <1>4 DEF TypeOK, Labels, CriticalSection, SeedLcg, Goto, AfterSeed, caller
  <1>6. LockInv' /\ OpInv'
    BY <1>2, <1>3 DEF LockInv, MutualExclusion, OpInv, TooSmall, CriticalSection, SeedLcg,
                      Goto, AfterSeed, caller, TypeOK, Holder
  <1>7. ActiveInv'
    <2>1. words'[x_ptr][0] \in Word
      BY <1>1, <1>3, <1>4 DEF Slots, TypeOK
    <2>2. GoodWords(0, words'[x_ptr])
      BY <2>1 DEF GoodWords
    <2> QED
      BY <1>1, <2>2 DEF ActiveInv, GoodGen, GoodIndices, SeedLcg, TypeOK
  <1>8. KnownInv'
    BY DEF KnownInv, SeedLcg, caller
  <1>9. LocalsInv'
    <2>1. op[t].f = "initstate" => /\ RAND_X = op[t].buf /\ op[t].buf = x_ptr
                                   /\ loc[t].old \in Buffers /\ hdr[loc[t].old] # Garbage
      BY <1>3, CallShape, DefaultAssumption DEF LocalsInv, LocalInv, SeedLcg, Goto, x_ptr
    <2>2. LocalInv(t)'
      BY <1>1, <1>3, <2>1 DEF LocalInv, SeedLcg, Goto, AfterSeed, TypeOK, caller
    <2> QED
      BY <1>2, <2>2, OthersLocal DEF SeedLcg, Goto, LocalsInv, TypeOK
  <1> QED
    BY <1>4, <1>5, <1>6, <1>7, <1>8, <1>9

(* srandom resets the indices.                                              *)
LEMMA SeedStartStep == ASSUME Inv, NEW t \in Threads, SeedStart(t) PROVE Inv'
  <1> USE DEF Inv
  <1>1. x_ptr \in Buffers /\ x_ptr' = x_ptr /\ RAND_X' = x_ptr
    BY XPtr DEF SeedStart
  <1>2. Holder(t)
    BY Alone DEF SeedStart, Goto, CriticalSection, TypeOK, Holder
  <1>3. op[t] \in Calls /\ op[t].f \in {"srandom", "initstate"} /\ op[t].seed \in DoubleWord
    BY CallShape, WordsAreDoubleWords DEF OpInv, SeedStart, Goto
  <1>4. /\ loc' \in [Threads -> Locals]
        /\ loc'[t].x = x_ptr /\ loc'[t].n = RAND_N /\ loc'[t].i = 0
        /\ loc'[t].old = loc[t].old
    <2> DEFINE r == Frame(x_ptr, RAND_N, 0, 0, op[t].seed, loc[t].old)
    <2>1. loc[t] \in Locals /\ RAND_N \in Degrees
      BY DEF TypeOK
    <2>2. /\ r \in Locals /\ r.x = x_ptr /\ r.n = RAND_N /\ r.i = 0
          /\ r.old = loc[t].old
      BY <1>1, <1>3, <2>1 DEF Locals, Frame
    <2>3. loc' = [loc EXCEPT ![t] = r]
      BY DEF SeedStart
    <2> HIDE DEF r
    <2> QED
      BY <2>2, <2>3 DEF TypeOK
  <1>5. TypeOK'
    BY <1>1, <1>4 DEF TypeOK, Labels, CriticalSection, SeedStart, Goto, Separation, memory, caller
  <1>6. LockInv' /\ OpInv'
    BY <1>2, <1>3 DEF LockInv, MutualExclusion, OpInv, TooSmall, CriticalSection, SeedStart,
                      Goto, caller, TypeOK, Holder
  <1>7. ActiveInv' /\ ParkedInv' /\ KnownInv' /\ WritesInBounds'
    BY <1>1 DEF ActiveInv, Reseeding, ParkedInv, GoodGen, KnownInv, WritesInBounds, SeedStart,
                Goto, TypeOK, memory, caller
  <1>8. LocalsInv'
    <2>1. op[t].f = "initstate" => /\ RAND_X = op[t].buf /\ op[t].buf = x_ptr
                                   /\ loc[t].old \in Buffers /\ hdr[loc[t].old] # Garbage
      BY <1>3, CallShape, DefaultAssumption DEF LocalsInv, LocalInv, SeedStart, Goto, x_ptr
    <2>2. LocalInv(t)'
      BY <1>1, <1>3, <1>4, <2>1 DEF LocalInv, SeedStart, Goto, TypeOK, Degrees, memory, caller
    <2> QED
      BY <1>2, <2>2, OthersLocal DEF SeedStart, Goto, LocalsInv, TypeOK
  <1> QED
    BY <1>5, <1>6, <1>7, <1>8

(* srandom fills the table, one word a step.                                *)
LEMMA SeedFillStep == ASSUME Inv, NEW t \in Threads, SeedFill(t) PROVE Inv'
  <1> USE DEF Inv
  <1>1. x_ptr \in Buffers /\ x_ptr' = x_ptr
    BY XPtr DEF SeedFill, statics
  <1>2. Holder(t)
    BY Alone DEF SeedFill, Goto, CriticalSection, TypeOK, Holder
  <1>3. /\ loc[t].x = x_ptr /\ loc[t].n = RAND_N /\ RAND_N # 0
        /\ RAND_I = Separation(RAND_N) /\ RAND_J = 0
        /\ \A k \in 0 .. loc[t].i - 1 : words[x_ptr][k] \in Word
    BY DEF LocalsInv, LocalInv, SeedFill, Goto
  <1> DEFINE i == loc[t].i
             s == lcg64(loc[t].v)
  <1>4. loc[t] \in Locals /\ i \in 0 .. 62 /\ i < RAND_N /\ s \in DoubleWord
    BY <1>3, Lcg64DoubleWord DEF TypeOK, Locals, SeedFill, Degrees
  <1> HIDE DEF s
  <1>5. HighWord(s) \in Word
    BY <1>4, HighWordWord
  <1>6. /\ words' \in [Buffers -> [Slots -> Word \cup {Garbage}]]
        /\ words'[x_ptr] = [words[x_ptr] EXCEPT ![i] = HighWord(s)]
        /\ ParkedInv' /\ WritesInBounds'
    <2>1. Bytes[x_ptr] \in Nat
      BY <1>1, CallerAssumption
    <2>2. i \in Slots /\ 4 * (i + 2) <= Bytes[x_ptr]
      BY <1>4, <2>1 DEF ActiveInv, Fits, Slots, TypeOK, Degrees
    <2>3. Write(x_ptr, i, HighWord(s)) /\ hdr' = hdr
      BY <1>3 DEF SeedFill, s
    <2> QED
      BY <1>1, <1>5, <2>2, <2>3, WriteWord
  <1>7. /\ loc' \in [Threads -> Locals]
        /\ loc'[t].x = loc[t].x /\ loc'[t].n = loc[t].n /\ loc'[t].i = i + 1
        /\ loc'[t].old = loc[t].old
    <2> DEFINE r == Frame(loc[t].x, loc[t].n, i + 1, 0, s, loc[t].old)
    <2>1. /\ r \in Locals /\ r.x = loc[t].x /\ r.n = loc[t].n /\ r.i = i + 1
          /\ r.old = loc[t].old
      BY <1>4 DEF Locals, Frame
    <2>2. loc' = [loc EXCEPT ![t] = r]
      BY DEF SeedFill, s
    <2> HIDE DEF r
    <2> QED
      BY <2>1, <2>2 DEF TypeOK
  <1>8. TypeOK'
    BY <1>6, <1>7 DEF TypeOK, Labels, CriticalSection, SeedFill, Goto, statics, caller
  <1>9. LockInv' /\ OpInv'
    BY <1>2 DEF LockInv, MutualExclusion, OpInv, TooSmall, CriticalSection, SeedFill,
                Goto, caller, TypeOK, Holder
  <1>10. ActiveInv' /\ KnownInv'
    BY <1>1 DEF ActiveInv, Reseeding, KnownInv, SeedFill, Goto, TypeOK, statics, caller
  <1>11. LocalsInv'
    <2>1. \A k \in 0 .. i : words'[x_ptr][k] \in Word
      BY <1>1, <1>3, <1>4, <1>5, <1>6 DEF TypeOK, Slots
    <2>2. /\ pc[t] = "fill" /\ pc'[t] = "fill" /\ op' = op /\ hdr' = hdr
          /\ RAND_X' = RAND_X /\ RAND_N' = RAND_N /\ RAND_I' = RAND_I /\ RAND_J' = RAND_J
      BY DEF SeedFill, Goto, TypeOK, statics, caller
    <2>3. i + 1 <= RAND_N
      BY <1>4 DEF TypeOK, Degrees
    <2>4. \A k \in 0 .. loc'[t].i - 1 : words'[x_ptr][k] \in Word
      BY <1>4, <1>7, <2>1
    <2>5. LocalInv(t)'
      BY <1>1, <1>3, <1>7, <2>2, <2>3, <2>4 DEF LocalsInv, LocalInv
    <2> QED
      BY <1>2, <2>5, OthersLocal DEF SeedFill, Goto, LocalsInv, TypeOK
  <1> QED
    BY <1>6, <1>8, <1>9, <1>10, <1>11

(* srandom makes the first word odd.                                        *)
LEMMA SeedOddStep == ASSUME Inv, NEW t \in Threads, SeedOdd(t) PROVE Inv'
  <1> USE DEF Inv
  <1>1. x_ptr \in Buffers /\ x_ptr' = x_ptr
    BY XPtr DEF SeedOdd, statics
  <1>2. Holder(t)
    BY Alone DEF SeedOdd, Goto, CriticalSection, TypeOK, Holder
  <1>3. /\ loc[t].x = x_ptr /\ RAND_N # 0
        /\ RAND_I = Separation(RAND_N) /\ RAND_J = 0
        /\ \A k \in 0 .. RAND_N - 1 : words[x_ptr][k] \in Word
        /\ op[t].f \in {"srandom", "initstate"}
    BY DEF LocalsInv, LocalInv, OpInv, SeedOdd, Goto
  <1> DEFINE w == MakeOdd(words[x_ptr][0])
  <1>4. 0 .. RAND_N - 1 \subseteq Slots /\ 0 \in 0 .. RAND_N - 1 /\ RAND_N \in Degrees
    BY <1>3 DEF TypeOK, Degrees, Slots
  <1>5. w \in Word /\ Odd(w)
    BY <1>3, <1>4, MakeOddWord
  <1> HIDE DEF w
  <1>6. /\ words' \in [Buffers -> [Slots -> Word \cup {Garbage}]]
        /\ words'[x_ptr] = [words[x_ptr] EXCEPT ![0] = w]
        /\ ParkedInv' /\ WritesInBounds'
    <2>1. 0 \in Slots /\ 4 * (0 + 2) <= Bytes[x_ptr]
      BY DEF ActiveInv, Fits, Slots
    <2>2. Write(x_ptr, 0, w) /\ hdr' = hdr
      BY <1>3 DEF SeedOdd, w
    <2> QED
      BY <1>1, <1>5, <2>1, <2>2, WriteWord
  <1>7. TypeOK'
    BY <1>6 DEF TypeOK, Labels, CriticalSection, SeedOdd, Goto, AfterSeed, statics, caller
  <1>8. LockInv' /\ OpInv'
    BY <1>2, <1>3 DEF LockInv, MutualExclusion, OpInv, TooSmall, CriticalSection, SeedOdd,
                Goto, AfterSeed, caller, TypeOK, Holder
  <1>9. ActiveInv'
    <2>1. \A k \in 0 .. RAND_N - 1 : words'[x_ptr][k] = IF k = 0 THEN w ELSE words[x_ptr][k]
      BY <1>1, <1>4, <1>6 DEF TypeOK
    <2>2. GoodWords(RAND_N, words'[x_ptr])
      BY <1>3, <1>4, <1>5, <2>1 DEF GoodWords
    <2>3. GoodIndices(RAND_N, RAND_I, RAND_J)
      BY <1>3, <1>4 DEF GoodIndices, Separation, Degrees
    <2> QED
      BY <1>1, <2>2, <2>3 DEF ActiveInv, GoodGen, SeedOdd, TypeOK, statics
  <1>10. KnownInv'
    BY DEF KnownInv, SeedOdd, caller
  <1>11. LocalsInv'
    <2>1. LocalInv(t)'
      BY <1>1, <1>3 DEF LocalsInv, LocalInv, SeedOdd, Goto, AfterSeed, TypeOK, statics, caller
    <2> QED
      BY <1>2, <2>1, OthersLocal DEF SeedOdd, Goto, LocalsInv, TypeOK
  <1> QED
    BY <1>6, <1>7, <1>8, <1>9, <1>10, <1>11

(* initstate and setstate park the current generator.                       *)
LEMMA SaveOldStep == ASSUME Inv, NEW t \in Threads, SaveOld(t) PROVE Inv'
  <1> USE DEF Inv
  <1>1. x_ptr \in Buffers
    BY XPtr
  <1>2. Holder(t)
    BY Alone DEF SaveOld, Goto, CriticalSection, TypeOK, Holder
  <1>3. /\ x_ptr' = x_ptr /\ RAND_X' \in Buffers
        /\ hdr' \in [Buffers -> Nat \cup {Garbage}]
        /\ hdr'[x_ptr] = Pack(RAND_N, RAND_I, RAND_J)
        /\ hdr'[x_ptr] # Garbage
        /\ \A b \in Buffers : b # x_ptr => hdr'[b] = hdr[b]
        /\ \A b \in Buffers : hdr[b] # Garbage => hdr'[b] # Garbage
    BY SaveHeader DEF SaveOld
  <1>4. GoodGen(x_ptr, RAND_N, RAND_I, RAND_J)
    BY <1>2 DEF ActiveInv, Reseeding, CriticalSection, SaveOld, Goto, Holder
  <1>5. loc' \in [Threads -> Locals] /\ loc'[t].old = x_ptr
    <2> DEFINE r == Frame(NULL, 0, 0, 0, 0, x_ptr)
    <2>1. r \in Locals /\ r.old = x_ptr
      BY <1>1, NoLocalsType DEF Locals, Frame, NoLocals
    <2>2. loc' = [loc EXCEPT ![t] = r]
      BY DEF SaveOld
    <2> HIDE DEF r
    <2> QED
      BY <2>1, <2>2 DEF TypeOK
  <1>6. op[t].f \in {"initstate", "setstate"}
    BY DEF OpInv, SaveOld, Goto
  <1>7. TypeOK'
    BY <1>3, <1>5 DEF TypeOK, Labels, CriticalSection, SaveOld, Goto, caller
  <1>8. LockInv' /\ OpInv'
    BY <1>2, <1>6 DEF LockInv, MutualExclusion, OpInv, TooSmall, CriticalSection, SaveOld,
                      Goto, caller, TypeOK, Holder
  <1>9. ActiveInv' /\ ParkedInv' /\ KnownInv' /\ WritesInBounds'
    BY <1>3, <1>4 DEF ActiveInv, ParkedInv, GoodGen, KnownInv, WritesInBounds, SaveOld, caller, TypeOK
  <1>10. LocalsInv'
    <2>1. LocalInv(t)'
      BY <1>1, <1>3, <1>5, <1>6 DEF LocalInv, SaveOld, Goto, TypeOK, caller
    <2> QED
      BY <1>2, <2>1, OthersLocal DEF SaveOld, Goto, LocalsInv, TypeOK
  <1> QED
    BY <1>7, <1>8, <1>9, <1>10

(* initstate points the statics at the new buffer.                          *)
LEMMA SwitchStep == ASSUME Inv, NEW t \in Threads, Switch(t) PROVE Inv'
  <1> USE DEF Inv
  <1>1. Holder(t)
    BY Alone DEF Switch, Goto, CriticalSection, TypeOK, Holder
  <1>2. /\ op[t].buf \in Buffers /\ op[t].f = "initstate" /\ op[t].size \in Nat
        /\ op[t].size >= 8 /\ op[t].size <= Bytes[op[t].buf]
    BY CallShape DEF OpInv, Switch, Goto, TooSmall, CriticalSection
  <1>3. x_ptr \in Buffers /\ x_ptr' = op[t].buf
    BY <1>2, XPtr, DefaultAssumption DEF Switch, x_ptr
  <1>4. RAND_N' \in Degrees /\ Fits(op[t].buf, RAND_N')
    <2>1. Bytes[op[t].buf] \in Nat
      BY <1>2, CallerAssumption
    <2>2. RAND_N' \in Degrees /\ 4 * (RAND_N' + 1) <= op[t].size
      BY <1>2, DegreeFits DEF Switch
    <2> QED
      BY <1>2, <2>1, <2>2 DEF Fits, Degrees
  <1>5. TypeOK'
    BY <1>2, <1>4 DEF TypeOK, Labels, CriticalSection, Switch, Goto, memory, caller
  <1>6. LockInv' /\ OpInv'
    BY <1>1, <1>2 DEF LockInv, MutualExclusion, OpInv, TooSmall, CriticalSection, Switch,
                      Goto, caller, TypeOK, Holder
  <1>7. ActiveInv'
    BY <1>2, <1>3, <1>4 DEF ActiveInv, Reseeding, Switch, Goto, TypeOK, caller
  <1>8. ParkedInv'
    <2>1. GoodGen(x_ptr, RAND_N, RAND_I, RAND_J)
      BY <1>1 DEF ActiveInv, Reseeding, CriticalSection, Switch, Goto, Holder
    <2>2. hdr[x_ptr] = Pack(RAND_N, RAND_I, RAND_J)
      BY DEF LocalsInv, LocalInv, Switch, Goto
    <2>3. GoodGen(x_ptr, HeaderN(hdr[x_ptr]), HeaderI(hdr[x_ptr]), HeaderJ(hdr[x_ptr]))
      BY <2>1, <2>2, HeaderOfStatics
    <2> QED
      BY <2>3 DEF ParkedInv, GoodGen, Switch, memory
  <1>9. KnownInv' /\ WritesInBounds'
    BY DEF KnownInv, WritesInBounds, Switch, memory, caller
  <1>10. LocalsInv'
    <2>1. LocalInv(t)'
      BY <1>2 DEF LocalsInv, LocalInv, Switch, Goto, TypeOK, memory, caller
    <2> QED
      BY <1>1, <2>1, OthersLocal DEF Switch, Goto, LocalsInv, TypeOK
  <1> QED
    BY <1>5, <1>6, <1>7, <1>8, <1>9, <1>10

(* initstate writes the header of the new generator.                        *)
LEMMA SaveNewStep == ASSUME Inv, NEW t \in Threads, SaveNew(t) PROVE Inv'
  <1> USE DEF Inv
  <1>1. x_ptr \in Buffers
    BY XPtr
  <1>2. Holder(t)
    BY Alone DEF SaveNew, Goto, CriticalSection, TypeOK, Holder
  <1>3. /\ x_ptr' = x_ptr /\ RAND_X' \in Buffers
        /\ hdr' \in [Buffers -> Nat \cup {Garbage}]
        /\ hdr'[x_ptr] # Garbage
        /\ \A b \in Buffers : b # x_ptr => hdr'[b] = hdr[b]
        /\ \A b \in Buffers : hdr[b] # Garbage => hdr'[b] # Garbage
    BY SaveHeader DEF SaveNew
  <1>4. GoodGen(x_ptr, RAND_N, RAND_I, RAND_J)
    BY <1>2 DEF ActiveInv, Reseeding, CriticalSection, SaveNew, Goto, Holder
  <1>5. op[t].f = "initstate" /\ op[t] \in Calls /\ op[t].buf = x_ptr
    BY DefaultAssumption, CallShape DEF OpInv, LocalsInv, LocalInv, SaveNew, Goto, x_ptr
  <1>6. TypeOK'
    BY <1>3 DEF TypeOK, Labels, CriticalSection, SaveNew, Goto, caller
  <1>7. LockInv' /\ OpInv'
    BY <1>2, <1>5 DEF LockInv, MutualExclusion, OpInv, TooSmall, CriticalSection, SaveNew,
                      Goto, caller, TypeOK, Holder
  <1>8. ActiveInv' /\ ParkedInv' /\ KnownInv' /\ WritesInBounds'
    BY <1>3, <1>4 DEF ActiveInv, ParkedInv, GoodGen, KnownInv, WritesInBounds, SaveNew, caller, TypeOK
  <1>9. LocalsInv'
    <2>1. loc[t].old \in Buffers /\ hdr[loc[t].old] # Garbage
      BY <1>5 DEF LocalsInv, LocalInv, SaveNew, Goto
    <2>2. LocalInv(t)'
      BY <1>3, <1>5, <2>1 DEF LocalInv, SaveNew, Goto, TypeOK, caller
    <2> QED
      BY <1>2, <2>2, OthersLocal DEF SaveNew, Goto, LocalsInv, TypeOK
  <1> QED
    BY <1>6, <1>7, <1>8, <1>9

(* setstate unpacks the header of the chosen buffer.                        *)
LEMMA LoadStep == ASSUME Inv, NEW t \in Threads, Load(t) PROVE Inv'
  <1> USE DEF Inv
  <1>1. Holder(t)
    BY Alone DEF Load, Goto, CriticalSection, TypeOK, Holder
  <1> DEFINE b == op[t].buf
             h == hdr[b]
  <1>2. op[t].f = "setstate" /\ b \in Buffers /\ b \in known /\ h # Garbage
    BY CallShape DEF OpInv, KnownInv, Load, Goto
  <1>3. x_ptr \in Buffers /\ x_ptr' = b
    BY <1>2, XPtr, DefaultAssumption DEF Load, loadstate, x_ptr
  <1>4. GoodGen(x_ptr, RAND_N, RAND_I, RAND_J)
    BY <1>1 DEF ActiveInv, Reseeding, CriticalSection, Load, Goto, Holder
  <1>5. GoodGen(x_ptr, HeaderN(hdr[x_ptr]), HeaderI(hdr[x_ptr]), HeaderJ(hdr[x_ptr]))
    <2>1. hdr[x_ptr] = Pack(RAND_N, RAND_I, RAND_J)
      BY DEF LocalsInv, LocalInv, Load, Goto
    <2> QED
      BY <1>4, <2>1, HeaderOfStatics
  <1>6. GoodGen(b, HeaderN(h), HeaderI(h), HeaderJ(h))
    BY <1>2, <1>5 DEF ParkedInv
  <1>7. TypeOK'
    BY <1>2, <1>6 DEF TypeOK, Labels, CriticalSection, Load, loadstate, Goto, GoodGen, memory, caller
  <1>8. LockInv' /\ OpInv'
    BY <1>1, <1>2 DEF LockInv, MutualExclusion, OpInv, TooSmall, CriticalSection, Load,
                      Goto, caller, TypeOK, Holder
  <1>9. ActiveInv'
    BY <1>3, <1>6 DEF ActiveInv, GoodGen, Load, loadstate, memory
  <1>10. ParkedInv'
    BY <1>5 DEF ParkedInv, GoodGen, Load, memory
  <1>11. KnownInv' /\ WritesInBounds'
    BY DEF KnownInv, WritesInBounds, Load, memory, caller
  <1>12. LocalsInv'
    <2>1. LocalInv(t)'
      BY <1>2 DEF LocalsInv, LocalInv, Load, Goto, TypeOK, memory, caller
    <2> QED
      BY <1>1, <2>1, OthersLocal DEF Load, Goto, LocalsInv, TypeOK
  <1> QED
    BY <1>7, <1>8, <1>9, <1>10, <1>11, <1>12

(* The statically initialised generator satisfies the invariant.            *)
LEMMA InitInv == Init => Inv
  <1> SUFFICES ASSUME Init PROVE Inv
    OBVIOUS
  <1>1. x_ptr = Default /\ Default \in Buffers
    BY DefaultAssumption DEF Init, x_ptr
  <1>2. hdr[Default] = 0 /\ \A b \in Buffers \ {Default} : hdr[b] = Garbage
    BY <1>1 DEF Init
  <1>3. words[Default] = [k \in Slots |-> IF k < 31 THEN InitialWords[k] ELSE Garbage]
    BY <1>1 DEF Init
  <1>4. TypeOK
    BY NoLocalsType, InitialWordsAssumption, MaxCallsAssumption, <1>1
       DEF Init, TypeOK, Degrees, Labels, Slots, Garbage
  <1>5. GoodGen(Default, 31, 3, 0)
    <2>1. Fits(Default, 31)
      BY CallerAssumption DEF Fits
    <2>2. GoodWords(31, words[Default])
      <3>1. \A k \in 0 .. 30 : words[Default][k] = InitialWords[k]
        BY <1>3 DEF Slots
      <3> QED
        BY <3>1, InitialWordsAssumption DEF GoodWords
    <2> QED
      BY <2>1, <2>2 DEF GoodGen, GoodIndices, Separation, Degrees
  <1>6. LockInv /\ OpInv /\ KnownInv /\ LocalsInv
    BY DEF Init, LockInv, MutualExclusion, OpInv, KnownInv, LocalsInv, LocalInv, CriticalSection
  <1>7. ActiveInv /\ ParkedInv
    BY <1>1, <1>2, <1>5 DEF Init, ActiveInv, ParkedInv, GoodGen
  <1>8. WritesInBounds
    <2> SUFFICES ASSUME NEW b \in Buffers, NEW k \in Slots, 4 * (k + 2) > Bytes[b]
                 PROVE  words[b][k] = Garbage
      BY DEF WritesInBounds
    <2>1. CASE b = Default
      BY <2>1, <1>3, CallerAssumption DEF Slots
    <2>2. CASE b # Default
      BY <2>2 DEF Init
    <2> QED
      BY <2>1, <2>2
  <1> QED
    BY <1>4, <1>6, <1>7, <1>8 DEF Inv

(* Every step preserves the invariant.                                      *)
LEMMA NextInv == Inv /\ [Next]_vars => Inv'
  <1> SUFFICES ASSUME Inv, [Next]_vars PROVE Inv'
    OBVIOUS
  <1>1. ASSUME NEW t \in Threads, Call(t) PROVE Inv'
    BY <1>1, CallStep
  <1>2. ASSUME NEW t \in Threads, InitstateSmall(t) \/ Lock(t) PROVE Inv'
    BY <1>2, InitstateSmallStep, LockStep
  <1>3. ASSUME NEW t \in Threads, Locked(t) PROVE Inv'
    BY <1>3, ReadStep, StoreLcgStep, StoreStep, AdvanceIndicesStep, SeedLcgStep, SeedStartStep,
       SeedFillStep, SeedOddStep, SaveOldStep, SwitchStep, SaveNewStep, LoadStep, UnlockStep
       DEF Locked
  <1>4. CASE UNCHANGED vars
    BY <1>4 DEF vars, statics, memory, caller, Inv, TypeOK, LockInv, MutualExclusion, OpInv,
       TooSmall, ActiveInv, Reseeding, ParkedInv, GoodGen, KnownInv, LocalsInv, LocalInv,
       NewWord, WritesInBounds, x_ptr
  <1> QED
    BY <1>1, <1>2, <1>3, <1>4 DEF Next, Step, Done

(* The inductive invariant holds in every reachable state.                  *)
THEOREM Invariance == Spec => []Inv
  BY InitInv, NextInv, PTL DEF Spec

(* The statics, buffers and locals keep the types of the Rust declarations. *)
THEOREM TypeCorrect == Spec => []TypeOK
  BY Invariance, PTL DEF Inv

(* No two threads are between lock() and unlock().                          *)
THEOREM SpinlockExcludes == Spec => []MutualExclusion
  <1>1. Inv => MutualExclusion
    BY DEF Inv, LockInv
  <1> QED
    BY <1>1, Invariance, PTL

(* Whenever the lock is free every generator is a good one.                 *)
LEMMA FreeLock ==
    ASSUME Inv, RANDOM_LOCK = 0, NEW b \in Buffers, Live(b)
    PROVE  GoodGen(b, GenN(b), GenI(b), GenJ(b))
  <1>1. GoodGen(x_ptr, RAND_N, RAND_I, RAND_J)
    BY DEF Inv, LockInv, ActiveInv, Reseeding, CriticalSection
  <1> QED
    BY <1>1 DEF Inv, ParkedInv, Live, GenN, GenI, GenJ

(* For any number of threads, calls and buffers, every generator keeps its  *)
(* two indices in range and Separation(n) apart.                            *)
THEOREM LagTheorem == Spec => []LagPreserved
  <1>1. ASSUME NEW n \in Degrees, n # 0, NEW i \in 0 .. 62, NEW j \in 0 .. 62,
               GoodIndices(n, i, j)
        PROVE  i \in 0 .. n - 1 /\ j \in 0 .. n - 1 /\ i = (j + Separation(n)) % n
    BY <1>1 DEF Degrees, GoodIndices, Separation
  <1>2. Inv => LagPreserved
    BY <1>1, FreeLock DEF LagPreserved, GoodGen
  <1> QED
    BY <1>2, Invariance, PTL

(* For every even word modulus, whatever the seeds, every generator keeps   *)
(* an odd word for ever.                                                    *)
THEOREM OddWordTheorem == Spec => []SomeOddWord
  <1>1. Inv => SomeOddWord
    BY FreeLock DEF SomeOddWord, GoodGen, GoodWords
  <1> QED
    BY <1>1, Invariance, PTL

(* No generator ever reads a word nobody has written, and whatever sizes    *)
(* callers pass, no word outside a buffer is written.                       *)
THEOREM MemoryTheorem == Spec => []MemorySafe
  <1>1. Inv => LiveWordsInitialised
    BY FreeLock DEF LiveWordsInitialised, GoodGen, GoodWords, Degrees, Slots
  <1>2. Inv => WritesInBounds
    BY DEF Inv
  <1>3. Inv => MemorySafe
    BY <1>1, <1>2 DEF MemorySafe
  <1> QED
    BY <1>3, Invariance, PTL

-----------------------------------------------------------------------------
(* The least natural number with a property that some number has.           *)
LEMMA LeastState ==
    ASSUME NEW T, T \subseteq Nat, T # {}
    PROVE  \E m \in T : \A k \in T : m <= k
  <1>1. IsWellFoundedOn(OpToRel(<, Nat), Nat)
    BY NatLessThanWellFounded
  <1> DEFINE R == OpToRel(<, Nat)
  <1>2. PICK m \in T : \A y \in T : ~(<<y, m>> \in R)
    <2> HIDE DEF R
    <2> QED
      BY <1>1, WFMin DEF R
  <1>3. \A y \in T : ~(y < m)
    BY <1>2 DEF OpToRel
  <1> QED
    BY <1>3

(* s solves the recursive definition of SeedStates.                         *)
IsSeedStates(s, n, seed) == s = [k \in 0 .. n |-> IF k = 0 THEN seed ELSE lcg64(s[k - 1])]

(* The recursive definition has a solution: one for k words is extended by  *)
(* one state.                                                               *)
LEMMA SeedStatesExist ==
    ASSUME NEW n \in Nat, NEW seed
    PROVE  \E s : IsSeedStates(s, n, seed)
  <1> DEFINE P(m) == \E s : s = [k \in 0 .. m |-> IF k = 0 THEN seed ELSE lcg64(s[k - 1])]
             T == {m \in Nat : ~P(m)}
  <1>1. P(0)
    <2> DEFINE s == [k \in 0 .. 0 |-> seed]
    <2>1. s = [k \in 0 .. 0 |-> IF k = 0 THEN seed ELSE lcg64(s[k - 1])]
      OBVIOUS
    <2> QED
      BY <2>1
  <1>2. ASSUME NEW m \in Nat, P(m) PROVE P(m + 1)
    <2>1. PICK s : s = [k \in 0 .. m |-> IF k = 0 THEN seed ELSE lcg64(s[k - 1])]
      BY <1>2
    <2> DEFINE r == [k \in 0 .. m + 1 |-> IF k = m + 1 THEN lcg64(s[m]) ELSE s[k]]
    <2>2. \A k \in 0 .. m : r[k] = s[k]
      OBVIOUS
    <2>3. \A k \in 0 .. m : s[k] = IF k = 0 THEN seed ELSE lcg64(s[k - 1])
      BY <2>1
    <2>4. \A k \in 0 .. m + 1 : r[k] = IF k = 0 THEN seed ELSE lcg64(r[k - 1])
      <3> SUFFICES ASSUME NEW k \in 0 .. m + 1
                   PROVE  r[k] = IF k = 0 THEN seed ELSE lcg64(r[k - 1])
        OBVIOUS
      <3>1. CASE k = m + 1
        BY <2>2, <3>1
      <3>2. CASE k # m + 1
        <4>1. k \in 0 .. m /\ (k # 0 => k - 1 \in 0 .. m)
          BY <3>2
        <4> QED
          BY <2>2, <2>3, <4>1
      <3> QED
        BY <3>1, <3>2
    <2>5. r = [k \in 0 .. m + 1 |-> r[k]]
      OBVIOUS
    <2> HIDE DEF r
    <2>6. r = [k \in 0 .. m + 1 |-> IF k = 0 THEN seed ELSE lcg64(r[k - 1])]
      BY <2>4, <2>5
    <2> QED
      BY <2>6
  <1>3. T = {}
    <2> SUFFICES ASSUME T # {} PROVE FALSE
      OBVIOUS
    <2>1. PICK m \in T : \A k \in T : m <= k
      BY LeastState
    <2>2. m \in Nat /\ ~P(m)
      OBVIOUS
    <2>3. m # 0
      BY <1>1, <2>2
    <2>4. m - 1 \in Nat /\ m - 1 \notin T
      <3> HIDE DEF T
      <3>1. m - 1 \in Nat /\ ~(m <= m - 1)
        BY <2>2, <2>3
      <3> QED
        BY <2>1, <3>1
    <2>5. P(m - 1)
      BY <2>4
    <2>6. P((m - 1) + 1)
      BY ONLY <1>2, <2>4, <2>5
    <2>7. (m - 1) + 1 = m
      BY <2>2
    <2> QED
      BY <2>2, <2>6, <2>7
  <1>4. P(n)
    BY <1>3
  <1> QED
    BY <1>4 DEF IsSeedStates

(* What the recursive definition of the seeding states computes.            *)
LEMMA SeedStatesDef ==
    ASSUME NEW n \in Nat, NEW seed
    PROVE  /\ SeedStates(n, seed)[0] = seed
           /\ \A k \in 0 .. n - 1 :
                 SeedStates(n, seed)[k + 1] = lcg64(SeedStates(n, seed)[k])
  <1> DEFINE s == SeedStates(n, seed)
  <1>1. s = CHOOSE r : IsSeedStates(r, n, seed)
    BY DEF SeedStates, IsSeedStates
  <1>2. IsSeedStates(s, n, seed)
    <2> HIDE DEF s
    <2> QED
      BY ONLY n \in Nat, <1>1, SeedStatesExist, Zenon
  <1> HIDE DEF s
  <1>3. \A k \in 0 .. n : s[k] = IF k = 0 THEN seed ELSE lcg64(s[k - 1])
    BY <1>2 DEF IsSeedStates
  <1>4. \A k \in 0 .. n - 1 : k + 1 \in 0 .. n /\ k + 1 # 0 /\ (k + 1) - 1 = k
    OBVIOUS
  <1>5. \A k \in 0 .. n - 1 : s[k + 1] = lcg64(s[k])
    BY <1>3, <1>4
  <1>6. s[0] = seed
    BY <1>3
  <1> QED
    BY <1>5, <1>6 DEF s
-----------------------------------------------------------------------------
(* The operators of RandomSpec in terms of those of Random.                 *)
LEMMA SpecSeedGen ==
    ASSUME NEW n, NEW seed
    PROVE  A!SeedGen(n, seed) =
             IF n = 0 THEN [n |-> 0, q |-> <<seed>>]
                      ELSE Register(n, Separation(n), SeedWords(n, seed))
  <1>1. A!SeedStates(n, seed) = SeedStates(n, seed)
    BY DEF A!SeedStates, SeedStates, A!lcg64, lcg64
  <1>2. A!SeedWords(n, seed) = SeedWords(n, seed)
    BY <1>1 DEF A!SeedWords, SeedWords, A!MakeOdd, MakeOdd, A!HighWord, HighWord
  <1> QED
    BY <1>2 DEF A!SeedGen, A!Register, Register, A!Separation, Separation

(* The word the recurrence of RandomSpec makes of a register.               *)
LEMMA SpecNextWord ==
    ASSUME NEW g
    PROVE  A!NextWord(g) = IF g.n = 0 THEN lcg31(g.q[1])
                           ELSE (g.q[1] + g.q[g.n + 1 - Separation(g.n)]) % M
  BY DEF A!NextWord, A!lcg31, lcg31, A!Separation, Separation

(* What a call of random does to a register in RandomSpec.                  *)
LEMMA SpecAdvance ==
    ASSUME NEW n, NEW q, NEW g, g = [n |-> n, q |-> q]
    PROVE  A!Advance(g) = [n |-> n, q |-> Append(Tail(q), A!NextWord(g))]
  <1> DEFINE p == Append(Tail(g.q), A!NextWord(g))
  <1>1. A!Advance(g) = [g EXCEPT !.q = p]
    BY DEF A!Advance
  <1>2. p = Append(Tail(q), A!NextWord(g))
    OBVIOUS
  <1> HIDE DEF p
  <1>3. [g EXCEPT !.q = p] = [n |-> n, q |-> p]
    OBVIOUS
  <1> QED
    BY <1>1, <1>2, <1>3

(* Only the words below n matter to a register.                             *)
LEMMA RegisterWords ==
    ASSUME NEW n \in Degrees, NEW i \in 0 .. 62, NEW w1, NEW w2,
           w1[0] = w2[0], \A k \in 0 .. n - 1 : w1[k] = w2[k]
    PROVE  Register(n, i, w1) = Register(n, i, w2)
  <1>1. CASE n = 0
    BY <1>1 DEF Register
  <1>2. CASE n # 0
    <2>1. n \in Nat /\ n > 0
      BY <1>2 DEF Degrees
    <2>2. \A k \in 1 .. n : w1[(i + k - 1) % n] = w2[(i + k - 1) % n]
      BY <2>1, ModRange
    <2> QED
      BY <1>2, <2>2 DEF Register
  <1> QED
    BY <1>1, <1>2

(* The fields of a register.                                                *)
LEMMA RegisterFields ==
    ASSUME NEW n \in Degrees, NEW i \in 0 .. 62, NEW w
    PROVE  /\ Register(n, i, w).n = n
           /\ Register(n, i, w) = [n |-> n, q |-> Register(n, i, w).q]
           /\ n = 0 => Register(n, i, w).q = <<w[0]>>
           /\ n # 0 => Register(n, i, w).q = [k \in 1 .. n |-> w[(i + k - 1) % n]]
  BY DEF Register

(* A function on 1 .. n is a sequence of length n.                          *)
LEMMA FcnIsSeq ==
    ASSUME NEW S, NEW n \in Nat, NEW f \in [1 .. n -> S]
    PROVE  f \in Seq(S) /\ Len(f) = n
  <1>1. f \in Seq(S)
    BY SeqDef
  <1> QED
    BY <1>1

(* A generator's register is a sequence of words.                           *)
LEMMA RegisterType ==
    ASSUME NEW n \in Degrees, NEW i \in 0 .. 62, NEW w, GoodWords(n, w)
    PROVE  Register(n, i, w) \in [n : Degrees, q : Seq(Word)]
  <1>1. CASE n = 0
    BY <1>1 DEF Register, GoodWords
  <1>2. CASE n # 0
    <2>1. n \in Nat /\ n > 0
      BY <1>2 DEF Degrees
    <2>2. \A k \in 1 .. n : (i + k - 1) % n \in 0 .. n - 1
      BY <2>1, ModRange
    <2>3. [k \in 1 .. n |-> w[(i + k - 1) % n]] \in [1 .. n -> Word]
      BY <2>2 DEF GoodWords
    <2>4. [k \in 1 .. n |-> w[(i + k - 1) % n]] \in Seq(Word)
      BY ONLY <2>1, <2>3, FcnIsSeq
    <2> QED
      BY <1>2, <2>4 DEF Register
  <1> QED
    BY <1>1, <1>2

(* What random computes from x[i] and x[j] is what the recurrence says of   *)
(* the oldest word and the one Separation(n) before the newest.             *)
LEMMA RegisterNext ==
    ASSUME NEW n \in Degrees, NEW i \in 0 .. 62, NEW j \in 0 .. 62, GoodIndices(n, i, j), NEW w
    PROVE  A!NextWord(Register(n, i, w)) = IF n = 0 THEN lcg31(w[0]) ELSE (w[i] + w[j]) % M
  <1> DEFINE g == Register(n, i, w)
  <1>1. /\ g.n = n
        /\ n = 0 => g.q = <<w[0]>>
        /\ n # 0 => g.q = [k \in 1 .. n |-> w[(i + k - 1) % n]]
    BY DEF Register
  <1> HIDE DEF g
  <1>2. CASE n = 0
    BY <1>1, <1>2, SpecNextWord DEF g
  <1>3. CASE n # 0
    <2>1. /\ (i + 1 - 1) % n = i
          /\ n + 1 - Separation(n) \in 1 .. n
          /\ (i + (n + 1 - Separation(n)) - 1) % n = j
      BY <1>3 DEF Degrees, Separation, GoodIndices
    <2>2. 1 \in 1 .. n
      BY <1>3 DEF Degrees
    <2>3. \A k \in 1 .. n : g.q[k] = w[(i + k - 1) % n]
      BY <1>1, <1>3
    <2>4. g.q[1] = w[i]
      BY ONLY <2>1, <2>2, <2>3
    <2>5. g.q[n + 1 - Separation(n)] = w[j]
      BY ONLY <2>1, <2>3
    <2> QED
      BY <1>1, <1>3, <2>4, <2>5, SpecNextWord DEF g
  <1> QED
    BY <1>2, <1>3

(* A store at the index i replaces the oldest word of the register.         *)
LEMMA RegisterStore ==
    ASSUME NEW n \in Degrees, n # 0, NEW i \in 0 .. n - 1, NEW w, NEW w2, NEW v,
           w2[i] = v, \A k \in 0 .. n - 1 : k # i => w2[k] = w[k]
    PROVE  Register(n, i, w2).q = [Register(n, i, w).q EXCEPT ![1] = v]
  <1>1. n \in Nat /\ n > 0
    BY DEF Degrees
  <1>2. /\ Register(n, i, w).q = [k \in 1 .. n |-> w[(i + k - 1) % n]]
        /\ Register(n, i, w2).q = [k \in 1 .. n |-> w2[(i + k - 1) % n]]
    BY <1>1 DEF Register
  <1>3. \A k \in 1 .. n : (i + k - 1) % n \in 0 .. n - 1 /\ ((i + k - 1) % n = i <=> k = 1)
    BY DEF Degrees
  <1> DEFINE q == Register(n, i, w).q
             q2 == Register(n, i, w2).q
  <1>4. \A k \in 1 .. n : q2[k] = IF k = 1 THEN v ELSE q[k]
    BY <1>2, <1>3
  <1>5. q = [k \in 1 .. n |-> q[k]] /\ q2 = [k \in 1 .. n |-> q2[k]]
    BY <1>2
  <1> HIDE DEF q, q2
  <1>6. q2 = [q EXCEPT ![1] = v]
    BY <1>4, <1>5
  <1> QED
    BY <1>6 DEF q, q2

(* Advancing the index turns the register: the word at the index becomes    *)
(* the newest.                                                              *)
LEMMA RegisterTurn ==
    ASSUME NEW n \in Degrees, n # 0, NEW i \in 0 .. n - 1, NEW w
    PROVE  LET q == Register(n, i, w).q
           IN  Register(n, Increment(i, n), w).q = [k \in 1 .. n |-> IF k = n THEN q[1] ELSE q[k + 1]]
  <1>1. n \in Nat /\ n > 0
    BY DEF Degrees
  <1> DEFINE i2 == Increment(i, n)
  <1>2. /\ Register(n, i, w).q = [k \in 1 .. n |-> w[(i + k - 1) % n]]
        /\ Register(n, i2, w).q = [k \in 1 .. n |-> w[(i2 + k - 1) % n]]
    BY <1>1 DEF Register
  <1>3. \A k \in 1 .. n : (i2 + k - 1) % n =
            IF k = n THEN (i + 1 - 1) % n ELSE (i + (k + 1) - 1) % n
    BY DEF Degrees, Increment
  <1> QED
    BY <1>2, <1>3, <1>1

(* Appending to the tail of a sequence of length n.                         *)
LEMMA TailAppend ==
    ASSUME NEW n \in Nat, n > 0, NEW q, q = [k \in 1 .. n |-> q[k]], NEW v
    PROVE  Append(Tail(q), v) = [k \in 1 .. n |-> IF k = n THEN v ELSE q[k + 1]]
  <1> DEFINE S == {q[k] : k \in 1 .. n} \cup {v}
  <1>0. q \in [1 .. n -> S] /\ v \in S
    OBVIOUS
  <1> HIDE DEF S
  <1>1. q \in Seq(S) /\ Len(q) = n
    BY <1>0, SeqDef
  <1>2. Tail(q) = [k \in 1 .. n - 1 |-> q[k + 1]]
    BY <1>1
  <1>3. Tail(q) \in Seq(S) /\ Len(Tail(q)) = n - 1
    BY <1>1
  <1> DEFINE r == Tail(q)
  <1>4. Append(r, v) = [k \in 1 .. n |-> IF k = n THEN v ELSE r[k]]
    <2> HIDE DEF r
    <2>1. r \in Seq(S) /\ Len(r) = n - 1
      BY <1>3 DEF r
    <2> DEFINE p == Append(r, v)
    <2>2. /\ p \in Seq(S) /\ Len(p) = n
          /\ \A k \in 1 .. n - 1 : p[k] = r[k]
          /\ p[n] = v
      BY <1>0, <2>1, AppendProperties
    <2> HIDE DEF p
    <2>3. p = [k \in 1 .. n |-> p[k]]
      BY <2>2
    <2>4. \A k \in 1 .. n : p[k] = IF k = n THEN v ELSE r[k]
      BY <2>2
    <2>5. p = [k \in 1 .. n |-> IF k = n THEN v ELSE r[k]]
      BY <2>3, <2>4
    <2> QED
      BY <2>5 DEF p
  <1> QED
    BY <1>2, <1>4
-----------------------------------------------------------------------------
(* The generators in memory before a step.                                  *)
LEMMA ViewDef ==
    /\ View = [gen |-> [b \in Buffers |-> View.gen[b]], cur |-> x_ptr]
    /\ \A b \in Buffers : View.gen[b] =
          IF b = x_ptr THEN Register(RAND_N, RAND_I, words[b])
          ELSE IF hdr[b] = Garbage THEN NoGen
          ELSE Register(HeaderN(hdr[b]), HeaderI(hdr[b]), words[b])
  BY DEF View

(* The same after a step.                                                   *)
LEMMA ViewDefNext ==
    /\ View' = [gen |-> [b \in Buffers |-> View'.gen[b]], cur |-> x_ptr']
    /\ \A b \in Buffers : View'.gen[b] =
          IF b = x_ptr' THEN Register(RAND_N', RAND_I', words'[b])
          ELSE IF hdr'[b] = Garbage THEN NoGen
          ELSE Register(HeaderN(hdr'[b]), HeaderI(hdr'[b]), words'[b])
  BY DEF View

(* A step that leaves the statics and the buffers alone changes no          *)
(* generator.                                                               *)
LEMMA QuietView ==
    ASSUME UNCHANGED <<statics, memory>>
    PROVE  View' = View /\ x_ptr' = x_ptr
  BY DEF View, x_ptr, statics, memory

(* When the current generator was saved its header describes it.            *)
LEMMA SavedView ==
    ASSUME TypeOK, hdr[x_ptr] = Pack(RAND_N, RAND_I, RAND_J), NEW b \in Buffers
    PROVE  View.gen[b] = IF hdr[b] = Garbage THEN NoGen
                         ELSE Register(HeaderN(hdr[b]), HeaderI(hdr[b]), words[b])
  <1>1. CASE b = x_ptr
    <2>1. hdr[b] # Garbage /\ HeaderN(hdr[b]) = RAND_N /\ HeaderI(hdr[b]) = RAND_I
      BY <1>1, HeaderOfStatics DEF Garbage
    <2> QED
      BY <1>1, <2>1, ViewDef
  <1>2. CASE b # x_ptr
    BY <1>2, ViewDef
  <1> QED
    BY <1>1, <1>2

(* Between two calls, and before the first store of a call, the memory      *)
(* holds the published generators.                                          *)
LEMMA HolderPublished ==
    ASSUME PublishedInv, NEW t \in Threads, Holder(t), ~Moved(t)
    PROVE  published = View
  <1>1. \A u \in Threads : ~Moved(u)
    BY DEF Holder, Moved, Reseeding, CriticalSection
  <1> QED
    BY <1>1 DEF PublishedInv

(* A step of the lock holder leaves nothing to say of the others.           *)
LEMMA OthersProgress ==
    ASSUME RefInv, NEW t \in Threads, Holder(t), ProgressInv(t)',
           \A u \in Threads \ {t} : pc'[u] = pc[u] /\ op'[u] = op[u] /\ loc'[u] = loc[u]
    PROVE  \A u \in Threads : ProgressInv(u)'
  <1> SUFFICES ASSUME NEW u \in Threads, u # t PROVE ProgressInv(u)'
    OBVIOUS
  <1>1. pc'[u] = pc[u] /\ op'[u] = op[u] /\ loc'[u] = loc[u] /\ pc[u] \notin CriticalSection
    BY DEF Holder
  <1>2. ProgressInv(u)
    BY DEF RefInv
  <1> QED
    BY <1>1, <1>2 DEF ProgressInv, CriticalSection

(* A step that touches no generator but the current one.                    *)
LEMMA StillParked ==
    ASSUME ParkedKept, x_ptr' = x_ptr, published' = published,
           \A b \in Buffers : b # x_ptr => hdr'[b] = hdr[b] /\ words'[b] = words[b]
    PROVE  ParkedKept'
  <1> SUFFICES ASSUME NEW b \in Buffers, b # x_ptr PROVE View'.gen[b] = published.gen[b]
    BY DEF ParkedKept
  <1>1. View'.gen[b] = View.gen[b]
    BY ViewDef, ViewDefNext
  <1> QED
    BY <1>1 DEF ParkedKept

(* The published generators after a step that moves the current one.        *)
LEMMA MovedPublished ==
    ASSUME PublishedInv, ParkedKept', published' = published, NEW t \in Threads, Moved(t)'
    PROVE  PublishedInv'
  BY DEF PublishedInv

(* The same after a step that moves none.                                   *)
LEMMA SamePublished ==
    ASSUME PublishedInv, published = View, View' = View, x_ptr' = x_ptr, published' = published
    PROVE  PublishedInv'
  BY DEF PublishedInv, ParkedKept

(* A word stored in the current buffer.                                     *)
LEMMA StoredWord ==
    ASSUME TypeOK, NEW k \in Slots, NEW w, Write(x_ptr, k, w), x_ptr' = x_ptr
    PROVE  /\ \A b \in Buffers : b # x_ptr => words'[b] = words[b]
           /\ words'[x_ptr][k] = w
           /\ \A m \in Slots : m # k => words'[x_ptr][m] = words[x_ptr][m]
  BY XPtr DEF TypeOK, Write

-----------------------------------------------------------------------------
(* A call of random, from the words it reads to its result.                 *)

(* random computes the new word.                                            *)
LEMMA ReadRef == ASSUME Inv, RefInv, NEW t \in Threads, Read(t) PROVE RefInv'
  <1> USE DEF Inv
  <1>1. Holder(t) /\ ~Moved(t) /\ pc[t] = "read" /\ op[t].f = "random"
    BY Alone DEF Read, Goto, CriticalSection, TypeOK, Holder, Moved, Reseeding, OpInv
  <1>2. published = View
    BY <1>1, HolderPublished DEF RefInv
  <1>3. x_ptr' = x_ptr
    BY XPtr DEF Read
  <1>4. View' = View
    BY <1>3 DEF View, Read, memory
  <1>5. PublishedInv'
    BY <1>2, <1>3, <1>4, SamePublished DEF RefInv, Read
  <1>6. ProgressInv(t)'
    <2>1. pc'[t] = "store" /\ op'[t] = op[t] /\ loc'[t].old = NULL
      BY DEF Read, Goto, TypeOK, caller, Frame
    <2>2. x_ptr' = published'.cur
      BY <1>2, <1>3, ViewDef DEF Read
    <2> QED
      BY <1>1, <2>1, <2>2 DEF ProgressInv, CriticalSection
  <1> QED
    BY <1>1, <1>5, <1>6, OthersProgress DEF RefInv, Read, Goto, TypeOK, caller

(* What a thread that is about to store the new word knows.                 *)
LEMMA StoreFacts ==
    ASSUME Inv, RefInv, NEW t \in Threads, pc[t] = "store"
    PROVE  /\ Holder(t) /\ op[t].f = "random" /\ x_ptr \in Buffers
           /\ published.cur = x_ptr
           /\ published.gen[x_ptr] = Register(RAND_N, RAND_I, words[x_ptr])
           /\ loc[t].x = x_ptr /\ loc[t].n = RAND_N /\ loc[t].i = RAND_I
           /\ loc[t].v = A!NextWord(published.gen[x_ptr])
           /\ GoodGen(x_ptr, RAND_N, RAND_I, RAND_J)
  <1> USE DEF Inv
  <1>1. Holder(t) /\ ~Moved(t) /\ op[t].f = "random"
    BY Alone DEF CriticalSection, TypeOK, Holder, Moved, Reseeding, OpInv
  <1>2. published = View
    BY <1>1, HolderPublished DEF RefInv
  <1>3. x_ptr \in Buffers
    BY XPtr
  <1>4. published.cur = x_ptr /\ published.gen[x_ptr] = Register(RAND_N, RAND_I, words[x_ptr])
    BY <1>2, <1>3, ViewDef
  <1>5. /\ loc[t].x = x_ptr /\ loc[t].n = RAND_N /\ loc[t].i = RAND_I
        /\ loc[t].v = NewWord(words[x_ptr])
    BY DEF LocalsInv, LocalInv
  <1>6. GoodGen(x_ptr, RAND_N, RAND_I, RAND_J)
    BY <1>1 DEF ActiveInv, Reseeding, Moved, Holder, CriticalSection
  <1>7. A!NextWord(Register(RAND_N, RAND_I, words[x_ptr])) = NewWord(words[x_ptr])
    <2>1. /\ RAND_N \in Degrees /\ RAND_I \in 0 .. 62 /\ RAND_J \in 0 .. 62
          /\ GoodIndices(RAND_N, RAND_I, RAND_J)
      BY <1>6 DEF GoodGen
    <2> QED
      BY ONLY <2>1, RegisterNext DEF NewWord
  <1> QED
    BY <1>1, <1>3, <1>4, <1>5, <1>6, <1>7

(* The linear generator stores its word, which is its whole register.       *)
LEMMA StoreLcgRef == ASSUME Inv, RefInv, NEW t \in Threads, StoreLcg(t) PROVE RefInv'
  <1> USE DEF Inv
  <1>1. pc[t] = "store" /\ loc[t].n = 0
    BY DEF StoreLcg, Goto
  <1> DEFINE g == published.gen[x_ptr]
             v == loc[t].v
  <1>2. /\ Holder(t) /\ op[t].f = "random" /\ x_ptr \in Buffers
        /\ published.cur = x_ptr
        /\ g = Register(0, RAND_I, words[x_ptr])
        /\ loc[t].x = x_ptr /\ RAND_N = 0
        /\ v = A!NextWord(g)
    BY <1>1, StoreFacts
  <1>3. x_ptr' = x_ptr
    BY DEF StoreLcg, statics, x_ptr
  <1>4. /\ \A b \in Buffers : b # x_ptr => words'[b] = words[b]
        /\ words'[x_ptr][0] = v
    <2>1. 0 \in Slots
      BY DEF Slots
    <2>2. Write(x_ptr, 0, v)
      BY <1>2 DEF StoreLcg
    <2> QED
      BY <1>3, <2>1, <2>2, StoredWord
  <1>5. ParkedKept'
    BY <1>3, <1>4, StillParked DEF RefInv, PublishedInv, StoreLcg
  <1>6. pc'[t] = "unlock" /\ op'[t] = op[t] /\ loc'[t] = loc[t] /\ published' = published
    BY DEF StoreLcg, Goto, TypeOK, caller
  <1>7. PublishedInv'
    BY <1>5, <1>6, MovedPublished DEF RefInv, Moved
  <1>8. View'.gen[x_ptr] = [n |-> 0, q |-> <<v>>]
    <2>1. View'.gen[x_ptr] = Register(0, RAND_I, words'[x_ptr])
      BY <1>2, <1>3, ViewDefNext DEF StoreLcg, statics
    <2> QED
      BY <2>1, <1>4 DEF Register
  <1>9. g = [n |-> 0, q |-> <<words[x_ptr][0]>>]
    BY <1>2 DEF Register
  <1>10. A!Advance(g) = [n |-> 0, q |-> <<v>>]
    <2>1. Append(Tail(<<words[x_ptr][0]>>), v) = <<v>>
      OBVIOUS
    <2> QED
      BY <1>2, <1>9, <2>1, SpecAdvance
  <1>11. A!Output(g) = v
    BY <1>2, <1>9 DEF A!Output
  <1>12. Effect(t)'
    BY <1>1, <1>2, <1>3, <1>6, <1>8, <1>10, <1>11 DEF Effect
  <1>13. ProgressInv(t)'
    <2>1. loc[t].old = NULL
      BY <1>1, <1>2 DEF RefInv, ProgressInv, CriticalSection
    <2> QED
      BY <1>2, <1>3, <1>6, <1>12, <2>1 DEF ProgressInv, CriticalSection
  <1> QED
    BY <1>2, <1>7, <1>13, OthersProgress DEF RefInv, StoreLcg, Goto, TypeOK, caller

(* The additive generator replaces the oldest word of the register.         *)
LEMMA StoreRef == ASSUME Inv, RefInv, NEW t \in Threads, Store(t) PROVE RefInv'
  <1> USE DEF Inv
  <1>1. pc[t] = "store" /\ loc[t].n # 0
    BY DEF Store, Goto
  <1> DEFINE g == published.gen[x_ptr]
             v == loc[t].v
  <1>2. /\ Holder(t) /\ op[t].f = "random" /\ x_ptr \in Buffers
        /\ published.cur = x_ptr
        /\ g = Register(RAND_N, RAND_I, words[x_ptr])
        /\ loc[t].x = x_ptr /\ RAND_N # 0 /\ loc[t].i = RAND_I
        /\ v = A!NextWord(g)
        /\ GoodGen(x_ptr, RAND_N, RAND_I, RAND_J)
    BY <1>1, StoreFacts
  <1>3. x_ptr' = x_ptr
    BY DEF Store, statics, x_ptr
  <1>4. RAND_N \in Degrees /\ RAND_I \in 0 .. RAND_N - 1 /\ 0 .. RAND_N - 1 \subseteq Slots
    BY <1>2 DEF GoodGen, GoodIndices, Degrees, Slots
  <1>5. /\ \A b \in Buffers : b # x_ptr => words'[b] = words[b]
        /\ words'[x_ptr][RAND_I] = v
        /\ \A m \in Slots : m # RAND_I => words'[x_ptr][m] = words[x_ptr][m]
    BY <1>2, <1>3, <1>4, StoredWord DEF Store
  <1>6. ParkedKept'
    BY <1>3, <1>5, StillParked DEF RefInv, PublishedInv, Store
  <1>7. /\ pc'[t] = "advance" /\ op'[t] = op[t] /\ loc'[t] = loc[t] /\ published' = published
        /\ RAND_N' = RAND_N /\ RAND_I' = RAND_I
    BY DEF Store, Goto, TypeOK, caller, statics
  <1>8. PublishedInv'
    BY <1>6, <1>7, MovedPublished DEF RefInv, Moved
  <1>9. View'.gen[x_ptr].q = [g.q EXCEPT ![1] = v]
    <2>1. View'.gen[x_ptr] = Register(RAND_N, RAND_I, words'[x_ptr])
      BY <1>2, <1>3, <1>7, ViewDefNext
    <2>2. Register(RAND_N, RAND_I, words'[x_ptr]).q = [Register(RAND_N, RAND_I, words[x_ptr]).q EXCEPT ![1] = v]
      BY <1>2, <1>4, <1>5, RegisterStore
    <2> QED
      BY <1>2, <2>1, <2>2
  <1>10. g = [n |-> RAND_N, q |-> [k \in 1 .. RAND_N |-> g.q[k]]]
    <2> DEFINE r == [k \in 1 .. RAND_N |-> words[x_ptr][(RAND_I + k - 1) % RAND_N]]
    <2>1. g = [n |-> RAND_N, q |-> r]
      BY <1>2 DEF Register
    <2>2. r = [k \in 1 .. RAND_N |-> r[k]]
      OBVIOUS
    <2> HIDE DEF r, g
    <2>3. g.q = r
      BY <2>1
    <2> QED
      BY <2>1, <2>2, <2>3
  <1>11. ProgressInv(t)'
    <2>1. loc[t].old = NULL
      BY <1>1, <1>2 DEF RefInv, ProgressInv, CriticalSection
    <2> QED
      BY <1>2, <1>3, <1>7, <1>9, <1>10, <2>1 DEF ProgressInv, CriticalSection
  <1> QED
    BY <1>2, <1>8, <1>11, OthersProgress DEF RefInv, Store, Goto, TypeOK, caller

(* The new word becomes the newest of the register.                         *)
LEMMA AdvanceIndicesRef == ASSUME Inv, RefInv, NEW t \in Threads, AdvanceIndices(t) PROVE RefInv'
  <1> USE DEF Inv
  <1> DEFINE g == published.gen[x_ptr]
             v == loc[t].v
             q == View.gen[x_ptr].q
  <1>1. pc[t] = "advance" /\ op[t].f = "random"
    BY DEF AdvanceIndices, Goto, OpInv
  <1>2. Holder(t)
    BY <1>1, Alone DEF CriticalSection, Holder
  <1>3. x_ptr \in Buffers /\ x_ptr' = x_ptr
    BY XPtr DEF AdvanceIndices
  <1>4. loc[t].n = RAND_N /\ loc[t].i = RAND_I /\ RAND_N # 0
    BY <1>1 DEF LocalsInv, LocalInv
  <1>5. GoodGen(x_ptr, RAND_N, RAND_I, RAND_J)
    BY <1>1, <1>2 DEF ActiveInv, Reseeding, Holder, CriticalSection
  <1>6. RAND_N \in Degrees /\ RAND_N \in Nat /\ RAND_N > 0 /\ RAND_I \in 0 .. RAND_N - 1
    BY <1>4, <1>5 DEF GoodGen, GoodIndices, Degrees
  <1>7. /\ g = [n |-> RAND_N, q |-> [k \in 1 .. RAND_N |-> g.q[k]]]
        /\ q = [g.q EXCEPT ![1] = v]
        /\ v = A!NextWord(g)
        /\ loc[t].old = NULL /\ x_ptr = published.cur
    BY <1>1 DEF RefInv, ProgressInv, CriticalSection
  <1>8. /\ pc'[t] = "unlock" /\ op'[t] = op[t] /\ loc'[t] = loc[t] /\ published' = published
        /\ RAND_N' = RAND_N /\ RAND_I' = Increment(RAND_I, RAND_N)
        /\ words' = words /\ hdr' = hdr
    BY <1>4 DEF AdvanceIndices, Goto, TypeOK, caller, memory
  <1>9. ParkedKept'
    BY <1>3, <1>8, StillParked DEF RefInv, PublishedInv
  <1>10. PublishedInv'
    BY <1>8, <1>9, MovedPublished DEF RefInv, Moved
  <1>11. View'.gen[x_ptr] = A!Advance(g)
    <2> DEFINE p == Register(RAND_N, Increment(RAND_I, RAND_N), words[x_ptr])
    <2>1. View'.gen[x_ptr] = p
      BY <1>3, <1>8, ViewDefNext
    <2>2. q = Register(RAND_N, RAND_I, words[x_ptr]).q
      BY <1>3, ViewDef
    <2>3. p.q = [k \in 1 .. RAND_N |-> IF k = RAND_N THEN q[1] ELSE q[k + 1]]
      BY <1>4, <1>6, <2>2, RegisterTurn
    <2>4. p = [n |-> RAND_N, q |-> p.q]
      BY DEF Register
    <2> HIDE DEF p, q, v, g
    <2>5. g.q = [k \in 1 .. RAND_N |-> g.q[k]]
      BY <1>7
    <2>6. q[1] = v /\ \A k \in 1 .. RAND_N : k # RAND_N => q[k + 1] = g.q[k + 1]
      BY <1>6, <1>7, <2>5
    <2>7. p.q = [k \in 1 .. RAND_N |-> IF k = RAND_N THEN v ELSE g.q[k + 1]]
      BY <2>3, <2>6
    <2>8. p.q = Append(Tail(g.q), v)
      BY <1>6, <2>5, <2>7, TailAppend
    <2>9. A!Advance(g) = [n |-> RAND_N, q |-> Append(Tail(g.q), v)]
      BY <1>7, <2>5, SpecAdvance
    <2> QED
      BY <2>1, <2>4, <2>8, <2>9 DEF p
  <1>12. A!Output(g) = v \div 2
    BY <1>4, <1>7 DEF A!Output
  <1>13. Effect(t)'
    BY <1>1, <1>3, <1>4, <1>7, <1>8, <1>11, <1>12 DEF Effect
  <1>14. ProgressInv(t)'
    BY <1>1, <1>3, <1>7, <1>8, <1>13 DEF ProgressInv, CriticalSection
  <1> QED
    BY <1>2, <1>10, <1>14, OthersProgress DEF RefInv, AdvanceIndices, Goto, TypeOK, caller

-----------------------------------------------------------------------------
(* Seeding, by srandom and by initstate.                                    *)

(* What the lock holder knows when it seeds.                                *)
LEMMA SeedFacts ==
    ASSUME Inv, RefInv, NEW t \in Threads, pc[t] \in {"seed", "fill"}
    PROVE  /\ Holder(t) /\ x_ptr \in Buffers
           /\ op[t].f \in {"srandom", "initstate"}
           /\ op[t].f = "srandom" => /\ loc[t].old = NULL
                                     /\ x_ptr = published.cur
                                     /\ published.gen[x_ptr].n = RAND_N
           /\ op[t].f = "initstate" => /\ loc[t].old = published.cur
                                       /\ RAND_N = Degree(op[t].size)
           /\ PublishedInv
  <1>1. Holder(t)
    BY Alone DEF Inv, CriticalSection, Holder
  <1>2. op[t].f \in {"srandom", "initstate"}
    BY DEF Inv, OpInv
  <1>3. x_ptr \in Buffers
    BY XPtr DEF Inv
  <1>4. ProgressInv(t) /\ PublishedInv
    BY DEF RefInv
  <1> QED
    BY <1>1, <1>2, <1>3, <1>4 DEF ProgressInv, CriticalSection

(* The end of seeding: a fresh generator of the same degree.                *)
LEMMA SeededRef ==
    ASSUME Inv, RefInv, NEW t \in Threads, pc[t] \in {"seed", "fill"},
           x_ptr' = x_ptr, published' = published, hdr' = hdr, RAND_N' = RAND_N,
           UNCHANGED caller, loc'[t].old = loc[t].old,
           \A b \in Buffers : b # x_ptr => words'[b] = words[b],
           pc' = [pc EXCEPT ![t] = AfterSeed(t)],
           \A u \in Threads \ {t} : loc'[u] = loc[u],
           View'.gen[x_ptr] = A!SeedGen(RAND_N, op[t].seed)
    PROVE  RefInv'
  <1>1. /\ Holder(t) /\ x_ptr \in Buffers
        /\ op[t].f \in {"srandom", "initstate"}
        /\ op[t].f = "srandom" => /\ loc[t].old = NULL
                                  /\ x_ptr = published.cur
                                  /\ published.gen[x_ptr].n = RAND_N
        /\ op[t].f = "initstate" => /\ loc[t].old = published.cur
                                    /\ RAND_N = Degree(op[t].size)
        /\ PublishedInv
    BY SeedFacts
  <1>2. /\ pc'[t] = IF op[t].f = "srandom" THEN "unlock" ELSE "resave"
        /\ op' = op
        /\ \A u \in Threads \ {t} : pc'[u] = pc[u]
    BY DEF Inv, TypeOK, AfterSeed, caller
  <1>3. ParkedKept'
    BY <1>1, StillParked DEF PublishedInv
  <1>4. PublishedInv'
    BY <1>1, <1>2, <1>3, MovedPublished DEF Moved
  <1>5. CASE op[t].f = "srandom"
    <2>1. Effect(t)'
      BY <1>1, <1>2, <1>5 DEF Effect
    <2>2. ProgressInv(t)'
      BY <1>1, <1>2, <1>5, <2>1 DEF ProgressInv, CriticalSection
    <2> QED
      BY <1>1, <1>2, <1>4, <2>2, OthersProgress DEF RefInv
  <1>6. CASE op[t].f = "initstate"
    <2>1. ProgressInv(t)'
      BY <1>1, <1>2, <1>6 DEF ProgressInv, CriticalSection
    <2> QED
      BY <1>1, <1>2, <1>4, <2>1, OthersProgress DEF RefInv
  <1> QED
    BY <1>1, <1>5, <1>6

(* Seeding the linear generator.                                            *)
LEMMA SeedLcgRef == ASSUME Inv, RefInv, NEW t \in Threads, SeedLcg(t) PROVE RefInv'
  <1>1. pc[t] = "seed" /\ RAND_N = 0
    BY DEF SeedLcg, Goto
  <1>2. x_ptr \in Buffers /\ x_ptr' = x_ptr
    BY XPtr DEF Inv, SeedLcg
  <1>3. /\ \A b \in Buffers : b # x_ptr => words'[b] = words[b]
        /\ words'[x_ptr][0] = op[t].seed
    <2>1. 0 \in Slots
      BY DEF Slots
    <2>2. Write(x_ptr, 0, op[t].seed)
      BY DEF SeedLcg
    <2> QED
      BY <1>2, <2>1, <2>2, StoredWord DEF Inv
  <1>4. View'.gen[x_ptr] = A!SeedGen(RAND_N, op[t].seed)
    <2>1. View'.gen[x_ptr] = Register(0, RAND_I, words'[x_ptr])
      BY <1>1, <1>2, ViewDefNext DEF SeedLcg
    <2>2. Register(0, RAND_I, words'[x_ptr]) = [n |-> 0, q |-> <<op[t].seed>>]
      BY <1>3 DEF Register
    <2>3. A!SeedGen(0, op[t].seed) = [n |-> 0, q |-> <<op[t].seed>>]
      BY SpecSeedGen
    <2> QED
      BY <1>1, <2>1, <2>2, <2>3
  <1> QED
    BY <1>1, <1>2, <1>3, <1>4, SeededRef DEF SeedLcg, Goto

(* The seeding loop continues the sequence of lcg64 states.                 *)
LEMMA FillingRef ==
    ASSUME Inv, RefInv, NEW t \in Threads, pc[t] \in {"seed", "fill"},
           x_ptr' = x_ptr, published' = published, hdr' = hdr, RAND_N' = RAND_N,
           UNCHANGED caller, loc'[t].old = loc[t].old,
           \A b \in Buffers : b # x_ptr => words'[b] = words[b],
           pc' = [pc EXCEPT ![t] = "fill"],
           \A u \in Threads \ {t} : loc'[u] = loc[u],
           FillInv(t)'
    PROVE  RefInv'
  <1>1. /\ Holder(t) /\ x_ptr \in Buffers
        /\ op[t].f \in {"srandom", "initstate"}
        /\ op[t].f = "srandom" => /\ loc[t].old = NULL
                                  /\ x_ptr = published.cur
                                  /\ published.gen[x_ptr].n = RAND_N
        /\ op[t].f = "initstate" => /\ loc[t].old = published.cur
                                    /\ RAND_N = Degree(op[t].size)
        /\ PublishedInv
    BY SeedFacts
  <1>2. /\ pc'[t] = "fill"
        /\ op' = op
        /\ \A u \in Threads \ {t} : pc'[u] = pc[u]
    BY DEF Inv, TypeOK, caller
  <1>3. ParkedKept'
    BY <1>1, StillParked DEF PublishedInv
  <1>4. PublishedInv'
    BY <1>1, <1>2, <1>3, MovedPublished DEF Moved, Reseeding
  <1>5. ProgressInv(t)'
    BY <1>1, <1>2 DEF ProgressInv, CriticalSection
  <1> QED
    BY <1>1, <1>2, <1>4, <1>5, OthersProgress DEF RefInv

(* srandom_locked before its loop.                                          *)
LEMMA SeedStartRef == ASSUME Inv, RefInv, NEW t \in Threads, SeedStart(t) PROVE RefInv'
  <1>1. pc[t] = "seed" /\ RAND_N # 0
    BY DEF SeedStart, Goto
  <1>2. x_ptr' = x_ptr
    BY XPtr DEF Inv, SeedStart
  <1>3. /\ op' = op /\ RAND_N' = RAND_N /\ RAND_N \in Nat
        /\ loc'[t].v = op[t].seed /\ loc'[t].i = 0 /\ loc'[t].old = loc[t].old
        /\ \A u \in Threads \ {t} : loc'[u] = loc[u]
    BY DEF SeedStart, caller, Frame, Inv, TypeOK, Degrees
  <1>4. FillInv(t)'
    BY <1>3, SeedStatesDef DEF FillInv
  <1> QED
    BY <1>1, <1>2, <1>3, <1>4, FillingRef DEF SeedStart, Goto, memory

(* One word of the loop of srandom_locked.                                  *)
LEMMA SeedFillRef == ASSUME Inv, RefInv, NEW t \in Threads, SeedFill(t) PROVE RefInv'
  <1> DEFINE s == SeedStates(RAND_N, op[t].seed)
             i == loc[t].i
  <1>1. pc[t] = "fill"
    BY DEF SeedFill, Goto
  <1>2. x_ptr \in Buffers /\ x_ptr' = x_ptr
    BY XPtr DEF Inv, SeedFill, statics
  <1>3. /\ loc[t].x = x_ptr /\ loc[t].n = RAND_N /\ i < RAND_N /\ i \in Nat
        /\ RAND_N \in Nat /\ i \in Slots /\ i \in 0 .. RAND_N - 1 /\ RAND_N <= 63
    BY <1>1 DEF Inv, TypeOK, Locals, LocalsInv, LocalInv, SeedFill, Degrees, Slots
  <1>4. FillInv(t)
    BY <1>1 DEF RefInv, ProgressInv
  <1>5. /\ s[i + 1] = lcg64(loc[t].v)
    BY <1>3, <1>4, SeedStatesDef DEF FillInv
  <1>6. /\ op' = op /\ RAND_N' = RAND_N
        /\ loc'[t].v = lcg64(loc[t].v) /\ loc'[t].i = i + 1 /\ loc'[t].old = loc[t].old
        /\ \A u \in Threads \ {t} : loc'[u] = loc[u]
    BY DEF SeedFill, caller, statics, Frame, Inv, TypeOK
  <1>7. /\ \A b \in Buffers : b # x_ptr => words'[b] = words[b]
        /\ words'[x_ptr][i] = HighWord(s[i + 1])
        /\ \A k \in Slots : k # i => words'[x_ptr][k] = words[x_ptr][k]
    <2>1. Write(x_ptr, i, HighWord(s[i + 1]))
      BY <1>3, <1>5 DEF SeedFill
    <2> QED
      BY <1>2, <1>3, <2>1, StoredWord DEF Inv
  <1> HIDE DEF s, i
  <1>8. \A k \in 0 .. (i + 1) - 1 : words'[x_ptr][k] = HighWord(s[k + 1])
    <2> SUFFICES ASSUME NEW k \in 0 .. (i + 1) - 1 PROVE words'[x_ptr][k] = HighWord(s[k + 1])
      OBVIOUS
    <2>1. CASE k = i
      BY <1>7, <2>1
    <2>2. CASE k # i
      <3>1. k \in 0 .. i - 1 /\ k \in Slots
        BY <1>3, <2>2 DEF Slots
      <3>2. words[x_ptr][k] = HighWord(s[k + 1])
        BY <1>4, <3>1 DEF FillInv, s, i
      <3> QED
        BY <1>7, <2>2, <3>1, <3>2
    <2> QED
      BY <2>1, <2>2
  <1>9. FillInv(t)'
    BY <1>2, <1>5, <1>6, <1>8 DEF FillInv, s
  <1> QED
    BY <1>1, <1>2, <1>6, <1>7, <1>9, FillingRef DEF SeedFill, Goto

(* The first word made odd: seeding is complete.                            *)
LEMMA SeedOddRef == ASSUME Inv, RefInv, NEW t \in Threads, SeedOdd(t) PROVE RefInv'
  <1> DEFINE s == SeedStates(RAND_N, op[t].seed)
             w == SeedWords(RAND_N, op[t].seed)
  <1>1. pc[t] = "fill"
    BY DEF SeedOdd, Goto
  <1>2. x_ptr \in Buffers /\ x_ptr' = x_ptr
    BY XPtr DEF Inv, SeedOdd, statics, x_ptr
  <1>3. /\ loc[t].x = x_ptr /\ loc[t].n = RAND_N /\ loc[t].i = RAND_N
        /\ RAND_N \in Degrees /\ RAND_N # 0 /\ RAND_I = Separation(RAND_N) /\ RAND_I \in 0 .. 62
    BY <1>1 DEF Inv, TypeOK, LocalsInv, LocalInv, SeedOdd
  <1>4. 0 \in Slots /\ 0 \in 0 .. RAND_N - 1 /\ 0 .. RAND_N - 1 \subseteq Slots
    BY <1>3 DEF Degrees, Slots
  <1>5. \A k \in 0 .. RAND_N - 1 : words[x_ptr][k] = HighWord(s[k + 1])
    BY <1>1, <1>3 DEF RefInv, ProgressInv, FillInv
  <1>6. /\ \A b \in Buffers : b # x_ptr => words'[b] = words[b]
        /\ words'[x_ptr][0] = MakeOdd(words[x_ptr][0])
        /\ \A k \in Slots : k # 0 => words'[x_ptr][k] = words[x_ptr][k]
    <2>1. Write(x_ptr, 0, MakeOdd(words[x_ptr][0]))
      BY <1>3 DEF SeedOdd
    <2> QED
      BY <1>2, <1>4, <2>1, StoredWord DEF Inv
  <1>7. \A k \in 0 .. RAND_N - 1 :
            w[k] = IF k = 0 THEN MakeOdd(HighWord(s[1])) ELSE HighWord(s[k + 1])
    BY DEF SeedWords
  <1> HIDE DEF s, w
  <1>8. \A k \in 0 .. RAND_N - 1 : words'[x_ptr][k] = w[k]
    <2>1. words[x_ptr][0] = HighWord(s[1])
      BY <1>4, <1>5
    <2> QED
      BY <1>4, <1>5, <1>6, <1>7, <2>1
  <1>9. View'.gen[x_ptr] = A!SeedGen(RAND_N, op[t].seed)
    <2>1. View'.gen[x_ptr] = Register(RAND_N, RAND_I, words'[x_ptr])
      BY <1>2, ViewDefNext DEF SeedOdd, statics
    <2>2. Register(RAND_N, RAND_I, words'[x_ptr]) = Register(RAND_N, RAND_I, w)
      BY <1>3, <1>4, <1>8, RegisterWords
    <2>3. A!SeedGen(RAND_N, op[t].seed) = Register(RAND_N, Separation(RAND_N), w)
      BY <1>3, SpecSeedGen DEF w
    <2> QED
      BY <1>3, <2>1, <2>2, <2>3
  <1> QED
    BY <1>1, <1>2, <1>6, <1>9, SeededRef DEF SeedOdd, Goto, statics

-----------------------------------------------------------------------------
(* initstate and setstate.                                                  *)

(* A header written for the current generator is not looked at.             *)
LEMMA SaveView ==
    ASSUME TypeOK, savestate, RAND_N' = RAND_N, RAND_I' = RAND_I, words' = words
    PROVE  View' = View /\ x_ptr' = x_ptr
  <1>1. x_ptr' = x_ptr /\ \A b \in Buffers : b # x_ptr => hdr'[b] = hdr[b]
    BY SaveHeader
  <1>2. \A b \in Buffers : View'.gen[b] = View.gen[b]
    BY <1>1, ViewDef, ViewDefNext
  <1>3. /\ View = [gen |-> [b \in Buffers |-> View.gen[b]], cur |-> x_ptr]
        /\ View' = [gen |-> [b \in Buffers |-> View'.gen[b]], cur |-> x_ptr']
    BY ViewDef, ViewDefNext
  <1>4. [b \in Buffers |-> View'.gen[b]] = [b \in Buffers |-> View.gen[b]]
    BY <1>2
  <1> QED
    BY <1>1, <1>3, <1>4

(* initstate and setstate park the current generator.                       *)
LEMMA SaveOldRef == ASSUME Inv, RefInv, NEW t \in Threads, SaveOld(t) PROVE RefInv'
  <1> USE DEF Inv
  <1>1. Holder(t) /\ ~Moved(t) /\ op[t].f \in {"initstate", "setstate"}
    BY Alone DEF SaveOld, Goto, CriticalSection, TypeOK, Holder, Moved, Reseeding, OpInv
  <1>2. published = View
    BY <1>1, HolderPublished DEF RefInv
  <1>3. View' = View /\ x_ptr' = x_ptr
    BY SaveView DEF SaveOld
  <1>4. PublishedInv'
    BY <1>2, <1>3, SamePublished DEF RefInv, SaveOld
  <1>5. /\ pc'[t] \in {"switch", "load"} /\ op'[t] = op[t] /\ loc'[t].old = x_ptr
        /\ published'.cur = x_ptr
    BY <1>2, ViewDef DEF SaveOld, Goto, TypeOK, caller, Frame
  <1>6. ProgressInv(t)'
    BY <1>1, <1>5 DEF ProgressInv, CriticalSection
  <1> QED
    BY <1>1, <1>4, <1>6, OthersProgress DEF RefInv, SaveOld, Goto, TypeOK, caller

(* The generators before the statics are pointed elsewhere.                 *)
LEMMA SavedFacts ==
    ASSUME Inv, RefInv, NEW t \in Threads, pc[t] \in {"switch", "load"}
    PROVE  /\ Holder(t) /\ op[t].buf \in Buffers
           /\ loc[t].old = published.cur
           /\ \A b \in Buffers : published.gen[b] =
                 IF hdr[b] = Garbage THEN NoGen
                 ELSE Register(HeaderN(hdr[b]), HeaderI(hdr[b]), words[b])
  <1>1. Holder(t) /\ ~Moved(t) /\ op[t] \in Calls /\ op[t].f \in {"initstate", "setstate"}
    BY Alone DEF Inv, CriticalSection, TypeOK, Holder, Moved, Reseeding, OpInv
  <1>2. published = View
    BY <1>1, HolderPublished DEF RefInv
  <1>3. hdr[x_ptr] = Pack(RAND_N, RAND_I, RAND_J)
    BY DEF Inv, LocalsInv, LocalInv
  <1>4. loc[t].old = published.cur
    BY <1>1 DEF RefInv, ProgressInv, CriticalSection
  <1>5. op[t].buf \in Buffers
    BY <1>1, CallShape
  <1> QED
    BY <1>1, <1>2, <1>3, <1>4, <1>5, SavedView DEF Inv

(* initstate points the statics at the new buffer.                          *)
LEMMA SwitchRef == ASSUME Inv, RefInv, NEW t \in Threads, Switch(t) PROVE RefInv'
  <1>1. pc[t] = "switch" /\ op[t].f = "initstate"
    BY DEF Switch, Goto, Inv, OpInv
  <1>2. /\ Holder(t) /\ op[t].buf \in Buffers
        /\ loc[t].old = published.cur
        /\ \A b \in Buffers : published.gen[b] =
              IF hdr[b] = Garbage THEN NoGen
              ELSE Register(HeaderN(hdr[b]), HeaderI(hdr[b]), words[b])
    BY <1>1, SavedFacts
  <1>3. /\ pc'[t] = "seed" /\ op' = op /\ loc' = loc /\ published' = published
        /\ words' = words /\ hdr' = hdr /\ RAND_N' = Degree(op[t].size)
        /\ \A u \in Threads \ {t} : pc'[u] = pc[u]
    BY DEF Switch, Goto, memory, caller, Inv, TypeOK
  <1>4. ParkedKept'
    BY <1>2, <1>3, ViewDefNext DEF ParkedKept
  <1>5. PublishedInv'
    BY <1>1, <1>3, <1>4, MovedPublished DEF RefInv, Moved, Reseeding
  <1>6. ProgressInv(t)'
    BY <1>1, <1>2, <1>3 DEF ProgressInv, CriticalSection
  <1> QED
    BY <1>2, <1>3, <1>5, <1>6, OthersProgress DEF RefInv

(* initstate writes the header of the new generator.                        *)
LEMMA SaveNewRef == ASSUME Inv, RefInv, NEW t \in Threads, SaveNew(t) PROVE RefInv'
  <1>1. pc[t] = "resave" /\ op[t].f = "initstate" /\ op[t] \in Calls
    BY DEF SaveNew, Goto, Inv, OpInv
  <1>2. Holder(t)
    BY <1>1, Alone DEF Inv, CriticalSection, Holder
  <1>3. View' = View /\ x_ptr' = x_ptr
    BY SaveView DEF SaveNew, Inv
  <1>4. x_ptr = op[t].buf
    BY <1>1, CallShape, DefaultAssumption DEF Inv, LocalsInv, LocalInv, x_ptr
  <1>5. /\ loc[t].old = published.cur /\ RAND_N = Degree(op[t].size)
        /\ View.gen[x_ptr] = A!SeedGen(RAND_N, op[t].seed)
    BY <1>1 DEF RefInv, ProgressInv, CriticalSection
  <1>6. /\ pc'[t] = "unlock" /\ op' = op /\ loc' = loc /\ published' = published
        /\ \A u \in Threads \ {t} : pc'[u] = pc[u]
    BY DEF SaveNew, Goto, caller, Inv, TypeOK
  <1>7. ParkedKept'
    BY <1>3, <1>6 DEF RefInv, PublishedInv, ParkedKept
  <1>8. PublishedInv'
    BY <1>6, <1>7, MovedPublished DEF RefInv, Moved
  <1>9. Effect(t)'
    BY <1>1, <1>3, <1>4, <1>5, <1>6 DEF Effect
  <1>10. ProgressInv(t)'
    BY <1>1, <1>5, <1>6, <1>9 DEF ProgressInv, CriticalSection
  <1> QED
    BY <1>2, <1>6, <1>8, <1>10, OthersProgress DEF RefInv

(* setstate unpacks the header of the chosen buffer.                        *)
LEMMA LoadRef == ASSUME Inv, RefInv, NEW t \in Threads, Load(t) PROVE RefInv'
  <1> DEFINE buf == op[t].buf
  <1>1. pc[t] = "load" /\ op[t].f = "setstate" /\ buf \in known
    BY DEF Load, Goto, Inv, OpInv
  <1>2. /\ Holder(t) /\ buf \in Buffers
        /\ loc[t].old = published.cur
        /\ \A b \in Buffers : published.gen[b] =
              IF hdr[b] = Garbage THEN NoGen
              ELSE Register(HeaderN(hdr[b]), HeaderI(hdr[b]), words[b])
    BY <1>1, SavedFacts
  <1>3. hdr[buf] # Garbage
    BY <1>1 DEF Inv, KnownInv
  <1>4. /\ pc'[t] = "unlock" /\ op' = op /\ loc' = loc /\ published' = published
        /\ words' = words /\ hdr' = hdr
        /\ \A u \in Threads \ {t} : pc'[u] = pc[u]
    BY DEF Load, Goto, memory, caller, Inv, TypeOK
  <1>5. x_ptr' = buf /\ RAND_N' = HeaderN(hdr[buf]) /\ RAND_I' = HeaderI(hdr[buf])
    BY <1>2, DefaultAssumption DEF Load, loadstate, x_ptr
  <1>6. \A b \in Buffers : View'.gen[b] = published.gen[b]
    BY <1>2, <1>3, <1>4, <1>5, ViewDefNext
  <1>7. ParkedKept'
    BY <1>4, <1>6 DEF ParkedKept
  <1>8. PublishedInv'
    BY <1>4, <1>7, MovedPublished DEF RefInv, Moved
  <1>9. Effect(t)'
    BY <1>1, <1>2, <1>4, <1>5, <1>6 DEF Effect
  <1>10. ProgressInv(t)'
    BY <1>1, <1>2, <1>4, <1>9 DEF ProgressInv, CriticalSection
  <1> QED
    BY <1>2, <1>4, <1>8, <1>10, OthersProgress DEF RefInv

-----------------------------------------------------------------------------
(* The steps outside the critical section, and the unlock.                  *)

(* A step of t outside the critical section says nothing of the others.     *)
LEMMA QuietProgress ==
    ASSUME RefInv, NEW t \in Threads, View' = View, x_ptr' = x_ptr, published' = published,
           UNCHANGED <<RAND_N, words>>, ProgressInv(t)',
           \A u \in Threads \ {t} : pc'[u] = pc[u] /\ op'[u] = op[u] /\ loc'[u] = loc[u]
    PROVE  \A u \in Threads : ProgressInv(u)'
  <1> SUFFICES ASSUME NEW u \in Threads, u # t PROVE ProgressInv(u)'
    OBVIOUS
  <1>1. pc'[u] = pc[u] /\ op'[u] = op[u] /\ loc'[u] = loc[u]
    OBVIOUS
  <1>2. ProgressInv(u)
    BY DEF RefInv
  <1>3. (FillInv(u) => FillInv(u)') /\ (Effect(u) => Effect(u)')
    BY <1>1 DEF FillInv, Effect
  <1> QED
    BY <1>1, <1>2, <1>3 DEF ProgressInv

(* Nor does it move a generator.                                            *)
LEMMA QuietPublished ==
    ASSUME PublishedInv, View' = View, x_ptr' = x_ptr, published' = published,
           \A u \in Threads : Moved(u) => Moved(u)'
    PROVE  PublishedInv'
  BY DEF PublishedInv, ParkedKept

(* A thread enters one of the four entry points.                            *)
LEMMA CallRef == ASSUME Inv, RefInv, NEW t \in Threads, Call(t) PROVE RefInv'
  <1>1. View' = View /\ x_ptr' = x_ptr
    BY QuietView DEF Call
  <1>2. /\ pc[t] = "idle" /\ pc'[t] = "entry" /\ loc' = loc /\ published' = published
        /\ \A u \in Threads \ {t} : pc'[u] = pc[u] /\ op'[u] = op[u]
    BY DEF Call, Goto, Inv, TypeOK
  <1>3. \A u \in Threads : Moved(u) => Moved(u)'
    BY <1>2 DEF Moved, Reseeding
  <1>4. PublishedInv'
    BY <1>1, <1>2, <1>3, QuietPublished DEF RefInv
  <1>5. ProgressInv(t)'
    BY <1>2 DEF RefInv, ProgressInv, CriticalSection
  <1> QED
    BY <1>1, <1>2, <1>4, <1>5, QuietProgress DEF RefInv, Call, statics, memory

(* initstate refuses a buffer below 8 bytes.                                *)
LEMMA InitstateSmallRef == ASSUME Inv, RefInv, NEW t \in Threads, InitstateSmall(t) PROVE RefInv'
  <1>1. View' = View /\ x_ptr' = x_ptr
    BY QuietView DEF InitstateSmall, Return
  <1>2. /\ pc[t] = "entry" /\ pc'[t] = "idle" /\ op'[t] = NoCall /\ loc'[t].old = NULL
        /\ published' = published
        /\ \A u \in Threads \ {t} : pc'[u] = pc[u] /\ op'[u] = op[u] /\ loc'[u] = loc[u]
    BY DEF InitstateSmall, Return, Goto, Inv, TypeOK, NoLocals, Frame
  <1>3. \A u \in Threads : Moved(u) => Moved(u)'
    BY <1>2 DEF Moved, Reseeding
  <1>4. PublishedInv'
    BY <1>1, <1>2, <1>3, QuietPublished DEF RefInv
  <1>5. ProgressInv(t)'
    BY <1>2 DEF ProgressInv, CriticalSection
  <1> QED
    BY <1>1, <1>2, <1>4, <1>5, QuietProgress DEF RefInv, InitstateSmall, Return, statics, memory

(* A thread takes the spinlock.                                             *)
LEMMA LockRef == ASSUME Inv, RefInv, NEW t \in Threads, Lock(t) PROVE RefInv'
  <1>1. View' = View /\ x_ptr' = x_ptr
    BY QuietView DEF Lock
  <1>2. /\ pc[t] = "entry" /\ op' = op /\ loc' = loc /\ published' = published
        /\ pc'[t] = IF op[t].f = "random" THEN "read"
                    ELSE IF op[t].f = "srandom" THEN "seed" ELSE "save"
        /\ \A u \in Threads \ {t} : pc'[u] = pc[u]
    BY DEF Lock, Goto, caller, Inv, TypeOK
  <1>3. \A u \in Threads : pc[u] \notin CriticalSection
    BY DEF Lock, Inv, LockInv
  <1>4. \A u \in Threads : ~Moved(u)
    BY <1>3 DEF Moved, Reseeding, CriticalSection
  <1>5. published = View
    BY <1>4 DEF RefInv, PublishedInv
  <1>6. PublishedInv'
    BY <1>1, <1>2, <1>5, SamePublished DEF RefInv
  <1>7. x_ptr = published.cur /\ published.gen[x_ptr].n = RAND_N
    <2>1. x_ptr \in Buffers
      BY XPtr DEF Inv
    <2>2. View.cur = x_ptr /\ View.gen[x_ptr] = Register(RAND_N, RAND_I, words[x_ptr])
      BY <2>1, ViewDef
    <2>3. Register(RAND_N, RAND_I, words[x_ptr]).n = RAND_N
      BY DEF Register
    <2> QED
      BY <1>5, <2>2, <2>3
  <1>8. loc[t].old = NULL
    BY <1>2 DEF RefInv, ProgressInv
  <1>9. RAND_N' = RAND_N /\ words' = words
    BY DEF Lock, statics, memory
  <1>10. ProgressInv(t)'
    BY <1>1, <1>2, <1>7, <1>8, <1>9 DEF ProgressInv, CriticalSection
  <1> QED
    BY <1>1, <1>2, <1>6, <1>9, <1>10, QuietProgress DEF RefInv

(* A thread releases the spinlock and publishes what it did.                *)
LEMMA UnlockRef == ASSUME Inv, RefInv, NEW t \in Threads, Unlock(t) PROVE RefInv'
  <1>1. View' = View /\ x_ptr' = x_ptr
    BY QuietView DEF Unlock, Return
  <1>2. /\ pc[t] = "unlock" /\ pc'[t] = "idle" /\ op'[t] = NoCall /\ loc'[t].old = NULL
        /\ published' = View
        /\ \A u \in Threads \ {t} : pc'[u] = pc[u] /\ op'[u] = op[u] /\ loc'[u] = loc[u]
    BY DEF Unlock, Return, Goto, Inv, TypeOK, NoLocals, Frame
  <1>3. Holder(t)
    BY <1>2, Alone DEF Inv, CriticalSection, Holder
  <1>4. PublishedInv'
    <2>1. View = [gen |-> [b \in Buffers |-> View.gen[b]], cur |-> View.cur]
      <3>1. View = [gen |-> [b \in Buffers |-> View.gen[b]], cur |-> x_ptr]
        BY ViewDef
      <3>2. View.cur = x_ptr
        BY <3>1
      <3> QED
        BY <3>1, <3>2
    <2> QED
      BY <1>1, <1>2, <2>1 DEF PublishedInv, ParkedKept
  <1>5. ProgressInv(t)'
    BY <1>2 DEF ProgressInv, CriticalSection
  <1> QED
    BY <1>2, <1>3, <1>4, <1>5, OthersProgress DEF RefInv

(* At first the memory holds what is published.                             *)
LEMMA InitRef == Init => RefInv
  <1> SUFFICES ASSUME Init PROVE RefInv
    OBVIOUS
  <1>1. published = View
    BY DEF Init
  <1>2. View = [gen |-> [b \in Buffers |-> View.gen[b]], cur |-> View.cur]
    <2>1. View = [gen |-> [b \in Buffers |-> View.gen[b]], cur |-> x_ptr]
      BY ViewDef
    <2>2. View.cur = x_ptr
      BY <2>1
    <2> QED
      BY <2>1, <2>2
  <1>3. PublishedInv
    BY <1>1, <1>2 DEF PublishedInv, ParkedKept
  <1>4. \A t \in Threads : pc[t] = "idle" /\ op[t] = NoCall /\ loc[t].old = NULL
    BY DEF Init, NoLocals, Frame
  <1>5. \A t \in Threads : ProgressInv(t)
    BY <1>4 DEF ProgressInv, CriticalSection
  <1> QED
    BY <1>3, <1>5 DEF RefInv

(* Every step keeps the memory and what is published in step.               *)
LEMMA NextRef == Inv /\ RefInv /\ [Next]_vars => RefInv'
  <1> SUFFICES ASSUME Inv, RefInv, [Next]_vars PROVE RefInv'
    OBVIOUS
  <1>1. ASSUME NEW t \in Threads, Call(t) PROVE RefInv'
    BY <1>1, CallRef
  <1>2. ASSUME NEW t \in Threads, InitstateSmall(t) \/ Lock(t) PROVE RefInv'
    BY <1>2, InitstateSmallRef, LockRef
  <1>3. ASSUME NEW t \in Threads, Locked(t) PROVE RefInv'
    BY <1>3, ReadRef, StoreLcgRef, StoreRef, AdvanceIndicesRef, SeedLcgRef, SeedStartRef,
       SeedFillRef, SeedOddRef, SaveOldRef, SwitchRef, SaveNewRef, LoadRef, UnlockRef
       DEF Locked
  <1>4. CASE UNCHANGED vars
    <2>1. View' = View /\ x_ptr' = x_ptr
      BY <1>4, QuietView DEF vars
    <2> QED
      BY <1>4, <2>1 DEF vars, statics, memory, caller, RefInv, PublishedInv, ParkedKept, Moved,
         Reseeding, ProgressInv, FillInv, Effect
  <1> QED
    BY <1>1, <1>2, <1>3, <1>4 DEF Next, Step, Done

(* Whatever the threads do, the memory differs from the published           *)
(* generators by exactly the part of the call in progress that is done.     *)
THEOREM RefInvariance == Spec => [](Inv /\ RefInv)
  BY InitInv, NextInv, InitRef, NextRef, PTL DEF Spec

-----------------------------------------------------------------------------
(* The unlock is the atomic call.                                           *)
LEMMA UnlockIsCall == ASSUME Inv, RefInv, NEW t \in Threads, Unlock(t) PROVE A!Finish(t)
  <1> DEFINE gen == published.gen
             cur == published.cur
             c == op[t]
  <1>1. /\ pc[t] = "unlock" /\ c \in Calls /\ ~TooSmall(t) /\ Holder(t)
    BY Alone DEF Unlock, Inv, OpInv, CriticalSection, Holder
  <1>2. c # NoCall
    BY <1>1, MarkerAssumption
  <1>3. c.f \in {"random", "srandom", "initstate", "setstate"}
    BY <1>1, CallShape
  <1>4. x_ptr \in Buffers
    BY XPtr DEF Inv
  <1>5. /\ Effect(t)
        /\ IF c.f \in {"random", "srandom"}
             THEN loc[t].old = NULL /\ x_ptr = cur
             ELSE loc[t].old = cur
    BY <1>1 DEF RefInv, ProgressInv, CriticalSection
  <1>6. /\ op' = [op EXCEPT ![t] = NoCall]
        /\ published' = View /\ published'.cur = x_ptr
        /\ c.f = "random" =>
              res' = [res EXCEPT ![t] = IF loc[t].n = 0 THEN loc[t].v ELSE loc[t].v \div 2]
        /\ c.f # "random" => res' = [res EXCEPT ![t] = loc[t].old]
    BY ViewDef DEF Unlock, Return
  <1>7. \A b \in Buffers : b # x_ptr => View.gen[b] = gen[b]
    BY DEF RefInv, PublishedInv, ParkedKept
  <1>8. published'.gen = [b \in Buffers |-> View.gen[b]] /\ gen = [b \in Buffers |-> gen[b]]
    BY <1>6, ViewDef DEF RefInv, PublishedInv
  <1> HIDE DEF gen
  <1>9. published'.gen = [gen EXCEPT ![x_ptr] = View.gen[x_ptr]]
    BY <1>4, <1>7, <1>8
  <1>10. CASE c.f = "random"
    <2>1. View.gen[x_ptr] = A!Advance(gen[cur]) /\ x_ptr = cur
      BY <1>5, <1>10 DEF Effect, gen
    <2>2. (IF loc[t].n = 0 THEN loc[t].v ELSE loc[t].v \div 2) = A!Output(gen[cur])
      BY <1>5, <1>10 DEF Effect, gen
    <2>3. A!Random(t)
      BY <1>6, <1>9, <1>10, <2>1, <2>2 DEF A!Random, A!Return, gen
    <2> QED
      BY <1>2, <2>3 DEF A!Finish
  <1>11. CASE c.f = "srandom"
    <2>1. View.gen[x_ptr] = A!SeedGen(gen[cur].n, c.seed) /\ x_ptr = cur /\ loc[t].old = NULL
      BY <1>5, <1>11 DEF Effect, gen
    <2>2. A!Srandom(t)
      BY <1>6, <1>9, <1>11, <2>1 DEF A!Srandom, A!Return, gen
    <2> QED
      BY <1>2, <2>2 DEF A!Finish
  <1>12. CASE c.f = "initstate"
    <2>1. View.gen[x_ptr] = A!SeedGen(A!Degree(c.size), c.seed) /\ x_ptr = c.buf /\ loc[t].old = cur
      BY <1>5, <1>12 DEF Effect, A!Degree, Degree
    <2>2. c.size >= 8
      BY <1>1, <1>12, CallShape DEF TooSmall
    <2>3. A!Initstate(t)
      BY <1>6, <1>9, <1>12, <2>1, <2>2 DEF A!Initstate, A!Return, gen
    <2> QED
      BY <1>2, <2>3 DEF A!Finish
  <1>13. CASE c.f = "setstate"
    <2>1. View.gen[x_ptr] = gen[x_ptr] /\ x_ptr = c.buf /\ loc[t].old = cur
      BY <1>5, <1>13 DEF Effect, gen
    <2>2. GoodGen(x_ptr, RAND_N, RAND_I, RAND_J)
      BY <1>1 DEF Inv, ActiveInv, Reseeding, Holder, CriticalSection
    <2>3. View.gen[x_ptr] = Register(RAND_N, RAND_I, words[x_ptr])
      BY <1>4, ViewDef
    <2>4. gen[c.buf] # NoGen
      <3>1. Register(RAND_N, RAND_I, words[x_ptr]) \in [n : Degrees, q : Seq(Word)]
        BY <2>2, RegisterType DEF GoodGen
      <3>2. gen[c.buf] = Register(RAND_N, RAND_I, words[x_ptr])
        BY <2>1, <2>3
      <3> QED
        BY ONLY <3>1, <3>2, MarkerAssumption
    <2>5. published'.gen = gen
      BY <1>4, <1>8, <1>9, <2>1
    <2>6. A!Setstate(t)
      BY <1>6, <1>13, <2>1, <2>4, <2>5 DEF A!Setstate, A!Return, gen
    <2> QED
      BY <1>2, <2>6 DEF A!Finish
  <1> QED
    BY <1>3, <1>10, <1>11, <1>12, <1>13

(* Every other step of the code changes nothing RandomSpec speaks of, but   *)
(* for the invocation and the refusal of a small buffer.                    *)
LEMMA StepSimulates == Inv /\ RefInv /\ [Next]_vars => [A!Next]_A!vars
  <1> SUFFICES ASSUME Inv, RefInv, [Next]_vars PROVE [A!Next]_A!vars
    OBVIOUS
  <1>1. ASSUME NEW t \in Threads, Call(t) PROVE A!Next
    <2>1. op[t] = NoCall
      BY <1>1 DEF Call, Goto, RefInv, ProgressInv
    <2>2. A!Calls = Calls
      BY DEF A!Calls, Calls, A!InitstateCalls, InitstateCalls
    <2>3. A!Invoke(t)
      BY <1>1, <2>1, <2>2 DEF A!Invoke, Call
    <2> QED
      BY <2>3 DEF A!Next
  <1>2. ASSUME NEW t \in Threads, InitstateSmall(t) PROVE A!Next
    <2>1. op[t] \in Calls /\ op[t].f = "initstate" /\ op[t].size < 8
      BY <1>2 DEF InitstateSmall, TooSmall, Inv, OpInv
    <2>2. op[t] # NoCall
      BY <2>1, MarkerAssumption
    <2>3. A!InitstateSmall(t)
      BY <1>2, <2>1 DEF A!InitstateSmall, A!Return, InitstateSmall, Return
    <2> QED
      BY <2>2, <2>3 DEF A!Next, A!Finish
  <1>3. ASSUME NEW t \in Threads, Unlock(t) PROVE A!Next
    BY <1>3, UnlockIsCall DEF A!Next
  <1>4. ASSUME NEW t \in Threads, Locked(t), ~Unlock(t) PROVE UNCHANGED A!vars
    BY <1>4 DEF Locked, Read, StoreLcg, Store, AdvanceIndices, SeedLcg, SeedStart, SeedFill,
       SeedOdd, SaveOld, Switch, SaveNew, Load, caller, A!vars
  <1>5. ASSUME NEW t \in Threads, Lock(t) PROVE UNCHANGED A!vars
    BY <1>5 DEF Lock, caller, A!vars
  <1>6. CASE UNCHANGED vars
    BY <1>6 DEF vars, caller, A!vars
  <1> QED
    BY <1>1, <1>2, <1>3, <1>4, <1>5, <1>6 DEF Next, Step, Done

(* The statically initialised statics are the initial generator.            *)
LEMMA InitSimulates == Init => A!Init
  <1> SUFFICES ASSUME Init PROVE A!Init
    OBVIOUS
  <1>1. published = View /\ x_ptr = Default /\ Default \in Buffers
    BY DefaultAssumption DEF Init, x_ptr
  <1>2. published.cur = Default /\ published.gen = [b \in Buffers |-> View.gen[b]]
    BY <1>1, ViewDef
  <1>3. \A b \in Buffers : View.gen[b] = IF b = Default THEN Register(31, 3, InitialWords) ELSE NoGen
    <2> SUFFICES ASSUME NEW b \in Buffers
                 PROVE  View.gen[b] = IF b = Default THEN Register(31, 3, InitialWords) ELSE NoGen
      OBVIOUS
    <2>1. CASE b = Default
      <3>1. View.gen[b] = Register(31, 3, words[b])
        BY <1>1, <2>1, ViewDef DEF Init
      <3>2. \A k \in 0 .. 30 : words[b][k] = InitialWords[k]
        BY <2>1 DEF Init, Slots
      <3>3. Register(31, 3, words[b]) = Register(31, 3, InitialWords)
        <4>1. 31 \in Degrees /\ 3 \in 0 .. 62 /\ 0 \in 0 .. 30 /\ 31 - 1 = 30
          BY DEF Degrees
        <4>2. words[b][0] = InitialWords[0] /\ \A k \in 0 .. 31 - 1 : words[b][k] = InitialWords[k]
          BY <3>2, <4>1
        <4> QED
          BY ONLY <4>1, <4>2, RegisterWords
      <3> QED
        BY <2>1, <3>1, <3>3
    <2>2. CASE b # Default
      <3>1. hdr[b] = Garbage
        BY <2>2 DEF Init
      <3> QED
        BY <1>1, <2>2, <3>1, ViewDef
    <2> QED
      BY <2>1, <2>2
  <1>4. A!Register(31, 3, InitialWords) = Register(31, 3, InitialWords)
    BY DEF A!Register, Register
  <1>5. published.gen = [b \in Buffers |-> IF b = Default THEN A!Register(31, 3, InitialWords) ELSE NoGen]
    BY <1>2, <1>3, <1>4
  <1> QED
    BY <1>2, <1>5 DEF A!Init, Init

(* For any number of threads, buffers, sizes and calls and every word       *)
(* modulus, the locked functions with their circular buffers, running       *)
(* indices and packed headers implement the atomic shift registers of       *)
(* RandomSpec: every unlock is one atomic call, every other step invisible. *)
THEOREM Refinement == Spec => ImplementsRandomSpec
  BY RefInvariance, InitSimulates, StepSimulates, PTL DEF Spec, ImplementsRandomSpec, A!Spec

-----------------------------------------------------------------------------
(* rand48 and rand: arithmetic on half words.                               *)

(* Quotient and remainder, and that they are the only ones.                 *)
LEMMA Quotient ==
    ASSUME NEW x \in Int, NEW d \in Nat, d > 0
    PROVE  /\ x \div d \in Int /\ x % d \in Nat /\ x % d < d
           /\ x = (x \div d) * d + (x % d)
           /\ x >= 0 => x \div d \in Nat
  OBVIOUS

(* A multiple of d that is less than d away from zero is zero.              *)
LEMMA ProductSmall ==
    ASSUME NEW d \in Nat, NEW k \in Int, -d < k * d, k * d < d
    PROVE  k = 0
<1>1. CASE k >= 1
  BY <1>1
<1>2. CASE k <= -1
  BY <1>2
<1> QED BY <1>1, <1>2

(* Products distribute over sums and differences.                           *)
LEMMA Distribute ==
    ASSUME NEW a \in Int, NEW b \in Int, NEW d \in Int
    PROVE  (a - b) * d = a * d - b * d /\ (a + b) * d = a * d + b * d /\ a * d \in Int
  OBVIOUS

(* A quotient and a remainder in range are the quotient and the remainder.  *)
LEMMA QuotientUnique ==
    ASSUME NEW d \in Nat, NEW q \in Int, NEW r \in Nat, r < d
    PROVE  (q * d + r) \div d = q /\ (q * d + r) % d = r
<1> DEFINE x == q * d + r
           p == x \div d
           z == x % d
<1>1. x \in Int /\ d > 0
  OBVIOUS
<1>2. x = p * d + z /\ z \in Nat /\ z < d /\ p \in Int
  BY ONLY <1>1, Quotient, d \in Nat
<1>3. (p - q) * d = p * d - q * d /\ q * d \in Int /\ p * d \in Int
  BY ONLY <1>2, Distribute, d \in Nat, q \in Int
<1>4. x = q * d + r
  OBVIOUS
<1> HIDE DEF x, p, z
<1>5. (p - q) * d = r - z
  BY ONLY <1>2, <1>3, <1>4, r \in Nat
<1>6. p - q \in Int /\ -d < (p - q) * d /\ (p - q) * d < d
  BY ONLY <1>2, <1>5, d \in Nat, q \in Int, r \in Nat, r < d
<1>7. p - q = 0
  BY ONLY <1>6, ProductSmall, d \in Nat
<1>8. p = q
  BY ONLY <1>2, <1>7, q \in Int
<1>9. z = r
  BY ONLY <1>2, <1>3, <1>4, <1>8, r \in Nat
<1> QED BY ONLY <1>8, <1>9 DEF x, p, z

(* A quotient by a product is a quotient of a quotient; a number modulo a   *)
(* product has a low part and a high part.                                  *)
LEMMA TwoDigits ==
    ASSUME NEW x \in Int, NEW d \in Nat, d > 0, NEW e \in Nat, e > 0
    PROVE  /\ x \div (d * e) = (x \div d) \div e
           /\ x % (d * e) = (x % d) + ((x \div d) % e) * d
           /\ (x % (d * e)) % d = x % d
           /\ (x % (d * e)) \div d = (x \div d) % e
<1> DEFINE p == x \div d
           r == x % d
           q == p \div e
           t == p % e
<1>1. x = p * d + r /\ p \in Int /\ r \in Nat /\ r < d
  BY Quotient
<1>2. p = q * e + t /\ q \in Int /\ t \in Nat /\ t < e
  BY <1>1, Quotient
<1> HIDE DEF p, r, q, t
<1>3. t * d + r \in Nat /\ t * d \in Nat
  BY ONLY <1>1, <1>2, d \in Nat
<1>4. t * d + r < d * e
  <2>1. (e - t) * d = e * d - t * d /\ e - t >= 1
    BY ONLY <1>2, Distribute, d \in Nat, e \in Nat
  <2>2. (e - t) * d >= d
    BY ONLY <1>2, <2>1, d \in Nat, e \in Nat
  <2>3. e * d = d * e /\ e * d \in Nat
    BY ONLY d \in Nat, e \in Nat
  <2> QED BY ONLY <1>1, <1>3, <2>1, <2>2, <2>3, d \in Nat
<1>5. x = q * (d * e) + (t * d + r)
  <2>1. p * d = (q * e) * d + t * d
    BY ONLY <1>2, Distribute, d \in Nat, e \in Nat
  <2>2. (q * e) * d = q * (d * e) /\ q * (d * e) \in Int
    BY ONLY <1>2, d \in Nat, e \in Nat
  <2> DEFINE u == q * (d * e)
             v == t * d
  <2>4. x = u + v + r
    BY ONLY <1>1, <2>1, <2>2
  <2>5. u \in Int /\ v \in Int
    BY ONLY <1>3, <2>2
  <2> HIDE DEF u, v
  <2>6. x = u + (v + r)
    BY ONLY <1>1, <2>4, <2>5
  <2> QED BY ONLY <2>6 DEF u, v
<1>6. x \div (d * e) = q /\ x % (d * e) = t * d + r
  <2>1. d * e \in Nat
    BY ONLY d \in Nat, e \in Nat
  <2> QED BY ONLY <1>2, <1>3, <1>4, <1>5, <2>1, QuotientUnique
<1>7. (t * d + r) \div d = t /\ (t * d + r) % d = r
  BY ONLY <1>1, <1>2, QuotientUnique, d \in Nat
<1>8. t * d + r = r + t * d
  BY ONLY <1>1, <1>3
<1> QED BY ONLY <1>6, <1>7, <1>8 DEF p, r, q, t

(* The units of the arithmetic.                                             *)
LEMMA Widths ==
    /\ B \in Nat /\ B > 0 /\ Int32 \in Nat /\ Int32 > 0 /\ Word48 \in Nat /\ Word48 > 0
    /\ Word64 \in Nat /\ Word64 > 0
    /\ Int32 = B * B /\ Word48 = B * Int32 /\ Word64 = Word48 * B /\ Word48 = Int32 * B
<1>1. B \in Nat /\ B > 0
  BY HalfAssumption
<1>2. Int32 \in Nat /\ Int32 > 0
  BY ONLY <1>1 DEF Int32
<1>3. Word48 = Int32 * B /\ Int32 * B = B * Int32
  BY ONLY <1>1, <1>2 DEF Int32, Word48
<1>4. Word48 \in Nat /\ Word48 > 0
  BY ONLY <1>1, <1>2, <1>3
<1>5. Word64 = Word48 * B
  BY ONLY DEF Word48, Word64
<1>6. Word64 \in Nat /\ Word64 > 0
  BY ONLY <1>1, <1>4, <1>5
<1> QED BY ONLY <1>1, <1>2, <1>3, <1>4, <1>5, <1>6 DEF Int32

(* The first three entries of an array are c_ushorts.                       *)
Halves(s) == \A k \in 1 .. 3 : s[k] \in Half

(* Three half words are a number below B^3.                                 *)
LEMMA JoinRange ==
    ASSUME NEW s, Halves(s)
    PROVE  Join(s) \in 0 .. Word48 - 1
<1> DEFINE a0 == s[1]
           a1 == s[2]
           a2 == s[3]
<1>1. a0 \in Half /\ a1 \in Half /\ a2 \in Half
  BY DEF Halves
<1>2. Join(s) = a0 + a1 * B + a2 * Int32
  BY DEF Join
<1> HIDE DEF a0, a1, a2
<1>3. /\ a0 \in Nat /\ a1 \in Nat /\ a2 \in Nat
      /\ a0 <= B - 1 /\ a1 <= B - 1 /\ a2 <= B - 1
  BY ONLY <1>1, Widths DEF Half
<1>4. a1 * B \in Nat /\ a1 * B <= Int32 - B
  <2>1. (B - a1) * B = B * B - a1 * B /\ a1 * B \in Nat /\ (B - a1) * B >= B
    BY ONLY <1>3, Widths, Distribute
  <2> QED BY ONLY <2>1, Widths
<1>5. a2 * Int32 \in Nat /\ a2 * Int32 <= Word48 - Int32
  <2>1. (B - a2) * Int32 = B * Int32 - a2 * Int32 /\ a2 * Int32 \in Nat /\ (B - a2) * Int32 >= Int32
    BY ONLY <1>3, Widths, Distribute
  <2> QED BY ONLY <2>1, Widths
<1> QED BY ONLY <1>2, <1>3, <1>4, <1>5, Widths

(* The split into half words keeps the low 48 bits.                         *)
LEMMA JoinSplit ==
    ASSUME NEW x \in Int
    PROVE  Halves(Split(x)) /\ Join(Split(x)) = x % Word48
<1> DEFINE y == x \div B
           z == y \div B
<1>1. y \in Int
  BY ONLY x \in Int, Quotient, Widths
<1>2. x \div Int32 = z /\ z \in Int
  BY ONLY <1>1, x \in Int, TwoDigits, Quotient, Widths
<1>3. x % Word48 = (x % B) + (y % Int32) * B
  BY ONLY x \in Int, TwoDigits, Widths
<1>4. y % Int32 = (y % B) + (z % B) * B
  BY ONLY <1>1, TwoDigits, Widths
<1>5. Split(x) = <<x % B, y % B, z % B>>
  BY ONLY <1>2 DEF Split
<1> HIDE DEF y, z
<1> DEFINE a0 == x % B
           a1 == y % B
           a2 == z % B
<1>6. a0 \in Half /\ a1 \in Half /\ a2 \in Half
  BY ONLY <1>1, <1>2, x \in Int, Quotient, Widths DEF Half
<1>7. Split(x)[1] = a0 /\ Split(x)[2] = a1 /\ Split(x)[3] = a2
  BY ONLY <1>5
<1>8. x % Word48 = a0 + (a1 + a2 * B) * B
  BY ONLY <1>3, <1>4
<1> HIDE DEF a0, a1, a2
<1>9. a0 \in Int /\ a1 \in Int /\ a2 \in Int /\ B \in Int /\ Int32 = B * B
  BY ONLY <1>6, Widths DEF Half
<1>10. (a1 + a2 * B) * B = a1 * B + a2 * (B * B)
  BY ONLY <1>9
<1>11. a0 + (a1 * B + a2 * (B * B)) = a0 + a1 * B + a2 * (B * B)
  BY ONLY <1>9
<1>12. Join(Split(x)) = a0 + a1 * B + a2 * (B * B)
  BY ONLY <1>7, <1>9 DEF Join
<1>13. Join(Split(x)) = x % Word48
  BY ONLY <1>8, <1>10, <1>11, <1>12
<1>14. Halves(Split(x))
  BY ONLY <1>6, <1>7 DEF Halves
<1> QED BY ONLY <1>13, <1>14

(* What is stored and returned of a step in 64 bits is the step of the      *)
(* sequence.                                                                *)
LEMMA StepIsAdvance ==
    ASSUME NEW s, NEW l, Halves(s), Halves(l), l[4] \in Half
    PROVE  /\ rand48_step(s, l) \in Int
           /\ rand48_step(s, l) % Word48 = (Join(l) * Join(s) + l[4]) % Word48
           /\ rand48_step(s, l) % Word48 \in 0 .. Word48 - 1
<1> DEFINE x == Join(l) * Join(s) + l[4]
<1>1. Join(l) \in Nat /\ Join(s) \in Nat /\ l[4] \in Nat
  BY JoinRange, Widths DEF Half
<1>2. x \in Int
  BY <1>1
<1> HIDE DEF x
<1>3. (x % Word64) % Word48 = x % Word48 /\ x % Word64 \in Int
  BY ONLY <1>2, TwoDigits, Quotient, Widths
<1>4. x % Word48 \in 0 .. Word48 - 1
  BY ONLY <1>2, Quotient, Widths
<1> QED BY ONLY <1>3, <1>4 DEF rand48_step, x

(* The functions on the static state and on the caller's array, and the     *)
(* least and the greatest c_int.                                            *)
Hidden == {"drand48", "lrand48", "mrand48"}
Callers == {"erand48", "nrand48", "jrand48"}
Low == -(Int32 \div 2)
High == (Int32 \div 2) - 1

(* A c_int has as many negative values as others.                           *)
LEMMA Halving == /\ Int32 \div 2 \in Nat /\ Int32 = 2 * (Int32 \div 2) /\ Int32 \div 2 > 0
<1>1. B = (B \div 2) * 2 + 0 /\ B \div 2 \in Nat
  BY HalfAssumption, Quotient, 2 \in Nat
<1> DEFINE b == B \div 2
<1>2. B = b * 2 /\ b \in Nat
  BY <1>1
<1> HIDE DEF b
<1>3. Int32 = (b * B) * 2 + 0 /\ b * B \in Nat
  BY ONLY <1>2, Widths
<1>4. Int32 \div 2 = b * B
  <2>1. 2 \in Nat /\ 0 \in Nat /\ 0 < 2 /\ b * B \in Int
    BY ONLY <1>3
  <2> QED BY ONLY <1>3, <2>1, QuotientUnique
<1> QED BY ONLY <1>3, <1>4, Widths

(* The casts of each function give the sequence's leading bits.             *)
LEMMA ResultIsValue ==
    ASSUME NEW f \in Hidden \cup Callers, NEW x \in 0 .. Word48 - 1
    PROVE  /\ Result(f, x) = L!Value(f, x)
           /\ f \in {"lrand48", "nrand48"} => Result(f, x) \in 0 .. High
           /\ f \in {"mrand48", "jrand48"} => Result(f, x) \in Low .. High
<1> DEFINE y == x \div B
<1>1. x \in Int /\ x >= 0 /\ x < Word48
  BY ONLY x \in 0 .. Word48 - 1, Widths
<1>2. x % Word48 = x
  <2>1. x = 0 * Word48 + x /\ x \in Nat /\ 0 \in Int
    BY ONLY <1>1, Widths
  <2> QED BY ONLY <1>1, <2>1, QuotientUnique, Widths
<1>3. y = y % Int32 /\ y \in Nat
  BY ONLY <1>1, <1>2, TwoDigits, Quotient, Widths
<1>4. y < Int32 /\ x \div (2 * B) = y \div 2
  <2>1. 2 * B = B * 2 /\ 2 \in Nat /\ 2 > 0
    BY ONLY Widths
  <2>2. x \div (B * 2) = y \div 2
    BY ONLY <1>1, <2>1, TwoDigits, Widths
  <2> QED BY ONLY <1>3, <2>1, <2>2, Quotient, Widths
<1>5. CASE f \in {"drand48", "erand48"}
  <2>1. erand48(x) = x * 16
    BY ONLY <1>1, Widths DEF erand48, One
  <2> QED BY ONLY <1>5, <2>1 DEF Result, L!Value
<1>6. CASE f \in {"lrand48", "nrand48"}
  <2>1. Result(f, x) = y \div 2 /\ L!Value(f, x) = y \div 2
    BY ONLY <1>4, <1>6 DEF Result, L!Value, nrand48
  <2> HIDE DEF y
  <2>2. y \div 2 \in 0 .. High
    BY ONLY <1>3, <1>4, Halving DEF High
  <2> QED BY ONLY <1>6, <2>1, <2>2
<1>7. CASE f \in {"mrand48", "jrand48"}
  <2>1. Result(f, x) = Signed(y, Int32) /\ L!Value(f, x) = L!Wrap(y, Int32)
    BY ONLY <1>7, Widths DEF Result, L!Value, jrand48
  <2> HIDE DEF y
  <2>2. Signed(y, Int32) = IF y < Int32 \div 2 THEN y ELSE y - Int32
    BY ONLY <1>3 DEF Signed
  <2>3. Signed(y, Int32) \in Low .. High
    BY ONLY <1>3, <1>4, <2>2, Halving DEF Low, High
  <2> QED BY ONLY <1>7, <2>1, <2>2, <2>3 DEF L!Wrap
<1> QED BY ONLY <1>5, <1>6, <1>7, f \in Hidden \cup Callers DEF Hidden, Callers

-----------------------------------------------------------------------------
(* What has been drawn are ints, and not negative where that is promised.   *)
Drawn ==
    /\ drawn \in 0 .. High
    /\ out[1] \notin {"drand48", "erand48"} => out[2] \in Low .. High
    /\ out[1] \in {"lrand48", "nrand48"} => out[2] \in 0 .. High

(* All arrays hold half words, also the copy that is resumed from.          *)
Inv48 ==
    /\ Halves(xi) /\ Halves(PREV) /\ Halves(mine) /\ Halves(lc) /\ lc[4] \in Half
    /\ copy # None => Halves(copy)
    /\ RAND_SEED \in 0 .. Word64 - 1
    /\ Drawn /\ PreviousStateKept

(* What a function that draws nothing returns is an int.                    *)
LEMMA ZeroRange == 0 \in 0 .. High /\ 0 \in Low .. High
  BY Halving DEF Low, High

(* The multiplier and the addend as they are linked.                        *)
FirstParameters == <<Multiplier[1], Multiplier[2], Multiplier[3], Addend>>

(* Every array the program passes holds half words, and srand48 makes one   *)
(* of its seed.                                                             *)
LEMMA Arguments48 ==
    /\ Halves(<<0, 0, 0>>) /\ Halves(FirstParameters) /\ FirstParameters[4] \in Half
    /\ \A s \in Xsubis : Halves(s)
    /\ \A p \in Lcongs : Halves(SubSeq(p, 1, 3)) /\ Halves(SubSeq(p, 4, 7)) /\ SubSeq(p, 4, 7)[4] \in Half
    /\ \A seed \in Longs : Halves(<<SeedLow, seed % B, (seed \div B) % B>>)
<1>1. Halves(<<0, 0, 0>>)
  BY Widths DEF Halves, Half
<1>2. Halves(FirstParameters) /\ FirstParameters[4] \in Half
  <2>1. Multiplier \in [1 .. 3 -> Half] /\ Addend \in Half
    BY HalfAssumption, ArraysAssumption
  <2> QED BY <2>1 DEF Halves, FirstParameters
<1>3. \A s \in Xsubis : Halves(s)
  BY ArraysAssumption DEF Halves
<1>4. ASSUME NEW p \in Lcongs
      PROVE  Halves(SubSeq(p, 1, 3)) /\ Halves(SubSeq(p, 4, 7)) /\ SubSeq(p, 4, 7)[4] \in Half
  <2>1. \A k \in 1 .. 7 : p[k] \in Half
    BY <1>4, ArraysAssumption
  <2>2. \A k \in 1 .. 3 : SubSeq(p, 1, 3)[k] = p[k]
    <3>1. \A k \in 1 .. 3 : SubSeq(p, 1, 3)[k] = p[1 + k - 1]
      BY ONLY <2>1, SubSeqProperties
    <3> QED BY ONLY <3>1
  <2>3. \A k \in 1 .. 4 : SubSeq(p, 4, 7)[k] = p[k + 3]
    <3>1. \A k \in 1 .. 4 : SubSeq(p, 4, 7)[k] = p[4 + k - 1]
      BY ONLY <2>1, SubSeqProperties
    <3> QED BY ONLY <3>1
  <2> QED BY ONLY <2>1, <2>2, <2>3 DEF Halves
<1>5. ASSUME NEW seed \in Longs PROVE Halves(<<SeedLow, seed % B, (seed \div B) % B>>)
  <2>1. seed \in Int /\ SeedLow \in Half
    BY HalfAssumption
  <2>2. seed % B \in Half /\ (seed \div B) % B \in Half
    BY ONLY <2>1, Quotient, Widths DEF Half
  <2> QED BY ONLY <2>1, <2>2 DEF Halves
<1> QED BY <1>1, <1>2, <1>3, <1>4, <1>5

(* The statics as they are linked.                                          *)
LEMMA Init48Inv == Init48 => Inv48
<1> SUFFICES ASSUME Init48 PROVE Inv48
  OBVIOUS
<1>1. Halves(xi) /\ Halves(PREV) /\ Halves(mine) /\ Halves(lc) /\ lc[4] \in Half
  BY Arguments48 DEF Init48, FirstParameters
<1>2. RAND_SEED \in 0 .. Word64 - 1
  BY Widths DEF Init48
<1>3. Drawn
  BY ZeroRange DEF Init48, Drawn
<1> QED BY <1>1, <1>2, <1>3 DEF Init48, Inv48, PreviousStateKept

(* The steps of the sequences, hidden or the program's.                     *)
LEMMA DrawStep ==
    ASSUME Inv48, NEW f \in Hidden, Draw(f)
    PROVE  Inv48' /\ L!Draw(f)
<1> DEFINE x == rand48_step(xi, lc)
<1>1. /\ x \in Int /\ x % Word48 = (Join(lc) * Join(xi) + lc[4]) % Word48
      /\ x % Word48 \in 0 .. Word48 - 1
  BY StepIsAdvance DEF Inv48
<1>2. xi' = Split(x) /\ out' = <<f, Result(f, x % Word48), since>>
  BY DEF Draw, Family
<1>3. UNCHANGED <<lc, PREV, mine, held, fresh, copy, kept, RAND_SEED, drawn>>
  BY DEF Draw, Family
<1> HIDE DEF x
<1>4. Halves(xi') /\ Join(xi') = x % Word48
  BY ONLY <1>1, <1>2, JoinSplit
<1>5. /\ Result(f, x % Word48) = L!Value(f, x % Word48)
      /\ f \in {"lrand48", "nrand48"} => Result(f, x % Word48) \in 0 .. High
      /\ f \in {"mrand48", "jrand48"} => Result(f, x % Word48) \in Low .. High
  BY ONLY <1>1, ResultIsValue, f \in Hidden
<1>6. out'[1] = f /\ out'[2] = Result(f, x % Word48)
  BY ONLY <1>2
<1>7. Drawn'
  <2>1. drawn' \in 0 .. High
    BY <1>3 DEF Inv48, Drawn, High
  <2>2. 0 .. High \subseteq Low .. High
    BY ONLY Halving DEF High, Low
  <2> QED BY ONLY <1>5, <1>6, <2>1, <2>2, f \in Hidden DEF Drawn, Hidden, Low, High
<1>8. Inv48'
  BY <1>3, <1>4, <1>7 DEF Inv48, PreviousStateKept, Halves
<1>9. L!Draw(f)
  <2>1. Join(xi') = (Join(lc) * Join(xi) + lc[4]) % Word48
    BY ONLY <1>1, <1>4
  <2>2. <<out'[1], out'[2]>> = <<f, L!Value(f, Join(xi'))>>
    BY ONLY <1>4, <1>5, <1>6
  <2> QED BY ONLY <1>3, <2>1, <2>2 DEF L!Draw, L!Advance, L!M, Word48, Join
<1> QED BY ONLY <1>8, <1>9

(* The same on the program's array.                                         *)
LEMMA DrawMineStep ==
    ASSUME Inv48, NEW f \in Callers, DrawMine(f)
    PROVE  Inv48' /\ L!DrawMine(f)
<1> DEFINE x == rand48_step(mine, lc)
<1>1. /\ x \in Int /\ x % Word48 = (Join(lc) * Join(mine) + lc[4]) % Word48
      /\ x % Word48 \in 0 .. Word48 - 1
  BY StepIsAdvance DEF Inv48
<1>2. mine' = Split(x) /\ out' = <<f, Result(f, x % Word48), since>>
  BY DEF DrawMine, Family
<1>3. UNCHANGED <<xi, lc, PREV, held, fresh, copy, kept, RAND_SEED, drawn>>
  BY DEF DrawMine, Family
<1> HIDE DEF x
<1>4. Halves(mine') /\ Join(mine') = x % Word48
  BY ONLY <1>1, <1>2, JoinSplit
<1>5. /\ Result(f, x % Word48) = L!Value(f, x % Word48)
      /\ f \in {"lrand48", "nrand48"} => Result(f, x % Word48) \in 0 .. High
      /\ f \in {"mrand48", "jrand48"} => Result(f, x % Word48) \in Low .. High
  BY ONLY <1>1, ResultIsValue, f \in Callers
<1>6. out'[1] = f /\ out'[2] = Result(f, x % Word48)
  BY ONLY <1>2
<1>7. Drawn'
  <2>1. drawn' \in 0 .. High
    BY <1>3 DEF Inv48, Drawn, High
  <2>2. 0 .. High \subseteq Low .. High
    BY ONLY Halving DEF High, Low
  <2> QED BY ONLY <1>5, <1>6, <2>1, <2>2, f \in Callers DEF Drawn, Callers, Low, High
<1>8. Inv48'
  BY <1>3, <1>4, <1>7 DEF Inv48, PreviousStateKept, Halves
<1>9. L!DrawMine(f)
  <2>1. Join(mine') = (Join(lc) * Join(mine) + lc[4]) % Word48
    BY ONLY <1>1, <1>4
  <2>2. <<out'[1], out'[2]>> = <<f, L!Value(f, Join(mine'))>>
    BY ONLY <1>4, <1>5, <1>6
  <2> QED BY ONLY <1>3, <2>1, <2>2 DEF L!DrawMine, L!Advance, L!M, Word48, Join
<1> QED BY ONLY <1>8, <1>9

(* srand48's half words are the number the abstract seed stands for.        *)
LEMMA SeedIsJoined ==
    ASSUME NEW seed \in Longs, xi' = <<SeedLow, seed % B, (seed \div B) % B>>
    PROVE  Join(xi') = L!OfSeed(seed)
<1> DEFINE l == seed % B
           h == (seed \div B) % B
<1>1. seed \in Int /\ B \in Nat /\ B > 0 /\ SeedLow \in Int
  BY HalfAssumption DEF Half
<1>2. l \in Int /\ h \in Int
  BY ONLY <1>1, Quotient
<1>3. seed % (B * B) = l + h * B
  BY ONLY <1>1, TwoDigits
<1>4. Join(xi') = SeedLow + l * B + h * (B * B)
  BY DEF Join, Int32
<1> HIDE DEF l, h
<1>5. (l + h * B) * B = l * B + h * (B * B)
  BY ONLY <1>1, <1>2
<1> QED BY ONLY <1>1, <1>2, <1>3, <1>4, <1>5 DEF L!OfSeed

(* PREV takes the old state, the state the argument: seed48, also from a    *)
(* copy or from PREV itself, and srand48.                                   *)
LEMMA SwapStep ==
    ASSUME Inv48, NEW s, s # None => Halves(s), Swap(s), NEW f \in {"seed48", "srand48"},
           Family(f, 0), UNCHANGED <<lc, mine, copy, kept>>,
           fresh' => held' = Join(xi)
    PROVE  Inv48' /\ \A V : Join(xi') \in V => L!Reseed(f, V)
<1>1. PREV' = xi /\ (xi' = xi \/ (s # None /\ xi' = s))
  BY DEF Swap
<1>2. out' = <<f, 0, since>> /\ UNCHANGED <<RAND_SEED, drawn>>
  BY DEF Family
<1>3. Halves(xi') /\ Halves(PREV')
  BY <1>1 DEF Inv48
<1>4. Join(PREV') = Join(xi)
  BY <1>1
<1>5. Join(xi') \in 0 .. Word48 - 1
  BY ONLY <1>3, JoinRange
<1>6. out'[1] = f /\ out'[2] = 0
  BY ONLY <1>2
<1>7. Drawn'
  BY <1>2, <1>6, ZeroRange DEF Inv48, Drawn, Low, High
<1>8. PreviousStateKept'
  BY <1>4 DEF Inv48, PreviousStateKept, Join
<1>9. Inv48'
  BY <1>2, <1>3, <1>7, <1>8 DEF Inv48, Halves
<1>10. ASSUME NEW V, Join(xi') \in V PROVE L!Reseed(f, V)
  BY <1>4, <1>6, <1>10 DEF L!Reseed, Join
<1> QED BY ONLY <1>9, <1>10

(* lcong48 replaces the state and the parameters.                           *)
LEMMA lcong48Step ==
    ASSUME Inv48, NEW p \in Lcongs, lcong48(p)
    PROVE  Inv48' /\ L!Replace
<1>1. /\ xi' = SubSeq(p, 1, 3) /\ lc' = SubSeq(p, 4, 7) /\ out' = <<"lcong48", 0, since>>
      /\ UNCHANGED <<PREV, mine, held, fresh, copy, kept, RAND_SEED, drawn>>
  BY DEF lcong48, Family
<1>2. Halves(xi') /\ Halves(lc') /\ lc'[4] \in Half
  BY <1>1, Arguments48
<1>3. Join(xi') \in 0 .. Word48 - 1 /\ Join(lc') \in 0 .. Word48 - 1
  BY ONLY <1>2, JoinRange
<1>4. out'[1] = "lcong48" /\ out'[2] = 0
  BY ONLY <1>1
<1>5. Drawn'
  BY <1>1, <1>4, ZeroRange DEF Inv48, Drawn, Low, High
<1>6. PreviousStateKept'
  BY <1>1 DEF Inv48, PreviousStateKept, Join
<1>7. Inv48'
  BY <1>1, <1>2, <1>5, <1>6 DEF Inv48, Halves
<1>8. L!Replace
  BY <1>1, <1>2, <1>3, <1>4 DEF L!Replace, L!M, Word48, Join, Half
<1> QED BY ONLY <1>7, <1>8

(* rand and srand leave the family alone.                                   *)
LEMMA RandStep ==
    ASSUME Inv48, NEW v \in 0 .. High, RandFamily(v), RAND_SEED' \in 0 .. Word64 - 1
    PROVE  Inv48' /\ UNCHANGED L!vars
<1>1. drawn' = v /\ UNCHANGED <<xi, lc, PREV, mine, out, since, held, fresh, copy, kept>>
  BY DEF RandFamily
<1>2. Drawn'
  BY <1>1 DEF Inv48, Drawn, Low, High
<1>3. PreviousStateKept'
  BY <1>1 DEF Inv48, PreviousStateKept, Join
<1>4. Inv48'
  BY <1>1, <1>2, <1>3 DEF Inv48, Halves
<1> QED BY <1>1, <1>4 DEF L!vars, Join

(* The shift of rand leaves 31 bits.                                        *)
LEMMA RandRange ==
    ASSUME NEW x \in 0 .. Word64 - 1
    PROVE  x \div (2 * Int32) \in 0 .. High
<1> DEFINE y == x \div Int32
<1>1. x \in Int /\ x >= 0 /\ x < Word64 /\ Word64 = Int32 * Int32
  <2>1. Word64 = Int32 * Int32
    BY ONLY Widths DEF Int32, Word64
  <2> QED BY ONLY <2>1, Widths, x \in 0 .. Word64 - 1
<1>2. x % Word64 = x
  <2>1. x = 0 * Word64 + x /\ x \in Nat /\ 0 \in Int
    BY ONLY <1>1, Widths
  <2> QED BY ONLY <1>1, <2>1, QuotientUnique, Widths
<1>3. y = y % Int32 /\ y \in Nat
  BY ONLY <1>1, <1>2, TwoDigits, Quotient, Widths
<1>4. y < Int32
  BY ONLY <1>3, Quotient, Widths
<1>5. x \div (2 * Int32) = y \div 2
  <2>1. 2 * Int32 = Int32 * 2 /\ 2 \in Nat /\ 2 > 0
    BY ONLY Widths
  <2> QED BY ONLY <1>1, <2>1, TwoDigits, Widths
<1> HIDE DEF y
<1>6. y \div 2 \in 0 .. High
  BY ONLY <1>3, <1>4, Halving DEF High
<1> QED BY ONLY <1>5, <1>6

(* Every step keeps the invariant and is a step of the sequences or none.   *)
LEMMA Next48Step == Inv48 /\ [Next48]_vars48 => Inv48' /\ [L!Next]_L!vars
<1> SUFFICES ASSUME Inv48, [Next48]_vars48 PROVE Inv48' /\ [L!Next]_L!vars
  OBVIOUS
<1>1. ASSUME NEW f \in Hidden, Draw(f) PROVE Inv48' /\ L!Next
  BY <1>1, DrawStep DEF L!Next, Hidden
<1>2. ASSUME NEW f \in Callers, DrawMine(f) PROVE Inv48' /\ L!Next
  BY <1>2, DrawMineStep DEF L!Next, Callers
<1>3. ASSUME NEW s, s # None => Halves(s), seed48(s) PROVE Inv48' /\ L!Next
  <2>1. Inv48' /\ \A V : Join(xi') \in V => L!Reseed("seed48", V)
    BY <1>3, SwapStep DEF seed48
  <2>2. Join(xi') \in 0 .. Word48 - 1
    BY <2>1, JoinRange DEF Inv48
  <2>3. L!Reseed("seed48", 0 .. L!M - 1)
    BY ONLY <2>1, <2>2 DEF Word48, L!M
  <2> QED BY ONLY <2>1, <2>3 DEF L!Next
<1>4. ASSUME NEW s \in Xsubis \cup {None, mine}, seed48(s) PROVE Inv48' /\ L!Next
  BY <1>3, <1>4, Arguments48 DEF Inv48
<1>5. CASE Resume
  BY <1>3, <1>5 DEF Resume, Inv48
<1>6. CASE Keep
  <2>1. /\ fresh /\ copy' = PREV /\ kept' = held /\ fresh' = FALSE
        /\ UNCHANGED <<xi, lc, PREV, mine, RAND_SEED, drawn, out, held>>
    BY <1>6 DEF Keep
  <2>2. PreviousStateKept'
    BY <2>1 DEF Inv48, PreviousStateKept, Join
  <2>3. Inv48'
    BY <2>1, <2>2 DEF Inv48, Halves, Drawn
  <2> QED BY <2>1, <2>3 DEF L!vars, Join
<1>7. ASSUME NEW seed \in Longs, srand48(seed) PROVE Inv48' /\ L!Next
  <2>1. Halves(<<SeedLow, seed % B, (seed \div B) % B>>)
    BY <1>7, Arguments48
  <2>2. Inv48' /\ \A V : Join(xi') \in V => L!Reseed("srand48", V)
    BY <1>7, <2>1, SwapStep DEF srand48
  <2>3. <<SeedLow, seed % B, (seed \div B) % B>> # None
    BY ONLY <2>1, NoneAssumption DEF Halves
  <2>4. Swap(<<SeedLow, seed % B, (seed \div B) % B>>)
    BY ONLY <1>7 DEF srand48
  <2>5. xi' = <<SeedLow, seed % B, (seed \div B) % B>>
    BY ONLY <2>3, <2>4 DEF Swap
  <2>6. Join(xi') = L!OfSeed(seed)
    BY ONLY <1>7, <2>5, SeedIsJoined
  <2>7. L!Reseed("srand48", {L!OfSeed(seed)})
    BY ONLY <2>2, <2>6
  <2> QED BY ONLY <1>7, <2>2, <2>7 DEF L!Next
<1>8. ASSUME NEW seed \in Longs, srand(seed) PROVE Inv48' /\ UNCHANGED L!vars
  <2>1. seed \in Int
    BY <1>8, HalfAssumption
  <2>2. (seed % Int32) - 1 \in Int
    BY ONLY <2>1, Quotient, Widths
  <2>3. RAND_SEED' \in 0 .. Word64 - 1
    BY ONLY <1>8, <2>2, Quotient, Widths DEF srand
  <2> QED BY <1>8, <2>3, RandStep, ZeroRange DEF srand
<1>9. ASSUME NEW p \in Lcongs, lcong48(p) PROVE Inv48' /\ L!Next
  BY <1>9, lcong48Step DEF L!Next
<1>10. CASE rand
  <2>1. RandMult * RAND_SEED + 1 \in Int
    BY HalfAssumption, Widths DEF Inv48
  <2>2. RAND_SEED' \in 0 .. Word64 - 1
    BY ONLY <1>10, <2>1, Quotient, Widths DEF rand
  <2>3. RAND_SEED' \div (2 * Int32) \in 0 .. High
    BY ONLY <2>2, RandRange
  <2> QED BY <1>10, <2>2, <2>3, RandStep DEF rand
<1>11. CASE UNCHANGED vars48
  BY <1>11 DEF vars48, Inv48, PreviousStateKept, Drawn, Halves, Join, L!vars
<1> QED BY <1>1, <1>2, <1>4, <1>5, <1>6, <1>7, <1>8, <1>9, <1>10, <1>11 DEF Next48, Done48, Hidden, Callers

(* The statics hold an abstract state.                                      *)
LEMMA Init48Simulates == Init48 => L!Init
<1> SUFFICES ASSUME Init48 PROVE L!Init
  OBVIOUS
<1>1. Halves(xi) /\ Halves(PREV) /\ Halves(mine) /\ Halves(lc) /\ lc[4] \in Half
  BY Init48Inv DEF Inv48
<1>2. /\ Join(xi) \in 0 .. Word48 - 1 /\ Join(mine) \in 0 .. Word48 - 1
      /\ Join(lc) \in 0 .. Word48 - 1 /\ Join(PREV) \in 0 .. Word48 - 1
  BY ONLY <1>1, JoinRange
<1>3. out[1] = "none" /\ out[2] = 0
  BY DEF Init48
<1> QED BY ONLY <1>1, <1>2, <1>3 DEF L!Init, L!M, Word48, Half

(* The invariant of rand48 and rand.                                        *)
THEOREM Invariance48 == Spec48 => []Inv48
<1>1. Inv48 /\ [Next48]_vars48 => Inv48'
  BY Next48Step
<1> QED BY <1>1, Init48Inv, PTL DEF Spec48

(* The half words are linear congruential sequences modulo B^3, and each    *)
(* function returns the leading bits of one.                                *)
THEOREM Refinement48 == Spec48 => ImplementsLcg48
<1>1. Inv48 /\ [Next48]_vars48 => [L!Next]_L!vars
  BY Next48Step
<1> QED BY <1>1, Invariance48, Init48Simulates, PTL DEF Spec48, ImplementsLcg48, L!Spec

(* seed48 hands out the state it replaced.                                  *)
THEOREM PreviousTheorem == Spec48 => []PreviousStateKept
<1>1. Inv48 => PreviousStateKept
  BY DEF Inv48
<1> QED BY <1>1, Invariance48, PTL

(* Rust's truncating division, on any number and any divisor: what it gives *)
(* when it does not panic.                                                  *)
LEMMA Truncating ==
    ASSUME NEW v \in Int, NEW den \in Int, NEW m, ~DivPanics(v, den, m)
    PROVE  /\ div(v, den, m).quot * den + div(v, den, m).rem = v
           /\ Magnitude(div(v, den, m).rem) < Magnitude(den)
           /\ div(v, den, m).rem = 0 \/ (div(v, den, m).rem < 0) = (v < 0)
<1>0. den # 0
  BY DEF DivPanics
<1> DEFINE q == Magnitude(v) \div Magnitude(den)
           r == Magnitude(v) % Magnitude(den)
           sq == IF (v < 0) = (den < 0) THEN 1 ELSE -1
           sr == IF v < 0 THEN -1 ELSE 1
<1>1. div(v, den, m).quot = sq * q /\ div(v, den, m).rem = sr * r
  BY DEF div
<1>2. Magnitude(v) \in Int /\ Magnitude(den) \in Nat /\ Magnitude(den) > 0
  BY ONLY <1>0, v \in Int, den \in Int DEF Magnitude
<1>3. q \in Int /\ r \in Nat /\ r < Magnitude(den) /\ Magnitude(v) = q * Magnitude(den) + r
  BY ONLY <1>2, Quotient
<1>4. sq = IF (v < 0) = (den < 0) THEN 1 ELSE -1
  OBVIOUS
<1>5. sr = IF v < 0 THEN -1 ELSE 1
  OBVIOUS
<1> HIDE DEF q, r, sq, sr
<1>6. q * den \in Int /\ q * (-den) = -(q * den) /\ (-q) * den = -(q * den)
  BY ONLY <1>3, den \in Int
<1>7. CASE v < 0 /\ den < 0
  <2>1. sq = 1 /\ sr = -1 /\ -v = -(q * den) + r /\ Magnitude(den) = -den
    BY ONLY <1>3, <1>4, <1>5, <1>6, <1>7 DEF Magnitude
  <2>2. sq * q = q /\ sr * r = -r
    BY ONLY <1>3, <2>1
  <2> QED BY ONLY <1>1, <1>3, <1>6, <1>7, <2>1, <2>2, v \in Int, den \in Int DEF Magnitude
<1>8. CASE v < 0 /\ ~(den < 0)
  <2>1. sq = -1 /\ sr = -1 /\ -v = q * den + r /\ Magnitude(den) = den
    BY ONLY <1>3, <1>4, <1>5, <1>6, <1>8 DEF Magnitude
  <2>2. sq * q = -q /\ sr * r = -r
    BY ONLY <1>3, <2>1
  <2> QED BY ONLY <1>1, <1>3, <1>6, <1>8, <2>1, <2>2, v \in Int, den \in Int DEF Magnitude
<1>9. CASE ~(v < 0) /\ den < 0
  <2>1. sq = -1 /\ sr = 1 /\ v = -(q * den) + r /\ Magnitude(den) = -den
    BY ONLY <1>3, <1>4, <1>5, <1>6, <1>9 DEF Magnitude
  <2>2. sq * q = -q /\ sr * r = r
    BY ONLY <1>3, <2>1
  <2> QED BY ONLY <1>1, <1>3, <1>6, <1>9, <2>1, <2>2, v \in Int, den \in Int DEF Magnitude
<1>10. CASE ~(v < 0) /\ ~(den < 0)
  <2>1. sq = 1 /\ sr = 1 /\ v = q * den + r /\ Magnitude(den) = den
    BY ONLY <1>3, <1>4, <1>5, <1>6, <1>10 DEF Magnitude
  <2>2. sq * q = q /\ sr * r = r
    BY ONLY <1>3, <2>1
  <2> QED BY ONLY <1>1, <1>3, <1>6, <1>10, <2>1, <2>2, v \in Int, den \in Int DEF Magnitude
<1> QED BY <1>7, <1>8, <1>9, <1>10

(* wrapping_neg leaves the least int alone.                                 *)
LEMMA Absolute ==
    ASSUME NEW v \in Low .. High
    PROVE  abs(v, Int32) = IF v = Low THEN v ELSE Magnitude(v)
<1> DEFINE h == Int32 \div 2
<1>1. h \in Nat /\ h > 0 /\ Int32 = 2 * h /\ Int32 \div 2 = h
  BY Halving
<1> HIDE DEF h
<1>2. v \in Int /\ -h <= v /\ v < h /\ Low = -h
  BY ONLY <1>1, v \in Low .. High DEF Low, High
<1>3. CASE v > 0
  BY ONLY <1>1, <1>2, <1>3 DEF abs, Magnitude
<1>4. CASE v <= 0
  <2>1. (-v) % Int32 = -v
    <3>1. -v = 0 * Int32 + (-v) /\ -v \in Nat /\ -v < Int32 /\ 0 \in Int
      BY ONLY <1>1, <1>2, <1>4
    <3> QED BY ONLY <3>1, QuotientUnique, Widths
  <2>2. wrapping_neg(v, Int32) = IF -v < h THEN -v ELSE -v - Int32
    BY ONLY <1>1, <2>1 DEF wrapping_neg, Signed
  <2>3. abs(v, Int32) = IF -v < h THEN -v ELSE -v - Int32
    BY ONLY <1>2, <1>4, <2>2 DEF abs
  <2> QED BY ONLY <1>1, <1>2, <1>4, <2>3 DEF Magnitude
<1> QED BY ONLY <1>2, <1>3, <1>4

(* The quotient of two ints is one, unless it panics.                       *)
LEMMA Representable ==
    ASSUME NEW v \in Low .. High, NEW den \in Int, ~DivPanics(v, den, Int32)
    PROVE  div(v, den, Int32).quot \in Low .. High
<1> DEFINE h == Int32 \div 2
           a == Magnitude(v)
           b == Magnitude(den)
           q == a \div b
           sq == IF (v < 0) = (den < 0) THEN 1 ELSE -1
<1>1. h \in Nat /\ h > 0 /\ Low = -h /\ High = h - 1
  BY Halving DEF Low, High
<1>2. div(v, den, Int32).quot = sq * q
  BY DEF div
<1>3. den # 0 /\ ~(den = -1 /\ v = -h)
  BY DEF DivPanics
<1>4. sq = IF (v < 0) = (den < 0) THEN 1 ELSE -1
  OBVIOUS
<1>5. v \in Int /\ -h <= v /\ v <= h - 1
  BY ONLY <1>1, v \in Low .. High
<1>6. a \in Nat /\ a <= h /\ (a = h => v = -h)
  BY ONLY <1>1, <1>5 DEF Magnitude
<1>7. b \in Nat /\ b > 0 /\ (b = 1 => den = 1 \/ den = -1)
  BY ONLY <1>3, den \in Int DEF Magnitude
<1>8. q \in Nat /\ a % b \in Nat /\ a = q * b + (a % b)
  BY ONLY <1>6, <1>7, Quotient
<1> HIDE DEF h, a, b, q, sq
<1>9. q \in Nat /\ q <= a /\ (b > 1 => 2 * q <= a)
  <2>1. q * b <= a
    BY ONLY <1>7, <1>8
  <2>2. q * b >= q /\ (b > 1 => q * b >= 2 * q)
    BY ONLY <1>7, <1>8
  <2> QED BY ONLY <1>6, <1>7, <1>8, <2>1, <2>2
<1>10. sq * q = q \/ sq * q = -q
  BY ONLY <1>4, <1>8
<1>11. CASE q < h
  BY ONLY <1>1, <1>2, <1>9, <1>10, <1>11
<1>12. CASE ~(q < h)
  <2>1. q = h /\ a = h /\ v = -h
    BY ONLY <1>1, <1>6, <1>9, <1>12
  <2>2. b = 1
    BY ONLY <1>1, <1>7, <1>9, <2>1
  <2>3. den = 1
    BY ONLY <1>3, <1>7, <2>1, <2>2
  <2>4. sq = -1
    BY ONLY <1>1, <1>4, <2>1, <2>3
  <2> QED BY ONLY <1>1, <1>2, <1>8, <2>1, <2>4
<1> QED BY ONLY <1>11, <1>12

(* A pair of quotient and remainder is not a panic.                         *)
LEMMA PanicOrPair ==
    ASSUME NEW v, NEW den, NEW m
    PROVE  /\ DivPanics(v, den, m) => div(v, den, m) = Panic
           /\ ~DivPanics(v, den, m) => div(v, den, m) # Panic
<1>1. DOMAIN Panic = {"panics"}
  BY DEF Panic
<1>2. ~DivPanics(v, den, m) => DOMAIN div(v, den, m) = {"quot", "rem"}
  BY DEF div
<1>3. {"panics"} # {"quot", "rem"}
  OBVIOUS
<1>4. DivPanics(v, den, m) => div(v, den, m) = Panic
  BY DEF div
<1> QED BY ONLY <1>1, <1>2, <1>3, <1>4

(* Every int that is drawn is in its range and obeys the laws of abs and    *)
(* div; a division that would not fit an int is a panic, and no other is    *)
(* but by zero.                                                             *)
THEOREM IntegerTheorem == Spec48 => []IntegerLaws
<1>1. Inv48 => IntegerLaws
  <2> SUFFICES ASSUME Inv48 PROVE IntegerLaws
    OBVIOUS
  <2> DEFINE draws == {drawn} \cup (IF out[1] \in {"drand48", "erand48"} THEN {} ELSE {out[2]})
             Lawful(v, den) ==
                 LET d == div(v, den, Int32)
                 IN  IF den = 0 \/ (v = Low /\ den = -1) THEN d = Panic
                     ELSE /\ d # Panic
                          /\ d.quot \in Low .. High
                          /\ d.quot * den + d.rem = v
                          /\ Magnitude(d.rem) < Magnitude(den)
                          /\ d.rem = 0 \/ (d.rem < 0) = (v < 0)
  <2>1. Drawn
    BY DEF Inv48
  <2>2. 0 .. High \subseteq Low .. High
    BY ONLY Halving DEF High, Low
  <2>3. ASSUME NEW v \in draws PROVE v \in Low .. High
    BY ONLY <2>1, <2>2, <2>3 DEF Drawn
  <2>4. ASSUME NEW v \in draws PROVE abs(v, Int32) = IF v = Low THEN v ELSE Magnitude(v)
    BY ONLY <2>3, <2>4, Absolute
  <2>5. ASSUME NEW v \in draws, NEW den \in -B .. B PROVE Lawful(v, den)
    <3>1. v \in Int /\ den \in Int /\ v \in Low .. High
      BY ONLY <2>3, <2>5, Halving, Widths DEF Low, High
    <3>2. DivPanics(v, den, Int32) <=> den = 0 \/ (v = Low /\ den = -1)
      BY ONLY TRUE DEF DivPanics, Low
    <3>3. CASE DivPanics(v, den, Int32)
      BY ONLY <3>2, <3>3, PanicOrPair
    <3>4. CASE ~DivPanics(v, den, Int32)
      <4>1. div(v, den, Int32) # Panic
        BY ONLY <3>4, PanicOrPair
      <4>2. div(v, den, Int32).quot \in Low .. High
        BY ONLY <3>1, <3>4, Representable
      <4> QED BY ONLY <3>1, <3>2, <3>4, <4>1, <4>2, Truncating
    <3> QED BY ONLY <3>3, <3>4
  <2> QED BY ONLY <2>1, <2>4, <2>5 DEF IntegerLaws, Drawn, High, Low
<1> QED BY <1>1, Invariance48, PTL
=============================================================================
