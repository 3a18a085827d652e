------------------------------- MODULE Rand48 --------------------------------
(***************************************************************************)
(* rand and srand, and the rand48 family over the static array __seed48    *)
(* (crates/mytilus-prng/src/lib.rs), called by a program with one thread:  *)
(* none of these functions has a lock.                                     *)
(*                                                                         *)
(* A c_ushort has B values instead of 2^16, and everything else in         *)
(* proportion: c_int B^2, c_long and u64 B^4, the sequences B^3.  An array *)
(* of three c_ushorts is a sequence of length three, lowest bits first.    *)
(*                                                                         *)
(* The program keeps a copy of what seed48 returns a pointer to, made      *)
(* before it reseeds again, and resumes from the copy.                     *)
(***************************************************************************)
EXTENDS IntOps, Sequences

CONSTANTS
    B,
    Multiplier,  \* the initial __seed48[3..5]
    Addend,      \* the initial __seed48[6]
    SeedLow,     \* 0x330e, modulo B
    RandMult,    \* rand's multiplier, modulo B^4
    Xsubis,      \* the arrays the program passes
    Lcongs,      \* the arrays of seven it passes to lcong48
    Longs,       \* the seeds it passes
    None,
    MaxCalls48   \* bound: the number of calls

Half == 0 .. B - 1
Int32 == B * B
Word48 == B * B * B
Word64 == B * B * B * B

ASSUME HalfAssumption ==
    /\ B \in Nat \ {0} /\ B % 2 = 0
    /\ SeedLow \in Half /\ Addend \in Half
    /\ RandMult \in Nat /\ Longs \subseteq Int
ASSUME ArraysAssumption ==
    /\ Multiplier \in [1 .. 3 -> Half] /\ Xsubis \subseteq [1 .. 3 -> Half]
    /\ Lcongs \subseteq [1 .. 7 -> Half]
ASSUME NoneAssumption == None \notin [1 .. 3 -> Half]

VARIABLES
    xi, lc,      \* __seed48[0..2] and __seed48[3..6]
    PREV,
    mine,        \* an array of the program's
    RAND_SEED,
    drawn,       \* what rand last returned
    out,         \* the last function of the family and what it returned
    since,       \* history: the seed, when that was srand48
    held, fresh, \* history: the state seed48 replaced; whether PREV is it
    copy, kept,  \* the program's copy of PREV; history: what it should be
    calls48

vars48 == <<xi, lc, PREV, mine, RAND_SEED, drawn, out, since, held, fresh, copy, kept, calls48>>

-----------------------------------------------------------------------------
Join(s) == s[1] + s[2] * B + s[3] * Int32
Split(x) == <<x % B, (x \div B) % B, (x \div Int32) % B>>

(* Mutant: the upper half of the multiplier is dropped.                     *)
rand48_stepMutant(s, l) == ((l[1] + l[2] * B) * Join(s) + l[4]) % Word64

(* __rand48_step in 64 bits: what it stores is Split of it, what it returns *)
(* the low 48 bits.                                                         *)
rand48_step(s, l) == (Join(l) * Join(s) + l[4]) % Word64

One == 16 * Word48
erand48(step) == (One + step * 16) - One
nrand48(step) == step \div (2 * B)
jrand48(step) == Signed(step \div B, Int32)

Result(f, step) ==
    CASE f \in {"drand48", "erand48"} -> erand48(step)
      [] f \in {"lrand48", "nrand48"} -> nrand48(step)
      [] f \in {"mrand48", "jrand48"} -> jrand48(step)

Init48 ==
    /\ xi = <<0, 0, 0>> /\ lc = <<Multiplier[1], Multiplier[2], Multiplier[3], Addend>>
    /\ PREV = <<0, 0, 0>>
    /\ mine \in Xsubis
    /\ RAND_SEED = 0 /\ drawn = 0
    /\ out = <<"none", 0, None>> /\ since = None
    /\ held = 0 /\ fresh = FALSE /\ copy = None /\ kept = 0
    /\ calls48 = 0

Count == calls48 < MaxCalls48 /\ calls48' = calls48 + 1

Family(f, v) ==
    /\ Count
    /\ out' = <<f, v, since>>
    /\ UNCHANGED <<RAND_SEED, drawn>>

(* drand48, lrand48 and mrand48, on the static state.                       *)
Draw(f) ==
    /\ LET x == rand48_step(xi, lc)
       IN  xi' = Split(x) /\ Family(f, Result(f, x % Word48))
    /\ since' = None
    /\ UNCHANGED <<lc, PREV, mine, held, fresh, copy, kept>>

(* erand48, nrand48 and jrand48, on the program's array.                    *)
DrawMine(f) ==
    /\ LET x == rand48_step(mine, lc)
       IN  mine' = Split(x) /\ Family(f, Result(f, x % Word48))
    /\ UNCHANGED <<xi, lc, PREV, since, held, fresh, copy, kept>>

(* Mutant: the static state is replaced before it is saved.                 *)
SwapMutant(s) == xi' = (IF s = None THEN PREV ELSE s) /\ PREV' = xi'

(* PREV is written before the argument is read, which None says is PREV.    *)
Swap(s) == PREV' = xi /\ xi' = IF s = None THEN PREV' ELSE s

seed48(s) ==
    /\ Family("seed48", 0)
    /\ Swap(s)
    /\ held' = Join(xi) /\ fresh' = TRUE /\ since' = None
    /\ UNCHANGED <<lc, mine, copy, kept>>

(* The program copies what seed48's result points to.                       *)
Keep ==
    /\ fresh
    /\ copy' = PREV /\ kept' = held /\ fresh' = FALSE
    /\ UNCHANGED <<xi, lc, PREV, mine, RAND_SEED, drawn, out, since, held, calls48>>

Resume == copy # None /\ seed48(copy)

srand48(seed) ==
    /\ Family("srand48", 0)
    /\ Swap(<<SeedLow, seed % B, (seed \div B) % B>>)
    /\ fresh' = FALSE /\ since' = seed
    /\ UNCHANGED <<lc, mine, held, copy, kept>>

lcong48(p) ==
    /\ Family("lcong48", 0)
    /\ xi' = SubSeq(p, 1, 3) /\ lc' = SubSeq(p, 4, 7) /\ since' = None
    /\ UNCHANGED <<PREV, mine, held, fresh, copy, kept>>

RandFamily(v) ==
    /\ Count
    /\ drawn' = v
    /\ UNCHANGED <<xi, lc, PREV, mine, out, since, held, fresh, copy, kept>>

srand(s) == RAND_SEED' = ((s % Int32) - 1) % Word64 /\ RandFamily(0)

rand ==
    /\ RAND_SEED' = (RandMult * RAND_SEED + 1) % Word64
    /\ RandFamily(RAND_SEED' \div (2 * Int32))

Done48 == calls48 = MaxCalls48 /\ UNCHANGED vars48

Next48 ==
    \/ \E f \in {"drand48", "lrand48", "mrand48"} : Draw(f)
    \/ \E f \in {"erand48", "nrand48", "jrand48"} : DrawMine(f)
    \/ \E s \in Xsubis \cup {None, mine} : seed48(s)
    \/ Keep \/ Resume
    \/ \E seed \in Longs : srand48(seed) \/ srand(seed)
    \/ \E p \in Lcongs : lcong48(p)
    \/ rand \/ Done48

Spec48 == Init48 /\ [][Next48]_vars48

-----------------------------------------------------------------------------
(* The half words are linear congruential sequences: 64-bit arithmetic, the *)
(* split into c_ushorts and the shifts lose nothing of it, the program's    *)
(* sequence is apart from the static one, and rand from both.               *)
L == INSTANCE Lcg48 WITH
        x <- Join(xi), y <- Join(mine), a <- Join(lc), c <- lc[4], prev <- Join(PREV),
        out <- <<out[1], out[2]>>
ImplementsLcg48 == L!Spec

(* What seed48's result points to is the state seed48 replaced, also when   *)
(* its argument was that very array, until the next seed48 or srand48; and  *)
(* a copy made before then holds that state at any later time.              *)
PreviousStateKept ==
    /\ fresh => Join(PREV) = held
    /\ copy # None => Join(copy) = kept

(* The integers a program draws can be reduced to an index: rand, lrand48   *)
(* and nrand48 are never negative, abs is positive but for the one value it *)
(* cannot negate, and div gives an int quotient and remainder that make up  *)
(* the number, the remainder smaller than the divisor and with the sign of  *)
(* the number.  Only a divisor of zero, and -1 for the least int, which     *)
(* mrand48 and jrand48 may draw, abort the program instead.                 *)
IntegerLaws ==
    LET draws == {drawn} \cup (IF out[1] \in {"drand48", "erand48"} THEN {} ELSE {out[2]})
        least == -(Int32 \div 2)
    IN  /\ drawn \in 0 .. (Int32 \div 2) - 1
        /\ out[1] \in {"lrand48", "nrand48"} => out[2] \in 0 .. (Int32 \div 2) - 1
        /\ \A v \in draws :
              /\ abs(v, Int32) = IF v = least THEN v ELSE Magnitude(v)
              /\ \A den \in -B .. B :
                    LET d == div(v, den, Int32)
                    IN  IF den = 0 \/ (v = least /\ den = -1) THEN d = Panic
                        ELSE /\ d # Panic
                             /\ d.quot \in least .. (Int32 \div 2) - 1
                             /\ d.quot * den + d.rem = v
                             /\ Magnitude(d.rem) < Magnitude(den)
                             /\ d.rem = 0 \/ (d.rem < 0) = (v < 0)

(* The first output after srand48 is a function of the seed, as the test of *)
(* the standard's values says of lrand48, mrand48 and drand48.              *)
SeedDeterminesOutput ==
    out[3] # None /\ out[1] \in {"drand48", "lrand48", "mrand48"} =>
        LET x0 == Join(<<SeedLow, out[3] % B, (out[3] \div B) % B>>)
        IN  out[2] = L!Value(out[1], (Join(Multiplier) * x0 + Addend) % Word48)
=============================================================================
