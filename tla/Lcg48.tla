-------------------------------- MODULE Lcg48 --------------------------------
(***************************************************************************)
(* What the rand48 functions promise: linear congruential sequences modulo *)
(* 2^48 (B^3, for half words of B values), one hidden and one in an        *)
(* array of the caller's, with a common multiplier and addend, and outputs *)
(* made of a sequence's most significant bits.                             *)
(***************************************************************************)
EXTENDS Integers

CONSTANTS
    B,
    SeedLow,   \* the low half word of every seed
    Longs      \* the seeds passed to srand48

VARIABLES
    x, y,   \* the hidden sequence and the caller's
    a, c,   \* the multiplier and the addend
    prev,   \* the value seed48's result points to
    out     \* the function last called and what it returned

vars == <<x, y, a, c, prev, out>>

M == B * B * B
Wrap(v, m) == IF v < m \div 2 THEN v ELSE v - m

(* A double is counted in units of 2^-52, a sixteenth of the sequence's; an *)
(* int is the upper two of the three half words, one bit less of them if it *)
(* may not be negative.                                                     *)
Value(f, v) ==
    CASE f \in {"drand48", "erand48"} -> v * 16
      [] f \in {"lrand48", "nrand48"} -> v \div (2 * B)
      [] f \in {"mrand48", "jrand48"} -> Wrap(v \div B, B * B)

Advance(v) == (a * v + c) % M

Draw(f) ==
    /\ x' = Advance(x)
    /\ out' = <<f, Value(f, x')>>
    /\ UNCHANGED <<y, a, c, prev>>

DrawMine(f) ==
    /\ y' = Advance(y)
    /\ out' = <<f, Value(f, y')>>
    /\ UNCHANGED <<x, a, c, prev>>

(* The high half words are the low bits of srand48's argument.              *)
OfSeed(seed) == SeedLow + (seed % (B * B)) * B

Reseed(f, values) ==
    /\ x' \in values
    /\ prev' = x
    /\ out' = <<f, 0>>
    /\ UNCHANGED <<y, a, c>>

Replace ==
    /\ x' \in 0 .. M - 1 /\ a' \in 0 .. M - 1 /\ c' \in 0 .. B - 1
    /\ out' = <<"lcong48", 0>>
    /\ UNCHANGED <<y, prev>>

Init ==
    /\ {x, y, a, prev} \subseteq 0 .. M - 1 /\ c \in 0 .. B - 1
    /\ out = <<"none", 0>>

Next ==
    \/ \E f \in {"drand48", "lrand48", "mrand48"} : Draw(f)
    \/ \E f \in {"erand48", "nrand48", "jrand48"} : DrawMine(f)
    \/ Reseed("seed48", 0 .. M - 1)
    \/ \E seed \in Longs : Reseed("srand48", {OfSeed(seed)})
    \/ Replace

Spec == Init /\ [][Next]_vars
=============================================================================
