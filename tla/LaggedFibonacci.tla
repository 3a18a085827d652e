-------------------------- MODULE LaggedFibonacci --------------------------
(***************************************************************************)
(* The arithmetic of random(3), crates/mytilus-prng/src/lib.rs.             *)
(*                                                                         *)
(* A word of the generator is an unsigned integer below M, where M = 2^32  *)
(* in the code.  Every operation the code applies to words is a sum or a   *)
(* product modulo M, modulo M^2 (the 64-bit seeding generator) or modulo   *)
(* M / 2 (the 31-bit one), or takes a half of a double word; so M is a     *)
(* parameter, and TLC checks a small even M.                                *)
(***************************************************************************)
EXTENDS Integers, Sequences

CONSTANTS
    M,        \* the word modulus: 2^32 in the code
    Mult31,   \* 1103515245, the multiplier of lcg31
    Mult64    \* 6364136223846793005, the multiplier of lcg64

ASSUME ModulusAssumption == M \in Nat /\ M > 1 /\ M % 2 = 0
ASSUME MultiplierAssumption == Mult31 \in Nat /\ Mult64 \in Nat

Word == 0 .. M - 1
DoubleWord == 0 .. M * M - 1

lcg31(x) == (Mult31 * x + 12345) % (M \div 2)
lcg64(s) == (Mult64 * s + 1) % (M * M)

HighWord(s) == s \div M
MakeOdd(w) == (w + 1) - (w % 2)
Odd(w) == w % 2 = 1

-----------------------------------------------------------------------------
(* The number of state words in use, as initstate picks it from the size in *)
(* bytes of the caller's buffer; 0 stands for the linear generator.         *)

Degrees == {0, 7, 15, 31, 63}

(* Mutant: the first class starts one byte early.                           *)
DegreeMutant(size) ==
    IF size < 31 THEN 0
    ELSE IF size < 64 THEN 7
    ELSE IF size < 128 THEN 15
    ELSE IF size < 256 THEN 31
    ELSE 63

Degree(size) ==
    IF size < 32 THEN 0
    ELSE IF size < 64 THEN 7
    ELSE IF size < 128 THEN 15
    ELSE IF size < 256 THEN 31
    ELSE 63

(* The distance from RAND_J to RAND_I that srandom establishes.             *)
Separation(n) == IF n = 31 \/ n = 7 THEN 3 ELSE 1

(* The states lcg64 goes through while n words are seeded.                  *)
SeedStates(n, seed) ==
    LET s[k \in 0 .. n] == IF k = 0 THEN seed ELSE lcg64(s[k-1])
    IN  s

(* The words that seeding writes, x[0] .. x[n-1], as a function of the seed: *)
(* the high halves of the successive states of lcg64, the first made odd.   *)
SeedWords(n, seed) ==
    LET s == SeedStates(n, seed)
    IN  [k \in 0 .. n - 1 |-> IF k = 0 THEN MakeOdd(HighWord(s[1]))
                                       ELSE HighWord(s[k+1])]

(* The register that the words w = x[0] .. x[n-1] stand for when the next   *)
(* word to be replaced is x[i].                                            *)
Register(n, i, w) ==
    [n |-> n,
     q |-> IF n = 0 THEN <<w[0]>> ELSE [k \in 1 .. n |-> w[(i + k - 1) % n]]]
=============================================================================
