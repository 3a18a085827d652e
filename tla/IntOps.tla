-------------------------------- MODULE IntOps --------------------------------
(* abs, div and their long relatives (crates/mytilus-stdlib/src/            *)
(* int_ops.rs), for two's complement integers of m values.  Rust's / and %  *)
(* truncate towards zero; TLA+'s \div and % round down.                     *)
EXTENDS Integers

Signed(v, m) == LET u == v % m IN IF u < m \div 2 THEN u ELSE u - m

wrapping_neg(v, m) == Signed(-v, m)

abs(v, m) == IF v > 0 THEN v ELSE wrapping_neg(v, m)

Magnitude(v) == IF v < 0 THEN -v ELSE v

(* No result: the process is aborted, in every build profile.              *)
Panic == [panics |-> TRUE]

(* Rust's / and % panic on a divisor of zero and on the one quotient that   *)
(* an integer of m values cannot hold.                                      *)
DivPanics(num, den, m) == den = 0 \/ (den = -1 /\ num = -(m \div 2))

(* Mutant: the remainder is never negative.                                 *)
divMutant(num, den, m) ==
    IF DivPanics(num, den, m) THEN Panic
    ELSE [quot |-> (IF (num < 0) = (den < 0) THEN 1 ELSE -1) * (Magnitude(num) \div Magnitude(den)),
          rem |-> Magnitude(num) % Magnitude(den)]

div(num, den, m) ==
    IF DivPanics(num, den, m) THEN Panic
    ELSE [quot |-> (IF (num < 0) = (den < 0) THEN 1 ELSE -1) * (Magnitude(num) \div Magnitude(den)),
          rem |-> (IF num < 0 THEN -1 ELSE 1) * (Magnitude(num) % Magnitude(den))]
=============================================================================
