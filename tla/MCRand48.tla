------------------------------ MODULE MCRand48 -------------------------------
(* Rand48 for TLC: half words of 8 values, with the standard multipliers,     *)
(* addend and seed reduced to the bits that such arithmetic sees.           *)
EXTENDS Rand48

MCMultiplier == <<5, 4, 5>>  \* 0xe66d, 0xdeec, 0x5
MCXsubis == {<<1, 2, 7>>}
MCLcongs == {<<3, 0, 2, 3, 1, 6, 1>>}
MCLongs == {-1, 0, 123}
TestedLongs == {0, 123}
=============================================================================
