------------------------------ MODULE MemParams ------------------------------
(* The arguments memset and memcpy are given.                               *)
EXTENDS Integers

CONSTANTS
    Addresses,  \* where the buffers begin
    Counts      \* the lengths

ASSUME AddressesAssumption == Addresses \subseteq Nat
ASSUME CountsAssumption == Counts \subseteq Nat
=============================================================================
