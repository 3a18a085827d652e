------------------------------- MODULE Memset -------------------------------
(***************************************************************************)
(* memset of the aarch64 target (crates/mytilus-string/asm/memset.S).      *)
(*                                                                         *)
(* Registers hold their values, addresses are integers, and the memory is  *)
(* represented by the stores made to it: a store is the interval of bytes  *)
(* [from, behind] it writes, kept apart by what it writes, the byte the *)
(* caller asked for (stores) or the zeros of `dc zva' (zeroed).  A step is *)
(* a run of instructions without a branch.                                 *)
(*                                                                         *)
(* The caller owns exactly the bytes dstin .. dstin + count0 - 1.          *)
(***************************************************************************)
EXTENDS MemParams

CONSTANT Values  \* the bytes considered
ASSUME ValuesAssumption == Values \subseteq 0 .. 255

VARIABLES
    dstin, count0, valw,  \* arguments
    zva64,                \* dczid_el0: `dc zva' is allowed and zeroes 64 bytes
    dst, count,
    pc,
    stores, zeroed

vars == <<dstin, count0, valw, zva64, dst, count, pc, stores, zeroed>>

args == <<dstin, count0, valw, zva64>>

dstend == dstin + count0

(* Whether bit w (a power of two) of x is set: tbz, tbnz.                   *)
Bit(x, w) == (x \div w) % 2 = 1

(* The address a rounded down to a multiple of m: bic a, m - 1.             *)
bic(a, m) == a - (a % m)

(* str of w bytes at address a.                                             *)
St(a, w) == [from |-> a, behind |-> a + w]

Init ==
    /\ dstin \in Addresses
    /\ count0 \in Counts
    /\ valw \in Values
    /\ zva64 \in BOOLEAN
    /\ dst = 0
    /\ count = count0
    /\ pc = "memset"
    /\ stores = {}
    /\ zeroed = {}

Return(w) ==
    /\ pc' = "ret"
    /\ stores' = stores \cup w
    /\ UNCHANGED <<args, dst, count, zeroed>>

(* Up to 15 bytes, by the bits of the length.                               *)
Small ==
    /\ pc = "memset"
    /\ count < 16
    /\ \/ Bit(count, 8) /\ Return({St(dstin, 8), St(dstend - 8, 8)})
       \/ ~Bit(count, 8) /\ Bit(count, 4) /\ Return({St(dstin, 4), St(dstend - 4, 4)})
       \/ count = 0 /\ Return({})
       \/ count = 1 /\ Return({St(dstin, 1)})
       \/ ~Bit(count, 8) /\ ~Bit(count, 4) /\ Bit(count, 2)
             /\ Return({St(dstin, 1), St(dstend - 2, 2)})

(* 16 to 96 bytes, by the bits of the length.                               *)
Medium ==
    /\ pc = "memset"
    /\ 16 <= count /\ count <= 96
    /\ \/ /\ Bit(count, 64)
          /\ Return({St(dstin, 16), St(dstin + 16, 16), St(dstin + 32, 32), St(dstend - 32, 32)})
       \/ /\ ~Bit(count, 64) /\ Bit(count, 32)
          /\ Return({St(dstin, 16), St(dstin + 16, 16), St(dstend - 32, 16), St(dstend - 16, 16)})
       \/ /\ ~Bit(count, 64) /\ ~Bit(count, 32)
          /\ Return({St(dstin, 16), St(dstend - 16, 16)})

UseZva == count >= 160 /\ valw = 0 /\ zva64

LongNoZva ==
    /\ pc = "memset"
    /\ count > 96
    /\ ~UseZva
    /\ stores' = stores \cup {St(dstin, 16)}
    /\ dst' = bic(dstin, 16) - 16
    /\ count' = dstend - bic(dstin, 16) - (64 + 16)
    /\ pc' = "no_zva_loop"
    /\ UNCHANGED <<args, zeroed>>

NoZvaLoop ==
    /\ pc = "no_zva_loop"
    /\ stores' = stores \cup {St(dst + 32, 32), St(dst + 64, 32)}
    /\ dst' = dst + 64
    /\ count' = count - 64
    /\ pc' = IF count - 64 > 0 THEN "no_zva_loop" ELSE "tail"
    /\ UNCHANGED <<args, zeroed>>

(* Mutant: the loop's count is not adjusted for the 64 bytes of the tail.   *)
LongZvaMutant ==
    /\ pc = "memset"
    /\ count > 96
    /\ UseZva
    /\ LET d == bic(dstin, 16)
       IN  /\ stores' = stores \cup {St(dstin, 16), St(d + 16, 16), St(d + 32, 32)}
           /\ dst' = bic(d, 64)
           /\ count' = dstend - bic(d, 64) - 64
    /\ pc' = "zva_loop"
    /\ UNCHANGED <<args, zeroed>>

LongZva ==
    /\ pc = "memset"
    /\ count > 96
    /\ UseZva
    /\ LET d == bic(dstin, 16)
       IN  /\ stores' = stores \cup {St(dstin, 16), St(d + 16, 16), St(d + 32, 32)}
           /\ dst' = bic(d, 64)
           /\ count' = dstend - bic(d, 64) - 128
    /\ pc' = "zva_loop"
    /\ UNCHANGED <<args, zeroed>>

ZvaLoop ==
    /\ pc = "zva_loop"
    /\ zeroed' = zeroed \cup {St(dst + 64, 64)}
    /\ dst' = dst + 64
    /\ count' = count - 64
    /\ pc' = IF count - 64 > 0 THEN "zva_loop" ELSE "tail"
    /\ UNCHANGED <<args, stores>>

Tail ==
    /\ pc = "tail"
    /\ Return({St(dstend - 64, 32), St(dstend - 32, 32)})

Done == pc = "ret" /\ UNCHANGED vars

Next == Small \/ Medium \/ LongNoZva \/ NoZvaLoop \/ LongZva \/ ZvaLoop \/ Tail \/ Done

Spec == Init /\ [][Next]_vars

-----------------------------------------------------------------------------
(* No store, and no `dc zva' line, reaches outside the caller's bytes.      *)
StoresInBounds ==
    \A s \in stores \cup zeroed : dstin <= s.from /\ s.behind <= dstend

(* At the return every byte of the destination has been written.            *)
AllWritten ==
    pc = "ret" =>
        \A k \in dstin .. dstend - 1 :
            \E s \in stores \cup zeroed : s.from <= k /\ k < s.behind

(* Zeros are written by `dc zva' only when zero was asked for, and on whole *)
(* lines of 64 bytes: the instruction clears the line its address is in.    *)
ZerosAsked == \A s \in zeroed : valw = 0 /\ s.from % 64 = 0

(* The counter, an unsigned 64-bit register, is never taken below zero      *)
(* before the subtraction whose flags end the loop.                         *)
CounterNeverWraps == pc \in {"no_zva_loop", "zva_loop"} => count >= 0

(* memset's contract: when it returns every byte has been stored, and never *)
(* as a zero of `dc zva' unless zero was asked for; nothing else is ever    *)
(* written.                                                                 *)
SetExactly == StoresInBounds /\ AllWritten /\ ZerosAsked

-----------------------------------------------------------------------------
(* The inductive invariant.                                                 *)

TypeInv ==
    /\ dstin \in Nat /\ count0 \in Nat /\ valw \in 0 .. 255
    /\ dst \in Int /\ count \in Int
    /\ stores \subseteq [from : Int, behind : Int]
    /\ zeroed \subseteq [from : Int, behind : Int]
    /\ pc \in {"memset", "no_zva_loop", "zva_loop", "tail", "ret"}

(* The bytes from lo up to hi have been written.                            *)
Covered(lo, hi) ==
    \A k \in lo .. hi - 1 : \E s \in stores \cup zeroed : s.from <= k /\ k < s.behind

(* In both loops count is what is left behind the next store, less the 64   *)
(* bytes the tail will write.                                               *)
LoopInv ==
    /\ pc = "memset" => count = count0
    /\ pc = "no_zva_loop" =>
          /\ dst + 32 >= dstin
          /\ count = dstend - dst - 96
          /\ Covered(dstin, dst + 32)
    /\ pc = "zva_loop" =>
          /\ dst + 64 >= dstin /\ dst % 64 = 0
          /\ count = dstend - dst - 128
          /\ Covered(dstin, dst + 64)
          /\ valw = 0
    /\ pc = "tail" => Covered(dstin, dstend - 64)
    /\ pc \in {"no_zva_loop", "zva_loop", "tail"} => count0 > 96

Inv ==
    /\ TypeInv /\ StoresInBounds /\ AllWritten /\ ZerosAsked /\ CounterNeverWraps
    /\ LoopInv
=============================================================================
