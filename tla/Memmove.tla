------------------------------- MODULE Memmove -------------------------------
(***************************************************************************)
(* memmove of crates/mytilus-string/src/mem.rs: the only copy of this      *)
(* library that may be given overlapping regions.  One step is one turn of *)
(* a byte loop.                                                            *)
(***************************************************************************)
EXTENDS Integers

CONSTANTS
    Size,   \* the bytes of memory
    Byte    \* the values of a byte

ASSUME SizeAssumption == Size \in Nat

VARIABLES
    mem,      \* the memory
    mem0,     \* the memory when memmove was called
    d, s, n,  \* the arguments
    i,
    pc

vars == <<mem, mem0, d, s, n, i, pc>>
args == <<mem0, d, s, n>>

Addresses == 0 .. Size - 1

(* Both regions lie inside the memory, in any position to each other.       *)
Init ==
    /\ mem \in [Addresses -> Byte]
    /\ mem0 = mem
    /\ n \in 0 .. Size
    /\ d \in 0 .. Size - n
    /\ s \in 0 .. Size - n
    /\ i = 0
    /\ pc = "memmove"

(* Mutant: the regions are always copied from the front.                    *)
BranchMutant ==
    /\ pc = "memmove"
    /\ pc' = "forward"
    /\ i' = 0
    /\ UNCHANGED <<args, mem>>

Branch ==
    /\ pc = "memmove"
    /\ \/ d < s /\ pc' = "forward" /\ i' = 0
       \/ d > s /\ pc' = "backward" /\ i' = n
       \/ d = s /\ pc' = "ret" /\ i' = i
    /\ UNCHANGED <<args, mem>>

Forward ==
    /\ pc = "forward"
    /\ i < n
    /\ mem' = [mem EXCEPT ![d + i] = mem[s + i]]
    /\ i' = i + 1
    /\ UNCHANGED <<args, pc>>

Backward ==
    /\ pc = "backward"
    /\ i > 0
    /\ i' = i - 1
    /\ mem' = [mem EXCEPT ![d + i - 1] = mem[s + i - 1]]
    /\ UNCHANGED <<args, pc>>

Return ==
    /\ \/ pc = "forward" /\ i >= n
       \/ pc = "backward" /\ i <= 0
    /\ pc' = "ret"
    /\ UNCHANGED <<args, mem, i>>

Done == pc = "ret" /\ UNCHANGED vars

Next == Branch \/ Forward \/ Backward \/ Return \/ Done

Spec == Init /\ [][Next]_vars

-----------------------------------------------------------------------------
(* At the return the destination holds what the source held at the call,    *)
(* however the two overlap.                                                 *)
Moved == pc = "ret" => \A k \in 0 .. n - 1 : mem[d + k] = mem0[s + k]

(* No byte outside the destination changes, at any time.                    *)
OthersKept == \A a \in Addresses : a \notin d .. d + n - 1 => mem[a] = mem0[a]

(* memmove's contract, for every overlap of the two regions.                *)
MovedExactly == Moved /\ OthersKept

(* The bytes of the source that are still to be read are the ones it had at *)
(* the call: the copy never overtakes its own reads.                        *)
SourceAhead ==
    /\ pc = "forward" => \A k \in i .. n - 1 : mem[s + k] = mem0[s + k]
    /\ pc = "backward" => \A k \in 0 .. i - 1 : mem[s + k] = mem0[s + k]

-----------------------------------------------------------------------------
(* The inductive invariant.                                                 *)

TypeInv ==
    /\ mem \in [Addresses -> Byte] /\ mem0 \in [Addresses -> Byte]
    /\ n \in 0 .. Size /\ d \in 0 .. Size - n /\ s \in 0 .. Size - n
    /\ i \in 0 .. n
    /\ pc \in {"memmove", "forward", "backward", "ret"}

CopiedInv ==
    /\ pc = "memmove" => mem = mem0
    /\ pc = "forward" => d < s /\ \A k \in 0 .. i - 1 : mem[d + k] = mem0[s + k]
    /\ pc = "backward" => d > s /\ \A k \in i .. n - 1 : mem[d + k] = mem0[s + k]

Inv == TypeInv /\ CopiedInv /\ SourceAhead /\ OthersKept /\ Moved
=============================================================================
