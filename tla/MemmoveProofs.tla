---------------------------- MODULE MemmoveProofs ----------------------------
(***************************************************************************)
(* memmove is correct for every memory, every length and every overlap.    *)
(* The invariant says of a loop what it has copied (CopiedInv) and that    *)
(* the source it has not read yet is still the caller's (SourceAhead): the *)
(* byte a step overwrites lies behind the next read exactly because the    *)
(* direction was chosen by comparing the two addresses.                    *)
(***************************************************************************)
EXTENDS Memmove, TLAPS

(* A call starts with nothing copied.                                       *)
LEMMA InitInv == Init => Inv
<1> SUFFICES ASSUME Init PROVE Inv
  OBVIOUS
<1>1. TypeInv
  BY SizeAssumption DEF Init, TypeInv
<1>2. CopiedInv /\ SourceAhead /\ OthersKept /\ Moved
  BY DEF Init, CopiedInv, SourceAhead, OthersKept, Moved
<1> QED BY <1>1, <1>2 DEF Inv

(* The choice of the direction.                                             *)
LEMMA BranchStep == Inv /\ Branch => Inv'
<1> SUFFICES ASSUME Inv, Branch PROVE Inv'
  OBVIOUS
<1> USE DEF Inv, Branch, args
<1>1. TypeInv'
  BY SizeAssumption DEF TypeInv
<1>2. mem' = mem0'
  BY DEF CopiedInv
<1>3. CopiedInv'
  BY <1>2, SizeAssumption DEF TypeInv, CopiedInv
<1>4. SourceAhead' /\ OthersKept'
  BY <1>2 DEF SourceAhead, OthersKept
<1>5. Moved'
  BY <1>2 DEF Moved
<1> QED BY <1>1, <1>3, <1>4, <1>5

(* A turn of the loop from the front.                                       *)
LEMMA ForwardStep == Inv /\ Forward => Inv'
<1> SUFFICES ASSUME Inv, Forward PROVE Inv'
  OBVIOUS
<1>1. /\ mem \in [Addresses -> Byte] /\ n \in 0 .. Size /\ d \in 0 .. Size - n
      /\ s \in 0 .. Size - n /\ i \in 0 .. n - 1 /\ Size \in Nat
      /\ d < s /\ pc = "forward" /\ mem' = [mem EXCEPT ![d + i] = mem[s + i]]
      /\ i' = i + 1 /\ pc' = "forward" /\ d' = d /\ s' = s /\ n' = n /\ mem0' = mem0
  BY SizeAssumption DEF Inv, TypeInv, CopiedInv, Forward, args
<1>2. d + i \in Addresses /\ s + i \in Addresses
  BY <1>1 DEF Addresses
<1>3. TypeInv'
  <2>1. mem[s + i] \in Byte
    BY <1>1, <1>2
  <2>2. mem' \in [Addresses -> Byte]
    BY <1>1, <2>1
  <2> QED BY <1>1, <2>2 DEF Inv, TypeInv
<1>4. mem'[d + i] = mem0[s + i]
  BY <1>1, <1>2 DEF Inv, SourceAhead
<1>5. \A a \in Addresses : a # d + i => mem'[a] = mem[a]
  BY <1>1
<1>6. CopiedInv'
  <2> SUFFICES ASSUME NEW k \in 0 .. i PROVE mem'[d + k] = mem0[s + k]
    BY <1>1 DEF CopiedInv
  <2>1. CASE k = i
    BY <1>4, <2>1
  <2>2. CASE k # i
    <3>1. k \in 0 .. i - 1 /\ d + k \in Addresses /\ d + k # d + i
      BY <1>1, <2>2 DEF Addresses
    <3> QED BY <1>1, <1>5, <3>1 DEF Inv, CopiedInv
  <2> QED BY <2>1, <2>2
<1>7. SourceAhead'
  <2> SUFFICES ASSUME NEW k \in i + 1 .. n - 1 PROVE mem'[s + k] = mem0[s + k]
    BY <1>1 DEF SourceAhead
  <2>1. k \in i .. n - 1 /\ s + k \in Addresses /\ s + k # d + i
    BY <1>1 DEF Addresses
  <2> QED BY <1>1, <1>5, <2>1 DEF Inv, SourceAhead
<1>8. OthersKept' /\ Moved'
  BY <1>1, <1>5 DEF Inv, OthersKept, Moved
<1> QED BY <1>3, <1>6, <1>7, <1>8 DEF Inv

(* A turn of the loop from the back.                                        *)
LEMMA BackwardStep == Inv /\ Backward => Inv'
<1> SUFFICES ASSUME Inv, Backward PROVE Inv'
  OBVIOUS
<1> DEFINE j == i - 1
<1>1. /\ mem \in [Addresses -> Byte] /\ n \in 0 .. Size /\ d \in 0 .. Size - n
      /\ s \in 0 .. Size - n /\ i \in 1 .. n /\ j \in 0 .. n - 1 /\ i = j + 1 /\ Size \in Nat
      /\ d > s /\ pc = "backward" /\ mem' = [mem EXCEPT ![d + j] = mem[s + j]]
      /\ i' = j /\ pc' = "backward" /\ d' = d /\ s' = s /\ n' = n /\ mem0' = mem0
  <2>1. /\ mem \in [Addresses -> Byte] /\ n \in 0 .. Size /\ d \in 0 .. Size - n
        /\ s \in 0 .. Size - n /\ i \in 1 .. n /\ Size \in Nat /\ d > s /\ pc = "backward"
    BY SizeAssumption DEF Inv, TypeInv, CopiedInv, Backward
  <2>2. d + i - 1 = d + j /\ s + i - 1 = s + j /\ j \in 0 .. n - 1 /\ i = j + 1
    BY <2>1
  <2>3. /\ mem' = [mem EXCEPT ![d + i - 1] = mem[s + i - 1]]
        /\ i' = j /\ pc' = "backward" /\ d' = d /\ s' = s /\ n' = n /\ mem0' = mem0
    BY DEF Backward, args
  <2> HIDE DEF j
  <2> QED BY <2>1, <2>2, <2>3
<1> HIDE DEF j
<1>2. d + j \in Addresses /\ s + j \in Addresses
  BY <1>1 DEF Addresses
<1>3. TypeInv'
  <2>1. mem[s + j] \in Byte
    BY <1>1, <1>2
  <2>2. mem' \in [Addresses -> Byte]
    BY <1>1, <2>1
  <2> QED BY <1>1, <2>2 DEF Inv, TypeInv
<1>4. mem'[d + j] = mem0[s + j]
  BY <1>1, <1>2 DEF Inv, SourceAhead
<1>5. \A a \in Addresses : a # d + j => mem'[a] = mem[a]
  BY <1>1
<1>6. CopiedInv'
  <2> SUFFICES ASSUME NEW k \in j .. n - 1 PROVE mem'[d + k] = mem0[s + k]
    BY <1>1 DEF CopiedInv
  <2>1. CASE k = j
    BY <1>4, <2>1
  <2>2. CASE k # j
    <3>1. k \in i .. n - 1 /\ d + k \in Addresses /\ d + k # d + j
      BY <1>1, <2>2 DEF Addresses
    <3> QED BY <1>1, <1>5, <3>1 DEF Inv, CopiedInv
  <2> QED BY <2>1, <2>2
<1>7. SourceAhead'
  <2> SUFFICES ASSUME NEW k \in 0 .. j - 1 PROVE mem'[s + k] = mem0[s + k]
    BY <1>1 DEF SourceAhead
  <2>1. k \in 0 .. i - 1 /\ s + k \in Addresses /\ s + k # d + j
    BY <1>1 DEF Addresses
  <2> QED BY <1>1, <1>5, <2>1 DEF Inv, SourceAhead
<1>8. OthersKept' /\ Moved'
  BY <1>1, <1>5 DEF Inv, OthersKept, Moved
<1> QED BY <1>3, <1>6, <1>7, <1>8 DEF Inv

(* The end of either loop.                                                  *)
LEMMA ReturnStep == Inv /\ Return => Inv'
<1> SUFFICES ASSUME Inv, Return PROVE Inv'
  OBVIOUS
<1> USE DEF Inv, Return, args
<1>1. TypeInv' /\ CopiedInv' /\ SourceAhead' /\ OthersKept'
  BY DEF TypeInv, CopiedInv, SourceAhead, OthersKept
<1>2. Moved'
  BY SizeAssumption DEF TypeInv, CopiedInv, Moved
<1> QED BY <1>1, <1>2

(* Every step of memmove preserves the invariant.                           *)
LEMMA StepInv == Inv /\ [Next]_vars => Inv'
<1>1. ASSUME Inv, Done \/ UNCHANGED vars PROVE Inv'
  BY <1>1 DEF Done, vars, Inv, TypeInv, CopiedInv, SourceAhead, OthersKept, Moved
<1> QED BY <1>1, BranchStep, ForwardStep, BackwardStep, ReturnStep DEF Next

(* The invariant of memmove, for every memory, length and overlap.          *)
THEOREM Invariance == Spec => []Inv
  BY InitInv, StepInv, PTL DEF Spec

(* memmove moves: the destination gets what the source was, and no other    *)
(* byte is written.                                                         *)
THEOREM MoveTheorem == Spec => []MovedExactly
<1>1. Inv => MovedExactly
  BY DEF Inv, MovedExactly
<1> QED BY <1>1, Invariance, PTL

(* memmove never reads a byte of the source it has already overwritten.     *)
THEOREM ReadTheorem == Spec => []SourceAhead
  BY Invariance, PTL DEF Inv
=============================================================================
