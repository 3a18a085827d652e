------------------------------- MODULE Memcpy -------------------------------
(***************************************************************************)
(* memcpy of the aarch64 target (crates/mytilus-string/asm/memcpy.S).      *)
(*                                                                         *)
(* The source is not written while it is copied (the caller's contract), so *)
(* a data register is represented by the address it was loaded from, and   *)
(* the memory by the copies made: Cp(to, from, w) is a store at `to' of    *)
(* the w bytes loaded at `from'.  loads collects Ld(from, w) for every     *)
(* load.  A step is a run of instructions without a branch; every ldp and  *)
(* stp of two x registers moves 16 bytes.                                  *)
(*                                                                         *)
(* The caller owns the bytes src0 .. src0 + count0 - 1 for reading and     *)
(* dstin .. dstin + count0 - 1 for writing.                                *)
(***************************************************************************)
EXTENDS MemParams

VARIABLES
    src0, dstin, count0,  \* arguments
    src, dst, count,
    A, B, C, D,           \* the pipeline: where each pair was loaded from
    pc,
    loads, copies

vars == <<src0, dstin, count0, src, dst, count, A, B, C, D, pc, loads, copies>>

args == <<src0, dstin, count0>>

pipeline == <<src, dst, count, A, B, C, D>>

srcend == src0 + count0
dstend == dstin + count0

(* Whether bit w (a power of two) of x is set: tbz, tbnz.                   *)
Bit(x, w) == (x \div w) % 2 = 1

bic(a, m) == a - (a % m)

Ld(from, w) == [from |-> from, w |-> w]
Cp(to, from, w) == [to |-> to, from |-> from, w |-> w]

(* A load of w bytes at offset o of the source, and its store at the same   *)
(* offset of the destination; from the front and from the end.              *)
Front(o, w) == Cp(dstin + o, src0 + o, w)
Back(o, w) == Cp(dstend - o, srcend - o, w)

Init ==
    /\ src0 \in Addresses
    /\ dstin \in Addresses
    /\ count0 \in Counts
    /\ src0 + count0 <= dstin \/ dstin + count0 <= src0
    /\ src = src0 /\ dst = 0 /\ count = count0
    /\ A = 0 /\ B = 0 /\ C = 0 /\ D = 0
    /\ pc = "memcpy"
    /\ loads = {}
    /\ copies = {}

(* Copies whose loads all come first, and the return.                       *)
CopyAndReturn(cs) ==
    /\ loads' = loads \cup {Ld(c.from, c.w) : c \in cs}
    /\ copies' = copies \cup cs
    /\ pc' = "ret"
    /\ UNCHANGED <<args, pipeline>>

(* Up to 32 bytes.                                                          *)
Small ==
    /\ pc = "memcpy"
    /\ \/ /\ 16 <= count /\ count <= 32
          /\ CopyAndReturn({Front(0, 16), Back(16, 16)})
       \/ /\ count < 16 /\ Bit(count, 8)
          /\ CopyAndReturn({Front(0, 8), Back(8, 8)})
       \/ /\ count < 16 /\ ~Bit(count, 8) /\ Bit(count, 4)
          /\ CopyAndReturn({Front(0, 4), Back(4, 4)})
       \/ /\ count < 16 /\ ~Bit(count, 8) /\ ~Bit(count, 4) /\ count # 0
          /\ CopyAndReturn({Front(0, 1), Front(count \div 2, 1), Back(1, 1)})
       \/ /\ count = 0
          /\ CopyAndReturn({})

Copy64 == {Front(0, 16), Front(16, 16), Back(32, 16), Back(16, 16)}

Copy96 == Copy64 \cup {Front(32, 16), Front(48, 16)}

Copy128 == Copy96 \cup {Back(64, 16), Back(48, 16)}

(* 33 to 128 bytes.                                                         *)
Medium ==
    /\ pc = "memcpy"
    /\ \/ 32 < count /\ count <= 64 /\ CopyAndReturn(Copy64)
       \/ 64 < count /\ count <= 96 /\ CopyAndReturn(Copy96)
       \/ 96 < count /\ count <= 128 /\ CopyAndReturn(Copy128)

(* Copy 16 bytes, align dst, fill the pipeline.                             *)
LongStart ==
    /\ pc = "memcpy"
    /\ count > 128
    /\ LET tmp1 == dstin % 16
           s == src0 - tmp1
       IN  /\ dst' = bic(dstin, 16)
           /\ A' = s + 16 /\ B' = s + 32 /\ C' = s + 48 /\ D' = s + 64
           /\ loads' = loads \cup {Ld(src0, 16), Ld(s + 16, 16), Ld(s + 32, 16),
                                   Ld(s + 48, 16), Ld(s + 64, 16)}
           /\ copies' = copies \cup {Cp(dstin, src0, 16)}
           /\ src' = s + 64
           /\ count' = count + tmp1 - (128 + 16)
           /\ pc' = IF count + tmp1 > 128 + 16 THEN "loop64" ELSE "from_end"
    /\ UNCHANGED args

(* Mutant: the fourth pair is reloaded before it has been stored.           *)
Loop64Mutant ==
    /\ pc = "loop64"
    /\ copies' = copies \cup {Cp(dst + 16, A, 16), Cp(dst + 32, B, 16),
                              Cp(dst + 48, C, 16), Cp(dst + 64, src + 64, 16)}
    /\ A' = src + 16 /\ B' = src + 32 /\ C' = src + 48 /\ D' = src + 64
    /\ loads' = loads \cup {Ld(src + 16, 16), Ld(src + 32, 16),
                            Ld(src + 48, 16), Ld(src + 64, 16)}
    /\ dst' = dst + 64
    /\ src' = src + 64
    /\ count' = count - 64
    /\ pc' = IF count > 64 THEN "loop64" ELSE "from_end"
    /\ UNCHANGED args

Loop64 ==
    /\ pc = "loop64"
    /\ copies' = copies \cup {Cp(dst + 16, A, 16), Cp(dst + 32, B, 16),
                              Cp(dst + 48, C, 16), Cp(dst + 64, D, 16)}
    /\ A' = src + 16 /\ B' = src + 32 /\ C' = src + 48 /\ D' = src + 64
    /\ loads' = loads \cup {Ld(src + 16, 16), Ld(src + 32, 16),
                            Ld(src + 48, 16), Ld(src + 64, 16)}
    /\ dst' = dst + 64
    /\ src' = src + 64
    /\ count' = count - 64
    /\ pc' = IF count > 64 THEN "loop64" ELSE "from_end"
    /\ UNCHANGED args

(* Drain the pipeline and copy the last 64 bytes from the end.              *)
Copy64FromEnd ==
    /\ pc = "from_end"
    /\ LET end == {Back(64, 16), Back(48, 16), Back(32, 16), Back(16, 16)}
       IN  /\ loads' = loads \cup {Ld(c.from, 16) : c \in end}
           /\ copies' = copies \cup end \cup
                 {Cp(dst + 16, A, 16), Cp(dst + 32, B, 16),
                  Cp(dst + 48, C, 16), Cp(dst + 64, D, 16)}
    /\ pc' = "ret"
    /\ UNCHANGED <<args, pipeline>>

Done == pc = "ret" /\ UNCHANGED vars

Next == Small \/ Medium \/ LongStart \/ Loop64 \/ Copy64FromEnd \/ Done

Spec == Init /\ [][Next]_vars

-----------------------------------------------------------------------------
(* Every byte stored at offset k of the destination was loaded at offset k  *)
(* of the source, through every turn of the software pipeline.              *)
OffsetsAgree == \A c \in copies : c.to - dstin = c.from - src0

(* No load leaves the source and no store leaves the destination.           *)
AccessesInBounds ==
    /\ \A l \in loads : src0 <= l.from /\ l.from + l.w <= srcend
    /\ \A c \in copies : dstin <= c.to /\ c.to + c.w <= dstend

(* At the return every byte of the destination has been written.            *)
AllCopied ==
    pc = "ret" =>
        \A k \in dstin .. dstend - 1 :
            \E c \in copies : c.to <= k /\ k < c.to + c.w

(* memcpy's contract: when it returns, every byte of the destination has    *)
(* been stored, none ever with a byte from another offset, and nothing      *)
(* outside the two regions is ever touched.                                 *)
CopiedExactly == AccessesInBounds /\ OffsetsAgree /\ AllCopied

-----------------------------------------------------------------------------
(* The inductive invariant.                                                 *)

TypeInv ==
    /\ src0 \in Nat /\ dstin \in Nat /\ count0 \in Nat
    /\ src \in Int /\ dst \in Int /\ count \in Int
    /\ A \in Int /\ B \in Int /\ C \in Int /\ D \in Int
    /\ loads \subseteq [from : Int, w : Int]
    /\ copies \subseteq [to : Int, from : Int, w : Int]
    /\ pc \in {"memcpy", "loop64", "from_end", "ret"}

(* The bytes from lo up to hi have been written.                            *)
Covered(lo, hi) == \A k \in lo .. hi - 1 : \E c \in copies : c.to <= k /\ k < c.to + c.w

(* The pipeline runs 64 bytes ahead of dst, and count is what is left of    *)
(* the destination behind it, less the 144 bytes in flight and at the end.  *)
PipelineInv ==
    pc \in {"loop64", "from_end"} =>
        /\ dst + 16 > dstin
        /\ src = dst + 64 + (src0 - dstin)
        /\ A = src - 48 /\ B = src - 32 /\ C = src - 16 /\ D = src
        /\ count = dstend - dst - 144
        /\ count0 > 128
        /\ IF pc = "loop64" THEN count > 0 ELSE -64 < count /\ count <= 0
        /\ Covered(dstin, dst + 16)

Inv ==
    /\ TypeInv /\ OffsetsAgree /\ AccessesInBounds /\ AllCopied /\ PipelineInv
    /\ pc = "memcpy" => count = count0
=============================================================================
