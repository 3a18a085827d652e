------------------------------ MODULE MCFillCopy ------------------------------
(* FillCopy for TLC: every length from nothing to three turns of the loops, *)
(* memset at every alignment of a 64-byte line, memcpy at every alignment   *)
(* of its destination to 16 bytes and two of its source.                    *)
EXTENDS FillCopy

MCAddresses == 1024 .. 1087
MCCounts == 0 .. 340
MCValues == {0, 1}
MCCopied == {1024, 1031}
MCDestinations == 4096 .. 4111
=============================================================================
