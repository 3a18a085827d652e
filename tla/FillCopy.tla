------------------------------- MODULE FillCopy -------------------------------
(***************************************************************************)
(* A program that fills a buffer with memset and copies it elsewhere with  *)
(* memcpy, the two assembly routines of the target.  memcpy's source is    *)
(* the buffer memset was given; the registers of the first call are dead   *)
(* in the second.                                                          *)
(***************************************************************************)
EXTENDS Memset

CONSTANTS
    Copied,       \* the buffers that are copied on
    Destinations  \* where to
ASSUME CopiesAssumption == Copied \subseteq Addresses /\ Destinations \subseteq Nat

VARIABLES to, csrc, cdst, ccount, A, B, C, D, cpc, loads, copies

copyVars == <<to, csrc, cdst, ccount, A, B, C, D, cpc, loads, copies>>
allVars == <<vars, copyVars>>

M == INSTANCE Memcpy WITH
        src0 <- dstin, dstin <- to, src <- csrc, dst <- cdst, count <- ccount, pc <- cpc

AllInit ==
    /\ Init
    /\ to = 0 /\ csrc = 0 /\ cdst = 0 /\ ccount = 0
    /\ A = 0 /\ B = 0 /\ C = 0 /\ D = 0
    /\ cpc = "idle" /\ loads = {} /\ copies = {}

FillStep == Next /\ pc # "ret" /\ UNCHANGED copyVars

(* The call of memcpy, for the buffers that are copied on.  memcpy has no    *)
(* part in dc zva: the buffers filled with zva64 set are enough.            *)
Copy ==
    /\ pc = "ret" /\ cpc = "idle" /\ dstin \in Copied /\ zva64
    /\ to' \in {d \in Destinations : dstin + count0 <= d \/ d + count0 <= dstin}
    /\ csrc' = dstin /\ ccount' = count0 /\ cpc' = "memcpy"
    /\ UNCHANGED <<vars, cdst, A, B, C, D, loads, copies>>

CopyStep == cpc # "idle" /\ cpc # "ret" /\ UNCHANGED vars /\ M!Next

AllDone == pc = "ret" /\ cpc \in {"idle", "ret"} /\ UNCHANGED allVars

AllNext == FillStep \/ Copy \/ CopyStep \/ AllDone

AllSpec == AllInit /\ [][AllNext]_allVars

-----------------------------------------------------------------------------
(* memcpy's contract, on the buffer memset filled.                          *)
CopiedExactly == cpc # "idle" => M!CopiedExactly
=============================================================================
