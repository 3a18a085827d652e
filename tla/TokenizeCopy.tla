---------------------------- MODULE TokenizeCopy ----------------------------
(***************************************************************************)
(* A program that works with strings: it makes one call of module Strings, *)
(* and when that call was strcpy or strcat it goes on to cut the copy into *)
(* tokens, in place, with the two nested streams of module Tokenizer.  The *)
(* tokenizers cut the very bytes the copy wrote: the tokenizer's buffer    *)
(* is dst, and the string before the first cut is what the copy left.      *)
(***************************************************************************)
EXTENDS Strings, Sequences

CONSTANTS
    TokenBytes,   \* bound: the size of a copy that is tokenized
    Separators    \* the separator sets, terminated strings

ASSUME TokenAssumption ==
    /\ TokenBytes \in Nat
    /\ \A o \in Separators :
          IsFiniteSet(DOMAIN o) /\ o \in [0 .. Size(o) - 1 -> 0 .. 255] /\ IsString(o)

VARIABLES api, sep, STRTOK_STATE, save, region, got, ended

tokenVars == <<api, sep, STRTOK_STATE, save, region, got, ended>>
allVars == <<vars, tokenVars>>

T == INSTANCE Tokenizer WITH orig <- dst0, mem <- dst, size <- Size(dst) - 1, Sizes <- 0 .. TokenBytes - 1

NoStream(x) == [t \in T!Streams |-> x]

CopyInit ==
    /\ Init
    /\ api = NoStream("strtok_r") /\ sep = NoStream(Blank(1, Nul))
    /\ STRTOK_STATE = NULL
    /\ save = NoStream(NULL) /\ region = NoStream(<<>>)
    /\ got = NoStream(<<>>) /\ ended = NoStream(FALSE)

CopyStep == Next /\ UNCHANGED tokenVars

(* The copy has returned: the program chooses calls and separators for its  *)
(* streams.  The locals of the copy are dead.                               *)
Adopt ==
    /\ pc = "ret" /\ f \in {"stpcpy", "strcat"}
    /\ Size(dst) <= TokenBytes
    /\ f' = "tokens" /\ Goto("tokens")
    /\ dst0' = dst /\ src' = Blank(0, Nul)
    /\ start' = 0 /\ d' = 0 /\ s' = 0 /\ res' = 0
    /\ readAt' = {} /\ readDst' = {} /\ wroteAt' = {}
    /\ sep' \in [T!Streams -> Separators]
    /\ api' \in [T!Streams -> {"strtok", "strtok_r", "strsep"}]
    /\ ~(\A t \in T!Streams : api'[t] = "strtok")
    /\ UNCHANGED <<dst, size, c, n, i, STRTOK_STATE, save, region, got, ended>>

TokenStep ==
    /\ pc = "tokens"
    /\ T!Next
    /\ UNCHANGED <<f, src, size, c, start, d, s, n, i, pc, res, readAt, readDst, wroteAt>>

AllNext == CopyStep \/ Adopt \/ TokenStep

AllSpec == CopyInit /\ [][AllNext]_allVars

-----------------------------------------------------------------------------
(* Each stream returns the tokens of what it was started on, in order and   *)
(* all of them, however the calls of the other stream fall between: strtok  *)
(* and its static, strtok_r and strsep, on a string that a copy just made.  *)
StreamsIndependent == T!StreamsIndependent

(* Only separators are overwritten, and every token returned is and stays a *)
(* C string with the bytes it had in the copy.                              *)
TokensIntact == pc = "tokens" => T!TokensIntact
=============================================================================
