------------------------------ MODULE Tokenizer ------------------------------
(***************************************************************************)
(* strtok, strtok_r and strsep (crates/mytilus-string/src/str_search.rs):  *)
(* three calls that cut a string in place, with their position kept by the *)
(* caller (strtok_r, strsep) or in STRTOK_STATE (strtok).                  *)
(*                                                                         *)
(* The program nests two streams, the reason strtok_r exists: the outer    *)
(* one cuts a buffer, the inner one cuts each token the outer one gives.   *)
(* Either stream may use any of the calls, but strtok can serve one        *)
(* stream only.  The streams advance in any order.  The buffer is a        *)
(* function on 0 .. size with the terminator at index size, and a pointer  *)
(* into it is an index.                                                    *)
(***************************************************************************)
EXTENDS Integers, Sequences, Scan

CONSTANTS
    Chars,
    Sizes,        \* the string lengths considered
    Separators    \* terminated strings

Streams == {"outer", "inner"}

VARIABLES
    orig, size,    \* the string before the first call
    mem,           \* the string now
    api, sep,      \* api[s], sep[s]: the call stream s uses and its separators
    STRTOK_STATE,
    save,          \* save[s]: the caller's pointer for strtok_r or strsep
    region,        \* region[s]: what s was started on, <<first, behind>>, or <<>>
    got,           \* got[s]: the tokens s has returned since then
    ended          \* ended[s]: s has returned NULL since then

vars == <<orig, size, mem, api, sep, STRTOK_STATE, save, region, got, ended>>

args == <<orig, size, api, sep>>

-----------------------------------------------------------------------------
(* What a call returns, leaves in *p, and leaves in the buffer.             *)
Cut(r, p, m) == [r |-> r, p |-> p, m |-> m]

(* Mutant: the separator is left in place.                                  *)
CutAtUncutMutant(m, s, end) ==
    IF m[end] # Nul THEN Cut(s, end + 1, m) ELSE Cut(s, NULL, m)

(* A token from s to end: the separator behind it, if any, is overwritten.  *)
CutAt(m, s, end) ==
    IF m[end] # Nul THEN Cut(s, end + 1, [m EXCEPT ![end] = Nul])
                    ELSE Cut(s, NULL, m)

strsep(m, str, c) ==
    IF str = NULL THEN Cut(NULL, NULL, m) ELSE CutAt(m, str, str + strcspn(m, str, c))

strtok_r(m, s0, c, p) ==
    LET s1 == IF s0 = NULL THEN p ELSE s0
    IN  IF s1 = NULL THEN Cut(NULL, p, m)
        ELSE LET s == s1 + strspn(m, s1, c)
             IN  IF m[s] = Nul THEN Cut(NULL, NULL, m)
                 ELSE CutAt(m, s, s + strcspn(m, s, c))

-----------------------------------------------------------------------------
Init ==
    /\ size \in Sizes
    /\ orig \in {[k \in 0 .. size |-> IF k < size THEN g[k] ELSE Nul] :
                     g \in [0 .. size - 1 -> Chars]}
    /\ mem = orig
    /\ sep \in [Streams -> Separators]
    /\ api \in [Streams -> {"strtok", "strtok_r", "strsep"}]
    /\ ~(\A s \in Streams : api[s] = "strtok")
    /\ STRTOK_STATE = NULL
    /\ save = [s \in Streams |-> NULL]
    /\ region = [s \in Streams |-> <<>>]
    /\ got = [s \in Streams |-> <<>>]
    /\ ended = [s \in Streams |-> FALSE]

(* What the program keeps of a call that returned c.r.                      *)
Note(s, c, before) ==
    /\ mem' = c.m
    /\ got' = [got EXCEPT ![s] = IF c.r = NULL THEN before ELSE Append(before, c.r)]
    /\ ended' = [ended EXCEPT ![s] = c.r = NULL]

Take(s, c, before) ==
    /\ save' = [save EXCEPT ![s] = c.p]
    /\ Note(s, c, before)
    /\ UNCHANGED <<args, STRTOK_STATE>>

(* Mutant: the new position is not written back to the static.              *)
TakeHiddenMutant(s, c, before) ==
    /\ STRTOK_STATE' = IF STRTOK_STATE = NULL THEN c.p ELSE STRTOK_STATE
    /\ Note(s, c, before)
    /\ UNCHANGED <<args, save>>

TakeHidden(s, c, before) ==
    /\ STRTOK_STATE' = c.p
    /\ Note(s, c, before)
    /\ UNCHANGED <<args, save>>

(* The call that continues a stream (s0 = NULL) or starts it at s0.         *)
CallApi(s, s0, before) ==
    \/ /\ api[s] = "strtok"
       /\ TakeHidden(s, strtok_r(mem, s0, sep[s], STRTOK_STATE), before)
    \/ /\ api[s] = "strtok_r"
       /\ Take(s, strtok_r(mem, s0, sep[s], save[s]), before)
    \/ /\ api[s] = "strsep"
       /\ Take(s, strsep(mem, IF s0 = NULL THEN save[s] ELSE s0, sep[s]), before)

StartOuter ==
    /\ region["outer"] = <<>>
    /\ region' = [region EXCEPT !["outer"] = <<0, size>>]
    /\ CallApi("outer", 0, <<>>)

(* The token the outer stream gave last, by the original separators.        *)
OuterToken ==
    LET s == got["outer"][Len(got["outer"])]
    IN  <<s, Min({k \in s .. size : k = size \/ orig[k] \in Byteset(sep["outer"])})>>

StartInner ==
    /\ got["outer"] # <<>> /\ ~ended["outer"]
    /\ region["inner"] # OuterToken
    /\ region' = [region EXCEPT !["inner"] = OuterToken]
    /\ CallApi("inner", OuterToken[1], <<>>)

Continue(s) ==
    /\ region[s] # <<>>
    /\ CallApi(s, NULL, got[s])
    /\ UNCHANGED region

Next == StartOuter \/ StartInner \/ \E s \in Streams : Continue(s)

Spec == Init /\ [][Next]_vars

-----------------------------------------------------------------------------
(* Where the tokens of a region begin, as the calls document it: strtok     *)
(* skips runs of separators, strsep makes an empty token between two.       *)
Starts(s) ==
    LET lo == region[s][1]
        hi == region[s][2]
        IsSep(k) == orig[k] \in Byteset(sep[s])
    IN  IF api[s] = "strsep"
          THEN {lo} \cup {k \in lo + 1 .. hi : IsSep(k - 1)}
          ELSE {k \in lo .. hi - 1 : ~IsSep(k) /\ (k = lo \/ IsSep(k - 1))}

(* Each stream returns the tokens of what it was started on, in order and   *)
(* all of them, however the calls of the other stream fall between: up to   *)
(* the last token returned none is left out, and at the end none at all.    *)
StreamsIndependent ==
    \A s \in Streams : region[s] # <<>> =>
        LET g == got[s]
            last == g[Len(g)]
        IN  /\ \A x, y \in 1 .. Len(g) : x < y => g[x] < g[y]
            /\ {g[x] : x \in 1 .. Len(g)} =
                   {k \in Starts(s) : ended[s] \/ (g # <<>> /\ k <= last)}

(* Only separators are overwritten, and each token returned is a C string   *)
(* at once: every byte of it is what it was, and the byte behind its last   *)
(* one is the terminator and stays one, whatever the other stream does.     *)
TokensIntact ==
    /\ \A k \in 0 .. size : mem[k] # orig[k] =>
           mem[k] = Nul /\ \E s \in Streams : orig[k] \in Byteset(sep[s])
    /\ \A s \in Streams : \A x \in 1 .. Len(got[s]) :
           LET hi == region[s][2]
               b == got[s][x]
           IN  mem[Min({k \in b .. hi : k = hi \/ orig[k] \in Byteset(sep[s])})] = Nul
=============================================================================
