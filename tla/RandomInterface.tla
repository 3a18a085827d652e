-------------------------- MODULE RandomInterface --------------------------
(***************************************************************************)
(* The parameters and the calls that the atomic generator (RandomSpec) and *)
(* the code's locked one (Random) have in common.                          *)
(***************************************************************************)
EXTENDS LaggedFibonacci

CONSTANTS
    Threads,
    Buffers,      \* the state buffers, RANDOM_INIT among them
    Default,      \* the static buffer RANDOM_INIT
    NULL,         \* the null pointer initstate returns for a small buffer
    NoGen,        \* the content of a buffer that holds no generator yet
    NoCall,       \* a thread outside the four functions
    Seeds,        \* the seeds callers use
    Sizes,        \* the sizes callers pass to initstate
    Bytes,        \* Bytes[b]: how many bytes buffer b really has
    InitialWords  \* x[0] .. x[30] of RANDOM_INIT

ASSUME DefaultAssumption == Default \in Buffers /\ NULL \notin Buffers
ASSUME CallerAssumption ==
    /\ Seeds \subseteq Word
    /\ Sizes \subseteq Nat
    /\ Bytes \in [Buffers -> Nat]
    /\ Bytes[Default] = 128
ASSUME InitialWordsAssumption ==
    /\ InitialWords \in [0 .. 30 -> Word]
    /\ \E k \in 0 .. 30 : Odd(InitialWords[k])

(* The calls a program may make: initstate gets a buffer of the program's   *)
(* own that has at least the given size.                                    *)
InitstateCalls ==
    {c \in [f : {"initstate"}, seed : Seeds, buf : Buffers \ {Default}, size : Sizes] :
        c.size <= Bytes[c.buf]}

Calls == [f : {"random"}]
            \cup [f : {"srandom"}, seed : Seeds]
            \cup InitstateCalls
            \cup [f : {"setstate"}, buf : Buffers]

(* The two markers are told apart from what they stand beside.              *)
ASSUME MarkerAssumption ==
    /\ NoCall \notin Calls
    /\ NoGen \notin [n : Degrees, q : Seq(Word)]
=============================================================================
