------------------------------- MODULE Random -------------------------------
(***************************************************************************)
(* random, srandom, initstate and setstate of crates/mytilus-prng, called  *)
(* by several threads.                                                     *)
(*                                                                         *)
(* The shared state is the code's: the spinlock RANDOM_LOCK, the pointer   *)
(* RAND_X (lazily initialised), the statics RAND_N, RAND_I and RAND_J and  *)
(* the words of the state buffers.  RAND_X is the buffer it points one     *)
(* word into: x[-1] is hdr[b], x[k] is words[b][k].  A call runs as one    *)
(* step per group of accesses, so that two threads inside the critical     *)
(* section at once would interleave.                                       *)
(*                                                                         *)
(* A program keeps to the documented contract: initstate gets a buffer of  *)
(* at least `size' bytes, setstate a buffer initstate has initialised or   *)
(* one of the two has returned.                                            *)
(***************************************************************************)
EXTENDS RandomInterface, FiniteSets

CONSTANT MaxCalls     \* bound: the number of calls each thread makes

ASSUME MaxCallsAssumption == MaxCalls \in Nat

VARIABLES
    RANDOM_LOCK,
    RAND_X, RAND_N, RAND_I, RAND_J,
    hdr,          \* hdr[b]: the header word of buffer b
    words,        \* words[b][k]: the word x[k] of buffer b
    pc,           \* pc[t]: where thread t is
    op,           \* op[t]: the call t is executing
    loc,          \* loc[t]: the local variables of that call
    res,          \* res[t]: the result of t's last call
    calls,        \* calls[t]: how many calls t has made
    known,        \* the buffers a program may pass to setstate
    published     \* history: the generators when the lock was last free

statics == <<RAND_X, RAND_N, RAND_I, RAND_J>>
memory == <<hdr, words>>
caller == <<op, res, calls, known>>
vars == <<RANDOM_LOCK, statics, memory, pc, loc, caller, published>>

-----------------------------------------------------------------------------
Slots == 0 .. 62
Garbage == -1         \* a word of a caller's buffer nobody has written yet

(* savestate's and loadstate's header word.                                 *)
Pack(n, i, j) == n * 65536 + i * 256 + j
HeaderN(h) == h \div 65536
HeaderI(h) == (h \div 256) % 256
HeaderJ(h) == h % 256

x_ptr == IF RAND_X = NULL THEN Default ELSE RAND_X

(* The local variables of a call: x, n, i, j, v (also s) and old.           *)
Frame(x, n, i, j, v, old) == [x |-> x, n |-> n, i |-> i, j |-> j, v |-> v, old |-> old]
NoLocals == Frame(NULL, 0, 0, 0, 0, NULL)

(* The generators the memory holds: the current one under the statics, any *)
(* other under the header in its buffer.                                    *)
View ==
    [gen |-> [b \in Buffers |->
                IF b = x_ptr
                  THEN Register(RAND_N, RAND_I, words[b])
                  ELSE IF hdr[b] = Garbage
                    THEN NoGen
                    ELSE Register(HeaderN(hdr[b]), HeaderI(hdr[b]), words[b])],
     cur |-> x_ptr]

-----------------------------------------------------------------------------
Init ==
    /\ RANDOM_LOCK = 0
    /\ RAND_X = NULL
    /\ RAND_N = 31
    /\ RAND_I = 3
    /\ RAND_J = 0
    /\ hdr = [b \in Buffers |-> IF b = Default THEN 0 ELSE Garbage]
    /\ words = [b \in Buffers |-> [k \in Slots |->
                   IF b = Default /\ k < 31 THEN InitialWords[k] ELSE Garbage]]
    /\ pc = [t \in Threads |-> "idle"]
    /\ op = [t \in Threads |-> NoCall]
    /\ loc = [t \in Threads |-> NoLocals]
    /\ res = [t \in Threads |-> NULL]
    /\ calls = [t \in Threads |-> 0]
    /\ known = {}
    /\ published = View

Goto(t, from, to) == pc[t] = from /\ pc' = [pc EXCEPT ![t] = to]

(* The words of the generator a step writes.                                *)
Write(b, k, w) == words' = [words EXCEPT ![b][k] = w]

(* A thread calls one of the functions.                                     *)
Call(t) ==
    /\ Goto(t, "idle", "entry")
    /\ calls[t] < MaxCalls
    /\ calls' = [calls EXCEPT ![t] = @ + 1]
    /\ \E c \in Calls :
          /\ c.f = "setstate" => c.buf \in known
          /\ op' = [op EXCEPT ![t] = c]
    /\ UNCHANGED <<RANDOM_LOCK, statics, memory, loc, res, known, published>>

(* Back to the caller with result r.                                        *)
Return(t, from, r) ==
    /\ Goto(t, from, "idle")
    /\ op' = [op EXCEPT ![t] = NoCall]
    /\ loc' = [loc EXCEPT ![t] = NoLocals]
    /\ res' = [res EXCEPT ![t] = r]
    /\ UNCHANGED <<calls, statics, memory>>

(* initstate refuses a buffer below 8 bytes before it takes the lock.       *)
TooSmall(t) == op[t].f = "initstate" /\ op[t].size < 8

InitstateSmall(t) ==
    /\ pc[t] = "entry"
    /\ TooSmall(t)
    /\ Return(t, "entry", NULL)
    /\ UNCHANGED <<RANDOM_LOCK, known, published>>

(* Mutant: the result of the compare_exchange is ignored.                   *)
LockMutant(t) ==
    /\ pc[t] = "entry"
    /\ ~TooSmall(t)
    /\ RANDOM_LOCK' = 1
    /\ Goto(t, "entry", IF op[t].f = "random" THEN "read"
                        ELSE IF op[t].f = "srandom" THEN "seed"
                        ELSE "save")
    /\ UNCHANGED <<statics, memory, loc, caller, published>>

(* lock(): the compare_exchange that succeeds; a failed one changes nothing. *)
Lock(t) ==
    /\ pc[t] = "entry"
    /\ ~TooSmall(t)
    /\ RANDOM_LOCK = 0
    /\ RANDOM_LOCK' = 1
    /\ Goto(t, "entry", IF op[t].f = "random" THEN "read"
                        ELSE IF op[t].f = "srandom" THEN "seed"
                        ELSE "save")
    /\ UNCHANGED <<statics, memory, loc, caller, published>>

(* Mutant: a call that returns a pointer forgets to unlock.                 *)
UnlockMutant(t) ==
    /\ pc[t] = "unlock"
    /\ RANDOM_LOCK' = IF op[t].f = "setstate" \/ op[t].f = "initstate" THEN 1 ELSE 0
    /\ Return(t, "unlock", loc[t].old)
    /\ UNCHANGED known
    /\ published' = View

(* unlock() and the return of the result.                                   *)
Unlock(t) ==
    /\ pc[t] = "unlock"
    /\ RANDOM_LOCK' = 0
    /\ IF op[t].f = "random"
         THEN Return(t, "unlock", IF loc[t].n = 0 THEN loc[t].v ELSE loc[t].v \div 2)
         ELSE Return(t, "unlock", loc[t].old)
    /\ known' = known \cup (IF op[t].f = "initstate" THEN {op[t].buf} ELSE {})
                     \cup (IF op[t].f \in {"initstate", "setstate"} THEN {loc[t].old} ELSE {})
    /\ published' = View

-----------------------------------------------------------------------------
(* random: the new word is computed, stored, and the indices advance.       *)

(* Mutant: the addition does not wrap.                                      *)
NewWordWideMutant(w) == IF RAND_N = 0 THEN lcg31(w[0]) ELSE w[RAND_I] + w[RAND_J]

(* Mutant: x[i] is added to itself.                                         *)
NewWordMutant(w) == IF RAND_N = 0 THEN lcg31(w[0]) ELSE (w[RAND_I] + w[RAND_I]) % M

NewWord(w) == IF RAND_N = 0 THEN lcg31(w[0]) ELSE (w[RAND_I] + w[RAND_J]) % M

Read(t) ==
    /\ Goto(t, "read", "store")
    /\ RAND_X' = x_ptr
    /\ loc' = [loc EXCEPT ![t] = Frame(x_ptr, RAND_N, RAND_I, RAND_J,
                                       NewWord(words[x_ptr]), NULL)]
    /\ UNCHANGED <<RANDOM_LOCK, RAND_N, RAND_I, RAND_J, memory, caller, published>>

StoreLcg(t) ==
    /\ loc[t].n = 0
    /\ Goto(t, "store", "unlock")
    /\ Write(loc[t].x, 0, loc[t].v)
    /\ UNCHANGED <<RANDOM_LOCK, statics, hdr, loc, caller, published>>

Store(t) ==
    /\ loc[t].n # 0
    /\ Goto(t, "store", "advance")
    /\ Write(loc[t].x, loc[t].i, loc[t].v)
    /\ UNCHANGED <<RANDOM_LOCK, statics, hdr, loc, caller, published>>

(* Mutant: the wrap comes one step late.                                    *)
IncrementMutant(i, n) == IF i = n THEN 0 ELSE i + 1

Increment(i, n) == IF i + 1 = n THEN 0 ELSE i + 1

AdvanceIndices(t) ==
    /\ Goto(t, "advance", "unlock")
    /\ RAND_I' = Increment(loc[t].i, loc[t].n)
    /\ RAND_J' = Increment(loc[t].j, loc[t].n)
    /\ UNCHANGED <<RANDOM_LOCK, RAND_X, RAND_N, memory, loc, caller, published>>

-----------------------------------------------------------------------------
(* srandom_locked, called by srandom and by initstate: loc.v is the 64-bit  *)
(* LCG state s and loc.i the loop variable k.                               *)

AfterSeed(t) == IF op[t].f = "srandom" THEN "unlock" ELSE "resave"

SeedLcg(t) ==
    /\ RAND_N = 0
    /\ Goto(t, "seed", AfterSeed(t))
    /\ RAND_X' = x_ptr
    /\ Write(x_ptr, 0, op[t].seed)
    /\ UNCHANGED <<RANDOM_LOCK, RAND_N, RAND_I, RAND_J, hdr, loc, caller, published>>

SeedStart(t) ==
    /\ RAND_N # 0
    /\ Goto(t, "seed", "fill")
    /\ RAND_X' = x_ptr
    /\ RAND_I' = Separation(RAND_N)
    /\ RAND_J' = 0
    /\ loc' = [loc EXCEPT ![t] =
                  Frame(x_ptr, RAND_N, 0, 0, op[t].seed, loc[t].old)]
    /\ UNCHANGED <<RANDOM_LOCK, RAND_N, memory, caller, published>>

SeedFill(t) ==
    /\ loc[t].i < loc[t].n
    /\ Goto(t, "fill", "fill")
    /\ Write(loc[t].x, loc[t].i, HighWord(lcg64(loc[t].v)))
    /\ loc' = [loc EXCEPT ![t] = Frame(@.x, @.n, @.i + 1, 0, lcg64(@.v), @.old)]
    /\ UNCHANGED <<RANDOM_LOCK, statics, hdr, caller, published>>

SeedOdd(t) ==
    /\ loc[t].i = loc[t].n
    /\ Goto(t, "fill", AfterSeed(t))
    /\ Write(loc[t].x, 0, MakeOdd(words[loc[t].x][0]))
    /\ UNCHANGED <<RANDOM_LOCK, statics, hdr, loc, caller, published>>

-----------------------------------------------------------------------------
(* initstate and setstate.                                                  *)

savestate ==
    /\ RAND_X' = x_ptr
    /\ hdr' = [hdr EXCEPT ![x_ptr] = Pack(RAND_N, RAND_I, RAND_J)]

SaveOld(t) ==
    /\ Goto(t, "save", IF op[t].f = "initstate" THEN "switch" ELSE "load")
    /\ savestate
    /\ loc' = [loc EXCEPT ![t] = Frame(NULL, 0, 0, 0, 0, x_ptr)]
    /\ UNCHANGED <<RANDOM_LOCK, RAND_N, RAND_I, RAND_J, words, caller, published>>

Switch(t) ==
    /\ Goto(t, "switch", "seed")
    /\ RAND_N' = Degree(op[t].size)
    /\ RAND_X' = op[t].buf
    /\ UNCHANGED <<RANDOM_LOCK, RAND_I, RAND_J, memory, loc, caller, published>>

SaveNew(t) ==
    /\ Goto(t, "resave", "unlock")
    /\ savestate
    /\ UNCHANGED <<RANDOM_LOCK, RAND_N, RAND_I, RAND_J, words, loc, caller, published>>

(* Mutant: the two indices change places.                                   *)
loadstateMutant(b) ==
    /\ RAND_X' = b
    /\ RAND_N' = HeaderN(hdr[b])
    /\ RAND_I' = HeaderJ(hdr[b])
    /\ RAND_J' = HeaderI(hdr[b])

loadstate(b) ==
    /\ RAND_X' = b
    /\ RAND_N' = HeaderN(hdr[b])
    /\ RAND_I' = HeaderI(hdr[b])
    /\ RAND_J' = HeaderJ(hdr[b])

Load(t) ==
    /\ Goto(t, "load", "unlock")
    /\ loadstate(op[t].buf)
    /\ UNCHANGED <<RANDOM_LOCK, memory, loc, caller, published>>

-----------------------------------------------------------------------------
Locked(t) ==
    \/ Read(t) \/ StoreLcg(t) \/ Store(t) \/ AdvanceIndices(t)
    \/ SeedLcg(t) \/ SeedStart(t) \/ SeedFill(t) \/ SeedOdd(t)
    \/ SaveOld(t) \/ Switch(t) \/ SaveNew(t) \/ Load(t)
    \/ Unlock(t)

Step(t) == InitstateSmall(t) \/ Lock(t) \/ Locked(t)

(* Every thread has made its MaxCalls calls.                                *)
Done ==
    /\ \A t \in Threads : pc[t] = "idle" /\ calls[t] = MaxCalls
    /\ UNCHANGED vars

Next == (\E t \in Threads : Call(t) \/ Step(t)) \/ Done

Spec == Init /\ [][Next]_vars

(* A thread that is inside a function is scheduled again and again.         *)
Fairness == \A t \in Threads : WF_vars(Step(t))
FairSpec == Spec /\ Fairness

-----------------------------------------------------------------------------
CriticalSection ==
    {"read", "store", "advance", "seed", "fill", "save", "resave", "switch", "load", "unlock"}
Labels == {"idle", "entry"} \cup CriticalSection

Locals == [x : Buffers \cup {NULL}, n : Degrees, i : 0 .. 63, j : 0 .. 62,
           v : DoubleWord, old : Buffers \cup {NULL}]

(* Type invariant.                                                          *)
TypeOK ==
    /\ RANDOM_LOCK \in {0, 1}
    /\ RAND_X \in Buffers \cup {NULL}
    /\ RAND_N \in Degrees
    /\ RAND_I \in 0 .. 62
    /\ RAND_J \in 0 .. 62
    /\ hdr \in [Buffers -> Nat \cup {Garbage}]
    /\ words \in [Buffers -> [Slots -> Word \cup {Garbage}]]
    /\ pc \in [Threads -> Labels]
    /\ op \in [Threads -> Calls \cup {NoCall}]
    /\ loc \in [Threads -> Locals]
    /\ calls \in [Threads -> 0 .. MaxCalls]
    /\ known \subseteq Buffers

(* lock and unlock: the two statics and the buffers have one user at a time. *)
MutualExclusion ==
    \A t, u \in Threads :
        pc[t] \in CriticalSection /\ pc[u] \in CriticalSection => t = u

(* The header or the statics (n, i, j) of a generator: where the header is  *)
(* stale (the current buffer) the statics count.                            *)
Live(b) == b = x_ptr \/ hdr[b] # Garbage
GenN(b) == IF b = x_ptr THEN RAND_N ELSE HeaderN(hdr[b])
GenI(b) == IF b = x_ptr THEN RAND_I ELSE HeaderI(hdr[b])
GenJ(b) == IF b = x_ptr THEN RAND_J ELSE HeaderJ(hdr[b])

(* Whenever the lock is free, every generator, the current one and every    *)
(* one parked in a buffer by savestate, has both indices inside its n words *)
(* and RAND_I exactly Separation(n) ahead of RAND_J, around the end of the  *)
(* circle: the two `if i + 1 == n' wraps of random never drift apart, and   *)
(* packing and unpacking the header loses nothing.                          *)
LagPreserved ==
    RANDOM_LOCK = 0 =>
        \A b \in Buffers : Live(b) /\ GenN(b) # 0 =>
            /\ GenI(b) \in 0 .. GenN(b) - 1
            /\ GenJ(b) \in 0 .. GenN(b) - 1
            /\ GenI(b) = (GenJ(b) + Separation(GenN(b))) % GenN(b)

(* srandom_locked makes x[0] odd ("Make sure x contains at least one odd    *)
(* number"); an additive generator whose words are all even stays even, so  *)
(* whenever the lock is free every generator must still have an odd word,   *)
(* whatever calls have been made since it was seeded.                       *)
SomeOddWord ==
    RANDOM_LOCK = 0 =>
        \A b \in Buffers : Live(b) /\ GenN(b) # 0 =>
            \E k \in 0 .. GenN(b) - 1 : words[b][k] \in Word /\ Odd(words[b][k])

(* Every word a later random would read has been written by seeding (or is  *)
(* RANDOM_INIT's): no generator reads the caller's uninitialised memory.    *)
LiveWordsInitialised ==
    RANDOM_LOCK = 0 =>
        \A b \in Buffers : Live(b) =>
            \A k \in Slots : k = 0 \/ k < GenN(b) => words[b][k] \in Word

(* No function ever writes a word that does not lie wholly inside the bytes *)
(* of the buffer, at whatever size initstate was told.                      *)
WritesInBounds ==
    \A b \in Buffers : \A k \in Slots :
        4 * (k + 2) > Bytes[b] => words[b][k] = Garbage

(* Memory safety: between calls no generator stands on a word nobody wrote, *)
(* and never has a word behind the end of a buffer been written.            *)
MemorySafe == LiveWordsInitialised /\ WritesInBounds

(* The four functions implement the atomic generators of RandomSpec: every  *)
(* unlock is one atomic call, every other step is invisible.                *)
A == INSTANCE RandomSpec WITH gen <- published.gen, cur <- published.cur, call <- op
ImplementsRandomSpec == A!Spec

(* With finitely many calls every call returns: no path through the         *)
(* functions leaves the lock behind and no thread spins for ever.           *)
EveryCallReturns == \A t \in Threads : pc[t] # "idle" ~> pc[t] = "idle"

=============================================================================
