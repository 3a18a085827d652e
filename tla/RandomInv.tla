------------------------------ MODULE RandomInv ------------------------------
(***************************************************************************)
(* The inductive invariant behind the safety properties of module Random:  *)
(* what the lock holder may rely on at each point of its critical section. *)
(***************************************************************************)
EXTENDS Random

(* A generator of degree n, with its header, fits the bytes of buffer b.    *)
Fits(b, n) == 4 * (n + 1) <= Bytes[b] /\ 8 <= Bytes[b]

(* LagPreserved without the remainder: i is Separation(n) ahead of j.       *)
GoodIndices(n, i, j) ==
    n # 0 => /\ i < n
             /\ j < n
             /\ i = j + Separation(n) \/ i = j + Separation(n) - n

GoodWords(n, w) ==
    /\ w[0] \in Word
    /\ \A k \in 0 .. n - 1 : w[k] \in Word
    /\ n # 0 => \E k \in 0 .. n - 1 : Odd(w[k])

GoodGen(b, n, i, j) ==
    /\ n \in Degrees
    /\ i \in 0 .. 62
    /\ j \in 0 .. 62
    /\ Fits(b, n)
    /\ GoodIndices(n, i, j)
    /\ GoodWords(n, words[b])

LockInv ==
    /\ RANDOM_LOCK = 0 => \A t \in Threads : pc[t] \notin CriticalSection
    /\ MutualExclusion

(* Which call a thread can be executing at each label.                      *)
OpInv ==
    \A t \in Threads :
        /\ pc[t] # "idle" => op[t] \in Calls
        /\ pc[t] \in {"read", "store", "advance"} => op[t].f = "random"
        /\ pc[t] \in {"seed", "fill"} => op[t].f \in {"srandom", "initstate"}
        /\ pc[t] = "save" => op[t].f \in {"initstate", "setstate"}
        /\ pc[t] \in {"switch", "resave"} => op[t].f = "initstate"
        /\ pc[t] = "load" => op[t].f = "setstate"
        /\ pc[t] \in CriticalSection => ~TooSmall(t)
        /\ pc[t] # "idle" /\ op[t].f = "setstate" => op[t].buf \in known

(* The current buffer has no whole generator between initstate's switch and *)
(* the end of seeding, nor while srandom refills it.                        *)
Reseeding(t) == pc[t] = "fill" \/ (pc[t] = "seed" /\ op[t].f = "initstate")

ActiveInv ==
    /\ Fits(x_ptr, RAND_N)
    /\ (\A t \in Threads : ~Reseeding(t)) => GoodGen(x_ptr, RAND_N, RAND_I, RAND_J)

ParkedInv ==
    \A b \in Buffers : b # x_ptr /\ hdr[b] # Garbage =>
        GoodGen(b, HeaderN(hdr[b]), HeaderI(hdr[b]), HeaderJ(hdr[b]))

KnownInv == \A b \in known : hdr[b] # Garbage

(* What the lock holder's local variables have to do with the statics.      *)
LocalInv(t) ==
    /\ pc[t] \in {"store", "advance"} =>
          /\ loc[t].x = x_ptr
          /\ loc[t].n = RAND_N
          /\ loc[t].i = RAND_I
          /\ loc[t].j = RAND_J
    /\ pc[t] = "store" => loc[t].v = NewWord(words[x_ptr])
    /\ pc[t] = "advance" => RAND_N # 0
    /\ pc[t] = "fill" =>
          /\ loc[t].x = x_ptr
          /\ loc[t].n = RAND_N
          /\ RAND_N # 0
          /\ loc[t].i <= loc[t].n
          /\ RAND_I = Separation(RAND_N)
          /\ RAND_J = 0
          /\ \A k \in 0 .. loc[t].i - 1 : words[x_ptr][k] \in Word
    /\ pc[t] \in {"switch", "load"} => hdr[x_ptr] = Pack(RAND_N, RAND_I, RAND_J)
    /\ pc[t] \in {"seed", "fill", "resave"} /\ op[t].f = "initstate" => RAND_X = op[t].buf
    /\ /\ pc[t] \in {"switch", "load", "seed", "fill", "resave", "unlock"}
       /\ op[t].f \in {"initstate", "setstate"}
       => loc[t].old \in Buffers /\ hdr[loc[t].old] # Garbage
    /\ pc[t] = "unlock" /\ op[t].f = "initstate" => hdr[op[t].buf] # Garbage

LocalsInv == \A t \in Threads : LocalInv(t)

(* The inductive invariant.                                                 *)
Inv ==
    /\ TypeOK
    /\ LockInv
    /\ OpInv
    /\ ActiveInv
    /\ ParkedInv
    /\ KnownInv
    /\ LocalsInv
    /\ WritesInBounds

-----------------------------------------------------------------------------
(* What the refinement of RandomSpec needs besides: how far the generators  *)
(* in memory have moved from the published ones at each label.              *)

(* The current generator is not the published one any more.                 *)
Moved(t) == Reseeding(t) \/ pc[t] \in {"advance", "resave", "unlock"}

(* Nobody ever touches a parked generator; the current one is touched only  *)
(* between the first store of a call and its unlock.                        *)
ParkedKept == \A b \in Buffers : b # x_ptr => View.gen[b] = published.gen[b]

PublishedInv ==
    /\ published = [gen |-> [b \in Buffers |-> published.gen[b]], cur |-> published.cur]
    /\ ParkedKept
    /\ (\A t \in Threads : ~Moved(t)) => published = View

(* The states of lcg64 in the loop of srandom_locked.                       *)
FillInv(t) ==
    LET s == SeedStates(RAND_N, op[t].seed)
    IN  /\ loc[t].v = s[loc[t].i]
        /\ \A k \in 0 .. loc[t].i - 1 : words[x_ptr][k] = HighWord(s[k + 1])

(* The atomic call that the unlock of t will make visible.                  *)
Effect(t) ==
    LET old == published.gen[published.cur]
    IN  /\ op[t].f = "random" =>
              /\ View.gen[x_ptr] = A!Advance(old)
              /\ (IF loc[t].n = 0 THEN loc[t].v ELSE loc[t].v \div 2) = A!Output(old)
        /\ op[t].f = "srandom" => View.gen[x_ptr] = A!SeedGen(old.n, op[t].seed)
        /\ op[t].f = "initstate" =>
              /\ x_ptr = op[t].buf
              /\ View.gen[x_ptr] = A!SeedGen(Degree(op[t].size), op[t].seed)
        /\ op[t].f = "setstate" =>
              /\ x_ptr = op[t].buf
              /\ View.gen[x_ptr] = published.gen[x_ptr]

ProgressInv(t) ==
    /\ pc[t] = "idle" => op[t] = NoCall
    /\ pc[t] \in {"idle", "entry"} => loc[t].old = NULL
    /\ pc[t] \in CriticalSection =>
          IF op[t].f \in {"random", "srandom"} \/ pc[t] = "save"
            THEN loc[t].old = NULL /\ x_ptr = published.cur
            ELSE loc[t].old = published.cur
    /\ pc[t] = "advance" =>
          LET g == published.gen[x_ptr]
          IN  /\ g = [n |-> RAND_N, q |-> [k \in 1 .. RAND_N |-> g.q[k]]]
              /\ View.gen[x_ptr].q = [g.q EXCEPT ![1] = A!NextWord(g)]
              /\ loc[t].v = A!NextWord(g)
    /\ pc[t] \in {"seed", "fill"} /\ op[t].f = "srandom" => published.gen[x_ptr].n = RAND_N
    /\ pc[t] \in {"seed", "fill", "resave"} /\ op[t].f = "initstate" => RAND_N = Degree(op[t].size)
    /\ pc[t] = "fill" => FillInv(t)
    /\ pc[t] = "resave" => View.gen[x_ptr] = A!SeedGen(RAND_N, op[t].seed)
    /\ pc[t] = "unlock" => Effect(t)

RefInv == PublishedInv /\ \A t \in Threads : ProgressInv(t)
=============================================================================
