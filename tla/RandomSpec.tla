----------------------------- MODULE RandomSpec -----------------------------
(***************************************************************************)
(* What random, srandom, initstate and setstate promise to a program with  *)
(* several threads: every call takes effect at one instant between its     *)
(* invocation and its return, on a collection of independent generators,   *)
(* one per state buffer, of which one is current.                          *)
(*                                                                         *)
(* A generator of degree n > 0 is the shift register of the last n outputs *)
(* of the additive recurrence                                              *)
(*                                                                         *)
(*     s[k] = s[k - n] + s[k - Separation(n)]   (mod M)                     *)
(*                                                                         *)
(* oldest first.  There are no indices, no headers, no lock and no lazy    *)
(* initialisation here: module Random shows that the code's circular       *)
(* buffers, its two running indices and the packed header implement this.  *)
(***************************************************************************)
EXTENDS RandomInterface

VARIABLES
    gen,   \* gen[b]: the generator kept in buffer b, or NoGen
    cur,   \* the current buffer
    call,  \* call[t]: the call thread t is executing, or NoCall
    res    \* res[t]: the result of t's last finished call

vars == <<gen, cur, call, res>>

SeedGen(n, seed) ==
    IF n = 0 THEN [n |-> 0, q |-> <<seed>>]
             ELSE Register(n, Separation(n), SeedWords(n, seed))

NextWord(g) ==
    IF g.n = 0 THEN lcg31(g.q[1])
               ELSE (g.q[1] + g.q[g.n + 1 - Separation(g.n)]) % M

Advance(g) == [g EXCEPT !.q = Append(Tail(g.q), NextWord(g))]

Output(g) == IF g.n = 0 THEN NextWord(g) ELSE NextWord(g) \div 2

Init ==
    /\ gen = [b \in Buffers |-> IF b = Default THEN Register(31, 3, InitialWords)
                                               ELSE NoGen]
    /\ cur = Default
    /\ call = [t \in Threads |-> NoCall]
    /\ res = [t \in Threads |-> NULL]

Invoke(t) ==
    /\ call[t] = NoCall
    /\ \E c \in Calls : call' = [call EXCEPT ![t] = c]
    /\ UNCHANGED <<gen, cur, res>>

Return(t, r) ==
    /\ call' = [call EXCEPT ![t] = NoCall]
    /\ res' = [res EXCEPT ![t] = r]

Random(t) ==
    /\ call[t].f = "random"
    /\ gen' = [gen EXCEPT ![cur] = Advance(gen[cur])]
    /\ cur' = cur
    /\ Return(t, Output(gen[cur]))

Srandom(t) ==
    /\ call[t].f = "srandom"
    /\ gen' = [gen EXCEPT ![cur] = SeedGen(gen[cur].n, call[t].seed)]
    /\ cur' = cur
    /\ Return(t, NULL)

Initstate(t) ==
    /\ call[t].f = "initstate"
    /\ call[t].size >= 8
    /\ gen' = [gen EXCEPT ![call[t].buf] =
                  SeedGen(Degree(call[t].size), call[t].seed)]
    /\ cur' = call[t].buf
    /\ Return(t, cur)

InitstateSmall(t) ==
    /\ call[t].f = "initstate"
    /\ call[t].size < 8
    /\ UNCHANGED <<gen, cur>>
    /\ Return(t, NULL)

Setstate(t) ==
    /\ call[t].f = "setstate"
    /\ gen[call[t].buf] # NoGen
    /\ cur' = call[t].buf
    /\ gen' = gen
    /\ Return(t, cur)

Finish(t) ==
    /\ call[t] # NoCall
    /\ \/ Random(t)
       \/ Srandom(t)
       \/ Initstate(t)
       \/ InitstateSmall(t)
       \/ Setstate(t)

Next == \E t \in Threads : Invoke(t) \/ Finish(t)

Spec == Init /\ [][Next]_vars
=============================================================================
