-------------------------------- MODULE Sleep --------------------------------
(***************************************************************************)
(* sleep and usleep (crates/mytilus-unistd) over nanosleep and             *)
(* clock_nanosleep (crates/mytilus-time), interrupted by signals, and the  *)
(* programs that call them again for what is left:                         *)
(*                                                                         *)
(*     while (n = sleep(n));                                               *)
(*     while (nanosleep(&tv, &tv) == -1 && errno == EINTR);                *)
(*     while (clock_nanosleep(clk, TIMER_ABSTIME, &tv, 0) == EINTR);       *)
(*     usleep(us);                                                         *)
(*                                                                         *)
(* The program looks at its clocks before and after.  Time is that of the  *)
(* kernel's timer, in units of tv_nsec; CLOCK_REALTIME is wall ahead of it *)
(* and may be set while the program sleeps.                                *)
(***************************************************************************)
EXTENDS Errno

CONSTANTS
    Micro,       \* microseconds in a second
    NsPerUs,     \* nanoseconds in a microsecond
    Seconds,     \* what programs ask of sleep
    Useconds,    \* what programs ask of usleep
    Timespecs,   \* what programs ask of nanosleep and clock_nanosleep
    Epochs,      \* what CLOCK_REALTIME shows at first and may be set to
    MaxSignals   \* bound: the signals that arrive

ASSUME UnitsAssumption == Micro \in Nat \ {0} /\ NsPerUs \in Nat \ {0}
ASSUME RequestsAssumption ==
    /\ Seconds \subseteq Nat /\ Useconds \subseteq Nat
    /\ Timespecs \subseteq [sec : Nat, nsec : Nat] /\ Epochs \subseteq Nat
ASSUME SignalsAssumption == MaxSignals \in Nat

VARIABLES
    pc,
    fn,       \* the function the program loops over
    clk,      \* "realtime" or the clock given to clock_nanosleep
    tv,       \* the timespec: both req and rem
    rem,      \* what the kernel's timer has left
    raw,      \* the result of the system call
    got,      \* the result of the function
    errno,
    asked,    \* history: what the program asked for at first
    now,      \* history: the time that has passed since then
    signals,  \* history: the signals that have interrupted
    wall,     \* CLOCK_REALTIME less now
    began     \* history: CLOCK_REALTIME at first

clocks == <<wall, began>>
vars == <<pc, fn, clk, tv, rem, raw, got, errno, asked, now, signals, clocks>>

K == Micro * NsPerUs
Ticks(t) == t.sec * K + t.nsec
Timespec(ticks) == [sec |-> ticks \div K, nsec |-> ticks % K]
Valid(t) == t.nsec < K

(* The timespec sleep and usleep build.                                     *)
OfSeconds(n) == [sec |-> n, nsec |-> 0]

OfUseconds(us) == [sec |-> us \div Micro, nsec |-> (us % Micro) * NsPerUs]

(* What programs ask for, in ticks, and the arguments they make of it.      *)
Request(f, k, t, ticks) == [fn |-> f, clk |-> k, tv |-> t, asked |-> ticks]

Requests ==
    {Request("sleep", "realtime", OfSeconds(n), n * K) : n \in Seconds}
        \cup {Request("usleep", "realtime", OfUseconds(us), us * NsPerUs) : us \in Useconds}
        \cup {Request("nanosleep", "realtime", t, Ticks(t)) : t \in Timespecs}
        \cup {Request("clock_nanosleep", k, t, Ticks(t)) :
                  k \in {"monotonic", "thread_cputime"}, t \in Timespecs}

Init ==
    /\ \E r \in Requests : fn = r.fn /\ clk = r.clk /\ tv = r.tv /\ asked = r.asked
    /\ pc = "clock_nanosleep"
    /\ rem = 0 /\ raw = 0 /\ got = 0 /\ errno = 0 /\ now = 0 /\ signals = 0
    /\ wall \in Epochs /\ began = wall

-----------------------------------------------------------------------------
(* Mutant: the clock is refused with the wrong error.                       *)
RefuseClockMutant ==
    /\ pc = "clock_nanosleep"
    /\ clk = "thread_cputime"
    /\ raw' = -EINTR
    /\ pc' = "return"
    /\ UNCHANGED <<fn, clk, tv, rem, got, errno, asked, now, signals, clocks>>

(* __clock_nanosleep refuses the thread's own CPU clock.                    *)
RefuseClock ==
    /\ pc = "clock_nanosleep"
    /\ clk = "thread_cputime"
    /\ raw' = -EINVAL
    /\ pc' = "return"
    /\ UNCHANGED <<fn, clk, tv, rem, got, errno, asked, now, signals, clocks>>

(* The system call: the timespec is read before anything is written to it.  *)
(* clock_nanosleep is called with a deadline, the others with a duration.   *)
Enter ==
    /\ pc = "clock_nanosleep"
    /\ clk # "thread_cputime"
    /\ IF Valid(tv)
         THEN /\ rem' = IF fn = "clock_nanosleep"
                          THEN IF Ticks(tv) > now THEN Ticks(tv) - now ELSE 0
                          ELSE Ticks(tv)
              /\ raw' = 0
              /\ pc' = "kernel"
         ELSE /\ raw' = -EINVAL
              /\ pc' = "return"
              /\ UNCHANGED rem
    /\ UNCHANGED <<fn, clk, tv, got, errno, asked, now, signals, clocks>>

Tick ==
    /\ pc = "kernel"
    /\ rem > 0
    /\ rem' = rem - 1
    /\ now' = now + 1
    /\ UNCHANGED <<pc, fn, clk, tv, raw, got, errno, asked, signals, clocks>>

Expire ==
    /\ pc = "kernel"
    /\ rem = 0
    /\ pc' = "return"
    /\ UNCHANGED <<fn, clk, tv, rem, raw, got, errno, asked, now, signals, clocks>>

(* A signal: what is left of a duration is written to rem.                  *)
Interrupt ==
    /\ pc = "kernel"
    /\ rem > 0
    /\ signals < MaxSignals
    /\ signals' = signals + 1
    /\ raw' = -EINTR
    /\ tv' = IF fn = "clock_nanosleep" THEN tv ELSE Timespec(rem)
    /\ pc' = "return"
    /\ UNCHANGED <<fn, clk, rem, got, errno, asked, now, clocks>>

-----------------------------------------------------------------------------
(* The clocks, when the timer shows t and CLOCK_REALTIME is w ahead of it.  *)
clock_gettime(clock, t, w) == Timespec(IF clock = "realtime" THEN w + t ELSE t)

(* Mutant: microseconds are rounded up.                                     *)
gettimeofdayMutant(t, w) ==
    LET ts == clock_gettime("realtime", t, w)
    IN  [sec |-> ts.sec, usec |-> (ts.nsec + NsPerUs - 1) \div NsPerUs]

gettimeofday(t, w) ==
    LET ts == clock_gettime("realtime", t, w) IN [sec |-> ts.sec, usec |-> ts.nsec \div NsPerUs]

time(t, w) == clock_gettime("realtime", t, w).sec

(* Somebody sets CLOCK_REALTIME during the sleep.                           *)
clock_settime ==
    /\ pc = "kernel"
    /\ wall = began
    /\ \E e \in Epochs : wall' = e - now
    /\ UNCHANGED <<pc, fn, clk, tv, rem, raw, got, errno, asked, now, signals, began>>

-----------------------------------------------------------------------------
(* clock_nanosleep returns the error itself.                                *)
ReturnClock ==
    /\ pc = "return"
    /\ fn = "clock_nanosleep"
    /\ got' = -raw
    /\ pc' = "caller"
    /\ UNCHANGED <<fn, clk, tv, rem, raw, errno, asked, now, signals, clocks>>

(* Mutant: nanosleep returns the error itself.                              *)
nanosleepMutant == -raw

(* nanosleep turns it back into -1 and errno (ret).                         *)
nanosleep == RetValue(raw)

ReturnNanosleep ==
    /\ pc = "return"
    /\ fn \in {"nanosleep", "usleep"}
    /\ got' = nanosleep
    /\ errno' = RetErrno(raw, errno)
    /\ pc' = "caller"
    /\ UNCHANGED <<fn, clk, tv, rem, raw, asked, now, signals, clocks>>

(* Mutant: sleep reports an interruption like usleep does.                  *)
LeftDroppedMutant == 0

(* sleep's result: the whole seconds that are left.                         *)
Left == IF nanosleep # 0 THEN tv.sec ELSE 0

ReturnSleep ==
    /\ pc = "return"
    /\ fn = "sleep"
    /\ got' = Left
    /\ errno' = RetErrno(raw, errno)
    /\ pc' = "caller"
    /\ UNCHANGED <<fn, clk, tv, rem, raw, asked, now, signals, clocks>>

-----------------------------------------------------------------------------
Unfinished ==
    \/ fn = "sleep" /\ got # 0
    \/ fn = "nanosleep" /\ got = -1 /\ errno = EINTR
    \/ fn = "clock_nanosleep" /\ got = EINTR

(* The program calls again with what it was told is left.                   *)
Retry ==
    /\ pc = "caller"
    /\ Unfinished
    /\ pc' = "clock_nanosleep"
    /\ tv' = IF fn = "sleep" THEN OfSeconds(got) ELSE tv
    /\ UNCHANGED <<fn, clk, rem, raw, got, errno, asked, now, signals, clocks>>

End ==
    /\ pc = "caller"
    /\ ~Unfinished
    /\ pc' = "ended"
    /\ UNCHANGED <<fn, clk, tv, rem, raw, got, errno, asked, now, signals, clocks>>

Done == pc = "ended" /\ UNCHANGED vars

Step ==
    \/ RefuseClock \/ Enter \/ Tick \/ Expire
    \/ ReturnClock \/ ReturnNanosleep \/ ReturnSleep
    \/ Retry \/ End

Next == Step \/ Interrupt \/ clock_settime \/ Done

Spec == Init /\ [][Next]_vars

(* The timer runs and the program is scheduled; no signal ever has to come. *)
FairSpec == Spec /\ WF_vars(Step)

-----------------------------------------------------------------------------
(* sleep drops the fraction of a second at every interruption, so its loop  *)
(* may end early, but by less than a second for each signal; passing the    *)
(* same timespec as req and rem, it never waits longer than it was asked.   *)
ShortfallBounded ==
    /\ now <= asked
    /\ pc = "ended" /\ fn = "sleep" => asked - now <= signals * (K - 1)

(* The loops over nanosleep and clock_nanosleep lose nothing: they end with *)
(* the whole time waited unless the request was refused, and usleep does    *)
(* unless it was interrupted, whatever CLOCK_REALTIME is set to meanwhile.  *)
WholeTimeWaited ==
    pc = "ended" =>
        \/ now = asked
        \/ fn = "sleep"
        \/ fn = "usleep" /\ errno = EINTR
        \/ fn = "nanosleep" /\ errno = EINVAL
        \/ fn = "clock_nanosleep" /\ got = EINVAL

(* What a program measures is what it waited: to the unit on the monotonic  *)
(* clock, to less than a microsecond by gettimeofday and less than a second *)
(* by time while nobody sets the clock; gettimeofday and time never show    *)
(* different seconds, and tv_usec never a whole one.                        *)
ElapsedMeasured ==
    LET tod == gettimeofday(now, wall)
        tod0 == gettimeofday(0, began)
        us == (tod.sec - tod0.sec) * Micro + (tod.usec - tod0.usec)
    IN  /\ Ticks(clock_gettime("monotonic", now, wall)) = now
        /\ tod.usec \in 0 .. Micro - 1 /\ tod.sec = time(now, wall)
        /\ wall = began =>
              /\ us * NsPerUs - now \in -(NsPerUs - 1) .. NsPerUs - 1
              /\ (time(now, wall) - time(0, began)) * K - now \in -(K - 1) .. K - 1

(* When signals stop arriving every loop ends.                              *)
LoopEnds == <>(pc = "ended")
=============================================================================
