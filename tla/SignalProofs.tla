---------------------------- MODULE SignalProofs ----------------------------
(***************************************************************************)
(* What signals meet in the library.                                       *)
(*                                                                         *)
(* The loops over sleep, usleep, nanosleep and clock_nanosleep wait what   *)
(* they were asked to, for every request, any number of signals, and       *)
(* seconds and microseconds of every length; and what a program reads from *)
(* the clocks agrees with it.                                              *)
(*                                                                         *)
(* The bits of a sigset_t are the set, after any number of calls on any    *)
(* number of objects, and no reserved signal gets into a set built by the  *)
(* library, for ints of every width.                                       *)
(***************************************************************************)
EXTENDS Sleep, Sigset, TLAPS

Functions == {"sleep", "usleep", "nanosleep", "clock_nanosleep"}

TypeInv ==
    /\ pc \in {"clock_nanosleep", "kernel", "return", "caller", "ended"}
    /\ fn \in Functions /\ (fn # "clock_nanosleep" => clk # "thread_cputime")
    /\ tv \in [sec : Nat, nsec : Nat] /\ rem \in Nat
    /\ raw \in {0, -EINVAL, -EINTR}
    /\ got \in Int /\ errno \in Int
    /\ asked \in Nat /\ now \in Nat /\ signals \in Nat
    /\ wall \in Int /\ began \in Nat

Back == pc \in {"return", "caller", "ended"}

(* What is still to be waited when nobody interrupts any more.              *)
Ahead == IF pc = "kernel" THEN rem ELSE IF Back /\ raw = 0 THEN 0 ELSE Ticks(tv)

(* What the signals so far may have cost sleep.                             *)
Lost == signals * (K - 1)

(* The functions that are given a duration.  sleep has not yet dropped the  *)
(* fraction when it returns from an interruption.                           *)
DurationInv ==
    fn # "clock_nanosleep" =>
        /\ fn # "nanosleep" => Valid(tv) /\ raw # -EINVAL
        /\ fn = "sleep" => /\ pc = "clock_nanosleep" => tv.nsec = 0
                           /\ now + Ahead <= asked /\ asked <= now + Ahead + Lost
                           /\ Back /\ raw = -EINTR => asked + (K - 1) <= now + Ahead + Lost
        /\ fn # "sleep" => now + Ahead = asked

(* The one that is given a deadline.                                        *)
DeadlineInv ==
    fn = "clock_nanosleep" =>
        /\ Ticks(tv) = asked /\ now <= asked
        /\ pc = "kernel" => now + rem = asked
        /\ Back /\ raw = 0 => now = asked

(* What the program is told.                                                *)
ResultInv ==
    /\ pc = "kernel" => raw = 0
    /\ pc \in {"caller", "ended"} =>
          /\ fn = "clock_nanosleep" => got + raw = 0
          /\ fn \in {"nanosleep", "usleep"} => /\ got = IF raw = 0 THEN 0 ELSE -1
                                               /\ raw # 0 => errno + raw = 0
          /\ fn = "sleep" => got = IF raw = 0 THEN 0 ELSE tv.sec
    /\ pc = "ended" => ~Unfinished

Inv == TypeInv /\ DurationInv /\ DeadlineInv /\ ResultInv

-----------------------------------------------------------------------------
(* A second has at least one unit.                                          *)
LEMMA Units == K \in Nat /\ K > 0 /\ Micro \in Nat /\ Micro > 0 /\ NsPerUs \in Nat /\ NsPerUs > 0
<1>1. Micro \in Nat /\ Micro > 0 /\ NsPerUs \in Nat /\ NsPerUs > 0
  BY UnitsAssumption
<1>2. \A m, n \in Nat : m > 0 /\ n > 0 => m * n \in Nat /\ m * n > 0
  OBVIOUS
<1> QED BY <1>1, <1>2 DEF K

(* Division with remainder, and what it makes of a time.                    *)
LEMMA Division ==
    ASSUME NEW x \in Int, NEW m \in Nat, m > 0
    PROVE  /\ x \div m \in Int /\ x % m \in Nat /\ x % m < m
           /\ x = (x \div m) * m + (x % m)
           /\ x >= 0 => x \div m \in Nat
  OBVIOUS

(* A time split into seconds and the rest is a timespec the kernel accepts, *)
(* and the same time.                                                       *)
LEMMA TimespecTicks ==
    ASSUME NEW x \in Nat
    PROVE  /\ Timespec(x) \in [sec : Nat, nsec : Nat]
           /\ Ticks(Timespec(x)) = x /\ Valid(Timespec(x))
<1>1. K \in Nat /\ K > 0
  BY Units
<1>2. /\ x \div K \in Nat /\ x % K \in Nat /\ x % K < K
      /\ x = (x \div K) * K + (x % K)
  BY ONLY <1>1, Division, x \in Nat
<1> QED BY ONLY <1>2 DEF Timespec, Ticks, Valid

(* The ticks of a timespec are a number, and of whole seconds of another.   *)
LEMMA TicksNat ==
    ASSUME NEW t \in [sec : Nat, nsec : Nat]
    PROVE  Ticks(t) \in Nat /\ Ticks(t) = t.sec * K + t.nsec /\ t.sec * K \in Nat
<1>1. K \in Nat /\ t.sec \in Nat /\ t.nsec \in Nat
  BY Units
<1>2. \A m, n \in Nat : m * n \in Nat
  OBVIOUS
<1>3. t.sec * K \in Nat
  BY ONLY <1>1, <1>2
<1> HIDE DEF K
<1> QED BY ONLY <1>1, <1>3 DEF Ticks

(* Each signal adds less than a second to what the loop around sleep loses. *)
LEMMA LostNat ==
    ASSUME signals \in Nat
    PROVE  /\ Lost \in Nat
           /\ signals' = signals => Lost' = Lost
           /\ signals' = signals + 1 => Lost' = Lost + (K - 1)
<1>1. K \in Nat /\ K > 0
  BY Units
<1>2. \A m \in Nat, k \in Nat : k > 0 => m * (k - 1) \in Nat /\ (m + 1) * (k - 1) = m * (k - 1) + (k - 1)
  OBVIOUS
<1>3. signals * (K - 1) \in Nat /\ (signals + 1) * (K - 1) = signals * (K - 1) + (K - 1)
  BY ONLY <1>1, <1>2, signals \in Nat
<1>4. K' = K
  BY DEF K
<1> QED BY ONLY <1>3, <1>4 DEF Lost

-----------------------------------------------------------------------------
(* The timespec sleep builds is valid and the time asked for, and so is the *)
(* one of usleep.                                                           *)
LEMMA BuiltValid ==
    /\ \A n \in Nat : /\ OfSeconds(n) \in [sec : Nat, nsec : Nat] /\ Valid(OfSeconds(n))
                      /\ OfSeconds(n).nsec = 0 /\ Ticks(OfSeconds(n)) = n * K
    /\ \A us \in Nat : /\ OfUseconds(us) \in [sec : Nat, nsec : Nat] /\ Valid(OfUseconds(us))
                       /\ Ticks(OfUseconds(us)) = us * NsPerUs
<1>1. ASSUME NEW n \in Nat
      PROVE  /\ OfSeconds(n) \in [sec : Nat, nsec : Nat] /\ Valid(OfSeconds(n))
             /\ OfSeconds(n).nsec = 0 /\ Ticks(OfSeconds(n)) = n * K
  BY Units DEF OfSeconds, Valid, Ticks
<1>2. ASSUME NEW us \in Nat
      PROVE  /\ OfUseconds(us) \in [sec : Nat, nsec : Nat] /\ Valid(OfUseconds(us))
             /\ Ticks(OfUseconds(us)) = us * NsPerUs
  <2>1. /\ us \div Micro \in Nat /\ us % Micro \in Nat /\ us % Micro < Micro
        /\ us = (us \div Micro) * Micro + (us % Micro)
    BY ONLY Units, Division, us \in Nat
  <2>2. \A r, m, n \in Nat : r < m /\ n > 0 => r * n \in Nat /\ r * n < m * n
    OBVIOUS
  <2>3. (us % Micro) * NsPerUs \in Nat /\ (us % Micro) * NsPerUs < Micro * NsPerUs
    BY ONLY <2>1, <2>2, Units
  <2>4. \A q, r, m, n \in Nat : q * (m * n) + r * n = (q * m + r) * n
    OBVIOUS
  <2>5. (us \div Micro) * (Micro * NsPerUs) + (us % Micro) * NsPerUs = us * NsPerUs
    BY ONLY <2>1, <2>4, Units
  <2> QED BY ONLY <2>1, <2>3, <2>5 DEF OfUseconds, Valid, Ticks, K
<1> QED BY <1>1, <1>2

(* The invariant holds before the first call.                               *)
LEMMA InitInv == Init => Inv
<1> SUFFICES ASSUME Init PROVE Inv
  OBVIOUS
<1>1. PICK r \in Requests : fn = r.fn /\ clk = r.clk /\ tv = r.tv /\ asked = r.asked
  BY DEF Init
<1>2. /\ fn \in Functions /\ (fn # "clock_nanosleep" => clk # "thread_cputime")
      /\ tv \in [sec : Nat, nsec : Nat]
      /\ fn \notin {"nanosleep", "clock_nanosleep"} => Valid(tv)
      /\ fn = "sleep" => tv.nsec = 0
      /\ asked = Ticks(tv)
  <2>1. CASE \E n \in Seconds : r = Request("sleep", "realtime", OfSeconds(n), n * K)
    BY <1>1, <2>1, BuiltValid, RequestsAssumption DEF Functions, Request
  <2>2. CASE \E us \in Useconds : r = Request("usleep", "realtime", OfUseconds(us), us * NsPerUs)
    BY <1>1, <2>2, BuiltValid, RequestsAssumption DEF Functions, Request
  <2>3. CASE \E t \in Timespecs : r = Request("nanosleep", "realtime", t, Ticks(t))
    BY <1>1, <2>3, RequestsAssumption DEF Functions, Request
  <2>4. CASE \E k \in {"monotonic", "thread_cputime"}, t \in Timespecs :
                r = Request("clock_nanosleep", k, t, Ticks(t))
    BY <1>1, <2>4, RequestsAssumption DEF Functions, Request
  <2> QED BY <1>1, <2>1, <2>2, <2>3, <2>4 DEF Requests
<1>3. Ticks(tv) \in Nat
  BY <1>2, TicksNat
<1>4. wall \in Int /\ began \in Nat
  BY RequestsAssumption DEF Init
<1>5. /\ asked = Ticks(tv) /\ pc = "clock_nanosleep" /\ rem = 0 /\ raw = 0 /\ got = 0
      /\ errno = 0 /\ now = 0 /\ signals = 0
  BY <1>2 DEF Init
<1>6. TypeInv
  BY ONLY <1>2, <1>3, <1>4, <1>5 DEF TypeInv
<1>7. Ahead = Ticks(tv)
  BY ONLY <1>5 DEF Ahead, Back
<1>8. Lost \in Nat
  BY ONLY <1>5, LostNat
<1>9. DurationInv
  <2>1. raw # -EINVAL /\ ~Back
    BY ONLY <1>5 DEF EINVAL, Back
  <2> QED BY ONLY <1>2, <1>3, <1>5, <1>7, <1>8, <2>1 DEF DurationInv, Functions
<1>10. DeadlineInv /\ ResultInv
  BY ONLY <1>3, <1>5 DEF DeadlineInv, ResultInv, Back
<1> QED BY ONLY <1>6, <1>9, <1>10 DEF Inv

-----------------------------------------------------------------------------
(* A step in which no time passes and the timespec stays changes nothing of *)
(* what has been and will be waited.                                        *)
LEMMA SameWait ==
    ASSUME Inv, UNCHANGED <<fn, tv, raw, asked, now, signals>>, Back, Back'
    PROVE  DurationInv' /\ DeadlineInv'
<1>1. /\ fn' = fn /\ tv' = tv /\ raw' = raw /\ asked' = asked /\ now' = now
      /\ Ticks(tv)' = Ticks(tv) /\ Valid(tv)' = Valid(tv) /\ K' = K
  BY DEF Ticks, Valid, K
<1>2. Lost' = Lost
  BY <1>1, LostNat DEF Inv, TypeInv
<1>3. pc # "kernel" /\ pc' # "kernel" /\ pc # "clock_nanosleep" /\ pc' # "clock_nanosleep"
  BY DEF Back
<1>4. Ahead' = Ahead
  BY ONLY <1>1, <1>3, Back, Back' DEF Ahead
<1>5. DurationInv /\ DeadlineInv
  BY DEF Inv
<1>6. DurationInv'
  BY ONLY <1>1, <1>2, <1>3, <1>4, <1>5, Back, Back' DEF DurationInv
<1>7. DeadlineInv'
  BY ONLY <1>1, <1>3, <1>5, Back, Back' DEF DeadlineInv
<1> QED BY <1>6, <1>7

(* What a call's error codes are.                                           *)
LEMMA Codes == EINTR = 4 /\ EINVAL = 22
  BY DEF EINTR, EINVAL

(* The system call is refused or entered.                                   *)
LEMMA EnterStep ==
    ASSUME Inv, RefuseClock \/ Enter
    PROVE  Inv'
<1>t. TypeInv /\ DurationInv /\ DeadlineInv
  BY DEF Inv
<1>1. /\ UNCHANGED <<fn, clk, tv, got, errno, asked, now, signals, clocks>>
      /\ pc = "clock_nanosleep"
  BY DEF RefuseClock, Enter
<1>2. /\ fn' = fn /\ tv' = tv /\ asked' = asked /\ now' = now /\ K' = K
      /\ Ticks(tv)' = Ticks(tv) /\ Valid(tv)' = Valid(tv)
  BY ONLY <1>1 DEF Ticks, Valid, K
<1>3. Ticks(tv) \in Nat /\ now \in Nat /\ asked \in Nat /\ Lost \in Nat /\ Lost' = Lost
  BY ONLY <1>t, <1>1, TicksNat, LostNat DEF TypeInv
<1>4. Ahead = Ticks(tv)
  BY ONLY <1>1 DEF Ahead, Back
<1>5. \/ pc' = "return" /\ raw' = -EINVAL /\ rem' = rem /\ fn \in {"nanosleep", "clock_nanosleep"}
      \/ pc' = "kernel" /\ raw' = 0 /\ rem' = Ticks(tv) /\ fn # "clock_nanosleep"
      \/ pc' = "kernel" /\ raw' = 0 /\ now + rem' = asked /\ rem' \in Nat /\ fn = "clock_nanosleep"
  <2>1. CASE RefuseClock
    BY ONLY <1>t, <2>1 DEF RefuseClock, TypeInv
  <2>2. CASE Enter /\ ~Valid(tv)
    BY ONLY <1>t, <2>2 DEF Enter, TypeInv, Functions, DurationInv
  <2>3. CASE Enter /\ Valid(tv) /\ fn # "clock_nanosleep"
    BY ONLY <2>3 DEF Enter
  <2>4. CASE Enter /\ Valid(tv) /\ fn = "clock_nanosleep"
    <3>1. now <= asked /\ Ticks(tv) = asked
      BY ONLY <1>t, <2>4 DEF DeadlineInv
    <3>2. rem' = (IF Ticks(tv) > now THEN Ticks(tv) - now ELSE 0) /\ pc' = "kernel" /\ raw' = 0
      BY ONLY <2>4 DEF Enter
    <3> QED BY ONLY <1>3, <2>4, <3>1, <3>2
  <2> QED BY <2>1, <2>2, <2>3, <2>4
<1>6. TypeInv'
  <2>1. rem' \in Nat /\ raw' \in {0, -EINVAL, -EINTR} /\ pc' \in {"return", "kernel"}
    BY ONLY <1>t, <1>3, <1>5 DEF TypeInv
  <2> QED BY ONLY <1>t, <1>1, <2>1 DEF TypeInv, clocks
<1>7. fn # "clock_nanosleep" => Ahead' = Ticks(tv)
  BY ONLY <1>2, <1>5, Codes DEF Ahead, Back
<1>8. raw' # -EINTR /\ (raw' = -EINVAL => fn \in {"nanosleep", "clock_nanosleep"}) /\ pc' # "clock_nanosleep"
  BY ONLY <1>5, Codes
<1>9. DurationInv'
  BY ONLY <1>t, <1>2, <1>3, <1>4, <1>7, <1>8 DEF DurationInv
<1>10. DeadlineInv'
  BY ONLY <1>t, <1>2, <1>5, Codes DEF DeadlineInv, Back
<1>11. ResultInv'
  BY ONLY <1>5 DEF ResultInv
<1> QED BY ONLY <1>6, <1>9, <1>10, <1>11 DEF Inv

(* Time passes.                                                             *)
LEMMA TickStep ==
    ASSUME Inv, Tick \/ Expire
    PROVE  Inv'
<1>t. TypeInv /\ DurationInv /\ DeadlineInv /\ ResultInv
  BY DEF Inv
<1>1. UNCHANGED <<fn, clk, tv, raw, got, errno, asked, signals, clocks>> /\ pc = "kernel" /\ raw = 0
  BY <1>t DEF Tick, Expire, ResultInv
<1>2. /\ fn' = fn /\ tv' = tv /\ asked' = asked /\ raw' = 0 /\ K' = K
      /\ Ticks(tv)' = Ticks(tv) /\ Valid(tv)' = Valid(tv)
  BY ONLY <1>1 DEF Ticks, Valid, K
<1>3. now \in Nat /\ asked \in Nat /\ rem \in Nat /\ Lost \in Nat /\ Lost' = Lost
  BY ONLY <1>t, <1>1, LostNat DEF TypeInv
<1>4. \/ pc' = "kernel" /\ rem > 0 /\ rem' = rem - 1 /\ now' = now + 1
      \/ pc' = "return" /\ rem = 0 /\ rem' = 0 /\ now' = now
  BY DEF Tick, Expire
<1>5. Ahead = rem /\ Ahead' = rem' /\ now' + rem' = now + rem
  <2>1. Ahead = rem
    BY ONLY <1>1 DEF Ahead
  <2>2. Ahead' = rem'
    BY ONLY <1>2, <1>4 DEF Ahead, Back
  <2> QED BY ONLY <1>3, <1>4, <2>1, <2>2
<1>6. TypeInv'
  <2>1. rem' \in Nat /\ now' \in Nat /\ pc' \in {"return", "kernel"}
    BY ONLY <1>3, <1>4
  <2> QED BY ONLY <1>t, <1>1, <2>1 DEF TypeInv, clocks
<1>7. DurationInv'
  <2>1. raw' # -EINTR /\ raw' # -EINVAL /\ pc' # "clock_nanosleep"
    BY ONLY <1>2, <1>4, Codes
  <2> QED BY ONLY <1>t, <1>2, <1>3, <1>5, <2>1 DEF DurationInv
<1>8. DeadlineInv'
  BY ONLY <1>t, <1>1, <1>2, <1>3, <1>4 DEF DeadlineInv, Back
<1>9. ResultInv'
  BY ONLY <1>2, <1>4 DEF ResultInv
<1> QED BY ONLY <1>6, <1>7, <1>8, <1>9 DEF Inv

(* A signal.                                                                *)
LEMMA InterruptStep ==
    ASSUME Inv, Interrupt
    PROVE  Inv'
<1>t. TypeInv /\ DurationInv /\ DeadlineInv
  BY DEF Inv
<1>1. /\ fn' = fn /\ asked' = asked /\ now' = now /\ pc = "kernel" /\ pc' = "return"
      /\ raw' = -EINTR /\ signals' = signals + 1
      /\ UNCHANGED <<clk, rem, got, errno, clocks>>
      /\ tv' = IF fn = "clock_nanosleep" THEN tv ELSE Timespec(rem)
  BY DEF Interrupt
<1>2. rem \in Nat /\ now \in Nat /\ asked \in Nat /\ signals \in Nat
  BY ONLY <1>t DEF TypeInv
<1>3. Lost \in Nat /\ Lost' = Lost + (K - 1) /\ K \in Nat /\ K > 0 /\ K' = K
  BY ONLY <1>1, <1>2, LostNat, Units DEF K
<1>4. Timespec(rem) \in [sec : Nat, nsec : Nat] /\ Ticks(Timespec(rem)) = rem /\ Valid(Timespec(rem))
  BY ONLY <1>2, TimespecTicks
<1>5. TypeInv'
  <2>1. tv' \in [sec : Nat, nsec : Nat]
    BY ONLY <1>t, <1>1, <1>4 DEF TypeInv
  <2> QED BY ONLY <1>t, <1>1, <2>1 DEF TypeInv, clocks
<1>6. DurationInv'
  <2> SUFFICES ASSUME fn # "clock_nanosleep" PROVE DurationInv'
    BY <1>1 DEF DurationInv
  <2>1. Ahead = rem
    BY ONLY <1>1 DEF Ahead
  <2>2. Ticks(tv)' = rem /\ Valid(tv)'
    BY ONLY <1>1, <1>4, fn # "clock_nanosleep" DEF Ticks, Valid, K
  <2>3. Ahead' = rem
    BY ONLY <1>1, <2>2, Codes DEF Ahead
  <2>4. raw' # -EINVAL
    BY ONLY <1>1, Codes
  <2> QED BY ONLY <1>t, <1>1, <1>2, <1>3, <2>1, <2>2, <2>3, <2>4, fn # "clock_nanosleep" DEF DurationInv
<1>7. DeadlineInv'
  <2>1. fn = "clock_nanosleep" => Ticks(tv)' = Ticks(tv)
    BY ONLY <1>1 DEF Ticks, K
  <2> QED BY ONLY <1>t, <1>1, <2>1, Codes DEF DeadlineInv
<1>8. ResultInv'
  BY ONLY <1>1 DEF ResultInv
<1> QED BY ONLY <1>5, <1>6, <1>7, <1>8 DEF Inv

(* The functions return.                                                    *)
LEMMA ReturnStep ==
    ASSUME Inv, ReturnClock \/ ReturnNanosleep \/ ReturnSleep
    PROVE  Inv'
<1>t. TypeInv
  BY DEF Inv
<1>1. UNCHANGED <<fn, clk, tv, rem, raw, asked, now, signals, clocks>> /\ pc = "return" /\ pc' = "caller"
  BY DEF ReturnClock, ReturnNanosleep, ReturnSleep
<1>2. DurationInv' /\ DeadlineInv'
  <2>1. Back /\ Back'
    BY ONLY <1>1 DEF Back
  <2>2. UNCHANGED <<fn, tv, raw, asked, now, signals>>
    BY ONLY <1>1
  <2> QED BY ONLY Inv, <2>1, <2>2, SameWait
<1>3. raw \in {0, -22, -4} /\ errno \in Int /\ tv.sec \in Nat
  BY ONLY <1>t, Codes DEF TypeInv
<1>4. -raw \in Int /\ -raw + raw = 0
  BY ONLY <1>3
<1>5. nanosleep = IF raw = 0 THEN 0 ELSE -1
  BY ONLY <1>3 DEF nanosleep, RetValue, is_err
<1>6. RetErrno(raw, errno) \in Int /\ (raw # 0 => RetErrno(raw, errno) + raw = 0)
  BY ONLY <1>3, <1>4 DEF RetErrno, is_err
<1>7. /\ got' \in Int /\ errno' \in Int
      /\ fn' = "clock_nanosleep" => got' + raw' = 0
      /\ fn' \in {"nanosleep", "usleep"} => /\ got' = IF raw' = 0 THEN 0 ELSE -1
                                            /\ raw' # 0 => errno' + raw' = 0
      /\ fn' = "sleep" => got' = IF raw' = 0 THEN 0 ELSE tv'.sec
  <2>1. CASE ReturnClock
    BY ONLY <1>1, <1>3, <1>4, <2>1 DEF ReturnClock
  <2>2. CASE ReturnNanosleep
    BY ONLY <1>1, <1>5, <1>6, <2>2 DEF ReturnNanosleep
  <2>3. CASE ReturnSleep
    BY ONLY <1>1, <1>3, <1>5, <1>6, <2>3 DEF ReturnSleep, Left
  <2> QED BY <2>1, <2>2, <2>3
<1>8. TypeInv'
  BY ONLY <1>t, <1>1, <1>7 DEF TypeInv, clocks
<1>9. ResultInv'
  BY ONLY <1>1, <1>7 DEF ResultInv
<1> QED BY ONLY <1>2, <1>8, <1>9 DEF Inv

(* The program calls again.                                                 *)
LEMMA RetryStep ==
    ASSUME Inv, Retry
    PROVE  Inv'
<1>t. TypeInv /\ DurationInv /\ DeadlineInv /\ ResultInv
  BY DEF Inv
<1>1. /\ UNCHANGED <<fn, clk, rem, raw, got, errno, asked, now, signals, clocks>>
      /\ pc = "caller" /\ pc' = "clock_nanosleep" /\ Unfinished
      /\ tv' = IF fn = "sleep" THEN OfSeconds(got) ELSE tv
  BY DEF Retry
<1>2. /\ tv \in [sec : Nat, nsec : Nat] /\ tv.sec \in Nat /\ tv.nsec \in Nat /\ raw \in {0, -EINVAL, -EINTR}
      /\ now \in Nat /\ asked \in Nat
  BY ONLY <1>t DEF TypeInv
<1>3. raw # 0 /\ (fn = "sleep" => raw = -EINTR /\ got = tv.sec) /\ fn # "usleep"
  <2>1. CASE fn = "sleep"
    <3>1. got # 0
      BY ONLY <1>1, <2>1 DEF Unfinished
    <3>2. raw # -EINVAL
      BY ONLY <1>t, <2>1 DEF DurationInv
    <3> QED BY ONLY <1>t, <1>1, <1>2, <2>1, <3>1, <3>2 DEF ResultInv
  <2>2. CASE fn = "nanosleep"
    BY ONLY <1>t, <1>1, <2>2 DEF Unfinished, ResultInv
  <2>3. CASE fn = "clock_nanosleep"
    <3>1. got = 4 /\ got + raw = 0
      BY ONLY <1>t, <1>1, <2>3, Codes DEF Unfinished, ResultInv
    <3>2. raw # 0
      BY ONLY <3>1
    <3> QED BY ONLY <2>3, <3>2
  <2>4. fn \in {"sleep", "nanosleep", "clock_nanosleep"}
    BY ONLY <1>1 DEF Unfinished
  <2> QED BY ONLY <2>1, <2>2, <2>3, <2>4
<1>4. Ticks(tv) \in Nat /\ Ticks(tv) = tv.sec * K + tv.nsec /\ tv.sec * K \in Nat
  BY ONLY <1>2, TicksNat
<1>5. K \in Nat /\ K > 0 /\ Lost \in Nat /\ Lost' = Lost /\ K' = K
  BY ONLY <1>t, <1>1, Units, LostNat DEF TypeInv, K
<1>6. Ahead = Ticks(tv) /\ Ahead' = Ticks(tv)' /\ Back
  <2>1. Ahead' = Ticks(tv)'
    BY ONLY <1>1 DEF Ahead, Back
  <2> QED BY ONLY <1>1, <1>3, <2>1 DEF Ahead, Back
<1>7. fn = "sleep" => /\ tv' \in [sec : Nat, nsec : Nat] /\ Valid(tv)' /\ tv'.nsec = 0
                      /\ Ticks(tv)' = tv.sec * K
  <2> SUFFICES ASSUME fn = "sleep"
               PROVE  tv' \in [sec : Nat, nsec : Nat] /\ Valid(tv)' /\ tv'.nsec = 0 /\ Ticks(tv)' = tv.sec * K
    OBVIOUS
  <2>1. tv' = OfSeconds(tv.sec)
    BY ONLY <1>1, <1>3, fn = "sleep"
  <2>2. tv' \in [sec : Nat, nsec : Nat] /\ Valid(tv') /\ tv'.nsec = 0 /\ tv'.sec = tv.sec
    BY ONLY <1>2, <2>1, BuiltValid DEF OfSeconds
  <2>3. Ticks(tv') = tv'.sec * K + 0
    BY ONLY <2>2, TicksNat
  <2>4. Ticks(tv)' = Ticks(tv') /\ Valid(tv)' = Valid(tv')
    BY ONLY DEF Ticks, Valid, K
  <2> QED BY ONLY <1>4, <2>2, <2>3, <2>4
<1>8. fn # "sleep" => tv' = tv /\ Ticks(tv)' = Ticks(tv) /\ Valid(tv)' = Valid(tv)
  BY ONLY <1>1 DEF Ticks, Valid, K
<1>9. TypeInv'
  <2>1. tv' \in [sec : Nat, nsec : Nat]
    BY ONLY <1>2, <1>7, <1>8
  <2> QED BY ONLY <1>t, <1>1, <2>1 DEF TypeInv, clocks
<1>10. DurationInv'
  <2>1. fn' = fn /\ raw' = raw /\ now' = now /\ asked' = asked /\ ~Back'
    BY ONLY <1>1 DEF Back
  <2>2. CASE fn = "sleep"
    <3>1. /\ now + Ticks(tv) <= asked /\ asked + (K - 1) <= now + Ticks(tv) + Lost /\ tv.nsec < K
          /\ raw # -EINVAL
      BY ONLY <1>t, <1>3, <1>6, <2>2 DEF DurationInv, Valid
    <3>2. now + tv.sec * K <= asked /\ asked <= now + tv.sec * K + Lost
      BY ONLY <1>2, <1>4, <1>5, <3>1
    <3> QED BY ONLY <1>5, <1>6, <1>7, <2>1, <2>2, <3>1, <3>2 DEF DurationInv
  <2>3. CASE fn # "sleep"
    BY ONLY <1>t, <1>6, <1>8, <2>1, <2>3 DEF DurationInv
  <2> QED BY ONLY <2>2, <2>3
<1>11. DeadlineInv'
  BY ONLY <1>t, <1>1, <1>8 DEF DeadlineInv, Back
<1>12. ResultInv'
  BY ONLY <1>1 DEF ResultInv
<1> QED BY ONLY <1>9, <1>10, <1>11, <1>12 DEF Inv

(* Every step of the library, the kernel and the program preserves the      *)
(* invariant.                                                               *)
LEMMA StepInv == Inv /\ [Next]_vars => Inv'
<1> SUFFICES ASSUME Inv, [Next]_vars PROVE Inv'
  OBVIOUS
<1>t. TypeInv /\ DurationInv /\ DeadlineInv /\ ResultInv
  BY DEF Inv
<1>1. CASE End
  <2>1. /\ UNCHANGED <<fn, clk, tv, rem, raw, got, errno, asked, now, signals, clocks>>
        /\ pc = "caller" /\ pc' = "ended" /\ ~Unfinished
    BY ONLY <1>1 DEF End
  <2>2. Back /\ Back' /\ UNCHANGED <<fn, tv, raw, asked, now, signals>>
    BY ONLY <2>1 DEF Back
  <2>3. DurationInv' /\ DeadlineInv'
    BY ONLY Inv, <2>2, SameWait
  <2>4. TypeInv'
    BY ONLY <1>t, <2>1 DEF TypeInv, clocks
  <2>5. ~Unfinished'
    BY ONLY <2>1 DEF Unfinished
  <2>6. ResultInv'
    BY ONLY <1>t, <2>1, <2>5 DEF ResultInv
  <2> QED BY ONLY <2>3, <2>4, <2>6 DEF Inv
<1>2. CASE clock_settime \/ Done \/ UNCHANGED vars
  <2>1. /\ UNCHANGED <<pc, fn, clk, tv, rem, raw, got, errno, asked, now, signals, began>>
        /\ wall' \in Int
    <3>1. CASE clock_settime
      BY <1>t, <3>1, RequestsAssumption DEF clock_settime, TypeInv
    <3>2. CASE Done \/ UNCHANGED vars
      BY <1>t, <3>2 DEF Done, vars, clocks, TypeInv
    <3> QED BY <1>2, <3>1, <3>2
  <2>2. TypeInv'
    BY ONLY <1>t, <2>1 DEF TypeInv
  <2>3. /\ Ticks(tv)' = Ticks(tv) /\ Valid(tv)' = Valid(tv) /\ K' = K /\ Lost' = Lost
        /\ Back' = Back /\ Ahead' = Ahead
    BY ONLY <2>1 DEF Ticks, Valid, K, Lost, Back, Ahead
  <2>4. DurationInv' /\ DeadlineInv'
    BY ONLY <1>t, <2>1, <2>3 DEF DurationInv, DeadlineInv
  <2>5. ResultInv'
    BY ONLY <1>t, <2>1 DEF ResultInv, Unfinished
  <2> QED BY ONLY <2>2, <2>4, <2>5 DEF Inv
<1> QED BY <1>1, <1>2, EnterStep, TickStep, InterruptStep, ReturnStep, RetryStep DEF Next, Step

(* The invariant of the sleeping loops, for every request and any number of *)
(* signals.                                                                 *)
THEOREM Invariance == Spec => []Inv
  BY InitInv, StepInv, PTL DEF Spec

(* A loop over sleep ends early by less than a second for each signal, and  *)
(* no loop waits longer than it was asked.                                  *)
THEOREM ShortfallTheorem == Spec => []ShortfallBounded
<1>1. Inv => ShortfallBounded
  <2> SUFFICES ASSUME Inv PROVE ShortfallBounded
    OBVIOUS
  <2>t. TypeInv /\ DurationInv /\ DeadlineInv /\ ResultInv
    BY DEF Inv
  <2>1. /\ now \in Nat /\ asked \in Nat /\ Lost \in Nat /\ Ticks(tv) \in Nat /\ rem \in Nat
        /\ Ticks(tv) = tv.sec * K + tv.nsec /\ tv.sec \in Nat /\ tv.nsec \in Nat
        /\ raw \in {0, -EINVAL, -EINTR} /\ K \in Nat
    BY ONLY <2>t, LostNat, TicksNat, Units DEF TypeInv
  <2>2. Ahead \in Nat
    BY ONLY <2>1 DEF Ahead
  <2>3. now <= asked
    BY ONLY <2>t, <2>1, <2>2 DEF DurationInv, DeadlineInv
  <2>4. ASSUME pc = "ended", fn = "sleep" PROVE asked - now <= Lost
    <3>1. got = 0 /\ Back
      BY ONLY <2>t, <2>4 DEF ResultInv, Unfinished, Back
    <3>2. raw # -EINVAL /\ tv.nsec < K
      BY ONLY <2>t, <2>4 DEF DurationInv, Valid
    <3>3. CASE raw = 0
      <4>1. Ahead = 0
        BY ONLY <2>4, <3>1, <3>3 DEF Ahead
      <4> QED BY ONLY <2>t, <2>1, <2>4, <4>1 DEF DurationInv
    <3>4. CASE raw = -EINTR
      <4>1. tv.sec = 0 /\ Ahead = Ticks(tv)
        BY ONLY <2>t, <2>4, <3>1, <3>4, Codes DEF ResultInv, Ahead
      <4>2. Ticks(tv) = tv.nsec
        BY ONLY <2>1, <4>1
      <4>3. asked + (K - 1) <= now + Ticks(tv) + Lost
        BY ONLY <2>t, <2>4, <3>1, <3>4, <4>1 DEF DurationInv
      <4> QED BY ONLY <2>1, <3>2, <4>2, <4>3
    <3> QED BY ONLY <2>1, <3>2, <3>3, <3>4
  <2> QED BY ONLY <2>3, <2>4 DEF ShortfallBounded, Lost
<1> QED BY <1>1, Invariance, PTL

(* The loops over nanosleep and clock_nanosleep end with the whole time     *)
(* waited unless the request is refused, usleep unless it is interrupted.   *)
THEOREM WholeTimeTheorem == Spec => []WholeTimeWaited
<1>1. Inv => WholeTimeWaited
  <2> SUFFICES ASSUME Inv, pc = "ended", fn # "sleep"
               PROVE  \/ now = asked
                      \/ fn = "usleep" /\ errno = EINTR
                      \/ fn = "nanosleep" /\ errno = EINVAL
                      \/ fn = "clock_nanosleep" /\ got = EINVAL
    BY DEF WholeTimeWaited
  <2>t. TypeInv /\ DurationInv /\ DeadlineInv /\ ResultInv
    BY DEF Inv
  <2>1. /\ raw \in {0, -22, -4} /\ errno \in Int /\ got \in Int /\ now \in Nat /\ asked \in Nat
        /\ fn \in {"usleep", "nanosleep", "clock_nanosleep"}
    BY ONLY <2>t, fn # "sleep", Codes DEF TypeInv, Functions
  <2>2. Back
    BY ONLY pc = "ended" DEF Back
  <2>3. CASE raw = 0
    <3>1. Ahead = 0
      BY ONLY <2>2, <2>3, pc = "ended" DEF Ahead
    <3>2. now = asked
      BY ONLY <2>t, <2>1, <2>2, <2>3, <3>1, fn # "sleep" DEF DurationInv, DeadlineInv
    <3> QED BY ONLY <3>2
  <2>4. CASE raw # 0 /\ fn = "usleep"
    <3>1. raw = -4 /\ errno + raw = 0
      BY ONLY <2>t, <2>1, <2>4, pc = "ended", Codes DEF DurationInv, ResultInv
    <3> QED BY ONLY <2>1, <2>4, <3>1, Codes
  <2>5. CASE raw # 0 /\ fn = "nanosleep"
    <3>1. got = -1 /\ errno + raw = 0 /\ errno # 4
      BY ONLY <2>t, <2>5, pc = "ended", Codes DEF Unfinished, ResultInv
    <3> QED BY ONLY <2>1, <2>5, <3>1, Codes
  <2>6. CASE raw # 0 /\ fn = "clock_nanosleep"
    <3>1. got + raw = 0 /\ got # 4
      BY ONLY <2>t, <2>6, pc = "ended", Codes DEF Unfinished, ResultInv
    <3> QED BY ONLY <2>1, <2>6, <3>1, Codes
  <2> QED BY ONLY <2>1, <2>3, <2>4, <2>5, <2>6
<1> QED BY <1>1, Invariance, PTL

-----------------------------------------------------------------------------
(* What gettimeofday makes of a time: the seconds and microseconds it shows *)
(* leave less than a microsecond over.                                      *)
LEMMA Microseconds ==
    ASSUME NEW x \in Int
    PROVE  LET s == x \div K
               v == (x % K) \div NsPerUs
               over == x - (s * K + v * NsPerUs)
           IN  /\ s \in Int /\ v \in 0 .. Micro - 1 /\ over \in 0 .. NsPerUs - 1
               /\ x - s * K \in 0 .. K - 1 /\ s * K \in Int /\ v * NsPerUs \in Int
<1> DEFINE r == x % K
           s == x \div K
           v == r \div NsPerUs
<1>1. /\ K \in Nat /\ K > 0 /\ Micro \in Nat /\ Micro > 0 /\ NsPerUs \in Nat /\ NsPerUs > 0
      /\ K = Micro * NsPerUs
  BY Units DEF K
<1> HIDE DEF K
<1>2. s \in Int /\ r \in Nat /\ r < K /\ x = s * K + r
  BY ONLY <1>1, Division, x \in Int
<1> HIDE DEF r, s
<1>3. v \in Nat /\ r % NsPerUs \in Nat /\ r % NsPerUs < NsPerUs /\ r = v * NsPerUs + (r % NsPerUs)
  BY ONLY <1>1, <1>2, Division
<1> HIDE DEF v
<1>4. s * K \in Int /\ v * NsPerUs \in Nat
  <2>1. (\A m, n \in Int : m * n \in Int) /\ (\A m, n \in Nat : m * n \in Nat)
    OBVIOUS
  <2> QED BY ONLY <1>1, <1>2, <1>3, <2>1
<1>5. v < Micro
  <2>1. \A m, n, w \in Nat : n > 0 /\ w >= m => w * n >= m * n
    OBVIOUS
  <2>2. Micro * NsPerUs \in Nat
    BY ONLY <1>1
  <2>3. v >= Micro => v * NsPerUs >= K
    BY ONLY <1>1, <1>3, <2>1
  <2>4. v * NsPerUs <= r
    BY ONLY <1>2, <1>3, <1>4
  <2> QED BY ONLY <1>1, <1>2, <1>3, <1>4, <2>3, <2>4
<1>6. x - (s * K + v * NsPerUs) \in 0 .. NsPerUs - 1
  BY ONLY <1>1, <1>2, <1>3, <1>4
<1>7. x - s * K \in 0 .. K - 1
  BY ONLY <1>1, <1>2, <1>4
<1>8. v \in 0 .. Micro - 1
  BY ONLY <1>1, <1>3, <1>5
<1> QED BY ONLY <1>2, <1>4, <1>6, <1>7, <1>8 DEF r, s, v

(* What a program measures with the clocks is what it waited, for units of  *)
(* every length and whatever CLOCK_REALTIME shows.                          *)
THEOREM ElapsedTheorem == Spec => []ElapsedMeasured
<1>1. Inv => ElapsedMeasured
  <2> SUFFICES ASSUME Inv PROVE ElapsedMeasured
    OBVIOUS
  <2> DEFINE x == wall + now
             y == began + 0
             s == x \div K
             s0 == y \div K
             v == (x % K) \div NsPerUs
             v0 == (y % K) \div NsPerUs
             us == (s - s0) * Micro + (v - v0)
  <2>1. now \in Nat /\ wall \in Int /\ began \in Nat
    BY DEF Inv, TypeInv
  <2>2. /\ K \in Nat /\ K > 0 /\ Micro \in Nat /\ NsPerUs \in Nat /\ NsPerUs > 0
        /\ K = Micro * NsPerUs
    BY Units DEF K
  <2>3. x \in Int /\ y \in Int /\ (wall = began => x - y = now)
    BY ONLY <2>1
  <2>4. /\ gettimeofday(now, wall) = [sec |-> s, usec |-> v]
        /\ gettimeofday(0, began) = [sec |-> s0, usec |-> v0]
        /\ time(now, wall) = s /\ time(0, began) = s0
    BY DEF gettimeofday, time, clock_gettime, Timespec
  <2>5. Ticks(clock_gettime("monotonic", now, wall)) = now
    BY ONLY <2>1, TimespecTicks DEF clock_gettime
  <2> HIDE DEF K, x, y
  <2>6. /\ s \in Int /\ v \in 0 .. Micro - 1 /\ x - (s * K + v * NsPerUs) \in 0 .. NsPerUs - 1
        /\ x - s * K \in 0 .. K - 1 /\ s * K \in Int /\ v * NsPerUs \in Int
    BY ONLY <2>3, Microseconds
  <2>7. /\ s0 \in Int /\ v0 \in 0 .. Micro - 1 /\ y - (s0 * K + v0 * NsPerUs) \in 0 .. NsPerUs - 1
        /\ y - s0 * K \in 0 .. K - 1 /\ s0 * K \in Int /\ v0 * NsPerUs \in Int
    BY ONLY <2>3, Microseconds
  <2> HIDE DEF s, s0, v, v0
  <2>8. \A p, q, f, g, m, n \in Int : ((p - q) * m + (f - g)) * n = (p * (m * n) + f * n) - (q * (m * n) + g * n)
    OBVIOUS
  <2>9. us * NsPerUs = (s * K + v * NsPerUs) - (s0 * K + v0 * NsPerUs)
    BY ONLY <2>2, <2>6, <2>7, <2>8
  <2>10. (s - s0) * K = s * K - s0 * K
    <3>1. \A p, q, k \in Int : (p - q) * k = p * k - q * k
      OBVIOUS
    <3> QED BY ONLY <2>2, <2>6, <2>7, <3>1
  <2> HIDE DEF us
  <2>11. ASSUME wall = began
         PROVE  /\ us * NsPerUs - now \in -(NsPerUs - 1) .. NsPerUs - 1
                /\ (s - s0) * K - now \in -(K - 1) .. K - 1
    <3>1. x - y = now
      BY ONLY <2>3, <2>11
    <3>2. us * NsPerUs - now \in -(NsPerUs - 1) .. NsPerUs - 1
      BY ONLY <2>1, <2>2, <2>3, <2>6, <2>7, <2>9, <3>1
    <3>3. (s - s0) * K - now \in -(K - 1) .. K - 1
      BY ONLY <2>1, <2>2, <2>3, <2>6, <2>7, <2>10, <3>1
    <3> QED BY ONLY <3>2, <3>3
  <2>12. us = (s - s0) * Micro + (v - v0)
    BY DEF us
  <2> QED BY ONLY <2>4, <2>5, <2>6, <2>11, <2>12 DEF ElapsedMeasured
<1> QED BY <1>1, Invariance, PTL

-----------------------------------------------------------------------------
(* The words of every object are words, and the first of them is the set,   *)
(* one position below.                                                      *)
BitsInv ==
    /\ bits \in [Sets -> [{0, 1} -> SUBSET (0 .. 63)]]
    /\ members \in [Sets -> SUBSET All]
    /\ clean \subseteq Sets
    /\ \A s \in Sets, b \in 0 .. 63 : b \in bits[s][0] <=> b + 1 \in members[s]

SetInv == BitsInv /\ ReservedKeptOut

-----------------------------------------------------------------------------
(* The conversion of an int to unsigned, where it changes nothing and where *)
(* it wraps.                                                                *)
LEMMA Unsigned ==
    ASSUME NEW m \in Nat, m > 0, NEW x \in Int, -m <= x, x < m
    PROVE  (0 <= x => x % m = x) /\ (x < 0 => x % m = x + m)
  OBVIOUS

(* An int is one of the 64 signals or falls to the first unsigned           *)
(* comparison.                                                              *)
LEMMA InRange ==
    ASSUME NEW sig \in Signals \cup All
    PROVE  /\ u(sig - 1) >= NSIG - 1 <=> sig \notin All
           /\ sig \in All => /\ word(sig) = 0 /\ bit(sig) = sig - 1 /\ sig - 1 \in 0 .. 63
                             /\ validate_sig(sig) <=> sig \in Reserved
<1>1. IntModulus \in Nat /\ IntModulus > 130
  BY IntAssumption
<1>2. sig \in Int /\ -(IntModulus \div 2) <= sig /\ sig < IntModulus \div 2
  <2>1. 65 <= IntModulus \div 2 /\ IntModulus \div 2 \in Nat
    BY ONLY <1>1
  <2> QED BY ONLY <2>1, SigAssumption, sig \in Signals \cup All DEF All, NSIG
<1>3. /\ IntModulus \div 2 \in Nat /\ 65 <= IntModulus \div 2
      /\ 2 * (IntModulus \div 2) <= IntModulus
  BY ONLY <1>1
<1>4. IF 1 <= sig THEN u(sig - 1) = sig - 1 ELSE u(sig - 1) = sig - 1 + IntModulus
  BY ONLY <1>1, <1>2, <1>3, Unsigned DEF u
<1>5. IF 32 <= sig THEN u(sig - 32) = sig - 32
                   ELSE u(sig - 32) = sig - 32 + IntModulus
  BY ONLY <1>1, <1>2, <1>3, Unsigned DEF u
<1>6. u(sig - 1) >= 64 <=> ~(1 <= sig /\ sig <= 64)
  BY ONLY <1>1, <1>2, <1>3, <1>4
<1>7. sig \in All <=> 1 <= sig /\ sig <= 64
  BY ONLY <1>2 DEF All, NSIG
<1>8. ASSUME sig \in All
      PROVE  /\ word(sig) = 0 /\ bit(sig) = sig - 1 /\ sig - 1 \in 0 .. 63
             /\ validate_sig(sig) <=> sig \in Reserved
  <2>1. u(sig - 1) = sig - 1 /\ sig - 1 \in 0 .. 63
    BY ONLY <1>2, <1>4, <1>7, <1>8
  <2>2. word(sig) = 0 /\ bit(sig) = sig - 1
    BY ONLY <2>1 DEF word, bit
  <2>3. u(sig - 32) < 3 <=> 32 <= sig /\ sig <= 34
    BY ONLY <1>1, <1>2, <1>3, <1>5
  <2>4. ~(u(sig - 1) >= NSIG - 1)
    BY ONLY <1>6, <1>7, <1>8 DEF NSIG
  <2> QED BY ONLY <1>2, <2>1, <2>2, <2>3, <2>4 DEF validate_sig, Reserved
<1> QED BY ONLY <1>6, <1>7, <1>8 DEF NSIG

(* A signal that is not refused is one of the 64 and not reserved.          *)
LEMMA Accepted ==
    ASSUME NEW sig \in Signals, ~validate_sig(sig)
    PROVE  /\ sig \in All /\ sig \notin Reserved /\ word(sig) = 0 /\ bit(sig) = sig - 1
           /\ sig - 1 \in 0 .. 63 /\ sig - 1 \notin 31 .. 33
<1>1. sig \in All
  BY InRange DEF validate_sig
<1>2. /\ sig \notin Reserved /\ word(sig) = 0 /\ bit(sig) = sig - 1 /\ sig - 1 \in 0 .. 63
  BY <1>1, InRange
<1>3. sig \in Int
  BY ONLY <1>1 DEF All, NSIG
<1> QED BY ONLY <1>1, <1>2, <1>3 DEF Reserved

-----------------------------------------------------------------------------
(* A call that replaces the first word of one object by a word that stands  *)
(* for the new set.                                                         *)
LEMMA WordStep ==
    ASSUME SetInv, NEW s \in Sets, NEW W \in SUBSET (0 .. 63), NEW N \in SUBSET All,
           \A b \in 0 .. 63 : b \in W <=> b + 1 \in N,
           bits' = [bits EXCEPT ![s][0] = W],
           members' = [members EXCEPT ![s] = N],
           clean' \subseteq clean \cup {s},
           s \in clean' => W \cap 31 .. 33 = {}
    PROVE  SetInv'
<1>1. bits \in [Sets -> [{0, 1} -> SUBSET (0 .. 63)]] /\ members \in [Sets -> SUBSET All] /\ clean \subseteq Sets
  BY DEF SetInv, BitsInv
<1>2. bits' \in [Sets -> [{0, 1} -> SUBSET (0 .. 63)]]
  BY <1>1
<1>3. \A r \in Sets : bits'[r][0] = IF r = s THEN W ELSE bits[r][0]
  BY <1>1
<1>4. members' \in [Sets -> SUBSET All] /\ \A r \in Sets : members'[r] = IF r = s THEN N ELSE members[r]
  BY <1>1
<1>5. clean' \subseteq Sets
  BY <1>1
<1>6. \A r \in Sets, b \in 0 .. 63 : b \in bits'[r][0] <=> b + 1 \in members'[r]
  BY <1>3, <1>4 DEF SetInv, BitsInv
<1>7. ReservedKeptOut'
  BY <1>3, <1>5 DEF SetInv, ReservedKeptOut
<1> QED BY <1>2, <1>4, <1>5, <1>6, <1>7 DEF SetInv, BitsInv

(* The invariant holds of any memory.                                       *)
LEMMA InitSetInv == InitSets => SetInv
<1> SUFFICES ASSUME InitSets PROVE SetInv
  OBVIOUS
<1>1. bits \in [Sets -> [{0, 1} -> SUBSET (0 .. 63)]]
  <2>1. bits \in [Sets -> [{0, 1} -> Contents]]
    BY DEF InitSets
  <2>2. [{0, 1} -> Contents] \subseteq [{0, 1} -> SUBSET (0 .. 63)]
    BY ONLY ContentsAssumption
  <2> QED BY ONLY <2>1, <2>2
<1>2. \A s \in Sets : bits[s][0] \in SUBSET (0 .. 63)
  BY <1>1
<1>3. members \in [Sets -> SUBSET All]
  BY <1>2 DEF InitSets, All, NSIG
<1>4. \A s \in Sets, b \in 0 .. 63 : b \in bits[s][0] <=> b + 1 \in members[s]
  <2> SUFFICES ASSUME NEW s \in Sets, NEW b \in 0 .. 63
               PROVE  b \in bits[s][0] <=> b + 1 \in {c + 1 : c \in bits[s][0]}
    BY DEF InitSets
  <2> QED BY <1>2
<1> QED BY <1>1, <1>3, <1>4 DEF InitSets, SetInv, BitsInv, ReservedKeptOut

(* Each of the eight operations preserves it.                               *)
LEMMA SetStep == SetInv /\ [NextSets]_setVars => SetInv'
<1> SUFFICES ASSUME SetInv, [NextSets]_setVars PROVE SetInv'
  OBVIOUS
<1>t. /\ \A s \in Sets : bits[s][0] \in SUBSET (0 .. 63) /\ members[s] \in SUBSET All
      /\ bits \in [Sets -> [{0, 1} -> SUBSET (0 .. 63)]]
      /\ members \in [Sets -> SUBSET All]
      /\ clean \subseteq Sets
      /\ \A s \in Sets, b \in 0 .. 63 : b \in bits[s][0] <=> b + 1 \in members[s]
      /\ \A s \in clean : bits[s][0] \cap 31 .. 33 = {}
  BY DEF SetInv, BitsInv, ReservedKeptOut
<1>1. ASSUME NEW s \in Sets, sigemptyset(s) PROVE SetInv'
  <2>1. {} \in SUBSET (0 .. 63) /\ {} \in SUBSET All
    OBVIOUS
  <2> QED BY ONLY SetInv, <1>1, <2>1, WordStep DEF sigemptyset
<1>2. ASSUME NEW s \in Sets, sigfillset(s) PROVE SetInv'
  <2>1. /\ 0 .. 63 \ 31 .. 33 \in SUBSET (0 .. 63) /\ All \ Reserved \in SUBSET All
        /\ \A b \in 0 .. 63 : b \in 0 .. 63 \ 31 .. 33 <=> b + 1 \in All \ Reserved
        /\ (0 .. 63 \ 31 .. 33) \cap 31 .. 33 = {}
    BY ONLY DEF All, Reserved, NSIG
  <2>2. /\ bits' = [bits EXCEPT ![s][0] = 0 .. 63 \ 31 .. 33]
        /\ members' = [members EXCEPT ![s] = All \ Reserved]
        /\ clean' \subseteq clean \cup {s}
    BY ONLY <1>2 DEF sigfillset
  <2> QED BY ONLY SetInv, <1>2, <2>1, <2>2, WordStep
<1>3. ASSUME NEW sig \in Signals, Invalid(sig) PROVE SetInv'
  BY ONLY SetInv, <1>3 DEF Invalid, SetInv, BitsInv, ReservedKeptOut
<1>4. ASSUME NEW s \in Sets, NEW sig \in Signals, sigaddset(s, sig) PROVE SetInv'
  <2> DEFINE W == bits[s][0] \cup {sig - 1}
             N == members[s] \cup {sig}
  <2>1. ~validate_sig(sig)
    BY ONLY <1>4 DEF sigaddset
  <2>2. /\ sig \in All /\ sig \notin Reserved /\ word(sig) = 0 /\ bit(sig) = sig - 1
        /\ sig - 1 \in 0 .. 63 /\ sig - 1 \notin 31 .. 33
    BY ONLY <1>4, <2>1, Accepted
  <2>3. bits' = [bits EXCEPT ![s][0] = W] /\ members' = [members EXCEPT ![s] = N] /\ clean' = clean
    BY ONLY <1>t, <1>4, <2>2 DEF sigaddset
  <2>4. W \in SUBSET (0 .. 63) /\ N \in SUBSET All
    BY ONLY <1>t, <1>4, <2>2
  <2>5. \A b \in 0 .. 63 : b \in W <=> b + 1 \in N
    <3>1. \A b \in 0 .. 63 : b = sig - 1 <=> b + 1 = sig
      BY ONLY <2>2 DEF All, NSIG
    <3> QED BY ONLY <1>t, <1>4, <3>1
  <2>6. s \in clean' => W \cap 31 .. 33 = {}
    BY ONLY <1>t, <2>2, <2>3
  <2> HIDE DEF W, N
  <2> QED BY ONLY SetInv, <1>4, <2>3, <2>4, <2>5, <2>6, WordStep
<1>5. ASSUME NEW s \in Sets, NEW sig \in Signals, sigdelset(s, sig) PROVE SetInv'
  <2> DEFINE W == bits[s][0] \ {sig - 1}
             N == members[s] \ {sig}
  <2>1. ~validate_sig(sig)
    BY ONLY <1>5 DEF sigdelset
  <2>2. /\ sig \in All /\ sig \notin Reserved /\ word(sig) = 0 /\ bit(sig) = sig - 1
        /\ sig - 1 \in 0 .. 63 /\ sig - 1 \notin 31 .. 33
    BY ONLY <1>5, <2>1, Accepted
  <2>3. bits' = [bits EXCEPT ![s][0] = W] /\ members' = [members EXCEPT ![s] = N] /\ clean' = clean
    BY ONLY <1>t, <1>5, <2>2 DEF sigdelset
  <2>4. W \in SUBSET (0 .. 63) /\ N \in SUBSET All
    BY ONLY <1>t, <1>5, <2>2
  <2>5. \A b \in 0 .. 63 : b \in W <=> b + 1 \in N
    <3>1. \A b \in 0 .. 63 : b = sig - 1 <=> b + 1 = sig
      BY ONLY <2>2 DEF All, NSIG
    <3> QED BY ONLY <1>t, <1>5, <3>1
  <2>6. s \in clean' => W \cap 31 .. 33 = {}
    BY ONLY <1>t, <2>2, <2>3
  <2> HIDE DEF W, N
  <2> QED BY ONLY SetInv, <1>5, <2>3, <2>4, <2>5, <2>6, WordStep
<1>6. ASSUME NEW dest \in Sets, NEW left \in Sets, NEW right \in Sets, sigorset(dest, left, right)
      PROVE  SetInv'
  <2> DEFINE W == bits[left][0] \cup bits[right][0]
             N == members[left] \cup members[right]
  <2>1. bits' = [bits EXCEPT ![dest][0] = W] /\ members' = [members EXCEPT ![dest] = N]
    BY ONLY <1>6 DEF sigorset
  <2>2. clean' \subseteq clean \cup {dest} /\ (dest \in clean' => left \in clean /\ right \in clean)
    BY ONLY <1>6 DEF sigorset
  <2>3. W \in SUBSET (0 .. 63) /\ N \in SUBSET All
    BY ONLY <1>t, <1>6
  <2>4. \A b \in 0 .. 63 : b \in W <=> b + 1 \in N
    BY ONLY <1>t, <1>6
  <2>5. dest \in clean' => W \cap 31 .. 33 = {}
    BY ONLY <1>t, <1>6, <2>2
  <2> HIDE DEF W, N
  <2> QED BY ONLY SetInv, <1>6, <2>1, <2>2, <2>3, <2>4, <2>5, WordStep
<1>7. ASSUME NEW dest \in Sets, NEW left \in Sets, NEW right \in Sets, sigandset(dest, left, right)
      PROVE  SetInv'
  <2> DEFINE W == bits[left][0] \cap bits[right][0]
             N == members[left] \cap members[right]
  <2>1. bits' = [bits EXCEPT ![dest][0] = W] /\ members' = [members EXCEPT ![dest] = N]
    BY ONLY <1>7 DEF sigandset
  <2>2. clean' \subseteq clean \cup {dest} /\ (dest \in clean' => left \in clean \/ right \in clean)
    BY ONLY <1>7 DEF sigandset
  <2>3. W \in SUBSET (0 .. 63) /\ N \in SUBSET All
    BY ONLY <1>t, <1>7
  <2>4. \A b \in 0 .. 63 : b \in W <=> b + 1 \in N
    BY ONLY <1>t, <1>7
  <2>5. dest \in clean' => W \cap 31 .. 33 = {}
    BY ONLY <1>t, <1>7, <2>2
  <2> HIDE DEF W, N
  <2> QED BY ONLY SetInv, <1>7, <2>1, <2>2, <2>3, <2>4, <2>5, WordStep
<1>8. CASE DoneSets \/ UNCHANGED setVars
  BY ONLY SetInv, <1>8 DEF DoneSets, setVars, SetInv, BitsInv, ReservedKeptOut
<1> QED BY <1>1, <1>2, <1>3, <1>4, <1>5, <1>6, <1>7, <1>8 DEF NextSets

(* The invariant of the set operations, for all objects and ints.           *)
THEOREM SetInvariance == SetSpec => []SetInv
  BY InitSetInv, SetStep, PTL DEF SetSpec

(* sigismember and sigisemptyset answer for exactly the set the calls built,*)
(* after any number of calls and for every int.                             *)
THEOREM MembershipTheorem == SetSpec => []MembershipExact
<1>1. SetInv => MembershipExact
  <2> SUFFICES ASSUME SetInv, NEW s \in Sets
               PROVE  /\ \A sig \in All : (sigismember(s, sig) = 1) = (sig \in members[s])
                      /\ \A sig \in Signals \ All : sigismember(s, sig) = 0
                      /\ (sigisemptyset(s) = 1) = (members[s] = {})
    BY DEF MembershipExact
  <2>t. /\ bits[s][0] \in SUBSET (0 .. 63) /\ members[s] \in SUBSET All
        /\ \A b \in 0 .. 63 : b \in bits[s][0] <=> b + 1 \in members[s]
    BY DEF SetInv, BitsInv
  <2>1. ASSUME NEW sig \in All PROVE sigismember(s, sig) = 1 <=> sig \in members[s]
    <3>1. ~(u(sig - 1) >= NSIG - 1) /\ word(sig) = 0 /\ bit(sig) = sig - 1 /\ sig - 1 \in 0 .. 63
      BY <2>1, InRange
    <3>2. sig - 1 \in bits[s][0] <=> sig \in members[s]
      <4>1. sig \in Int /\ (sig - 1) + 1 = sig
        BY ONLY <2>1 DEF All, NSIG
      <4> QED BY ONLY <2>t, <3>1, <4>1
    <3> QED BY ONLY <3>1, <3>2 DEF sigismember
  <2>2. ASSUME NEW sig \in Signals \ All PROVE sigismember(s, sig) = 0
    BY <2>2, InRange DEF sigismember
  <2>3. sigisemptyset(s) = 1 <=> members[s] = {}
    <3>1. bits[s][0] = {} <=> members[s] = {}
      <4>1. ASSUME NEW sig \in members[s] PROVE sig - 1 \in 0 .. 63 /\ (sig - 1) + 1 = sig
        BY ONLY <2>t, <4>1 DEF All, NSIG
      <4>2. ASSUME NEW sig \in members[s] PROVE sig - 1 \in bits[s][0]
        BY ONLY <2>t, <4>1, <4>2
      <4> QED BY ONLY <2>t, <4>2
    <3> QED BY ONLY <3>1 DEF sigisemptyset
  <2>4. \A sig \in All : (sigismember(s, sig) = 1) = (sig \in members[s])
    <3> TAKE sig \in All
    <3>1. sigismember(s, sig) = 1 <=> sig \in members[s]
      BY ONLY <2>1, sig \in All
    <3>2. CASE sig \in members[s]
      BY ONLY <3>1, <3>2
    <3>3. CASE sig \notin members[s]
      BY ONLY <3>1, <3>3
    <3> QED BY ONLY <3>2, <3>3
  <2>5. (sigisemptyset(s) = 1) = (members[s] = {})
    BY ONLY <2>3, Zenon
  <2> QED BY ONLY <2>2, <2>4, <2>5, Zenon
<1> QED BY <1>1, SetInvariance, PTL

(* No sequence of calls puts one of the library's own signals into a set    *)
(* that goes back to sigemptyset and sigfillset.                            *)
THEOREM ReservedTheorem == SetSpec => []ReservedKeptOut
  BY SetInvariance, PTL DEF SetInv
=============================================================================
