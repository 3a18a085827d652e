-------------------------- MODULE DescriptorsProofs --------------------------
(***************************************************************************)
(* No thread holds a descriptor of another's, none leaks, every flag is as *)
(* its owner asked and errno is the thread's own: for any number of        *)
(* threads, calls and descriptors, on old kernels and new ones.            *)
(***************************************************************************)
EXTENDS Descriptors, WellFoundedInduction, TLAPS

(* The calls that allocate the lowest unused number.                        *)
Allocating == {"open", "dup", "dupfd"}

Entry == [by : Threads, cloexec : BOOLEAN]

TypeInv ==
    /\ table \in [Fds -> Entry \cup {Free}]
    /\ errno \in [Threads -> Int]
    /\ pc \in [Threads -> {"idle", "entry", "cloexec", "ret", "posix"}]
    /\ op \in [Threads -> Calls \cup {NoCall}]
    /\ raw \in [Threads -> Int]
    /\ res \in [Threads -> Int]
    /\ owned \in [Threads -> SUBSET Fds]
    /\ asked \in [Fds -> BOOLEAN]

(* A raw result is a value or an error of the kernel's; -4096 is neither.   *)
Results == {r \in Int : r < -4096 \/ r >= -4095}

(* Where a thread is tells what it is doing.  close has released its        *)
(* descriptor by then, with a result on which no program closes again.      *)
CallInv(t) ==
    /\ pc[t] # "idle" => op[t] \in Calls /\ Arguments(op[t]) \subseteq owned[t]
    /\ pc[t] = "cloexec" => op[t].f = "open" /\ op[t].cloexec /\ raw[t] \in Fds
    /\ pc[t] = "posix" => op[t].f = "posix" /\ raw[t] \in Results /\ raw[t] <= 0
    /\ pc[t] = "ret" =>
          /\ raw[t] \in Results
          /\ op[t].f \in Allocating /\ raw[t] >= 0 => raw[t] \in Fds
          /\ op[t].f = "close" => raw[t] \in {0, -EIO}

(* The entries the kernel made for t are the ones t holds: those it owns    *)
(* and has not just released, and the one about to be returned to it.       *)
Made(t) == {fd \in Fds : table[fd] # Free /\ table[fd].by = t}
Held(t) == (owned[t] \ Released(t)) \cup (Pending(t) \cap Fds)
HoldInv(t) == Made(t) = Held(t)

(* The flag of an entry is what its owner asked for, or has asked for in a  *)
(* call that is about to return; openat_inner may still have to set it.     *)
Wanted(t) == IF pc[t] = "ret" THEN AskedAfter(op[t], RetValue(raw[t])) ELSE asked
FlagInv(t) ==
    \A fd \in Held(t) :
        ~(pc[t] = "cloexec" /\ fd = raw[t]) => table[fd].cloexec = Wanted(t)[fd]

ThreadInv(t) == CallInv(t) /\ HoldInv(t) /\ FlagInv(t)

Inv == TypeInv /\ \A t \in Threads : ThreadInv(t)

-----------------------------------------------------------------------------
(* The kernel has a lowest unused number whenever it has an unused one.     *)
LEMMA LowestExists ==
    ASSUME NEW S, S \subseteq Fds, S # {}
    PROVE  \E x \in S : \A y \in S : x <= y
<1>1. IsWellFoundedOn(OpToRel(<, Nat), Nat)
  BY NatLessThanWellFounded
<1>2. S \subseteq Nat
  BY FdsAssumption
<1> DEFINE R == OpToRel(<, Nat)
<1>3. PICK x \in S : \A y \in S : ~(<<y, x>> \in R)
  <2> HIDE DEF R
  <2> QED BY <1>1, <1>2, WFMin DEF R
<1>4. \A y \in S : ~(y < x)
  BY <1>2, <1>3 DEF OpToRel
<1> QED BY <1>2, <1>4

(* An entry of the table is not the mark of an unused one.                  *)
LEMMA NewEntry ==
    ASSUME NEW t \in Threads, NEW b \in BOOLEAN
    PROVE  LET e == [by |-> t, cloexec |-> b]
           IN  e \in Entry /\ e # Free /\ e.by = t /\ e.cloexec = b
  BY FreeAssumption DEF Entry

(* What the arguments of a call are.                                        *)
LEMMA CallShape ==
    ASSUME NEW c \in Calls
    PROVE  /\ c.f \in {"open", "identity", "session", "close", "dup", "getfd", "transfer", "posix",
                       "setfd", "dupfd", "dup2", "dup3"}
           /\ c.f \in {"open", "setfd", "dupfd", "dup3"} => c.cloexec \in BOOLEAN
           /\ c.f \in {"close", "dup", "getfd", "transfer", "posix", "setfd", "dupfd"} =>
                 c.fd \in Fds /\ Arguments(c) = {c.fd}
           /\ c.f \in {"dup2", "dup3"} => c.old \in Fds /\ c.new \in Fds /\ Arguments(c) = {c.old, c.new}
  BY DEF Calls, Arguments

(* ret tells values from errors.                                            *)
LEMMA RetShape ==
    ASSUME NEW r \in Results
    PROVE  /\ r \in Int
           /\ RetValue(r) \in Int
           /\ r >= 0 => RetValue(r) = r
           /\ r < 0 => RetValue(r) < 0
  BY DEF Results, RetValue, is_err

(* is_err finds exactly the errors of the kernel.                           *)
LEMMA ErrorRange ==
    ASSUME NEW r \in Results
    PROVE  r \in Int /\ (is_err(r) <=> r \in -MAX_ERRNO .. -1)
<1>1. r \in Int /\ (r < -4096 \/ r >= -4095)
  BY DEF Results
<1>2. r \in -4095 .. -1 <=> -4095 <= r /\ r <= -1
  BY ONLY <1>1
<1> QED BY ONLY <1>1, <1>2 DEF is_err, MAX_ERRNO

(* What negation does, in the form the provers can use.                     *)
LEMMA Negation ==
    ASSUME NEW x \in Int
    PROVE  /\ x <= 0 => -x >= 0
           /\ \A y \in Int : x + y = 0 => -x = y
  OBVIOUS

(* The program's memory of the flags stays one flag per number.             *)
LEMMA AskedType ==
    ASSUME asked \in [Fds -> BOOLEAN], NEW c \in Calls, NEW r \in Int,
           c.f \in Allocating /\ r >= 0 => r \in Fds
    PROVE  AskedAfter(c, r) \in [Fds -> BOOLEAN]
  BY CallShape DEF AskedAfter, Allocating

(* The memory of one number depends on that number's past only.             *)
LEMMA AskedLocal ==
    ASSUME asked \in [Fds -> BOOLEAN], asked' \in [Fds -> BOOLEAN],
           NEW c \in Calls, NEW r \in Int, NEW fd \in Fds, asked'[fd] = asked[fd],
           c.f \in Allocating /\ r >= 0 => r \in Fds
    PROVE  AskedAfter(c, r)'[fd] = AskedAfter(c, r)[fd]
  BY CallShape DEF AskedAfter, Allocating

(* A step that leaves thread u, its entries and their flags alone keeps its *)
(* part of the invariant.                                                   *)
LEMMA OtherThread ==
    ASSUME Inv, TypeInv', NEW u \in Threads,
           pc'[u] = pc[u], op'[u] = op[u], raw'[u] = raw[u], owned'[u] = owned[u],
           Made(u)' = Made(u),
           \A fd \in Made(u) : table'[fd] = table[fd] /\ asked'[fd] = asked[fd]
    PROVE  ThreadInv(u)'
<1>1. ThreadInv(u)
  BY DEF Inv
<1>2. CallInv(u)'
  BY <1>1 DEF ThreadInv, CallInv
<1>3. Held(u)' = Held(u)
  BY DEF Held, Released, Pending
<1>4. HoldInv(u)'
  BY <1>1, <1>3 DEF ThreadInv, HoldInv
<1>5. ASSUME NEW fd \in Held(u) PROVE Wanted(u)'[fd] = Wanted(u)[fd]
  <2>1. fd \in Fds /\ asked'[fd] = asked[fd]
    BY <1>1, <1>5 DEF ThreadInv, HoldInv, Made
  <2>2. CASE pc[u] = "ret"
    <3>1. op[u] \in Calls /\ raw[u] \in Results
      BY <1>1, <2>2 DEF ThreadInv, CallInv
    <3>2. /\ RetValue(raw[u]) \in Int
          /\ op[u].f \in Allocating /\ RetValue(raw[u]) >= 0 => RetValue(raw[u]) \in Fds
      <4>1. op[u].f \in Allocating /\ raw[u] >= 0 => raw[u] \in Fds
        BY <1>1, <2>2 DEF ThreadInv, CallInv
      <4> QED BY <3>1, <4>1, RetShape
    <3>3. asked \in [Fds -> BOOLEAN] /\ asked' \in [Fds -> BOOLEAN]
      BY DEF Inv, TypeInv
    <3>4. AskedAfter(op[u], RetValue(raw[u]))'[fd] = AskedAfter(op[u], RetValue(raw[u]))[fd]
      BY <2>1, <3>1, <3>2, <3>3, AskedLocal DEF AskedAfter, RetValue
    <3> QED BY <2>2, <3>4 DEF Wanted
  <2>3. CASE pc[u] # "ret"
    BY <2>1, <2>3 DEF Wanted
  <2> QED BY <2>2, <2>3
<1>6. FlagInv(u)'
  BY <1>1, <1>3, <1>5 DEF ThreadInv, FlagInv, HoldInv
<1> QED BY <1>2, <1>4, <1>6 DEF ThreadInv

-----------------------------------------------------------------------------
(* The entries a system call of t may touch are unused ones and t's own, so *)
(* that what remains to be shown of it is t's own part of the invariant.    *)
LEMMA SystemStep ==
    ASSUME Inv, NEW t \in Threads, NEW o, NEW to \in {"cloexec", "ret", "posix"},
           SystemCall(t, {o}, to), o.r \in Int, o.tab \in [Fds -> Entry \cup {Free}],
           \A fd \in Fds : \/ o.tab[fd] = table[fd]
                           \/ /\ table[fd] = Free \/ table[fd].by = t
                              /\ o.tab[fd] = Free \/ o.tab[fd].by = t,
           ThreadInv(t)'
    PROVE  Inv'
<1>1. TypeInv'
  BY DEF Inv, TypeInv, SystemCall
<1>2. ASSUME NEW u \in Threads, u # t PROVE ThreadInv(u)'
  <2>1. /\ pc'[u] = pc[u] /\ op'[u] = op[u] /\ raw'[u] = raw[u] /\ owned'[u] = owned[u]
        /\ asked' = asked /\ table' = o.tab
    BY <1>2 DEF SystemCall, Inv, TypeInv
  <2>2. Made(u)' = Made(u) /\ \A fd \in Made(u) : table'[fd] = table[fd]
    BY <1>2, <2>1 DEF Made
  <2> QED BY <1>1, <2>1, <2>2, OtherThread
<1> QED BY <1>1, <1>2 DEF Inv

(* A thread at the entry of a call holds what it owns.                      *)
LEMMA AtEntry ==
    ASSUME Inv, NEW t \in Threads, pc[t] = "entry"
    PROVE  /\ op[t] \in Calls /\ Arguments(op[t]) \subseteq owned[t]
           /\ Held(t) = owned[t] /\ Made(t) = owned[t] /\ owned[t] \subseteq Fds
           /\ \A fd \in owned[t] : /\ table[fd] \in Entry /\ table[fd] # Free /\ table[fd].by = t
                                   /\ table[fd].cloexec = asked[fd]
<1>1. ThreadInv(t)
  BY DEF Inv
<1>2. op[t] \in Calls /\ Arguments(op[t]) \subseteq owned[t]
  BY <1>1 DEF ThreadInv, CallInv
<1>3. Held(t) = owned[t] /\ Made(t) = owned[t] /\ owned[t] \subseteq Fds
  BY <1>1 DEF ThreadInv, HoldInv, Held, Released, Pending, Inv, TypeInv
<1>4. \A fd \in owned[t] : /\ table[fd] \in Entry /\ table[fd] # Free /\ table[fd].by = t
                           /\ table[fd].cloexec = asked[fd]
  BY <1>1, <1>3 DEF ThreadInv, FlagInv, Wanted, Made, Inv, TypeInv
<1> QED BY <1>2, <1>3, <1>4

(* A system call that changes no entry and no flag the program asked for.   *)
LEMMA QuietStep ==
    ASSUME Inv, NEW t \in Threads, pc[t] = "entry", NEW r \in Results, NEW to \in {"ret", "posix"},
           SystemCall(t, {[r |-> r, tab |-> table]}, to),
           op[t].f # "close", op[t].f \in Allocating => r < 0,
           AskedAfter(op[t], RetValue(r)) = asked,
           to = "posix" => op[t].f = "posix" /\ r <= 0
    PROVE  Inv'
<1> DEFINE o == [r |-> r, tab |-> table]
<1>0. r \in Int
  BY ONLY r \in Results, RetShape
<1>1. o.r = r /\ o.tab = table
  OBVIOUS
<1>2. /\ table' = table /\ asked' = asked /\ owned' = owned /\ op' = op
      /\ pc'[t] = to /\ raw'[t] = r
  BY DEF SystemCall, Inv, TypeInv
<1>3. CallInv(t)'
  <2>1. op[t] \in Calls /\ Arguments(op[t]) \subseteq owned[t]
    BY AtEntry
  <2>2. op[t].f \in Allocating /\ r >= 0 => r \in Fds
    BY <1>0
  <2> QED BY <1>0, <1>2, <2>1, <2>2 DEF CallInv
<1>4. Made(t)' = Made(t)
  BY <1>2 DEF Made
<1>5. Held(t)' = owned[t]
  <2>1. Released(t)' = {}
    BY <1>2 DEF Released
  <2>2. Pending(t)' \cap Fds = {}
    <3>1. r < 0 => r \notin Fds
      BY <1>0, FdsAssumption
    <3>2. op[t].f \in Allocating => Pending(t)' = {r}
      BY <1>2 DEF Pending, Allocating
    <3>3. op[t].f \notin Allocating => Pending(t)' = {}
      BY <1>2 DEF Pending, Allocating
    <3> QED BY <3>1, <3>2, <3>3
  <2> QED BY <1>2, <2>1, <2>2 DEF Held
<1>6. HoldInv(t)'
  BY <1>4, <1>5, AtEntry DEF HoldInv
<1>7. Wanted(t)' = asked
  <2>1. to = "ret" => Wanted(t)' = AskedAfter(op[t], RetValue(r))
    BY <1>2 DEF Wanted, AskedAfter
  <2>2. to = "posix" => Wanted(t)' = asked
    BY <1>2 DEF Wanted
  <2> QED BY <2>1, <2>2
<1>8. FlagInv(t)'
  BY <1>2, <1>5, <1>7, AtEntry DEF FlagInv
<1>9. ThreadInv(t)'
  BY <1>3, <1>6, <1>8 DEF ThreadInv
<1>10. table \in [Fds -> Entry \cup {Free}]
  BY DEF Inv, TypeInv
<1> HIDE DEF o
<1>11. SystemCall(t, {o}, to)
  BY DEF o
<1> QED BY <1>0, <1>1, <1>9, <1>10, <1>11, SystemStep

(* A system call that gives the unused number fd to t.                      *)
LEMMA AllocateStep ==
    ASSUME Inv, NEW t \in Threads, pc[t] = "entry", NEW fd \in Fds, NEW b \in BOOLEAN,
           NEW to \in {"ret", "cloexec"}, table[fd] = Free,
           SystemCall(t, {[r |-> fd, tab |-> [table EXCEPT ![fd] = [by |-> t, cloexec |-> b]]]}, to),
           op[t].f \in Allocating,
           to = "ret" => b = (IF op[t].f = "dup" THEN FALSE ELSE op[t].cloexec),
           to = "cloexec" => op[t].f = "open" /\ op[t].cloexec
    PROVE  Inv'
<1> DEFINE tab == [table EXCEPT ![fd] = [by |-> t, cloexec |-> b]]
           o == [r |-> fd, tab |-> tab]
<1>1. /\ table \in [Fds -> Entry \cup {Free}] /\ asked \in [Fds -> BOOLEAN]
      /\ tab \in [Fds -> Entry \cup {Free}] /\ tab[fd] = [by |-> t, cloexec |-> b]
      /\ \A x \in Fds : x # fd => tab[x] = table[x]
  BY DEF Inv, TypeInv, Entry
<1>2. tab[fd] # Free /\ tab[fd].by = t /\ tab[fd].cloexec = b
  BY <1>1, FreeAssumption
<1>3. o.r = fd /\ o.tab = tab /\ fd \in Int /\ fd >= 0
  BY FdsAssumption
<1>4. SystemCall(t, {o}, to)
  OBVIOUS
<1> HIDE DEF o, tab
<1>5. /\ table' = tab /\ asked' = asked /\ owned' = owned /\ op' = op
      /\ pc'[t] = to /\ raw'[t] = fd
  BY <1>3, <1>4 DEF SystemCall, Inv, TypeInv
<1>6. /\ op[t] \in Calls /\ Arguments(op[t]) \subseteq owned[t]
      /\ Made(t) = owned[t] /\ owned[t] \subseteq Fds /\ fd \notin owned[t]
      /\ \A x \in owned[t] : table[x].cloexec = asked[x]
  BY AtEntry
<1>7. CallInv(t)'
  BY <1>3, <1>5, <1>6 DEF CallInv, Results, Allocating
<1>8. Held(t)' = owned[t] \cup {fd}
  BY <1>5, <1>6 DEF Held, Released, Pending, Allocating
<1>9. Made(t)' = Made(t) \cup {fd}
  BY <1>1, <1>2, <1>5 DEF Made
<1>10. HoldInv(t)'
  BY <1>6, <1>8, <1>9 DEF HoldInv
<1>11. FlagInv(t)'
  <2>1. CASE to = "cloexec"
    BY <2>1, <1>1, <1>5, <1>6, <1>8 DEF FlagInv, Wanted
  <2>2. CASE to = "ret"
    <3>1. RetValue(fd) = fd
      BY <1>3, RetShape DEF Results
    <3>2. Wanted(t)' = [asked EXCEPT ![fd] = b]
      <4>1. Wanted(t)' = AskedAfter(op[t], fd)
        BY <1>5, <2>2, <3>1 DEF Wanted, AskedAfter
      <4>2. ~(fd < 0)
        BY <1>3
      <4>3. op[t].f \in {"open", "dupfd"} => AskedAfter(op[t], fd) = [asked EXCEPT ![fd] = op[t].cloexec]
        BY ONLY <4>2 DEF AskedAfter
      <4>4. op[t].f = "dup" => AskedAfter(op[t], fd) = [asked EXCEPT ![fd] = FALSE]
        BY ONLY <4>2 DEF AskedAfter
      <4>5. (op[t].f = "dup" /\ b = FALSE) \/ (op[t].f \in {"open", "dupfd"} /\ b = op[t].cloexec)
        BY <2>2, Zenon DEF Allocating
      <4> QED BY ONLY <4>1, <4>3, <4>4, <4>5, Zenon
    <3>3. \A x \in Held(t)' : table'[x].cloexec = Wanted(t)'[x]
      BY <1>1, <1>2, <1>5, <1>6, <1>8, <3>2
    <3> QED BY <3>3 DEF FlagInv
  <2> QED BY <2>1, <2>2
<1>12. ThreadInv(t)'
  BY <1>7, <1>10, <1>11 DEF ThreadInv
<1>13. \A x \in Fds : \/ tab[x] = table[x]
                      \/ (table[x] = Free \/ table[x].by = t) /\ (tab[x] = Free \/ tab[x].by = t)
  BY <1>1, <1>2
<1>14. to \in {"cloexec", "ret", "posix"}
  OBVIOUS
<1> QED BY ONLY Inv, t \in Threads, <1>1, <1>3, <1>4, <1>12, <1>13, <1>14, SystemStep

(* A system call that replaces an entry t owns by another of its own, with  *)
(* the flag t asked for.                                                    *)
LEMMA ReplaceStep ==
    ASSUME Inv, NEW t \in Threads, pc[t] = "entry", NEW fd \in owned[t], NEW b \in BOOLEAN, NEW r \in Nat,
           SystemCall(t, {[r |-> r, tab |-> [table EXCEPT ![fd] = [by |-> t, cloexec |-> b]]]}, "ret"),
           op[t].f \notin Allocating, op[t].f # "close",
           AskedAfter(op[t], r) = [asked EXCEPT ![fd] = b]
    PROVE  Inv'
<1> DEFINE tab == [table EXCEPT ![fd] = [by |-> t, cloexec |-> b]]
           o == [r |-> r, tab |-> tab]
<1>0. /\ op[t] \in Calls /\ Arguments(op[t]) \subseteq owned[t]
      /\ Made(t) = owned[t] /\ owned[t] \subseteq Fds
      /\ \A x \in owned[t] : table[x] # Free /\ table[x].by = t /\ table[x].cloexec = asked[x]
  BY AtEntry
<1>1. /\ table \in [Fds -> Entry \cup {Free}] /\ asked \in [Fds -> BOOLEAN]
      /\ tab \in [Fds -> Entry \cup {Free}] /\ tab[fd] = [by |-> t, cloexec |-> b]
      /\ \A x \in Fds : x # fd => tab[x] = table[x]
  BY <1>0 DEF Inv, TypeInv, Entry
<1>2. tab[fd] # Free /\ tab[fd].by = t /\ tab[fd].cloexec = b
  BY <1>1, FreeAssumption
<1>3. o.r = r /\ o.tab = tab /\ r \in Int
  OBVIOUS
<1>4. SystemCall(t, {o}, "ret")
  OBVIOUS
<1> HIDE DEF o, tab
<1>5. /\ table' = tab /\ asked' = asked /\ owned' = owned /\ op' = op
      /\ pc'[t] = "ret" /\ raw'[t] = r
  BY <1>3, <1>4 DEF SystemCall, Inv, TypeInv
<1>7. CallInv(t)'
  BY <1>0, <1>3, <1>5 DEF CallInv, Results
<1>8. Held(t)' = owned[t]
  BY <1>5, <1>0 DEF Held, Released, Pending, Allocating
<1>9. Made(t)' = Made(t)
  BY <1>0, <1>1, <1>2, <1>5 DEF Made
<1>10. HoldInv(t)'
  BY <1>0, <1>8, <1>9 DEF HoldInv
<1>11. FlagInv(t)'
  <2>1. RetValue(r) = r
    BY <1>3, RetShape DEF Results
  <2>2. Wanted(t)' = [asked EXCEPT ![fd] = b]
    BY <1>5, <2>1 DEF Wanted, AskedAfter
  <2>3. \A x \in Held(t)' : table'[x].cloexec = Wanted(t)'[x]
    BY <1>0, <1>1, <1>2, <1>5, <1>8, <2>2
  <2> QED BY <2>3 DEF FlagInv
<1>12. ThreadInv(t)'
  BY <1>7, <1>10, <1>11 DEF ThreadInv
<1>13. \A x \in Fds : \/ tab[x] = table[x]
                      \/ (table[x] = Free \/ table[x].by = t) /\ (tab[x] = Free \/ tab[x].by = t)
  BY <1>0, <1>1, <1>2
<1> QED BY ONLY Inv, t \in Threads, <1>1, <1>3, <1>4, <1>12, <1>13, SystemStep

-----------------------------------------------------------------------------
(* What the kernel's allocation gives: nothing, or an unused number.        *)
LEMMA AllocateShape ==
    ASSUME Inv, NEW t \in Threads, NEW b \in BOOLEAN, NEW o \in Allocate(table, t, b)
    PROVE  \/ o = [r |-> -EMFILE, tab |-> table]
           \/ \E fd \in Fds :
                 /\ table[fd] = Free
                 /\ o = [r |-> fd, tab |-> [table EXCEPT ![fd] = [by |-> t, cloexec |-> b]]]
<1> DEFINE free == {fd \in Fds : table[fd] = Free}
           lowest == CHOOSE x \in free : \A y \in free : x <= y
<1>1. CASE free = {}
  BY <1>1 DEF Allocate, Fail
<1>2. CASE free # {}
  <2>1. free \subseteq Fds
    OBVIOUS
  <2>2. \E x \in free : \A y \in free : x <= y
    BY <1>2, <2>1, LowestExists
  <2>3. lowest \in free
    BY <2>2
  <2>4. o = [r |-> lowest, tab |-> [table EXCEPT ![lowest] = [by |-> t, cloexec |-> b]]]
    BY <1>2 DEF Allocate
  <2> HIDE DEF lowest
  <2> QED BY <2>3, <2>4
<1> QED BY <1>1, <1>2

(* An error changes nothing, whichever call reports it.                     *)
LEMMA ErrorStep ==
    ASSUME Inv, NEW t \in Threads, pc[t] = "entry", NEW r \in Int, r >= -4095, r < 0,
           SystemCall(t, {[r |-> r, tab |-> table]}, "ret"), op[t].f # "close"
    PROVE  Inv'
<1>1. r \in Results /\ r < 0
  BY DEF Results
<1>2. RetValue(r) < 0
  BY ONLY r \in Int, <1>1, RetShape
<1>3. AskedAfter(op[t], RetValue(r)) = asked
  BY ONLY <1>2 DEF AskedAfter
<1> QED BY ONLY Inv, t \in Threads, pc[t] = "entry", <1>1, <1>3, op[t].f # "close", QuietStep,
                SystemCall(t, {[r |-> r, tab |-> table]}, "ret")

(* One outcome of several is taken.                                         *)
LEMMA SomeOutcome ==
    ASSUME NEW t, NEW to, NEW outcomes, SystemCall(t, outcomes, to)
    PROVE  \E o \in outcomes : SystemCall(t, {o}, to)
  BY DEF SystemCall

(* The first system call of an open makes the entry its thread will be      *)
(* given.                                                                   *)
LEMMA OpenStep == ASSUME Inv, NEW t \in Threads, openat_inner(t) PROVE Inv'
<1>1. pc[t] = "entry" /\ op[t].f = "open"
  BY DEF openat_inner, At
<1>2. op[t].cloexec \in BOOLEAN
  BY <1>1, AtEntry, CallShape
<1>3. PICK o \in SysOpenat(table, t, op[t].cloexec) :
        SystemCall(t, {o}, IF o.r >= 0 /\ op[t].cloexec THEN "cloexec" ELSE "ret")
  BY DEF openat_inner, SystemCallCp
<1>4. CASE o \in Fail(table, {ENOENT, EINTR})
  <2>1. PICK r \in Int : r >= -4095 /\ r < 0 /\ o = [r |-> r, tab |-> table]
    BY <1>4 DEF Fail, ENOENT, EINTR
  <2>2. SystemCall(t, {[r |-> r, tab |-> table]}, "ret")
    BY ONLY <1>3, <2>1
  <2> QED BY ONLY Inv, t \in Threads, <1>1, <2>1, <2>2, ErrorStep
<1>5. CASE o \in Allocate(table, t, op[t].cloexec /\ ~OldKernel)
  <2> DEFINE b == op[t].cloexec /\ ~OldKernel
  <2>1. b \in BOOLEAN /\ (op[t].cloexec \/ b = FALSE)
    OBVIOUS
  <2>2. CASE o = [r |-> -EMFILE, tab |-> table]
    <3>1. SystemCall(t, {[r |-> -EMFILE, tab |-> table]}, "ret")
      BY ONLY <1>3, <2>2 DEF EMFILE
    <3> QED BY ONLY Inv, t \in Threads, <1>1, <3>1, ErrorStep DEF EMFILE
  <2>3. ASSUME NEW fd \in Fds, table[fd] = Free,
               o = [r |-> fd, tab |-> [table EXCEPT ![fd] = [by |-> t, cloexec |-> b]]]
        PROVE  Inv'
    <3>1. o.r = fd /\ fd >= 0
      BY <2>3, FdsAssumption
    <3>2. CASE op[t].cloexec
      <4>1. SystemCall(t, {o}, "cloexec")
        BY <1>3, <3>1, <3>2
      <4> HIDE DEF b
      <4> QED BY ONLY Inv, t \in Threads, <1>1, <2>1, <2>3, <3>2, <4>1, AllocateStep DEF Allocating
    <3>3. CASE op[t].cloexec = FALSE
      <4>1. SystemCall(t, {o}, "ret") /\ b = op[t].cloexec
        BY <1>3, <3>3
      <4> HIDE DEF b
      <4> QED BY ONLY Inv, t \in Threads, <1>1, <2>1, <2>3, <4>1, AllocateStep DEF Allocating
    <3> QED BY <1>2, <3>2, <3>3
  <2> HIDE DEF b
  <2>4. o \in Allocate(table, t, b)
    BY <1>5 DEF b
  <2>5. \/ o = [r |-> -EMFILE, tab |-> table]
        \/ \E fd \in Fds :
              /\ table[fd] = Free
              /\ o = [r |-> fd, tab |-> [table EXCEPT ![fd] = [by |-> t, cloexec |-> b]]]
    BY ONLY Inv, t \in Threads, <2>1, <2>4, AllocateShape
  <2> QED BY ONLY <2>2, <2>3, <2>5
<1> QED BY <1>3, <1>4, <1>5 DEF SysOpenat

(* F_SETFD lands on the descriptor openat has just made, for the thread it  *)
(* was made for, and its result is dropped.                                 *)
LEMMA SetCloexecStep == ASSUME Inv, NEW t \in Threads, SetCloexec(t) PROVE Inv'
<1> DEFINE fd == raw[t]
           tab == [table EXCEPT ![fd].cloexec = TRUE]
           o == [r |-> fd, tab |-> tab]
<1>1. ThreadInv(t) /\ pc[t] = "cloexec"
  BY DEF Inv, SetCloexec
<1>2. /\ op[t] \in Calls /\ Arguments(op[t]) \subseteq owned[t]
      /\ op[t].f = "open" /\ op[t].cloexec /\ fd \in Fds /\ owned[t] \subseteq Fds
  BY <1>1 DEF ThreadInv, CallInv, Inv, TypeInv
<1>3. Held(t) = owned[t] \cup {fd}
  BY <1>1, <1>2 DEF Held, Released, Pending
<1>4. /\ \A x \in Held(t) : table[x] # Free /\ table[x].by = t
      /\ \A x \in Held(t) : x # fd => table[x].cloexec = asked[x]
  BY <1>1 DEF ThreadInv, HoldInv, Made, FlagInv, Wanted
<1>5. table[fd] \in Entry /\ table[fd] # Free /\ table[fd].by = t
  BY <1>2, <1>3, <1>4 DEF Inv, TypeInv
<1>6. /\ table \in [Fds -> Entry \cup {Free}] /\ asked \in [Fds -> BOOLEAN]
      /\ tab \in [Fds -> Entry \cup {Free}] /\ tab[fd] = [by |-> t, cloexec |-> TRUE]
      /\ \A x \in Fds : x # fd => tab[x] = table[x]
  BY <1>2, <1>5 DEF Inv, TypeInv, Entry
<1>7. tab[fd] # Free /\ tab[fd].by = t /\ tab[fd].cloexec = TRUE
  <2>1. tab[fd] = [by |-> t, cloexec |-> TRUE]
    BY <1>6
  <2>2. [by |-> t, cloexec |-> TRUE] # Free
    BY ONLY t \in Threads, TRUE \in BOOLEAN, FreeAssumption
  <2> HIDE DEF tab
  <2> QED BY ONLY <2>1, <2>2
<1>8. SystemCall(t, {o}, "ret")
  BY <1>5 DEF SetCloexec, SysSetfd
<1>9. o.r = fd /\ o.tab = tab /\ fd \in Int /\ fd >= 0
  BY <1>2, FdsAssumption
<1> HIDE DEF o, tab
<1>10. /\ table' = tab /\ asked' = asked /\ owned' = owned /\ op' = op
       /\ pc'[t] = "ret" /\ raw'[t] = fd
  BY <1>8, <1>9 DEF SystemCall, Inv, TypeInv
<1>11. CallInv(t)'
  BY <1>2, <1>9, <1>10 DEF CallInv, Results
<1>12. Held(t)' = Held(t)
  BY <1>2, <1>3, <1>10 DEF Held, Released, Pending
<1>13. Made(t)' = Made(t)
  BY <1>2, <1>5, <1>6, <1>7, <1>10 DEF Made
<1>14. HoldInv(t)'
  BY <1>1, <1>12, <1>13 DEF HoldInv, ThreadInv
<1>15. FlagInv(t)'
  <2>1. RetValue(fd) = fd /\ ~(fd < 0)
    BY <1>9, RetShape DEF Results
  <2>2. Wanted(t)' = [asked EXCEPT ![fd] = op[t].cloexec]
    BY <1>2, <1>10, <2>1 DEF Wanted, AskedAfter
  <2>3. op[t].cloexec = TRUE
    BY <1>2, CallShape
  <2>4. ASSUME NEW x \in Held(t) PROVE tab[x].cloexec = [asked EXCEPT ![fd] = TRUE][x]
    <3>1. x \in Fds /\ (x # fd => tab[x] = table[x] /\ table[x].cloexec = asked[x])
      BY <1>2, <1>3, <1>4, <1>6
    <3>2. CASE x = fd
      BY <1>2, <1>6, <1>7, <3>2
    <3>3. CASE x # fd
      BY <1>6, <3>1, <3>3
    <3> QED BY <3>2, <3>3
  <2> QED BY <1>10, <1>12, <2>2, <2>3, <2>4 DEF FlagInv
<1>16. ThreadInv(t)'
  BY <1>11, <1>14, <1>15 DEF ThreadInv
<1> QED BY <1>5, <1>6, <1>7, <1>8, <1>9, <1>16, SystemStep

(* close releases the entry, and says nothing on which the program would    *)
(* close again: EINTR has become 0.                                         *)
LEMMA CloseStep == ASSUME Inv, NEW t \in Threads, close(t) PROVE Inv'
<1> DEFINE fd == op[t].fd
           tab == [table EXCEPT ![fd] = Free]
<1>1. pc[t] = "entry" /\ op[t].f = "close"
  BY DEF close, At
<1>2. /\ op[t] \in Calls /\ fd \in owned[t] /\ owned[t] \subseteq Fds /\ Arguments(op[t]) \subseteq owned[t]
      /\ Made(t) = owned[t]
      /\ \A x \in owned[t] : /\ table[x] \in Entry /\ table[x] # Free /\ table[x].by = t
                             /\ table[x].cloexec = asked[x]
  BY <1>1, AtEntry, CallShape
<1>3. PICK r \in {0, -EIO} : SystemCall(t, {[r |-> r, tab |-> tab]}, "ret")
  <2>1. PICK o \in {[o EXCEPT !.r = IF @ = -EINTR THEN 0 ELSE @] : o \in SysClose(table, fd)} :
           SystemCall(t, {o}, "ret")
    BY SomeOutcome DEF close, SystemCallCp
  <2>2. PICK r \in {0, -EINTR, -EIO} :
           o = [r |-> IF r = -EINTR THEN 0 ELSE r, tab |-> tab]
    BY <1>2, <2>1 DEF SysClose
  <2>3. \E r1 \in {0, -EIO} : o = [r |-> r1, tab |-> tab]
    BY <2>2 DEF EINTR, EIO
  <2> QED BY <2>1, <2>3
<1> DEFINE o == [r |-> r, tab |-> tab]
<1>4. o.r = r /\ o.tab = tab /\ r \in Int /\ r \in Results
  BY DEF EIO, Results
<1>5. /\ table \in [Fds -> Entry \cup {Free}]
      /\ tab \in [Fds -> Entry \cup {Free}] /\ tab[fd] = Free
      /\ \A x \in Fds : x # fd => tab[x] = table[x]
  BY <1>2 DEF Inv, TypeInv
<1>6. SystemCall(t, {o}, "ret")
  BY <1>3
<1> HIDE DEF o, tab
<1>7. /\ table' = tab /\ asked' = asked /\ owned' = owned /\ op' = op
      /\ pc'[t] = "ret" /\ raw'[t] = r
  BY <1>4, <1>6 DEF SystemCall, Inv, TypeInv
<1>8. CallInv(t)'
  BY <1>1, <1>2, <1>3, <1>4, <1>7 DEF CallInv, Allocating
<1>9. Held(t)' = owned[t] \ {fd}
  BY <1>1, <1>7 DEF Held, Released, Pending
<1>10. Made(t)' = Made(t) \ {fd}
  BY <1>2, <1>5, <1>7 DEF Made
<1>11. HoldInv(t)'
  BY <1>2, <1>9, <1>10 DEF HoldInv
<1>12. FlagInv(t)'
  <2>1. Wanted(t)' = asked
    BY <1>1, <1>7 DEF Wanted, AskedAfter
  <2> QED BY <1>2, <1>5, <1>7, <1>9, <2>1 DEF FlagInv
<1>13. ThreadInv(t)'
  BY <1>8, <1>11, <1>12 DEF ThreadInv
<1> QED BY <1>2, <1>4, <1>5, <1>6, <1>13, SystemStep

(* dup, F_DUPFD and F_DUPFD_CLOEXEC.                                        *)
LEMMA DupStep ==
    ASSUME Inv, NEW t \in Threads, pc[t] = "entry", op[t].f \in {"dup", "dupfd"}, NEW b \in BOOLEAN,
           b = (IF op[t].f = "dup" THEN FALSE ELSE op[t].cloexec),
           SystemCall(t, SysDup(table, t, op[t].fd, b), "ret")
    PROVE  Inv'
<1>1. table[op[t].fd] # Free
  BY AtEntry, CallShape
<1>2. PICK o \in Allocate(table, t, b) : SystemCall(t, {o}, "ret")
  BY <1>1, SomeOutcome DEF SysDup
<1>3. CASE o = [r |-> -EMFILE, tab |-> table]
  <2>1. SystemCall(t, {[r |-> -EMFILE, tab |-> table]}, "ret")
    BY ONLY <1>2, <1>3
  <2> QED BY <2>1, ErrorStep DEF EMFILE
<1>4. ASSUME NEW fd \in Fds, table[fd] = Free,
             o = [r |-> fd, tab |-> [table EXCEPT ![fd] = [by |-> t, cloexec |-> b]]]
      PROVE  Inv'
  <2>1. op[t].f \in Allocating
    BY DEF Allocating
  <2>2. SystemCall(t, {[r |-> fd, tab |-> [table EXCEPT ![fd] = [by |-> t, cloexec |-> b]]]}, "ret")
    BY ONLY <1>2, <1>4
  <2> QED BY ONLY Inv, t \in Threads, pc[t] = "entry", b \in BOOLEAN, <1>4, <2>1, <2>2, AllocateStep,
                  b = (IF op[t].f = "dup" THEN FALSE ELSE op[t].cloexec)
<1>5. \/ o = [r |-> -EMFILE, tab |-> table]
      \/ \E fd \in Fds :
            /\ table[fd] = Free
            /\ o = [r |-> fd, tab |-> [table EXCEPT ![fd] = [by |-> t, cloexec |-> b]]]
  BY ONLY Inv, t \in Threads, b \in BOOLEAN, <1>2, AllocateShape
<1> QED BY ONLY <1>3, <1>4, <1>5

(* dup3, and dup2 of two descriptors.                                       *)
LEMMA Dup3Step ==
    ASSUME Inv, NEW t \in Threads, pc[t] = "entry", op[t].f \in {"dup2", "dup3"}, NEW b \in BOOLEAN,
           b = (IF op[t].f = "dup2" THEN FALSE ELSE op[t].cloexec),
           SystemCall(t, SysDup3(table, t, op[t].old, op[t].new, b), "ret")
    PROVE  Inv'
<1> DEFINE old == op[t].old
           new == op[t].new
<1>0. op[t] \in Calls /\ Arguments(op[t]) \subseteq owned[t]
  BY AtEntry
<1>1. old \in owned[t] /\ new \in owned[t] /\ table[old] # Free /\ new \in Nat
  <2>1. Arguments(op[t]) = {old, new} /\ new \in Fds
    BY <1>0, CallShape
  <2> QED BY <1>0, <2>1, AtEntry, FdsAssumption
<1>2. CASE old = new
  <2>1. PICK o \in Fail(table, {EINVAL}) : SystemCall(t, {o}, "ret")
    BY <1>2, SomeOutcome DEF SysDup3
  <2>2. SystemCall(t, {[r |-> -EINVAL, tab |-> table]}, "ret")
    BY ONLY <2>1 DEF Fail
  <2> QED BY <2>2, ErrorStep DEF EINVAL
<1>3. CASE old # new
  <2>1. SystemCall(t, {[r |-> new, tab |-> [table EXCEPT ![new] = [by |-> t, cloexec |-> b]]]}, "ret")
    BY <1>1, <1>3 DEF SysDup3
  <2>2. AskedAfter(op[t], new) = [asked EXCEPT ![new] = b]
    <3>1. ~(new < 0)
      BY <1>1
    <3>2. op[t].f = "dup2" => AskedAfter(op[t], new) = [asked EXCEPT ![new] = FALSE]
      BY ONLY <1>3, <3>1 DEF AskedAfter
    <3>3. op[t].f = "dup3" => AskedAfter(op[t], new) = [asked EXCEPT ![new] = op[t].cloexec]
      BY ONLY <1>3, <3>1 DEF AskedAfter
    <3>4. (op[t].f = "dup2" /\ b = FALSE) \/ (op[t].f = "dup3" /\ b = op[t].cloexec)
      BY Zenon
    <3> QED BY ONLY <3>2, <3>3, <3>4, Zenon
  <2>3. op[t].f \notin Allocating /\ op[t].f # "close"
    BY DEF Allocating
  <2> QED BY ONLY Inv, t \in Threads, pc[t] = "entry", b \in BOOLEAN, <1>1, <2>1, <2>2, <2>3, ReplaceStep
<1> QED BY <1>2, <1>3

(* dup2 of a descriptor to itself changes nothing.                          *)
LEMMA Dup2Step == ASSUME Inv, NEW t \in Threads, dup2(t) PROVE Inv'
<1> DEFINE old == op[t].old
<1>1. pc[t] = "entry" /\ op[t].f = "dup2"
  BY DEF dup2, At
<1>2. old \in owned[t] /\ table[old] # Free /\ old \in Nat
  BY <1>1, AtEntry, CallShape, FdsAssumption
<1>3. CASE old = op[t].new
  <2>1. PICK o \in {[o EXCEPT !.r = IF is_err(@) THEN @ ELSE old] : o \in SysGetfd(table, old)} :
           SystemCall(t, {o}, "ret")
    BY <1>3, SomeOutcome DEF dup2
  <2>2. o = [r |-> old, tab |-> table]
    BY <1>2, <2>1 DEF SysGetfd, is_err
  <2>3. old \in Results /\ RetValue(old) = old
    BY <1>2, RetShape DEF Results
  <2>4. AskedAfter(op[t], RetValue(old)) = asked
    BY <1>1, <1>2, <1>3, <2>3 DEF AskedAfter
  <2>5. op[t].f \notin Allocating /\ op[t].f # "close"
    BY <1>1 DEF Allocating
  <2> QED BY ONLY Inv, t \in Threads, <1>1, <2>1, <2>2, <2>3, <2>4, <2>5, QuietStep
<1>4. CASE old # op[t].new
  <2>1. SystemCall(t, SysDup3(table, t, old, op[t].new, FALSE), "ret")
    BY <1>4 DEF dup2
  <2> QED BY <1>1, <2>1, Dup3Step
<1> QED BY <1>3, <1>4

(* A call that reports a result and asks for no flag.                       *)
LEMMA ReportStep ==
    ASSUME Inv, NEW t \in Threads, pc[t] = "entry", NEW r \in Results, NEW to \in {"ret", "posix"},
           SystemCall(t, {[r |-> r, tab |-> table]}, to),
           op[t].f \in {"getfd", "transfer", "session", "posix"},
           to = "posix" => op[t].f = "posix" /\ r <= 0
    PROVE  Inv'
<1>1. AskedAfter(op[t], RetValue(r)) = asked
  BY DEF AskedAfter
<1>2. op[t].f \notin Allocating /\ op[t].f # "close"
  BY DEF Allocating
<1> QED BY <1>1, <1>2, QuietStep

(* fcntl duplicates a descriptor, or changes or reads its flags.            *)
LEMMA FcntlStep == ASSUME Inv, NEW t \in Threads, fcntl(t) PROVE Inv'
<1> DEFINE fd == op[t].fd
<1>0. pc[t] = "entry" /\ op[t].f \in {"getfd", "setfd", "dupfd"}
  BY DEF fcntl, At
<1>1. op[t] \in Calls /\ Arguments(op[t]) \subseteq owned[t]
  BY <1>0, AtEntry
<1>2. fd \in owned[t]
  BY <1>0, <1>1, CallShape
<1>3. /\ table[fd] # Free /\ table[fd] \in Entry /\ table[fd].by = t /\ fd \in Fds
      /\ table \in [Fds -> Entry \cup {Free}]
  BY <1>0, <1>2, AtEntry DEF Inv, TypeInv
<1>4. CASE op[t].f = "getfd"
  <2>1. PICK o \in SysGetfd(table, fd) : SystemCall(t, {o}, "ret")
    BY <1>4, SomeOutcome DEF fcntl, At
  <2>2. PICK r \in {0, 1} : o = [r |-> r, tab |-> table]
    BY <1>3, <2>1 DEF SysGetfd
  <2>3. r \in Results
    BY DEF Results
  <2> QED BY ONLY Inv, t \in Threads, <1>0, <1>4, <2>1, <2>2, <2>3, ReportStep
<1>5. CASE op[t].f = "setfd"
  <2> DEFINE b == op[t].cloexec
  <2>1. b \in BOOLEAN
    BY <1>1, <1>5, CallShape
  <2>2. [table EXCEPT ![fd].cloexec = b] = [table EXCEPT ![fd] = [by |-> t, cloexec |-> b]]
    <3>1. [table[fd] EXCEPT !.cloexec = b] = [by |-> t, cloexec |-> b]
      BY <1>3, <2>1 DEF Entry
    <3>2. [table EXCEPT ![fd].cloexec = b] = [table EXCEPT ![fd] = [table[fd] EXCEPT !.cloexec = b]]
      BY <1>3
    <3> QED BY ONLY <3>1, <3>2
  <2>3. SystemCall(t, {[r |-> 0, tab |-> [table EXCEPT ![fd] = [by |-> t, cloexec |-> b]]]}, "ret")
    <3>1. SystemCall(t, SysSetfd(table, fd, b), "ret")
      BY <1>5 DEF fcntl, At
    <3>2. SysSetfd(table, fd, b) = {[r |-> 0, tab |-> [table EXCEPT ![fd].cloexec = b]]}
      BY <1>3 DEF SysSetfd
    <3> QED BY <2>2, <3>1, <3>2
  <2>4. AskedAfter(op[t], 0) = [asked EXCEPT ![fd] = b]
    BY <1>5 DEF AskedAfter
  <2>5. op[t].f \notin Allocating /\ op[t].f # "close"
    BY <1>5 DEF Allocating
  <2> HIDE DEF b
  <2> QED BY ONLY Inv, t \in Threads, <1>0, <1>2, <2>1, <2>3, <2>4, <2>5, ReplaceStep
<1>6. CASE op[t].f = "dupfd"
  <2>1. op[t].cloexec \in BOOLEAN
    BY <1>1, <1>6, CallShape
  <2>2. SystemCall(t, SysDup(table, t, fd, op[t].cloexec), "ret")
    BY <1>6 DEF fcntl, At
  <2> QED BY <1>0, <1>6, <2>1, <2>2, DupStep
<1> QED BY <1>0, <1>4, <1>5, <1>6

(* Calls that leave the table as it is.                                     *)
LEMMA TransferStep ==
    ASSUME Inv, NEW t \in Threads, Transfer(t) \/ Posix(t) \/ Session(t) PROVE Inv'
<1>0. pc[t] = "entry" /\ op[t].f \in {"transfer", "posix", "session"}
  BY DEF Transfer, Posix, Session, At
<1>1. ASSUME op[t].f \in {"transfer", "posix"} PROVE table[op[t].fd] # Free
  <2>1. op[t] \in Calls /\ Arguments(op[t]) \subseteq owned[t]
    BY <1>0, AtEntry
  <2>2. op[t].fd \in owned[t]
    BY <1>1, <2>1, CallShape
  <2> QED BY <1>0, <2>2, AtEntry
<1>2. CASE Transfer(t)
  <2>1. op[t].f = "transfer"
    BY <1>2 DEF Transfer, At
  <2>2. PICK o \in SysTransfer(table, op[t].fd) : SystemCall(t, {o}, "ret")
    BY <1>2, SomeOutcome DEF Transfer, SystemCallCp
  <2>3. PICK r \in Results : o = [r |-> r, tab |-> table]
    BY <1>1, <2>1, <2>2 DEF SysTransfer, Fail, Results, EINTR, MAX_ERRNO
  <2> QED BY ONLY Inv, t \in Threads, <1>0, <2>1, <2>2, <2>3, ReportStep
<1>3. CASE Posix(t)
  <2>1. op[t].f = "posix"
    BY <1>3 DEF Posix, At
  <2>2. PICK o \in SysAdvise(table, op[t].fd) : SystemCall(t, {o}, "posix")
    BY <1>3, SomeOutcome DEF Posix
  <2>3. PICK r \in Results : r <= 0 /\ o = [r |-> r, tab |-> table]
    BY <1>1, <2>1, <2>2 DEF SysAdvise, Fail, Results, EINTR, EIO
  <2> QED BY ONLY Inv, t \in Threads, <1>0, <2>1, <2>2, <2>3, ReportStep
<1>4. CASE Session(t)
  <2>1. op[t].f = "session"
    BY <1>4 DEF Session, At
  <2>2. PICK o \in SysProcess(table) : SystemCall(t, {o}, "ret")
    BY <1>4, SomeOutcome DEF Session
  <2>3. PICK r \in Results : o = [r |-> r, tab |-> table]
    BY <2>2 DEF SysProcess, Fail, Results, EPERM
  <2> QED BY ONLY Inv, t \in Threads, <1>0, <2>1, <2>2, <2>3, ReportStep
<1> QED BY <1>2, <1>3, <1>4

-----------------------------------------------------------------------------
(* The numbers whose flag a returning call was about.                       *)
LEMMA AskedWhere ==
    ASSUME asked \in [Fds -> BOOLEAN], NEW c \in Calls, NEW r \in Int, NEW fd \in Fds,
           c.f \in Allocating /\ r >= 0 => r # fd,
           c.f # "close" => fd \notin Arguments(c)
    PROVE  AskedAfter(c, r)[fd] = asked[fd]
<1>1. CASE c.f \in Allocating
  <2>1. CASE r < 0
    BY ONLY <2>1 DEF AskedAfter
  <2>2. CASE ~(r < 0)
    <3>1. r # fd
      BY ONLY <1>1, <2>2, r \in Int, c.f \in Allocating /\ r >= 0 => r # fd
    <3>2. c.f = "dup" => AskedAfter(c, r) = [asked EXCEPT ![r] = FALSE]
      BY ONLY <2>2 DEF AskedAfter
    <3>3. c.f \in {"open", "dupfd"} => AskedAfter(c, r) = [asked EXCEPT ![r] = c.cloexec]
      BY ONLY <2>2 DEF AskedAfter
    <3>4. \E b : AskedAfter(c, r) = [asked EXCEPT ![r] = b]
      BY ONLY <1>1, <3>2, <3>3, Zenon DEF Allocating
    <3> QED BY ONLY <3>1, <3>4, asked \in [Fds -> BOOLEAN], fd \in Fds
  <2> QED BY <2>1, <2>2
<1>2. CASE c.f \in {"setfd", "dup2", "dup3"}
  <2>1. c.f = "setfd" => c.fd # fd
    BY CallShape
  <2>2. c.f \in {"dup2", "dup3"} => c.new # fd
    BY CallShape
  <2> QED BY <1>2, <2>1, <2>2 DEF AskedAfter
<1>3. CASE c.f \notin Allocating \cup {"setfd", "dup2", "dup3"}
  BY <1>3 DEF AskedAfter, Allocating
<1> QED BY <1>1, <1>2, <1>3

(* A call returns: what the program now believes is what the kernel has     *)
(* had for it all along.                                                    *)
LEMMA ReturnStep ==
    ASSUME Inv, NEW t \in Threads, NEW r \in Int, NEW e \in [Threads -> Int], Return(t, r, e),
           pc[t] \notin {"idle", "cloexec"},
           op[t].f \in Allocating /\ r >= 0 => r \in Held(t),
           OwnedAfter(op[t], r, e[t], owned[t]) = Held(t),
           AskedAfter(op[t], r) = Wanted(t)
    PROVE  Inv'
<1>1. /\ ThreadInv(t) /\ op[t] \in Calls /\ Arguments(op[t]) \subseteq owned[t]
      /\ owned[t] \subseteq Fds /\ asked \in [Fds -> BOOLEAN]
  BY DEF Inv, ThreadInv, CallInv, TypeInv
<1>2. Made(t) = Held(t) /\ Held(t) \subseteq Fds
  BY <1>1 DEF ThreadInv, HoldInv, Made
<1>3. asked' = AskedAfter(op[t], r) /\ asked' \in [Fds -> BOOLEAN]
  <2>1. op[t].f \in Allocating /\ r >= 0 => r \in Fds
    BY <1>2
  <2> QED BY <1>1, <2>1, AskedType DEF Return
<1>4. owned' = [owned EXCEPT ![t] = Held(t)]
  BY DEF Return
<1>5. TypeInv'
  BY <1>2, <1>3, <1>4 DEF Return, Inv, TypeInv
<1>6. /\ table' = table /\ pc'[t] = "idle" /\ owned'[t] = Held(t)
  BY <1>4 DEF Return, Inv, TypeInv
<1>7. ThreadInv(t)'
  <2>1. CallInv(t)'
    BY <1>6 DEF CallInv
  <2>2. Held(t)' = Held(t) /\ Made(t)' = Made(t)
    BY <1>2, <1>6 DEF Held, Released, Pending, Made
  <2>3. HoldInv(t)'
    BY <1>2, <2>2 DEF HoldInv
  <2>4. Wanted(t)' = Wanted(t)
    BY <1>3, <1>6 DEF Wanted
  <2>5. FlagInv(t)'
    BY <1>1, <1>6, <2>2, <2>4 DEF ThreadInv, FlagInv
  <2> QED BY <2>1, <2>3, <2>5 DEF ThreadInv
<1>8. ASSUME NEW u \in Threads, u # t PROVE ThreadInv(u)'
  <2>1. pc'[u] = pc[u] /\ op'[u] = op[u] /\ raw'[u] = raw[u] /\ owned'[u] = owned[u]
    BY <1>8 DEF Return, Inv, TypeInv
  <2>2. Made(u)' = Made(u)
    BY <1>6 DEF Made
  <2>3. ASSUME NEW fd \in Made(u) PROVE asked'[fd] = asked[fd]
    <3>1. fd \in Fds /\ fd \notin Held(t)
      BY <1>2, <1>8, <2>3 DEF Made
    <3>2. op[t].f \in Allocating /\ r >= 0 => r # fd
      BY <3>1
    <3>3. op[t].f # "close" => fd \notin Arguments(op[t])
      BY <1>1, <3>1 DEF Held, Released
    <3> QED BY <1>1, <1>3, <3>1, <3>2, <3>3, AskedWhere
  <2> QED BY <1>5, <1>6, <2>1, <2>2, <2>3, OtherThread
<1> QED BY <1>5, <1>7, <1>8 DEF Inv

(* ret hands the number to the program and writes errno of its thread.      *)
LEMMA RetStep == ASSUME Inv, NEW t \in Threads, ret(t) PROVE Inv'
<1> DEFINE r == RetValue(raw[t])
           e == ErrnoAfterRet(t)
<1>1. pc[t] = "ret" /\ Return(t, r, e)
  BY DEF ret
<1>2. /\ op[t] \in Calls /\ Arguments(op[t]) \subseteq owned[t] /\ raw[t] \in Results
      /\ op[t].f \in Allocating /\ raw[t] >= 0 => raw[t] \in Fds
      /\ op[t].f = "close" => raw[t] \in {0, -EIO}
  BY <1>1 DEF Inv, ThreadInv, CallInv
<1>3. /\ raw[t] \in Int /\ r \in Int
      /\ raw[t] >= 0 => r = raw[t]
      /\ ~(raw[t] >= 0) => ~(r >= 0)
  BY <1>2, RetShape
<1>4. /\ e \in [Threads -> Int]
      /\ op[t].f = "close" => r = 0 \/ e[t] = EIO
  <2>1. errno \in [Threads -> Int]
    BY DEF Inv, TypeInv
  <2>2. RetErrno(raw[t], errno[t]) \in Int
    BY <1>3, <2>1 DEF RetErrno
  <2>3. raw[t] = -EIO => RetErrno(raw[t], errno[t]) = EIO
    <3>1. ASSUME NEW x \in Int, x = -EIO PROVE is_err(x) /\ x + EIO = 0 /\ EIO \in Int
      BY ONLY <3>1 DEF EIO, is_err
    <3>2. ASSUME NEW x \in Int, x = -EIO PROVE -x = EIO
      BY ONLY <3>1, <3>2, Negation
    <3> QED BY ONLY <1>3, <3>1, <3>2 DEF RetErrno
  <2>4. raw[t] = 0 => r = 0
    BY <1>3
  <2>5. e = [errno EXCEPT ![t] = RetErrno(raw[t], errno[t])]
    BY DEF ErrnoAfterRet
  <2> QED BY ONLY t \in Threads, <1>2, <2>1, <2>2, <2>3, <2>4, <2>5
<1> HIDE DEF e
<1>5. ASSUME op[t].f \in Allocating
      PROVE  OwnedAfter(op[t], r, e[t], owned[t]) = Held(t)
  <2>1. Released(t) = {} /\ Pending(t) = {raw[t]}
    BY <1>1, <1>5 DEF Released, Pending, Allocating
  <2>2. CASE raw[t] >= 0
    <3>1. r = raw[t] /\ r >= 0
      BY <1>3, <2>2
    <3>2. Held(t) = owned[t] \cup {r}
      BY <1>2, <1>5, <2>1, <2>2, <3>1 DEF Held
    <3>3. OwnedAfter(op[t], r, e[t], owned[t]) = owned[t] \cup {r}
      BY ONLY <1>5, <3>1 DEF OwnedAfter, Allocating
    <3> QED BY <3>2, <3>3
  <2>3. CASE ~(raw[t] >= 0)
    <3>1. ~(r >= 0) /\ raw[t] \notin Fds
      BY <1>3, <2>3, FdsAssumption
    <3>2. Held(t) = owned[t]
      BY <2>1, <3>1 DEF Held
    <3>3. OwnedAfter(op[t], r, e[t], owned[t]) = owned[t]
      BY ONLY <1>5, <3>1 DEF OwnedAfter, Allocating
    <3> QED BY <3>1, <3>2, <3>3
  <2> QED BY <2>2, <2>3
<1>6. ASSUME op[t].f = "close"
      PROVE  OwnedAfter(op[t], r, e[t], owned[t]) = Held(t)
  <2>1. Held(t) = owned[t] \ {op[t].fd}
    BY <1>1, <1>6 DEF Held, Released, Pending
  <2>2. r = 0 \/ e[t] # EINTR
    BY <1>4, <1>6 DEF EINTR, EIO
  <2> QED BY ONLY <1>6, <2>1, <2>2 DEF OwnedAfter
<1>7. ASSUME op[t].f \notin Allocating /\ op[t].f # "close"
      PROVE  OwnedAfter(op[t], r, e[t], owned[t]) = Held(t)
  BY ONLY <1>7 DEF Held, Released, Pending, OwnedAfter, Allocating
<1>8. /\ OwnedAfter(op[t], r, e[t], owned[t]) = Held(t)
      /\ op[t].f \in Allocating /\ r >= 0 => r \in Held(t)
  <2>1. OwnedAfter(op[t], r, e[t], owned[t]) = Held(t)
    BY ONLY <1>5, <1>6, <1>7
  <2>2. op[t].f \in Allocating /\ r >= 0 => r \in OwnedAfter(op[t], r, e[t], owned[t])
    BY DEF OwnedAfter, Allocating
  <2> QED BY ONLY <2>1, <2>2
<1>9. AskedAfter(op[t], r) = Wanted(t)
  BY <1>1 DEF Wanted
<1>10. pc[t] \notin {"idle", "cloexec"}
  BY <1>1
<1> HIDE DEF r
<1> QED BY ONLY Inv, t \in Threads, <1>1, <1>3, <1>4, <1>8, <1>9, <1>10, ReturnStep

(* The calls that do not go through ret concern no descriptor's ownership.  *)
LEMMA PlainReturnStep ==
    ASSUME Inv, NEW t \in Threads, PosixReturn(t) \/ Identity(t) PROVE Inv'
<1>1. PICK r \in Int : Return(t, r, errno)
  BY DEF PosixReturn, Identity, Inv, TypeInv
<1>2. pc[t] \in {"entry", "posix"} /\ op[t].f \in {"posix", "identity"}
  <2>1. CallInv(t)
    BY DEF Inv, ThreadInv
  <2> QED BY <2>1 DEF PosixReturn, Identity, At, CallInv
<1>3. OwnedAfter(op[t], r, errno[t], owned[t]) = Held(t)
  BY ONLY <1>2 DEF OwnedAfter, Held, Released, Pending
<1>4. AskedAfter(op[t], r) = Wanted(t)
  BY ONLY <1>2 DEF AskedAfter, Wanted
<1>5. pc[t] \notin {"idle", "cloexec"} /\ op[t].f \notin Allocating
  BY <1>2 DEF Allocating
<1>6. errno \in [Threads -> Int]
  BY DEF Inv, TypeInv
<1> QED BY ONLY Inv, t \in Threads, <1>1, <1>3, <1>4, <1>5, <1>6, ReturnStep

(* A call begins: nothing is in flight yet.                                 *)
LEMMA CallStep == ASSUME Inv, NEW t \in Threads, Call(t) PROVE Inv'
<1>1. PICK c \in Calls : Arguments(c) \subseteq owned[t] /\ op' = [op EXCEPT ![t] = c]
  BY DEF Call
<1>2. /\ pc[t] = "idle" /\ pc' = [pc EXCEPT ![t] = "entry"] /\ res' = [res EXCEPT ![t] = 0]
      /\ table' = table /\ errno' = errno /\ raw' = raw /\ owned' = owned /\ asked' = asked
  BY DEF Call
<1>3. TypeInv'
  BY <1>1, <1>2 DEF Inv, TypeInv
<1>4. ASSUME NEW u \in Threads PROVE Made(u)' = Made(u)
  BY <1>2 DEF Made
<1>5. ThreadInv(t)'
  <2>1. ThreadInv(t) /\ pc'[t] = "entry" /\ op'[t] = c
    BY <1>1, <1>2 DEF Inv, TypeInv
  <2>2. CallInv(t)'
    BY <1>1, <1>2, <2>1 DEF CallInv
  <2>3. Held(t)' = Held(t)
    BY <1>2, <2>1 DEF Held, Released, Pending
  <2>4. HoldInv(t)'
    BY <1>4, <2>1, <2>3 DEF ThreadInv, HoldInv
  <2>5. FlagInv(t)'
    BY <1>2, <2>1, <2>3 DEF ThreadInv, FlagInv, Wanted
  <2> QED BY <2>2, <2>4, <2>5 DEF ThreadInv
<1>6. ASSUME NEW u \in Threads, u # t PROVE ThreadInv(u)'
  <2>1. pc'[u] = pc[u] /\ op'[u] = op[u]
    BY <1>1, <1>2, <1>6 DEF Inv, TypeInv
  <2> QED BY <1>2, <1>3, <1>4, <2>1, OtherThread
<1> QED BY <1>3, <1>5, <1>6 DEF Inv

(* The table is free and nobody is in a call at first.                      *)
LEMMA InitInv == Init => Inv
<1> SUFFICES ASSUME Init PROVE Inv
  OBVIOUS
<1>1. TypeInv
  BY DEF Init, TypeInv
<1>2. ASSUME NEW t \in Threads PROVE ThreadInv(t)
  <2>1. pc[t] = "idle" /\ owned[t] = {} /\ \A fd \in Fds : table[fd] = Free
    BY DEF Init
  <2>2. Held(t) = {} /\ Made(t) = {}
    BY <2>1 DEF Held, Made, Released, Pending
  <2> QED BY <2>1, <2>2 DEF ThreadInv, CallInv, HoldInv, FlagInv
<1> QED BY <1>1, <1>2 DEF Inv

(* Every step of every thread preserves the invariant.                      *)
LEMMA StepInv == Inv /\ [Next]_vars => Inv'
<1> SUFFICES ASSUME Inv, [Next]_vars PROVE Inv'
  OBVIOUS
<1>1. ASSUME NEW t \in Threads, Step(t) PROVE Inv'
  <2>1. CASE openat_inner(t)
    BY <2>1, OpenStep
  <2>2. CASE SetCloexec(t)
    BY <2>2, SetCloexecStep
  <2>3. CASE close(t)
    BY <2>3, CloseStep
  <2>4. CASE dup(t)
    BY <2>4, DupStep DEF dup, At
  <2>5. CASE dup2(t)
    BY <2>5, Dup2Step
  <2>6. CASE dup3(t)
    <3>1. pc[t] = "entry" /\ op[t].f = "dup3"
      BY <2>6 DEF dup3, At
    <3>2. op[t].cloexec \in BOOLEAN
      BY <3>1, AtEntry, CallShape
    <3>3. SystemCall(t, SysDup3(table, t, op[t].old, op[t].new, op[t].cloexec), "ret")
      BY <2>6 DEF dup3
    <3> QED BY ONLY Inv, t \in Threads, <3>1, <3>2, <3>3, Dup3Step
  <2>7. CASE fcntl(t)
    BY <2>7, FcntlStep
  <2>8. CASE Transfer(t) \/ Posix(t) \/ Session(t)
    BY <2>8, TransferStep
  <2>9. CASE PosixReturn(t) \/ Identity(t)
    BY <2>9, PlainReturnStep
  <2>10. CASE ret(t)
    BY <2>10, RetStep
  <2> QED BY <1>1, <2>1, <2>2, <2>3, <2>4, <2>5, <2>6, <2>7, <2>8, <2>9, <2>10 DEF Step
<1>2. ASSUME NEW t \in Threads, Call(t) PROVE Inv'
  BY <1>2, CallStep
<1>3. CASE UNCHANGED vars
  <2>1. TypeInv'
    BY <1>3 DEF vars, Inv, TypeInv
  <2>2. ASSUME NEW u \in Threads PROVE ThreadInv(u)'
    <3>1. Made(u)' = Made(u)
      BY <1>3 DEF vars, Made
    <3> QED BY <1>3, <2>1, <3>1, OtherThread DEF vars
  <2> QED BY <2>1, <2>2 DEF Inv
<1> QED BY <1>1, <1>2, <1>3 DEF Next, Done

(* Where each thread is, what it holds and what flags it wants agree with   *)
(* the kernel's table in every reachable state.                             *)
THEOREM Invariance == Spec => []Inv
  BY InitInv, StepInv, PTL DEF Spec

-----------------------------------------------------------------------------
(* No thread holds a number that another has been given, for any number of  *)
(* threads: close (unistd/src/syscalls.rs) reports EINTR as success, so no  *)
(* program closes twice.                                                    *)
THEOREM OwnershipIsMine == Spec => []OwnedIsMine
<1>1. Inv => OwnedIsMine
  <2> SUFFICES ASSUME Inv, NEW t \in Threads, NEW fd \in owned[t] \ Released(t)
               PROVE  table[fd] # Free /\ table[fd].by = t
    BY DEF OwnedIsMine
  <2>1. fd \in Held(t) /\ Made(t) = Held(t)
    BY DEF Held, Inv, ThreadInv, HoldInv
  <2> QED BY <2>1 DEF Made
<1> QED BY <1>1, Invariance, PTL

(* Every entry of the table is held by, or about to be returned to, the     *)
(* thread it was made for, whatever failed on the way.                      *)
THEOREM NothingLeaks == Spec => []NoLeak
<1>1. Inv => NoLeak
  <2> SUFFICES ASSUME Inv, NEW fd \in Fds, table[fd] # Free
               PROVE  fd \in owned[table[fd].by] \cup Pending(table[fd].by)
    BY DEF NoLeak
  <2> DEFINE t == table[fd].by
  <2>1. t \in Threads
    BY DEF Inv, TypeInv, Entry
  <2>2. fd \in Made(t) /\ Made(t) = Held(t)
    BY <2>1 DEF Made, Inv, ThreadInv, HoldInv
  <2> QED BY <2>2 DEF Held
<1> QED BY <1>1, Invariance, PTL

(* Flags are as asked between calls, on kernels that ignore O_CLOEXEC too:  *)
(* openat_inner's second system call (fcntl/src/syscalls.rs) lands on the   *)
(* descriptor it is meant for.                                              *)
THEOREM FlagsAsAsked == Spec => []CloexecAsAsked
<1>1. Inv => CloexecAsAsked
  <2> SUFFICES ASSUME Inv, NEW t \in Threads, pc[t] = "idle", NEW fd \in owned[t]
               PROVE  table[fd].cloexec = asked[fd]
    BY DEF CloexecAsAsked
  <2>1. FlagInv(t) /\ fd \in Held(t)
    BY DEF Inv, ThreadInv, Held, Released
  <2> QED BY <2>1 DEF FlagInv, Wanted
<1> QED BY <1>1, Invariance, PTL

(* A call returns -1 exactly when its own system call failed, and changes   *)
(* errno only then, its own thread's; the posix_ calls return their error.  *)
THEOREM ErrnoOwn == Spec => ErrnoIsOwn
<1> DEFINE Failed(t) == raw[t] \in -MAX_ERRNO .. -1
           Own(t) ==
       /\ errno'[t] # errno[t] => pc[t] = "ret" /\ Failed(t)
       /\ pc[t] = "ret" /\ pc'[t] = "idle" =>
             IF Failed(t) THEN res'[t] = -1 /\ errno'[t] = -raw[t] ELSE res'[t] = raw[t]
       /\ pc[t] = "posix" /\ pc'[t] = "idle" => res'[t] = -raw[t] /\ res'[t] >= 0
<1>1. Inv /\ [Next]_vars => [\A t \in Threads : Own(t)]_vars
  <2> SUFFICES ASSUME Inv, Next, NEW t \in Threads PROVE Own(t)
    BY DEF vars
  <2>0. /\ errno \in [Threads -> Int] /\ res \in [Threads -> Int]
        /\ pc \in [Threads -> {"idle", "entry", "cloexec", "ret", "posix"}]
    BY DEF Inv, TypeInv
  <2>1. ASSUME errno' = errno, pc'[t] = pc[t] \/ pc'[t] # "idle" PROVE Own(t)
    BY <2>1
  <2>2. ASSUME NEW u \in Threads, NEW r, Return(u, r, errno), pc[u] \in {"entry", "posix"},
               pc[u] = "posix" => r = -raw[u]
        PROVE  Own(t)
    <3>1. CASE u # t
      <4>1. pc'[t] = pc[t] /\ errno' = errno
        BY <2>0, <2>2, <3>1 DEF Return
      <4> QED BY <2>1, <4>1
    <3>2. CASE u = t
      <4>1. errno' = errno /\ res'[t] = r
        BY <2>0, <2>2, <3>2 DEF Return
      <4>2. pc[t] = "posix" => raw[t] \in Results /\ raw[t] <= 0 /\ r = -raw[t]
        BY <2>2, <3>2 DEF Inv, ThreadInv, CallInv
      <4>3. pc[t] # "ret"
        BY <2>2, <3>2
      <4>4. pc[t] = "posix" => -raw[t] >= 0
        <5>1. \A x \in Results : x <= 0 => -x >= 0
          BY ONLY Negation DEF Results
        <5> QED BY ONLY <4>2, <5>1, Zenon
      <4> QED BY ONLY <4>1, <4>2, <4>3, <4>4
    <3> QED BY <3>1, <3>2
  <2>3. ASSUME NEW u \in Threads, ret(u) PROVE Own(t)
    <3>1. pc[u] = "ret" /\ raw[u] \in Results
      BY <2>3 DEF ret, Inv, ThreadInv, CallInv
    <3>2. /\ errno' = [errno EXCEPT ![u] = RetErrno(raw[u], errno[u])]
          /\ res' = [res EXCEPT ![u] = RetValue(raw[u])] /\ pc' = [pc EXCEPT ![u] = "idle"]
      BY <2>3 DEF ret, Return, ErrnoAfterRet
    <3>3. CASE u # t
      BY <2>0, <3>2, <3>3
    <3>4. CASE u = t
      <4>1. errno'[t] = RetErrno(raw[t], errno[t]) /\ res'[t] = RetValue(raw[t])
        BY <2>0, <3>2, <3>4
      <4>2. raw[t] \in Int /\ (is_err(raw[t]) <=> Failed(t))
        BY ONLY <3>1, <3>4, ErrorRange
      <4> QED BY <3>1, <3>4, <4>1, <4>2 DEF RetErrno, RetValue
    <3> QED BY <3>3, <3>4
  <2>4. ASSUME NEW u \in Threads, NEW to \in {"cloexec", "ret", "posix"}, NEW outcomes,
               SystemCall(u, outcomes, to)
        PROVE  Own(t)
    <3>1. errno' = errno /\ (pc'[t] = pc[t] \/ pc'[t] # "idle")
      BY <2>0, <2>4 DEF SystemCall
    <3> QED BY <2>1, <3>1
  <2>5. ASSUME NEW u \in Threads, Call(u) PROVE Own(t)
    <3>1. errno' = errno /\ (pc'[t] = pc[t] \/ pc'[t] # "idle")
      BY <2>0, <2>5 DEF Call
    <3> QED BY <2>1, <3>1
  <2>6. CASE Done
    BY <2>6 DEF Done, vars
  <2>7. ASSUME NEW u \in Threads, Step(u) PROVE Own(t)
    <3>1. CASE PosixReturn(u) \/ Identity(u)
      <4>1. CASE PosixReturn(u)
        BY <2>2, <4>1 DEF PosixReturn
      <4>2. CASE Identity(u)
        BY <2>2, <4>2 DEF Identity, At
      <4> QED BY <3>1, <4>1, <4>2
    <3>2. CASE ret(u)
      BY <2>3, <3>2
    <3>3. CASE openat_inner(u)
      <4>1. \E o, to : to \in {"cloexec", "ret", "posix"} /\ SystemCall(u, {o}, to)
        BY <3>3 DEF openat_inner, SystemCallCp
      <4> QED BY <2>4, <4>1
    <3>4. CASE SetCloexec(u) \/ close(u) \/ dup(u) \/ dup2(u) \/ dup3(u) \/ fcntl(u)
               \/ Transfer(u) \/ Posix(u) \/ Session(u)
      <4>1. \E outcomes, to : to \in {"cloexec", "ret", "posix"} /\ SystemCall(u, outcomes, to)
        BY <3>4 DEF SetCloexec, close, dup, dup2, dup3, fcntl, Transfer, Posix, Session, SystemCallCp
      <4> QED BY <2>4, <4>1
    <3> QED BY <2>7, <3>1, <3>2, <3>3, <3>4 DEF Step
  <2> QED BY <2>5, <2>6, <2>7 DEF Next
<1>2. Spec => [][\A t \in Threads : Own(t)]_vars
  BY <1>1, Invariance, PTL DEF Spec
<1> QED BY <1>2 DEF ErrnoIsOwn
=============================================================================
