----------------------------- MODULE Descriptors -----------------------------
(***************************************************************************)
(* File descriptors in a program with several threads: open, openat and    *)
(* creat (crates/mytilus-fcntl), dup, dup2, dup3, close and the transfer   *)
(* calls (crates/mytilus-unistd), calls about processes that have nothing  *)
(* to do with descriptors (crates/mytilus-process), and the return         *)
(* convention they end with (ret of crates/mytilus-sys and the             *)
(* thread-local errno of crates/mytilus-errno).                            *)
(*                                                                         *)
(* The descriptor table is the kernel's: each system call is an operator   *)
(* that gives the possible outcomes, a return value and the new table.     *)
(* A library call is its system calls, one step each, and the step that    *)
(* classifies the result.                                                  *)
(*                                                                         *)
(* The program is a disciplined one: a thread works only on descriptors it *)
(* has been given and has not closed, and closes again when close says     *)
(* EINTR, as POSIX programs do.                                            *)
(***************************************************************************)
EXTENDS Errno, FiniteSets

CONSTANTS
    Threads,
    Fds,        \* the descriptor numbers the process may use
    OldKernel,  \* TRUE: a kernel that ignores O_CLOEXEC in openat
    Free,       \* an unused entry of the table
    NoCall,
    MaxCalls    \* bound: the number of calls each thread makes

ASSUME FdsAssumption == Fds \subseteq Nat /\ IsFiniteSet(Fds) /\ Fds # {}
ASSUME KernelAssumption == OldKernel \in BOOLEAN
ASSUME CallsAssumption == MaxCalls \in Nat
ASSUME FreeAssumption == \A e \in [by : Threads, cloexec : BOOLEAN] : e # Free

VARIABLES
    table,  \* the kernel's descriptor table
    errno,  \* errno[t]: ERRNO_VAL of thread t
    pc, op, \* where thread t is, in which call
    raw,    \* raw[t]: what the last system call of t returned
    res,    \* res[t]: the result of t's last call, 0 during a call
    owned,  \* owned[t]: the descriptors the program thinks t has
    asked,  \* asked[fd]: close-on-exec as its owner last asked for it
    calls

vars == <<table, errno, pc, op, raw, res, owned, asked, calls>>

-----------------------------------------------------------------------------
(* The kernel.                                                              *)

Fail(tab, errors) == {[r |-> -e, tab |-> tab] : e \in errors}

(* The lowest unused number becomes an entry that belongs to thread t.      *)
Allocate(tab, t, cloexec) ==
    LET free == {fd \in Fds : tab[fd] = Free}
    IN  IF free = {} THEN Fail(tab, {EMFILE})
        ELSE LET fd == CHOOSE x \in free : \A y \in free : x <= y
             IN  {[r |-> fd, tab |-> [tab EXCEPT ![fd] = [by |-> t, cloexec |-> cloexec]]]}

SysOpenat(tab, t, cloexec) ==
    Fail(tab, {ENOENT, EINTR}) \cup Allocate(tab, t, cloexec /\ ~OldKernel)

(* Linux releases the entry whatever close goes on to report.               *)
SysClose(tab, fd) ==
    IF tab[fd] = Free THEN Fail(tab, {EBADF})
    ELSE {[r |-> r, tab |-> [tab EXCEPT ![fd] = Free]] : r \in {0, -EINTR, -EIO}}

SysDup(tab, t, fd, cloexec) ==
    IF tab[fd] = Free THEN Fail(tab, {EBADF}) ELSE Allocate(tab, t, cloexec)

SysDup3(tab, t, old, new, cloexec) ==
    IF old = new THEN Fail(tab, {EINVAL})
    ELSE IF tab[old] = Free THEN Fail(tab, {EBADF})
    ELSE {[r |-> new, tab |-> [tab EXCEPT ![new] = [by |-> t, cloexec |-> cloexec]]]}

SysGetfd(tab, fd) ==
    IF tab[fd] = Free THEN Fail(tab, {EBADF})
    ELSE {[r |-> IF tab[fd].cloexec THEN 1 ELSE 0, tab |-> tab]}

SysSetfd(tab, fd, cloexec) ==
    IF tab[fd] = Free THEN Fail(tab, {EBADF})
    ELSE {[r |-> 0, tab |-> [tab EXCEPT ![fd].cloexec = cloexec]]}

(* read, write, lseek, fsync, fdatasync, F_SETLKW: an error, up to the      *)
(* greatest, or a result: a count, or an lseek offset of a device, which as *)
(* a signed number may lie below all errors.                                *)
SysTransfer(tab, fd) ==
    IF tab[fd] = Free THEN Fail(tab, {EBADF})
    ELSE Fail(tab, {EINTR, MAX_ERRNO}) \cup {[r |-> r, tab |-> tab] : r \in {1, -4097}}

SysAdvise(tab, fd) ==
    IF tab[fd] = Free THEN Fail(tab, {EBADF})
    ELSE Fail(tab, {EINTR, EIO}) \cup {[r |-> 0, tab |-> tab]}

SysProcess(tab) == Fail(tab, {EPERM}) \cup {[r |-> 1, tab |-> tab]}

-----------------------------------------------------------------------------
Calls ==
    [f : {"open"}, cloexec : BOOLEAN] \cup [f : {"identity", "session"}]
        \cup [f : {"close", "dup", "getfd", "transfer", "posix"}, fd : Fds]
        \cup [f : {"setfd", "dupfd"}, fd : Fds, cloexec : BOOLEAN]
        \cup [f : {"dup2"}, old : Fds, new : Fds]
        \cup [f : {"dup3"}, old : Fds, new : Fds, cloexec : BOOLEAN]

Arguments(c) == IF c.f \in {"open", "identity", "session"} THEN {}
                ELSE IF c.f \in {"dup2", "dup3"} THEN {c.old, c.new}
                ELSE {c.fd}

Init ==
    /\ table = [fd \in Fds |-> Free]
    /\ errno = [t \in Threads |-> 0]
    /\ pc = [t \in Threads |-> "idle"]
    /\ op = [t \in Threads |-> NoCall]
    /\ raw = [t \in Threads |-> 0]
    /\ res = [t \in Threads |-> 0]
    /\ owned = [t \in Threads |-> {}]
    /\ asked = [fd \in Fds |-> FALSE]
    /\ calls = [t \in Threads |-> 0]

Call(t) ==
    /\ pc[t] = "idle"
    /\ calls[t] < MaxCalls
    /\ \E c \in Calls :
          /\ Arguments(c) \subseteq owned[t]
          /\ op' = [op EXCEPT ![t] = c]
    /\ pc' = [pc EXCEPT ![t] = "entry"]
    /\ calls' = [calls EXCEPT ![t] = @ + 1]
    /\ res' = [res EXCEPT ![t] = 0]
    /\ UNCHANGED <<table, errno, raw, owned, asked>>

(* Thread t, in function f, makes the system call with these outcomes and   *)
(* goes to label `to' with the result.  A function that gives a result of   *)
(* its own replaces the r of the outcomes.                                  *)
At(t, f) == pc[t] = "entry" /\ op[t].f = f

SystemCall(t, outcomes, to) ==
    /\ \E o \in outcomes :
          /\ table' = o.tab
          /\ raw' = [raw EXCEPT ![t] = o.r]
    /\ pc' = [pc EXCEPT ![t] = to]
    /\ UNCHANGED <<errno, op, res, owned, asked, calls>>

(* A cancellation point: __syscall_cp_asm looks at the cancel flag first,   *)
(* and __cancel would end the process.  The flag is never set.              *)
DUMMY_CANCEL == 0

SystemCallCp(t, outcomes, to) == DUMMY_CANCEL = 0 /\ SystemCall(t, outcomes, to)

(* openat_inner: open, openat and creat.                                    *)
openat_inner(t) ==
    /\ At(t, "open")
    /\ \E o \in SysOpenat(table, t, op[t].cloexec) :
          SystemCallCp(t, {o}, IF o.r >= 0 /\ op[t].cloexec THEN "cloexec" ELSE "ret")

(* Mutant: the result of the second system call replaces the descriptor.    *)
SetCloexecMutant(t) ==
    /\ pc[t] = "cloexec"
    /\ SystemCall(t, SysSetfd(table, raw[t], TRUE), "ret")

(* Its second system call, whose result is dropped.                         *)
SetCloexec(t) ==
    /\ pc[t] = "cloexec"
    /\ SystemCall(t, {[o EXCEPT !.r = raw[t]] : o \in SysSetfd(table, raw[t], TRUE)}, "ret")

(* Mutant: EINTR is reported to the program, which closes again.            *)
closeMutant(t) ==
    /\ At(t, "close")
    /\ SystemCallCp(t, SysClose(table, op[t].fd), "ret")

close(t) ==
    /\ At(t, "close")
    /\ SystemCallCp(t, {[o EXCEPT !.r = IF @ = -EINTR THEN 0 ELSE @] :
                            o \in SysClose(table, op[t].fd)}, "ret")

dup(t) ==
    /\ At(t, "dup")
    /\ SystemCall(t, SysDup(table, t, op[t].fd, FALSE), "ret")

(* Mutant: dup2 of a descriptor to itself closes and reopens it, so that    *)
(* its close-on-exec flag is lost.                                          *)
dup2Mutant(t) ==
    /\ At(t, "dup2")
    /\ LET new == op[t].new
           outcomes == IF op[t].old = new THEN SysSetfd(table, new, FALSE)
                       ELSE SysDup3(table, t, op[t].old, new, FALSE)
       IN  SystemCall(t, {[o EXCEPT !.r = IF is_err(@) THEN @ ELSE new] : o \in outcomes}, "ret")

(* dup2 of a descriptor to itself only asks whether it is open.             *)
dup2(t) ==
    /\ At(t, "dup2")
    /\ IF op[t].old = op[t].new
         THEN SystemCall(t, {[o EXCEPT !.r = IF is_err(@) THEN @ ELSE op[t].old] :
                                 o \in SysGetfd(table, op[t].old)}, "ret")
         ELSE SystemCall(t, SysDup3(table, t, op[t].old, op[t].new, FALSE), "ret")

dup3(t) ==
    /\ At(t, "dup3")
    /\ SystemCall(t, SysDup3(table, t, op[t].old, op[t].new, op[t].cloexec), "ret")

(* fcntl passes F_GETFD, F_SETFD, F_DUPFD and F_DUPFD_CLOEXEC through.      *)
fcntl(t) ==
    \/ /\ At(t, "getfd")
       /\ SystemCall(t, SysGetfd(table, op[t].fd), "ret")
    \/ /\ At(t, "setfd")
       /\ SystemCall(t, SysSetfd(table, op[t].fd, op[t].cloexec), "ret")
    \/ /\ At(t, "dupfd")
       /\ SystemCall(t, SysDup(table, t, op[t].fd, op[t].cloexec), "ret")

Transfer(t) ==
    /\ At(t, "transfer")
    /\ SystemCallCp(t, SysTransfer(table, op[t].fd), "ret")

(* posix_fadvise and posix_fallocate.                                       *)
Posix(t) ==
    /\ At(t, "posix")
    /\ SystemCall(t, SysAdvise(table, op[t].fd), "posix")

(* What a disciplined program remembers when call c returns r with errno e. *)
OwnedAfter(c, r, e, mine) ==
    IF c.f \in {"open", "dup", "dupfd"} /\ r >= 0 THEN mine \cup {r}
    ELSE IF c.f = "close" /\ (r = 0 \/ e # EINTR) THEN mine \ {c.fd}
    ELSE mine

AskedAfter(c, r) ==
    IF r < 0 THEN asked
    ELSE IF c.f = "open" \/ c.f = "dupfd" THEN [asked EXCEPT ![r] = c.cloexec]
    ELSE IF c.f = "dup" THEN [asked EXCEPT ![r] = FALSE]
    ELSE IF c.f = "setfd" THEN [asked EXCEPT ![c.fd] = c.cloexec]
    ELSE IF c.f = "dup2" /\ c.old # c.new THEN [asked EXCEPT ![c.new] = FALSE]
    ELSE IF c.f = "dup3" THEN [asked EXCEPT ![c.new] = c.cloexec]
    ELSE asked

(* Mutant: one errno for all threads.                                       *)
ErrnoAfterRetMutant(t) ==
    IF is_err(raw[t]) THEN [u \in Threads |-> -raw[t]] ELSE errno

(* ret: a raw error becomes -1 and errno, anything else is the result.      *)
ErrnoAfterRet(t) ==
    [errno EXCEPT ![t] = RetErrno(raw[t], @)]

Return(t, r, errnos) ==
    /\ errno' = errnos
    /\ res' = [res EXCEPT ![t] = r]
    /\ owned' = [owned EXCEPT ![t] = OwnedAfter(op[t], r, errnos[t], @)]
    /\ asked' = AskedAfter(op[t], r)
    /\ pc' = [pc EXCEPT ![t] = "idle"]
    /\ op' = [op EXCEPT ![t] = NoCall]
    /\ raw' = [raw EXCEPT ![t] = 0]
    /\ UNCHANGED <<table, calls>>

ret(t) == pc[t] = "ret" /\ Return(t, RetValue(raw[t]), ErrnoAfterRet(t))

(* The posix_ calls return the error number itself and leave errno alone.   *)
PosixReturn(t) == pc[t] = "posix" /\ Return(t, -raw[t], errno)

(* getpid, getppid, the ids and getpgrp: what the kernel returns, as it is. *)
Identity(t) == At(t, "identity") /\ Return(t, 1, errno)

(* getsid, getpgid, setpgid, setsid and kill.                               *)
Session(t) == At(t, "session") /\ SystemCall(t, SysProcess(table), "ret")

Done ==
    /\ \A t \in Threads : pc[t] = "idle" /\ calls[t] = MaxCalls
    /\ UNCHANGED vars

Step(t) ==
    \/ openat_inner(t) \/ SetCloexec(t) \/ close(t)
    \/ dup(t) \/ dup2(t) \/ dup3(t) \/ fcntl(t) \/ Transfer(t)
    \/ Posix(t) \/ PosixReturn(t) \/ Identity(t) \/ Session(t) \/ ret(t)

Next == (\E t \in Threads : Call(t) \/ Step(t)) \/ Done

Spec == Init /\ [][Next]_vars

-----------------------------------------------------------------------------
(* The descriptor a close in progress has already released.                 *)
Released(t) == IF pc[t] = "ret" /\ op[t].f = "close" THEN {op[t].fd} ELSE {}

(* What the EINTR -> 0 mapping of close is for: a thread never holds (and   *)
(* so never closes, reads or duplicates) a number that another thread has   *)
(* been given in the meantime.                                              *)
OwnedIsMine ==
    \A t \in Threads : \A fd \in owned[t] \ Released(t) :
        table[fd] # Free /\ table[fd].by = t

(* The entry a call in progress has allocated and not yet returned.         *)
Pending(t) ==
    IF pc[t] \in {"cloexec", "ret"} /\ op[t].f \in {"open", "dup", "dupfd"} THEN {raw[t]} ELSE {}

(* No descriptor leaks: every entry in the table is known to the thread it  *)
(* was made for or about to be returned to it, whatever became of the       *)
(* second system call of openat_inner.                                      *)
NoLeak ==
    \A fd \in Fds : table[fd] # Free =>
        fd \in owned[table[fd].by] \cup Pending(table[fd].by)

(* Every descriptor is close-on-exec exactly when its owner last asked for  *)
(* that, also on a kernel that ignores O_CLOEXEC, and openat_inner's late   *)
(* F_SETFD never lands on a descriptor that has changed hands.              *)
CloexecAsAsked ==
    \A t \in Threads : pc[t] = "idle" =>
        \A fd \in owned[t] : table[fd].cloexec = asked[fd]

(* errno belongs to its thread and to the calls that say so by -1: such a   *)
(* call fails exactly when its own system call did, by the kernel's reading *)
(* of its result and not by is_err, and errno is then that error; any other *)
(* result is passed on as it is.  posix_fadvise and posix_fallocate report  *)
(* every error as their result, and nothing else touches errno.             *)
ErrnoIsOwn ==
    [][\A t \in Threads :
          LET failed == raw[t] \in -MAX_ERRNO .. -1
          IN  /\ errno'[t] # errno[t] => pc[t] = "ret" /\ failed
              /\ pc[t] = "ret" /\ pc'[t] = "idle" =>
                    IF failed THEN res'[t] = -1 /\ errno'[t] = -raw[t] ELSE res'[t] = raw[t]
              /\ pc[t] = "posix" /\ pc'[t] = "idle" =>
                    res'[t] = -raw[t] /\ res'[t] >= 0]_vars
=============================================================================
