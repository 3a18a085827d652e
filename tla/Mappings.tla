------------------------------ MODULE Mappings ------------------------------
(***************************************************************************)
(* The memory mappings of a program with several threads: mmap, munmap,    *)
(* mremap, madvise, posix_madvise and the calls that are passed through    *)
(* (crates/mytilus-mman).  The kernel's address space is mem, a page is    *)
(* Unmapped or holds a value, and a fresh page holds 0.  The kernel's      *)
(* pages have KernelPage bytes; the library checks offsets against a       *)
(* PAGE_SIZE of its own, which need not be as large.                       *)
(*                                                                         *)
(* The program is a disciplined one: a thread works on pages it has been   *)
(* given, gives pages up when it calls munmap, and takes them back when    *)
(* munmap fails.  wrote is what it expects to find in its pages.           *)
(***************************************************************************)
EXTENDS Errno

CONSTANTS
    Threads,
    Pages,        \* page numbers; page p begins at the address p * KernelPage
    KernelPage, PAGE_SIZE, PTRDIFF_MAX,
    Hints,        \* the addresses mmap is given as hints
    Sizes,        \* the lengths, in bytes
    Offsets,      \* the file offsets, in bytes
    Unmapped, NoCall,
    MaxCalls      \* bound: the calls of all threads together

ASSUME PagesAssumption == Pages \subseteq Nat \ {0} /\ Hints \subseteq Pages
ASSUME PageSizeAssumption ==
    PAGE_SIZE \in Nat \ {0} /\ KernelPage \in Nat \ {0} /\ KernelPage % PAGE_SIZE = 0
ASSUME SizesAssumption == Sizes \subseteq Nat /\ Offsets \subseteq Nat /\ PTRDIFF_MAX \in Nat
ASSUME UnmappedAssumption == Unmapped \notin {0, 1}

VARIABLES
    mem,             \* mem[p]: the kernel's view of page p
    errno, pc, op,
    raw,             \* raw[t]: what the system call of t returned
    res,             \* res[t]: the result of t's last call, 0 during a call
    own, wrote,      \* what t thinks: the pages own[t], holding wrote[t][p]
    calls

vars == <<mem, errno, pc, op, raw, res, own, wrote, calls>>

NULL == 0
MAP_FAILED == -1

-----------------------------------------------------------------------------
(* The kernel.                                                              *)
Rounded(len) == (len + KernelPage - 1) \div KernelPage
Run(p, len) == p .. p + Rounded(len) - 1
Mapped(m) == {p \in Pages : m[p] # Unmapped}
Holes(m, len) == {p \in Pages : Run(p, len) \subseteq Pages \ Mapped(m)}
Put(m, set, v) == [p \in Pages |-> IF p \in set THEN v ELSE m[p]]

Fail(m, errors) == {[r |-> -e, mem |-> m] : e \in errors}
Address(p) == p * KernelPage
PageOf(r) == r \div KernelPage

SysMmap(m, c) ==
    LET at == IF c.fixed THEN {c.page} \cap {p \in Pages : Run(p, c.len) \subseteq Pages}
                         ELSE Holes(m, c.len)
    IN  IF c.len = 0 \/ c.off % KernelPage # 0 THEN Fail(m, {EINVAL})
        ELSE Fail(m, {ENOMEM, EPERM})
               \cup {[r |-> Address(p), mem |-> Put(m, Run(p, c.len), 0)] : p \in at}

SysMunmap(m, c) ==
    Fail(m, {ENOMEM}) \cup {[r |-> 0, mem |-> Put(m, Run(c.page, c.len), Unmapped)]}

(* The first pages of a mapping that grows or moves keep what they hold.    *)
Moved(m, c, to) ==
    LET old == Run(c.page, c.old)
        new == Run(to, c.len)
    IN  [p \in Pages |-> IF p \in new
                           THEN LET q == c.page + (p - to) IN IF q \in old THEN m[q] ELSE 0
                           ELSE IF p \in old THEN Unmapped ELSE m[p]]

SysMremap(m, c) ==
    LET freed == Put(m, Run(c.page, c.old), Unmapped)
        moves == IF c.maymove /\ Rounded(c.len) > Rounded(c.old) THEN Holes(m, c.len) ELSE {}
        at == moves \cup ({c.page} \cap Holes(freed, c.len))
    IN  IF c.len = 0 THEN Fail(m, {EINVAL})
        ELSE Fail(m, {ENOMEM}) \cup {[r |-> Address(p), mem |-> Moved(m, c, p)] : p \in at}

(* Linux takes MADV_DONTNEED as leave to throw the pages away.              *)
SysMadvise(m, c) ==
    Fail(m, {EINVAL}) \cup
        {[r |-> 0, mem |-> IF c.advice = "dontneed" THEN Put(m, Run(c.page, c.len), 0) ELSE m]}

SysForward(m) == Fail(m, {EINVAL, ENOMEM}) \cup {[r |-> 0, mem |-> m]}

-----------------------------------------------------------------------------
(* The calls: addr is NULL or a hint unless MAP_FIXED is given, and         *)
(* MAP_FIXED is given for the thread's own pages, and for page zero, where  *)
(* the kernel maps nothing.                                                 *)
MmapCalls ==
    [f : {"mmap"}, page : {NULL} \cup Hints, len : Sizes, anon : BOOLEAN, fixed : {FALSE}, off : Offsets]
        \cup [f : {"mmap"}, page : {NULL} \cup Pages, len : Sizes, anon : {TRUE}, fixed : {TRUE}, off : {0}]

RangeCalls ==
    [f : {"munmap", "mprotect", "msync", "locking"}, page : Pages, len : Sizes]
        \cup [f : {"madvise", "posix_madvise"}, page : Pages, len : Sizes, advice : {"normal", "dontneed"}]

MremapCalls == [f : {"mremap"}, page : Pages, old : Sizes, len : Sizes, maymove : BOOLEAN]

(* The pages a call is about: they must be the caller's.                    *)
About(c) ==
    IF c.f = "mremap" THEN Run(c.page, c.old)
    ELSE IF c.f = "mmap" /\ (~c.fixed \/ c.page = NULL) THEN {} ELSE Run(c.page, c.len)

Init ==
    /\ mem = [p \in Pages |-> Unmapped]
    /\ errno = [t \in Threads |-> 0]
    /\ pc = [t \in Threads |-> "idle"] /\ op = [t \in Threads |-> NoCall]
    /\ raw = [t \in Threads |-> 0] /\ res = [t \in Threads |-> 0]
    /\ own = [t \in Threads |-> {}] /\ wrote = [t \in Threads |-> [p \in Pages |-> 0]]
    /\ calls = 0

Call(t) ==
    /\ pc[t] = "idle" /\ calls < MaxCalls
    /\ \E c \in MmapCalls \cup RangeCalls \cup MremapCalls :
          /\ About(c) \subseteq own[t]
          /\ c.f = "mremap" => About(c) # {}
          /\ op' = [op EXCEPT ![t] = c]
          /\ own' = [own EXCEPT ![t] = IF c.f = "munmap" THEN @ \ About(c) ELSE @]
    /\ pc' = [pc EXCEPT ![t] = "entry"]
    /\ calls' = calls + 1
    /\ res' = [res EXCEPT ![t] = 0]
    /\ UNCHANGED <<mem, errno, raw, wrote>>

(* The program stores in a page of its own.                                 *)
Write(t) ==
    /\ pc[t] = "idle"
    /\ \E p \in own[t] \cap Mapped(mem) :
          /\ wrote[t][p] = 0
          /\ mem' = [mem EXCEPT ![p] = 1]
          /\ wrote' = [wrote EXCEPT ![t][p] = 1]
    /\ UNCHANGED <<errno, pc, op, raw, res, own, calls>>

At(t, f) == pc[t] = "entry" /\ op[t].f = f

SystemCall(t, outcomes, to) ==
    /\ \E o \in outcomes : mem' = o.mem /\ raw' = [raw EXCEPT ![t] = o.r]
    /\ pc' = [pc EXCEPT ![t] = to]
    /\ UNCHANGED <<errno, op, res, own, wrote, calls>>

(* What the program makes of a call c that returned r: the pages it now has *)
(* and what it expects in them.                                             *)
OwnAfter(c, r, mine) ==
    IF r = -1 THEN IF c.f = "munmap" THEN mine \cup About(c) ELSE mine
    ELSE IF c.f = "mmap" THEN mine \cup Run(PageOf(r), c.len)
    ELSE IF c.f = "mremap" THEN (mine \ About(c)) \cup Run(PageOf(r), c.len)
    ELSE mine

WroteAfter(c, r, old) ==
    LET shift == c.page - PageOf(r)
    IN  IF r = -1 THEN old
        ELSE IF c.f = "mmap" THEN Put(old, Run(PageOf(r), c.len), 0)
        ELSE IF c.f = "mremap"
          THEN [p \in Pages |-> IF p \notin Run(PageOf(r), c.len) THEN IF p \in About(c) THEN 0 ELSE old[p]
                                ELSE IF p + shift \in About(c) THEN old[p + shift] ELSE 0]
        ELSE IF c.f = "munmap" \/ (c.f = "madvise" /\ c.advice = "dontneed")
          THEN Put(old, About(c), 0)
        ELSE old

Return(t, r, e) ==
    /\ errno' = [errno EXCEPT ![t] = e]
    /\ res' = [res EXCEPT ![t] = r]
    /\ own' = [own EXCEPT ![t] = OwnAfter(op[t], r, @)]
    /\ wrote' = [wrote EXCEPT ![t] = WroteAfter(op[t], r, @)]
    /\ pc' = [pc EXCEPT ![t] = "idle"]
    /\ op' = [op EXCEPT ![t] = NoCall]
    /\ raw' = [raw EXCEPT ![t] = 0]
    /\ UNCHANGED <<mem, calls>>

(* set_errno and MAP_FAILED, before any system call.                        *)
Refuse(t, e) == Return(t, MAP_FAILED, e)

-----------------------------------------------------------------------------
mmap(t) ==
    /\ At(t, "mmap")
    /\ IF op[t].off % PAGE_SIZE # 0 THEN Refuse(t, EINVAL)
       ELSE IF op[t].len >= PTRDIFF_MAX THEN Refuse(t, ENOMEM)
       ELSE SystemCall(t, SysMmap(mem, op[t]), "ret")

munmap(t) == At(t, "munmap") /\ SystemCall(t, SysMunmap(mem, op[t]), "ret")

mremap(t) ==
    /\ At(t, "mremap")
    /\ IF op[t].len >= PTRDIFF_MAX THEN Refuse(t, ENOMEM)
       ELSE SystemCall(t, SysMremap(mem, op[t]), "ret")

madvise(t) == At(t, "madvise") /\ SystemCall(t, SysMadvise(mem, op[t]), "ret")

(* Mutant: the advice is handed to the kernel, whose DONTNEED is another.   *)
posix_madviseMutant(t) ==
    /\ At(t, "posix_madvise")
    /\ SystemCall(t, SysMadvise(mem, op[t]), "posix")

posix_madvise(t) ==
    /\ At(t, "posix_madvise")
    /\ IF op[t].advice = "dontneed" THEN Return(t, 0, errno[t])
       ELSE SystemCall(t, SysMadvise(mem, op[t]), "posix")

(* The error number is the result; errno is left alone.                     *)
PosixReturn(t) == pc[t] = "posix" /\ Return(t, -raw[t], errno[t])

(* These change protection, the file behind a mapping, residence or locks,  *)
(* which mem does not show.  msync is a cancellation point, and with        *)
(* DUMMY_CANCEL = 0 that is a system call like the others.                  *)
mprotect(t) == At(t, "mprotect") /\ SystemCall(t, SysForward(mem), "ret")

msync(t) == At(t, "msync") /\ SystemCall(t, SysForward(mem), "ret")

(* mincore, mlock, munlock, mlockall and munlockall.                        *)
Locking(t) == At(t, "locking") /\ SystemCall(t, SysForward(mem), "ret")

(* Mutant: whatever the kernel said.                                        *)
FixupLeakMutant(c, r) ==
    IF c.f = "mmap" /\ c.page = NULL /\ c.anon /\ ~c.fixed THEN -ENOMEM ELSE r

(* Mutant: the hint is not looked at.                                       *)
FixupHintMutant(c, r) ==
    IF r = -EPERM /\ c.f = "mmap" /\ c.anon /\ ~c.fixed THEN -ENOMEM ELSE r

(* mmap's EPERM for anonymous memory anywhere is a shortage of memory.      *)
Fixup(c, r) ==
    IF r = -EPERM /\ c.f = "mmap" /\ c.page = NULL /\ c.anon /\ ~c.fixed THEN -ENOMEM ELSE r

ret(t) ==
    /\ pc[t] = "ret"
    /\ LET r == Fixup(op[t], raw[t]) IN Return(t, RetValue(r), RetErrno(r, errno[t]))

Done ==
    /\ calls = MaxCalls /\ \A t \in Threads : pc[t] = "idle"
    /\ UNCHANGED vars

Step(t) ==
    \/ mmap(t) \/ munmap(t) \/ mremap(t) \/ madvise(t) \/ mprotect(t) \/ msync(t)
    \/ Locking(t) \/ posix_madvise(t) \/ PosixReturn(t) \/ ret(t)

Next == (\E t \in Threads : Call(t) \/ Write(t) \/ Step(t)) \/ Done

Spec == Init /\ [][Next]_vars

-----------------------------------------------------------------------------
Idle(t) == pc[t] = "idle"

(* No mapping is lost or dangling: between calls a thread's pages are       *)
(* mapped and nobody else's, whatever failed on the way, and when no call   *)
(* is in progress every mapped page has an owner.                           *)
OwnershipExact ==
    /\ \A t \in Threads : Idle(t) => own[t] \subseteq Mapped(mem)
    /\ \A t, u \in Threads : Idle(t) /\ Idle(u) /\ t # u => own[t] \cap own[u] = {}
    /\ (\A t \in Threads : Idle(t)) => Mapped(mem) = UNION {own[t] : t \in Threads}

(* A thread finds in its pages what it last wrote there: mremap carries it  *)
(* along, other threads' calls leave it alone, and posix_madvise with any   *)
(* advice is only advice, where Linux's own MADV_DONTNEED discards.         *)
DataKept ==
    \A t \in Threads : Idle(t) => \A p \in own[t] : mem[p] = wrote[t][p]

(* What a program is told, at every return of a call c: the kernel's error, *)
(* except that anonymous memory anywhere (not at page zero by MAP_FIXED) is *)
(* never refused with EPERM; errno untouched by success and by              *)
(* posix_madvise; and what the library refuses by itself the kernel would   *)
(* have refused too, whatever its page size.                                *)
ErrorsExact ==
    [][\A t \in Threads : ~Idle(t) /\ Idle(t)' =>
          LET c == op[t]
          IN  CASE pc[t] = "ret" /\ raw[t] < 0 ->
                       /\ res'[t] = -1
                       /\ errno'[t] = IF /\ c.f = "mmap" /\ c.page = NULL /\ c.anon /\ ~c.fixed
                                         /\ raw[t] = -EPERM
                                        THEN ENOMEM ELSE -raw[t]
                [] pc[t] = "ret" /\ raw[t] >= 0 -> res'[t] = raw[t] /\ errno'[t] = errno[t]
                [] pc[t] = "posix" -> res'[t] = -raw[t] /\ errno'[t] = errno[t]
                [] OTHER -> \/ res'[t] = 0 /\ c.f = "posix_madvise" /\ errno'[t] = errno[t]
                            \/ /\ res'[t] = -1
                               /\ \/ errno'[t] = ENOMEM /\ c.len >= PTRDIFF_MAX
                                  \/ /\ errno'[t] = EINVAL
                                     /\ SysMmap(mem, c) = Fail(mem, {EINVAL})]_vars
=============================================================================
