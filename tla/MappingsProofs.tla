--------------------------- MODULE MappingsProofs ---------------------------
(***************************************************************************)
(* No mapping is lost, shared or dangling, data is kept and errors are     *)
(* exact: for any number of threads, pages, lengths and calls, and for any *)
(* kernel page size that is a multiple of the library's.                   *)
(***************************************************************************)
EXTENDS Mappings, TLAPS

Calls == MmapCalls \cup RangeCalls \cup MremapCalls

TypeInv ==
    /\ mem \in [Pages -> {0, 1, Unmapped}]
    /\ errno \in [Threads -> Int]
    /\ pc \in [Threads -> {"idle", "entry", "ret", "posix"}]
    /\ op \in [Threads -> Calls \cup {NoCall}]
    /\ raw \in [Threads -> Int]
    /\ res \in [Threads -> Int]
    /\ own \in [Threads -> SUBSET Pages]
    /\ wrote \in [Threads -> [Pages -> {0, 1}]]

(* A raw result is an error, zero, or the address of a page.                *)
Errors == {-EINVAL, -ENOMEM, -EPERM}

(* munmap has taken its pages from the thread; mmap without MAP_FIXED has   *)
(* none yet; every other call is about pages the thread has.                *)
CallInv(t) ==
    /\ pc[t] # "idle" =>
          /\ op[t] \in Calls
          /\ IF op[t].f = "munmap" THEN About(op[t]) \subseteq Pages \ own[t]
                                   ELSE About(op[t]) \subseteq own[t]
    /\ pc[t] = "ret" => raw[t] >= 0 \/ raw[t] \in Errors
    /\ pc[t] = "posix" => op[t].f = "posix_madvise" /\ (raw[t] = 0 \/ raw[t] \in Errors)

(* The result the call in progress is about to give.                        *)
Result(t) == RetValue(Fixup(op[t], raw[t]))

(* The pages that are t's in the kernel: what it will think it has once the *)
(* call in progress returns, and until then the pages munmap is to release. *)
Held(t) ==
    IF pc[t] = "ret" THEN OwnAfter(op[t], Result(t), own[t])
    ELSE IF pc[t] = "entry" /\ op[t].f = "munmap" THEN own[t] \cup About(op[t])
    ELSE own[t]

(* What those pages hold.                                                   *)
Kept(t) == IF pc[t] = "ret" THEN WroteAfter(op[t], Result(t), wrote[t]) ELSE wrote[t]

HoldInv ==
    /\ \A t \in Threads : Held(t) \subseteq Mapped(mem)
    /\ \A t, u \in Threads : t # u => Held(t) \cap Held(u) = {}
    /\ \A p \in Mapped(mem) : \E t \in Threads : p \in Held(t)

DataInv(t) == \A p \in Held(t) : mem[p] = Kept(t)[p]

Inv == TypeInv /\ HoldInv /\ \A t \in Threads : CallInv(t) /\ DataInv(t)

-----------------------------------------------------------------------------
(* What the arguments of a call are.                                        *)
LEMMA CallShape ==
    ASSUME NEW c \in Calls
    PROVE  /\ c.f \in {"mmap", "munmap", "mprotect", "msync", "locking", "madvise", "posix_madvise", "mremap"}
           /\ c.page \in Nat /\ c.len \in Nat
           /\ c.f # "mmap" => c.page \in Pages /\ c.page # NULL
           /\ c.f = "mmap" => c.anon \in BOOLEAN /\ c.fixed \in BOOLEAN /\ c.off \in Nat
           /\ c.f = "mremap" => c.old \in Nat /\ c.maymove \in BOOLEAN
<1>0. Pages \subseteq Nat \ {0} /\ {NULL} \cup Hints \subseteq Nat /\ NULL = 0 /\ Sizes \subseteq Nat /\ Offsets \subseteq Nat
  BY PagesAssumption, SizesAssumption DEF NULL
<1>1. CASE c \in [f : {"mmap"}, page : {NULL} \cup Hints, len : Sizes, anon : BOOLEAN, fixed : {FALSE}, off : Offsets]
  BY ONLY <1>0, <1>1
<1>2. CASE c \in [f : {"mmap"}, page : {NULL} \cup Pages, len : Sizes, anon : {TRUE}, fixed : {TRUE}, off : {0}]
  BY ONLY <1>0, <1>2
<1>3. CASE c \in RangeCalls
  BY ONLY <1>0, <1>3 DEF RangeCalls
<1>4. CASE c \in MremapCalls
  BY ONLY <1>0, <1>4 DEF MremapCalls
<1> QED BY ONLY c \in Calls, <1>1, <1>2, <1>3, <1>4 DEF Calls, MmapCalls

(* The address of a page tells the page.                                    *)
LEMMA AddressShape ==
    ASSUME NEW p \in Pages
    PROVE  Address(p) \in Int /\ Address(p) >= 0 /\ PageOf(Address(p)) = p
<1>1. p \in Nat /\ KernelPage \in Nat \ {0}
  BY PagesAssumption, PageSizeAssumption
<1>2. p * KernelPage \in Nat /\ (p * KernelPage) \div KernelPage = p
  BY ONLY <1>1
<1> QED BY ONLY <1>2 DEF Address, PageOf

(* The pages of a range of addresses are numbers.                           *)
LEMMA RunShape ==
    ASSUME NEW p \in Int, NEW len \in Nat
    PROVE  Run(p, len) \subseteq Int
  BY DEF Run

(* What ret makes of errors and of values.                                  *)
LEMMA ErrorResult ==
    ASSUME NEW c, NEW r \in Errors
    PROVE  RetValue(Fixup(c, r)) = -1 /\ r \in Int
  BY DEF Errors, RetValue, Fixup, is_err, EINVAL, ENOMEM, EPERM

(* A result that is not negative comes back as it is.                       *)
LEMMA ValueResult ==
    ASSUME NEW c, NEW r \in Int, r >= 0
    PROVE  RetValue(Fixup(c, r)) = r /\ r # -1
  BY DEF RetValue, Fixup, is_err, EPERM

(* The program's expectation stays a function of the pages.                 *)
LEMMA WroteType ==
    ASSUME NEW c \in Calls, NEW r, NEW old \in [Pages -> {0, 1}], About(c) \subseteq Pages
    PROVE  WroteAfter(c, r, old) \in [Pages -> {0, 1}]
  BY DEF WroteAfter, Put

(* Every step is one thread's.  It leaves the pages of the others alone,    *)
(* and the pages it now has are exactly the ones mapped for it.             *)
LEMMA ThreadStep ==
    ASSUME Inv, TypeInv', NEW t \in Threads,
           \A u \in Threads : u # t => /\ pc'[u] = pc[u] /\ op'[u] = op[u] /\ raw'[u] = raw[u]
                                      /\ own'[u] = own[u] /\ wrote'[u] = wrote[u],
           CallInv(t)', DataInv(t)', Held(t)' \subseteq Pages,
           \A p \in Mapped(mem) \ Held(t) : mem'[p] = mem[p] /\ p \notin Held(t)',
           \A p \in Pages \ (Mapped(mem) \ Held(t)) : p \in Held(t)' <=> mem'[p] # Unmapped
    PROVE  Inv'
<1>1. ASSUME NEW u \in Threads, u # t
      PROVE  /\ Held(u)' = Held(u) /\ Kept(u)' = Kept(u)
             /\ Held(u) \subseteq Mapped(mem) \ Held(t)
  <2>1. Held(u)' = Held(u)
    BY <1>1 DEF Held, Result
  <2>2. Kept(u)' = Kept(u)
    BY <1>1 DEF Kept, Result
  <2>3. Held(u) \subseteq Mapped(mem) \ Held(t)
    BY <1>1 DEF Inv, HoldInv
  <2> QED BY <2>1, <2>2, <2>3
<1>2. ASSUME NEW u \in Threads, u # t PROVE CallInv(u)' /\ DataInv(u)'
  <2>1. CallInv(u) /\ DataInv(u)
    BY DEF Inv
  <2>2. CallInv(u)'
    BY <1>2, <2>1 DEF CallInv
  <2>3. DataInv(u)'
    BY <1>1, <1>2, <2>1 DEF DataInv
  <2> QED BY <2>2, <2>3
<1>3. Mapped(mem) \subseteq Pages /\ Mapped(mem)' \subseteq Pages
  BY DEF Mapped
<1>4. ASSUME NEW p \in Pages PROVE p \in Mapped(mem) <=> mem[p] # Unmapped
  BY DEF Mapped
<1>5. ASSUME NEW p \in Pages PROVE p \in Mapped(mem)' <=> mem'[p] # Unmapped
  BY DEF Mapped
<1>6. Held(t)' \subseteq Mapped(mem)'
  BY <1>5
<1>7. ASSUME NEW u \in Threads, u # t PROVE Held(u)' \subseteq Mapped(mem)' /\ Held(u)' \cap Held(t)' = {}
  BY <1>1, <1>3, <1>4, <1>5, <1>7
<1>8. ASSUME NEW u \in Threads, NEW w \in Threads, u # w PROVE Held(u)' \cap Held(w)' = {}
  <2>1. u # t /\ w # t => Held(u) \cap Held(w) = {}
    BY <1>8 DEF Inv, HoldInv
  <2> QED BY <1>1, <1>7, <1>8, <2>1
<1>9. ASSUME NEW p \in Mapped(mem)' PROVE \E u \in Threads : p \in Held(u)'
  <2>1. CASE p \in Mapped(mem) \ Held(t)
    <3>1. PICK u \in Threads : p \in Held(u)
      BY <2>1 DEF Inv, HoldInv
    <3> QED BY <1>1, <2>1, <3>1
  <2>2. CASE p \notin Mapped(mem) \ Held(t)
    BY <1>3, <1>5, <2>2
  <2> QED BY <2>1, <2>2
<1>10. HoldInv'
  BY <1>6, <1>7, <1>8, <1>9 DEF HoldInv
<1> QED BY <1>2, <1>10 DEF Inv

(* A thread at the entry of a call.                                         *)
LEMMA AtEntry ==
    ASSUME Inv, NEW t \in Threads, pc[t] = "entry"
    PROVE  /\ op[t] \in Calls /\ own[t] \subseteq Held(t) /\ Held(t) \subseteq Mapped(mem)
           /\ op[t].f = "munmap" => About(op[t]) \subseteq Pages \ own[t] /\ Held(t) = own[t] \cup About(op[t])
           /\ op[t].f # "munmap" => About(op[t]) \subseteq own[t] /\ Held(t) = own[t]
           /\ wrote[t] \in [Pages -> {0, 1}] /\ own[t] \subseteq Pages /\ About(op[t]) \subseteq Pages
           /\ \A p \in Held(t) : mem[p] = wrote[t][p]
<1>1. CallInv(t) /\ DataInv(t)
  BY DEF Inv
<1>2. /\ wrote[t] \in [Pages -> {0, 1}] /\ own[t] \subseteq Pages
      /\ Held(t) \subseteq Mapped(mem)
  BY DEF Inv, TypeInv, HoldInv
<1>3. /\ op[t] \in Calls
      /\ op[t].f = "munmap" => About(op[t]) \subseteq Pages \ own[t]
      /\ op[t].f # "munmap" => About(op[t]) \subseteq own[t]
  BY <1>1 DEF CallInv
<1>4. /\ op[t].f = "munmap" => Held(t) = own[t] \cup About(op[t])
      /\ op[t].f # "munmap" => Held(t) = own[t]
  BY DEF Held
<1>5. \A p \in Held(t) : mem[p] = wrote[t][p]
  BY <1>1 DEF DataInv, Kept
<1> QED BY ONLY <1>2, <1>3, <1>4, <1>5

(* A system call with one outcome.                                          *)
LEMMA OneOutcome ==
    ASSUME NEW t, NEW r, NEW m, NEW to, SystemCall(t, {[r |-> r, mem |-> m]}, to)
    PROVE  /\ mem' = m /\ raw' = [raw EXCEPT ![t] = r] /\ pc' = [pc EXCEPT ![t] = to]
           /\ errno' = errno /\ op' = op /\ res' = res /\ own' = own /\ wrote' = wrote
<1> DEFINE o == [r |-> r, mem |-> m]
<1>1. o.r = r /\ o.mem = m /\ SystemCall(t, {o}, to)
  OBVIOUS
<1> HIDE DEF o
<1>2. mem' = o.mem /\ raw' = [raw EXCEPT ![t] = o.r]
  BY ONLY <1>1 DEF SystemCall
<1>3. pc' = [pc EXCEPT ![t] = to]
  BY ONLY <1>1 DEF SystemCall
<1>4. errno' = errno /\ op' = op /\ res' = res /\ own' = own /\ wrote' = wrote
  BY ONLY <1>1 DEF SystemCall
<1> QED BY <1>1, <1>2, <1>3, <1>4

(* A system call has one of its outcomes.                                   *)
LEMMA SomeOutcome ==
    ASSUME NEW t, NEW to, NEW outcomes, SystemCall(t, outcomes, to)
    PROVE  \E o \in outcomes : SystemCall(t, {o}, to)
  BY DEF SystemCall

(* The system call of a call, with result r and address space m: what the   *)
(* program will make of r has to agree with m.                              *)
LEMMA KernelStep ==
    ASSUME Inv, NEW t \in Threads, pc[t] = "entry", NEW r \in Int, r >= 0 \/ r \in Errors,
           NEW m \in [Pages -> {0, 1, Unmapped}], SystemCall(t, {[r |-> r, mem |-> m]}, "ret"),
           NEW R, R = RetValue(Fixup(op[t], r)), NEW H, H = OwnAfter(op[t], R, own[t]), H \subseteq Pages,
           \A p \in Mapped(mem) \ Held(t) : m[p] = mem[p] /\ p \notin H,
           \A p \in Pages \ (Mapped(mem) \ Held(t)) : p \in H <=> m[p] # Unmapped,
           \A p \in H : m[p] = WroteAfter(op[t], R, wrote[t])[p]
    PROVE  Inv'
<1>1. /\ mem' = m /\ raw' = [raw EXCEPT ![t] = r] /\ pc' = [pc EXCEPT ![t] = "ret"]
      /\ errno' = errno /\ op' = op /\ res' = res /\ own' = own /\ wrote' = wrote
  BY ONLY SystemCall(t, {[r |-> r, mem |-> m]}, "ret"), OneOutcome
<1>2. TypeInv'
  BY <1>1 DEF Inv, TypeInv
<1>3. /\ pc'[t] = "ret" /\ raw'[t] = r
      /\ \A u \in Threads : u # t => pc'[u] = pc[u] /\ raw'[u] = raw[u]
  BY <1>1 DEF Inv, TypeInv
<1>4. CallInv(t)'
  BY <1>1, <1>3, AtEntry DEF CallInv, About
<1>5. Result(t)' = R
  BY <1>1, <1>3 DEF Result
<1>6. Held(t)' = H
  BY <1>1, <1>3, <1>5 DEF Held
<1>7. Kept(t)' = WroteAfter(op[t], R, wrote[t])
  BY <1>1, <1>3, <1>5 DEF Kept
<1>8. DataInv(t)'
  BY <1>1, <1>6, <1>7 DEF DataInv
<1> QED BY <1>1, <1>2, <1>3, <1>4, <1>6, <1>8, ThreadStep

(* An error changes nothing, and the program takes back what it gave up.    *)
LEMMA ErrorStep ==
    ASSUME Inv, NEW t \in Threads, pc[t] = "entry", NEW r \in Errors,
           SystemCall(t, {[r |-> r, mem |-> mem]}, "ret")
    PROVE  Inv'
<1> DEFINE R == RetValue(Fixup(op[t], r))
           H == OwnAfter(op[t], R, own[t])
<1>1. r \in Int /\ R = -1
  BY ErrorResult
<1> HIDE DEF R
<1>2. H = Held(t)
  BY ONLY Inv, t \in Threads, pc[t] = "entry", <1>1, AtEntry DEF OwnAfter
<1>3. WroteAfter(op[t], R, wrote[t]) = wrote[t]
  BY ONLY <1>1 DEF WroteAfter
<1> HIDE DEF H
<1>4. \A p \in Held(t) : mem[p] = wrote[t][p]
  BY AtEntry
<1>5. Held(t) \subseteq Pages /\ \A p \in Pages \ (Mapped(mem) \ Held(t)) : p \in Held(t) <=> mem[p] # Unmapped
  BY AtEntry DEF Mapped
<1>6. mem \in [Pages -> {0, 1, Unmapped}]
  BY DEF Inv, TypeInv
<1>7. R = RetValue(Fixup(op[t], r)) /\ H = OwnAfter(op[t], R, own[t])
  BY DEF R, H
<1>8. /\ H \subseteq Pages /\ \A p \in Mapped(mem) \ Held(t) : mem[p] = mem[p] /\ p \notin H
      /\ \A p \in Pages \ (Mapped(mem) \ Held(t)) : p \in H <=> mem[p] # Unmapped
      /\ \A p \in H : mem[p] = WroteAfter(op[t], R, wrote[t])[p]
  BY ONLY <1>2, <1>3, <1>4, <1>5
<1> QED BY ONLY Inv, t \in Threads, pc[t] = "entry", r \in Errors, SystemCall(t, {[r |-> r, mem |-> mem]}, "ret"),
                <1>1, <1>6, <1>7, <1>8, KernelStep

(* A call that succeeds: r is its result.                                   *)
LEMMA SuccessStep ==
    ASSUME Inv, NEW t \in Threads, pc[t] = "entry", NEW r \in Int, r >= 0,
           NEW m \in [Pages -> {0, 1, Unmapped}], SystemCall(t, {[r |-> r, mem |-> m]}, "ret"),
           NEW H, H = OwnAfter(op[t], r, own[t]), H \subseteq Pages,
           \A p \in Mapped(mem) \ Held(t) : m[p] = mem[p] /\ p \notin H,
           \A p \in Pages \ (Mapped(mem) \ Held(t)) : p \in H <=> m[p] # Unmapped,
           NEW W, W = WroteAfter(op[t], r, wrote[t]),
           \A p \in H : m[p] = W[p]
    PROVE  Inv'
<1>1. RetValue(Fixup(op[t], r)) = r
  BY ONLY r \in Int, r >= 0, ValueResult
<1> QED BY <1>1, KernelStep

(* A page is mapped or not.                                                 *)
LEMMA MappedShape ==
    ASSUME Inv
    PROVE  /\ mem \in [Pages -> {0, 1, Unmapped}] /\ Mapped(mem) \subseteq Pages
           /\ \A p \in Pages : p \in Mapped(mem) <=> mem[p] # Unmapped
           /\ Unmapped # 0 /\ Unmapped # 1
  BY UnmappedAssumption DEF Inv, TypeInv, Mapped

(* Which pages a store of one value changes.                                *)
LEMMA PutShape ==
    ASSUME NEW m, NEW S, NEW v
    PROVE  \A p \in Pages : Put(m, S, v)[p] = IF p \in S THEN v ELSE m[p]
  BY DEF Put

(* A call that succeeds without a change to the address space.              *)
LEMMA QuietStep ==
    ASSUME Inv, NEW t \in Threads, pc[t] = "entry", SystemCall(t, {[r |-> 0, mem |-> mem]}, "ret"),
           op[t].f \in {"mprotect", "msync", "locking", "madvise"},
           op[t].f = "madvise" => op[t].advice # "dontneed"
    PROVE  Inv'
<1>1. OwnAfter(op[t], 0, own[t]) = own[t]
  BY ONLY op[t].f \in {"mprotect", "msync", "locking", "madvise"} DEF OwnAfter
<1>2. WroteAfter(op[t], 0, wrote[t]) = wrote[t]
  BY ONLY op[t].f \in {"mprotect", "msync", "locking", "madvise"},
          op[t].f = "madvise" => op[t].advice # "dontneed" DEF WroteAfter
<1>3. Held(t) = own[t] /\ Held(t) \subseteq Mapped(mem) /\ \A p \in own[t] : mem[p] = wrote[t][p]
  BY AtEntry
<1> QED BY ONLY Inv, t \in Threads, pc[t] = "entry", SystemCall(t, {[r |-> 0, mem |-> mem]}, "ret"),
                <1>1, <1>2, <1>3, MappedShape, SuccessStep

(* mprotect, msync and the locking calls leave the pages alone.             *)
LEMMA ForwardStep ==
    ASSUME Inv, NEW t \in Threads, mprotect(t) \/ msync(t) \/ Locking(t) PROVE Inv'
<1>1. /\ pc[t] = "entry" /\ op[t].f \in {"mprotect", "msync", "locking"}
      /\ SystemCall(t, SysForward(mem), "ret")
  BY DEF mprotect, msync, Locking, At
<1>2. PICK o \in SysForward(mem) : SystemCall(t, {o}, "ret")
  BY <1>1, SomeOutcome
<1>3. CASE o = [r |-> 0, mem |-> mem]
  BY ONLY Inv, t \in Threads, <1>1, <1>2, <1>3, QuietStep
<1>4. ASSUME NEW r \in Errors, o = [r |-> r, mem |-> mem] PROVE Inv'
  BY ONLY Inv, t \in Threads, <1>1, <1>2, <1>4, ErrorStep
<1>5. o = [r |-> 0, mem |-> mem] \/ \E r \in Errors : o = [r |-> r, mem |-> mem]
  BY <1>2 DEF SysForward, Fail, Errors
<1> QED BY ONLY <1>3, <1>4, <1>5

(* mmap: where nothing is mapped, or over pages the thread has.             *)
LEMMA MmapStep ==
    ASSUME Inv, NEW t \in Threads, At(t, "mmap"), SystemCall(t, SysMmap(mem, op[t]), "ret") PROVE Inv'
<1> DEFINE c == op[t]
<1>1. pc[t] = "entry" /\ c.f = "mmap" /\ c \in Calls
  BY AtEntry DEF At
<1>2. PICK o \in SysMmap(mem, c) : SystemCall(t, {o}, "ret")
  BY SomeOutcome
<1>3. ASSUME NEW r \in Errors, o = [r |-> r, mem |-> mem] PROVE Inv'
  BY ONLY Inv, t \in Threads, <1>1, <1>2, <1>3, ErrorStep
<1>4. ASSUME NEW p \in Pages, Run(p, c.len) \subseteq Pages, o = [r |-> Address(p), mem |-> Put(mem, Run(p, c.len), 0)],
             IF c.fixed THEN p = c.page ELSE Run(p, c.len) \subseteq Pages \ Mapped(mem)
      PROVE  Inv'
  <2> DEFINE S == Run(p, c.len)
             r == Address(p)
             m == Put(mem, S, 0)
  <2>1. r \in Int /\ r >= 0 /\ r # -1 /\ PageOf(r) = p
    BY AddressShape
  <2>2. OwnAfter(c, r, own[t]) = own[t] \cup S
    BY ONLY <1>1, <2>1 DEF OwnAfter
  <2>3. WroteAfter(c, r, wrote[t]) = Put(wrote[t], S, 0)
    BY ONLY <1>1, <2>1 DEF WroteAfter
  <2>4. /\ Held(t) = own[t] /\ own[t] \subseteq Mapped(mem) /\ \A q \in own[t] : mem[q] = wrote[t][q]
        /\ About(c) \subseteq own[t]
    BY <1>1, AtEntry
  <2>5. S \subseteq Pages /\ (S \subseteq own[t] \/ S \subseteq Pages \ Mapped(mem))
    <3>1. CASE c.fixed
      <4>1. c.page # NULL
        BY <1>4, <3>1, PagesAssumption DEF NULL
      <4> QED BY <1>1, <1>4, <2>4, <3>1, <4>1 DEF About
    <3>2. CASE ~c.fixed
      BY <1>4, <3>2
    <3> QED BY <1>4, <3>1, <3>2
  <2>6. SystemCall(t, {[r |-> r, mem |-> m]}, "ret")
    BY ONLY <1>2, <1>4
  <2> HIDE DEF S, r, c
  <2>7. \A q \in Pages : m[q] = IF q \in S THEN 0 ELSE mem[q]
    BY PutShape
  <2>8. \A q \in Pages : Put(wrote[t], S, 0)[q] = IF q \in S THEN 0 ELSE wrote[t][q]
    BY PutShape
  <2>9. m \in [Pages -> {0, 1, Unmapped}]
    BY MappedShape DEF Put
  <2> HIDE DEF m
  <2>10. /\ \A q \in Mapped(mem) \ Held(t) : m[q] = mem[q] /\ q \notin own[t] \cup S
         /\ \A q \in Pages \ (Mapped(mem) \ Held(t)) : q \in own[t] \cup S <=> m[q] # Unmapped
         /\ \A q \in own[t] \cup S : m[q] = Put(wrote[t], S, 0)[q]
         /\ own[t] \cup S \subseteq Pages
    BY ONLY Inv, <2>4, <2>5, <2>7, <2>8, MappedShape
  <2> QED BY ONLY Inv, t \in Threads, <1>1, <2>1, <2>2, <2>3, <2>6, <2>9, <2>10, SuccessStep DEF c
<1>5. \/ \E r \in Errors : o = [r |-> r, mem |-> mem]
      \/ \E p \in Pages : /\ Run(p, c.len) \subseteq Pages /\ o = [r |-> Address(p), mem |-> Put(mem, Run(p, c.len), 0)]
                          /\ IF c.fixed THEN p = c.page ELSE Run(p, c.len) \subseteq Pages \ Mapped(mem)
  <2> HIDE DEF c
  <2>1. CASE o \in Fail(mem, {EINVAL}) \cup Fail(mem, {ENOMEM, EPERM})
    BY <2>1 DEF Fail, Errors
  <2>2. ASSUME NEW p \in IF c.fixed THEN {c.page} \cap {p \in Pages : Run(p, c.len) \subseteq Pages} ELSE Holes(mem, c.len),
               o = [r |-> Address(p), mem |-> Put(mem, Run(p, c.len), 0)]
        PROVE  \E p_1 \in Pages : /\ Run(p_1, c.len) \subseteq Pages /\ o = [r |-> Address(p_1), mem |-> Put(mem, Run(p_1, c.len), 0)]
                          /\ IF c.fixed THEN p_1 = c.page ELSE Run(p_1, c.len) \subseteq Pages \ Mapped(mem)
    BY ONLY <2>2 DEF Holes
  <2> QED BY ONLY <1>2, <2>1, <2>2 DEF SysMmap
<1> QED BY ONLY <1>3, <1>4, <1>5

(* munmap gives the pages up, or takes them back when it fails.             *)
LEMMA MunmapStep == ASSUME Inv, NEW t \in Threads, munmap(t) PROVE Inv'
<1> DEFINE c == op[t]
           S == About(c)
           m == Put(mem, S, Unmapped)
<1>1. pc[t] = "entry" /\ c.f = "munmap" /\ SystemCall(t, SysMunmap(mem, c), "ret")
  BY DEF munmap, At
<1>2. S = Run(c.page, c.len)
  BY <1>1 DEF About
<1>3. /\ S \subseteq Pages \ own[t] /\ Held(t) = own[t] \cup S /\ Held(t) \subseteq Mapped(mem)
      /\ own[t] \subseteq Pages /\ \A q \in Held(t) : mem[q] = wrote[t][q]
  BY <1>1, AtEntry
<1>4. PICK o \in SysMunmap(mem, c) : SystemCall(t, {o}, "ret")
  BY <1>1, SomeOutcome
<1>5. CASE o = [r |-> -ENOMEM, mem |-> mem]
  BY ONLY Inv, t \in Threads, <1>1, <1>4, <1>5, ErrorStep DEF Errors
<1>6. CASE o = [r |-> 0, mem |-> m]
  <2>1. OwnAfter(c, 0, own[t]) = own[t]
    BY ONLY <1>1 DEF OwnAfter
  <2>2. WroteAfter(c, 0, wrote[t]) = Put(wrote[t], S, 0)
    BY ONLY <1>1 DEF WroteAfter
  <2>3. SystemCall(t, {[r |-> 0, mem |-> m]}, "ret")
    BY ONLY <1>4, <1>6
  <2> HIDE DEF S, c
  <2>4. \A q \in Pages : m[q] = IF q \in S THEN Unmapped ELSE mem[q]
    BY PutShape
  <2>5. \A q \in Pages : Put(wrote[t], S, 0)[q] = IF q \in S THEN 0 ELSE wrote[t][q]
    BY PutShape
  <2>6. m \in [Pages -> {0, 1, Unmapped}]
    BY MappedShape DEF Put
  <2> HIDE DEF m
  <2>7. /\ \A q \in Mapped(mem) \ Held(t) : m[q] = mem[q] /\ q \notin own[t]
        /\ \A q \in Pages \ (Mapped(mem) \ Held(t)) : q \in own[t] <=> m[q] # Unmapped
        /\ \A q \in own[t] : m[q] = Put(wrote[t], S, 0)[q]
    BY ONLY Inv, <1>3, <2>4, <2>5, MappedShape
  <2> QED BY ONLY Inv, t \in Threads, <1>1, <1>3, <2>1, <2>2, <2>3, <2>6, <2>7, SuccessStep DEF c
<1>7. o = [r |-> -ENOMEM, mem |-> mem] \/ o = [r |-> 0, mem |-> m]
  BY <1>2, <1>4 DEF SysMunmap, Fail
<1> QED BY ONLY <1>5, <1>6, <1>7

(* mremap: where nothing is mapped, or where it was.  The pages it keeps    *)
(* carry what they hold.                                                    *)
LEMMA MremapStep ==
    ASSUME Inv, NEW t \in Threads, At(t, "mremap"), SystemCall(t, SysMremap(mem, op[t]), "ret") PROVE Inv'
<1> DEFINE c == op[t]
           B == About(c)
<1>1. pc[t] = "entry" /\ c.f = "mremap" /\ c \in Calls
  BY AtEntry DEF At
<1>2. PICK o \in SysMremap(mem, c) : SystemCall(t, {o}, "ret")
  BY SomeOutcome
<1>3. B = Run(c.page, c.old) /\ c.page \in Nat /\ c.len \in Nat
  BY <1>1, CallShape DEF About
<1>4. ASSUME NEW r \in Errors, o = [r |-> r, mem |-> mem] PROVE Inv'
  BY ONLY Inv, t \in Threads, <1>1, <1>2, <1>4, ErrorStep
<1>5. ASSUME NEW p \in Pages, Run(p, c.len) \subseteq Pages, o = [r |-> Address(p), mem |-> Moved(mem, c, p)],
             Run(p, c.len) \subseteq (Pages \ Mapped(mem)) \cup B
      PROVE  Inv'
  <2> DEFINE S == Run(p, c.len)
             r == Address(p)
             m == Moved(mem, c, p)
             H == (own[t] \ B) \cup S
             W == WroteAfter(c, r, wrote[t])
  <2>1. r \in Int /\ r >= 0 /\ r # -1 /\ PageOf(r) = p /\ p \in Nat
    BY AddressShape, PagesAssumption
  <2>2. OwnAfter(c, r, own[t]) = H
    BY ONLY <1>1, <2>1 DEF OwnAfter
  <2>3. /\ Held(t) = own[t] /\ own[t] \subseteq Mapped(mem) /\ \A q \in own[t] : mem[q] = wrote[t][q]
        /\ B \subseteq own[t]
    BY <1>1, AtEntry
  <2>4. S \subseteq Int /\ S \subseteq Pages /\ S \subseteq (Pages \ Mapped(mem)) \cup B
    BY ONLY <1>3, <1>5, <2>1, RunShape
  <2>5. SystemCall(t, {[r |-> r, mem |-> m]}, "ret")
    BY ONLY <1>2, <1>5
  <2>6. \A q \in Pages : W[q] = IF q \notin S THEN IF q \in B THEN 0 ELSE wrote[t][q]
                                ELSE IF q + (c.page - p) \in B THEN wrote[t][q + (c.page - p)] ELSE 0
    BY ONLY <1>1, <2>1 DEF WroteAfter
  <2>7. \A q \in Pages : m[q] = IF q \in S THEN IF c.page + (q - p) \in B THEN mem[c.page + (q - p)] ELSE 0
                                ELSE IF q \in B THEN Unmapped ELSE mem[q]
    BY ONLY <1>3 DEF Moved
  <2>8. \A q \in S : c.page + (q - p) = q + (c.page - p)
    BY ONLY <1>3, <2>1, <2>4
  <2>9. m \in [Pages -> {0, 1, Unmapped}]
    <3>1. \A q \in Pages : m[q] \in {0, 1, Unmapped}
      <4>1. \A q \in B : mem[q] \in {0, 1, Unmapped}
        BY <2>3, MappedShape
      <4>2. \A q \in Pages : mem[q] \in {0, 1, Unmapped}
        BY MappedShape
      <4> HIDE DEF m, B, S, c
      <4> QED BY ONLY <2>7, <4>1, <4>2
    <3>2. m = [q \in Pages |-> m[q]]
      BY DEF Moved
    <3> HIDE DEF m
    <3> QED BY ONLY <3>1, <3>2
  <2> HIDE DEF c, B, S, r, m, W
  <2>10. \A q \in S : m[q] = W[q] /\ m[q] # Unmapped
    <3> SUFFICES ASSUME NEW q \in S PROVE m[q] = W[q] /\ m[q] # Unmapped
      OBVIOUS
    <3>1. CASE c.page + (q - p) \in B
      <4>1. m[q] = mem[c.page + (q - p)] /\ W[q] = wrote[t][c.page + (q - p)]
        BY ONLY q \in S, <2>4, <2>6, <2>7, <2>8, <3>1
      <4> QED BY ONLY Inv, <2>3, <3>1, <4>1, MappedShape
    <3>2. CASE c.page + (q - p) \notin B
      <4>1. m[q] = 0 /\ W[q] = 0
        BY ONLY q \in S, <2>4, <2>6, <2>7, <2>8, <3>2
      <4> QED BY ONLY Inv, <4>1, MappedShape
    <3> QED BY ONLY <3>1, <3>2
  <2>11. \A q \in own[t] \ B : q \notin S /\ m[q] = W[q] /\ m[q] # Unmapped
    BY ONLY Inv, <2>3, <2>4, <2>6, <2>7, MappedShape
  <2>12. /\ \A q \in Mapped(mem) \ Held(t) : m[q] = mem[q] /\ q \notin H
         /\ \A q \in Pages \ (Mapped(mem) \ Held(t)) : q \in H <=> m[q] # Unmapped
         /\ \A q \in H : m[q] = W[q]
         /\ H \subseteq Pages
    <3>1. \A q \in Mapped(mem) \ Held(t) : m[q] = mem[q] /\ q \notin H
      <4> SUFFICES ASSUME NEW q \in Mapped(mem) \ Held(t) PROVE m[q] = mem[q] /\ q \notin H
        OBVIOUS
      <4>1. q \in Pages /\ q \in Mapped(mem) /\ q \notin own[t] /\ q \notin B
        BY ONLY Inv, q \in Mapped(mem) \ Held(t), <2>3, MappedShape
      <4>2. q \notin S
        BY ONLY <2>4, <4>1
      <4> QED BY ONLY <2>7, <4>1, <4>2
    <3>2. \A q \in H : m[q] = W[q] /\ m[q] # Unmapped
      BY ONLY <2>10, <2>11
    <3>3. ASSUME NEW q \in Pages \ (Mapped(mem) \ Held(t)), q \notin H PROVE m[q] = Unmapped
      BY ONLY Inv, <2>3, <2>4, <2>7, <3>3, MappedShape
    <3>4. H \subseteq Pages
      BY ONLY Inv, <2>3, <2>4, MappedShape
    <3> QED BY ONLY <3>1, <3>2, <3>3, <3>4
  <2> HIDE DEF H
  <2>13. W = WroteAfter(op[t], r, wrote[t]) /\ H = OwnAfter(op[t], r, own[t])
    BY <2>2 DEF W, c
  <2>14. pc[t] = "entry" /\ r \in Int /\ r >= 0
    BY ONLY <1>1, <2>1
  <2> QED BY ONLY Inv, t \in Threads, <2>5, <2>9, <2>12, <2>13, <2>14, SuccessStep
<1>6. \/ \E r \in Errors : o = [r |-> r, mem |-> mem]
      \/ \E p \in Pages : /\ Run(p, c.len) \subseteq Pages /\ o = [r |-> Address(p), mem |-> Moved(mem, c, p)]
                          /\ Run(p, c.len) \subseteq (Pages \ Mapped(mem)) \cup B
  <2> HIDE DEF c
  <2>1. CASE o \in Fail(mem, {EINVAL}) \cup Fail(mem, {ENOMEM})
    BY <2>1 DEF Fail, Errors
  <2>2. ASSUME NEW p \in Holes(mem, c.len) \cup Holes(Put(mem, Run(c.page, c.old), Unmapped), c.len),
               o = [r |-> Address(p), mem |-> Moved(mem, c, p)]
        PROVE  /\ p \in Pages /\ Run(p, c.len) \subseteq Pages
               /\ Run(p, c.len) \subseteq (Pages \ Mapped(mem)) \cup B
    <3>1. Pages \ Mapped(Put(mem, B, Unmapped)) \subseteq (Pages \ Mapped(mem)) \cup B
      <4> HIDE DEF B
      <4> QED BY PutShape DEF Mapped
    <3> QED BY ONLY <1>3, <2>2, <3>1 DEF Holes
  <2>3. \/ o \in Fail(mem, {EINVAL}) \cup Fail(mem, {ENOMEM})
        \/ \E p \in Holes(mem, c.len) \cup Holes(Put(mem, Run(c.page, c.old), Unmapped), c.len) :
              o = [r |-> Address(p), mem |-> Moved(mem, c, p)]
    BY ONLY <1>2 DEF SysMremap
  <2> QED BY ONLY <2>1, <2>2, <2>3
<1> QED BY ONLY <1>4, <1>5, <1>6

(* madvise may throw away pages the thread has, which it then expects.      *)
LEMMA MadviseStep == ASSUME Inv, NEW t \in Threads, madvise(t) PROVE Inv'
<1> DEFINE c == op[t]
           S == About(c)
           m == Put(mem, S, 0)
<1>1. pc[t] = "entry" /\ c.f = "madvise" /\ SystemCall(t, SysMadvise(mem, c), "ret")
  BY DEF madvise, At
<1>2. S = Run(c.page, c.len)
  BY <1>1 DEF About
<1>3. /\ S \subseteq own[t] /\ Held(t) = own[t] /\ Held(t) \subseteq Mapped(mem)
      /\ own[t] \subseteq Pages /\ \A q \in Held(t) : mem[q] = wrote[t][q]
  BY <1>1, AtEntry
<1>4. PICK o \in SysMadvise(mem, c) : SystemCall(t, {o}, "ret")
  BY <1>1, SomeOutcome
<1>5. CASE o = [r |-> -EINVAL, mem |-> mem]
  BY ONLY Inv, t \in Threads, <1>1, <1>4, <1>5, ErrorStep DEF Errors
<1>6. CASE c.advice = "dontneed" /\ o = [r |-> 0, mem |-> m]
  <2>1. OwnAfter(c, 0, own[t]) = own[t]
    BY ONLY <1>1 DEF OwnAfter
  <2>2. WroteAfter(c, 0, wrote[t]) = Put(wrote[t], S, 0)
    BY ONLY <1>1, <1>6 DEF WroteAfter
  <2>3. SystemCall(t, {[r |-> 0, mem |-> m]}, "ret")
    BY ONLY <1>4, <1>6
  <2> HIDE DEF S, c
  <2>4. \A q \in Pages : m[q] = IF q \in S THEN 0 ELSE mem[q]
    BY PutShape
  <2>5. \A q \in Pages : Put(wrote[t], S, 0)[q] = IF q \in S THEN 0 ELSE wrote[t][q]
    BY PutShape
  <2>6. m \in [Pages -> {0, 1, Unmapped}]
    BY MappedShape DEF Put
  <2> HIDE DEF m
  <2>7. /\ \A q \in Mapped(mem) \ Held(t) : m[q] = mem[q] /\ q \notin own[t]
        /\ \A q \in Pages \ (Mapped(mem) \ Held(t)) : q \in own[t] <=> m[q] # Unmapped
        /\ \A q \in own[t] : m[q] = Put(wrote[t], S, 0)[q]
    BY ONLY Inv, <1>3, <2>4, <2>5, MappedShape
  <2> QED BY ONLY Inv, t \in Threads, <1>1, <1>3, <2>1, <2>2, <2>3, <2>6, <2>7, SuccessStep DEF c
<1>7. CASE c.advice # "dontneed" /\ o = [r |-> 0, mem |-> mem]
  BY ONLY Inv, t \in Threads, <1>1, <1>4, <1>7, QuietStep
<1>8. \/ o = [r |-> -EINVAL, mem |-> mem]
      \/ c.advice = "dontneed" /\ o = [r |-> 0, mem |-> m]
      \/ c.advice # "dontneed" /\ o = [r |-> 0, mem |-> mem]
  <2> HIDE DEF c
  <2> QED BY <1>2, <1>4 DEF SysMadvise, Fail
<1> QED BY ONLY <1>5, <1>6, <1>7, <1>8

(* The advice posix_madvise passes on changes nothing.                      *)
LEMMA PosixStep ==
    ASSUME Inv, NEW t \in Threads, At(t, "posix_madvise"), op[t].advice # "dontneed",
           SystemCall(t, SysMadvise(mem, op[t]), "posix")
    PROVE  Inv'
<1>1. PICK o \in SysMadvise(mem, op[t]) : SystemCall(t, {o}, "posix")
  BY SomeOutcome
<1>2. PICK r \in {0, -EINVAL} : o = [r |-> r, mem |-> mem]
  BY <1>1 DEF SysMadvise, Fail
<1>3. SystemCall(t, {[r |-> r, mem |-> mem]}, "posix")
  BY ONLY <1>1, <1>2
<1>4. /\ mem' = mem /\ raw' = [raw EXCEPT ![t] = r] /\ pc' = [pc EXCEPT ![t] = "posix"]
      /\ errno' = errno /\ op' = op /\ res' = res /\ own' = own /\ wrote' = wrote
  BY ONLY <1>3, OneOutcome
<1>5. r \in Int /\ (r = 0 \/ r \in Errors)
  BY DEF Errors, EINVAL
<1>6. TypeInv'
  BY <1>4, <1>5 DEF Inv, TypeInv
<1>7. /\ pc'[t] = "posix" /\ raw'[t] = r
      /\ \A u \in Threads : u # t => pc'[u] = pc[u] /\ raw'[u] = raw[u]
  BY <1>4 DEF Inv, TypeInv
<1>8. pc[t] = "entry" /\ op[t].f = "posix_madvise"
  BY DEF At
<1>9. CallInv(t)'
  BY <1>4, <1>5, <1>7, <1>8, AtEntry DEF CallInv, About
<1>10. /\ Held(t) = own[t] /\ Held(t) \subseteq Mapped(mem) /\ \A q \in own[t] : mem[q] = wrote[t][q]
       /\ own[t] \subseteq Pages
  BY <1>8, AtEntry
<1>11. Held(t)' = own[t] /\ Kept(t)' = wrote[t]
  BY <1>4, <1>7 DEF Held, Kept
<1>12. DataInv(t)'
  BY <1>4, <1>10, <1>11 DEF DataInv
<1>13. /\ \A p \in Mapped(mem) \ Held(t) : mem'[p] = mem[p] /\ p \notin Held(t)'
       /\ \A p \in Pages \ (Mapped(mem) \ Held(t)) : p \in Held(t)' <=> mem'[p] # Unmapped
  BY <1>4, <1>10, <1>11, MappedShape
<1> QED BY ONLY Inv, t \in Threads, <1>4, <1>6, <1>7, <1>9, <1>10, <1>11, <1>12, <1>13, ThreadStep

(* A call returns: what the program now thinks is what the kernel has had   *)
(* for it all along.                                                        *)
LEMMA ReturnStep ==
    ASSUME Inv, NEW t \in Threads, NEW r \in Int, NEW e \in Int, Return(t, r, e), pc[t] # "idle",
           OwnAfter(op[t], r, own[t]) = Held(t), WroteAfter(op[t], r, wrote[t]) = Kept(t)
    PROVE  Inv'
<1>1. /\ errno' = [errno EXCEPT ![t] = e] /\ res' = [res EXCEPT ![t] = r]
      /\ own' = [own EXCEPT ![t] = Held(t)] /\ wrote' = [wrote EXCEPT ![t] = Kept(t)]
      /\ pc' = [pc EXCEPT ![t] = "idle"] /\ op' = [op EXCEPT ![t] = NoCall]
      /\ raw' = [raw EXCEPT ![t] = 0] /\ mem' = mem
  BY DEF Return
<1>2. op[t] \in Calls /\ About(op[t]) \subseteq Pages /\ wrote[t] \in [Pages -> {0, 1}]
  BY DEF Inv, TypeInv, CallInv
<1>3. Kept(t) \in [Pages -> {0, 1}]
  BY ONLY <1>2, WroteType, WroteAfter(op[t], r, wrote[t]) = Kept(t)
<1>4. Held(t) \subseteq Mapped(mem) /\ Held(t) \subseteq Pages /\ DataInv(t)
  BY MappedShape DEF Inv, HoldInv
<1>5. TypeInv'
  BY <1>1, <1>3, <1>4 DEF Inv, TypeInv
<1>6. /\ pc'[t] = "idle" /\ own'[t] = Held(t) /\ wrote'[t] = Kept(t)
      /\ \A u \in Threads : u # t => /\ pc'[u] = pc[u] /\ op'[u] = op[u] /\ raw'[u] = raw[u]
                                     /\ own'[u] = own[u] /\ wrote'[u] = wrote[u]
  BY <1>1 DEF Inv, TypeInv
<1>7. CallInv(t)'
  BY <1>6 DEF CallInv
<1>8. Held(t)' = Held(t) /\ Kept(t)' = Kept(t)
  BY <1>6 DEF Held, Kept
<1>9. DataInv(t)'
  BY <1>1, <1>4, <1>8 DEF DataInv
<1>10. /\ \A p \in Mapped(mem) \ Held(t) : mem'[p] = mem[p] /\ p \notin Held(t)'
       /\ \A p \in Pages \ (Mapped(mem) \ Held(t)) : p \in Held(t)' <=> mem'[p] # Unmapped
  BY <1>1, <1>4, <1>8, MappedShape
<1> QED BY ONLY Inv, t \in Threads, <1>4, <1>5, <1>6, <1>7, <1>8, <1>9, <1>10, ThreadStep

(* ret hands the result to the program, which then owns what it will own.   *)
LEMMA RetStep == ASSUME Inv, NEW t \in Threads, ret(t) PROVE Inv'
<1> DEFINE r == Fixup(op[t], raw[t])
           e == RetErrno(r, errno[t])
<1>1. pc[t] = "ret" /\ Return(t, Result(t), e) /\ raw[t] \in Int /\ errno[t] \in Int
  BY DEF ret, Result, Inv, TypeInv
<1>2. r \in Int /\ Result(t) \in Int
  BY <1>1 DEF Fixup, Result, RetValue, ENOMEM
<1>3. e \in Int
  <2> HIDE DEF r
  <2> QED BY <1>1, <1>2 DEF RetErrno
<1>4. OwnAfter(op[t], Result(t), own[t]) = Held(t) /\ WroteAfter(op[t], Result(t), wrote[t]) = Kept(t)
  BY ONLY <1>1 DEF Held, Kept
<1> HIDE DEF e
<1> QED BY <1>1, <1>2, <1>3, <1>4, ReturnStep

(* The library's own refusals, and posix_madvise.                           *)
LEMMA PlainReturnStep ==
    ASSUME Inv, NEW t \in Threads, NEW r \in Int, NEW e \in Int, Return(t, r, e), pc[t] \in {"entry", "posix"},
           \/ r = -1 /\ op[t].f # "munmap"
           \/ op[t].f = "posix_madvise"
    PROVE  Inv'
<1>1. op[t].f # "munmap"
  OBVIOUS
<1>2. Held(t) = own[t] /\ Kept(t) = wrote[t]
  BY ONLY <1>1, pc[t] \in {"entry", "posix"} DEF Held, Kept
<1>3. OwnAfter(op[t], r, own[t]) = own[t] /\ WroteAfter(op[t], r, wrote[t]) = wrote[t]
  BY ONLY (r = -1 /\ op[t].f # "munmap") \/ op[t].f = "posix_madvise" DEF OwnAfter, WroteAfter
<1> QED BY <1>2, <1>3, ReturnStep

(* posix_madvise hands its error to the program.                            *)
LEMMA PosixReturnStep == ASSUME Inv, NEW t \in Threads, PosixReturn(t) PROVE Inv'
<1>1. /\ pc[t] = "posix" /\ op[t].f = "posix_madvise" /\ Return(t, -raw[t], errno[t])
      /\ raw[t] \in Int /\ errno[t] \in Int
  BY DEF PosixReturn, Inv, CallInv, TypeInv
<1>2. -raw[t] \in Int
  BY ONLY <1>1
<1> QED BY ONLY Inv, t \in Threads, <1>1, <1>2, PlainReturnStep

(* The program stores in a page of its own, which nobody else has.          *)
LEMMA WriteStep == ASSUME Inv, NEW t \in Threads, Write(t) PROVE Inv'
<1>1. PICK p \in own[t] \cap Mapped(mem) :
          mem' = [mem EXCEPT ![p] = 1] /\ wrote' = [wrote EXCEPT ![t][p] = 1]
  BY DEF Write
<1>2. /\ pc[t] = "idle" /\ errno' = errno /\ pc' = pc /\ op' = op /\ raw' = raw /\ res' = res /\ own' = own
  BY DEF Write
<1>3. /\ mem \in [Pages -> {0, 1, Unmapped}] /\ wrote \in [Threads -> [Pages -> {0, 1}]] /\ p \in Pages
      /\ own[t] \subseteq Pages
  BY MappedShape DEF Inv, TypeInv
<1>4. wrote' = [wrote EXCEPT ![t] = [wrote[t] EXCEPT ![p] = 1]]
  BY <1>1, <1>3
<1>5. [wrote[t] EXCEPT ![p] = 1] \in [Pages -> {0, 1}]
  BY <1>3
<1>6. wrote' \in [Threads -> [Pages -> {0, 1}]]
  BY ONLY <1>3, <1>4, <1>5
<1>7. mem' \in [Pages -> {0, 1, Unmapped}]
  BY ONLY <1>1, <1>3
<1>8. TypeInv'
  BY <1>2, <1>6, <1>7 DEF Inv, TypeInv
<1>9. /\ wrote'[t] = [wrote[t] EXCEPT ![p] = 1]
      /\ \A u \in Threads : u # t => wrote'[u] = wrote[u]
  BY ONLY t \in Threads, <1>3, <1>4
<1>10. CallInv(t)'
  BY <1>2 DEF CallInv
<1>11. Held(t) = own[t] /\ Held(t)' = own[t] /\ Kept(t) = wrote[t] /\ Kept(t)' = wrote'[t]
  BY <1>2 DEF Held, Kept
<1>12. DataInv(t) /\ own[t] \subseteq Mapped(mem)
  BY <1>11 DEF Inv, HoldInv
<1>13. DataInv(t)'
  BY <1>1, <1>3, <1>9, <1>11, <1>12 DEF DataInv
<1>14. /\ \A q \in Mapped(mem) \ Held(t) : mem'[q] = mem[q] /\ q \notin Held(t)'
       /\ \A q \in Pages \ (Mapped(mem) \ Held(t)) : q \in Held(t)' <=> mem'[q] # Unmapped
  BY <1>1, <1>3, <1>11, <1>12, MappedShape
<1> QED BY ONLY Inv, t \in Threads, <1>2, <1>3, <1>8, <1>9, <1>10, <1>11, <1>13, <1>14, ThreadStep

(* A call begins; munmap's pages are given up, and still mapped.            *)
LEMMA CallStep == ASSUME Inv, NEW t \in Threads, Call(t) PROVE Inv'
<1>1. PICK c \in Calls :
          /\ About(c) \subseteq own[t] /\ op' = [op EXCEPT ![t] = c]
          /\ own' = [own EXCEPT ![t] = IF c.f = "munmap" THEN own[t] \ About(c) ELSE own[t]]
  BY DEF Call, Calls
<1>2. /\ pc[t] = "idle" /\ pc' = [pc EXCEPT ![t] = "entry"] /\ res' = [res EXCEPT ![t] = 0]
      /\ mem' = mem /\ errno' = errno /\ raw' = raw /\ wrote' = wrote
  BY DEF Call
<1>3. TypeInv'
  BY <1>1, <1>2 DEF Inv, TypeInv
<1>4. /\ pc'[t] = "entry" /\ op'[t] = c
      /\ own'[t] = IF c.f = "munmap" THEN own[t] \ About(c) ELSE own[t]
      /\ \A u \in Threads : u # t => pc'[u] = pc[u] /\ op'[u] = op[u] /\ own'[u] = own[u]
      /\ own[t] \subseteq Pages
  BY <1>1, <1>2 DEF Inv, TypeInv
<1>5. About(op[t])' = About(c)
  BY <1>4 DEF About
<1>6. CallInv(t)'
  BY <1>1, <1>4, <1>5 DEF CallInv
<1>7. Held(t) = own[t] /\ Kept(t) = wrote[t]
  BY <1>2 DEF Held, Kept
<1>8. Held(t)' = own[t] /\ Kept(t)' = wrote[t]
  <2>1. Kept(t)' = wrote[t]
    BY ONLY <1>2, <1>4 DEF Kept
  <2>2. CASE c.f = "munmap"
    <3>1. Held(t)' = own'[t] \cup About(op[t])'
      BY ONLY <1>4, <2>2 DEF Held
    <3> QED BY ONLY <1>1, <1>4, <1>5, <2>1, <2>2, <3>1
  <2>3. CASE c.f # "munmap"
    <3>1. Held(t)' = own'[t]
      BY ONLY <1>4, <2>3 DEF Held
    <3> QED BY ONLY <1>4, <2>1, <2>3, <3>1
  <2> QED BY ONLY <2>2, <2>3
<1>9. DataInv(t) /\ own[t] \subseteq Mapped(mem)
  BY <1>7 DEF Inv, HoldInv
<1>10. DataInv(t)'
  BY <1>2, <1>7, <1>8, <1>9 DEF DataInv
<1>11. /\ \A q \in Mapped(mem) \ Held(t) : mem'[q] = mem[q] /\ q \notin Held(t)'
       /\ \A q \in Pages \ (Mapped(mem) \ Held(t)) : q \in Held(t)' <=> mem'[q] # Unmapped
  BY <1>2, <1>7, <1>8, <1>9, MappedShape
<1> QED BY ONLY Inv, t \in Threads, <1>2, <1>3, <1>4, <1>6, <1>8, <1>10, <1>11, ThreadStep

(* Nothing is mapped and nobody is in a call at first.                      *)
LEMMA InitInv == Init => Inv
<1> SUFFICES ASSUME Init PROVE Inv
  OBVIOUS
<1>1. TypeInv
  BY DEF Init, TypeInv
<1>2. ASSUME NEW t \in Threads PROVE Held(t) = {} /\ CallInv(t)
  BY DEF Init, Held, CallInv
<1>3. Mapped(mem) = {}
  BY DEF Init, Mapped
<1>4. HoldInv
  BY <1>2, <1>3 DEF HoldInv
<1> QED BY <1>1, <1>2, <1>4 DEF Inv, DataInv

(* Every step of every thread preserves the invariant.                      *)
LEMMA StepInv == Inv /\ [Next]_vars => Inv'
<1> SUFFICES ASSUME Inv, [Next]_vars PROVE Inv'
  OBVIOUS
<1>1. ASSUME NEW t \in Threads, Step(t) PROVE Inv'
  <2>0. errno[t] \in Int /\ EINVAL \in Int /\ ENOMEM \in Int
    BY DEF Inv, TypeInv, EINVAL, ENOMEM
  <2>1. CASE mmap(t)
    <3>1. CASE SystemCall(t, SysMmap(mem, op[t]), "ret")
      BY <2>1, <3>1, MmapStep DEF mmap
    <3>2. ASSUME NEW e \in Int, Refuse(t, e) PROVE Inv'
      BY <2>1, <3>2, PlainReturnStep DEF mmap, At, Refuse, MAP_FAILED
    <3> QED BY <2>0, <2>1, <3>1, <3>2 DEF mmap
  <2>2. CASE munmap(t)
    BY <2>2, MunmapStep
  <2>3. CASE mremap(t)
    <3>1. CASE SystemCall(t, SysMremap(mem, op[t]), "ret")
      BY <2>3, <3>1, MremapStep DEF mremap
    <3>2. ASSUME NEW e \in Int, Refuse(t, e) PROVE Inv'
      BY <2>3, <3>2, PlainReturnStep DEF mremap, At, Refuse, MAP_FAILED
    <3> QED BY <2>0, <2>3, <3>1, <3>2 DEF mremap
  <2>4. CASE madvise(t)
    BY <2>4, MadviseStep
  <2>5. CASE mprotect(t) \/ msync(t) \/ Locking(t)
    BY <2>5, ForwardStep
  <2>6. CASE posix_madvise(t)
    <3>1. CASE op[t].advice = "dontneed"
      BY <2>0, <2>6, <3>1, PlainReturnStep DEF posix_madvise, At
    <3>2. CASE op[t].advice # "dontneed"
      BY <2>6, <3>2, PosixStep DEF posix_madvise
    <3> QED BY <3>1, <3>2
  <2>7. CASE PosixReturn(t)
    BY <2>7, PosixReturnStep
  <2>8. CASE ret(t)
    BY <2>8, RetStep
  <2> QED BY <1>1, <2>1, <2>2, <2>3, <2>4, <2>5, <2>6, <2>7, <2>8 DEF Step
<1>2. ASSUME NEW t \in Threads, Call(t) \/ Write(t) PROVE Inv'
  BY <1>2, CallStep, WriteStep
<1>3. CASE UNCHANGED vars
  <2>1. TypeInv'
    BY <1>3 DEF vars, Inv, TypeInv
  <2>2. ASSUME NEW t \in Threads PROVE Held(t)' = Held(t) /\ Kept(t)' = Kept(t) /\ CallInv(t)'
    <3>1. CallInv(t)
      BY DEF Inv
    <3>2. CallInv(t)'
      BY <1>3, <3>1 DEF vars, CallInv
    <3>3. Held(t)' = Held(t)
      BY <1>3 DEF vars, Held, Result
    <3>4. Kept(t)' = Kept(t)
      BY <1>3 DEF vars, Kept, Result
    <3> QED BY <3>2, <3>3, <3>4
  <2>3. mem' = mem /\ Mapped(mem)' = Mapped(mem)
    BY <1>3 DEF vars
  <2>4. HoldInv'
    BY <2>2, <2>3 DEF Inv, HoldInv
  <2>5. ASSUME NEW t \in Threads PROVE DataInv(t)'
    BY <2>2, <2>3 DEF Inv, DataInv
  <2> QED BY <2>1, <2>2, <2>4, <2>5 DEF Inv
<1> QED BY <1>1, <1>2, <1>3 DEF Next, Done

(* The pages mapped in the kernel, what they hold and what the threads      *)
(* think agree in every reachable state, calls in progress accounted for.   *)
THEOREM Invariance == Spec => []Inv
  BY InitInv, StepInv, PTL DEF Spec

-----------------------------------------------------------------------------
(* Between calls a thread's pages are mapped and nobody else's, and no      *)
(* mapped page is lost, whatever failed (crates/mytilus-mman).              *)
THEOREM OwnersExact == Spec => []OwnershipExact
<1>1. Inv => OwnershipExact
  <2> SUFFICES ASSUME Inv PROVE OwnershipExact
    OBVIOUS
  <2>1. \A t \in Threads : Idle(t) => Held(t) = own[t]
    BY DEF Idle, Held
  <2>2. HoldInv
    BY DEF Inv
  <2>3. \A t \in Threads : Idle(t) => own[t] \subseteq Mapped(mem)
    BY <2>1, <2>2 DEF HoldInv
  <2>4. \A t, u \in Threads : Idle(t) /\ Idle(u) /\ t # u => own[t] \cap own[u] = {}
    BY <2>1, <2>2 DEF HoldInv
  <2>5. ASSUME \A t \in Threads : Idle(t) PROVE Mapped(mem) = UNION {own[t] : t \in Threads}
    BY <2>1, <2>2, <2>5 DEF HoldInv
  <2> QED BY <2>3, <2>4, <2>5 DEF OwnershipExact
<1> QED BY <1>1, Invariance, PTL

(* A thread finds in its pages what it wrote: mremap carries it along, and  *)
(* posix_madvise throws nothing away.                                       *)
THEOREM DataIsKept == Spec => []DataKept
<1>1. Inv => DataKept
  BY DEF Inv, DataInv, DataKept, Idle, Held, Kept
<1> QED BY <1>1, Invariance, PTL

(* An offset that is no multiple of the library's page size is none of the  *)
(* kernel's.                                                                *)
LEMMA MultipleOfPages ==
    ASSUME NEW a \in Nat, a % KernelPage = 0
    PROVE  a % PAGE_SIZE = 0
<1>0. KernelPage \in Nat \ {0} /\ PAGE_SIZE \in Nat \ {0} /\ KernelPage % PAGE_SIZE = 0
  BY PageSizeAssumption
<1>1. ASSUME NEW b \in Nat, NEW n \in Nat \ {0}, b % n = 0 PROVE b = (b \div n) * n /\ b \div n \in Nat
  BY ONLY <1>1
<1>2. ASSUME NEW b \in Nat, NEW n \in Nat \ {0} PROVE (b * n) % n = 0
  BY ONLY <1>2
<1>3. PICK x \in Nat : a = x * KernelPage
  BY ONLY a \in Nat, a % KernelPage = 0, <1>0, <1>1
<1>4. PICK y \in Nat : KernelPage = y * PAGE_SIZE
  BY ONLY <1>0, <1>1
<1>5. a = (x * y) * PAGE_SIZE /\ x * y \in Nat
  BY ONLY x \in Nat, y \in Nat, <1>0, <1>3, <1>4
<1> QED BY ONLY <1>0, <1>2, <1>5

(* At every return the program is told the kernel's error, except EPERM for *)
(* anonymous memory anywhere; success and posix_madvise leave errno alone;  *)
(* what mmap and mremap refuse by themselves the kernel would refuse too.   *)
THEOREM ErrorsAreExact == Spec => ErrorsExact
<1> DEFINE Told(t) ==
       LET c == op[t]
       IN  CASE pc[t] = "ret" /\ raw[t] < 0 ->
                    /\ res'[t] = -1
                    /\ errno'[t] = IF /\ c.f = "mmap" /\ c.page = NULL /\ c.anon /\ ~c.fixed
                                      /\ raw[t] = -EPERM
                                     THEN ENOMEM ELSE -raw[t]
             [] pc[t] = "ret" /\ raw[t] >= 0 -> res'[t] = raw[t] /\ errno'[t] = errno[t]
             [] pc[t] = "posix" -> res'[t] = -raw[t] /\ errno'[t] = errno[t]
             [] OTHER -> \/ res'[t] = 0 /\ c.f = "posix_madvise" /\ errno'[t] = errno[t]
                         \/ /\ res'[t] = -1
                            /\ \/ errno'[t] = ENOMEM /\ c.len >= PTRDIFF_MAX
                               \/ /\ errno'[t] = EINVAL
                                  /\ SysMmap(mem, c) = Fail(mem, {EINVAL})
       Exact(t) == ~Idle(t) /\ Idle(t)' => Told(t)
<1>1. Inv /\ [Next]_vars => [\A t \in Threads : Exact(t)]_vars
  <2> SUFFICES ASSUME Inv, Next, NEW t \in Threads, ~Idle(t), Idle(t)' PROVE Told(t)
    BY DEF vars
  <2>0. /\ errno \in [Threads -> Int] /\ res \in [Threads -> Int] /\ raw[t] \in Int
        /\ pc \in [Threads -> {"idle", "entry", "ret", "posix"}]
        /\ pc[t] # "idle" /\ pc'[t] = "idle" /\ op[t] \in Calls
    BY DEF Inv, TypeInv, CallInv, Idle
  <2>1. ASSUME NEW r, NEW e, Return(t, r, e) PROVE res'[t] = r /\ errno'[t] = e
    BY <2>0, <2>1 DEF Return
  <2>2. CASE ret(t)
    <3> DEFINE c == op[t]
               r == Fixup(c, raw[t])
    <3>1. pc[t] = "ret" /\ res'[t] = RetValue(r) /\ errno'[t] = RetErrno(r, errno[t])
      BY <2>1, <2>2 DEF ret
    <3>2. CASE raw[t] < 0
      <4>1. raw[t] \in Errors
        BY <2>0, <3>1, <3>2 DEF Inv, CallInv
      <4>2. r = IF c.f = "mmap" /\ c.page = NULL /\ c.anon /\ ~c.fixed /\ raw[t] = -EPERM THEN -ENOMEM ELSE raw[t]
        BY <2>0, CallShape DEF Fixup
      <4>3. \A x \in Errors : RetValue(x) = -1 /\ RetErrno(x, errno[t]) = -x
        BY DEF Errors, RetValue, RetErrno, is_err, EINVAL, ENOMEM, EPERM
      <4>4. r \in Errors
        BY ONLY <4>1, <4>2 DEF Errors
      <4>5. r = -ENOMEM => -r = ENOMEM
        <5> HIDE DEF r
        <5>1. r = -ENOMEM => r \in Int /\ r + 12 = 0
          BY ONLY TRUE DEF ENOMEM
        <5>2. \A x \in Int : x + 12 = 0 => -x = 12
          BY ONLY TRUE
        <5> QED BY ONLY <5>1, <5>2 DEF ENOMEM
      <4>6. /\ res'[t] = -1
            /\ errno'[t] = IF c.f = "mmap" /\ c.page = NULL /\ c.anon /\ ~c.fixed /\ raw[t] = -EPERM THEN ENOMEM ELSE -raw[t]
        BY ONLY <3>1, <4>2, <4>3, <4>4, <4>5
      <4>7. ~(raw[t] >= 0)
        BY ONLY <2>0, <3>2
      <4> QED BY ONLY <3>1, <3>2, <4>6, <4>7
    <3>3. CASE raw[t] >= 0
      <4>1. r = raw[t]
        BY <2>0, <3>3 DEF Fixup, EPERM
      <4>2. RetValue(r) = raw[t] /\ RetErrno(r, errno[t]) = errno[t]
        BY <2>0, <3>3, <4>1 DEF RetValue, RetErrno, is_err
      <4>3. ~(raw[t] < 0)
        BY <2>0, <3>3
      <4> QED BY ONLY <3>1, <3>3, <4>2, <4>3
    <3> QED BY ONLY <2>0, <3>2, <3>3
  <2>3. CASE PosixReturn(t)
    <3>1. pc[t] = "posix" /\ res'[t] = -raw[t] /\ errno'[t] = errno[t]
      BY <2>1, <2>3 DEF PosixReturn
    <3> QED BY ONLY <3>1
  <2>4. CASE posix_madvise(t)
    <3>1. pc[t] = "entry" /\ op[t].f = "posix_madvise" /\ Return(t, 0, errno[t])
      BY <2>0, <2>4 DEF posix_madvise, At, SystemCall
    <3>2. res'[t] = 0 /\ errno'[t] = errno[t]
      BY <2>1, <3>1
    <3> QED BY ONLY <3>1, <3>2
  <2>5. CASE mmap(t)
    <3>1. /\ pc[t] = "entry" /\ op[t].f = "mmap"
          /\ \/ op[t].off % PAGE_SIZE # 0 /\ Refuse(t, EINVAL)
             \/ op[t].len >= PTRDIFF_MAX /\ Refuse(t, ENOMEM)
      BY <2>0, <2>5 DEF mmap, At, SystemCall
    <3>2. res'[t] = -1
      BY <2>1, <3>1 DEF Refuse, MAP_FAILED
    <3>3. CASE op[t].off % PAGE_SIZE # 0 /\ Refuse(t, EINVAL)
      <4>1. errno'[t] = EINVAL
        BY <2>1, <3>3 DEF Refuse
      <4>2. op[t].off \in Nat
        BY <2>0, <3>1, CallShape
      <4>3. op[t].off % KernelPage # 0
        BY <3>3, <4>2, MultipleOfPages
      <4>4. SysMmap(mem, op[t]) = Fail(mem, {EINVAL})
        BY <4>3 DEF SysMmap
      <4> QED BY ONLY <3>1, <3>2, <4>1, <4>4
    <3>4. CASE op[t].len >= PTRDIFF_MAX /\ Refuse(t, ENOMEM)
      <4>1. errno'[t] = ENOMEM
        BY <2>1, <3>4 DEF Refuse
      <4> QED BY ONLY <3>1, <3>2, <3>4, <4>1
    <3> QED BY ONLY <3>1, <3>3, <3>4
  <2>6. CASE mremap(t)
    <3>1. pc[t] = "entry" /\ op[t].len >= PTRDIFF_MAX /\ Refuse(t, ENOMEM)
      BY <2>0, <2>6 DEF mremap, At, SystemCall
    <3>2. res'[t] = -1 /\ errno'[t] = ENOMEM
      BY <2>1, <3>1 DEF Refuse, MAP_FAILED
    <3> QED BY ONLY <3>1, <3>2
  <2>7. \/ ret(t) \/ PosixReturn(t) \/ posix_madvise(t) \/ mmap(t) \/ mremap(t)
    <3>1. ASSUME NEW u \in Threads, u # t, Step(u) \/ Call(u) \/ Write(u) PROVE FALSE
      <4>1. CASE \E r, e : Return(u, r, e)
        BY <2>0, <3>1, <4>1 DEF Return
      <4>2. CASE \E o, to : SystemCall(u, o, to)
        BY <2>0, <3>1, <4>2 DEF SystemCall
      <4>3. CASE Call(u) \/ Write(u)
        BY <2>0, <3>1, <4>3 DEF Call, Write
      <4>4. Step(u) => (\E r, e : Return(u, r, e)) \/ (\E o, to : SystemCall(u, o, to))
        BY DEF Step, mmap, munmap, mremap, madvise, mprotect, msync, Locking, posix_madvise, PosixReturn,
               ret, Refuse
      <4> QED BY <3>1, <4>1, <4>2, <4>3, <4>4
    <3>2. ~Done /\ ~Call(t) /\ ~Write(t)
      BY <2>0 DEF Done, vars, Call, Write
    <3>3. ~munmap(t) /\ ~madvise(t) /\ ~mprotect(t) /\ ~msync(t) /\ ~Locking(t)
      BY <2>0 DEF munmap, madvise, mprotect, msync, Locking, SystemCall
    <3> QED BY <3>1, <3>2, <3>3 DEF Next, Step
  <2> QED BY ONLY <2>2, <2>3, <2>4, <2>5, <2>6, <2>7
<1>2. Spec => [][\A t \in Threads : Exact(t)]_vars
  BY <1>1, Invariance, PTL DEF Spec
<1> QED BY <1>2 DEF ErrorsExact
=============================================================================
