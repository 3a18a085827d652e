# TLA+ verification of mytilus

mytilus is a libc in Rust for `aarch64-unknown-linux`, ported crate by crate
from musl. This directory holds TLA+ models of the parts that have behaviour,
TLC configurations that check them on small instances, and TLAPS proofs for
every value of the constants. Paths below are relative to `src/crates/`.

## 1. Inventory

| Component | State it keeps | Operations | What is hard |
|---|---|---|---|
| `mytilus-prng`: random(3) | `RANDOM_LOCK`, `RAND_X/N/I/J`, state buffers owned by the caller | `random`, `srandom`, `initstate`, `setstate` | threads, a spinlock around `static mut`s, a header packed into a caller's buffer, sizes that need not be multiples of a word |
| `mytilus-prng`: `rand`, `rand_r`, rand48 | `RAND_SEED`, `__seed48`, `PREV` | `rand`, `srand`, `rand_r`, `*rand48`, `seed48`, `lcong48` | `seed48` returns a pointer to a static it overwrites; 48-bit arithmetic in 64 bits over three half words; the multiplier is part of the state |
| `mytilus-fcntl`, `mytilus-unistd` (descriptors) | the kernel's table; `errno` per thread | `open`, `openat`, `creat`, `fcntl`, `posix_fadvise`, `posix_fallocate`, `close`, `dup`, `dup2`, `dup3`, `read`, `write`, `lseek`, `fsync` | two system calls in one `open`, `EINTR` from `close`, descriptor numbers reused by other threads |
| `mytilus-sys`, `mytilus-errno` | `ERRNO_VAL` (thread local) | `syscallN`, `syscall_cp_N`, `is_err`, `ret`, `strerror` | the range of errors; errno of the right thread |
| `mytilus-mman` | the kernel's address space | `mmap`, `munmap`, `mremap`, `madvise`, `posix_madvise`, `mprotect`, `msync`, `mlock*` | checks against a page size that need not be the kernel's, a failed `mmap` whose errno is changed, pages given up and taken by other threads |
| `mytilus-process` | the kernel's | ids, sessions, `kill`, `sched_yield`, `_Exit` | two return conventions |
| `mytilus-time`, `mytilus-unistd` (time) | the caller's timespec | `clock_nanosleep`, `nanosleep`, `sleep`, `usleep`, the clocks | signals at any moment, retries, two error conventions, a clock that is set meanwhile |
| `mytilus-stdlib/sort.rs` | the caller's array | `qsort`, `qsort_r`, `bsearch` | callbacks that may answer anything |
| `mytilus-string/asm` | the caller's memory | `memcpy`, `memset` | software pipelining, overlapping stores, `dc zva`, unsigned counters |
| `mytilus-string/mem.rs` | the caller's memory | `memmove`, `memcmp` | overlap |
| `mytilus-string/str_fns.rs` | the caller's strings | copies, scans, comparisons, `strerror_r` | exact sizes, missing terminators |
| `mytilus-string/str_search.rs` | `STRTOK_STATE` | `strtok`, `strtok_r`, `strsep`, searches | several streams that cut one buffer |
| `mytilus-signal/sigset.rs` | the caller's `sigset_t` | the eight set operations | garbage padding, aliased arguments, unsigned comparisons of ints |
| `mytilus-locale/ctype.rs`, `mytilus-stdlib/int_ops.rs` | none | `is*`, `to*`, `abs`, `div` and relatives | any int, wrapping comparisons, rounding towards zero |
| `mytilus-startup` | the caller's `jmp_buf` | `setjmp`, `longjmp` | register offsets |
| 14 further crates | none | none | ten-line placeholders without code |

Components interact in these ways: every wrapper ends in `ret` of
`mytilus-sys`, which writes the thread's `errno`; `sleep` and `usleep` are built
on `nanosleep`, which is built on `clock_nanosleep`; `gettimeofday` and `time`
are built on `clock_gettime`; `strtok_r` and `strsep` are built on `strspn`,
`strcspn` and `__strchrnul`; `strcasecmp` is built on `tolower`. `qsort` and
`bsearch` call back into the program, and programs use the one on what the
other left, as they tokenize what they have copied and copy what they have
filled. Nothing is persisted, so there is no crash recovery to model.

`PROJECT.json` lists every component with its status, every hazard with its
line, and the lines each definition translates.

## 2. Modules

### random(3): `LaggedFibonacci`, `RandomInterface`, `RandomSpec`, `Random`, `RandomInv`, `RandomProofs`, `MCRandom`

`LaggedFibonacci` has the arithmetic (`lcg31`, `lcg64`, the degree picked from a
size, the words seeding writes). The word modulus is a parameter `M`, 2^32 in
the code: every operation is a sum, product or half modulo `M`, `M^2` or `M/2`.

`RandomSpec` is the abstract specification: per buffer a shift register of the
last n outputs, each call atomic, no indices, lock or header.

`Random` is the code. The spinlock, the lazily initialised `RAND_X`, the three
`static mut`s, the header word and the words of every buffer are variables; a
call is a sequence of steps (`Lock`, `Read`, `Store`, `AdvanceIndices`,
`Unlock`; `SeedStart`, `SeedFill`, `SeedOdd`; `SaveOld`, `Switch`, `SaveNew`;
`Load`), so a lock that failed to exclude would show. A failed
`compare_exchange` changes nothing and is a stuttering step. Bytes a caller's
buffer holds before anybody writes them are `Garbage`. The variables
`published` and `known` are history: the generators when the lock was last
free, and the buffers a program may hand to `setstate`.

The refinement mapping is `published.gen`, `published.cur` and `op`: each
`Unlock` is one atomic call of `RandomSpec`, every other step a stutter.

### rand and rand48: `IntOps`, `Lcg48`, `Rand48`, `RandomProofs`, `MCRand48`

`Lcg48` is the abstract specification: two linear congruential sequences modulo
2^48, one hidden and one in the caller's array, a multiplier and an addend, and
outputs made of the leading bits. `Rand48` is the code over half words: the join
and the split of `__rand48_step`, 64-bit products that wrap, the casts of each
output function, `seed48` with its static `PREV`, `srand48`, `lcong48`, and
`rand` and `srand`. The number `B` of values of a half word is a parameter, 2^16
in the code; an int has B^2 values, the sequences B^3, a 64-bit word B^4.
`seed48(PREV)`, the pointer handed back unchanged, is among the arguments: the
copies in that order make it a call that does not move the sequence. `Lcg48`
says where `srand48` starts the sequence, the seed's low bits above a constant
half word; what `seed48` is passed is the program's affair. `IntOps` has `abs` and
`div`, applied to every integer that was drawn; `div` gives `Panic`, no result,
where Rust's `/` and `%` abort the process in every build profile: for a divisor
of zero and for the least int over -1. These functions have no lock, so the
program that calls them has one thread.

### The errno convention: `Errno`

`is_err`, what `ret` returns and the errno it leaves; extended by every module
that makes system calls. `MAX_ERRNO` is the kernel's greatest error number, by
which the properties tell an error from a result without `is_err`.

### Descriptors and processes: `Descriptors`, `DescriptorsProofs`, `MCDescriptors`

The kernel's table is external: each system call is an operator that returns
the possible outcomes. A library call is one step per system call and the step
`ret`; `posix_fadvise` and `posix_fallocate` return their error instead. The
process calls run beside them, because what matters about those is that they
use `ret` or do not. `read`, `lseek` and the like (`Transfer`) may fail with the
greatest error number and may succeed with a result just below all errors (an
offset in a device such as `/dev/mem` is an unsigned number). The program is the disciplined program of POSIX: a thread
touches only numbers it was given and has not closed, and closes again on
`EINTR`. `by` in a table entry says for which thread the kernel made it; `owned`
is what the program believes. `OldKernel` makes the kernel ignore `O_CLOEXEC`,
the case `openat_inner`'s second system call exists for. The cancellable entry
`syscall_cp_N` reads its flag, `DUMMY_CANCEL`, which is never set.

### Mappings: `Mappings`, `MappingsProofs`, `MCMappings`

The kernel's address space is external: a page is unmapped or holds a value.
Each call is its checks (the unaligned offset, the length above `PTRDIFF_MAX`),
its system call and its own end: `mmap`'s `EPERM` that becomes `ENOMEM`,
`posix_madvise`'s returned error and its `POSIX_MADV_DONTNEED` that reaches no
kernel, `ret` for the rest. `KernelPage` may be larger than the library's
`PAGE_SIZE`. The address a program passes may be NULL with `MAP_FIXED`, a page
the kernel gives nobody: the one case in which the fixup of `EPERM` hangs on that
flag. A thread gives pages up before it calls `munmap` and takes them
back when that fails; `wrote` is what it expects to find in its pages.

### Time: `Sleep`, `SignalProofs`, `MCSleep`

One call of each sleeping function inside the loop a program puts around it. The
kernel counts `rem` down one tick at a time and a signal may come before any
tick; `tv` is both `req` and `rem`, as `sleep` passes it. A second has
`Micro * NsPerUs` ticks. `asked` is the length of the request counted from the
argument itself, not from the split of it that `usleep` makes. The program reads `clock_gettime`, `gettimeofday` or
`time` before and after, and `clock_settime` may come in between.

### Sorting and searching: `SortParams`, `Heapsort`, `HeapsortInv`, `Bsearch`, `SortSearch`, `SortSearchProofs`, `MCSortSearch`

Every comparison and every swap is a step. Elements are named by the place they
had at the call, so a lost element is visible although bytes are not modelled.
`honest = FALSE` is a comparator that gives any answer at any time. `SortSearch`
composes the two: `bsearch` runs on the array `qsort` left.

### Memory: `MemParams`, `Memcpy`, `Memset`, `FillCopy`, `FillCopyProofs`, `MCFillCopy`, `Memmove`, `MemmoveProofs`, `MCMemmove`

The two assembly files are modelled at the level of addresses: a data register
of `memcpy` is the address it was loaded from, a store the interval it writes.
A step is a run of instructions without a branch. `FillCopy` composes them: the
buffer `memset` has filled is what `memcpy` copies. `Memmove` keeps a real
memory because its regions overlap.

### Strings: `Ctype`, `Scan`, `Strings`, `Tokenizer`, `TokenizeCopy`, `StringsProofs`, `MCTokenizeCopy`

`Scan` has the functions that only read, each as what it returns and the
offsets it reads; a loop is the least or greatest offset at which its condition
fails. `Strings` runs them, and the copies byte by byte, on operands that are
exactly as large as the contract demands; `strcat` returns the beginning of its
string, offset 0, where `stpcpy`, the loop it shares, returns the end. `strcpy` and
`strncpy` are `stpcpy` and `stpncpy` with the destination as their result. `Tokenizer` nests two token streams
in one buffer, each through any of the three calls, interleaved in every order.
`TokenizeCopy` composes them: the buffer that is cut is the one a copy has just
written. `Ctype` has the predicates and conversions with the wrap-around of an
unsigned comparison; `strcasecmp` uses it.

### Signal sets: `Sigset`, `SignalProofs`, `MCSigset`

Words are sets of bit positions; ints have `IntModulus` values. Objects start
as garbage. `members` is the set POSIX would say an object is.

## 3. Runs

| Run | Bounds | What it shows |
|---|---|---|
| `MCRandom` | 2 threads, 2 calls each, buffers of 128, 35 and 31 bytes, sizes 7, 31, 35; M = 16; fairness | mutual exclusion, every access inside the buffer and of written words only, refinement of `RandomSpec`, every call returns |
| `MCRandomWrap` | 1 thread, 9 calls, degrees 7, 15 and 31 | both indices wrap around 7 words: lag, odd word, refinement |
| `MCRand48` | half words of 8 values, 6 calls, one array, one multiplier besides the standard one, 3 seeds | refinement of `Lcg48`, what `seed48` returned is the state before and a copy of it stays that, the laws of `abs` and `div` |
| `MCRand48Seed` | the same with the seeds of the repository's test | a violation, section 4 |
| `MCDescriptors` | 2 threads, 3 calls each, 3 numbers; symmetry of threads | ownership, no leak, close-on-exec as asked, errno of the own call, both ends of `is_err`'s range |
| `MCMappings` | 2 threads, 3 calls, 3 pages of 4 bytes, `PAGE_SIZE` 2; symmetry of threads | every page belongs to the thread it was given to, no data lost, every error the right one in the right place |
| `MCSortSearch` | lengths 0..6, keys 0..2, widths 0 and 1, both comparators, 5 targets; fairness | accesses, permutation, order, the O(n log n) bound of the header comment, the search finds exactly what is there within its window, termination of both |
| `MCTokenizeCopy` | copies up to 4 bytes, buffers up to 5, scans over 4 bytes, ints of a span of 1024, 4 separator sets | reads and writes inside the objects, contents and results of copies, searches and comparisons, `ctype` on every int, each token stream yields exactly its tokens, whole and terminated |
| `MCFillCopy` | lengths 0..340, 64 alignments, both bytes, zva on and off; 16 alignments of the copy's destination, 2 of its source | every byte set and nothing else, `dc zva` only for zeros, every byte copied to its place, accesses in bounds |
| `MCMemmove` | 6 bytes of arbitrary memory, all regions | result and frame |
| `MCSleep` | up to 3 signals, a second of 6 ticks, 3 epochs; fairness | bounded shortfall and no oversleeping, the whole time waited, what the clocks say of the time that passed, termination of the caller's loop |
| `MCSigset` | 2 objects, 4 calls, ints of 8 bits at each boundary | membership and emptiness, reserved signals kept out |

Why the bounds are enough: each is the least at which every branch of the code
is taken, both sides of every comparison are met, and every loop runs at least
three times (or, for the indices of `random`, wraps). Two threads are enough
for every race over one lock, one descriptor or one page. No run holds a
generator of degree 63 or a buffer larger than 128 bytes, because its words make
the states too large; the proofs cover every size. The modulus 16 keeps all
carries and truncations; the multipliers and `RANDOM_INIT` are reduced to the
bits that arithmetic modulo 16 and 256 sees. In the same way half words of
8 values keep every carry from one half word into the next and every cast of
rand48. The sequences of `MCRand48` are long enough to reseed, draw, change the
multiplier, reseed and resume. A `MaxCalls` of 3 in `MCMappings` lets one
thread map, lose and another take a page. What the bounds leave open the
proofs close for every safety property of the runs; termination alone is
only checked within them.

Termination states are `Done` steps, so TLC's deadlock check stays on in every
run.

Fairness: `MCRandom` assumes that each thread inside a call is scheduled
again and again (weak fairness of its steps). The spinlock is not fair, so with
callers that arrive for ever a thread could starve; with finitely many calls it
cannot, and that is what is claimed. `AllSpec` of `SortSearch` assumes that the
comparator returns. `MCSleep` assumes that the timer runs; signals never have to
come, and only finitely many do.

## 4. Findings and remarks

**`srand48` does not undo `lcong48`.** The comment of a test,
`mytilus-prng/src/lib.rs:494`, says that the first outputs after `srand48(0)` and
`srand48(123)` "are fully determined by the spec". `srand48` calls `seed48`, and
that replaces only `__seed48[0..2]`; a multiplier and addend that `lcong48`
stored stay. `MCRand48Seed` shows it in three calls: `lcong48`, `srand48(0)`,
and a draw that differs from the one without `lcong48`. (POSIX has `srand48` and
`seed48` restore the standard multiplier and addend.) `MCRand48` checks the
code as it is: `Lcg48` leaves the multiplier alone when the sequence is seeded.

One comment is wrong about a reason: `mytilus-prng/src/lib.rs:147` justifies an
unsafe store with "x always points one element into a 32-element-or-larger
buffer", but `initstate` accepts 8 bytes, so `x` may point into a buffer of 8
words, or 2. The store is inside the buffer all the same, for every size: that
is part of `MemorySafe`, checked and proved.

The comment of a test of the predicates, `mytilus-locale/src/ctype.rs:221`, is
wrong: "ispunct/isxdigit can fire on |32 fold" for negative ints and ints above
255. It contradicts the lines before it, "all classifiers must say "no"", and
the code, where the folded argument still has the bits that put it outside the
range. `ClassesExact` holds for every int, checked and proved.

`is_err` takes -4096 for an error too, as its comment says; the greatest error
number of Linux is 4095, so the kernel of the models never returns it as one.
It could only matter as a result (an offset in a device), which `lseek` would
then report as an error.

`div(INT_MIN, -1)` aborts the process, where `abs(INT_MIN)` is made to wrap "to
match the observable upstream behavior" (`mytilus-stdlib/src/int_ops.rs:6-10`). In
C that quotient is undefined and on aarch64 it wraps; the header of the file
does not mention it. `IntegerLaws` says of `div` what the code does, the panic
included. So `div(mrand48(), d)` is safe for no `d` that may be -1.

`mmap` tests offsets against 4096 whatever the kernel's page size is. On a kernel
with larger pages that test lets some unaligned offsets through to the system
call, which refuses them with the same `EINVAL`: `ErrorsExact` holds in
`MCMappings`, whose kernel has larger pages than the library believes.

## 5. Proofs

All theorems hold for every value of the constants that satisfies the named
assumptions of the modules, which TLC evaluates in the runs.

* `RandomProofs`. The inductive invariant is `Inv` of `RandomInv`: the type
  invariant; the lock is 1 exactly while one thread is inside (`LockInv`);
  every parked generator is good (`ParkedInv`), the current one is good unless
  it is being reseeded (`ActiveInv`); the locals of the thread inside agree
  with the statics (`LocalsInv`). "Good" means that the words fit into the
  buffer, that n and the indices are in range and the right distance apart, and
  that the words are initialised with an odd one among them. `LagPreserved` and
  `SomeOddWord` are not inductive by themselves, because they only speak of the
  moments at which the lock is free. Oddness survives `random` because the word
  that is replaced by x[i] + x[j] can only become even if x[j] is odd, and x[j]
  stays. Assumed: M even and above 1, `RANDOM_INIT` has 31 words with an odd
  one, the caller's size does not exceed the buffer.
  `Refinement` needs more, `RefInv`. No step touches a parked generator
  (`ParkedKept`). The memory is what was published when the lock was last free,
  until a call makes its first store; from then on `ProgressInv` says how far
  the call has come: after the store of `random` the oldest word of the abstract
  register has been replaced but not yet rotated to the end, in the loop of
  `srandom_locked` the words before k are those of the abstract seeding, and
  before the unlock the current generator is what the atomic call makes of the
  published one (`Effect`). So `Unlock` is that call and every other step
  leaves the abstract state alone. That the recursive function `SeedStates`
  exists is proved by a least counterexample, not by the library's theorems on
  recursive functions, which the installed provers cannot apply. Further
  assumed: the values that mark "no call" and "no generator" are none
  (`MarkerAssumption`).
* `DescriptorsProofs`. The entries the kernel made for a thread are exactly the
  ones it holds (`HoldInv`): those it owns and that its call in progress has not
  released, and the one about to be returned to it. `OwnedIsMine` and `NoLeak`
  are its two halves, and neither is inductive without the other. `FlagInv`
  says the same of the flags: what the program will have asked for once the
  call in progress returns, except the one `openat_inner` has still to set.
  `CallInv` ties the raw result to the call at each label; `ErrorRange` is what
  the two bounds of `is_err` come to on the results the kernel gives. Assumed: `Free` is no
  table entry.
* `MappingsProofs`. `Held(t)` is what a thread will own once its call returns,
  and what `munmap` has yet to release; `HoldInv`: the threads' held pages are
  disjoint and are together the mapped pages. `DataInv`: each holds what its
  thread wrote there, through a moving `mremap` too. `ErrorsAreExact` follows
  from `CallInv` and from the kernel's page being a multiple of `PAGE_SIZE`.
  Assumed: `Unmapped` is no contents.
* `SignalProofs`, of `Sleep`. `now + Ahead`, the time that will have passed if nobody
  interrupts any more, stays `asked` for `nanosleep` and `usleep` and never
  exceeds it for `sleep`, where it falls behind by at most `Lost`, a second less
  one tick for each signal (`DurationInv`); for `clock_nanosleep` the deadline
  does not move (`DeadlineInv`). `ResultInv` links what the caller's loop is
  told to the system call's result.
* `SortSearchProofs`. `Inv` of `HeapsortInv`: loop variables in range for each
  label and `a` onto the indices; it needs nothing of the comparator.
  `OrderInv`, for an honest comparator: from `root` on the array is a heap
  except below the node `sift_down` is at, whose children fit under its parent,
  and the elements from `end` on are in their final places. `bsearch`: an
  element equal to the key, if there is one, is in the window. `SearchTheorem`
  joins the three: what `qsort` returns is a sorted permutation, so `bsearch`
  answers for the original array.
  `ComparisonTheorem` is an account of levels (`CostInv`), at two comparisons
  each: those made, those below the node `sift_down` is at (`Depth`) and those
  of the sifts to come (`Ahead`) never exceed n log2(n). One and a half sifts
  for each element is too much for that unless the cheap ones are counted as
  such: building the heap descends less than n levels altogether (`Credit`),
  and the extractions descend the levels of the heaps of 1 to n - 1 elements
  (`Later`), at most n log2(n) less n - 1. `bsearch` has a comparison left
  for each halving of its window (`SearchCost`). The three recursive functions
  are shown to exist by extending a partial one, and their laws by a least
  counterexample.
* `FillCopyProofs`. `memset`: `count` is what lies behind the next store, less
  the 64 bytes of the tail, in both loops; besides `SetTheorem` and
  `BoundsTheorem` it gives `CounterTheorem`, that the unsigned counter never
  wraps. `memcpy`: in the loop the pipeline runs 64 bytes ahead of `dst`,
  `count` is what is left less 144, and everything up to `dst + 16` is written.
  The theorems are about each by itself, on any arguments, and about the
  program of `FillCopy`.
* `MemmoveProofs`. `Inv`: the copied part equals the old source, the part still
  to be read is untouched. `MoveTheorem` is the result and the frame,
  `ReadTheorem` that no byte is read after it was overwritten.
* `SignalProofs`, of `Sigset`. `BitsInv`: bit b of the first word is set exactly
  when signal b + 1 is a member, whatever the second word holds. Assumed: the
  ints that are passed are ints of `IntModulus` values, of which there are more
  than 130.
* `RandomProofs`, of `Rand48`. `Inv48` says that every half word is one, that
  what was drawn is in the range of the function that drew it, and what `PREV`
  and the program's copy stand for. `Refinement48` rests on the laws of `Join`
  and `Split`: joining what was split from x gives x modulo B^3, and a product
  that wrapped modulo B^4 is the same modulo B^3, so the code's state follows
  the abstract recurrence; the bits `nrand48` and `jrand48` cut off and the
  fraction `erand48` makes are quotients of that state. The seed of `srand48`
  is split by a remainder, so a negative one is covered, and joined again it is
  the state `Lcg48` names (`SeedIsJoined`). `IntegerTheorem` follows from the ranges,
  from the law of truncated division and from `Representable`, that but for the
  pair on which `div` panics the quotient fits into an int; `PreviousTheorem` from
  the order of the two copies in `seed48`. Assumed: B even and not 0, every array
  an array of half words, and `None`, the null pointer, no array.
* `StringsProofs`, of the copies and scans. `CallInv` has one case for each kind
  of call: `stpcpy` and `strcat` have copied the source up to s behind the h
  bytes they found, and have their own results (`CatAt`), `strncpy` has copied s of the e bytes that are to
  come and then filled (`NcpyAt`), `strerror_r` has copied part of what fits
  (`MessageAt`), and a scan has not started or has returned what `Scan` says of
  its operands (`ScanAt`). What is hard is then said of the operators of `Scan`:
  a loop is the least or the greatest offset in a set, so that a search finds
  the first match, that a comparison stops where the strings first differ and
  that nothing behind that is read follow from a lemma that such an offset
  exists, which well-foundedness of the numbers gives. No induction over a
  string is needed. The bytes, the
  lengths, `n`, the ints of `ctype` and the int passed to a search are arbitrary.
  In `OrderExact` what lies behind the end of an operand is padded as far as
  any operand can reach.
* `StringsProofs`, of the tokenizers. `TokensInv`: only separators have been
  overwritten (`Cuts`). A stream on the bytes a .. b has returned exactly the
  tokens that begin before its position, each terminated, and from its position
  on its bytes are untouched (`Stream`). The inner stream lies on one token of
  the outer one (`InnerAt`), which ends before the outer position; so neither
  cuts what the other has yet to see. The last token of the outer stream is
  whole unless the inner stream is on it (`LastWhole`), which is what a program
  needs to start the inner stream there. `StreamsTheorem` and `TokensTheorem`
  follow. `StringsInvariance` joins the two: a program is in a call, or it has
  adopted the copy as the string it cuts. Assumed: separator sets are C strings.

An inductive invariant is not listed among the properties of a run: it was
checked with TLC while the proof was written, and the proof supersedes it.

Only model-checked are `EveryCallReturns`, `Terminates` and `LoopEnds`: liveness
under fairness is outside the prover's reach. Where a data structure calls for
induction (over a length, a seeding loop, the levels of a heap) the proofs argue
about a least counterexample instead, because the installed provers cannot
instantiate the library's induction theorems.

At most one module for each part holds proofs: those of `Sleep` and `Sigset`,
and those of `Random` and `Rand48`, share one.

## 6. Not modelled

* `rand_r`: a fixed function of 32 bits on the caller's seed, beyond TLC's
  integers, without state of its own.
* `setjmp`, `longjmp`: two straight runs of stores and loads at constant
  offsets; that the offsets are the same is all there is to say.
* Branches of modelled functions: of `fcntl` the commands `F_GETOWN`, `F_SETFL`
  and `F_SETLKW` (the owner and the status flags are the kernel's, and
  `F_SETLKW` is one system call through `syscall_cp3`, as `Transfer` is); the error
  returns of `clock_gettime` and `clock_settime`, which end in the `ret` that is
  modelled elsewhere; `gettimeofday`'s return of 0 for a NULL argument.
* What the tokenizers read and write byte by byte: a cut is one step in
  `Tokenizer`, which has the buffer but not the accesses of `AccessesInObjects`.
  Each of its streams keeps one separator set; two nested streams have two.
* `pause`, `sched_yield`, `_Exit`, `clock_getres`: a system call that leaves no
  state behind that the models hold.
* `MREMAP_FIXED`: the modelled program does not use it; what it does to the
  pages at the new address is the kernel's.
* Message texts, constants and layouts; the byte loops of `memcpy` and `memset`
  that are compiled for unit tests on a host only; re-exports, headers, build
  files; the placeholder crates.
* Cancellation of a thread: its branch cannot be taken, because `DUMMY_CANCEL`
  is 0 and nothing sets it; that it stays so is part of `Descriptors`.
* Panics on overflow of `+`, `-` and `*` in the dev profile: the models follow the
  release profile. The panics of `/` and `%`, which every profile has, are modelled.
* Weak memory: the lock's acquire and release orderings are taken to make the
  critical sections sequential.

## 7. State of the plan

Every component with behaviour is modelled, or left out for the reason in
section 6; every safety property and every refinement that a run checks is also
a theorem. What could be added, in order of use: the calls listed in
section 6 once they gain state, the placeholder crates once they gain code, and
weak memory for the spinlock.
