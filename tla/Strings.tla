------------------------------- MODULE Strings -------------------------------
(***************************************************************************)
(* The calls of crates/mytilus-string on strings and memory.  The ones     *)
(* that write (str_fns.rs: stpcpy, strcpy, stpncpy, strncpy, strcat and    *)
(* strerror_r) run byte by byte; the ones that only read (module Scan) are *)
(* one step each.                                                          *)
(*                                                                         *)
(* The two operands are objects of their own, functions from offsets to    *)
(* bytes, exactly as large as the contract of the call demands: a byte     *)
(* less and the call would be invalid.  src is the source of a copy or the *)
(* first operand of a scan, dst the destination or the second operand.     *)
(* strcpy and strncpy are stpcpy and stpncpy with another result.          *)
(***************************************************************************)
EXTENDS Scan, Errno

CONSTANTS
    Chars,     \* the bytes of strings, other than the terminator
    MaxLen,    \* bound: the bytes of a copy's source
    MaxN,      \* bound: the n of strncpy and the buflen of strerror_r
    ScanChars, \* the bytes of a scan's operands, other than the terminator
    MaxScan,   \* bound: the bytes of a scan's operands
    MaxCount,  \* bound: the n of a scan
    CArgs      \* the int arguments of the searches for a byte

ASSUME CharsAssumption == Chars \cup ScanChars \subseteq 1 .. 255
ASSUME BoundsAssumption == MaxLen \in Nat /\ MaxN \in Nat /\ MaxScan \in Nat /\ MaxCount \in Nat
ASSUME CArgsAssumption == CArgs \subseteq Int

VARIABLES
    f,          \* the function called
    src, dst,   \* the two objects
    size,       \* the count argument: n or buflen
    c,          \* the int argument of a search or of ctype
    start,      \* where in dst the copy begins: 0, or behind strcat's string
    d, s, n, i, \* the local variables
    pc, res,
    dst0,       \* history: the destination at the call
    readAt,     \* history: the offsets of src that have been read
    readDst,    \* history: the offsets of dst that have been read
    wroteAt     \* history: the offsets of dst that have been written

vars == <<f, src, dst, size, c, start, d, s, n, i, pc, res, dst0, readAt, readDst, wroteAt>>
objects == <<f, src, size, c, dst0>>

Objects(l) == [0 .. l - 1 -> Chars \cup {Nul}]
Operands(l) == [0 .. l - 1 -> ScanChars \cup {Nul}]
Terminated(o) == \E k \in DOMAIN o : o[k] = Nul

(* Strings that end at the end of their object, and what strncmp(.., n) may *)
(* be given: such a string or n bytes without a terminator.                 *)
IsString(o) == Size(o) > 0 /\ strlen(o, 0) = Size(o) - 1
CStrings == {o \in UNION {Operands(l) : l \in 1 .. MaxScan} : IsString(o)}
BoundedStrings(k) == {o \in CStrings : Size(o) <= k} \cup {o \in Operands(k) : ~Terminated(o)}

-----------------------------------------------------------------------------
(* A destination whose bytes are all the character b.                       *)
Blank(l, b) == [k \in 0 .. l - 1 |-> b]

InitStpcpy(b) ==
    /\ f = "stpcpy" /\ size = 0
    /\ Terminated(src)
    /\ dst = Blank(strlen(src, 0) + 1, b)

(* strncpy's source may end without a terminator once it has n bytes.       *)
InitStpncpy(b) ==
    /\ f = "stpncpy"
    /\ size \in 0 .. MaxN
    /\ Terminated(src) \/ Size(src) >= size
    /\ dst = Blank(size, b)

InitStrcat(b) ==
    /\ f = "strcat" /\ size = 0
    /\ Terminated(src)
    /\ \E k \in 0 .. MaxLen :
          dst = [Blank(k + strlen(src, 0) + 1, b) EXCEPT ![k] = Nul]

(* strerror_r: src is the message, without its terminator.                  *)
InitStrerror(b) ==
    /\ f = "strerror_r"
    /\ size \in 0 .. MaxN
    /\ ~Terminated(src)
    /\ dst = Blank(size, b)

InitCopy ==
    /\ \E l \in 0 .. MaxLen : src \in Objects(l)
    /\ \E b \in Chars :
          InitStpcpy(b) \/ InitStpncpy(b) \/ InitStrcat(b) \/ InitStrerror(b)
    /\ c = 0 /\ pc = f

Searches == {"strlen", "strchrnul", "strchr", "strrchr"}
Spans == {"strstr", "strspn", "strcspn", "strpbrk"}
Comparisons == {"strcmp", "strcasecmp", "strcasecmp_l"}
Bounded == {"strncmp", "strncasecmp", "strncasecmp_l"}

InitScan ==
    /\ \/ /\ f \in Spans \cup Comparisons
          /\ src \in CStrings /\ dst \in CStrings /\ size = 0
       \/ /\ f \in Bounded /\ size \in 0 .. MaxCount
          /\ src \in BoundedStrings(size) /\ dst \in BoundedStrings(size)
       \/ /\ f = "memcmp" /\ size \in 0 .. MaxCount
          /\ src \in Operands(size) /\ dst \in Operands(size)
    /\ c = 0 /\ pc = "scan"

InitSearch ==
    /\ \/ f \in Searches /\ size = 0 /\ src \in CStrings
       \/ f \in {"memchr", "memrchr"} /\ size \in 0 .. MaxCount /\ src \in Operands(size)
       \/ f = "strnlen" /\ size \in 0 .. MaxCount /\ src \in BoundedStrings(size)
    /\ dst = Blank(0, Nul)
    /\ c \in CArgs /\ pc = "scan"

InitCtype ==
    /\ f = "ctype" /\ src = Blank(0, Nul) /\ dst = src /\ size = 0
    /\ c \in -(Span \div 2) .. (Span \div 2) - 1
    /\ pc = "scan"

Init ==
    /\ InitCopy \/ InitScan \/ InitSearch \/ InitCtype
    /\ dst0 = dst
    /\ start = 0 /\ d = 0 /\ s = 0 /\ i = 0 /\ n = size
    /\ res = 0
    /\ readAt = {} /\ readDst = {} /\ wroteAt = {}

Store(at, b) ==
    /\ dst' = [dst EXCEPT ![at] = b]
    /\ wroteAt' = wroteAt \cup {at}

Load(at) == readAt' = readAt \cup {at}

Goto(label) == pc' = label

-----------------------------------------------------------------------------
(* strcat looks for the end of its first string.                            *)
FindEnd ==
    /\ pc = "strcat"
    /\ IF dst[d] # Nul
         THEN d' = d + 1 /\ UNCHANGED <<pc, start>>
         ELSE Goto("stpcpy") /\ start' = d /\ UNCHANGED d
    /\ readDst' = readDst \cup {d}
    /\ UNCHANGED <<objects, dst, s, n, i, res, readAt, wroteAt>>

(* stpcpy returns where the terminator is; strcat drops that result and     *)
(* returns dest.                                                            *)
Stpcpy ==
    /\ pc = "stpcpy"
    /\ Load(s)
    /\ Store(d, src[s])
    /\ IF src[s] = Nul
         THEN Goto("ret") /\ res' = (IF f = "strcat" THEN 0 ELSE d) /\ UNCHANGED <<d, s>>
         ELSE d' = d + 1 /\ s' = s + 1 /\ UNCHANGED <<pc, res>>
    /\ UNCHANGED <<objects, readDst, start, n, i>>

(* Mutant: the terminator counts as one of the n bytes, so that one byte is *)
(* not filled.                                                              *)
StpncpyShortMutant ==
    /\ pc = "stpncpy"
    /\ IF n > 0
         THEN /\ Load(s)
              /\ Store(d, src[s])
              /\ n' = n - 1
              /\ IF src[s] = Nul
                   THEN Goto("fill") /\ UNCHANGED <<d, s>>
                   ELSE d' = d + 1 /\ s' = s + 1 /\ UNCHANGED pc
         ELSE Goto("fill") /\ UNCHANGED <<d, s, n, dst, readAt, wroteAt>>
    /\ UNCHANGED <<objects, readDst, start, i, res>>

(* The copy loop of __stpncpy; a terminator is stored and left to the fill. *)
Stpncpy ==
    /\ pc = "stpncpy"
    /\ IF n > 0
         THEN /\ Load(s)
              /\ Store(d, src[s])
              /\ IF src[s] = Nul
                   THEN Goto("fill") /\ UNCHANGED <<d, s, n>>
                   ELSE d' = d + 1 /\ s' = s + 1 /\ n' = n - 1 /\ UNCHANGED pc
         ELSE Goto("fill") /\ UNCHANGED <<d, s, n, dst, readAt, wroteAt>>
    /\ UNCHANGED <<objects, readDst, start, i, res>>

Fill ==
    /\ pc = "fill"
    /\ IF i < n
         THEN Store(d + i, Nul) /\ i' = i + 1 /\ UNCHANGED <<pc, res>>
         ELSE Goto("ret") /\ res' = d /\ UNCHANGED <<dst, i, wroteAt>>
    /\ UNCHANGED <<objects, readDst, start, d, s, n, readAt>>

(* strerror_r: how much of the message will be copied, and the result.      *)
Strerror ==
    /\ pc = "strerror_r"
    /\ LET l == Size(src)
       IN  \/ l >= size /\ size = 0 /\ Goto("ret") /\ res' = ERANGE /\ UNCHANGED n
           \/ l >= size /\ size > 0 /\ Goto("message") /\ res' = ERANGE /\ n' = size - 1
           \/ l < size /\ Goto("message") /\ res' = 0 /\ n' = l
    /\ UNCHANGED <<objects, readDst, dst, start, d, s, i, readAt, wroteAt>>

Message ==
    /\ pc = "message"
    /\ IF i < n
         THEN Load(i) /\ Store(i, src[i]) /\ i' = i + 1 /\ UNCHANGED pc
         ELSE Store(n, Nul) /\ Goto("ret") /\ UNCHANGED <<readAt, i>>
    /\ UNCHANGED <<objects, readDst, start, d, s, n, res>>

(* A call that only reads.                                                  *)
CallScan ==
    /\ pc = "scan"
    /\ LET out == Outcome(f, src, dst, c, size)
       IN  res' = out.res /\ readAt' = out.l /\ readDst' = out.r
    /\ Goto("ret")
    /\ UNCHANGED <<objects, dst, start, d, s, n, i, wroteAt>>

Done == pc = "ret" /\ UNCHANGED vars

Next ==
    \/ FindEnd \/ Stpcpy \/ Stpncpy \/ Fill \/ Strerror \/ Message
    \/ CallScan
    \/ Done

Spec == Init /\ [][Next]_vars

-----------------------------------------------------------------------------
(* No byte outside the two objects is read or written, although both are as *)
(* small as the contract allows: strncpy, strncmp and strncasecmp never     *)
(* read behind n bytes of an unterminated string, strstr and the scans for  *)
(* separators never behind a terminator, strerror_r never writes behind     *)
(* buflen.                                                                  *)
AccessesInObjects ==
    /\ readAt \subseteq DOMAIN src
    /\ readDst \cup wroteAt \subseteq DOMAIN dst

(* What the copy leaves in the destination, from the contracts: the string  *)
(* and its terminator behind whatever strcat found there; for strncpy the   *)
(* first n bytes of the string padded with zeros to exactly n.              *)
Expected(k) ==
    IF f = "stpncpy"
      THEN IF \E t \in 0 .. k : t \in DOMAIN src /\ src[t] = Nul THEN Nul ELSE src[k]
      ELSE IF k < start THEN dst0[k] ELSE src[k - start]

(* stpcpy and stpncpy return the address of the terminator they wrote, or   *)
(* the end of the buffer where stpncpy found no room for one.               *)
ReturnsEnd ==
    \/ res \in DOMAIN dst /\ dst[res] = Nul /\ \A k \in start .. res - 1 : dst[k] # Nul
    \/ f = "stpncpy" /\ res = size /\ ~Terminated(dst)

(* strerror_r leaves a terminated prefix of the message in every buffer     *)
(* that is not empty, and reports ERANGE exactly when it had to cut it.     *)
MessageKept ==
    /\ size > 0 => /\ Terminated(dst)
                   /\ \A k \in 0 .. strlen(dst, 0) - 1 : dst[k] = src[k]
    /\ (res = 0) = (size > 0 /\ strlen(dst, 0) = Size(src))

(* A call that has returned left and returned just what its contract says,  *)
(* at the boundary too where strncpy's string has n bytes or more and where *)
(* strerror_r's message just does not fit; strcat, which the same loop      *)
(* serves, returns the beginning of its string.  The scans write nothing.   *)
CopyExact ==
    pc = "ret" =>
        CASE f \in {"stpcpy", "strcat", "stpncpy"} ->
                 /\ \A k \in DOMAIN dst : dst[k] = Expected(k)
                 /\ IF f = "strcat" THEN res = 0 ELSE ReturnsEnd
          [] f = "strerror_r" -> MessageKept
          [] OTHER -> dst = dst0

(* The offsets a search looks for, from the contracts: strchr's terminator  *)
(* is a match for the byte zero, an empty needle matches at once.           *)
Wanted ==
    LET nuls == {k \in DOMAIN src : src[k] = Nul}
        hits == {k \in DOMAIN src : src[k] = c % 256}
        set == {dst[k] : k \in DOMAIN dst} \ {Nul}
        found == {k \in DOMAIN src : src[k] \in set}
    IN  CASE f = "strlen" -> nuls
          [] f = "strnlen" -> nuls \cup {size}
          [] f = "strchrnul" -> nuls \cup hits
          [] f \in {"strchr", "strrchr", "memchr", "memrchr"} -> hits
          [] f = "strspn" -> DOMAIN src \ found
          [] f = "strcspn" -> nuls \cup found
          [] f = "strpbrk" -> found
          [] f = "strstr" -> {h \in DOMAIN src : \A q \in 0 .. Size(dst) - 2 :
                                  h + q \in DOMAIN src /\ src[h + q] = dst[q]}

(* Every search returns the first such offset (strrchr and memrchr the      *)
(* last), or NULL when there is none, for any int: the argument counts      *)
(* modulo 256 on the way in and on the way out.                             *)
ScanExact ==
    pc = "ret" /\ f \in Searches \cup Spans \cup {"strnlen", "memchr", "memrchr"} =>
        IF Wanted = {} THEN res = NULL
        ELSE /\ res \in Wanted
             /\ \A k \in Wanted : IF f \in {"strrchr", "memrchr"} THEN k <= res ELSE res <= k

(* What a comparison may look at, as bytes padded with zeros behind the     *)
(* terminator: everything or n bytes, letters in lower case or as they are. *)
Padded(o) ==
    LET len == CASE f = "memcmp" -> size
                 [] f \in Bounded -> Min({size, strlen(o, 0)})
                 [] OTHER -> strlen(o, 0)
        lower(b) == IF b \in 65 .. 90 THEN b + 32 ELSE b
    IN  [k \in 0 .. MaxScan + MaxCount |->
            IF k >= len THEN Nul
            ELSE IF f \in {"strcmp", "strncmp", "memcmp"} THEN o[k] ELSE lower(o[k])]

(* The sign of a comparison is the lexicographic order of unsigned bytes of *)
(* what it may look at: bytes above 127 are the greatest, a proper prefix   *)
(* is less, and strings that differ in case or behind n only are equal.     *)
OrderExact ==
    pc = "ret" /\ f \in Comparisons \cup Bounded \cup {"memcmp"} =>
        LET a == Padded(src)
            b == Padded(dst)
            less(x, y) == \E k \in DOMAIN x : x[k] < y[k] /\ \A j \in 0 .. k - 1 : x[j] = y[j]
        IN  (res < 0) = less(a, b) /\ (res > 0) = less(b, a)

(* The classes are the sets of the C locale, and the case mappings move the *)
(* letters and nothing else, for every int an argument can be: negative     *)
(* ones, EOF and ones above 255 are in no class.                            *)
ClassesExact ==
    pc = "ret" /\ f = "ctype" =>
        LET U == 65 .. 90
            L == 97 .. 122
            D == 48 .. 57
            P == (33 .. 47) \cup (58 .. 64) \cup (91 .. 96) \cup (123 .. 126)
        IN  res = [isalpha |-> c \in U \cup L, isdigit |-> c \in D,
                   isspace |-> c \in {32} \cup (9 .. 13),
                   isupper |-> c \in U, islower |-> c \in L, isalnum |-> c \in U \cup L \cup D,
                   isxdigit |-> c \in D \cup (65 .. 70) \cup (97 .. 102),
                   isgraph |-> c \in P \cup U \cup L \cup D,
                   isprint |-> c \in {32} \cup P \cup U \cup L \cup D,
                   ispunct |-> c \in P, iscntrl |-> c \in (0 .. 31) \cup {127},
                   isblank |-> c \in {9, 32}, isascii |-> c \in 0 .. 127,
                   tolower |-> IF c \in U THEN c + 32 ELSE c,
                   toupper |-> IF c \in L THEN c - 32 ELSE c,
                   toascii |-> (c + Span) % 128]
=============================================================================
