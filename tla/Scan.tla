-------------------------------- MODULE Scan --------------------------------
(***************************************************************************)
(* The functions that only read: lengths, searches and comparisons of      *)
(* crates/mytilus-string/src (str_fns.rs, str_search.rs, mem.rs).          *)
(*                                                                         *)
(* A string is an object, a function from the offsets 0 .. n - 1 to bytes, *)
(* and a pointer into it an offset.  A function is the record of what it   *)
(* returns and of the offsets it reads in its two operands: its loop is    *)
(* the least (or greatest) offset at which the loop's condition fails.  A  *)
(* byte behind an object reads as zero, so that a loop that leaves its     *)
(* object ends and the read is on record.                                  *)
(***************************************************************************)
EXTENDS Integers, FiniteSetsExt, Ctype

Nul == 0
NULL == -1

Byte(c) == c % 256

Size(o) == Cardinality(DOMAIN o)
At(o, k) == IF k \in DOMAIN o THEN o[k] ELSE Nul

(* The offsets a loop over o or p that starts at s can reach.               *)
From(s, o) == s .. Max({s, Size(o)})
Either(o, p) == 0 .. Max({Size(o), Size(p)})

Result(res, l, r) == [res |-> res, l |-> l, r |-> r]
Unless(b, x) == IF b THEN NULL ELSE x

strlen(o, s) == Min({k \in From(s, o) : At(o, k) = Nul}) - s

strnlen(o, n) ==
    LET i == Min({n} \cup {k \in 0 .. n - 1 : At(o, k) = Nul})
    IN  Result(i, 0 .. Min({i, n - 1}), {})

memchr(o, c, n) ==
    LET hits == {k \in 0 .. n - 1 : At(o, k) = Byte(c)}
    IN  IF hits = {} THEN Result(NULL, 0 .. n - 1, {})
                     ELSE Result(Min(hits), 0 .. Min(hits), {})

memrchr(o, c, n) ==
    LET hits == {k \in 0 .. n - 1 : At(o, k) = Byte(c)}
    IN  IF hits = {} THEN Result(NULL, 0 .. n - 1, {})
                     ELSE Result(Max(hits), Max(hits) .. n - 1, {})

(* The offset strchrnul returns for a search that starts at s.              *)
strchrnul(o, s, c) ==
    IF Byte(c) = 0 THEN s + strlen(o, s)
    ELSE Min({k \in From(s, o) : At(o, k) = Nul \/ At(o, k) = Byte(c)})

(* Mutant: the int argument is compared without the conversion to a byte.   *)
strchrMutant(o, c) ==
    LET k == strchrnul(o, 0, c)
    IN  Result(Unless(At(o, k) # c, k), 0 .. k, {})

strchr(o, c) ==
    LET k == strchrnul(o, 0, c)
    IN  Result(Unless(At(o, k) # Byte(c), k), 0 .. k, {})

strrchr(o, c) ==
    LET len == strlen(o, 0)
        hit == memrchr(o, c, len + 1)
    IN  Result(hit.res, (0 .. len) \cup hit.l, {})

(* A comparison that ends at offset i with the bytes a and b.               *)
Diff(a, b, i) == Result(a - b, 0 .. i, 0 .. i)

strcmp(o, p) ==
    LET i == Min({k \in Either(o, p) : At(o, k) # At(p, k) \/ At(o, k) = Nul})
    IN  Diff(At(o, i), At(p, i), i)

memcmp(o, p, n) ==
    LET ends == {k \in 0 .. n - 1 : At(o, k) # At(p, k)}
        i == Min(ends)
    IN  IF ends = {} THEN Result(0, 0 .. n - 1, 0 .. n - 1)
                     ELSE Diff(At(o, i), At(p, i), i)

fold(b) == Byte(tolower(b))

(* Mutant: the last of the n bytes is looked at when the counter is spent,  *)
(* one byte too late.                                                       *)
BoundMutant(o, p, n) ==
    Min({k \in 0 .. n : k = n \/ At(o, k) = Nul \/ At(p, k) = Nul \/ At(o, k) # At(p, k)})

(* strncmp counts n down to zero before it looks at the last byte.          *)
Bound(o, p, n) ==
    Min({k \in 0 .. n - 1 : k = n - 1 \/ At(o, k) = Nul \/ At(p, k) = Nul
                                      \/ At(o, k) # At(p, k)})

strncmp(o, p, n) ==
    IF n = 0 THEN Result(0, {}, {})
    ELSE LET i == Bound(o, p, n) IN Diff(At(o, i), At(p, i), i)

(* Mutant: the difference is taken between the unfolded bytes.              *)
strcasecmpMutant(o, p) ==
    LET i == Min({k \in Either(o, p) : At(o, k) = Nul \/ At(p, k) = Nul
                                         \/ fold(At(o, k)) # fold(At(p, k))})
    IN  Diff(At(o, i), At(p, i), i)

strcasecmp(o, p) ==
    LET i == Min({k \in Either(o, p) : At(o, k) = Nul \/ At(p, k) = Nul
                                         \/ fold(At(o, k)) # fold(At(p, k))})
    IN  Diff(fold(At(o, i)), fold(At(p, i)), i)

strncasecmp(o, p, n) ==
    IF n = 0 THEN Result(0, {}, {})
    ELSE LET i == Min({k \in 0 .. n - 1 :
                          k = n - 1 \/ At(o, k) = Nul \/ At(p, k) = Nul
                                    \/ fold(At(o, k)) # fold(At(p, k))})
         IN  Diff(fold(At(o, i)), fold(At(p, i)), i)

(* How many bytes of the needle match at the position h of the haystack.    *)
Matched(o, h, p) ==
    Min({q \in 0 .. Size(p) : \/ At(o, h + q) = Nul \/ At(p, q) = Nul
                              \/ At(o, h + q) # At(p, q)})

strstr(o, p) ==
    LET hit(h) == At(p, Matched(o, h, p)) = Nul
        h == Min({k \in From(0, o) : At(o, k) = Nul \/ hit(k)})
        tried == 0 .. IF At(o, h) = Nul THEN h - 1 ELSE h
    IN  IF At(p, 0) = Nul THEN Result(0, {}, {0})
        ELSE Result(Unless(At(o, h) = Nul, h),
                    (0 .. h) \cup UNION {k .. k + Matched(o, k, p) : k \in tried},
                    {0} \cup UNION {0 .. Matched(o, k, p) : k \in tried})

(* The set of separator bytes and what is read to build or to bypass it.    *)
Byteset(p) == {p[k] : k \in 0 .. strlen(p, 0) - 1}

strspn(o, s, p) ==
    CASE At(p, 0) = Nul -> 0
      [] At(p, 0) # Nul /\ At(p, 1) = Nul ->
             Min({k \in From(s, o) : At(o, k) # At(p, 0)}) - s
      [] OTHER ->
             Min({k \in From(s, o) : At(o, k) = Nul \/ At(o, k) \notin Byteset(p)}) - s

strcspn(o, s, p) ==
    IF At(p, 0) = Nul \/ At(p, 1) = Nul
      THEN strchrnul(o, s, At(p, 0)) - s
      ELSE Min({k \in From(s, o) : At(o, k) = Nul \/ At(o, k) \in Byteset(p)}) - s

strpbrk(o, p) ==
    LET k == strcspn(o, 0, p)
    IN  Result(Unless(At(o, k) = Nul, k), 0 .. k, 0 .. strlen(p, 0))

strcasecmp_l(o, p) == strcasecmp(o, p)
strncasecmp_l(o, p, n) == strncasecmp(o, p, n)

(* The call f on the operands o and p, the int c and the count n.           *)
Upto(k) == Result(k, 0 .. k, {})
Outcome(f, o, p, c, n) ==
    CASE f = "strlen"    -> Upto(strlen(o, 0))
      [] f = "strchrnul" -> Upto(strchrnul(o, 0, c))
      [] f = "strchr"    -> strchr(o, c)
      [] f = "strrchr"   -> strrchr(o, c)
      [] f = "strnlen"   -> strnlen(o, n)
      [] f = "memchr"    -> memchr(o, c, n)
      [] f = "memrchr"   -> memrchr(o, c, n)
      [] f = "strstr"    -> strstr(o, p)
      [] f = "strspn"    -> [Upto(strspn(o, 0, p)) EXCEPT
                                !.l = IF At(p, 0) = Nul THEN {} ELSE @, !.r = 0 .. strlen(p, 0)]
      [] f = "strcspn"   -> [Upto(strcspn(o, 0, p)) EXCEPT !.r = 0 .. strlen(p, 0)]
      [] f = "strpbrk"   -> strpbrk(o, p)
      [] f = "strcmp"    -> strcmp(o, p)
      [] f = "memcmp"    -> memcmp(o, p, n)
      [] f = "strncmp"   -> strncmp(o, p, n)
      [] f = "strcasecmp"    -> strcasecmp(o, p)
      [] f = "strcasecmp_l"  -> strcasecmp_l(o, p)
      [] f = "strncasecmp"   -> strncasecmp(o, p, n)
      [] f = "strncasecmp_l" -> strncasecmp_l(o, p, n)
      [] f = "ctype"     -> Result(Classes(c), {}, {})
=============================================================================
