-------------------------------- MODULE Ctype --------------------------------
(***************************************************************************)
(* Classification and case mapping of crates/mytilus-locale/src/ctype.rs.  *)
(* The functions take any int and decide by one unsigned comparison after  *)
(* a wrapping subtraction, so that the width of the int matters: Span is   *)
(* 2^32 in the program and any multiple of 256 here.                       *)
(***************************************************************************)
EXTENDS Integers

CONSTANT Span

ASSUME SpanAssumption == Span \in Nat /\ Span > 256 /\ Span % 256 = 0

(* Mutant: a negative argument keeps its sign.                              *)
uMutant(c) == c

u(c) == c % Span

(* `(x - base) < width' in unsigned arithmetic.                             *)
Within(x, base, width) == u(x - base) < width

(* `c | 32' and `c & 0x5f'.                                                 *)
SetBit5(c) == IF (c \div 32) % 2 = 1 THEN c ELSE c + 32
ClearBit5(c) == 64 * ((c \div 64) % 2) + (c % 32)

isalpha(c)  == Within(SetBit5(u(c)), 97, 26)
isdigit(c)  == Within(u(c), 48, 10)
isspace(c)  == c = 32 \/ Within(u(c), 9, 5)
isupper(c)  == Within(u(c), 65, 26)
islower(c)  == Within(u(c), 97, 26)
isalnum(c)  == isalpha(c) \/ isdigit(c)
isxdigit(c) == isdigit(c) \/ Within(SetBit5(u(c)), 97, 6)
isgraph(c)  == Within(u(c), 33, 94)
isprint(c)  == Within(u(c), 32, 95)
ispunct(c)  == isgraph(c) /\ ~isalnum(c)
iscntrl(c)  == u(c) < 32 \/ c = 127
isblank(c)  == c = 32 \/ c = 9
isascii(c)  == u(c) \div 128 = 0

tolower(c) == IF isupper(c) THEN SetBit5(c) ELSE c
toupper(c) == IF islower(c) THEN ClearBit5(c) ELSE c
toascii(c) == c % 128

(* All of them on one int; the `_l' forms drop their locale and are these.  *)
Classes(c) ==
    [isalpha |-> isalpha(c), isdigit |-> isdigit(c), isspace |-> isspace(c),
     isupper |-> isupper(c), islower |-> islower(c), isalnum |-> isalnum(c),
     isxdigit |-> isxdigit(c), isgraph |-> isgraph(c), isprint |-> isprint(c),
     ispunct |-> ispunct(c), iscntrl |-> iscntrl(c), isblank |-> isblank(c),
     isascii |-> isascii(c),
     tolower |-> tolower(c), toupper |-> toupper(c), toascii |-> toascii(c)]
=============================================================================
