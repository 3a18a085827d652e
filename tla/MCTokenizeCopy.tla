--------------------------- MODULE MCTokenizeCopy ---------------------------
(* TokenizeCopy for TLC: copies of up to four bytes over `A', `a' and a     *)
(* byte above 127, scans of operands of up to four bytes over these and     *)
(* `_' (which lies between the two cases), ints on both sides of a byte's   *)
(* range, and copies of up to four characters tokenized with every pair of  *)
(* separator sets over the two letters.                                     *)
EXTENDS TokenizeCopy

MCCArgs == {0, 65, 200, 256, 321, -56, -1}

CString(q) == [k \in 0 .. Len(q) |-> IF k < Len(q) THEN q[k + 1] ELSE Nul]
MCSeparators == {CString(q) : q \in {<<>>, <<65>>, <<97>>, <<65, 97>>}}
=============================================================================
