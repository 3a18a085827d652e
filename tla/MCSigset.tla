------------------------------ MODULE MCSigset -------------------------------
(* Sigset for TLC: ints of 8 bits, the values around each boundary of       *)
(* validate_sig, and two objects that start as garbage of different kinds.  *)
EXTENDS Sigset

MCSignals == {-128, -1, 0, 1, 31, 32, 34, 35, 64, 65, 127}
MCContents == {{}, {0, 31, 63}}
=============================================================================
