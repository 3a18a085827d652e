---------------------------- MODULE MCSortSearch ----------------------------
(* qsort on every array of up to six elements with keys 0 .. 2, and bsearch *)
(* for each key and for one below and one above them all.                   *)
EXTENDS SortSearch

MCLengths == 0 .. 6
MCWidths == {0, 1}
MCKeys == 0 .. 2
MCTargets == -1 .. 3
=============================================================================
