------------------------------- MODULE MCSleep -------------------------------
(* Sleep for TLC: a second has two microseconds of three units.  The        *)
(* timespecs include zero, whole seconds, fractions and a refused one.      *)
EXTENDS Sleep

MCTimespecs == [sec : 0 .. 2, nsec : {0, 1, 5, 6}]
=============================================================================
