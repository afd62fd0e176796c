---------------------------- MODULE MCCollectors ----------------------------
(***************************************************************************)
(* The collectors for TLC: one connection lost; two packets of a weather   *)
(* station and three of a GEM whose counters wrap at four; a network of    *)
(* three devices; a day of 32 ticks with all its events; and averages of   *)
(* three values.                                                           *)
(***************************************************************************)
EXTENDS Collectors

\* A day of the sun: three twilights before sunrise at 9 and after sunset at 21, noon.
OneDay == {<<3, 5, 7, 9, 21, 23, 25, 27, 15>>}
=============================================================================
