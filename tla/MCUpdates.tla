----------------------------- MODULE MCUpdates -----------------------------
(* The instance of Updates for TLC with a dimmer whose chg is stored as it *)
(* comes.  Samples lie below, between and above the mark; none is its value. *)
EXTENDS Updates

OffMark == {10, 30, 40, 60}
OneMark == {<<20, 20>>}
=============================================================================
