----------------------------- MODULE MCGnhastd -----------------------------
(***************************************************************************)
(* gnhastd for TLC: one alarm and one listener on two channels; up to      *)
(* three feeds; a dimmer with two listeners; a group with a subgroup; and  *)
(* a device of each way that a value is carried.                           *)
(***************************************************************************)
EXTENDS Gnhastd

CONSTANTS l1, l2, a1, d1, power

-----------------------------------------------------------------------------
\* Alarms: a channel that is not the generic one.
BothChannels == {Generic, power}

\* Feeds: rates with the common divisors 1, 2 and 3.
FeedRates == {2, 3, 4, 6}

\* Updates: no marks, a mark in cross mode, and two; a value on a mark, and on either
\* side.
Temperatures == {10, 20, 30, 60}
MarkPairs == {<<0, 0>>, <<20, 20>>, <<20, 50>>}

\* Groups: A has the subgroup B, which has a device.
Nested == <<[uid |-> "A", kids |-> <<"B">>, devs |-> {}],
            [uid |-> "B", kids |-> <<>>, devs |-> {"d"}]>>

\* Values: a temperature of either scale, fed in either, and numbers and states
\* that are carried in other ways.
Kind(type, subtype, scale, watch, as) ==
  [type |-> type, subtype |-> subtype, scale |-> scale, watch |-> watch, as |-> as]
Kinds ==
  {Kind("sensor", "temp", y, w, a) : y \in 0 .. 1, w \in {"feed", "cfeed"}, a \in 0 .. 1}
  \cup {Kind("sensor", y, 0, "ask", 0) : y \in {"count", "number", "smnum", "rain"}}
  \cup {Kind("blind", "blind", 0, "ask", 0), Kind("dimmer", "switch", 0, "ask", 0)}
=============================================================================
