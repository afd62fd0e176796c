------------------------------- MODULE Wupws --------------------------------
(***************************************************************************)
(* wupwscoll: sends the values of a weather station to a web site, every   *)
(* `update'.  A value may be calculated from the last N that gnhastd sent: *)
(* their average, or how much the last is more than the first.             *)
(* gnhastd's feed comes every `update' too, by a clock of its own: a tick  *)
(* is one of each, in either order.                                        *)
(***************************************************************************)
EXTENDS Integers, SequencesExt, Functions

CONSTANTS
  N,        \* nrofdata: values that are calculated with
  MaxRain,  \* bound: the counter
  MaxLost   \* bound: connections lost

VARIABLES
  accumulate,  \* the difference is sent, not the average
  plain,       \* the configuration has the value uncalculated, too
  rain,        \* the device's value at gnhastd
  past,        \* history: what it was at the ends of the last N + 2 ticks
  connected, fed, uploaded,
  cur,         \* the value at the collector, or -1 when it does not know the device
  data, vals,  \* struct calcdata
  since,       \* history: values that came on the present connection, at most N
  sent,        \* what was sent to the site last, N-fold if it is an average; or "none"
  lost

vars == <<accumulate, plain, rain, past, connected, fed, uploaded, cur, data, vals, since, sent, lost>>
coll == <<cur, data, vals, since>>

\* create_calcdata: the memory is not cleared.
Init ==
  /\ accumulate \in BOOLEAN /\ plain \in BOOLEAN
  /\ rain = 0 /\ past = [i \in 1 .. N + 2 |-> 0]
  /\ connected = FALSE /\ fed = FALSE /\ uploaded = FALSE
  /\ cur = -1 /\ data = [i \in 1 .. N |-> 0] /\ vals = 0 /\ since = 0
  /\ sent = <<>> /\ lost = 0

\* A wrong upd_calcdata: the first value stays.
keep_first(v) ==
  /\ data' = IF vals = 0 THEN Append(Tail(data), v) ELSE <<data[1]>> \o Append(Tail(Tail(data)), v)
  /\ vals' = IF vals < N THEN vals + 1 ELSE vals
\* upd_calcdata: vals counts on, of which only whether there are N is looked at.
upd_calcdata(v) ==
  /\ data' = Append(Tail(data), v)
  /\ vals' = IF vals < N THEN vals + 1 ELSE vals
\* coll_upd_cb.
coll_upd_cb(v) ==
  /\ cur' = v
  /\ upd_calcdata(v)
  /\ since' = IF since < N THEN since + 1 ELSE since

\* genconn_connect_cb, wupws_establish_feeds: the device, its feed and its value are asked
\* for if it is in the configuration uncalculated.
Connect ==
  /\ ~connected /\ connected' = TRUE
  /\ IF plain THEN coll_upd_cb(rain) ELSE UNCHANGED coll
  /\ UNCHANGED <<accumulate, plain, rain, past, fed, uploaded, sent, lost>>
Disconnect ==
  /\ connected /\ lost < MaxLost /\ lost' = lost + 1
  /\ connected' = FALSE /\ since' = 0
  /\ UNCHANGED <<accumulate, plain, rain, past, fed, uploaded, cur, data, vals, sent>>
Feed ==
  /\ connected /\ plain /\ ~fed /\ fed' = TRUE
  /\ coll_upd_cb(rain)
  /\ UNCHANGED <<accumulate, plain, rain, past, connected, uploaded, sent, lost>>

\* get_calcdata: the value itself, as long as there are not N.
get_calcdata ==
  CASE vals < N -> IF accumulate THEN cur ELSE N * cur
    [] accumulate -> cur - data[1]
    [] OTHER -> FoldSeq(LAMBDA v, s : s + v, 0, data)
\* wupws_connect: nothing is sent of a device that is not known.
wupws_connect ==
  /\ ~uploaded /\ uploaded' = TRUE
  /\ sent' = IF cur = -1 THEN <<>> ELSE <<get_calcdata>>
  /\ UNCHANGED <<accumulate, plain, rain, past, connected, fed, coll, lost>>

Rain ==
  /\ rain < MaxRain /\ rain' = rain + 1
  /\ UNCHANGED <<accumulate, plain, past, connected, fed, uploaded, coll, sent, lost>>
\* A tick ends: the timer of wupws_startfeed, and gnhastd's, go on.
Tick ==
  /\ uploaded /\ (fed \/ ~connected \/ ~plain)
  /\ past' = Append(Tail(past), rain)
  /\ uploaded' = FALSE /\ fed' = FALSE
  /\ UNCHANGED <<accumulate, plain, rain, connected, coll, sent, lost>>

Next == Connect \/ Disconnect \/ Feed \/ wupws_connect \/ Rain \/ Tick
Spec == Init /\ [][Next]_vars

-----------------------------------------------------------------------------
\* Type invariant.
TypeOK ==
  /\ accumulate \in BOOLEAN /\ plain \in BOOLEAN /\ connected \in BOOLEAN /\ fed \in BOOLEAN /\ uploaded \in BOOLEAN
  /\ rain \in 0 .. MaxRain /\ past \in [1 .. N + 2 -> 0 .. MaxRain]
  /\ cur \in -1 .. MaxRain /\ data \in [1 .. N -> 0 .. MaxRain] /\ vals \in 0 .. N /\ since \in 0 .. N
  /\ Len(sent) <= 1

\* What is sent, when N values have come on the connection, is of the last ticks: a difference
\* is at most what fell in N + 1 of them, an average between what the least and the
\* greatest value were.
OfLate ==
  since = N => LET late == {past[i] : i \in 2 .. N + 2} \cup {rain}
               IN IF accumulate THEN get_calcdata <= rain - past[2]
                  ELSE N * Min(late) <= get_calcdata /\ get_calcdata <= N * Max(late)
=============================================================================
