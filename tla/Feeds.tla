------------------------------- MODULE Feeds -------------------------------
(***************************************************************************)
(* The timed feeds of one client of gnhastd.  However many feeds it asks   *)
(* for, the client has one periodic timer, whose period is the greatest    *)
(* common divisor of their rates; at each firing the feeds that are due    *)
(* are sent.  Asking for a further feed starts the timer afresh.  Time is  *)
(* in seconds, as time() gives it: a timer that fires a little before or   *)
(* after the turn of a second sees the one or the other.                   *)
(***************************************************************************)
EXTENDS Integers, Sequences, FiniteSetsExt, SequencesExt

CONSTANTS
  Rates,     \* the rates asked for, in seconds
  MaxFeeds   \* bound: feeds of the client

\* Assumed by the instances.
FeedsAssumption ==
  /\ Rates \subseteq Nat \ {0}
  /\ MaxFeeds \in Nat

VARIABLES
  wdevices,   \* client_t.wdevices: rate and last_fired, see Wrap
  timer_gcd,  \* client_t.timer_gcd, 0 while there is no timer
  left,       \* seconds until the timer fires
  resets      \* history: the seconds each feed lost to restarts of the timer

vars == <<wdevices, timer_gcd, left, resets>>

\* A wrapped device.  gap is the time since it was sent, or asked for when
\* fired is FALSE (last_fired is then 0, long ago); late is 1 when the clock
\* had passed to the next second as it was sent.
Wrap == [rate : Rates, gap : Nat, fired : BOOLEAN, late : {0, 1}]

-----------------------------------------------------------------------------
\* A wrong gcd: the smaller of the two.
MinNotGcd(a, b) == IF a < b /\ a # 0 THEN a ELSE b

\* gcd, by Euclid's algorithm.
Euclid[a \in Nat, b \in Nat] == IF a = 0 THEN b ELSE Euclid[b % a, a]
gcd(a, b) == Euclid[a, b]

\* The greatest common divisor of the numbers in S, by definition.
Divides(m, n) == \E k \in 1 .. n : n = m * k
Gcd(S) == Max({m \in 1 .. Min(S) : \A n \in S : Divides(m, n)})

Init ==
  /\ wdevices = <<>>
  /\ timer_gcd = 0
  /\ left = 0
  /\ resets = <<>>

\* A wrong Feed: only the new feed's rate changes the timer.
FeedOwnRate(rate) ==
  LET new == [rate |-> rate, gap |-> 0, fired |-> FALSE, late |-> 0]
  IN /\ Len(wdevices) < MaxFeeds
     /\ wdevices' = Append(wdevices, new)
     /\ timer_gcd' = rate
     /\ left' = timer_gcd'
     /\ resets' = Append([i \in DOMAIN resets |-> resets[i] + timer_gcd - left], 0)

\* cmd_feed: one more wrapped device; the timer starts afresh with the gcd.
Feed(rate) ==
  LET new == [rate |-> rate, gap |-> 0, fired |-> FALSE, late |-> 0]
  IN /\ Len(wdevices) < MaxFeeds
     /\ wdevices' = Append(wdevices, new)
     /\ timer_gcd' = IF timer_gcd = 0 THEN rate
                     ELSE FoldSeq(LAMBDA w, g : gcd(w.rate, g), timer_gcd, wdevices')
     /\ left' = timer_gcd'
     /\ resets' = Append([i \in DOMAIN resets |-> resets[i] + timer_gcd - left], 0)

\* A wrong test for a feed that is due: a second early will do.
ReadyRounds(w, late) == ~w.fired \/ w.gap + late - w.late + 1 >= w.rate

\* diff / wrap->rate >= 1 in the timer callback.
Ready(w, late) == ~w.fired \/ w.gap + late - w.late >= w.rate

\* feeddata_cb.
Fire(late) ==
  /\ timer_gcd # 0
  /\ left = 0
  /\ left' = timer_gcd
  /\ wdevices' = [i \in DOMAIN wdevices |->
       IF Ready(wdevices[i], late)
         THEN [wdevices[i] EXCEPT !.gap = 0, !.fired = TRUE, !.late = late]
         ELSE wdevices[i]]
  /\ resets' = [i \in DOMAIN resets |->
       IF Ready(wdevices[i], late) THEN 0 ELSE resets[i]]
  /\ UNCHANGED timer_gcd

\* A second passes.
Tick ==
  /\ timer_gcd # 0
  /\ left > 0
  /\ left' = left - 1
  /\ wdevices' = [i \in DOMAIN wdevices |-> [wdevices[i] EXCEPT !.gap = @ + 1]]
  /\ UNCHANGED <<timer_gcd, resets>>

\* The connection ends: buf_error_cb frees the timer and the feeds.
Close ==
  /\ timer_gcd # 0
  /\ wdevices' = <<>>
  /\ timer_gcd' = 0
  /\ left' = 0
  /\ resets' = <<>>

Next ==
  \/ \E rate \in Rates : Feed(rate)
  \/ \E late \in {0, 1} : Fire(late)
  \/ Tick
  \/ Close

Spec == Init /\ [][Next]_vars

-----------------------------------------------------------------------------
RatesOf == {wdevices[i].rate : i \in DOMAIN wdevices}

\* Type invariant of the client's feeds and timer.
TypeOK ==
  /\ wdevices \in Seq(Wrap)
  /\ timer_gcd \in Nat
  /\ left \in 0 .. timer_gcd
  /\ resets \in Seq(Nat) /\ Len(resets) = Len(wdevices)

\* A feed is sent within its rate and one period of the timer, but for the time
\* lost when the client asked for further feeds: neither other feeds nor the
\* rounding of the clock make it skip a turn.
FeedOnTime ==
  \A i \in DOMAIN wdevices :
    wdevices[i].gap <= wdevices[i].rate + Gcd(RatesOf) + resets[i]

\* The timer has the longest period at which every feed comes due exactly at a
\* firing, so that the client is not woken more often than it must.
LongestPeriod == wdevices # <<>> => timer_gcd = Gcd(RatesOf)

\* A feed is never sent twice within its rate, but for the rounding of the
\* clock to seconds.
NoneTooOften ==
  \A i \in DOMAIN wdevices :
    /\ wdevices[i].fired /\ wdevices[i].gap > 0
    /\ i \in DOMAIN wdevices' /\ wdevices'[i].gap = 0
    => wdevices[i].gap >= wdevices[i].rate - 1
=============================================================================
