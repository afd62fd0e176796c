------------------------------- MODULE Astro --------------------------------
(***************************************************************************)
(* astrocoll: the mode of the day and of the moon.  Twice every `update'   *)
(* it is told the times of the day's events, sets a timer for each that is *)
(* still to come, and says what the mode is now.  Time goes by in ticks;   *)
(* events are at odd ones, and requests are made and answered at even      *)
(* ones.                                                                   *)
(***************************************************************************)
EXTENDS Integers, SequencesExt

CONSTANTS
  DayLen,   \* ticks of a day
  Half,     \* ticks of half an hour: noon lasts from one before it to one after it
  Update,   \* ticks from request to request
  Suns      \* the times of the day the sun's events may have, in the order of SunFields, noon last

VARIABLES
  now, sun_at, sunmethod,
  sun, moon,   \* the modes gnhastd was told last
  due,         \* ticks until each timer fires, 0 when it is not set
  get,         \* ticks until the next requests
  asked,       \* requests to be answered
  since        \* ticks since the last answer from which the sun's mode was told, at most DayLen

vars == <<now, sun_at, sunmethod, sun, moon, due, get, asked, since>>

SunFields == <<"ASTRO_BEGIN", "NAUTICAL_BEGIN", "CIVIL_BEGIN", "SUNRISE", "SUNSET", "CIVIL_END", "NAUTICAL_END", "ASTRO_END">>
UsnoFields == <<"CIVIL_BEGIN", "SUNRISE", "SUNSET", "CIVIL_END">>
MoonFields == {"MOONRISE", "MOONSET", "UPPER_TRANSIT"}
SunTimers == Range(SunFields) \cup {"solar_noon_start", "solar_noon_end"}
MoonTimers == {"MOONRISE", "MOONSET", "lunar_noon_start", "lunar_noon_end"}

\* The mode each event brings.
ss_apidayl == <<"DAWN_ASTRO", "DAWN_NAUTICAL", "DAWN_CIVIL", "DAY", "DUSK_CIVIL", "DUSK_NAUTICAL", "DUSK_ASTRO", "NIGHT">>
usno_apidayl == <<"DAWN_CIVIL", "DAY", "DUSK_CIVIL", "NIGHT">>
Fields == IF sunmethod = "SS" THEN SunFields ELSE UsnoFields
Mode(k) ==
  CASE k \in {"solar_noon_start", "lunar_noon_start"} -> "SOLAR_NOON"
    [] k \in {"solar_noon_end", "lunar_noon_end", "MOONRISE"} -> "DAY"
    [] k = "MOONSET" -> "NIGHT"
    [] OTHER -> (IF sunmethod = "SS" THEN ss_apidayl ELSE usno_apidayl)[CHOOSE i \in DOMAIN Fields : Fields[i] = k]

\* What it really is at time t.
Abs(n) == IF n < 0 THEN -n ELSE n
Daylight(t) ==
  LET past == {i \in 1 .. 8 : sun_at[i] <= t}
  IN IF t \in sun_at[9] - Half .. sun_at[9] + Half - 1 THEN "SOLAR_NOON"
     ELSE IF past = {} THEN "NIGHT" ELSE ss_apidayl[Max(past)]

Init ==
  /\ now \in {2 * i : i \in 0 .. DayLen \div 2 - 1}
  /\ sun_at \in Suns
  /\ sunmethod \in {"SS", "USNO"}
  /\ sun = "none" /\ moon = "none"
  /\ due = [k \in SunTimers \cup MoonTimers |-> 0]
  /\ get = Update
  /\ asked = IF sunmethod = "SS" THEN {"ss", "usno"} ELSE {"usno"}
  /\ since = DayLen

\* time_offset reads an ISO time; of any other it takes the date, and the start of that day.
TimeOffset(t) == t - now
DateOffset(days) == days * DayLen - now

\* A wrong convert_data: the events that are past get a timer, too.
convert_past(timers, offsets, noon, start, end) ==
  [k \in DOMAIN timers |->
     IF k \in {start, end} /\ noon \in DOMAIN offsets
       THEN IF k = start THEN offsets[noon] - Half ELSE offsets[noon] + Half
     ELSE IF k \in DOMAIN offsets \ {noon} THEN offsets[k] ELSE timers[k]]

\* convert_sunrise_data, and the two of the USNO that are like it: events to come get a timer,
\* those that are past keep the one they have; noon gets two, if it has not begun.
convert_data(timers, offsets, noon, start, end) ==
  [k \in DOMAIN timers |->
     IF k \in {start, end} /\ noon \in DOMAIN offsets /\ offsets[noon] > Half
       THEN IF k = start THEN offsets[noon] - Half ELSE offsets[noon] + Half
     ELSE IF k \in DOMAIN offsets \ {noon} /\ offsets[k] > 0 THEN offsets[k] ELSE timers[k]]

\* What it is now: what came before the first event that is to come, of all but the last;
\* after these it is not known.
Upd(offsets, noon) ==
  LET next == {j \in 1 .. Len(Fields) - 1 : offsets[Fields[j]] >= 0}
  IN IF Abs(offsets[noon]) < Half THEN {"SOLAR_NOON"}
     ELSE IF next = {} THEN {}
     ELSE {Mode(Fields[IF Min(next) > 1 THEN Min(next) - 1 ELSE Len(Fields)])}
Told(modes) ==
  /\ sun' \in IF modes = {} THEN {sun} ELSE modes
  /\ since' = IF modes = {} THEN since ELSE 0

\* ss_request_cb: an answer in which a field is missing ends where it is.
ss_request_cb ==
  /\ "ss" \in asked
  /\ \E n \in 0 .. 9 :
     \E offsets \in {[k \in {SunFields[i] : i \in 1 .. Min({n, 8})} \cup (IF n = 9 THEN {"SOLAR_NOON"} ELSE {}) |->
                        TimeOffset(sun_at[IF k = "SOLAR_NOON" THEN 9 ELSE CHOOSE i \in 1 .. 8 : SunFields[i] = k])]} :
       /\ due' = convert_data(due, offsets, "SOLAR_NOON", "solar_noon_start", "solar_noon_end")
       /\ Told(IF n < 9 THEN {} ELSE Upd(offsets, "SOLAR_NOON"))
  /\ asked' = asked \ {"ss"}
  /\ UNCHANGED <<now, sun_at, sunmethod, moon, get>>

\* The sun's part of usno_request_cb: the events of the day, then those of the next one.
usno_sun(days) ==
  [k \in Range(UsnoFields) \cup {"SOLAR_NOON"} |-> DateOffset(days)]
usno_moon(has) ==
  [k \in MoonFields |-> IF k \in has THEN DateOffset(0) ELSE -DayLen - 1]
UpdMoon(offsets) ==
  IF Abs(offsets["UPPER_TRANSIT"]) < Half THEN "SOLAR_NOON"
  ELSE IF offsets["MOONRISE"] > offsets["MOONSET"] THEN "DAY" ELSE "NIGHT"
usno_request_cb ==
  /\ "usno" \in asked
  /\ \E nextsundata \in {0, 1}, has \in SUBSET MoonFields :
     \E timers \in {IF sunmethod = "USNO"
                      THEN convert_data(due, usno_sun(nextsundata), "SOLAR_NOON", "solar_noon_start", "solar_noon_end") ELSE due} :
       /\ Told(IF sunmethod = "USNO" THEN Upd(usno_sun(nextsundata), "SOLAR_NOON") ELSE {})
       /\ moon' = UpdMoon(usno_moon(has))
       /\ due' = convert_data(timers, [k \in has |-> DateOffset(0)], "UPPER_TRANSIT", "lunar_noon_start", "lunar_noon_end")
  /\ asked' = asked \ {"usno"}
  /\ UNCHANGED <<now, sun_at, sunmethod, get>>
\* Anything but the answer that is hoped for.
Lose ==
  /\ \E r \in asked : asked' = asked \ {r}
  /\ UNCHANGED <<now, sun_at, sunmethod, sun, moon, due, get, since>>

\* The time passes: modify_sunrise_cb and modify_moonrise_cb for the timers that are due,
\* in any order, and cb_http_GET; answers take less than a tick.
Fired(timers) == {k \in timers : due[k] = 1}
modify_cb(timers, mode) == IF Fired(timers) = {} THEN {mode} ELSE {Mode(k) : k \in Fired(timers)}
Tick ==
  /\ asked = {}
  /\ now' = (now + 1) % DayLen
  /\ due' = [k \in DOMAIN due |-> IF due[k] = 0 THEN 0 ELSE due[k] - 1]
  /\ sun' \in modify_cb(SunTimers, sun)
  /\ moon' \in modify_cb(MoonTimers, moon)
  /\ get' = IF get = 1 THEN Update ELSE get - 1
  /\ asked' = IF get = 1 THEN IF sunmethod = "SS" THEN {"ss", "usno"} ELSE {"usno"} ELSE {}
  /\ since' = Min({since + 1, DayLen})
  /\ UNCHANGED <<sun_at, sunmethod>>

Next == ss_request_cb \/ usno_request_cb \/ Lose \/ Tick
Spec == Init /\ [][Next]_vars

-----------------------------------------------------------------------------
\* Type invariant.
TypeOK ==
  /\ now \in 0 .. DayLen - 1 /\ sun_at \in Suns /\ sunmethod \in {"SS", "USNO"}
  /\ sun \in Range(ss_apidayl) \cup {"none", "SOLAR_NOON"} /\ moon \in {"none", "DAY", "NIGHT", "SOLAR_NOON"}
  /\ due \in [SunTimers \cup MoonTimers -> 0 .. 2 * DayLen]
  /\ get \in 1 .. Update /\ asked \subseteq {"ss", "usno"} /\ since \in 0 .. DayLen

\* The mode of the day is right, or was at some time since it was told from an answer: timers
\* that were set before, or for another day, do not bring back a mode that is over.
LatelyRight ==
  sunmethod = "SS" /\ sun # "none" => \E t \in 0 .. since : sun = Daylight((now - t) % DayLen)
=============================================================================
