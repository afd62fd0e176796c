------------------------------- MODULE Icaddy -------------------------------
(***************************************************************************)
(* icaddycoll: the collector of an Irrigation Caddy.  Its settings are     *)
(* asked for once, its status again and again.  A client sets the timers   *)
(* of zones one after the other and then runs program 4 with them, in whole*)
(* minutes; in the meantime neither the countdown nor a new status may     *)
(* change them, but the wait for the client is limited to three updates.   *)
(* Program 4 wants all ten zones (Zones) to be in the table, which a       *)
(* controller with fewer, or whose settings have not come, does not have.  *)
(***************************************************************************)
EXTENDS Integers, Sequences, FiniteSets

CONSTANTS
  Zones,       \* number of zones that program 4 wants
  PerMinute,   \* seconds in a minute
  MaxTimer,    \* bound: of a zone's timer
  MaxChanges,  \* bound: changes asked for, and steps of the controller, and what is below
  MaxLost      \* bound: requests without an answer

VARIABLES
  configured,  \* the zones in the configuration; if it has any, it has the other devices
  known,       \* the zones in the table; if it has any, it has the other devices
  hasrain,     \* the settings said that there is a rain sensor
  settings,    \* the request for the settings: "asked", "answered" or "over"
  status,      \* requests for the status: <<"asked">> or the answer
  ic,          \* the controller: its zones, zone and program running, enabled, raining
  data,        \* the timers of the zones in the table
  told,        \* what gnhastd was told last
  notimerupdate, waiting,
  set,         \* history: what a client set since, and has not been told otherwise
  posts,       \* changes on their way, each on a connection of its own
  program,     \* history: the minutes program 4 was posted with, and the timers set then, till it is taken
  changes, losses

vars == <<configured, known, hasrain, settings, status, ic, data, told, notimerupdate, waiting, set,
          posts, program, changes, losses>>

\* Assumed by the instances.
IcaddyAssumption == {Zones, PerMinute, MaxTimer} \subseteq Nat \ {0}

Zone == 1 .. Zones
\* (A zone's timer is told with the seconds left; gnhastd counts it down itself.)
Devs == {"rain", "run", "zr", "pr"}
Shows == [zones : Zone, zone : 0 .. Zones, sec : 0 .. MaxTimer, prog : {0, 1, 4}, run : BOOLEAN, rain : BOOLEAN]
\* What a client sets: no time, less than a minute, and more.
Times == {0, 1, MaxTimer}
NoneSet == [z \in {} |-> 0]
Nothing == [sent |-> NoneSet, set |-> NoneSet]
Merge(f, g) == [x \in DOMAIN f \cup DOMAIN g |-> IF x \in DOMAIN f THEN f[x] ELSE g[x]]

\* main, d30303_found_cb and icaddy_startfeed: both are asked for at once, on
\* connections of their own.
Init ==
  /\ \E n \in Zone :
       /\ configured \in {{}, 1 .. n}   \* the file has none yet, or those of the dump
       /\ ic = [zones |-> n, zone |-> 0, sec |-> 0, prog |-> 0, run |-> TRUE, rain |-> FALSE]
  /\ known = configured
  /\ hasrain = FALSE
  /\ settings = "asked"
  /\ status = <<<<"asked">>>>
  /\ data = [z \in Zone |-> 0]
  /\ told = NoneSet
  /\ notimerupdate = FALSE
  /\ waiting = 0
  /\ set = NoneSet
  /\ posts = {}
  /\ program = Nothing
  /\ changes = 0
  /\ losses = 0

table == <<configured, known, hasrain>>
held == <<notimerupdate, waiting, set>>
counts == <<changes, losses>>
MayLose == losses < MaxLost /\ changes + losses < MaxChanges

-----------------------------------------------------------------------------
\* precheck_status: a status is asked for unless a client is setting timers.
precheck_status ==
  IF ~notimerupdate THEN "free" ELSE IF waiting + 1 > 3 THEN "punt" ELSE "held"

\* cb_http_GET of the status, at every update.
cb_http_GET ==
  /\ status = <<>>
  /\ CASE precheck_status = "free" -> status' = <<<<"asked">>>> /\ UNCHANGED held
       [] precheck_status = "held" -> waiting' = waiting + 1 /\ UNCHANGED <<status, notimerupdate, set>>
       [] precheck_status = "punt" -> /\ status' = <<<<"asked">>>>
                                      /\ waiting' = 0 /\ notimerupdate' = FALSE /\ set' = NoneSet
  /\ UNCHANGED <<table, settings, ic, data, told, posts, program, counts>>

\* The controller answers, or the request or its answer is lost.
Replied ==
  /\ status = <<<<"asked">>>>
  /\ status' = <<<<"answer", ic>>>>
  /\ UNCHANGED <<table, settings, ic, data, told, held, posts, program, counts>>
NoAnswer ==
  /\ MayLose
  /\ losses' = losses + 1
  /\ \/ status # <<>> /\ status' = <<>> /\ UNCHANGED settings
     \/ settings = "asked" /\ settings' = "over" /\ UNCHANGED status
  /\ UNCHANGED <<table, ic, data, told, held, posts, program, changes>>

\* request_cb, the status.  It stops at the first device that is not there, which may
\* be that of the running zone.  The seconds of the running zone go into its timer,
\* whoever has set it since.
request_cb_status ==
  /\ status # <<>> /\ Head(status) # <<"asked">>
  /\ status' = <<>>
  /\ LET now == Head(status)[2]
         running == IF now.zone = 0 THEN {} ELSE {now.zone}
         after == Merge([pr |-> now.prog, run |-> now.run],
                        IF hasrain THEN [rain |-> now.rain] ELSE NoneSet)
         news == Merge([zr |-> now.zone], IF running \subseteq known THEN after ELSE NoneSet)
     IN IF known = {} THEN UNCHANGED <<data, told, set>>
        ELSE /\ data' = [z \in Zone |-> IF z \in running \cap known THEN now.sec ELSE data[z]]
             /\ told' = Merge(news, told)
             /\ set' = [z \in DOMAIN set \ running |-> set[z]]
  /\ UNCHANGED <<table, settings, ic, notimerupdate, waiting, posts, program, counts>>

\* request_cb, the settings: every device that there is not yet is made.
request_cb_settings ==
  /\ settings = "asked"
  /\ settings' = "over"
  /\ hasrain' = TRUE
  /\ known' = known \cup 1 .. ic.zones
  /\ UNCHANGED <<configured, status, ic, data, told, held, posts, program, counts>>

-----------------------------------------------------------------------------
\* A wrong coll_chg_timer_cb: the countdown and the updates go on.
chg_timer_unheld(z, t) ==
  /\ data' = [data EXCEPT ![z] = t]
  /\ set' = Merge([y \in {z} |-> t], set)
  /\ UNCHANGED <<notimerupdate, waiting>>
\* coll_chg_timer_cb.
coll_chg_timer_cb(z, t) ==
  /\ notimerupdate' = TRUE
  /\ data' = [data EXCEPT ![z] = t]
  /\ set' = Merge([y \in {z} |-> t], set)
  /\ UNCHANGED waiting

\* A wrong Minutes: less than a minute is none.
MinutesDown(t) == t \div PerMinute
\* A zone whose timer is not zero runs for whole minutes, and for one at least.
Minutes(t) == IF t \div PerMinute = 0 THEN 1 ELSE t \div PerMinute
Timed == [z \in {z \in Zone : data[z] > 0} |-> Minutes(data[z])]

\* coll_chg_number_cb: the requests for each program or zone number.  Program 4 is
\* posted with every zone whose timer is not zero, or, when a zone cannot be found,
\* not at all.
AllFound == known = Zone
coll_chg_number_cb(loc, num) ==
  CASE loc = "pr" /\ num = 0 -> {<<"off">>, <<"on">>}
    [] loc = "pr" /\ num = 1 -> {<<"start", 1, NoneSet>>}
    [] loc = "pr" /\ num = 4 -> IF AllFound THEN {<<"start", 4, Timed>>} ELSE {}
    [] loc = "zr" /\ num = 0 -> {<<"stop">>}
\* coll_chg_switch_cb: the master switch.
coll_chg_switch_cb(state) == IF state THEN {<<"on">>} ELSE {<<"off">>}

\* coll_chg_cb: of devices that were registered, which those that only the settings
\* made are not.  The wait for the client ends when program 4 is posted.
coll_chg_cb ==
  /\ changes + losses < MaxChanges
  /\ changes' = changes + 1
  /\ configured # {}
  /\ \/ /\ \E z \in configured, t \in Times : coll_chg_timer_cb(z, t)
        /\ UNCHANGED <<posts, program>>
     \/ /\ \E s \in BOOLEAN : posts' = posts \cup coll_chg_switch_cb(s)
        /\ UNCHANGED <<data, held, program>>
     \/ /\ \E n \in {<<"pr", 0>>, <<"pr", 1>>, <<"zr", 0>>} :
             posts' = posts \cup coll_chg_number_cb(n[1], n[2])
        /\ UNCHANGED <<data, held, program>>
     \/ /\ posts' = posts \cup coll_chg_number_cb("pr", 4)
        /\ IF AllFound THEN /\ program' = [sent |-> Timed, set |-> set]
                            /\ waiting' = 0 /\ notimerupdate' = FALSE /\ set' = NoneSet
                       ELSE UNCHANGED <<held, program>>
        /\ UNCHANGED data
  /\ UNCHANGED <<table, settings, status, ic, told, losses>>

\* cb_timerdev_update, every second.
cb_timerdev_update ==
  /\ ~notimerupdate
  /\ \E z \in Zone : data[z] > 0
  /\ data' = [z \in Zone |-> IF data[z] > 0 THEN data[z] - 1 ELSE 0]
  /\ UNCHANGED <<table, settings, status, ic, told, held, posts, program, counts>>

\* The controller takes a request (in any order, they have connections of their
\* own) or does not get it; it runs zone after zone, with a second left of each.  (It does not
\* begin to rain.)
Taken(p) ==
  /\ posts' = posts \ {p}
  /\ \/ /\ ic' = CASE p[1] = "off"  -> [ic EXCEPT !.run = FALSE, !.prog = 0, !.zone = 0, !.sec = 0]
                   [] p[1] = "stop" -> [ic EXCEPT !.prog = 0, !.zone = 0, !.sec = 0]
                   [] p[1] = "on"   -> [ic EXCEPT !.run = TRUE]
                   [] p[1] = "start" ->
                        IF ic.run THEN [ic EXCEPT !.prog = p[2], !.zone = 1, !.sec = 1] ELSE ic
        /\ UNCHANGED losses
     \/ MayLose /\ losses' = losses + 1 /\ UNCHANGED ic
  /\ program' = IF p[1] = "start" /\ p[2] = 4 THEN Nothing ELSE program
  /\ UNCHANGED <<table, settings, status, data, told, held, changes>>
GoesOn ==
  /\ changes + losses < MaxChanges
  /\ changes' = changes + 1
  /\ ic.zone # 0
  /\ ic' = IF ic.zone < ic.zones THEN [ic EXCEPT !.zone = @ + 1]
                                 ELSE [ic EXCEPT !.prog = 0, !.zone = 0, !.sec = 0]
  /\ UNCHANGED <<table, settings, status, data, told, held, posts, program, losses>>

Next ==
  \/ cb_http_GET \/ Replied \/ NoAnswer \/ request_cb_status \/ request_cb_settings
  \/ coll_chg_cb \/ cb_timerdev_update \/ \E p \in posts : Taken(p)
  \/ GoesOn

\* The timer of the feed, the controller's answers, and the callback.
Weak(n) ==
  CASE n = 1 -> cb_http_GET
    [] n = 2 -> Replied
    [] n = 3 -> request_cb_status
    [] OTHER -> FALSE
Fairness == \A n \in 1 .. 3 : WF_vars(Weak(n))

Spec == Init /\ [][Next]_vars /\ Fairness

-----------------------------------------------------------------------------
\* Type invariant of icaddycoll's state.
TypeOK ==
  /\ configured \subseteq known /\ known \subseteq Zone
  /\ hasrain \in BOOLEAN
  /\ settings \in {"asked", "over"}
  /\ Len(status) <= 1
  /\ ic \in Shows
  /\ data \in [Zone -> 0 .. MaxTimer]
  /\ DOMAIN told \subseteq Devs
  /\ notimerupdate \in BOOLEAN /\ waiting \in 0 .. 3
  /\ DOMAIN set \subseteq Zone

\* Program 4 runs each zone for the time that a client has set for it, in whole minutes
\* that are not more than it, or for one minute: neither the countdown nor an update
\* comes between, but for the zone that a late answer says to be running.
RunsAsSet ==
  \A z \in DOMAIN program.set :
    LET t == program.set[z]
    IN IF t = 0 THEN z \notin DOMAIN program.sent
       ELSE /\ z \in DOMAIN program.sent
            /\ \E m \in {program.sent[z]} :
                 m >= 1 /\ t < (m + 1) * PerMinute /\ (m = 1 \/ m * PerMinute <= t)

\* In the end gnhastd knows what the controller does, though a client may begin to set
\* timers and leave it at that, or run program 4 in vain; of a controller with zones
\* that are not in the table it knows the zone.
Settled ==
  /\ known # {} => "zr" \in DOMAIN told /\ told["zr"] = ic.zone
  /\ known # {} /\ 1 .. ic.zones \subseteq known =>
       /\ {"pr", "run"} \subseteq DOMAIN told /\ told["pr"] = ic.prog /\ told["run"] = ic.run
       /\ hasrain => "rain" \in DOMAIN told /\ told["rain"] = ic.rain
=============================================================================
