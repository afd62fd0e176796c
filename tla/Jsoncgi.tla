------------------------------ MODULE Jsoncgi -------------------------------
(***************************************************************************)
(* jsoncgicoll: the values and the alarms of gnhastd as the events of a    *)
(* web page.  On every connection it asks for the list of devices, then    *)
(* for each of them: for every change of a switch, which is printed as it  *)
(* comes, and for a feed of the others, which wait for the timer that      *)
(* prints all devices.                                                     *)
(***************************************************************************)
EXTENDS Lists

CONSTANTS
  Switches,    \* switches and dimmers
  Others,      \* the other devices
  MaxWire,     \* bound: lines on their way to the collector
  MaxChanges,  \* bound: changes of a device's value
  MaxAlarms,   \* bound: times the alarm is set or cleared
  MaxLost      \* bound: connections lost

Devs == Switches \cup Others

VARIABLES
  conn,       \* "connecting", "up", "waiting", "exited" or "crashed"
  shutdown,
  health,     \* a health timer runs
  spew,       \* a timer for json_dump_all runs
  asked,      \* commands on their way to gnhastd
  wire,       \* lines on their way back
  devs,       \* the devices of gnhastd
  value,      \* their values there
  feeds,      \* devices with a feed or cfeed on the connection
  watching,   \* client_t.alarmwatch
  alarm,      \* there is an alarm
  data,       \* the collector's devices and their values, -1 for none
  page,       \* what was printed of each device last
  shown,      \* the page shows the alarm
  changes, losses

gnhastd == <<devs, value, alarm, changes>>
vars == <<conn, shutdown, health, spew, asked, wire, feeds, watching, data, page, shown, losses, gnhastd>>
Running == conn \in {"connecting", "up", "waiting"}
Nothing == [d \in {} |-> -1]

\* main, to the first generic_connect_server_cb.
Init ==
  /\ conn = "connecting" /\ shutdown = FALSE /\ health = FALSE /\ spew = FALSE
  /\ asked = <<>> /\ wire = <<>> /\ feeds = {} /\ watching = FALSE
  /\ devs = Switches /\ value = [d \in Devs |-> 0] /\ alarm = FALSE
  /\ data = Nothing /\ page = Nothing /\ shown = FALSE
  /\ changes = 0 /\ losses = 0

-----------------------------------------------------------------------------
\* jsoncoll_establish_feeds.
jsoncoll_establish_feeds == <<<<"ldevs">>, <<"listenalarms">>, <<"dumpalarms">>>>

\* generic_connect_event_cb and genconn_connect_cb.
Connected ==
  /\ conn = "connecting" /\ conn' = "up"
  /\ asked' = jsoncoll_establish_feeds
  /\ health' = TRUE
  /\ UNCHANGED <<shutdown, spew, wire, feeds, watching, data, page, shown, losses, gnhastd>>
Lost ==
  /\ conn \in {"connecting", "up"}
  /\ \/ shutdown /\ UNCHANGED losses
     \/ losses < MaxLost /\ losses' = losses + 1
  /\ conn' = IF shutdown THEN "exited" ELSE "waiting"
  /\ asked' = <<>> /\ wire' = <<>> /\ feeds' = {} /\ watching' = FALSE
  /\ UNCHANGED <<shutdown, health, spew, data, page, shown, gnhastd>>
Retry ==
  /\ conn = "waiting" /\ conn' = "connecting"
  /\ UNCHANGED <<shutdown, health, spew, asked, wire, feeds, watching, data, page, shown, losses, gnhastd>>
\* generic_collector_health_cb, through the pointer to the freed bufferevent.
Health ==
  /\ health /\ conn = "waiting" /\ conn' = "crashed"
  /\ UNCHANGED <<shutdown, health, spew, asked, wire, feeds, watching, data, page, shown, losses, gnhastd>>
generic_cb_sigterm ==
  /\ Running /\ ~shutdown /\ shutdown' = TRUE
  /\ UNCHANGED <<conn, health, spew, asked, wire, feeds, watching, data, page, shown, losses, gnhastd>>
generic_cb_shutdown ==
  /\ Running /\ shutdown /\ conn' = "exited"
  /\ UNCHANGED <<shutdown, health, spew, asked, wire, feeds, watching, data, page, shown, losses, gnhastd>>

-----------------------------------------------------------------------------
\* gnhastd takes the next command; a feed comes with an ask.
Answer ==
  /\ asked # <<>> /\ asked' = Tail(asked)
  /\ Len(wire) < MaxWire
  /\ LET c == Head(asked)
     IN /\ wire' = wire \o CASE c[1] = "ldevs" -> <<<<"devs", devs>>>>
                             [] c[1] = "dumpalarms" /\ alarm -> <<<<"alarm", TRUE>>>>
                             [] c[1] = "feed" -> <<<<"upd", c[2], value[c[2]]>>>>
                             [] OTHER -> <<>>
        /\ watching' = (watching \/ c[1] = "listenalarms")
        /\ feeds' = IF c[1] = "feed" THEN feeds \cup {c[2]} ELSE feeds
  /\ UNCHANGED <<conn, shutdown, health, spew, data, page, shown, losses, gnhastd>>
\* gnhastd's timer of a feed.
Feed ==
  /\ Len(wire) < MaxWire
  /\ \E d \in feeds \ Switches :
       /\ \A i \in DOMAIN wire : wire[i] # <<"upd", d, value[d]>>
       /\ wire' = Append(wire, <<"upd", d, value[d]>>)
  /\ UNCHANGED <<conn, shutdown, health, spew, asked, feeds, watching, data, page, shown, losses, gnhastd>>
\* A device gets a value, or gnhastd a device; the alarm is set or cleared.
Change(d) ==
  /\ changes < MaxChanges /\ changes' = changes + 1
  /\ d \in devs => Len(wire) < MaxWire
  /\ value' = [value EXCEPT ![d] = IF d \in devs THEN @ + 1 ELSE @]
  /\ devs' = devs \cup {d}
  /\ wire' = IF d \in feeds \cap Switches THEN Append(wire, <<"upd", d, value'[d]>>) ELSE wire
  /\ UNCHANGED <<conn, shutdown, health, spew, asked, feeds, watching, alarm, data, page, shown, losses>>
SetAlarm ==
  /\ changes < MaxAlarms /\ changes' = changes + 1
  /\ Len(wire) < MaxWire
  /\ alarm' = ~alarm
  /\ wire' = IF watching THEN Append(wire, <<"alarm", alarm'>>) ELSE wire
  /\ UNCHANGED <<conn, shutdown, health, spew, asked, feeds, watching, devs, value, data, page, shown, losses>>

-----------------------------------------------------------------------------
\* cmd_register makes the devices that are new; cmd_endldevs asks for all that there are.
cmd_endldevs(D) ==
  /\ data' = [d \in DOMAIN data \cup D |-> IF d \in DOMAIN data THEN data[d] ELSE -1]
  /\ asked' = asked \o SetToSeq({<<"feed", d>> : d \in DOMAIN data'})
  /\ spew' = TRUE
\* cmd_update, and coll_upd_cb, which prints a switch.
coll_upd_cb(d, v) ==
  /\ data' = [data EXCEPT ![d] = v]
  /\ page' = [e \in DOMAIN page \cup ({d} \cap Switches) |-> IF e = d /\ d \in Switches THEN v ELSE page[e]]
\* The next line; coll_alarm_cb prints an alarm and its clearing.
Receive ==
  /\ conn = "up" /\ wire # <<>> /\ wire' = Tail(wire)
  /\ LET m == Head(wire)
     IN \/ m[1] = "devs" /\ cmd_endldevs(m[2]) /\ UNCHANGED <<page, shown>>
        \/ m[1] = "upd" /\ coll_upd_cb(m[2], m[3]) /\ UNCHANGED <<asked, spew, shown>>
        \/ m[1] = "alarm" /\ shown' = m[2] /\ UNCHANGED <<asked, spew, data, page>>
  /\ UNCHANGED <<conn, shutdown, health, feeds, watching, losses, gnhastd>>
json_dump_all ==
  /\ Running /\ spew
  /\ page' = data
  /\ UNCHANGED <<conn, shutdown, health, spew, asked, wire, feeds, watching, data, shown, losses, gnhastd>>

Next ==
  \/ Connected \/ Lost \/ Retry \/ Health \/ generic_cb_sigterm \/ generic_cb_shutdown
  \/ Answer \/ Feed \/ SetAlarm \/ Receive \/ json_dump_all \/ \E d \in Devs : Change(d)
\* The timers run, gnhastd answers; the line is free again and again for a feed.
Weak(n) ==
  CASE n = 1 -> Connected
    [] n = 2 -> Retry
    [] n = 3 -> Answer
    [] n = 4 -> Receive
    [] n = 5 -> json_dump_all
    [] OTHER -> FALSE
Strong(n) == n = 1 /\ Feed
Fairness == (\A n \in 1 .. 5 : WF_vars(Weak(n))) /\ SF_vars(Strong(1))
Spec == Init /\ [][Next]_vars /\ Fairness

-----------------------------------------------------------------------------
\* Type invariant.
TypeOK ==
  /\ conn \in {"connecting", "up", "waiting", "exited", "crashed"}
  /\ shutdown \in BOOLEAN /\ health \in BOOLEAN /\ spew \in BOOLEAN /\ watching \in BOOLEAN
  /\ alarm \in BOOLEAN /\ shown \in BOOLEAN
  /\ feeds \subseteq devs /\ devs \subseteq Devs /\ DOMAIN data \subseteq devs /\ DOMAIN page \subseteq DOMAIN data
  /\ Len(wire) <= MaxWire

\* The page gets the values of all the devices that gnhastd told of, as they are in the end,
\* and an alarm that is there, over a lost connection, too.
Settled ==
  /\ DOMAIN data # {} /\ page = [d \in DOMAIN data |-> value[d]]
  /\ alarm => shown
Stopped == ~Running \/ shutdown
=============================================================================
