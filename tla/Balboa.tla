------------------------------- MODULE Balboa -------------------------------
(***************************************************************************)
(* balboacoll: the collector of a spa with a Balboa controller.  The       *)
(* devices are made when three messages of the spa have been seen.  What a *)
(* client changes is changed the way it is at the panel, by pressing a     *)
(* button as often as the collector's copy of the state says.  The         *)
(* connection to gnhastd is common/genconn.c's, the subject of Connection. *)
(***************************************************************************)
EXTENDS Lists

CONSTANTS
  MaxWire,     \* bound: messages of the spa on their way
  MaxChanges,  \* bound: changes asked for, and made at the spa
  MaxLost      \* bound: answers and connections lost, messages cut in two

VARIABLES
  conn,        \* the connection to the spa is up
  wire,        \* messages of the spa on their way
  buf,         \* messages in the bufferevent's input
  stuck,       \* the input begins with the end of a message
  out,         \* messages on their way to the spa
  spa,         \* what the spa does
  panel,       \* the pumps that it has
  cfgdone,     \* the parts of its configuration that were heard
  spacfg,      \* the pumps, the scale and the temperature range heard of
  devices_ready,
  prev_stat,   \* the last status dealt with
  data,        \* the collector's copy
  told,        \* what gnhastd was told last
  goal,        \* history: a change asked for when the copy was right
  changes, losses

vars == <<conn, wire, buf, stuck, out, spa, panel, cfgdone, spacfg, devices_ready, prev_stat,
          data, told, goal, changes, losses>>
device == <<cfgdone, spacfg, devices_ready, prev_stat, data, told>>
counts == <<changes, losses>>

\* The lines between them carry more: two pumps and the temperature range stand for all.
Pumps == {"p0", "p1"}
Buttons == Pumps \cup {"tr"}
Devs == Buttons \cup {"st"}
Positions(b) == IF b \in Pumps THEN 0 .. 2 ELSE 0 .. 1
TSCALE_F == 0
TSCALE_C == 1
\* Temperatures as they are in the messages: of a Celsius spa, in halves.
tmin == [range \in 0 .. 1 |-> 2 * range]
tmax == [range \in 0 .. 1 |-> 2 * range + 2]
Temps == 1 .. 3
Nothing == [d \in {} |-> 0]
None == [loc |-> "none", val |-> 0]

\* main and d30303_found_cb.
Init ==
  /\ conn = FALSE
  /\ wire = <<>> /\ buf = <<>> /\ out = <<>>
  /\ stuck = FALSE
  /\ spa \in [p0 : {0}, p1 : {0}, tr : {1}, st : {2}, scale : {TSCALE_F, TSCALE_C}]
  /\ panel \in {{"p0"}, Pumps}
  /\ cfgdone = {}
  /\ spacfg = [pumps |-> {}, tscale |-> TSCALE_F, trange |-> 0]
  /\ devices_ready = FALSE
  /\ prev_stat = <<>>
  /\ data = Nothing /\ told = Nothing
  /\ goal = None
  /\ changes = 0 /\ losses = 0

-----------------------------------------------------------------------------
\* init_balboa_devs, once all three parts are there; the base line is set to zero.
init_balboa_devs(done, cfg) ==
  /\ devices_ready' = (done = {"CONF", "PANEL", "STATUS"})
  /\ prev_stat' = IF devices_ready' THEN <<>> ELSE prev_stat
  /\ data' = IF devices_ready'
             THEN [d \in (Devs \ Pumps) \cup cfg.pumps |-> 0] ELSE data
  /\ UNCHANGED told

parse_config_resp ==
  /\ IF devices_ready THEN UNCHANGED device
     ELSE /\ cfgdone' = cfgdone \cup {"CONF"}
          /\ UNCHANGED spacfg
          /\ init_balboa_devs(cfgdone', spacfg)
parse_panel_config_resp(pumps) ==
  /\ IF devices_ready THEN UNCHANGED device
     ELSE /\ cfgdone' = cfgdone \cup {"PANEL"}
          /\ spacfg' = [spacfg EXCEPT !.pumps = @ \cup pumps]
          /\ init_balboa_devs(cfgdone', spacfg')

\* The value of a device in a status.  A pump has two bits of a byte, but they are
\* looked for one bit further for each pump.
Bits(now, d) ==
  IF d \notin Pumps THEN now[d]
  ELSE LET byte == now.p0 + 4 * now.p1
       IN IF d = "p0" THEN byte % 4 ELSE (byte \div 2) % 4

\* parse_status_update; the answer is j.
parse_status_update(now) ==
  IF ~devices_ready
  THEN /\ cfgdone' = cfgdone \cup {"STATUS"}
       /\ spacfg' = [spacfg EXCEPT !.tscale = now.scale, !.trange = now.tr]
       /\ init_balboa_devs(cfgdone', spacfg')
  ELSE IF prev_stat = <<now>> THEN UNCHANGED device
  ELSE /\ spacfg' = [spacfg EXCEPT !.tscale = now.scale, !.trange = now.tr]
       /\ data' = [d \in DOMAIN data |-> Bits(now, d)]
       /\ told' = [d \in DOMAIN data |-> IF d = "st" THEN <<now.st, now.scale>> ELSE data'[d]]
       /\ prev_stat' = <<now>>
       /\ UNCHANGED <<cfgdone, devices_ready>>

\* balboa_buf_read_cb: of the n messages that have come, and those that were left
\* before, it takes one.  A status that found no devices makes it ask again, when
\* nothing was heard for five seconds.
balboa_buf_read_cb(n) ==
  /\ conn
  /\ n \in 1 .. Len(wire)
  /\ Len(buf) + n <= MaxWire
  /\ wire' = SubSeq(wire, n + 1, Len(wire))
  /\ IF stuck THEN UNCHANGED <<buf, out, device>>
     ELSE \E m \in {Head(buf \o SubSeq(wire, 1, n))} :
          /\ buf' = Tail(buf \o SubSeq(wire, 1, n))
          /\ CASE m[1] = "conf"   -> parse_config_resp
               [] m[1] = "panel"  -> parse_panel_config_resp(m[2])
               [] m[1] = "status" -> parse_status_update(m[2])
          /\ \/ UNCHANGED out
             \/ /\ m[1] = "status" /\ ~devices_ready
                /\ ~Contains(out, <<"CONFIG_REQ">>)
                /\ out' = Append(out, <<"CONFIG_REQ">>)
  /\ UNCHANGED <<conn, stuck, spa, panel, goal, counts>>

\* The first part of a message comes alone: it is taken off, its checksum is wrong,
\* and what the input begins with from now on is no message.
Cut ==
  /\ losses < MaxLost
  /\ losses' = losses + 1
  /\ conn /\ ~stuck
  /\ buf = <<>> /\ wire # <<>>
  /\ wire' = Tail(wire)
  /\ stuck' = TRUE
  /\ UNCHANGED <<conn, buf, out, spa, panel, device, goal, changes>>

-----------------------------------------------------------------------------
\* The presses from one position to another.
WrongPresses(b, from, to) == IF from = to THEN 0 ELSE 1
Presses(b, from, to) ==
  CASE from = to   -> 0
    [] b \in Pumps -> CHOOSE i \in 0 .. 2 : to = (from + i) % 3
    [] OTHER       -> 1
coll_chg_switch_cb(b, state) == [i \in 1 .. Presses(b, data[b], state) |-> <<"press", b>>]
\* The temperature loses its half degree.
coll_chg_temp_cb(t) ==
  IF t < tmin[spacfg.trange] \/ t > tmax[spacfg.trange] THEN <<>>
  ELSE <<<<"set", IF spacfg.tscale = TSCALE_C THEN 2 * (t \div 2) ELSE t>>>>

\* coll_chg_cb.  (The pumps' copy may be wrong: the others' is right when it is what
\* the spa does and nothing is on its way to it.)
coll_chg_cb ==
  /\ changes < MaxChanges
  /\ changes' = changes + 1
  /\ devices_ready
  /\ \/ \E b \in DOMAIN data \cap Buttons : \E s \in Positions(b) :
          /\ out' = out \o coll_chg_switch_cb(b, s)
          /\ goal' = IF data[b] = spa[b] /\ ~Contains(out, <<"press", b>>)
                     THEN [loc |-> b, val |-> s] ELSE None
     \/ \E t \in Temps :
          /\ out' = out \o coll_chg_temp_cb(t)
          /\ goal' = None
  /\ UNCHANGED <<conn, wire, buf, stuck, spa, panel, device, losses>>

\* collector_is_ok, when nothing was heard for 15 seconds, and the timer.
send_config_req ==
  /\ wire = <<>>
  /\ ~Contains(out, <<"CONFIG_REQ">>)
  /\ out' = Append(out, <<"CONFIG_REQ">>)
  /\ UNCHANGED <<conn, wire, buf, stuck, spa, panel, device, goal, counts>>

\* balboa_connect_event_cb.  What was on its way is gone; the new connection is
\* made at once.
Connected ==
  /\ ~conn
  /\ conn' = TRUE
  /\ out' = out \o <<<<"CONFIG_REQ">>, <<"PANEL_REQ">>>>
  /\ UNCHANGED <<wire, buf, stuck, spa, panel, device, goal, counts>>
connect_server_cb ==
  /\ losses < MaxLost
  /\ losses' = losses + 1
  /\ conn' = FALSE
  /\ wire' = <<>> /\ buf' = <<>> /\ out' = <<>>
  /\ stuck' = FALSE
  /\ goal' = None
  /\ UNCHANGED <<spa, panel, device, changes>>

-----------------------------------------------------------------------------
\* The spa: a button, a request, the next status.
Pressed(b) == [spa EXCEPT ![b] = (@ + 1) % (IF b \in Pumps THEN 3 ELSE 2)]
SpaTakes ==
  /\ conn /\ out # <<>>
  /\ out' = Tail(out)
  /\ LET m == Head(out)
         Answer(a) == \/ Len(wire) < MaxWire /\ wire' = Append(wire, a) /\ UNCHANGED losses
                      \/ losses < MaxLost /\ losses' = losses + 1 /\ UNCHANGED wire
     IN CASE m[1] = "press"      -> spa' = Pressed(m[2]) /\ UNCHANGED <<wire, losses>>
          [] m[1] = "set"        -> spa' = [spa EXCEPT !.st = m[2]] /\ UNCHANGED <<wire, losses>>
          [] m[1] = "CONFIG_REQ" -> Answer(<<"conf">>) /\ UNCHANGED spa
          [] m[1] = "PANEL_REQ"  -> Answer(<<"panel", panel>>) /\ UNCHANGED spa
  /\ UNCHANGED <<conn, buf, stuck, panel, device, goal, changes>>
SpaStatus ==
  /\ conn /\ Len(wire) < MaxWire
  /\ wire' = Append(wire, <<"status", spa>>)
  /\ UNCHANGED <<conn, buf, stuck, out, spa, panel, device, goal, counts>>
\* Somebody in the tub.
ByHand ==
  /\ changes < MaxChanges
  /\ changes' = changes + 1
  /\ \/ \E b \in panel \cup (Buttons \ Pumps) :
          /\ spa' = Pressed(b)
          /\ goal' = IF goal.loc = b THEN None ELSE goal
     \/ \E s \in {TSCALE_F, TSCALE_C} : spa' = [spa EXCEPT !.scale = s] /\ UNCHANGED goal
  /\ UNCHANGED <<conn, wire, buf, stuck, out, panel, device, losses>>

Next ==
  \/ \E n \in 1 .. MaxWire : balboa_buf_read_cb(n)
  \/ Cut \/ coll_chg_cb \/ send_config_req \/ Connected \/ connect_server_cb
  \/ SpaTakes \/ SpaStatus \/ ByHand

\* libevent's callbacks; the spa answers, and sends its status four times a second.
Weak(n) ==
  CASE n = 1 -> Connected
    [] n = 2 -> SpaTakes
    [] n = 3 -> (\E m \in 1 .. MaxWire : balboa_buf_read_cb(m))
    [] n = 4 -> SpaStatus
    [] OTHER -> FALSE
Fairness == \A n \in 1 .. 4 : WF_vars(Weak(n))

Spec == Init /\ [][Next]_vars /\ Fairness

-----------------------------------------------------------------------------
\* Type invariant of balboacoll's state.
TypeOK ==
  /\ conn \in BOOLEAN /\ stuck \in BOOLEAN /\ devices_ready \in BOOLEAN
  /\ spa.st \in 0 .. 3 /\ \A b \in Buttons : spa[b] \in Positions(b)
  /\ cfgdone \subseteq {"CONF", "PANEL", "STATUS"}
  /\ spacfg.pumps \subseteq panel
  /\ DOMAIN data \subseteq Devs /\ DOMAIN told \subseteq DOMAIN data
  /\ goal = None \/ goal.val \in Positions(goal.loc)

\* A device that was changed when the copy of it was right is what it was to be,
\* when the presses have come to the spa.
DoesAsAsked ==
  goal # None /\ ~Contains(out, <<"press", goal.loc>>) => spa[goal.loc] = goal.val

\* The devices are those that the spa has, whatever order its messages came in.
AsThePanelSays == devices_ready => DOMAIN data = (Devs \ Pumps) \cup panel

\* In the end gnhastd knows what the spa does, unless an answer was lost before the
\* devices were made, or a message was cut in two; but for the pumps after the first.
Settled ==
  ~stuck /\ (losses = 0 \/ devices_ready) =>
    /\ devices_ready
    /\ told # Nothing
    /\ \A d \in DOMAIN told \ {"p1", "st"} : told[d] = spa[d]
    /\ told["st"] = <<spa.st, spa.scale>>
=============================================================================
