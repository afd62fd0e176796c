--------------------------- MODULE DevicesProofs ----------------------------
(***************************************************************************)
(* Theorems about the collectors and tools of Devices, for every value of  *)
(* the constants: a device is told, and does, what it was asked to, and    *)
(* what is told of it is what it said.  Variables are under the names of   *)
(* Devices; the comments give those of the modules.                        *)
(***************************************************************************)
EXTENDS Devices, Sequences, SequenceTheorems, FiniteSetTheorems, WellFoundedInduction, TLAPS

-----------------------------------------------------------------------------
(* rrdcoll: the connection to gnhastd (gnhastd_conn, v2), and the feeds of *)
(* each device on it (feeds, v6).                                          *)

\* While the retry timer of the connection runs, the feeds will be asked for when it
\* fires (need_rereg, v4), whichever of the two connections set that.
RrdInv ==
  /\ v6 \in [RrdDevs -> Nat]
  /\ v2 = "waiting" => v4
  /\ Rrd!Introduced

LEMMA RrdInitI == Rrd!Init => RrdInv
BY DEF Rrd!Init, RrdInv, Rrd!Introduced

LEMMA RrdStepI == RrdInv /\ Rrd!Next => RrdInv'
<1> SUFFICES ASSUME RrdInv, Rrd!Next PROVE RrdInv' OBVIOUS
<1> USE DEF RrdInv, Rrd!Introduced
<1>1. CASE Rrd!Connected BY <1>1 DEF Rrd!Connected
<1>2. CASE Rrd!GnhastdLost BY <1>2 DEF Rrd!GnhastdLost
<1>3. CASE Rrd!RrdcLost BY <1>3 DEF Rrd!RrdcLost
<1>4. CASE Rrd!connect_server_cb BY <1>4 DEF Rrd!connect_server_cb, Rrd!reregister
<1>5. CASE Rrd!Store BY <1>5 DEF Rrd!Store
<1>6. CASE Rrd!cmd_endldevs BY <1>6 DEF Rrd!cmd_endldevs
<1>7. CASE Rrd!cb_sigterm BY <1>7 DEF Rrd!cb_sigterm
<1>8. CASE Rrd!cb_shutdown BY <1>8 DEF Rrd!cb_shutdown
<1>9. ASSUME NEW d \in RrdDevs, Rrd!Feed(d) PROVE RrdInv'
  BY <1>9 DEF Rrd!Feed, Rrd!rrd_update_dev
<1>10. ASSUME NEW d \in RrdDevs, Rrd!Change(d) PROVE RrdInv'
  BY <1>10 DEF Rrd!Change
<1>11. CASE Rrd!health_cb BY <1>11 DEF Rrd!health_cb
<1> QED
  BY <1>1, <1>2, <1>3, <1>4, <1>5, <1>6, <1>7, <1>8, <1>9, <1>10, <1>11 DEF Rrd!Next

-----------------------------------------------------------------------------
(* icaddycoll: the table's timers (data, v7) and what a client set         *)
(* (set, v11).                                                             *)

\* What a client has set is in the table, and nothing but a client changes it as long
\* as the updates are held (notimerupdate, v9); timers are numbers, as are the seconds
\* that the controller (ic, v6) and its answers (status, v5) have, and the requests on
\* their way (posts, v12) are some that the controller knows.
Request(p) == p[1] \in {"off", "on", "stop", "start"} /\ (p[1] = "start" => p[2] \in {1, 4})
CaddyTimes ==
  /\ v7 \in [Icaddy!Zone -> Nat]
  /\ v6 \in Icaddy!Shows
  /\ v5 \in {<<>>, <<<<"asked">>>>} \cup {<<<<"answer", s>>>> : s \in Icaddy!Shows}
CaddyInv ==
  /\ v9 \/ DOMAIN v11 = {}
  /\ \A z \in DOMAIN v11 : z \in Icaddy!Zone /\ v7[z] = v11[z]
  /\ v1 \subseteq Icaddy!Zone
  /\ \A p \in v12 : Request(p)
  /\ CaddyTimes
  /\ Icaddy!RunsAsSet

\* A time in whole minutes: not more than the time, and less by less than a minute, but
\* at least one.
LEMMA WholeMinutes ==
  ASSUME Icaddy!IcaddyAssumption, NEW t \in Nat, t > 0
  PROVE  \E m \in {Icaddy!Minutes(t)} :
           m >= 1 /\ t < (m + 1) * PerMinute /\ (m = 1 \/ m * PerMinute <= t)
<1> DEFINE q == t \div PerMinute
<1>1. PerMinute \in Nat \ {0} BY DEF Icaddy!IcaddyAssumption
<1>2. q \in Nat /\ q * PerMinute <= t /\ t < (q + 1) * PerMinute BY <1>1, SMTT(30)
<1> HIDE DEF q
<1>3. CASE q = 0
  <2>1. t < PerMinute BY <1>1, <1>2, <1>3
  <2>2. t < (1 + 1) * PerMinute BY <1>1, <2>1
  <2> QED BY <1>3, <2>2 DEF Icaddy!Minutes, q
<1>4. CASE q # 0 BY <1>2, <1>4 DEF Icaddy!Minutes, q
<1> QED BY <1>3, <1>4

\* A controller that stops is as it was but for what it runs.
LEMMA CaddyHalts ==
  ASSUME Icaddy!IcaddyAssumption, NEW s \in Icaddy!Shows
  PROVE  [s EXCEPT !.prog = 0, !.zone = 0, !.sec = 0] \in Icaddy!Shows
<1> USE DEF Icaddy!Shows
<1>1. 0 \in 0 .. IcZones /\ 0 \in 0 .. MaxTimer BY DEF Icaddy!IcaddyAssumption
<1>2. PICK a \in Icaddy!Shows : a = [s EXCEPT !.prog = 0] OBVIOUS
<1>3. PICK b \in Icaddy!Shows : b = [a EXCEPT !.zone = 0] BY <1>1
<1>4. PICK c \in Icaddy!Shows : c = [b EXCEPT !.sec = 0] BY <1>1
<1> QED BY <1>2, <1>3, <1>4

LEMMA CaddyInitI == Icaddy!IcaddyAssumption /\ Icaddy!Init => CaddyInv
<1> SUFFICES ASSUME Icaddy!IcaddyAssumption, Icaddy!Init PROVE CaddyInv OBVIOUS
<1>1. v1 \subseteq Icaddy!Zone /\ v6 \in Icaddy!Shows
  <2>1. PICK n \in Icaddy!Zone :
          /\ v1 \in {{}, 1 .. n}
          /\ v6 = [zones |-> n, zone |-> 0, sec |-> 0, prog |-> 0, run |-> TRUE, rain |-> FALSE]
    BY DEF Icaddy!Init
  <2>2. IcZones \in Nat /\ MaxTimer \in Nat BY DEF Icaddy!IcaddyAssumption
  <2>3. v1 \subseteq Icaddy!Zone BY <2>1, <2>2 DEF Icaddy!Zone
  <2>4. v6 \in Icaddy!Shows BY <2>1, <2>2 DEF Icaddy!Shows, Icaddy!Zone
  <2> QED BY <2>3, <2>4
<1>2. CaddyTimes BY <1>1 DEF Icaddy!Init, CaddyTimes
<1> QED
  BY <1>1, <1>2 DEF Icaddy!Init, Icaddy!NoneSet, Icaddy!Nothing, CaddyInv, Icaddy!RunsAsSet

LEMMA CaddyStepI == Icaddy!IcaddyAssumption /\ CaddyInv /\ Icaddy!Next => CaddyInv'
<1> SUFFICES ASSUME Icaddy!IcaddyAssumption, CaddyInv, Icaddy!Next PROVE CaddyInv' OBVIOUS
<1> USE DEF CaddyInv, CaddyTimes, Icaddy!RunsAsSet, Icaddy!table, Icaddy!held, Icaddy!counts,
            Icaddy!NoneSet
<1>0. IcZones \in Nat /\ MaxTimer \in Nat /\ 1 \in 0 .. MaxTimer BY DEF Icaddy!IcaddyAssumption
<1>1. CASE Icaddy!cb_http_GET
  <2>1. UNCHANGED <<v1, v6, v7, v12, v13>> BY <1>1 DEF Icaddy!cb_http_GET
  <2>2. CASE Icaddy!precheck_status = "punt"
    BY <1>1, <2>1, <2>2 DEF Icaddy!cb_http_GET
  <2>3. CASE Icaddy!precheck_status # "punt"
    <3>1. Icaddy!precheck_status \in {"free", "held"} BY <2>3 DEF Icaddy!precheck_status
    <3>2. UNCHANGED <<v9, v11>> /\ v5' \in {v5, <<<<"asked">>>>}
      BY <1>1, <3>1 DEF Icaddy!cb_http_GET
    <3> QED BY <2>1, <3>2
  <2> QED BY <2>2, <2>3
<1>2. CASE Icaddy!Replied BY <1>2 DEF Icaddy!Replied
<1>3. CASE Icaddy!NoAnswer BY <1>3 DEF Icaddy!NoAnswer
<1>4. CASE Icaddy!request_cb_status
  <2>1. UNCHANGED <<v1, v6, v9, v12, v13>> /\ v5' = <<>> BY <1>4 DEF Icaddy!request_cb_status
  <2>2. CASE v2 = {}
    BY <1>4, <2>1, <2>2 DEF Icaddy!request_cb_status
  <2>3. CASE v2 # {}
    <3> DEFINE now == Head(v5)[2]
               running == IF now.zone = 0 THEN {} ELSE {now.zone}
    <3>1. /\ v7' = [z \in Icaddy!Zone |-> IF z \in running \cap v2 THEN now.sec ELSE v7[z]]
          /\ v11' = [z \in DOMAIN v11 \ running |-> v11[z]]
      BY <1>4, <2>3 DEF Icaddy!request_cb_status
    <3>2. now.sec \in Nat
      <4>1. v5 # <<>> /\ Head(v5) # <<"asked">> BY <1>4 DEF Icaddy!request_cb_status
      <4>2. PICK s \in Icaddy!Shows : v5 = <<<<"answer", s>>>> BY <4>1
      <4>3. now = s BY <4>2
      <4> QED BY <4>3, <1>0 DEF Icaddy!Shows
    <3> HIDE DEF now, running
    <3> QED BY <2>1, <3>1, <3>2
  <2> QED BY <2>2, <2>3
<1>5. CASE Icaddy!request_cb_settings BY <1>5 DEF Icaddy!request_cb_settings
<1>6. CASE Icaddy!coll_chg_cb
  <2>0. UNCHANGED <<v1, v5, v6>> BY <1>6 DEF Icaddy!coll_chg_cb
  <2>1. ASSUME NEW z \in v1, NEW t \in Icaddy!Times, Icaddy!coll_chg_timer_cb(z, t),
               UNCHANGED <<v12, v13>>
        PROVE  CaddyInv'
    <3>1. /\ v9' = TRUE /\ v7' = [v7 EXCEPT ![z] = t]
          /\ v11' = Icaddy!Merge([y \in {z} |-> t], v11)
      BY <2>1 DEF Icaddy!coll_chg_timer_cb
    <3>2. /\ DOMAIN v11' = {z} \cup DOMAIN v11
          /\ \A y \in DOMAIN v11' : v11'[y] = IF y = z THEN t ELSE v11[y]
      BY <3>1 DEF Icaddy!Merge
    <3>3. \A y \in Icaddy!Zone : v7'[y] = IF y = z THEN t ELSE v7[y] BY <3>1
    <3>4. z \in Icaddy!Zone /\ t \in Nat BY <1>0, <2>1 DEF Icaddy!Times
    <3> QED BY <2>0, <2>1, <3>1, <3>2, <3>3, <3>4
  <2>2. ASSUME NEW S, v12' = v12 \cup S, \A p \in S : Request(p),
               UNCHANGED <<v7, v9, v10, v11, v13>>
        PROVE  CaddyInv'
    BY <2>0, <2>2
  <2>3. /\ \A n \in {<<"pr", 0>>, <<"pr", 1>>, <<"zr", 0>>} :
             \A p \in Icaddy!coll_chg_number_cb(n[1], n[2]) : Request(p)
        /\ \A p \in Icaddy!coll_chg_number_cb("pr", 4) : Request(p)
        /\ \A s \in BOOLEAN : \A p \in Icaddy!coll_chg_switch_cb(s) : Request(p)
    <3>1. \A p \in Icaddy!coll_chg_number_cb("pr", 0) : Request(p)
      BY DEF Request, Icaddy!coll_chg_number_cb
    <3>2. \A p \in Icaddy!coll_chg_number_cb("pr", 1) : Request(p)
      BY DEF Request, Icaddy!coll_chg_number_cb
    <3>3. \A p \in Icaddy!coll_chg_number_cb("zr", 0) : Request(p)
      BY DEF Request, Icaddy!coll_chg_number_cb
    <3>4. \A p \in Icaddy!coll_chg_number_cb("pr", 4) : Request(p)
      BY DEF Request, Icaddy!coll_chg_number_cb
    <3>5. \A s \in BOOLEAN : \A p \in Icaddy!coll_chg_switch_cb(s) : Request(p)
      BY DEF Request, Icaddy!coll_chg_switch_cb
    <3> QED BY <3>1, <3>2, <3>3, <3>4, <3>5
  <2>4. ASSUME v13' = [sent |-> Icaddy!Timed, set |-> v11], v9' = FALSE, v11' = Icaddy!NoneSet,
               UNCHANGED v7, \A p \in v12' : Request(p)
        PROVE  CaddyInv'
    <3> DEFINE timed == {z \in Icaddy!Zone : v7[z] > 0}
    <3>1. DOMAIN v13'.sent = timed /\ \A z \in timed : v13'.sent[z] = Icaddy!Minutes(v7[z])
      BY <2>4 DEF Icaddy!Timed
    <3>2. \A z \in DOMAIN v11 : z \in Icaddy!Zone /\ v11[z] = v7[z] /\ v7[z] \in Nat OBVIOUS
    <3>3. v13'.set = v11 BY <2>4
    <3>4. ASSUME NEW z \in DOMAIN v13'.set, v13'.set[z] = 0 PROVE z \notin DOMAIN v13'.sent
      BY <3>1, <3>2, <3>3, <3>4
    <3>5. ASSUME NEW z \in DOMAIN v13'.set, v13'.set[z] # 0
          PROVE  /\ z \in DOMAIN v13'.sent
                 /\ \E m \in {v13'.sent[z]} :
                      /\ m >= 1 /\ v13'.set[z] < (m + 1) * PerMinute
                      /\ m = 1 \/ m * PerMinute <= v13'.set[z]
      BY <3>1, <3>2, <3>3, <3>5, WholeMinutes
    <3>6. Icaddy!RunsAsSet' BY <3>4, <3>5
    <3> QED BY <2>0, <2>4, <3>6
  <2>5. ASSUME NEW z \in v1, NEW t \in Icaddy!Times, Icaddy!coll_chg_timer_cb(z, t),
               UNCHANGED <<v12, v13>>
        PROVE  CaddyInv'
    BY <2>1, <2>5
  <2>6. ASSUME NEW s \in BOOLEAN, v12' = v12 \cup Icaddy!coll_chg_switch_cb(s),
               UNCHANGED <<v7, v9, v10, v11, v13>>
        PROVE  CaddyInv'
    BY <2>2, <2>3, <2>6
  <2>7. ASSUME NEW n \in {<<"pr", 0>>, <<"pr", 1>>, <<"zr", 0>>},
               v12' = v12 \cup Icaddy!coll_chg_number_cb(n[1], n[2]),
               UNCHANGED <<v7, v9, v10, v11, v13>>
        PROVE  CaddyInv'
    BY <2>2, <2>3, <2>7
  <2>8. ASSUME v12' = v12 \cup Icaddy!coll_chg_number_cb("pr", 4), UNCHANGED v7,
               IF Icaddy!AllFound
                 THEN /\ v13' = [sent |-> Icaddy!Timed, set |-> v11]
                      /\ v10' = 0 /\ v9' = FALSE /\ v11' = Icaddy!NoneSet
                 ELSE UNCHANGED <<v9, v10, v11, v13>>
        PROVE  CaddyInv'
    <3>1. \A p \in v12' : Request(p) BY <2>3, <2>8
    <3>2. CASE Icaddy!AllFound BY <2>4, <2>8, <3>1, <3>2
    <3>3. CASE ~Icaddy!AllFound BY <2>2, <2>3, <2>8, <3>3
    <3> QED BY <3>2, <3>3
  <2> HIDE DEF CaddyInv
  <2> QED BY <1>6, <2>5, <2>6, <2>7, <2>8 DEF Icaddy!coll_chg_cb
<1>7. CASE Icaddy!cb_timerdev_update BY <1>7 DEF Icaddy!cb_timerdev_update
<1>8. ASSUME NEW p \in v12, Icaddy!Taken(p) PROVE CaddyInv'
  <2>1. v12' = v12 \ {p} /\ UNCHANGED <<v1, v5, v7, v9, v11>> /\ v13' \in {v13, Icaddy!Nothing}
    BY <1>8 DEF Icaddy!Taken
  <2>2. v6' \in Icaddy!Shows
    <3> DEFINE halted(s) == [s EXCEPT !.prog = 0, !.zone = 0, !.sec = 0]
    <3>1. v6 \in Icaddy!Shows /\ Request(p) BY <1>8
    <3> HIDE DEF CaddyInv
    <3>2. CASE p[1] = "start"
      <4>1. p[2] \in {1, 4} /\ 1 \in 0 .. IcZones BY <3>1, <3>2 DEF Request, Icaddy!IcaddyAssumption
      <4>2. v6' \in {v6, [v6 EXCEPT !.prog = p[2], !.zone = 1, !.sec = 1]}
        BY <1>8, <3>2 DEF Icaddy!Taken
      <4> QED BY <1>0, <3>1, <4>1, <4>2 DEF Icaddy!Shows
    <3>3. CASE p[1] # "start"
      <4>1. v6' \in {v6, [v6 EXCEPT !.run = TRUE], halted(v6), halted([v6 EXCEPT !.run = FALSE])}
        BY <1>8, <3>1, <3>3 DEF Icaddy!Taken, Request
      <4>2. halted(v6) \in Icaddy!Shows BY <3>1, CaddyHalts
      <4>3. [v6 EXCEPT !.run = TRUE] \in Icaddy!Shows BY <3>1 DEF Icaddy!Shows
      <4>4. [v6 EXCEPT !.run = FALSE] \in Icaddy!Shows BY <3>1 DEF Icaddy!Shows
      <4>5. halted([v6 EXCEPT !.run = FALSE]) \in Icaddy!Shows BY <4>4, CaddyHalts
      <4> QED BY <3>1, <4>1, <4>2, <4>3, <4>5
    <3> QED BY <3>2, <3>3
  <2>3. Icaddy!RunsAsSet' BY <2>1 DEF Icaddy!Nothing
  <2> QED BY <2>1, <2>2, <2>3
<1>9. CASE Icaddy!GoesOn
  <2>1. UNCHANGED <<v1, v5, v7, v9, v11, v12, v13>> BY <1>9 DEF Icaddy!GoesOn
  <2>2. v6' \in Icaddy!Shows
    <3>1. v6 \in Icaddy!Shows OBVIOUS
    <3> HIDE DEF CaddyInv
    <3>2. CASE v6.zone < v6.zones
      <4>1. v6' = [v6 EXCEPT !.zone = v6.zone + 1] BY <1>9, <3>2 DEF Icaddy!GoesOn
      <4>2. v6.zone + 1 \in 0 .. IcZones BY <1>0, <3>1, <3>2 DEF Icaddy!Shows, Icaddy!Zone
      <4> QED BY <3>1, <4>1, <4>2 DEF Icaddy!Shows
    <3>3. CASE ~(v6.zone < v6.zones)
      <4>1. v6' = [v6 EXCEPT !.prog = 0, !.zone = 0, !.sec = 0] BY <1>9, <3>3 DEF Icaddy!GoesOn
      <4> QED BY <3>1, <4>1, CaddyHalts
    <3> QED BY <3>2, <3>3
  <2> QED BY <2>1, <2>2
<1> QED BY <1>1, <1>2, <1>3, <1>4, <1>5, <1>6, <1>7, <1>8, <1>9 DEF Icaddy!Next
-----------------------------------------------------------------------------
(* balboacoll: messages of the spa (wire, v2, and buf, v3), messages to it *)
(* (out, v5), what it does (spa, v6) and has (panel, v7), and what the     *)
(* collector heard of that (cfgdone, v8, spacfg, v9, devices_ready, v10,   *)
(* data, v12).                                                             *)

SpaStates == [p0 : 0 .. 2, p1 : 0 .. 2, tr : 0 .. 1, st : 0 .. 3, scale : 0 .. 1]
FromSpa == {<<"conf">>, <<"panel", v7>>} \cup ({"status"} \X SpaStates)
ToSpa == {<<"CONFIG_REQ">>, <<"PANEL_REQ">>} \cup ({"press"} \X Balboa!Buttons) \cup ({"set"} \X (0 .. 3))

\* The positions of a button.
Turns(b) == IF b \in Balboa!Pumps THEN 3 ELSE 2
\* The presses of the goal's button (goal, v14) that are still under way, one after the
\* other from the i-th message, will bring it to where it was to be.
GoalAhead ==
  \E n \in 0 .. 2, i \in 1 .. Len(v5) + 1 :
    /\ i + n <= Len(v5) + 1
    /\ \A k \in 1 .. Len(v5) : v5[k] = <<"press", v14.loc>> <=> k \in i .. i + n - 1
    /\ (v6[v14.loc] + n) % Turns(v14.loc) = v14.val

SpaTypes ==
  /\ v2 \in Seq(FromSpa) /\ v3 \in Seq(FromSpa) /\ v5 \in Seq(ToSpa)
  /\ v6 \in SpaStates /\ v7 \subseteq Balboa!Pumps
  /\ v9 \in [pumps : SUBSET Balboa!Pumps, tscale : 0 .. 1, trange : 0 .. 1]
  /\ v10 \in BOOLEAN
\* The pumps are known when the spa's answer has come, and the devices are made after it.
Heard ==
  /\ v9.pumps = IF "PANEL" \in v8 THEN v7 ELSE {}
  /\ Balboa!AsThePanelSays
Goal == v14 # Balboa!None => v14.loc \in Balboa!Buttons /\ GoalAhead
\* The copy of a pump's position is a number, though not always one that the pump has.
Copied == \A d \in DOMAIN v12 \cap Balboa!Pumps : v12[d] \in 0 .. 3
SpaInv == SpaTypes /\ Heard /\ Goal /\ Copied

LEMMA SpaInitI == Balboa!Init => SpaInv
<1> SUFFICES ASSUME Balboa!Init PROVE SpaInv OBVIOUS
<1> USE DEF Balboa!Init, Balboa!TSCALE_F, Balboa!TSCALE_C
<1>1. v2 = <<>> /\ v3 = <<>> /\ v5 = <<>> /\ v7 \subseteq Balboa!Pumps BY DEF Balboa!Pumps
<1>2. v6 \in SpaStates BY DEF SpaStates
<1>3. v9 \in [pumps : SUBSET Balboa!Pumps, tscale : 0 .. 1, trange : 0 .. 1] OBVIOUS
<1>4. SpaTypes BY <1>1, <1>2, <1>3, EmptySeq DEF SpaTypes
<1>5. Heard BY DEF Heard, Balboa!AsThePanelSays
<1>6. Goal BY DEF Goal
<1>7. Copied BY DEF Copied, Balboa!Nothing
<1> QED BY <1>4, <1>5, <1>6, <1>7 DEF SpaInv

\* What the collector makes of a message keeps what it has heard.
LEMMA SpaHears ==
  ASSUME SpaTypes, Heard, NEW m \in FromSpa, v7' = v7,
         CASE m[1] = "conf" -> Balboa!parse_config_resp
           [] m[1] = "panel" -> Balboa!parse_panel_config_resp(m[2])
           [] m[1] = "status" -> Balboa!parse_status_update(m[2])
  PROVE  /\ Heard' /\ v10' \in BOOLEAN
         /\ v9' \in [pumps : SUBSET Balboa!Pumps, tscale : 0 .. 1, trange : 0 .. 1]
<1> DEFINE Cfgs == [pumps : SUBSET Balboa!Pumps, tscale : 0 .. 1, trange : 0 .. 1]
<1> USE DEF Heard, Balboa!AsThePanelSays
<1>0. v9 \in Cfgs /\ v10 \in BOOLEAN /\ v7 \subseteq Balboa!Pumps BY DEF SpaTypes
<1>1. ASSUME UNCHANGED Balboa!device
      PROVE  Heard' /\ v10' \in BOOLEAN /\ v9' \in Cfgs
  BY <1>0, <1>1 DEF Balboa!device
<1>2. ASSUME NEW what \in {"CONF", "PANEL", "STATUS"}, ~v10, v8' = v8 \cup {what}, v9' \in Cfgs,
             v9'.pumps = IF what = "PANEL" THEN v7 ELSE v9.pumps,
             Balboa!init_balboa_devs(v8', v9')
      PROVE  Heard' /\ v10' \in BOOLEAN /\ v9' \in Cfgs
  <2>1. v9'.pumps = IF "PANEL" \in v8' THEN v7 ELSE {} BY <1>2
  <2>2. v10' \in BOOLEAN BY <1>2 DEF Balboa!init_balboa_devs
  <2>3. v10' => DOMAIN v12' = (Balboa!Devs \ Balboa!Pumps) \cup v7'
    <3> SUFFICES ASSUME v10' PROVE DOMAIN v12' = (Balboa!Devs \ Balboa!Pumps) \cup v7'
      OBVIOUS
    <3>1. "PANEL" \in v8' BY <1>2 DEF Balboa!init_balboa_devs
    <3>2. v12' = [d \in (Balboa!Devs \ Balboa!Pumps) \cup v9'.pumps |-> 0]
      BY <1>2 DEF Balboa!init_balboa_devs
    <3> QED BY <2>1, <3>1, <3>2
  <2> QED BY <1>2, <2>1, <2>2, <2>3
<1>3. CASE m[1] = "conf"
  BY <1>0, <1>1, <1>2, <1>3 DEF Balboa!parse_config_resp
<1>4. CASE m[1] = "panel"
  <2>1. m[2] = v7 BY <1>4 DEF FromSpa
  <2>2. CASE v10 BY <1>1, <1>4, <2>2 DEF Balboa!parse_panel_config_resp
  <2>3. CASE ~v10
    <3>1. /\ v8' = v8 \cup {"PANEL"}
          /\ v9' = [v9 EXCEPT !.pumps = @ \cup v7]
          /\ Balboa!init_balboa_devs(v8', v9')
      BY <1>4, <2>1, <2>3 DEF Balboa!parse_panel_config_resp
    <3>2. v9.pumps \cup v7 = v7 OBVIOUS
    <3>3. v9' \in Cfgs /\ v9'.pumps = v7 BY <1>0, <3>1, <3>2
    <3> QED BY <1>2, <2>3, <3>1, <3>3
  <2> QED BY <2>2, <2>3
<1>5. CASE m[1] = "status"
  <2>1. m[2] \in SpaStates BY <1>5 DEF FromSpa
  <2> DEFINE cfg == [v9 EXCEPT !.tscale = m[2].scale, !.trange = m[2].tr]
  <2>2. cfg \in Cfgs /\ cfg.pumps = v9.pumps BY <1>0, <2>1 DEF SpaStates
  <2>3. CASE ~v10
    <3>1. v8' = v8 \cup {"STATUS"} /\ v9' = cfg /\ Balboa!init_balboa_devs(v8', v9')
      BY <1>5, <2>3 DEF Balboa!parse_status_update
    <3> QED BY <1>2, <2>2, <2>3, <3>1
  <2>4. CASE v10 /\ v11 = <<m[2]>> BY <1>1, <1>5, <2>4 DEF Balboa!parse_status_update
  <2>5. CASE v10 /\ v11 # <<m[2]>>
    <3>1. /\ v9' = cfg /\ DOMAIN v12' = DOMAIN v12 /\ UNCHANGED <<v8, v10>>
      BY <1>5, <2>5 DEF Balboa!parse_status_update
    <3> QED BY <1>0, <2>2, <3>1
  <2> QED BY <1>0, <2>3, <2>4, <2>5
<1> QED BY <1>3, <1>4, <1>5 DEF FromSpa

\* What is sent besides presses changes nothing of what the presses will do.
LEMMA GoalLasts ==
  ASSUME SpaTypes, Goal, UNCHANGED <<v6, v14>>, v5' \in Seq(ToSpa), Len(v5') >= Len(v5),
         \A k \in 1 .. Len(v5) : v5'[k] = v5[k],
         \A k \in Len(v5) + 1 .. Len(v5') : v5'[k][1] # "press"
  PROVE  Goal'
<1> SUFFICES ASSUME v14 # Balboa!None PROVE v14.loc \in Balboa!Buttons /\ GoalAhead'
  BY DEF Goal, Balboa!None
<1>1. v14.loc \in Balboa!Buttons BY DEF Goal
<1>2. PICK n \in 0 .. 2, i \in 1 .. Len(v5) + 1 :
        /\ i + n <= Len(v5) + 1
        /\ \A k \in 1 .. Len(v5) : v5[k] = <<"press", v14.loc>> <=> k \in i .. i + n - 1
        /\ (v6[v14.loc] + n) % Turns(v14.loc) = v14.val
  BY DEF Goal, GoalAhead
<1>3. Len(v5) \in Nat /\ Len(v5') \in Nat BY LenProperties DEF SpaTypes
<1>4. ASSUME NEW k \in 1 .. Len(v5')
      PROVE  v5'[k] = <<"press", v14.loc>> <=> k \in i .. i + n - 1
  <2>1. CASE k <= Len(v5) BY <1>2, <1>3, <2>1
  <2>2. CASE k > Len(v5)
    <3>1. v5'[k][1] # "press" BY <1>3, <2>2
    <3>2. k \notin i .. i + n - 1 BY <1>2, <1>3, <2>2
    <3> QED BY <3>1, <3>2
  <2> QED BY <1>3, <2>1, <2>2
<1>5. i \in 1 .. Len(v5') + 1 /\ i + n <= Len(v5') + 1 BY <1>2, <1>3
<1>6. GoalAhead' BY <1>2, <1>4, <1>5 DEF GoalAhead, Turns
<1> QED BY <1>1, <1>6

\* As many presses as it takes bring a button from one position to another.
LEMMA PressesReach ==
  ASSUME NEW b, NEW from \in 0 .. Turns(b) - 1, NEW to \in 0 .. Turns(b) - 1
  PROVE  /\ Balboa!Presses(b, from, to) \in 0 .. 2
         /\ (from + Balboa!Presses(b, from, to)) % Turns(b) = to
<1> DEFINE n == Balboa!Presses(b, from, to)
<1> SUFFICES n \in 0 .. 2 /\ (from + n) % Turns(b) = to OBVIOUS
<1> HIDE DEF n
<1>1. CASE from = to
  <2>1. n = 0 BY <1>1 DEF n, Balboa!Presses
  <2>2. (from + 0) % Turns(b) = from
    <3>1. CASE b \in Balboa!Pumps
      <4>1. Turns(b) = 3 BY <3>1 DEF Turns
      <4> QED BY <4>1
    <3>2. CASE b \notin Balboa!Pumps
      <4>1. Turns(b) = 2 BY <3>2 DEF Turns
      <4> QED BY <4>1
    <3> QED BY <3>1, <3>2
  <2> QED BY <1>1, <2>1, <2>2
<1>2. CASE from # to /\ b \in Balboa!Pumps
  <2>1. Turns(b) = 3 BY <1>2 DEF Turns
  <2>2. \E i \in 0 .. 2 : to = (from + i) % 3
    <3>1. from \in {0, 1, 2} /\ to \in {0, 1, 2} BY <2>1
    <3>2. /\ (0 + 0) % 3 = 0 /\ (0 + 1) % 3 = 1 /\ (0 + 2) % 3 = 2
          /\ (1 + 0) % 3 = 1 /\ (1 + 1) % 3 = 2 /\ (1 + 2) % 3 = 0
          /\ (2 + 0) % 3 = 2 /\ (2 + 1) % 3 = 0 /\ (2 + 2) % 3 = 1
      OBVIOUS
    <3>3. 0 \in 0 .. 2 /\ 1 \in 0 .. 2 /\ 2 \in 0 .. 2 OBVIOUS
    <3> QED BY <3>1, <3>2, <3>3
  <2>3. n = CHOOSE i \in 0 .. 2 : to = (from + i) % 3 BY <1>2 DEF n, Balboa!Presses
  <2>4. n \in 0 .. 2 /\ to = (from + n) % 3 BY <2>2, <2>3
  <2> QED BY <2>1, <2>4
<1>3. CASE from # to /\ b \notin Balboa!Pumps
  <2>1. Turns(b) = 2 BY <1>3 DEF Turns
  <2>2. n = 1 BY <1>3 DEF n, Balboa!Presses
  <2> QED BY <1>3, <2>1, <2>2
<1> QED BY <1>1, <1>2, <1>3

\* Some presses of one button, put after what is on its way.
PressSeq(b, n) == [i \in 1 .. n |-> <<"press", b>>]
LEMMA GoalSent ==
  ASSUME NEW b \in Balboa!Buttons, NEW n \in 0 .. 2, NEW old \in Seq(ToSpa)
  PROVE  LET new == old \o PressSeq(b, n)
         IN /\ new \in Seq(ToSpa) /\ Len(new) = Len(old) + n /\ Len(old) \in Nat
            /\ \A k \in 1 .. Len(old) : new[k] = old[k]
            /\ \A k \in Len(old) + 1 .. Len(new) : new[k] = <<"press", b>>
<1> DEFINE new == old \o PressSeq(b, n)
           press == <<"press", b>>
           ps == [i \in 1 .. n |-> press]
<1>1. press \in ToSpa BY DEF ToSpa
<1> HIDE DEF press
<1>2. ps \in [1 .. n -> ToSpa] BY <1>1
<1>4. \A k \in 1 .. n : ps[k] = press OBVIOUS
<1>5. new = old \o ps BY DEF press, PressSeq
<1>n. n \in Nat OBVIOUS
<1> HIDE DEF ps
<1>3. ps \in Seq(ToSpa) /\ Len(ps) = n BY <1>2, <1>n
<1>6. /\ old \o ps \in Seq(ToSpa) /\ Len(old \o ps) = Len(old) + Len(ps)
      /\ \A k \in 1 .. Len(old) + Len(ps) :
           (old \o ps)[k] = IF k <= Len(old) THEN old[k] ELSE ps[k - Len(old)]
  BY <1>3, ConcatProperties
<1>7. Len(old) \in Nat BY LenProperties
<1>8. /\ new \in Seq(ToSpa) /\ Len(new) = Len(old) + n
      /\ \A k \in 1 .. Len(new) : new[k] = IF k <= Len(old) THEN old[k] ELSE ps[k - Len(old)]
  BY <1>3, <1>5, <1>6
<1>9. \A k \in 1 .. Len(old) : new[k] = old[k] BY <1>7, <1>8
<1>10. ASSUME NEW k \in Len(old) + 1 .. Len(new) PROVE new[k] = press
  <2>1. k - Len(old) \in 1 .. n /\ k \in 1 .. Len(new) /\ ~(k <= Len(old)) BY <1>7, <1>8
  <2> QED BY <1>4, <1>8, <2>1
<1> QED BY <1>7, <1>8, <1>9, <1>10 DEF press

\* A change that is asked for when the copy is right sends the presses it takes.
LEMMA GoalSet ==
  ASSUME v5 \in Seq(ToSpa), NEW b \in Balboa!Buttons, NEW s, NEW n \in 0 .. 2,
         (v6[b] + n) % Turns(b) = s, v6' = v6, v14' = [loc |-> b, val |-> s],
         \A k \in 1 .. Len(v5) : v5[k] # <<"press", b>>,
         v5' \in Seq(ToSpa), Len(v5') = Len(v5) + n,
         \A k \in 1 .. Len(v5) : v5'[k] = v5[k],
         \A k \in Len(v5) + 1 .. Len(v5') : v5'[k] = <<"press", b>>
  PROVE  Goal'
<1>1. Len(v5) \in Nat BY LenProperties
<1>2. ASSUME NEW k \in 1 .. Len(v5')
      PROVE  v5'[k] = <<"press", b>> <=> k \in Len(v5) + 1 .. Len(v5) + 1 + n - 1
  <2>1. CASE k <= Len(v5)
    <3>1. k \in 1 .. Len(v5) /\ k \notin Len(v5) + 1 .. Len(v5) + 1 + n - 1 BY <1>1, <2>1
    <3> QED BY <3>1
  <2>2. CASE k > Len(v5)
    <3>1. /\ k \in Len(v5) + 1 .. Len(v5') /\ k \in Len(v5) + 1 .. Len(v5) + 1 + n - 1
      BY <1>1, <2>2
    <3> QED BY <3>1
  <2> QED BY <1>1, <2>1, <2>2
<1>3. v14'.loc = b /\ v14'.val = s OBVIOUS
<1>4. Len(v5) + 1 \in 1 .. Len(v5') + 1 /\ Len(v5) + 1 + n <= Len(v5') + 1 BY <1>1
<1>5. \E m \in 0 .. 2, i \in 1 .. Len(v5') + 1 :
         /\ i + m <= Len(v5') + 1
         /\ \A k \in 1 .. Len(v5') : v5'[k] = <<"press", b>> <=> k \in i .. i + m - 1
         /\ (v6[b] + m) % Turns(b) = s
  BY <1>2, <1>4
<1>6. GoalAhead' BY <1>3, <1>5 DEF GoalAhead, Turns
<1> QED BY <1>3, <1>6 DEF Goal

\* From any copy of a position, right or wrong, there is a number of presses.
LEMMA PressesType ==
  ASSUME NEW b, NEW from \in 0 .. 3, NEW to \in 0 .. 2
  PROVE  Balboa!Presses(b, from, to) \in 0 .. 2
<1>1. CASE from # to /\ b \in Balboa!Pumps
  <2>1. \E i \in 0 .. 2 : to = (from + i) % 3
    <3>1. CASE from = 3
      <4>1. (3 + to) % 3 = to
        <5>1. to \in {0, 1, 2} OBVIOUS
        <5>2. (3 + 0) % 3 = 0 /\ (3 + 1) % 3 = 1 /\ (3 + 2) % 3 = 2 OBVIOUS
        <5> QED BY <5>1, <5>2
      <4> QED BY <3>1, <4>1
    <3>2. CASE from # 3
      <4>1. Turns(b) = 3 BY <1>1 DEF Turns
      <4>2. /\ from \in 0 .. Turns(b) - 1 /\ to \in 0 .. Turns(b) - 1 BY <3>2, <4>1
      <4>3. /\ Balboa!Presses(b, from, to) \in 0 .. 2
            /\ (from + Balboa!Presses(b, from, to)) % 3 = to
        BY <4>1, <4>2, PressesReach
      <4> QED BY <4>3
    <3> QED BY <3>1, <3>2
  <2>2. Balboa!Presses(b, from, to) = CHOOSE i \in 0 .. 2 : to = (from + i) % 3
    BY <1>1 DEF Balboa!Presses
  <2> QED BY <2>1, <2>2
<1>2. CASE ~(from # to /\ b \in Balboa!Pumps) BY <1>2 DEF Balboa!Presses
<1> QED BY <1>1, <1>2

\* A message keeps the copy within a pump's two bits.
LEMMA SpaCopies ==
  ASSUME SpaTypes, Copied, NEW m \in FromSpa,
         CASE m[1] = "conf" -> Balboa!parse_config_resp
           [] m[1] = "panel" -> Balboa!parse_panel_config_resp(m[2])
           [] m[1] = "status" -> Balboa!parse_status_update(m[2])
  PROVE  Copied'
<1>1. ASSUME UNCHANGED Balboa!device PROVE Copied'
  BY <1>1 DEF Balboa!device, Copied
<1>2. ASSUME NEW done, NEW cfg, Balboa!init_balboa_devs(done, cfg) PROVE Copied'
  <2>1. v12' = v12 \/ v12' = [d \in (Balboa!Devs \ Balboa!Pumps) \cup cfg.pumps |-> 0]
    BY <1>2 DEF Balboa!init_balboa_devs
  <2> QED BY <2>1 DEF Copied
<1>3. CASE m[1] = "conf" BY <1>1, <1>2, <1>3 DEF Balboa!parse_config_resp
<1>4. CASE m[1] = "panel" BY <1>1, <1>2, <1>4 DEF Balboa!parse_panel_config_resp
<1>5. CASE m[1] = "status"
  <2>1. m[2] \in SpaStates BY <1>5 DEF FromSpa
  <2>2. CASE ~v10 \/ v11 = <<m[2]>> BY <1>1, <1>2, <1>5, <2>2 DEF Balboa!parse_status_update
  <2>3. CASE v10 /\ v11 # <<m[2]>>
    <3>1. v12' = [d \in DOMAIN v12 |-> Balboa!Bits(m[2], d)]
      BY <1>5, <2>3 DEF Balboa!parse_status_update
    <3>2. ASSUME NEW d \in Balboa!Pumps PROVE Balboa!Bits(m[2], d) \in 0 .. 3
      <4>1. m[2].p0 \in 0 .. 2 /\ m[2].p1 \in 0 .. 2 BY <2>1 DEF SpaStates
      <4> QED BY <3>2, <4>1 DEF Balboa!Bits, Balboa!Pumps
    <3> QED BY <3>1, <3>2 DEF Copied
  <2> QED BY <2>1, <2>2, <2>3 DEF SpaTypes
<1> QED BY <1>3, <1>4, <1>5 DEF FromSpa

\* A press is one press nearer to the goal, and what is no press of its button leaves
\* it where it was.
LEMMA GoalNearer ==
  ASSUME SpaTypes, Goal, v5 # <<>>, v5' = Tail(v5), v14' = v14,
         IF v5[1] = <<"press", v14.loc>>
         THEN v6'[v14.loc] = (v6[v14.loc] + 1) % Turns(v14.loc)
         ELSE v6'[v14.loc] = v6[v14.loc]
  PROVE  Goal'
<1> SUFFICES ASSUME v14 # Balboa!None PROVE v14.loc \in Balboa!Buttons /\ GoalAhead'
  BY DEF Goal, Balboa!None
<1> DEFINE b == v14.loc
<1>1. b \in Balboa!Buttons BY DEF Goal
<1>2. PICK n \in 0 .. 2, i \in 1 .. Len(v5) + 1 :
        /\ i + n <= Len(v5) + 1
        /\ \A k \in 1 .. Len(v5) : v5[k] = <<"press", b>> <=> k \in i .. i + n - 1
        /\ (v6[b] + n) % Turns(b) = v14.val
  BY DEF Goal, GoalAhead
<1>3. /\ Len(v5) \in Nat /\ Len(v5) >= 1 /\ Len(v5') = Len(v5) - 1
      /\ \A k \in 1 .. Len(v5') : v5'[k] = v5[k + 1]
  BY HeadTailProperties, EmptySeq, LenProperties DEF SpaTypes
<1>4. v6[b] \in 0 .. Turns(b) - 1 /\ Turns(b) \in {2, 3}
  BY <1>1 DEF SpaTypes, SpaStates, Turns, Balboa!Buttons, Balboa!Pumps
<1>5. CASE v5[1] = <<"press", b>>
  <2>1. i = 1 /\ n \in 1 .. 2 BY <1>2, <1>3, <1>5
  <2>2. (v6'[b] + (n - 1)) % Turns(b) = v14.val
    <3>1. v6'[b] = (v6[b] + 1) % Turns(b) BY <1>5
    <3>2. CASE Turns(b) = 2 BY <1>2, <1>4, <2>1, <3>1, <3>2
    <3>3. CASE Turns(b) = 3 BY <1>2, <1>4, <2>1, <3>1, <3>3
    <3> QED BY <1>4, <3>2, <3>3
  <2>3. \A k \in 1 .. Len(v5') : v5'[k] = <<"press", b>> <=> k \in 1 .. 1 + (n - 1) - 1
    BY <1>2, <1>3, <2>1
  <2>4. n - 1 \in 0 .. 2 /\ 1 \in 1 .. Len(v5') + 1 /\ 1 + (n - 1) <= Len(v5') + 1
    BY <1>2, <1>3, <2>1
  <2>5. GoalAhead' BY <2>2, <2>3, <2>4 DEF GoalAhead, Turns
  <2> QED BY <1>1, <2>5
<1>6. CASE v5[1] # <<"press", b>>
  <2>1. v6'[b] = v6[b] BY <1>6
  <2>2. CASE n = 0
    <3>1. \A k \in 1 .. Len(v5') : v5'[k] = <<"press", b>> <=> k \in 1 .. 1 + 0 - 1
      BY <1>2, <1>3, <2>2
    <3>2. 1 \in 1 .. Len(v5') + 1 /\ 1 + 0 <= Len(v5') + 1 BY <1>3
    <3>3. (v6'[b] + 0) % Turns(b) = v14.val BY <1>2, <2>1, <2>2
    <3>4. 0 \in 0 .. 2 OBVIOUS
    <3>5. GoalAhead' BY <3>1, <3>2, <3>3, <3>4 DEF GoalAhead, Turns
    <3> QED BY <1>1, <3>5
  <2>3. CASE n # 0
    <3>1. i >= 2 BY <1>2, <1>3, <1>6, <2>3
    <3>2. \A k \in 1 .. Len(v5') :
            v5'[k] = <<"press", b>> <=> k \in (i - 1) .. (i - 1) + n - 1
      BY <1>2, <1>3, <3>1
    <3>3. i - 1 \in 1 .. Len(v5') + 1 /\ (i - 1) + n <= Len(v5') + 1 BY <1>2, <1>3, <3>1
    <3>4. (v6'[b] + n) % Turns(b) = v14.val BY <1>2, <2>1
    <3>5. GoalAhead' BY <1>2, <3>2, <3>3, <3>4 DEF GoalAhead, Turns
    <3> QED BY <1>1, <3>5
  <2> QED BY <2>2, <2>3
<1> QED BY <1>5, <1>6

LEMMA SpaStepI == SpaInv /\ Balboa!Next => SpaInv'
<1> SUFFICES ASSUME SpaInv, Balboa!Next PROVE SpaInv' OBVIOUS
<1>0. SpaTypes /\ Heard /\ Goal /\ Copied BY DEF SpaInv
<1> USE DEF Balboa!counts
<1> DEFINE Keeps == UNCHANGED <<v7, v8, v9, v10, v11, v12, v13>>
<1>1. ASSUME Keeps PROVE Heard' /\ Copied' /\ FromSpa' = FromSpa
  BY <1>0, <1>1 DEF Heard, Copied, FromSpa, Balboa!AsThePanelSays
<1>2. ASSUME UNCHANGED <<v5, v6, v14>> PROVE Goal'
  BY <1>0, <1>2 DEF Goal, GoalAhead, Turns
<1>3. ASSUME v14' = Balboa!None PROVE Goal' BY <1>3 DEF Goal
<1> DEFINE Typed == v2' \in Seq(FromSpa) /\ v3' \in Seq(FromSpa) /\ v5' \in Seq(ToSpa) /\ v6' \in SpaStates
<1>4. ASSUME Keeps, Typed PROVE SpaTypes'
  BY <1>0, <1>1, <1>4 DEF SpaTypes
<1>5. <<"CONFIG_REQ">> \in ToSpa /\ <<"PANEL_REQ">> \in ToSpa BY DEF ToSpa
<1>6. ASSUME NEW m \in ToSpa, m[1] # "press", v5' = Append(v5, m), UNCHANGED <<v6, v14>>
      PROVE  v5' \in Seq(ToSpa) /\ Goal'
  <2>1. /\ v5' \in Seq(ToSpa) /\ Len(v5') = Len(v5) + 1 /\ v5'[Len(v5) + 1] = m
        /\ \A k \in 1 .. Len(v5) : v5'[k] = v5[k]
    BY <1>0, <1>6, AppendProperties DEF SpaTypes
  <2>2. Len(v5) \in Nat BY <1>0, LenProperties DEF SpaTypes
  <2>3. \A k \in Len(v5) + 1 .. Len(v5') : v5'[k][1] # "press" BY <1>6, <2>1, <2>2
  <2>4. Goal' BY <1>0, <1>6, <2>1, <2>2, <2>3, GoalLasts
  <2> QED BY <2>1, <2>4
<1>7. ASSUME NEW n \in 1 .. MaxWire.balboa, Balboa!balboa_buf_read_cb(n) PROVE SpaInv'
  <2>1. /\ n \in 1 .. Len(v2) /\ v2' = SubSeq(v2, n + 1, Len(v2))
        /\ UNCHANGED <<v6, v7, v14>>
    BY <1>7 DEF Balboa!balboa_buf_read_cb
  <2>2. v2' \in Seq(FromSpa) /\ FromSpa' = FromSpa
    <3>1. v2 \in Seq(FromSpa) /\ Len(v2) \in Nat BY <1>0, LenProperties DEF SpaTypes
    <3> QED BY <2>1, <3>1, SubSeqProperties DEF FromSpa
  <2>3. CASE v4
    <3>1. UNCHANGED <<v3, v5>> /\ Keeps
      BY <1>7, <2>1, <2>3 DEF Balboa!balboa_buf_read_cb, Balboa!device
    <3> QED BY <1>0, <1>1, <1>2, <1>4, <2>1, <2>2, <3>1 DEF SpaInv, SpaTypes
  <2>4. CASE ~v4
    <3> DEFINE all == v3 \o SubSeq(v2, 1, n)
    <3>1. all \in Seq(FromSpa) /\ all # <<>>
      <4>1. v2 \in Seq(FromSpa) /\ v3 \in Seq(FromSpa) /\ Len(v2) \in Nat /\ Len(v3) \in Nat
        BY <1>0, LenProperties DEF SpaTypes
      <4>2. SubSeq(v2, 1, n) \in Seq(FromSpa) /\ Len(SubSeq(v2, 1, n)) = n
        BY <2>1, <4>1, SubSeqProperties
      <4>3. all \in Seq(FromSpa) /\ Len(all) = Len(v3) + n BY <4>1, <4>2, ConcatProperties
      <4>4. Len(all) # 0 BY <2>1, <4>1, <4>3
      <4> HIDE DEF all
      <4>5. Len(<<>>) = 0 BY EmptySeq
      <4> QED BY <4>3, <4>4, <4>5
    <3> DEFINE m == Head(all)
    <3>2. m \in FromSpa /\ Tail(all) \in Seq(FromSpa) BY <3>1, HeadTailProperties
    <3>3. /\ v3' = Tail(all)
          /\ CASE m[1] = "conf" -> Balboa!parse_config_resp
               [] m[1] = "panel" -> Balboa!parse_panel_config_resp(m[2])
               [] m[1] = "status" -> Balboa!parse_status_update(m[2])
          /\ v5' = v5 \/ v5' = Append(v5, <<"CONFIG_REQ">>)
      BY <1>7, <2>4 DEF Balboa!balboa_buf_read_cb
    <3> HIDE DEF m
    <3>4. Heard' /\ v10' \in BOOLEAN /\ Copied'
          /\ v9' \in [pumps : SUBSET Balboa!Pumps, tscale : 0 .. 1, trange : 0 .. 1]
      BY <1>0, <2>1, <3>2, <3>3, SpaHears, SpaCopies
    <3>5. v5' \in Seq(ToSpa) /\ Goal'
      <4>1. CASE v5' = v5 BY <1>0, <1>2, <2>1, <4>1 DEF SpaTypes
      <4>2. CASE v5' = Append(v5, <<"CONFIG_REQ">>)
        <5>1. <<"CONFIG_REQ">>[1] # "press" OBVIOUS
        <5> QED BY <1>5, <1>6, <2>1, <4>2, <5>1
      <4> QED BY <3>3, <4>1, <4>2
    <3>6. SpaTypes' BY <1>0, <2>1, <2>2, <3>2, <3>3, <3>4, <3>5 DEF SpaTypes
    <3> QED BY <3>4, <3>5, <3>6 DEF SpaInv
  <2> QED BY <2>3, <2>4
<1>8. CASE Balboa!Cut
  <2>1. Keeps /\ UNCHANGED <<v3, v5, v6, v14>> /\ v2 # <<>> /\ v2' = Tail(v2)
    BY <1>8 DEF Balboa!Cut, Balboa!device
  <2>2. v2' \in Seq(FromSpa) BY <1>0, <2>1, HeadTailProperties DEF SpaTypes
  <2>3. Typed BY <1>0, <2>1, <2>2 DEF SpaTypes
  <2> QED BY <1>1, <1>2, <1>4, <2>1, <2>3 DEF SpaInv
<1>9. CASE Balboa!coll_chg_cb
  <2>1. Keeps /\ UNCHANGED <<v2, v3, v6>> BY <1>9 DEF Balboa!coll_chg_cb, Balboa!device
  <2>2. v5' \in Seq(ToSpa) /\ Goal'
    <3>1. ASSUME NEW b \in DOMAIN v12 \cap Balboa!Buttons, NEW s \in Balboa!Positions(b),
                 v5' = v5 \o Balboa!coll_chg_switch_cb(b, s),
                 v14' = IF v12[b] = v6[b] /\ ~Balboa!Contains(v5, <<"press", b>>)
                        THEN [loc |-> b, val |-> s] ELSE Balboa!None
          PROVE  v5' \in Seq(ToSpa) /\ Goal'
      <4> DEFINE n == Balboa!Presses(b, v12[b], s)
      <4>1. v5' = v5 \o PressSeq(b, n) BY <3>1 DEF Balboa!coll_chg_switch_cb, PressSeq
      <4>2. n \in 0 .. 2
        <5>1. CASE b \in Balboa!Pumps
          <6>1. v12[b] \in 0 .. 3 /\ s \in 0 .. 2 BY <1>0, <5>1 DEF Copied, Balboa!Positions
          <6> QED BY <6>1, PressesType
        <5>2. CASE b \notin Balboa!Pumps BY <5>2 DEF Balboa!Presses
        <5> QED BY <5>1, <5>2
      <4>3. CASE v12[b] = v6[b] /\ ~Balboa!Contains(v5, <<"press", b>>)
        <5>1. v14' = [loc |-> b, val |-> s] BY <3>1, <4>3
        <5>2. (v6[b] + n) % Turns(b) = s
          <6>1. v6[b] \in 0 .. Turns(b) - 1 /\ s \in 0 .. Turns(b) - 1
            BY <1>0 DEF SpaTypes, SpaStates, Turns, Balboa!Positions, Balboa!Buttons, Balboa!Pumps
          <6> QED BY <4>3, <6>1, PressesReach
        <5>4. v5 \in Seq(ToSpa) BY <1>0 DEF SpaTypes
        <5>3. \A k \in 1 .. Len(v5) : v5[k] # <<"press", b>>
          BY <4>3, <5>4, LenProperties DEF Balboa!Contains
        <5> HIDE DEF n
        <5> DEFINE new == v5 \o PressSeq(b, n)
        <5>7. /\ new \in Seq(ToSpa) /\ Len(new) = Len(v5) + n
              /\ \A k \in 1 .. Len(v5) : new[k] = v5[k]
              /\ \A k \in Len(v5) + 1 .. Len(new) : new[k] = <<"press", b>>
          BY <4>2, <5>4, GoalSent
        <5>8. v5' = new BY <4>1
        <5> HIDE DEF new
        <5>5. /\ v5' \in Seq(ToSpa) /\ Len(v5') = Len(v5) + n
              /\ \A k \in 1 .. Len(v5) : v5'[k] = v5[k]
              /\ \A k \in Len(v5) + 1 .. Len(v5') : v5'[k] = <<"press", b>>
          BY <5>7, <5>8
        <5>6. v6' = v6 BY <2>1
        <5> QED BY <4>2, <5>1, <5>2, <5>3, <5>4, <5>5, <5>6, GoalSet
      <4>4. CASE ~(v12[b] = v6[b] /\ ~Balboa!Contains(v5, <<"press", b>>))
        <5>1. Goal' BY <1>3, <3>1, <4>4
        <5> HIDE DEF n
        <5>2. v5 \in Seq(ToSpa) BY <1>0 DEF SpaTypes
        <5>3. v5 \o PressSeq(b, n) \in Seq(ToSpa) BY <4>2, <5>2, GoalSent
        <5> QED BY <4>1, <5>1, <5>3
      <4> QED BY <4>3, <4>4
    <3>2. ASSUME NEW t \in Balboa!Temps, v5' = v5 \o Balboa!coll_chg_temp_cb(t),
                 v14' = Balboa!None
          PROVE  v5' \in Seq(ToSpa) /\ Goal'
      <4> DEFINE u == IF v9.tscale = Balboa!TSCALE_C THEN 2 * (t \div 2) ELSE t
      <4>1. Balboa!coll_chg_temp_cb(t) \in {<<>>, <<<<"set", u>>>>} BY DEF Balboa!coll_chg_temp_cb
      <4>2. u \in 0 .. 3 BY DEF Balboa!Temps
      <4>3. <<"set", u>> \in ToSpa BY <4>2 DEF ToSpa
      <4> HIDE DEF u
      <4>4. <<<<"set", u>>>> \in Seq(ToSpa) BY <4>3
      <4>5. <<>> \in Seq(ToSpa) BY EmptySeq
      <4>6. Balboa!coll_chg_temp_cb(t) \in Seq(ToSpa) BY <4>1, <4>4, <4>5
      <4> QED BY <1>0, <1>3, <3>2, <4>6, ConcatProperties DEF SpaTypes
    <3> QED BY <1>9, <3>1, <3>2 DEF Balboa!coll_chg_cb
  <2> QED BY <1>0, <1>1, <1>4, <2>1, <2>2 DEF SpaInv, SpaTypes
<1>10. CASE Balboa!send_config_req
  <2>1. Keeps /\ UNCHANGED <<v2, v3, v6, v14>> /\ v5' = Append(v5, <<"CONFIG_REQ">>)
    BY <1>10 DEF Balboa!send_config_req, Balboa!device
  <2>2. <<"CONFIG_REQ">>[1] # "press" OBVIOUS
  <2>3. v5' \in Seq(ToSpa) /\ Goal' BY <1>5, <1>6, <2>1, <2>2
  <2> QED BY <1>0, <1>1, <1>4, <2>1, <2>3 DEF SpaInv, SpaTypes
<1>11. CASE Balboa!Connected
  <2> DEFINE two == <<<<"CONFIG_REQ">>, <<"PANEL_REQ">>>>
  <2>1. Keeps /\ UNCHANGED <<v2, v3, v6, v14>> /\ v5' = v5 \o two
    BY <1>11 DEF Balboa!Connected, Balboa!device
  <2>2. two \in Seq(ToSpa) /\ Len(two) = 2 BY <1>5
  <2>3. \A k \in 1 .. 2 : two[k][1] # "press" OBVIOUS
  <2> HIDE DEF two
  <2>7. v5 \in Seq(ToSpa) /\ Len(v5) \in Nat BY <1>0, LenProperties DEF SpaTypes
  <2>4. /\ v5' \in Seq(ToSpa) /\ Len(v5') = Len(v5) + 2 /\ Len(v5) \in Nat
        /\ \A k \in 1 .. Len(v5') : v5'[k] = IF k <= Len(v5) THEN v5[k] ELSE two[k - Len(v5)]
    <3> HIDE DEF SpaInv
    <3>1. v5' = v5 \o two BY <2>1
    <3>2. /\ v5 \o two \in Seq(ToSpa) /\ Len(v5 \o two) = Len(v5) + Len(two)
          /\ \A k \in 1 .. Len(v5) + Len(two) :
               (v5 \o two)[k] = IF k <= Len(v5) THEN v5[k] ELSE two[k - Len(v5)]
      BY <2>2, <2>7, ConcatProperties
    <3> QED BY <2>2, <2>7, <3>1, <3>2
  <2>5. /\ \A k \in 1 .. Len(v5) : v5'[k] = v5[k]
        /\ \A k \in Len(v5) + 1 .. Len(v5') : v5'[k][1] # "press"
    BY <2>3, <2>4
  <2>6. Goal' BY <1>0, <2>1, <2>4, <2>5, GoalLasts
  <2> QED BY <1>0, <1>1, <1>4, <2>1, <2>4, <2>6 DEF SpaInv, SpaTypes
<1>12. CASE Balboa!connect_server_cb
  <2>1. Keeps /\ v2' = <<>> /\ v3' = <<>> /\ v5' = <<>> /\ v6' = v6 /\ v14' = Balboa!None
    BY <1>12 DEF Balboa!connect_server_cb, Balboa!device
  <2> QED BY <1>0, <1>1, <1>3, <1>4, <2>1, EmptySeq DEF SpaInv, SpaTypes
<1>13. CASE Balboa!SpaTakes
  <2>1. Keeps /\ UNCHANGED <<v3, v14>> /\ v5 # <<>> /\ v5' = Tail(v5)
    BY <1>13 DEF Balboa!SpaTakes, Balboa!device
  <2> DEFINE m == Head(v5)
  <2>2. m = v5[1] /\ m \in ToSpa /\ v5' \in Seq(ToSpa)
    BY <1>0, <2>1, HeadTailProperties DEF SpaTypes
  <2>3. ASSUME NEW a \in FromSpa, v2' = v2 \/ v2' = Append(v2, a) PROVE v2' \in Seq(FromSpa)
    BY <1>0, <2>3, AppendProperties DEF SpaTypes
  <2>4. <<"conf">> \in FromSpa /\ <<"panel", v7>> \in FromSpa BY DEF FromSpa
  <2>5. v2' \in Seq(FromSpa)
    <3>1. CASE m[1] = "press" \/ m[1] = "set" \/ m[1] = "CONFIG_REQ" \/ m[1] = "PANEL_REQ"
      <4>1. v2' = v2 \/ v2' = Append(v2, <<"conf">>) \/ v2' = Append(v2, <<"panel", v7>>)
        <5>1. CASE m[1] = "press" BY <1>13, <5>1 DEF Balboa!SpaTakes
        <5>2. CASE m[1] = "set" BY <1>13, <5>2 DEF Balboa!SpaTakes
        <5>3. CASE m[1] = "CONFIG_REQ" BY <1>13, <5>3 DEF Balboa!SpaTakes
        <5>4. CASE m[1] = "PANEL_REQ" BY <1>13, <5>4 DEF Balboa!SpaTakes
        <5> QED BY <3>1, <5>1, <5>2, <5>3, <5>4
      <4> QED BY <2>3, <2>4, <4>1
    <3> QED BY <2>2, <3>1 DEF ToSpa
  <2>6. /\ v6' \in SpaStates
        /\ m[1] = "press" => v6' = Balboa!Pressed(m[2])
        /\ m[1] # "press" => \A b \in Balboa!Buttons : v6'[b] = v6[b]
    <3>1. CASE m[1] = "press"
      <4>1. v6' = Balboa!Pressed(m[2]) BY <1>13, <3>1 DEF Balboa!SpaTakes
      <4>2. m[2] \in Balboa!Buttons BY <2>2, <3>1 DEF ToSpa
      <4>3. v6' \in SpaStates
        BY <1>0, <4>1, <4>2 DEF SpaTypes, SpaStates, Balboa!Pressed, Balboa!Buttons, Balboa!Pumps
      <4> QED BY <3>1, <4>1, <4>3
    <3>2. CASE m[1] = "set"
      <4>1. v6' = [v6 EXCEPT !.st = m[2]] BY <1>13, <3>2 DEF Balboa!SpaTakes
      <4>2. m[2] \in 0 .. 3 BY <2>2, <3>2 DEF ToSpa
      <4> QED BY <1>0, <3>2, <4>1, <4>2 DEF SpaTypes, SpaStates, Balboa!Buttons, Balboa!Pumps
    <3>3. CASE m[1] \in {"CONFIG_REQ", "PANEL_REQ"}
      <4>1. v6' = v6 BY <1>13, <3>3 DEF Balboa!SpaTakes
      <4> QED BY <1>0, <3>3, <4>1 DEF SpaTypes
    <3> QED BY <2>2, <3>1, <3>2, <3>3 DEF ToSpa
  <2>7. Goal'
    <3>1. CASE v14 = Balboa!None BY <1>3, <2>1, <3>1
    <3>2. CASE v14 # Balboa!None
      <4>1. v14.loc \in Balboa!Buttons BY <1>0, <3>2 DEF Goal
      <4>2. v6 \in SpaStates BY <1>0 DEF SpaTypes
      <4>3. CASE m = <<"press", v14.loc>>
        <5>1. v6' = Balboa!Pressed(v14.loc) BY <2>6, <4>3
        <5>2. v6'[v14.loc] = (v6[v14.loc] + 1) % Turns(v14.loc)
          BY <4>1, <4>2, <5>1
          DEF SpaStates, Balboa!Pressed, Balboa!Buttons, Balboa!Pumps, Turns
        <5> QED BY <1>0, <2>1, <2>2, <4>3, <5>2, GoalNearer
      <4>4. CASE m # <<"press", v14.loc>>
        <5>1. v6'[v14.loc] = v6[v14.loc]
          <6>1. CASE m[1] # "press" BY <2>6, <4>1, <6>1
          <6>2. CASE m[1] = "press"
            <7>1. m = <<"press", m[2]>> /\ m[2] \in Balboa!Buttons BY <2>2, <6>2 DEF ToSpa
            <7>2. m[2] # v14.loc BY <4>4, <7>1
            <7>3. v6' = Balboa!Pressed(m[2]) BY <2>6, <6>2
            <7> QED BY <4>1, <4>2, <7>1, <7>2, <7>3
                    DEF SpaStates, Balboa!Pressed, Balboa!Buttons, Balboa!Pumps
          <6> QED BY <6>1, <6>2
        <5> QED BY <1>0, <2>1, <2>2, <4>4, <5>1, GoalNearer
      <4> QED BY <4>3, <4>4
    <3> QED BY <3>1, <3>2
  <2> QED BY <1>0, <1>1, <1>4, <2>1, <2>2, <2>5, <2>6, <2>7 DEF SpaInv, SpaTypes
<1>14. CASE Balboa!SpaStatus
  <2>1. Keeps /\ UNCHANGED <<v3, v5, v6, v14>> /\ v2' = Append(v2, <<"status", v6>>)
    BY <1>14 DEF Balboa!SpaStatus, Balboa!device
  <2>2. <<"status", v6>> \in FromSpa BY <1>0 DEF FromSpa, SpaTypes
  <2>3. v2' \in Seq(FromSpa) BY <1>0, <2>1, <2>2, AppendProperties DEF SpaTypes
  <2> QED BY <1>0, <1>1, <1>2, <1>4, <2>1, <2>3 DEF SpaInv, SpaTypes
<1>15. CASE Balboa!ByHand
  <2>1. Keeps /\ UNCHANGED <<v2, v3, v5>> BY <1>15 DEF Balboa!ByHand, Balboa!device
  <2>2. v6 \in SpaStates /\ v7 \subseteq Balboa!Pumps BY <1>0 DEF SpaTypes
  <2>3. ASSUME NEW b \in Balboa!Buttons, v6' = Balboa!Pressed(b),
               v14' = IF v14.loc = b THEN Balboa!None ELSE v14
        PROVE  v6' \in SpaStates /\ Goal'
    <3>1. /\ v6' \in SpaStates
          /\ \A c \in Balboa!Buttons \ {b} : v6'[c] = v6[c]
      BY <2>2, <2>3 DEF SpaStates, Balboa!Pressed, Balboa!Buttons, Balboa!Pumps
    <3>2. CASE v14' = Balboa!None BY <1>3, <3>1, <3>2
    <3>3. CASE v14' # Balboa!None
      <4>1. v14' = v14 /\ v14.loc # b /\ v14 # Balboa!None BY <2>3, <3>3
      <4>2. v14.loc \in Balboa!Buttons /\ GoalAhead BY <1>0, <4>1 DEF Goal
      <4>3. v6'[v14.loc] = v6[v14.loc] BY <3>1, <4>1, <4>2
      <4>4. GoalAhead' BY <2>1, <4>1, <4>2, <4>3 DEF GoalAhead, Turns
      <4> QED BY <3>1, <4>1, <4>2, <4>4 DEF Goal
    <3> QED BY <3>2, <3>3
  <2>4. ASSUME NEW s \in {Balboa!TSCALE_F, Balboa!TSCALE_C}, v6' = [v6 EXCEPT !.scale = s],
               v14' = v14
        PROVE  v6' \in SpaStates /\ Goal'
    <3>1. v6' \in SpaStates /\ \A c \in Balboa!Buttons : v6'[c] = v6[c]
      BY <2>2, <2>4
      DEF SpaStates, Balboa!Buttons, Balboa!Pumps, Balboa!TSCALE_F, Balboa!TSCALE_C
    <3> QED BY <1>0, <2>1, <2>4, <3>1 DEF Goal, GoalAhead, Turns
  <2>5. v7 \cup (Balboa!Buttons \ Balboa!Pumps) \subseteq Balboa!Buttons BY <2>2 DEF Balboa!Buttons
  <2>6. v6' \in SpaStates /\ Goal'
    BY <1>15, <2>3, <2>4, <2>5 DEF Balboa!ByHand
  <2> QED BY <1>0, <1>1, <1>4, <2>1, <2>6 DEF SpaInv, SpaTypes
<1> QED
  BY <1>7, <1>8, <1>9, <1>10, <1>11, <1>12, <1>13, <1>14, <1>15 DEF Balboa!Next

\* What DoesAsAsked says is the goal with no press left.
LEMMA SpaObeys == SpaInv => Balboa!DoesAsAsked /\ Balboa!AsThePanelSays
<1> SUFFICES ASSUME SpaInv PROVE Balboa!DoesAsAsked /\ Balboa!AsThePanelSays OBVIOUS
<1>1. Balboa!AsThePanelSays BY DEF SpaInv, Heard
<1>2. ASSUME v14 # Balboa!None, ~Balboa!Contains(v5, <<"press", v14.loc>>)
      PROVE  v6[v14.loc] = v14.val
  <2>1. v14.loc \in Balboa!Buttons BY <1>2 DEF SpaInv, Goal
  <2>2. PICK n \in 0 .. 2, i \in 1 .. Len(v5) + 1 :
          /\ i + n <= Len(v5) + 1
          /\ \A k \in 1 .. Len(v5) : v5[k] = <<"press", v14.loc>> <=> k \in i .. i + n - 1
          /\ (v6[v14.loc] + n) % Turns(v14.loc) = v14.val
    BY <1>2 DEF SpaInv, Goal, GoalAhead
  <2>3. Len(v5) \in Nat /\ \A k \in 1 .. Len(v5) : v5[k] # <<"press", v14.loc>>
    BY <1>2, LenProperties DEF SpaInv, SpaTypes, Balboa!Contains
  <2>4. n = 0 BY <2>2, <2>3
  <2>5. v6[v14.loc] \in 0 .. Turns(v14.loc) - 1 /\ Turns(v14.loc) \in {2, 3}
    BY <2>1 DEF SpaInv, SpaTypes, SpaStates, Turns, Balboa!Buttons, Balboa!Pumps
  <2>6. CASE Turns(v14.loc) = 2 BY <2>2, <2>4, <2>5, <2>6
  <2>7. CASE Turns(v14.loc) = 3 BY <2>2, <2>4, <2>5, <2>7
  <2> QED BY <2>5, <2>6, <2>7
<1> QED BY <1>1, <1>2 DEF Balboa!DoesAsAsked

-----------------------------------------------------------------------------
(* alarmcoll: the rows of the list (watched, v1) and whether they apply    *)
(* (fired, v2), the lines on their way to gnhastd (out, v7), the alarms    *)
(* that it has (alarms, v8) and whether a connection was lost (deaf, v9).  *)

AlarmLines ==
  {<<"start">>} \cup
  {<<"alarms", set, cleared>> : set \in SUBSET Alarmcoll!Rows, cleared \in SUBSET Alarmcoll!Rows}
\* A row whose alarm is to be set, and what a line makes of its alarm.
On(r) == v2[r] /\ v1[r].sev > 0
Mentions(l, r) == l = <<"start">> \/ r \in l[2] \/ r \in l[3]
Sets(l, r) == l # <<"start">> /\ r \in l[2] /\ r \notin l[3]
\* The last line about a row says whether it applies; gnhastd knows when there is none.
SaidLast(r) ==
  \/ /\ \A k \in 1 .. Len(v7) : ~Mentions(v7[k], r)
     /\ r \in v8 <=> On(r)
  \/ \E k \in 1 .. Len(v7) :
       /\ Mentions(v7[k], r)
       /\ \A j \in k + 1 .. Len(v7) : ~Mentions(v7[j], r)
       /\ Sets(v7[k], r) <=> On(r)
AlarmInv ==
  /\ v7 \in Seq(AlarmLines)
  /\ v8 \subseteq Alarmcoll!Rows
  /\ ~v9 => \A r \in Alarmcoll!Rows : SaidLast(r)

LEMMA AlarmInitI == Alarmcoll!Init => AlarmInv
<1> SUFFICES ASSUME Alarmcoll!Init PROVE AlarmInv OBVIOUS
<1>1. v2 = [r \in Alarmcoll!Rows |-> FALSE] /\ v7 = <<<<"start">>>> /\ v8 \subseteq Alarmcoll!Rows
  BY DEF Alarmcoll!Init, Alarmcoll!alarmcoll_establish_feeds
<1>2. v7 \in Seq(AlarmLines) /\ Len(v7) = 1 /\ v7[1] = <<"start">> BY <1>1 DEF AlarmLines
<1>3. ASSUME NEW r \in Alarmcoll!Rows PROVE SaidLast(r)
  <2>1. ~On(r) BY <1>1 DEF On
  <2>2. Mentions(v7[1], r) /\ ~Sets(v7[1], r) BY <1>2 DEF Mentions, Sets
  <2>3. 1 \in 1 .. Len(v7) /\ \A j \in 1 + 1 .. Len(v7) : ~Mentions(v7[j], r) BY <1>2
  <2> QED BY <2>1, <2>2, <2>3 DEF SaidLast
<1> QED BY <1>1, <1>2, <1>3 DEF AlarmInv

LEMMA AlarmStepI == AlarmInv /\ Alarmcoll!Next => AlarmInv'
<1> SUFFICES ASSUME AlarmInv, Alarmcoll!Next PROVE AlarmInv' OBVIOUS
<1>0. /\ v7 \in Seq(AlarmLines) /\ v8 \subseteq Alarmcoll!Rows
      /\ ~v9 => \A r \in Alarmcoll!Rows : SaidLast(r)
  BY DEF AlarmInv
<1>n. Len(v7) \in Nat BY <1>0, LenProperties
<1>1. ASSUME UNCHANGED <<v1, v2, v7, v8, v9>> PROVE AlarmInv'
  BY <1>1 DEF AlarmInv, SaidLast, On
<1>2. CASE Alarmcoll!coll_upd_cb
  <2> USE DEF Alarmcoll!counts
  <2>1. PICK f : /\ v2' = f /\ UNCHANGED <<v1, v8, v9>>
                 /\ LET set == {r \in Alarmcoll!Rows : f[r] /\ ~v2[r] /\ v1[r].sev > 0}
                        cleared == {r \in Alarmcoll!Rows : ~f[r] /\ v2[r]}
                    IN v7' = IF set \cup cleared = {} THEN v7
                             ELSE Append(v7, <<"alarms", set, cleared>>)
    BY <1>2 DEF Alarmcoll!coll_upd_cb
  <2> DEFINE set == {r \in Alarmcoll!Rows : f[r] /\ ~v2[r] /\ v1[r].sev > 0}
             cleared == {r \in Alarmcoll!Rows : ~f[r] /\ v2[r]}
             l == <<"alarms", set, cleared>>
  <2>2. v7' = IF set \cup cleared = {} THEN v7 ELSE Append(v7, l) BY <2>1
  <2>3. l \in AlarmLines
    <3>1. set \in SUBSET Alarmcoll!Rows /\ cleared \in SUBSET Alarmcoll!Rows OBVIOUS
    <3> HIDE DEF set, cleared
    <3> QED BY <3>1 DEF AlarmLines
  <2>4. ASSUME NEW r \in Alarmcoll!Rows
        PROVE  /\ r \in set => On(r)'
               /\ r \in cleared => ~On(r)'
               /\ r \notin set \cup cleared => (On(r)' <=> On(r))
    BY <2>1 DEF On
  <2>5. ASSUME NEW r \in Alarmcoll!Rows
        PROVE  /\ Mentions(l, r) <=> r \in set \cup cleared
               /\ Sets(l, r) <=> r \in set
    BY DEF Mentions, Sets
  <2> HIDE DEF set, cleared, l
  <2>6. CASE v7' = v7 /\ set \cup cleared = {}
    BY <1>0, <2>1, <2>4, <2>6 DEF AlarmInv, SaidLast
  <2>7. CASE v7' = Append(v7, l)
    <3>1. /\ v7' \in Seq(AlarmLines) /\ Len(v7') = Len(v7) + 1 /\ v7'[Len(v7) + 1] = l
          /\ \A k \in 1 .. Len(v7) : v7'[k] = v7[k]
      BY <1>0, <2>3, <2>7, AppendProperties
    <3>2. ASSUME ~v9', NEW r \in Alarmcoll!Rows PROVE SaidLast(r)'
      <4>1. SaidLast(r) BY <1>0, <2>1, <3>2
      <4>2. CASE Mentions(l, r)
        <5>1. Len(v7) + 1 \in 1 .. Len(v7') /\ Mentions(v7'[Len(v7) + 1], r)
          BY <1>n, <3>1, <4>2
        <5>2. \A j \in Len(v7) + 1 + 1 .. Len(v7') : ~Mentions(v7'[j], r) BY <1>n, <3>1
        <5>3. Sets(v7'[Len(v7) + 1], r) <=> On(r)' BY <2>4, <2>5, <3>1, <4>2
        <5> QED BY <5>1, <5>2, <5>3 DEF SaidLast, Mentions, Sets
      <4>3. CASE ~Mentions(l, r)
        <5>1. On(r)' <=> On(r) BY <2>4, <2>5, <4>3
        <5>2. CASE (\A k \in 1 .. Len(v7) : ~Mentions(v7[k], r)) /\ (r \in v8 <=> On(r))
          <6>1. \A k \in 1 .. Len(v7') : ~Mentions(v7'[k], r) BY <1>n, <3>1, <4>3, <5>2
          <6> QED BY <2>1, <5>1, <5>2, <6>1 DEF SaidLast, Mentions
        <5>3. ASSUME NEW k \in 1 .. Len(v7), Mentions(v7[k], r),
                     \A j \in k + 1 .. Len(v7) : ~Mentions(v7[j], r),
                     Sets(v7[k], r) <=> On(r)
              PROVE  SaidLast(r)'
          <6>1. k \in 1 .. Len(v7') /\ v7'[k] = v7[k] BY <1>n, <3>1
          <6>2. \A j \in k + 1 .. Len(v7') : ~Mentions(v7'[j], r) BY <1>n, <3>1, <4>3, <5>3
          <6> QED BY <5>1, <5>3, <6>1, <6>2 DEF SaidLast, Mentions, Sets
        <5> QED BY <4>1, <5>2, <5>3 DEF SaidLast
      <4> QED BY <4>2, <4>3
    <3> QED BY <1>0, <2>1, <3>1, <3>2 DEF AlarmInv
  <2> QED BY <2>2, <2>6, <2>7
<1>3. CASE Alarmcoll!Tick BY <1>1, <1>3 DEF Alarmcoll!Tick, Alarmcoll!counts
<1>4. CASE Alarmcoll!Takes
  <2> DEFINE l == Head(v7)
  <2>1. /\ v7 # <<>> /\ v7' = Tail(v7) /\ UNCHANGED <<v1, v2, v9>>
        /\ IF l = <<"start">> THEN v8' = {} ELSE v8' = (v8 \cup l[2]) \ l[3]
    BY <1>4 DEF Alarmcoll!Takes, Alarmcoll!counts
  <2>2. /\ l = v7[1] /\ l \in AlarmLines /\ v7' \in Seq(AlarmLines)
        /\ Len(v7) >= 1 /\ Len(v7') = Len(v7) - 1 /\ \A k \in 1 .. Len(v7') : v7'[k] = v7[k + 1]
    BY <1>0, <1>n, <2>1, HeadTailProperties, EmptySeq
  <2> HIDE DEF l
  <2>3. v8' \subseteq Alarmcoll!Rows BY <1>0, <2>1, <2>2 DEF AlarmLines
  <2>4. ASSUME ~v9', NEW r \in Alarmcoll!Rows PROVE SaidLast(r)'
    <3>1. SaidLast(r) BY <1>0, <2>1, <2>4
    <3>2. On(r)' <=> On(r) BY <2>1 DEF On
    <3>3. CASE (\A k \in 1 .. Len(v7) : ~Mentions(v7[k], r)) /\ (r \in v8 <=> On(r))
      <4>1. ~Mentions(l, r) /\ \A k \in 1 .. Len(v7') : ~Mentions(v7'[k], r)
        BY <1>n, <2>2, <3>3
      <4>2. r \in v8' <=> r \in v8 BY <2>1, <4>1 DEF Mentions
      <4> QED BY <3>2, <3>3, <4>1, <4>2 DEF SaidLast, Mentions
    <3>4. ASSUME NEW k \in 1 .. Len(v7), Mentions(v7[k], r),
                 \A j \in k + 1 .. Len(v7) : ~Mentions(v7[j], r),
                 Sets(v7[k], r) <=> On(r)
          PROVE  SaidLast(r)'
      <4>1. CASE k = 1
        <5>1. \A j \in 1 .. Len(v7') : ~Mentions(v7'[j], r) BY <1>n, <2>2, <3>4, <4>1
        <5>2. r \in v8' <=> Sets(l, r) BY <2>1, <2>2, <3>4, <4>1 DEF Mentions, Sets
        <5> QED BY <2>2, <3>2, <3>4, <4>1, <5>1, <5>2 DEF SaidLast, Mentions
      <4>2. CASE k # 1
        <5>1. k - 1 \in 1 .. Len(v7') /\ v7'[k - 1] = v7[k] BY <1>n, <2>2, <4>2
        <5>2. ASSUME NEW j \in k - 1 + 1 .. Len(v7') PROVE ~Mentions(v7'[j], r)
          <6>1. j + 1 \in k + 1 .. Len(v7) /\ j \in 1 .. Len(v7') BY <1>n, <2>2
          <6> QED BY <2>2, <3>4, <6>1
        <5> QED BY <3>2, <3>4, <5>1, <5>2 DEF SaidLast, Mentions, Sets
      <4> QED BY <4>1, <4>2
    <3> QED BY <3>1, <3>3, <3>4 DEF SaidLast
  <2> QED BY <2>2, <2>3, <2>4 DEF AlarmInv
<1>5. ASSUME NEW d \in Alarmcoll!Devs, Alarmcoll!Feed(d) PROVE AlarmInv'
  BY <1>1, <1>5 DEF Alarmcoll!Feed
<1>6. CASE Alarmcoll!Changes BY <1>1, <1>6 DEF Alarmcoll!Changes
<1>7. CASE Alarmcoll!Lost
  <2>1. v9' = TRUE /\ v7' = <<>> /\ v8' \subseteq Alarmcoll!Rows BY <1>0, <1>7 DEF Alarmcoll!Lost
  <2> QED BY <2>1, EmptySeq DEF AlarmInv
<1>8. CASE Alarmcoll!Restart
  <2>1. /\ v2' = [r \in Alarmcoll!Rows |-> FALSE] /\ v7' = <<<<"start">>>>
        /\ v8' \subseteq Alarmcoll!Rows
    BY <1>0, <1>8 DEF Alarmcoll!Restart, Alarmcoll!alarmcoll_establish_feeds
  <2>2. v7' \in Seq(AlarmLines) /\ Len(v7') = 1 /\ v7'[1] = <<"start">>
    BY <2>1 DEF AlarmLines
  <2>3. ASSUME NEW r \in Alarmcoll!Rows PROVE SaidLast(r)'
    <3>1. ~On(r)' BY <2>1 DEF On
    <3>2. Mentions(v7'[1], r) /\ ~Sets(v7'[1], r) BY <2>2 DEF Mentions, Sets
    <3>3. 1 \in 1 .. Len(v7') /\ \A j \in 1 + 1 .. Len(v7') : ~Mentions(v7'[j], r) BY <2>2
    <3> QED BY <3>1, <3>2, <3>3 DEF SaidLast, Mentions, Sets
  <2> QED BY <2>1, <2>2, <2>3 DEF AlarmInv
<1> QED BY <1>2, <1>3, <1>4, <1>5, <1>6, <1>7, <1>8 DEF Alarmcoll!Next

LEMMA AlarmSays == AlarmInv => Alarmcoll!AlarmsAreFired
<1> SUFFICES ASSUME AlarmInv, ~v9, v7 = <<>>
             PROVE  v8 = {r \in Alarmcoll!Rows : v2[r] /\ v1[r].sev > 0}
  BY DEF Alarmcoll!AlarmsAreFired
<1>1. Len(v7) = 0 BY EmptySeq
<1>2. \A r \in Alarmcoll!Rows : r \in v8 <=> v2[r] /\ v1[r].sev > 0
  <2> SUFFICES ASSUME NEW r \in Alarmcoll!Rows PROVE r \in v8 <=> On(r) BY DEF On
  <2> QED BY <1>1 DEF AlarmInv, SaidLast
<1> QED BY <1>2 DEF AlarmInv

-----------------------------------------------------------------------------
(* owsrvcoll: its connection to gnhastd (link, v1, need_rereg, v2, reg,    *)
(* v4, told, v5), the devices of the configuration (conf, v8), the         *)
(* connections to the owserver (owc, v10, and the index of one, bev, v11), *)
(* the table (alldevs, v13), what was asked last (current_dev, v14,        *)
(* lastcmd, v15), and whether more was asked before the answer (mixed,     *)
(* v20).                                                                   *)

OwsCmds == {<<"dirall">>} \cup {<<"read", d>> : d \in Owsrv!Bus}
OwsMsgs == {<<"dirall">>, <<"bad">>, <<"ping">>} \cup {<<"read", d, x>> : d \in Owsrv!Bus, x \in 0 .. 1}
OwsConn == [asked : Seq(OwsCmds), sent : Seq(OwsMsgs), input : Seq(OwsMsgs)]

\* The answers to a command, and a connection that has nothing to do but what was asked
\* last.
Good(c) == IF c = <<"dirall">> THEN {<<"dirall">>} ELSE {<<"read", c[2], x>> : x \in 0 .. 1}
InTurn(conn, c) ==
  /\ conn.input = <<>>
  /\ \/ conn.asked = <<c>> /\ conn.sent = <<>>
     \/ /\ conn.asked = <<>>
        /\ \E g \in Good(c) : conn.sent \in {<<g>>, <<<<"bad">>>>, <<<<"ping">>, g>>}
\* Of all connections at most one has something to do.
OneAtATime(conns, c) ==
  \A i \in 1 .. Len(conns) : Owsrv!Pending(conns[i]) =>
    /\ InTurn(conns[i], c)
    /\ \A j \in 1 .. Len(conns) : Owsrv!Pending(conns[j]) => j = i
NoneAsked(conns) == \A i \in 1 .. Len(conns) : ~Owsrv!Pending(conns[i])
\* What was asked last is the list, or a reading of the device that is the current one.
LastIsCurrent == v15 = <<"dirall">> \/ v15 = <<"read", v13[v14]>>

OwsTypes ==
  /\ v10 \in Seq(OwsConn) /\ v11 \in 0 .. Len(v10)
  /\ v8 \subseteq Owsrv!Bus
  /\ v13 \in Seq(0 .. 2) /\ v14 \in Nat
  /\ v15 \in OwsCmds
  /\ v19 \in [Owsrv!Bus -> 0 .. 1]
\* The devices of the configuration are in the table, and registered while lines can be
\* written; nothing is told of others.
OwsLink ==
  /\ v8 \subseteq {v13[i] : i \in DOMAIN v13}
  /\ v1 \in {"connecting", "up"} /\ ~v6 => v8 \subseteq v4
  /\ v1 = "waiting" => v2 /\ DOMAIN v5 = {}
  /\ v6 \/ DOMAIN v5 \subseteq v4
OwsTurns ==
  ~v20 => /\ OneAtATime(v10, v15)
          /\ ~NoneAsked(v10) => LastIsCurrent
          /\ \A d \in DOMAIN v5 : v5[d][1] = "read" /\ v5[d][2] = d
          /\ \A i \in DOMAIN v13 : v13[i] # Owsrv!JUNK
OwsInv == OwsTypes /\ OwsLink /\ OwsTurns

\* A finite set, put in a sequence.
LEMMA SetLists ==
  ASSUME NEW S, IsFiniteSet(S)
  PROVE  /\ Owsrv!SetToSeq(S) \in Seq(S)
         /\ \A x \in S : \E i \in 1 .. Len(Owsrv!SetToSeq(S)) : Owsrv!SetToSeq(S)[i] = x
<1> DEFINE n == Cardinality(S)
           f == Owsrv!SetToSeq(S)
           Apart(g) == \A i, j \in DOMAIN g : g[i] = g[j] => i = j
<1>1. n \in Nat /\ Bijection(1 .. n, S) # {}
  BY FS_CardinalityType DEF ExistsBijection
<1>2. \E g \in [1 .. n -> S] : Apart(g)
  BY <1>1 DEF Bijection, Injection, IsInjective
<1>3. f = CHOOSE g \in [1 .. n -> S] : Apart(g)
  <2>1. Owsrv!Cardinality(S) = n BY DEF Owsrv!Cardinality, Cardinality
  <2> HIDE DEF n
  <2> QED BY <2>1 DEF Owsrv!SetToSeq
<1> HIDE DEF f
<1>4. f \in [1 .. n -> S] /\ Apart(f)
  <2> HIDE DEF n, Apart
  <2> QED BY <1>2, <1>3
<1>5. f \in Injection(1 .. n, S) BY <1>4 DEF Injection, IsInjective
<1>6. Cardinality(1 .. n) = n BY <1>1, FS_Interval
<1>7. f \in Surjection(1 .. n, S) BY <1>5, <1>6, FS_Injection
<1>8. f \in Seq(S) /\ Len(f) = n BY <1>1, <1>4
<1> QED BY <1>7, <1>8 DEF Surjection, f

LEMMA BusLists ==
  ASSUME NEW S \in SUBSET Owsrv!Bus
  PROVE  /\ Owsrv!SetToSeq(S) \in Seq(S)
         /\ \A x \in S : \E i \in 1 .. Len(Owsrv!SetToSeq(S)) : Owsrv!SetToSeq(S)[i] = x
<1>1. IsFiniteSet(Owsrv!Bus)
  <2>1. IsFiniteSet(1 .. 2) BY 1 \in Int, 2 \in Int, FS_Interval
  <2> QED BY <2>1 DEF Owsrv!Bus
<1>2. IsFiniteSet(S) BY <1>1, FS_Subset
<1> QED BY <1>2, SetLists

LEMMA Removed ==
  ASSUME NEW S, NEW s \in Seq(S), NEW i \in 1 .. Len(s)
  PROVE  /\ Owsrv!RemoveAt(s, i) \in Seq(S)
         /\ Len(Owsrv!RemoveAt(s, i)) = Len(s) - 1
         /\ \A j \in 1 .. Len(s) - 1 : Owsrv!RemoveAt(s, i)[j] = IF j < i THEN s[j] ELSE s[j + 1]
<1> DEFINE a == SubSeq(s, 1, i - 1)
           b == SubSeq(s, i + 1, Len(s))
<1>1. Len(s) \in Nat /\ \A j \in 1 .. Len(s) : s[j] \in S BY LenProperties, ElementOfSeq
<1>2. /\ a \in Seq(S) /\ Len(a) = i - 1 /\ \A j \in 1 .. i - 1 : a[j] = s[j]
  BY <1>1, SubSeqProperties
<1>3. /\ b \in Seq(S) /\ Len(b) = Len(s) - i
      /\ \A j \in 1 .. Len(s) - i : b[j] = s[i + j]
  <2>1. i + 1 \in Int /\ Len(s) \in Int /\ \A j \in i + 1 .. Len(s) : s[j] \in S BY <1>1
  <2>2. /\ b \in Seq(S) /\ Len(b) = IF i + 1 <= Len(s) THEN Len(s) - (i + 1) + 1 ELSE 0
        /\ \A j \in 1 .. Len(s) - (i + 1) + 1 : b[j] = s[i + 1 + j - 1]
    BY <2>1, SubSeqProperties
  <2> HIDE DEF b
  <2>3. Len(s) - (i + 1) + 1 = Len(s) - i BY <1>1
  <2>4. Len(b) = Len(s) - i
    <3>1. (IF i + 1 <= Len(s) THEN Len(s) - (i + 1) + 1 ELSE 0) = Len(s) - i BY <1>1, SMTT(30)
    <3> QED BY <2>2, <3>1
  <2>5. ASSUME NEW j \in 1 .. Len(s) - i PROVE b[j] = s[i + j]
    <3>1. i + 1 + j - 1 = i + j BY <1>1
    <3> QED BY <2>2, <2>3, <3>1
  <2> QED BY <2>2, <2>4, <2>5
<1> HIDE DEF a, b
<1>4. /\ a \o b \in Seq(S) /\ Len(a \o b) = Len(s) - 1
      /\ \A j \in 1 .. Len(a) + Len(b) : (a \o b)[j] = IF j <= Len(a) THEN a[j] ELSE b[j - Len(a)]
  BY <1>1, <1>2, <1>3, ConcatProperties
<1>5. ASSUME NEW j \in 1 .. Len(s) - 1
      PROVE  (a \o b)[j] = IF j < i THEN s[j] ELSE s[j + 1]
  <2>1. (a \o b)[j] = IF j <= i - 1 THEN a[j] ELSE b[j - (i - 1)] BY <1>1, <1>2, <1>3, <1>4
  <2>2. CASE j < i BY <1>1, <1>2, <2>1, <2>2
  <2>3. CASE j >= i
    <3>1. j - (i - 1) \in 1 .. Len(s) - i BY <1>1, <2>3
    <3>2. b[j - (i - 1)] = s[i + (j - (i - 1))] BY <1>3, <3>1
    <3> QED BY <1>1, <2>1, <2>3, <3>2
  <2>4. j < i \/ j >= i BY <1>1
  <2> QED BY <2>2, <2>3, <2>4
<1>6. Owsrv!RemoveAt(s, i) = a \o b BY DEF a, b, Owsrv!RemoveAt
<1> QED BY <1>4, <1>5, <1>6

\* A connection less is no more to do.
LEMMA OwsRemoves ==
  ASSUME NEW conns \in Seq(OwsConn), NEW i \in 1 .. Len(conns), NEW c
  PROVE  /\ OneAtATime(conns, c) => OneAtATime(Owsrv!RemoveAt(conns, i), c)
         /\ NoneAsked(conns) => NoneAsked(Owsrv!RemoveAt(conns, i))
<1> DEFINE r == Owsrv!RemoveAt(conns, i)
<1>1. /\ Len(conns) \in Nat /\ Len(r) = Len(conns) - 1
      /\ \A j \in 1 .. Len(r) : r[j] = IF j < i THEN conns[j] ELSE conns[j + 1]
  BY Removed, LenProperties
<1> HIDE DEF r
<1>2. ASSUME NoneAsked(conns) PROVE NoneAsked(r) BY <1>1, <1>2 DEF NoneAsked
<1>3. ASSUME OneAtATime(conns, c) PROVE OneAtATime(r, c)
  <2> SUFFICES ASSUME NEW j \in 1 .. Len(r), Owsrv!Pending(r[j])
               PROVE  /\ InTurn(r[j], c)
                      /\ \A k \in 1 .. Len(r) : Owsrv!Pending(r[k]) => k = j
    BY DEF OneAtATime
  <2> DEFINE at(k) == IF k < i THEN k ELSE k + 1
  <2>1. \A k \in 1 .. Len(r) : at(k) \in 1 .. Len(conns) /\ r[k] = conns[at(k)] BY <1>1
  <2>2. InTurn(r[j], c) BY <1>3, <2>1 DEF OneAtATime
  <2>3. ASSUME NEW k \in 1 .. Len(r), Owsrv!Pending(r[k]) PROVE k = j
    <3>1. at(k) = at(j) BY <1>3, <2>1, <2>3 DEF OneAtATime
    <3> QED BY <1>1, <3>1
  <2> QED BY <2>2, <2>3
<1> QED BY <1>2, <1>3 DEF r

\* A request, when no connection had anything to do, is the one thing to do.
LEMMA OwsAsks ==
  ASSUME NEW c \in OwsCmds, NEW cs \in Seq(OwsConn), v11 \in 0 .. Len(cs), Owsrv!Ask(c, cs)
  PROVE  /\ v10' \in Seq(OwsConn) /\ v11' \in 0 .. Len(v10')
         /\ NoneAsked(cs) => OneAtATime(v10', c)
<1>0. Len(cs) \in Nat /\ \A i \in 1 .. Len(cs) : cs[i] \in OwsConn BY LenProperties, ElementOfSeq
<1>e. <<>> \in Seq(OwsCmds) /\ <<>> \in Seq(OwsMsgs) /\ <<c>> \in Seq(OwsCmds) BY EmptySeq
<1>1. CASE v10' = Append(cs, Owsrv!NewConn(c)) /\ v11' = Len(cs) + 1
  <2>1. Owsrv!NewConn(c) \in OwsConn /\ InTurn(Owsrv!NewConn(c), c)
    BY <1>e DEF Owsrv!NewConn, OwsConn, InTurn
  <2>2. /\ v10' \in Seq(OwsConn) /\ Len(v10') = Len(cs) + 1
        /\ v10'[Len(cs) + 1] = Owsrv!NewConn(c)
        /\ \A i \in 1 .. Len(cs) : v10'[i] = cs[i]
    BY <1>1, <2>1, AppendProperties
  <2>3. ASSUME NoneAsked(cs) PROVE OneAtATime(v10', c)
    <3>1. \A i \in 1 .. Len(v10') : Owsrv!Pending(v10'[i]) => i = Len(cs) + 1
      BY <1>0, <2>2, <2>3 DEF NoneAsked
    <3> QED BY <2>1, <2>2, <3>1 DEF OneAtATime
  <2> QED BY <1>0, <1>1, <2>2, <2>3
<1>2. CASE v11 # 0 /\ v10' = [cs EXCEPT ![v11].asked = Append(@, c)] /\ v11' = v11
  <2> DEFINE new == [cs[v11] EXCEPT !.asked = Append(@, c)]
  <2>1. v11 \in 1 .. Len(cs) /\ cs[v11] \in OwsConn BY <1>0, <1>2
  <2>2. new \in OwsConn /\ new.asked = Append(cs[v11].asked, c)
        /\ new.sent = cs[v11].sent /\ new.input = cs[v11].input
    <3>1. Append(cs[v11].asked, c) \in Seq(OwsCmds) BY <2>1, AppendProperties DEF OwsConn
    <3> QED BY <2>1, <3>1 DEF OwsConn
  <2> HIDE DEF new
  <2>3. v10' = [cs EXCEPT ![v11] = new] BY <1>2, <2>1 DEF new
  <2>4. /\ v10' \in Seq(OwsConn) /\ Len(v10') = Len(cs)
        /\ \A i \in 1 .. Len(cs) : v10'[i] = IF i = v11 THEN new ELSE cs[i]
    BY <2>1, <2>2, <2>3, ExceptSeq
  <2>5. ASSUME NoneAsked(cs) PROVE OneAtATime(v10', c)
    <3>1. cs[v11].asked = <<>> /\ cs[v11].sent = <<>> /\ cs[v11].input = <<>>
      BY <2>1, <2>5 DEF NoneAsked, Owsrv!Pending
    <3>2. Append(<<>>, c) = <<c>> OBVIOUS
    <3>3. InTurn(new, c) BY <2>2, <3>1, <3>2 DEF InTurn
    <3>4. \A i \in 1 .. Len(v10') : Owsrv!Pending(v10'[i]) => i = v11
      BY <2>4, <2>5 DEF NoneAsked
    <3> QED BY <2>1, <2>4, <3>3, <3>4 DEF OneAtATime
  <2> QED BY <1>2, <2>4, <2>5
<1>3. CASE v10' = cs /\ v11' = v11
  <2>1. NoneAsked(cs) => OneAtATime(cs, c) BY DEF NoneAsked, OneAtATime
  <2> QED BY <1>3, <2>1
<1> QED BY <1>1, <1>2, <1>3 DEF Owsrv!Ask

\* A set of numbers has a least one.
LEMMA NatMin ==
  ASSUME NEW T \in SUBSET Nat, T # {}
  PROVE  \E x \in T : \A y \in T : x <= y
<1>1. PICK x \in T : \A y \in T : ~(<<y, x>> \in OpToRel(<, Nat))
  BY NatLessThanWellFounded, WFMin
<1>2. \A y \in T : ~(y < x) BY <1>1 DEF OpToRel
<1> QED BY <1>2

\* The next read, or the end of the list.
OwsMoves(cs) ==
  /\ v10' \in Seq(OwsConn) /\ v11' \in 0 .. Len(v10')
  /\ v14' \in Nat /\ v15' \in OwsCmds
  /\ NoneAsked(cs) => OneAtATime(v10', v15') /\ (~NoneAsked(v10') => LastIsCurrent')
LEMMA OwsWraps ==
  ASSUME NEW cs \in Seq(OwsConn), v11 \in 0 .. Len(cs), v15 \in OwsCmds, Owsrv!Wrap(cs)
  PROVE  OwsMoves(cs)
<1>1. v10' = cs /\ v11' = v11 /\ v15' = v15 /\ v14' \in Nat
  BY DEF Owsrv!Wrap, Owsrv!NotAsked
<1>2. NoneAsked(cs) => OneAtATime(cs, v15) BY DEF NoneAsked, OneAtATime
<1> QED BY <1>1, <1>2 DEF OwsMoves
LEMMA OwsSchedules ==
  ASSUME NEW cs \in Seq(OwsConn), v11 \in 0 .. Len(cs), v15 \in OwsCmds, v14 \in Nat,
         v13' \in Seq(0 .. 2), NEW i \in Nat \ {0}, NEW timer,
         Owsrv!ows_schedule_devread(i, cs, timer)
  PROVE  OwsMoves(cs)
<1> DEFINE typed == {j \in i .. Len(v13') : Owsrv!Kind(v13'[j]) # "none"}
           j == CHOOSE k \in typed : \A l \in typed : k <= l
<1>1. CASE typed = {}
  <2>1. Owsrv!Wrap(cs) BY <1>1 DEF Owsrv!ows_schedule_devread
  <2> QED BY <2>1, OwsWraps
<1>2. CASE typed # {}
  <2>0. Len(v13') \in Nat BY LenProperties
  <2>1. typed \in SUBSET Nat BY <2>0
  <2>2. j \in typed BY <1>2, <2>1, NatMin
  <2>3. IF Owsrv!Kind(v13'[j]) = "wet"
        THEN Owsrv!NotAsked(cs) /\ v14' = IF j = i THEN v14 ELSE j
        ELSE Owsrv!Ask(<<"read", v13'[j]>>, cs) /\ v15' = <<"read", v13'[j]>> /\ v14' = j
    BY <1>2 DEF Owsrv!ows_schedule_devread, Owsrv!OWSM_READ
  <2> HIDE DEF j
  <2>4. j \in 1 .. Len(v13') /\ j \in Nat /\ Owsrv!Kind(v13'[j]) # "none" BY <2>0, <2>2
  <2>5. CASE Owsrv!Kind(v13'[j]) = "wet"
    <3>1. v10' = cs /\ v11' = v11 /\ v15' = v15 /\ v14' \in Nat
      BY <2>3, <2>4, <2>5 DEF Owsrv!NotAsked
    <3>2. NoneAsked(cs) => OneAtATime(cs, v15) BY DEF NoneAsked, OneAtATime
    <3> QED BY <3>1, <3>2 DEF OwsMoves
  <2>6. CASE Owsrv!Kind(v13'[j]) # "wet"
    <3>1. v13'[j] \in Owsrv!Bus
      <4>1. v13'[j] \in 0 .. 2 BY <2>4, ElementOfSeq
      <4>2. v13'[j] # 0 BY <2>4 DEF Owsrv!Kind, Owsrv!JUNK
      <4> QED BY <4>1, <4>2 DEF Owsrv!Bus
    <3>2. <<"read", v13'[j]>> \in OwsCmds BY <3>1 DEF OwsCmds
    <3>3. Owsrv!Ask(<<"read", v13'[j]>>, cs) /\ v15' = <<"read", v13'[j]>> /\ v14' = j
      BY <2>3, <2>6
    <3>4. /\ v10' \in Seq(OwsConn) /\ v11' \in 0 .. Len(v10')
          /\ NoneAsked(cs) => OneAtATime(v10', v15')
      BY <3>2, <3>3, OwsAsks
    <3>5. LastIsCurrent' BY <3>3 DEF LastIsCurrent
    <3> QED BY <2>4, <3>2, <3>3, <3>4, <3>5 DEF OwsMoves
  <2> QED BY <2>5, <2>6
<1> QED BY <1>1, <1>2
LEMMA OwsGoesOn ==
  ASSUME NEW cs \in Seq(OwsConn), v11 \in 0 .. Len(cs), v15 \in OwsCmds, v14 \in Nat,
         v13' \in Seq(0 .. 2), NEW cur \in Nat, Owsrv!readcbout(cur, cs)
  PROVE  OwsMoves(cs)
<1>1. CASE cur = 0 \/ cur = Len(v13')
  <2>1. Owsrv!Wrap(cs) BY <1>1 DEF Owsrv!readcbout
  <2> QED BY <2>1, OwsWraps
<1>2. CASE ~(cur = 0 \/ cur = Len(v13'))
  <2>1. Owsrv!ows_schedule_devread(cur + 1, cs, v17) BY <1>2 DEF Owsrv!readcbout
  <2>2. cur + 1 \in Nat \ {0} OBVIOUS
  <2> QED BY <2>1, <2>2, OwsSchedules
<1> QED BY <1>1, <1>2
LEMMA OwsLists ==
  ASSUME NEW cs \in Seq(OwsConn), v11 \in 0 .. Len(cs), Owsrv!ows_schedule_dirall(cs)
  PROVE  OwsMoves(cs) /\ v13' = v13
<1>1. Owsrv!Ask(<<"dirall">>, cs) /\ v14' = 0 /\ v15' = <<"dirall">> /\ v13' = v13
  BY DEF Owsrv!ows_schedule_dirall, Owsrv!OWSM_DIRALL
<1>2. <<"dirall">> \in OwsCmds BY DEF OwsCmds
<1>3. /\ v10' \in Seq(OwsConn) /\ v11' \in 0 .. Len(v10')
      /\ NoneAsked(cs) => OneAtATime(v10', <<"dirall">>)
  BY <1>1, <1>2, OwsAsks
<1> QED BY <1>1, <1>2, <1>3 DEF OwsMoves, LastIsCurrent

\* Parts of one message and of two.
LEMMA SubSeqs ==
  ASSUME NEW x, NEW y
  PROVE  /\ SubSeq(<<x>>, 1, 1) = <<x>> /\ SubSeq(<<x>>, 2, 1) = <<>>
         /\ SubSeq(<<x, y>>, 1, 2) = <<x, y>>
         /\ SubSeq(<<x, y>>, 1, 1) = <<x>> /\ SubSeq(<<x, y>>, 2, 2) = <<y>>
<1> DEFINE S == {x, y}
           one == <<x>>
           two == <<x, y>>
<1>1. /\ one \in Seq(S) /\ Len(one) = 1 /\ one[1] = x
      /\ two \in Seq(S) /\ Len(two) = 2 /\ two[1] = x /\ two[2] = y
      /\ <<y>> \in Seq(S) /\ Len(<<y>>) = 1 /\ <<y>>[1] = y
  OBVIOUS
<1>2. SubSeq(one, 2, 1) = <<>> BY 2 \in Int, 1 \in Int, 1 < 2, SubSeqEmpty
<1>3. 1 \in Int /\ 2 \in Int OBVIOUS
<1> HIDE DEF one, two
<1>4. SubSeq(one, 1, 1) = one
  <2>1. \A k \in 1 .. 1 : one[k] \in S BY <1>1
  <2>2. /\ SubSeq(one, 1, 1) \in Seq(S)
        /\ Len(SubSeq(one, 1, 1)) = IF 1 <= 1 THEN 1 - 1 + 1 ELSE 0
        /\ \A k \in 1 .. 1 - 1 + 1 : SubSeq(one, 1, 1)[k] = one[1 + k - 1]
    BY <1>3, <2>1, SubSeqProperties
  <2> QED BY <1>1, <2>2, SeqEqual
<1>5. SubSeq(two, 1, 2) = two
  <2>1. \A k \in 1 .. 2 : two[k] \in S BY <1>1
  <2>2. /\ SubSeq(two, 1, 2) \in Seq(S)
        /\ Len(SubSeq(two, 1, 2)) = IF 1 <= 2 THEN 2 - 1 + 1 ELSE 0
        /\ \A k \in 1 .. 2 - 1 + 1 : SubSeq(two, 1, 2)[k] = two[1 + k - 1]
    BY <1>3, <2>1, SubSeqProperties
  <2> QED BY <1>1, <2>2, SeqEqual
<1>6. SubSeq(two, 1, 1) = one
  <2>1. \A k \in 1 .. 1 : two[k] \in S BY <1>1
  <2>2. /\ SubSeq(two, 1, 1) \in Seq(S)
        /\ Len(SubSeq(two, 1, 1)) = IF 1 <= 1 THEN 1 - 1 + 1 ELSE 0
        /\ \A k \in 1 .. 1 - 1 + 1 : SubSeq(two, 1, 1)[k] = two[1 + k - 1]
    BY <1>3, <2>1, SubSeqProperties
  <2> QED BY <1>1, <2>2, SeqEqual
<1>7. SubSeq(two, 2, 2) = <<y>>
  <2>1. \A k \in 2 .. 2 : two[k] \in S BY <1>1
  <2>2. /\ SubSeq(two, 2, 2) \in Seq(S)
        /\ Len(SubSeq(two, 2, 2)) = IF 2 <= 2 THEN 2 - 2 + 1 ELSE 0
        /\ \A k \in 1 .. 2 - 2 + 1 : SubSeq(two, 2, 2)[k] = two[2 + k - 1]
    BY <1>3, <2>1, SubSeqProperties
  <2> DEFINE a == SubSeq(two, 2, 2)
             b == <<y>>
  <2> HIDE DEF a, b
  <2>3. a \in Seq(S) /\ Len(a) = 1 /\ a[1] = y BY <1>1, <2>2 DEF a
  <2>4. b \in Seq(S) /\ Len(b) = 1 /\ b[1] = y BY <1>1 DEF b
  <2>5. a = b BY <2>3, <2>4, SeqEqual
  <2> QED BY <2>5 DEF a, b
<1> QED BY <1>2, <1>4, <1>5, <1>6, <1>7 DEF one, two

\* The read of the first of n messages of the i-th connection.
OwsAll(i, n) == v10[i].input \o SubSeq(v10[i].sent, 1, n)
OwsRest(i, n) ==
  [v10 EXCEPT ![i].input = Tail(@ \o SubSeq(v10[i].sent, 1, n)),
              ![i].sent = SubSeq(@, n + 1, Len(@))]
LEMMA OwsReads ==
  ASSUME v10 \in Seq(OwsConn), NEW i \in 1 .. Len(v10), NEW n \in 1 .. Len(v10[i].sent)
  PROVE  /\ Head(OwsAll(i, n)) \in OwsMsgs
         /\ OwsRest(i, n) \in Seq(OwsConn) /\ Len(OwsRest(i, n)) = Len(v10)
         /\ OneAtATime(v10, v15) /\ OwsRest(i, n)[i].input = <<>> =>
              /\ ~NoneAsked(v10)
              /\ OneAtATime(OwsRest(i, n), v15)
              /\ Head(OwsAll(i, n)) \in Good(v15) \cup {<<"bad">>, <<"ping">>}
              /\ Head(OwsAll(i, n)) # <<"ping">> => NoneAsked(OwsRest(i, n))
<1> DEFINE all == OwsAll(i, n)
           rest == OwsRest(i, n)
           sent == v10[i].sent
           input == v10[i].input
           new == [v10[i] EXCEPT !.input = Tail(all), !.sent = SubSeq(sent, n + 1, Len(sent))]
<1>0. /\ v10[i] \in OwsConn /\ sent \in Seq(OwsMsgs) /\ input \in Seq(OwsMsgs)
      /\ Len(sent) \in Nat /\ Len(input) \in Nat /\ \A k \in 1 .. Len(sent) : sent[k] \in OwsMsgs
  <2>1. v10[i] \in OwsConn BY ElementOfSeq
  <2>2. sent \in Seq(OwsMsgs) /\ input \in Seq(OwsMsgs) BY <2>1 DEF OwsConn
  <2> QED BY <2>1, <2>2, LenProperties, ElementOfSeq
<1>1. /\ SubSeq(sent, 1, n) \in Seq(OwsMsgs) /\ Len(SubSeq(sent, 1, n)) = n
      /\ SubSeq(sent, n + 1, Len(sent)) \in Seq(OwsMsgs)
  <2>1. 1 \in Int /\ n \in Int /\ n + 1 \in Int /\ Len(sent) \in Int BY <1>0
  <2>2. /\ \A k \in 1 .. n : sent[k] \in OwsMsgs
        /\ \A k \in n + 1 .. Len(sent) : sent[k] \in OwsMsgs
    BY <1>0
  <2>3. SubSeq(sent, 1, n) \in Seq(OwsMsgs) /\ Len(SubSeq(sent, 1, n)) = n
    BY <2>1, <2>2, SubSeqProperties
  <2>4. SubSeq(sent, n + 1, Len(sent)) \in Seq(OwsMsgs) BY <2>1, <2>2, SubSeqProperties
  <2> QED BY <2>3, <2>4
<1>2. all \in Seq(OwsMsgs) /\ all # <<>>
  <2>1. all \in Seq(OwsMsgs) /\ Len(all) = Len(input) + n
    BY <1>0, <1>1, ConcatProperties DEF OwsAll
  <2> HIDE DEF all
  <2>2. Len(all) # 0 BY <1>0, <2>1
  <2>3. Len(<<>>) = 0 BY EmptySeq
  <2> QED BY <2>1, <2>2, <2>3
<1>3. Head(all) \in OwsMsgs /\ Tail(all) \in Seq(OwsMsgs) BY <1>2, HeadTailProperties
<1>4. /\ new \in OwsConn /\ new.asked = v10[i].asked /\ new.input = Tail(all)
      /\ new.sent = SubSeq(sent, n + 1, Len(sent))
  <2> HIDE DEF all
  <2> QED BY <1>0, <1>1, <1>3 DEF OwsConn
<1>5. rest = [v10 EXCEPT ![i] = new] BY DEF OwsRest, OwsAll
<1>6. /\ rest \in Seq(OwsConn) /\ Len(rest) = Len(v10)
      /\ \A j \in 1 .. Len(v10) : rest[j] = IF j = i THEN new ELSE v10[j]
  <2> HIDE DEF new, rest
  <2> QED BY <1>4, <1>5, ExceptSeq
<1>7. ASSUME OneAtATime(v10, v15), rest[i].input = <<>>
      PROVE  /\ ~NoneAsked(v10)
             /\ OneAtATime(rest, v15)
             /\ Head(all) \in Good(v15) \cup {<<"bad">>, <<"ping">>}
             /\ Head(all) # <<"ping">> => NoneAsked(rest)
  <2>1. sent # <<>>
    <3>1. Len(sent) # 0 BY <1>0
    <3>2. Len(<<>>) = 0 BY EmptySeq
    <3> QED BY <3>1, <3>2
  <2>2. /\ InTurn(v10[i], v15)
        /\ \A j \in 1 .. Len(v10) : Owsrv!Pending(v10[j]) => j = i
    BY <1>7, <2>1 DEF OneAtATime, Owsrv!Pending
  <2>3. ~NoneAsked(v10) BY <2>1 DEF NoneAsked, Owsrv!Pending
  <2>4. PICK g \in Good(v15) : sent \in {<<g>>, <<<<"bad">>>>, <<<<"ping">>, g>>}
    BY <2>1, <2>2 DEF InTurn
  <2>5. v10[i].asked = <<>> /\ input = <<>> BY <2>1, <2>2 DEF InTurn
  <2>6. all = SubSeq(sent, 1, n)
    <3>1. <<>> \o SubSeq(sent, 1, n) = SubSeq(sent, 1, n) BY <1>1, ConcatEmptySeq
    <3> QED BY <2>5, <3>1 DEF OwsAll
  <2>7. Tail(all) = <<>> BY <1>4, <1>6, <1>7
  <2>8. ASSUME NEW x, sent = <<x>>, x \in {g, <<"bad">>}
        PROVE  /\ Head(all) \in Good(v15) \cup {<<"bad">>, <<"ping">>}
               /\ new.asked = <<>> /\ new.sent = <<>> /\ new.input = <<>>
    <3>1. Len(sent) = 1 /\ n = 1 BY <2>8
    <3>2. SubSeq(<<x>>, 1, 1) = <<x>> /\ SubSeq(<<x>>, 2, 1) = <<>> BY SubSeqs
    <3>3. Head(all) = x BY <2>6, <2>8, <3>1, <3>2
    <3> QED BY <1>4, <2>5, <2>7, <2>8, <3>1, <3>2, <3>3
  <2>9. ASSUME sent = <<<<"ping">>, g>>
        PROVE  /\ Head(all) = <<"ping">>
               /\ new.asked = <<>> /\ new.sent = <<g>> /\ new.input = <<>>
    <3>1. Len(sent) = 2 /\ n \in {1, 2} BY <2>9
    <3>2. n # 2
      <4>1. SubSeq(<<<<"ping">>, g>>, 1, 2) = <<<<"ping">>, g>> BY SubSeqs
      <4>2. Tail(<<<<"ping">>, g>>) = <<g>> /\ <<g>> # <<>> OBVIOUS
      <4> QED BY <2>6, <2>7, <2>9, <4>1, <4>2
    <3>3. /\ SubSeq(<<<<"ping">>, g>>, 1, 1) = <<<<"ping">>>>
          /\ SubSeq(<<<<"ping">>, g>>, 2, 2) = <<g>>
      BY SubSeqs
    <3>4. Head(all) = <<"ping">>
      <4>1. n = 1 BY <3>1, <3>2
      <4>2. all = <<<<"ping">>>> BY <2>6, <2>9, <3>3, <4>1
      <4> HIDE DEF all
      <4> QED BY <4>2
    <3>5. n + 1 = 2 /\ Len(sent) = 2 BY <3>1, <3>2
    <3>6. SubSeq(sent, n + 1, Len(sent)) = <<g>> BY <2>9, <3>3, <3>5
    <3> HIDE DEF new, all
    <3>7. new.sent = <<g>> BY <1>4, <3>6
    <3> QED BY <1>4, <2>5, <2>7, <3>4, <3>7
  <2> HIDE DEF new, all, rest
  <2>10. CASE sent = <<g>> \/ sent = <<<<"bad">>>>
    <3>1. /\ Head(all) \in Good(v15) \cup {<<"bad">>, <<"ping">>}
          /\ ~Owsrv!Pending(new)
      BY <2>8, <2>10 DEF Owsrv!Pending
    <3>2. NoneAsked(rest) BY <1>6, <2>2, <3>1 DEF NoneAsked
    <3>3. OneAtATime(rest, v15) BY <3>2 DEF NoneAsked, OneAtATime
    <3> QED BY <2>3, <3>1, <3>2, <3>3
  <2>11. CASE sent = <<<<"ping">>, g>>
    <3>1. InTurn(new, v15) /\ Head(all) = <<"ping">> BY <2>9, <2>11 DEF InTurn
    <3>2. OneAtATime(rest, v15) BY <1>6, <2>2, <3>1 DEF OneAtATime
    <3> QED BY <2>3, <3>1, <3>2
  <2> QED BY <2>4, <2>10, <2>11
<1> QED BY <1>3, <1>6, <1>7

LEMMA OwsInitI == Owsrv!OwsrvAssumption /\ Owsrv!Init => OwsInv
<1> SUFFICES ASSUME Owsrv!OwsrvAssumption, Owsrv!Init PROVE OwsInv OBVIOUS
<1> DEFINE first == Owsrv!NewConn(<<"dirall">>)
<1>1. /\ v1 = "connecting" /\ v5 = Owsrv!NothingTold /\ v4 = IF v6 THEN {} ELSE v8
      /\ v8 \subseteq Owsrv!Bus
      /\ v10 = <<first>> /\ v11 = 1 /\ v13 = Owsrv!SetToSeq(v8) /\ v14 = 0 /\ v15 = <<"dirall">>
      /\ v19 = [d \in Owsrv!Bus |-> 0]
  BY DEF Owsrv!Init, Owsrv!LinkInit, Owsrv!OwsrvAssumption, Owsrv!OWSM_DIRALL
<1>2. <<"dirall">> \in OwsCmds BY DEF OwsCmds
<1>3. first \in OwsConn /\ InTurn(first, <<"dirall">>)
  <2>1. <<>> \in Seq(OwsCmds) /\ <<>> \in Seq(OwsMsgs) /\ <<<<"dirall">>>> \in Seq(OwsCmds)
    BY <1>2, EmptySeq
  <2> QED BY <2>1 DEF Owsrv!NewConn, OwsConn, InTurn
<1>4. v10 \in Seq(OwsConn) /\ Len(v10) = 1 /\ v10[1] = first
  <2> HIDE DEF first
  <2> QED BY <1>1, <1>3
<1>5. /\ v13 \in Seq(v8) /\ Len(v13) \in Nat /\ v13 \in [1 .. Len(v13) -> v8]
      /\ \A x \in v8 : \E i \in 1 .. Len(v13) : v13[i] = x
  BY <1>1, BusLists, LenProperties
<1>6. v13 \in Seq(0 .. 2)
  <2>1. v8 \subseteq 0 .. 2 BY <1>1 DEF Owsrv!Bus
  <2> QED BY <1>5, <2>1, SeqMonotonic
<1>7. OwsTypes BY <1>1, <1>2, <1>4, <1>6 DEF OwsTypes
<1>8. OwsLink
  <2>1. v8 \subseteq {v13[i] : i \in DOMAIN v13} BY <1>5
  <2>2. DOMAIN v5 = {} BY <1>1 DEF Owsrv!NothingTold
  <2> QED BY <1>1, <2>1, <2>2 DEF OwsLink
<1>9. OwsTurns
  <2>1. OneAtATime(v10, v15) BY <1>1, <1>3, <1>4 DEF OneAtATime
  <2>2. LastIsCurrent BY <1>1 DEF LastIsCurrent
  <2>3. DOMAIN v5 = {} BY <1>1 DEF Owsrv!NothingTold
  <2>4. \A i \in DOMAIN v13 : v13[i] # 0 BY <1>1, <1>5 DEF Owsrv!Bus
  <2> QED BY <2>1, <2>2, <2>3, <2>4 DEF OwsTurns, Owsrv!JUNK
<1> QED BY <1>7, <1>8, <1>9 DEF OwsInv

\* The connection to gnhastd, when the table stays.
LEMMA OwsLinks ==
  ASSUME OwsLink, v8' = v8, v6' = v6, v13' = v13,
         \/ Owsrv!LinkUp \/ Owsrv!LinkLost
         \/ Owsrv!LinkRetry(IF v6 THEN {} ELSE {v13[i] : i \in DOMAIN v13} \cap v8)
         \/ Owsrv!LinkSigterm \/ Owsrv!LinkShutdown \/ UNCHANGED Owsrv!linkVars
  PROVE  OwsLink' /\ \A d \in DOMAIN v5' : d \in DOMAIN v5 /\ v5'[d] = v5[d]
<1> USE DEF OwsLink
<1>1. CASE Owsrv!LinkUp BY <1>1 DEF Owsrv!LinkUp
<1>2. CASE Owsrv!LinkLost
  <2>1. DOMAIN Owsrv!NothingTold = {} BY DEF Owsrv!NothingTold
  <2> QED BY <1>2, <2>1 DEF Owsrv!LinkLost
<1>3. CASE Owsrv!LinkRetry(IF v6 THEN {} ELSE {v13[i] : i \in DOMAIN v13} \cap v8)
  <2> DEFINE table == {v13[i] : i \in DOMAIN v13}
  <2>0. v8 \subseteq table /\ v2 /\ DOMAIN v5 = {} BY <1>3 DEF Owsrv!LinkRetry
  <2>1. /\ v1' = "connecting" /\ v4' = (IF v6 THEN {} ELSE table \cap v8) /\ v5' = v5
    BY <1>3, <2>0 DEF Owsrv!LinkRetry
  <2> HIDE DEF table
  <2>2. ~v6 => v4' = v8 BY <2>0, <2>1
  <2>3. v8' \subseteq {v13'[i] : i \in DOMAIN v13'} BY <2>0 DEF table
  <2> QED BY <2>0, <2>1, <2>2, <2>3
<1>4. CASE Owsrv!LinkSigterm BY <1>4 DEF Owsrv!LinkSigterm, Owsrv!Running
<1>5. CASE Owsrv!LinkShutdown BY <1>5 DEF Owsrv!LinkShutdown
<1>6. CASE UNCHANGED Owsrv!linkVars BY <1>6 DEF Owsrv!linkVars
<1> QED BY <1>1, <1>2, <1>3, <1>4, <1>5, <1>6

\* A reading is told of a device of the configuration.
LEMMA OwsTells ==
  ASSUME OwsLink, v8' = v8, v6' = v6, v13' = v13, NEW e \in v8, NEW m,
         Owsrv!Say({}, [d \in {e} |-> m])
  PROVE  /\ OwsLink'
         /\ \A d \in DOMAIN v5' : \/ d \in DOMAIN v5 /\ v5'[d] = v5[d]
                                  \/ d = e /\ v5'[d] = m
<1> DEFINE vals == [d \in {e} |-> m]
<1>0. DOMAIN vals = {e} /\ vals[e] = m OBVIOUS
<1> HIDE DEF vals
<1>s. Owsrv!Say({}, vals) BY DEF vals
<1>1. CASE v1 \in {"connecting", "up"}
  <2>1. /\ v1' = v1 /\ v4' = v4 /\ UNCHANGED v2
        /\ v5' = [d \in DOMAIN v5 \cup {e} |-> IF d \in {e} THEN vals[d] ELSE v5[d]]
    BY <1>0, <1>1, <1>s DEF Owsrv!Say
  <2>2. DOMAIN v5' = DOMAIN v5 \cup {e} BY <2>1
  <2>3. \A d \in DOMAIN v5' : \/ d \in DOMAIN v5 /\ v5'[d] = v5[d]
                              \/ d = e /\ v5'[d] = m
    BY <1>0, <2>1
  <2> QED BY <1>1, <2>1, <2>2, <2>3 DEF OwsLink
<1>2. CASE v1 = "waiting"
  BY <1>2, <1>s DEF Owsrv!Say, Owsrv!linkVars, OwsLink
<1> QED BY <1>1, <1>2, <1>s DEF Owsrv!Say

\* The read of a message.
LEMMA OwsReadStep ==
  ASSUME OwsInv, NEW i \in 1 .. Len(v10), NEW n \in 1 .. 2, Owsrv!ows_buf_read_cb(i, n)
  PROVE  OwsInv'
<1> DEFINE m == Head(OwsAll(i, n))
           cs == OwsRest(i, n)
<1>0. OwsTypes /\ OwsLink /\ OwsTurns BY DEF OwsInv
<1>1. /\ n \in 1 .. Len(v10[i].sent)
      /\ UNCHANGED <<v6, v7, v8, v9, v19>>
      /\ v20' = (v20 \/ cs[i].input # <<>>)
      /\ IF m[1] = "ping"
         THEN Owsrv!NotAsked(cs) /\ UNCHANGED <<Owsrv!linkVars, v13, v14>>
         ELSE IF m[1] = "bad"
         THEN UNCHANGED <<Owsrv!linkVars, v13>> /\ Owsrv!readcbout(v14, cs)
         ELSE IF v15 = <<"dirall">>
         THEN /\ v13' = Owsrv!ows_handle_dirall(IF m[1] = "dirall" THEN Owsrv!Bus ELSE {Owsrv!JUNK})
              /\ Owsrv!readcbout(1, cs)
              /\ IF v6 THEN v1' = "exited" /\ UNCHANGED <<v2, v3, v4, v5>>
                 ELSE UNCHANGED Owsrv!linkVars
         ELSE /\ UNCHANGED v13
              /\ IF v14 # 0 /\ v13[v14] \in v8
                 THEN Owsrv!Say({}, [d \in {v13[v14]} |-> Owsrv!Reading(m)])
                 ELSE UNCHANGED Owsrv!linkVars
              /\ Owsrv!readcbout(v14, cs)
  BY DEF Owsrv!ows_buf_read_cb, Owsrv!constant, Owsrv!counts, OwsAll, OwsRest, Owsrv!OWSM_DIRALL
<1>2. v10 \in Seq(OwsConn) /\ v11 \in 0 .. Len(v10) /\ v13 \in Seq(0 .. 2) /\ v14 \in Nat
      /\ v15 \in OwsCmds
  BY <1>0 DEF OwsTypes
<1>3. /\ m \in OwsMsgs /\ cs \in Seq(OwsConn) /\ Len(cs) = Len(v10)
      /\ OneAtATime(v10, v15) /\ cs[i].input = <<>> =>
           /\ ~NoneAsked(v10)
           /\ OneAtATime(cs, v15)
           /\ m \in Good(v15) \cup {<<"bad">>, <<"ping">>}
           /\ m # <<"ping">> => NoneAsked(cs)
  BY <1>1, <1>2, OwsReads
<1> HIDE DEF m, cs
<1>4. v11 \in 0 .. Len(cs) BY <1>2, <1>3
<1>5. /\ m[1] = "ping" <=> m = <<"ping">>
      /\ m[1] = "bad" <=> m = <<"bad">>
      /\ m[1] = "dirall" <=> m = <<"dirall">>
  BY <1>3 DEF OwsMsgs
<1>6. ~v20' => /\ ~v20 /\ ~NoneAsked(v10) /\ LastIsCurrent
               /\ OneAtATime(cs, v15)
               /\ m \in Good(v15) \cup {<<"bad">>, <<"ping">>}
               /\ m # <<"ping">> => NoneAsked(cs)
  BY <1>0, <1>1, <1>3 DEF OwsTurns
<1>7. CASE m[1] = "ping"
  <2>1. v10' = cs /\ UNCHANGED <<v11, v15, v13, v14, v1, v2, v4, v5>>
    BY <1>1, <1>7 DEF Owsrv!NotAsked, Owsrv!linkVars
  <2>2. OwsTypes' BY <1>0, <1>1, <1>3, <2>1 DEF OwsTypes
  <2>3. OwsLink' BY <1>0, <1>1, <2>1 DEF OwsLink
  <2>4. OwsTurns' BY <1>0, <1>6, <2>1 DEF OwsTurns, LastIsCurrent
  <2> QED BY <2>2, <2>3, <2>4 DEF OwsInv
<1>8. ASSUME v13' \in Seq(0 .. 2), OwsMoves(cs), m # <<"ping">>, OwsLink',
             ~v20' => /\ \A d \in DOMAIN v5' : v5'[d][1] = "read" /\ v5'[d][2] = d
                      /\ \A k \in DOMAIN v13' : v13'[k] # Owsrv!JUNK
      PROVE  OwsInv'
  <2>1. OwsTypes' BY <1>0, <1>1, <1>8 DEF OwsTypes, OwsMoves
  <2>2. OwsTurns' BY <1>6, <1>8 DEF OwsTurns, OwsMoves
  <2> QED BY <1>8, <2>1, <2>2 DEF OwsInv
<1>9. CASE m[1] = "bad"
  <2>1. UNCHANGED <<v1, v2, v4, v5, v13>> /\ Owsrv!readcbout(v14, cs)
    BY <1>1, <1>9 DEF Owsrv!linkVars
  <2>2. OwsMoves(cs) BY <1>2, <1>3, <1>4, <2>1, OwsGoesOn
  <2>3. OwsLink' BY <1>0, <1>1, <2>1 DEF OwsLink
  <2> QED BY <1>0, <1>2, <1>5, <1>6, <1>8, <1>9, <2>1, <2>2, <2>3 DEF OwsTurns
<1>10. CASE m[1] \notin {"ping", "bad"} /\ v15 = <<"dirall">>
  <2> DEFINE names == IF m[1] = "dirall" THEN Owsrv!Bus ELSE {Owsrv!JUNK}
             table == {v13[k] : k \in DOMAIN v13}
             more == Owsrv!SetToSeq(names \ table)
  <2>1. /\ v13' = v13 \o more
        /\ Owsrv!readcbout(1, cs)
        /\ IF v6 THEN v1' = "exited" /\ UNCHANGED <<v2, v3, v4, v5>> ELSE UNCHANGED Owsrv!linkVars
    BY <1>1, <1>10 DEF Owsrv!ows_handle_dirall
  <2>2. names \ table \subseteq names /\ IsFiniteSet(names \ table)
    <3>1. IsFiniteSet(1 .. 2) BY 1 \in Int, 2 \in Int, FS_Interval
    <3>2. IsFiniteSet({Owsrv!JUNK}) BY FS_Singleton
    <3>3. IsFiniteSet(names) BY <3>1, <3>2 DEF Owsrv!Bus
    <3> QED BY <3>3, FS_Subset
  <2>3. more \in Seq(names) /\ Len(more) \in Nat
    <3>1. more \in Seq(names \ table) BY <2>2, SetLists
    <3>2. Seq(names \ table) \subseteq Seq(names) BY <2>2, SeqMonotonic
    <3>3. more \in Seq(names) BY <3>1, <3>2
    <3> HIDE DEF more, names
    <3> QED BY <3>3, LenProperties
  <2>4. names \subseteq 0 .. 2 BY DEF Owsrv!Bus, Owsrv!JUNK
  <2> HIDE DEF more
  <2>5. /\ v13' \in Seq(0 .. 2) /\ Len(v13) \in Nat /\ Len(v13') = Len(v13) + Len(more)
        /\ \A k \in 1 .. Len(v13') : v13'[k] = IF k <= Len(v13) THEN v13[k] ELSE more[k - Len(v13)]
    <3>1. more \in Seq(0 .. 2)
      <4> HIDE DEF names
      <4> QED BY <2>3, <2>4, SeqMonotonic
    <3>2. /\ v13 \o more \in Seq(0 .. 2) /\ Len(v13 \o more) = Len(v13) + Len(more)
          /\ \A k \in 1 .. Len(v13) + Len(more) :
               (v13 \o more)[k] = IF k <= Len(v13) THEN v13[k] ELSE more[k - Len(v13)]
      BY <1>2, <3>1, ConcatProperties
    <3>3. Len(v13) \in Nat BY <1>2, LenProperties
    <3> QED BY <2>1, <3>2, <3>3
  <2>6. DOMAIN v13 = 1 .. Len(v13) /\ DOMAIN v13' = 1 .. Len(v13')
    BY <1>2, <2>5, LenProperties
  <2>7. OwsMoves(cs) BY <1>2, <1>3, <1>4, <2>1, <2>5, 1 \in Nat, OwsGoesOn
  <2>8. OwsLink'
    <3>1. \A k \in DOMAIN v13 : k \in DOMAIN v13' /\ v13'[k] = v13[k] BY <2>3, <2>5, <2>6
    <3>2. v8' \subseteq {v13'[k] : k \in DOMAIN v13'}
      <4>1. \A x \in v8 : \E k \in DOMAIN v13 : v13[k] = x BY <1>0 DEF OwsLink
      <4> QED BY <1>1, <3>1, <4>1
    <3>3. CASE v6
      <4>1. v1' = "exited" /\ UNCHANGED <<v2, v4, v5>> BY <2>1, <3>3
      <4> QED BY <1>1, <3>2, <3>3, <4>1 DEF OwsLink
    <3>4. CASE ~v6
      <4>1. UNCHANGED <<v1, v2, v4, v5>> BY <2>1, <3>4 DEF Owsrv!linkVars
      <4> QED BY <1>0, <1>1, <3>2, <4>1 DEF OwsLink
    <3> QED BY <3>3, <3>4
  <2>9. v5' = v5 BY <2>1 DEF Owsrv!linkVars
  <2>10. ASSUME ~v20', NEW k \in DOMAIN v13' PROVE v13'[k] # Owsrv!JUNK
    <3>1. m = <<"dirall">> BY <1>5, <1>6, <1>10, <2>10 DEF Good
    <3>2. names = Owsrv!Bus BY <3>1
    <3>3. \A j \in 1 .. Len(more) : more[j] # Owsrv!JUNK
      <4>1. more \in Seq(Owsrv!Bus) BY <2>3, <3>2
      <4>2. \A j \in 1 .. Len(more) : more[j] \in Owsrv!Bus BY <4>1, ElementOfSeq
      <4> QED BY <4>2 DEF Owsrv!Bus, Owsrv!JUNK
    <3>4. \A j \in 1 .. Len(v13) : v13[j] # Owsrv!JUNK
      BY <1>0, <1>6, <2>6, <2>10 DEF OwsTurns
    <3>5. k \in 1 .. Len(v13') BY <2>6
    <3>6. CASE k <= Len(v13) BY <2>5, <3>4, <3>5, <3>6
    <3>7. CASE k > Len(v13)
      <4>1. k - Len(v13) \in 1 .. Len(more) BY <2>3, <2>5, <3>5, <3>7
      <4> QED BY <2>5, <3>3, <3>5, <3>7, <4>1
    <3> QED BY <2>5, <3>5, <3>6, <3>7
  <2> HIDE DEF names, table
  <2> QED BY <1>0, <1>5, <1>6, <1>8, <1>10, <2>5, <2>7, <2>8, <2>9, <2>10 DEF OwsTurns
<1>11. CASE m[1] \notin {"ping", "bad"} /\ v15 # <<"dirall">>
  <2>1. /\ UNCHANGED v13
        /\ IF v14 # 0 /\ v13[v14] \in v8
           THEN Owsrv!Say({}, [d \in {v13[v14]} |-> Owsrv!Reading(m)])
           ELSE UNCHANGED Owsrv!linkVars
        /\ Owsrv!readcbout(v14, cs)
    BY <1>1, <1>11
  <2>2. OwsMoves(cs) BY <1>2, <1>3, <1>4, <2>1, OwsGoesOn
  <2>3. OwsLink' /\ \A d \in DOMAIN v5' : \/ d \in DOMAIN v5 /\ v5'[d] = v5[d]
                                          \/ d = v13[v14] /\ v5'[d] = Owsrv!Reading(m)
    <3>1. CASE v14 # 0 /\ v13[v14] \in v8
      <4>1. Owsrv!Say({}, [d \in {v13[v14]} |-> Owsrv!Reading(m)]) BY <2>1, <3>1
      <4> QED BY <1>0, <1>1, <2>1, <3>1, <4>1, OwsTells
    <3>2. CASE ~(v14 # 0 /\ v13[v14] \in v8)
      BY <1>0, <1>1, <2>1, <3>2, OwsLinks
    <3> QED BY <3>1, <3>2
  <2>4. ASSUME ~v20', NEW d \in DOMAIN v5' PROVE v5'[d][1] = "read" /\ v5'[d][2] = d
    <3>1. m \in Good(v15) /\ v15 = <<"read", v13[v14]>>
      BY <1>5, <1>6, <1>11, <2>4 DEF LastIsCurrent
    <3>2. PICK x \in 0 .. 1 : m = <<"read", v13[v14], x>>
      <4>1. <<"read", v13[v14]>>[2] = v13[v14] OBVIOUS
      <4> QED BY <1>11, <3>1, <4>1 DEF Good
    <3>3. Owsrv!Reading(m) = m BY <3>2 DEF Owsrv!Reading
    <3>4. ~v20 BY <1>6, <2>4
    <3>5. CASE d \in DOMAIN v5 /\ v5'[d] = v5[d] BY <1>0, <3>4, <3>5 DEF OwsTurns
    <3>6. CASE d = v13[v14] /\ v5'[d] = m BY <3>2, <3>6
    <3> QED BY <2>3, <3>3, <3>5, <3>6
  <2> QED BY <1>0, <1>2, <1>5, <1>6, <1>8, <1>11, <2>1, <2>2, <2>3, <2>4 DEF OwsTurns
<1> QED BY <1>7, <1>9, <1>10, <1>11

LEMMA OwsStepI == OwsInv /\ Owsrv!Next => OwsInv'
<1> SUFFICES ASSUME OwsInv, Owsrv!Next PROVE OwsInv' OBVIOUS
<1>0. OwsTypes /\ OwsLink /\ OwsTurns BY DEF OwsInv
<1>t. v10 \in Seq(OwsConn) /\ v11 \in 0 .. Len(v10) /\ v13 \in Seq(0 .. 2) /\ v14 \in Nat
      /\ v15 \in OwsCmds /\ Len(v10) \in Nat
  BY <1>0, LenProperties DEF OwsTypes
<1> USE DEF Owsrv!constant, Owsrv!counts, Owsrv!chain
\* What lets the connections to the owserver alone, and tells nothing new.
<1>1. ASSUME UNCHANGED <<v8, v10, v11, v13, v14, v15, v20>>, v19' \in [Owsrv!Bus -> 0 .. 1],
             OwsLink', \A d \in DOMAIN v5' : d \in DOMAIN v5 /\ v5'[d] = v5[d]
      PROVE  OwsInv'
  <2>1. OwsTypes' BY <1>0, <1>1 DEF OwsTypes
  <2>2. OwsTurns' BY <1>0, <1>1 DEF OwsTurns, LastIsCurrent
  <2> QED BY <1>1, <2>1, <2>2 DEF OwsInv
\* What asks, from a timer.
<1>2. ASSUME UNCHANGED <<v1, v2, v4, v5, v6, v8, v13, v19>>, OwsMoves(v10),
             v20' = (v20 \/ \E i \in DOMAIN v10 : Owsrv!Pending(v10[i]))
      PROVE  OwsInv'
  <2>1. OwsTypes' BY <1>0, <1>2 DEF OwsTypes, OwsMoves
  <2>2. OwsLink' BY <1>0, <1>2 DEF OwsLink
  <2>3. ~v20' => ~v20 /\ NoneAsked(v10)
    <3>1. DOMAIN v10 = 1 .. Len(v10) BY <1>t, LenProperties
    <3> QED BY <1>2, <3>1 DEF NoneAsked
  <2>4. OwsTurns' BY <1>0, <1>2, <2>3 DEF OwsTurns, OwsMoves
  <2> QED BY <2>1, <2>2, <2>4 DEF OwsInv
<1>3. ASSUME NEW i \in 1 .. Len(v10), Owsrv!OwAnswers(i) PROVE OwsInv'
  <2> DEFINE c == Head(v10[i].asked)
             good == IF c = <<"dirall">> THEN c ELSE <<"read", c[2], v19[c[2]]>>
             Adds(w) == v10' = [v10 EXCEPT ![i].asked = Tail(@), ![i].sent = @ \o w]
             Bads == {<<<<"bad">>>>, <<<<"ping">>, good>>}
  <2>1. /\ v10[i].asked # <<>>
        /\ UNCHANGED <<v1, v2, v4, v5, v6, v8, v11, v13, v14, v15, v19, v20>>
    BY <1>3, Zenon DEF Owsrv!OwAnswers, Owsrv!linkVars
  <2>r. \/ v10' = [v10 EXCEPT ![i].asked = Tail(@), ![i].sent = Append(@, good)]
        \/ \E w \in Bads : Adds(w)
    BY <1>3, Zenon DEF Owsrv!OwAnswers, Owsrv!OWSM_DIRALL
  <2>3. v10[i] \in OwsConn BY <1>t, ElementOfSeq
  <2>2. PICK w \in Bads \cup {<<good>>} : Adds(w)
    <3> HIDE DEF good, Bads
    <3>1. ASSUME v10' = [v10 EXCEPT ![i].asked = Tail(@), ![i].sent = Append(@, good)]
          PROVE  Adds(<<good>>)
      <4>1. v10[i].sent \in Seq(OwsMsgs) BY <2>3 DEF OwsConn
      <4>2. Append(v10[i].sent, good) = v10[i].sent \o <<good>> BY <4>1, AppendIsConcat
      <4> QED BY <1>t, <3>1, <4>2
    <3> HIDE DEF Adds
    <3> QED BY <2>r, <3>1
  <2>4. /\ v10[i].asked \in Seq(OwsCmds) /\ v10[i].sent \in Seq(OwsMsgs)
        /\ c \in OwsCmds /\ Tail(v10[i].asked) \in Seq(OwsCmds)
    <3>1. v10[i].asked \in Seq(OwsCmds) /\ v10[i].sent \in Seq(OwsMsgs) /\ v10[i].asked # <<>>
      BY <2>1, <2>3 DEF OwsConn
    <3> DEFINE a == v10[i].asked
    <3> HIDE DEF a
    <3>2. a \in Seq(OwsCmds) /\ a # <<>> BY <3>1 DEF a
    <3>3. Head(a) \in OwsCmds /\ Tail(a) \in Seq(OwsCmds) BY <3>2, HeadTailProperties
    <3> QED BY <3>1, <3>3 DEF a
  <2> HIDE DEF Adds
  <2>5. good \in OwsMsgs /\ good \in Good(c)
    <3>1. CASE c = <<"dirall">> BY <3>1 DEF OwsMsgs, Good
    <3>2. CASE c # <<"dirall">>
      <4>1. c[2] \in Owsrv!Bus BY <2>4, <3>2 DEF OwsCmds
      <4>2. v19[c[2]] \in 0 .. 1 BY <1>0, <4>1 DEF OwsTypes
      <4> QED BY <3>2, <4>1, <4>2 DEF OwsMsgs, Good
    <3> QED BY <3>1, <3>2
  <2> HIDE DEF good
  <2>6. w \in Seq(OwsMsgs)
    <3>1. <<"bad">> \in OwsMsgs /\ <<"ping">> \in OwsMsgs BY DEF OwsMsgs
    <3>2. /\ <<good>> \in Seq(OwsMsgs) /\ <<<<"bad">>>> \in Seq(OwsMsgs)
          /\ <<<<"ping">>, good>> \in Seq(OwsMsgs)
      BY <2>5, <3>1
    <3> QED BY <3>2
  <2> DEFINE new == [v10[i] EXCEPT !.asked = Tail(@), !.sent = @ \o w]
  <2>7. /\ new \in OwsConn /\ new.asked = Tail(v10[i].asked) /\ new.sent = v10[i].sent \o w
        /\ new.input = v10[i].input
    <3>1. v10[i].sent \o w \in Seq(OwsMsgs) BY <2>4, <2>6, ConcatProperties
    <3> QED BY <2>3, <2>4, <3>1 DEF OwsConn
  <2>8. v10' = [v10 EXCEPT ![i] = new] BY <1>t, <2>2 DEF Adds
  <2> HIDE DEF new
  <2>9. /\ v10' \in Seq(OwsConn) /\ Len(v10') = Len(v10)
        /\ \A j \in 1 .. Len(v10) : v10'[j] = IF j = i THEN new ELSE v10[j]
    BY <1>t, <2>7, <2>8, ExceptSeq
  <2>10. ASSUME OneAtATime(v10, v15) PROVE OneAtATime(v10', v15) /\ ~NoneAsked(v10)
    <3>1. Owsrv!Pending(v10[i]) BY <2>1 DEF Owsrv!Pending
    <3>2. InTurn(v10[i], v15) /\ \A j \in 1 .. Len(v10) : Owsrv!Pending(v10[j]) => j = i
      BY <2>10, <3>1 DEF OneAtATime
    <3>3. v10[i].asked = <<v15>> /\ v10[i].sent = <<>> /\ v10[i].input = <<>>
      BY <2>1, <3>2 DEF InTurn
    <3>4. c = v15 /\ Tail(<<v15>>) = <<>> BY <3>3
    <3>5. <<>> \o w = w BY <2>6, ConcatEmptySeq
    <3>6. InTurn(new, v15)
      <4>1. new.asked = <<>> /\ new.sent = w /\ new.input = <<>> BY <2>7, <3>3, <3>4, <3>5
      <4>2. good \in Good(v15) BY <2>5, <3>4
      <4>3. w \in {<<good>>, <<<<"bad">>>>, <<<<"ping">>, good>>} OBVIOUS
      <4> QED BY <4>1, <4>2, <4>3 DEF InTurn
    <3>7. OneAtATime(v10', v15)
      <4>1. ASSUME NEW j \in 1 .. Len(v10'), Owsrv!Pending(v10'[j]) PROVE j = i /\ v10'[j] = new
        BY <2>9, <3>2, <4>1
      <4> QED BY <2>9, <3>6, <4>1 DEF OneAtATime
    <3> QED BY <3>1, <3>7 DEF NoneAsked
  <2>11. OwsTypes' BY <1>0, <2>1, <2>9 DEF OwsTypes
  <2>12. OwsLink' BY <1>0, <2>1 DEF OwsLink
  <2>13. OwsTurns' BY <1>0, <2>1, <2>10 DEF OwsTurns, LastIsCurrent
  <2> QED BY <2>11, <2>12, <2>13 DEF OwsInv
<1>4. ASSUME NEW i \in 1 .. Len(v10), Owsrv!OwEof(i) PROVE OwsInv'
  <2>1. /\ v10' = Owsrv!RemoveAt(v10, i)
        /\ v11' = IF v11 = i THEN 0 ELSE IF v11 > i THEN v11 - 1 ELSE v11
        /\ UNCHANGED <<v1, v2, v4, v5, v6, v8, v13, v14, v15, v19, v20>>
    BY <1>4 DEF Owsrv!OwEof, Owsrv!linkVars
  <2>2. v10' \in Seq(OwsConn) /\ Len(v10') = Len(v10) - 1 BY <1>t, <2>1, Removed
  <2>3. v11' \in 0 .. Len(v10') BY <1>t, <2>1, <2>2
  <2>4. /\ OneAtATime(v10, v15) => OneAtATime(v10', v15)
        /\ NoneAsked(v10) => NoneAsked(v10')
    BY <1>t, <2>1, OwsRemoves
  <2>5. OwsTypes' BY <1>0, <2>1, <2>2, <2>3 DEF OwsTypes
  <2>6. OwsLink' BY <1>0, <2>1 DEF OwsLink
  <2>7. OwsTurns' BY <1>0, <2>1, <2>4 DEF OwsTurns, LastIsCurrent
  <2> QED BY <2>5, <2>6, <2>7 DEF OwsInv
<1>5. CASE Owsrv!ows_timer_cb
  <2>1. /\ v20' = (v20 \/ \E i \in DOMAIN v10 : Owsrv!Pending(v10[i]))
        /\ UNCHANGED <<v1, v2, v4, v5, v6, v8, v19>>
        /\ IF v14 = 0 THEN Owsrv!ows_schedule_dirall(v10)
           ELSE UNCHANGED v13 /\ Owsrv!ows_schedule_devread(v14, v10, FALSE)
    BY <1>5 DEF Owsrv!ows_timer_cb, Owsrv!linkVars
  <2>2. CASE v14 = 0
    <3>1. Owsrv!ows_schedule_dirall(v10) BY <2>1, <2>2
    <3>2. OwsMoves(v10) /\ v13' = v13 BY <1>t, <3>1, OwsLists
    <3> QED BY <1>2, <2>1, <3>2
  <2>3. CASE v14 # 0
    <3>1. v13' = v13 /\ Owsrv!ows_schedule_devread(v14, v10, FALSE) BY <2>1, <2>3
    <3>2. OwsMoves(v10) BY <1>t, <2>3, <3>1, OwsSchedules
    <3> QED BY <1>2, <2>1, <3>1, <3>2
  <2> QED BY <2>2, <2>3
<1>6. CASE Owsrv!ows_watchdog_cb
  <2>1. /\ v20' = (v20 \/ \E i \in DOMAIN v10 : Owsrv!Pending(v10[i]))
        /\ UNCHANGED <<v1, v2, v4, v5, v6, v8, v19>>
        /\ Owsrv!ows_schedule_dirall(v10)
    BY <1>6 DEF Owsrv!ows_watchdog_cb, Owsrv!linkVars
  <2>2. OwsMoves(v10) /\ v13' = v13 BY <1>t, <2>1, OwsLists
  <2> QED BY <1>2, <2>1, <2>2
<1>7. CASE Owsrv!BusChanges
  <2>1. PICK d \in Owsrv!Bus : v19' = [v19 EXCEPT ![d] = 1 - @]
    BY <1>7 DEF Owsrv!BusChanges
  <2>2. v19' \in [Owsrv!Bus -> 0 .. 1] BY <1>0, <2>1 DEF OwsTypes
  <2>3. UNCHANGED <<v1, v2, v4, v5, v6, v8, v10, v11, v13, v14, v15, v20>>
    BY <1>7 DEF Owsrv!BusChanges, Owsrv!linkVars
  <2>4. OwsLink' BY <1>0, <2>3 DEF OwsLink
  <2> QED BY <1>1, <2>2, <2>3, <2>4
<1>8. CASE Owsrv!connect_event_cb
  <2>1. /\ UNCHANGED <<v6, v8, v10, v11, v13, v14, v15, v19, v20>>
        /\ Owsrv!LinkUp \/ Owsrv!LinkLost
    BY <1>8 DEF Owsrv!connect_event_cb, Owsrv!owsVars
  <2>2. OwsLink' /\ \A d \in DOMAIN v5' : d \in DOMAIN v5 /\ v5'[d] = v5[d]
    BY <1>0, <2>1, OwsLinks
  <2> QED BY <1>0, <1>1, <2>1, <2>2 DEF OwsTypes
<1>9. CASE Owsrv!connect_server_cb
  <2>1. /\ UNCHANGED <<v6, v8, v10, v11, v13, v14, v15, v19, v20>>
        /\ Owsrv!LinkRetry(IF v6 THEN {} ELSE {v13[i] : i \in DOMAIN v13} \cap v8)
    BY <1>9 DEF Owsrv!connect_server_cb, Owsrv!owsVars
  <2>2. OwsLink' /\ \A d \in DOMAIN v5' : d \in DOMAIN v5 /\ v5'[d] = v5[d]
    BY <1>0, <2>1, OwsLinks
  <2> QED BY <1>0, <1>1, <2>1, <2>2 DEF OwsTypes
<1>10. CASE Owsrv!cb_sigterm
  <2>1. /\ UNCHANGED <<v6, v8, v13, v14, v15, v19, v20>> /\ Owsrv!LinkSigterm
        /\ v11' = 0
        /\ IF v11 = 0 THEN v10' = v10 ELSE v10' = Owsrv!RemoveAt(v10, v11)
    BY <1>10 DEF Owsrv!cb_sigterm
  <2>2. OwsLink' /\ \A d \in DOMAIN v5' : d \in DOMAIN v5 /\ v5'[d] = v5[d]
    BY <1>0, <2>1, OwsLinks
  <2>3. /\ v10' \in Seq(OwsConn) /\ Len(v10') \in Nat
        /\ OneAtATime(v10, v15) => OneAtATime(v10', v15)
        /\ NoneAsked(v10) => NoneAsked(v10')
    <3>1. CASE v11 = 0 BY <1>t, <2>1, <3>1
    <3>2. CASE v11 # 0
      <4>1. v11 \in 1 .. Len(v10) BY <1>t, <3>2
      <4>2. v10' \in Seq(OwsConn) BY <1>t, <2>1, <3>2, <4>1, Removed
      <4> QED BY <1>t, <2>1, <3>2, <4>1, <4>2, OwsRemoves, LenProperties
    <3> QED BY <3>1, <3>2
  <2>4. OwsTypes' BY <1>0, <2>1, <2>3 DEF OwsTypes
  <2>5. OwsTurns' BY <1>0, <2>1, <2>2, <2>3 DEF OwsTurns, LastIsCurrent
  <2> QED BY <2>2, <2>4, <2>5 DEF OwsInv
<1>11. CASE Owsrv!cb_shutdown
  <2>1. /\ UNCHANGED <<v6, v8, v10, v11, v13, v14, v15, v19, v20>> /\ Owsrv!LinkShutdown
    BY <1>11 DEF Owsrv!cb_shutdown, Owsrv!owsVars
  <2>2. OwsLink' /\ \A d \in DOMAIN v5' : d \in DOMAIN v5 /\ v5'[d] = v5[d]
    BY <1>0, <2>1, OwsLinks
  <2> QED BY <1>0, <1>1, <2>1, <2>2 DEF OwsTypes
<1> QED
  BY <1>3, <1>4, <1>5, <1>6, <1>7, <1>8, <1>9, <1>10, <1>11, OwsReadStep DEF Owsrv!Next

\* As long as nothing was mixed, what is told is what was read of the device.
LEMMA OwsSays == OwsInv => Owsrv!Truthful /\ Owsrv!Introduced
<1> SUFFICES ASSUME OwsInv PROVE Owsrv!Truthful /\ Owsrv!Introduced OBVIOUS
<1>1. Owsrv!Introduced BY DEF OwsInv, OwsLink, Owsrv!Introduced, Owsrv!RegisteredFirst
<1>2. ASSUME ~v20 PROVE Owsrv!JUNK \notin Owsrv!Range(v13)
  BY <1>2 DEF OwsInv, OwsTurns, Owsrv!Range
<1> QED BY <1>1, <1>2 DEF OwsInv, OwsTurns, Owsrv!Truthful

(***************************************************************************)
(* ad2usbcoll                                                              *)
(***************************************************************************)
\* Lines and keys on their way.
AdLine == [kind : {"armed", "ready", "hit", "fault", "other"}, val : Nat, bat : {0, 1}]
AdKey == {<<"*">>} \cup ({"code"} \X {0, 1, 4})
AdTypes ==
  /\ v2 \subseteq Ad2usb!PanelZone /\ v2 \subseteq v13 /\ v13 \subseteq Ad2usb!PanelZone
  /\ v3 \in {0, 1, 4} /\ v4 \in {0, 1} /\ v17 \in Nat
  /\ v7 \in Seq(AdLine) /\ v8 \in Seq(AdKey)
  /\ v9 \in [Ad2usb!Zone -> Nat]

\* A line that shows a fault of the zone, and the zone's fault being told.
Shows(l, z) == l.kind = "fault" /\ l.val = z
Told(t, z) == z \in DOMAIN t /\ t[z] = 1
\* The panel has been showing faults since the k-th line on its way: the zone's, as often
\* as those of one other.
Seen(z, k) ==
  /\ v3 = 0 /\ ~v5 /\ v6 \in v13
  /\ Len(v7) > 0 => v7[Len(v7)].val = v6
  /\ \A i \in k + 1 .. Len(v7) :
       /\ v7[i].kind = "fault" /\ v7[i].val \in v13
       /\ i < Len(v7) => v7[i].val = z \/ v7[i + 1].val = z
\* The zone is shown next.
Soon(z) == IF v7 = <<>> THEN v6 # z ELSE v7[1].val = z
Lasts(z) == z \in v2 \ v14 /\ Cardinality(v13) <= 2 /\ v17 = 0 /\ v15 = "no"
NeverShown(z) == ~Told(v12, z) /\ \A k \in 1 .. Len(v7) : ~Shows(v7[k], z)
SeenLines(z) == \A k \in 1 .. Len(v7) : Shows(v7[k], z) => Seen(z, k)
SeenTold(z) == Told(v12, z) => Seen(z, 0) /\ v9[z] >= 1 /\ (v9[z] = 1 => Soon(z))
AdZone(z) ==
  /\ z \notin v2 \cup v14 => NeverShown(z)
  /\ Lasts(z) => SeenLines(z) /\ SeenTold(z)
AdInv == AdTypes /\ \A z \in Ad2usb!Zone : AdZone(z)

LEMMA AdInitI == Ad2usb!Init => AdInv
<1> SUFFICES ASSUME Ad2usb!Init PROVE AdInv OBVIOUS
<1> USE DEF Ad2usb!Init
<1>1. AdTypes
  <2>1. <<>> \in Seq(AdLine) /\ <<>> \in Seq(AdKey) BY EmptySeq
  <2> QED BY <2>1 DEF AdTypes, Ad2usb!ALARM_READY
<1>2. ASSUME NEW z \in Ad2usb!Zone PROVE AdZone(z)
  <2>1. ~Told(v12, z)
    <3>1. DOMAIN v12 = {} OBVIOUS
    <3> QED BY <3>1 DEF Told
  <2>2. Len(v7) = 0 BY EmptySeq
  <2> QED BY <2>1, <2>2 DEF AdZone, NeverShown, Lasts
<1> QED BY <1>1, <1>2 DEF AdInv

\* Of two zones with a fault, each is shown after the other.
LEMMA NextShown ==
  ASSUME AdTypes, Ad2usb!Ad2usbAssumption
  PROVE  /\ v2 # {} => Ad2usb!Next1(v6) \in v2
         /\ \A z \in v2 : v6 \in v13 /\ v6 # z /\ Cardinality(v13) <= 2 => Ad2usb!Next1(v6) = z
<1> DEFINE after == {y \in v2 : y > v6}
           those == IF after = {} THEN v2 ELSE after
<1>1. Ad2usb!Next1(v6) = CHOOSE y \in those : \A x \in those : y <= x BY DEF Ad2usb!Next1
<1>2. v2 \subseteq Nat
  BY DEF AdTypes, Ad2usb!Ad2usbAssumption, Ad2usb!PanelZone
<1>3. CASE v2 # {}
  <2>1. those # {} /\ those \subseteq v2 BY <1>3
  <2>2. \E y \in those : \A x \in those : y <= x BY <1>2, <2>1, NatMin
  <2> HIDE DEF those
  <2>3. Ad2usb!Next1(v6) \in those /\ \A x \in those : Ad2usb!Next1(v6) <= x BY <1>1, <2>2
  <2> USE DEF those
  <2>4. ASSUME NEW z \in v2, v6 \in v13, v6 # z, Cardinality(v13) <= 2
        PROVE  Ad2usb!Next1(v6) = z
    <3>1. v2 \subseteq {z, v6}
      <4>1. SUFFICES ASSUME NEW y \in v2, y # z, y # v6 PROVE FALSE OBVIOUS
      <4>2. IsFiniteSet(v13)
        <5>1. IsFiniteSet(1 .. Zones + 1)
          BY FS_Interval DEF Ad2usb!Ad2usbAssumption
        <5> QED BY <5>1, FS_Subset DEF AdTypes, Ad2usb!PanelZone
      <4>3. Cardinality({z, y, v6}) = 3
        <5>1. IsFiniteSet({v6}) /\ Cardinality({v6}) = 1 BY FS_Singleton
        <5>2. IsFiniteSet({v6} \cup {y}) /\ Cardinality({v6} \cup {y}) = 2
          BY <4>1, <5>1, FS_AddElement
        <5>3. Cardinality(({v6} \cup {y}) \cup {z}) = 3 BY <2>4, <4>1, <5>2, FS_AddElement
        <5>4. ({v6} \cup {y}) \cup {z} = {z, y, v6} OBVIOUS
        <5> QED BY <5>3, <5>4
      <4>4. {z, y, v6} \subseteq v13 BY <2>4, <4>1 DEF AdTypes
      <4>5. 3 <= Cardinality(v13) BY <4>2, <4>3, <4>4, FS_Subset
      <4>6. Cardinality(v13) \in Nat BY <4>2, FS_CardinalityType
      <4> QED BY <2>4, <4>5, <4>6
    <3>2. v6 \in Nat /\ z \in Nat
      BY <1>2, <2>4 DEF AdTypes, Ad2usb!Ad2usbAssumption, Ad2usb!PanelZone
    <3>3. CASE z > v6
      <4>1. after = {z}
        <5>1. \A y \in v2 : y > v6 <=> y = z BY <3>1, <3>2, <3>3
        <5> QED BY <2>4, <5>1
      <4>2. those = {z} BY <4>1
      <4> QED BY <2>3, <4>2
    <3>4. CASE z < v6
      <4>1. after = {}
        <5>1. \A y \in v2 : ~(y > v6) BY <3>1, <3>2, <3>4
        <5> QED BY <5>1
      <4>2. those = v2 BY <4>1
      <4>3. Ad2usb!Next1(v6) \in {z, v6} /\ Ad2usb!Next1(v6) <= z BY <2>3, <2>4, <3>1, <4>2
      <4> QED BY <3>2, <3>4, <4>3
    <3> QED BY <2>4, <3>2, <3>3, <3>4
  <2> QED BY <2>1, <2>3, <2>4
<1> QED BY <1>3

\* What a handler leaves: a record of the same form.
Work(s) ==
  /\ s = [data |-> s.data, told |-> s.told, zonefaults |-> s.zonefaults, fatal |-> s.fatal]
  /\ s.zonefaults \in [Ad2usb!Zone -> Nat]
SameTold(s, u, z) == Told(u.told, z) <=> Told(s.told, z)
LEMMA AdUpdates ==
  ASSUME NEW s, Work(s), NEW d, NEW val
  PROVE  LET u == Ad2usb!update_int_dev(s, d, val)
         IN /\ Work(u) /\ u.zonefaults = s.zonefaults
            /\ u.fatal = IF d \in Ad2usb!Devs THEN s.fatal ELSE TRUE
            /\ \A z : z # d => SameTold(s, u, z)
            /\ val = 1 => \A z : Told(s.told, z) => Told(u.told, z)
<1> DEFINE u == Ad2usb!update_int_dev(s, d, val)
<1>1. CASE d \notin Ad2usb!Devs
  <2>1. u = [data |-> s.data, told |-> s.told, zonefaults |-> s.zonefaults, fatal |-> TRUE]
    BY <1>1 DEF Ad2usb!update_int_dev, Work
  <2> QED BY <1>1, <2>1 DEF Work, SameTold
<1>2. CASE d \in Ad2usb!Devs
  <2> DEFINE t == IF s.data[d] # val \/ v10
                  THEN [e \in DOMAIN s.told \cup {d} |-> IF e = d THEN val ELSE s.told[e]]
                  ELSE s.told
  <2>1. u = [data |-> [s.data EXCEPT ![d] = val], told |-> t,
             zonefaults |-> s.zonefaults, fatal |-> s.fatal]
    BY <1>2 DEF Ad2usb!update_int_dev, Work
  <2>2. /\ \A z : z # d => (Told(t, z) <=> Told(s.told, z))
        /\ val = 1 => \A z : Told(s.told, z) => Told(t, z)
    BY DEF Told
  <2> HIDE DEF t
  <2>3. u.told = t /\ u.zonefaults = s.zonefaults /\ u.fatal = s.fatal /\ Work(u)
    BY <2>1 DEF Work
  <2> QED BY <1>2, <2>2, <2>3 DEF SameTold
<1> QED BY <1>1, <1>2

\* Zones that count as clear.
LEMMA AdClears ==
  ASSUME NEW s, Work(s), NEW zs, NEW f \in [Ad2usb!Zone -> Nat]
  PROVE  LET u == [Ad2usb!Cleared(s, zs) EXCEPT !.zonefaults = f]
         IN /\ Work(u) /\ u.zonefaults = f /\ u.fatal = s.fatal
            /\ \A z : Told(u.told, z) => Told(s.told, z)
            /\ \A z : z \notin zs => SameTold(s, u, z)
<1> DEFINE u == [Ad2usb!Cleared(s, zs) EXCEPT !.zonefaults = f]
           t == [d \in DOMAIN s.told \cup (IF v10 THEN zs ELSE {}) |-> IF d \in zs THEN 0 ELSE s.told[d]]
           a == [d \in Ad2usb!Devs |-> IF d \in zs THEN 0 ELSE s.data[d]]
<1>1. \A z : z \notin zs => (Told(t, z) <=> Told(s.told, z)) BY DEF Told
<1>2. \A z : z \in zs => ~Told(t, z) BY DEF Told
<1>5. Ad2usb!Cleared(s, zs) = [s EXCEPT !.data = a, !.told = t] BY DEF Ad2usb!Cleared
<1> HIDE DEF t, a
<1>6. Ad2usb!Cleared(s, zs) = [data |-> a, told |-> t, zonefaults |-> s.zonefaults, fatal |-> s.fatal]
  <2>1. [s EXCEPT !.data = a] = [data |-> a, told |-> s.told, zonefaults |-> s.zonefaults, fatal |-> s.fatal]
    BY DEF Work
  <2> QED BY <1>5, <2>1
<1>3. u = [data |-> a, told |-> t, zonefaults |-> f, fatal |-> s.fatal] BY <1>6
<1>4. Work(u) /\ u.told = t /\ u.zonefaults = f /\ u.fatal = s.fatal BY <1>3 DEF Work
<1> QED BY <1>1, <1>2, <1>4 DEF SameTold

\* A line: no other one makes a zone's fault be told, and of a fault no other zone's is
\* forgotten.
LEMMA AdHandles ==
  ASSUME Ad2usb!Ad2usbAssumption, NEW s, Work(s), ~s.fatal, NEW l \in AdLine
  PROVE  LET u == Ad2usb!handle(s, l)
         IN /\ Work(u)
            /\ \A z \in Ad2usb!Zone : ~Shows(l, z) /\ Told(u.told, z) => Told(s.told, z)
            /\ l.kind = "fault" =>
                 \A z \in Ad2usb!Zone :
                   /\ l.val # z => SameTold(s, u, z) /\ u.zonefaults[z] = s.zonefaults[z]
                   /\ l.val = z => u.zonefaults[z] >= 3 /\ (Told(s.told, z) => Told(u.told, z))
<1> DEFINE u == Ad2usb!handle(s, l)
<1>z. \A z \in Ad2usb!Zone : /\ z # Ad2usb!STATUS /\ z # Ad2usb!LOWBAT /\ z # Ad2usb!FIRE
                             /\ z # Ad2usb!EXTRA /\ z \in Ad2usb!Devs
  BY DEF Ad2usb!Ad2usbAssumption, Ad2usb!STATUS, Ad2usb!LOWBAT, Ad2usb!FIRE, Ad2usb!EXTRA,
         Ad2usb!Zone, Ad2usb!Devs
<1>1. CASE l.kind = "other"
  <2>1. u = Ad2usb!update_int_dev(s, Ad2usb!EXTRA, l.val) BY <1>1 DEF Ad2usb!handle
  <2> HIDE DEF u
  <2>2. Work(u) /\ \A z \in Ad2usb!Zone : SameTold(s, u, z) BY <1>z, <2>1, AdUpdates
  <2> QED BY <1>1, <2>2 DEF SameTold, u
<1>2. CASE l.kind # "other"
  <2> DEFINE s1 == CASE l.kind = "armed" -> Ad2usb!update_int_dev(s, Ad2usb!STATUS, l.val)
                     [] l.kind = "ready" -> Ad2usb!update_int_dev(s, Ad2usb!STATUS, Ad2usb!ALARM_READY)
                     [] l.kind = "fault" -> Ad2usb!update_int_dev(s, Ad2usb!STATUS, Ad2usb!ALARM_FAULT)
                     [] l.kind = "hit"   -> s
             sb == Ad2usb!update_int_dev(s1, Ad2usb!LOWBAT, l.bat)
             s2 == Ad2usb!update_int_dev(sb, Ad2usb!FIRE, l.bat)
             s3 == Ad2usb!update_int_dev(s2, l.val, 1)
  <2>0. Ad2usb!STATUS \in Ad2usb!Devs /\ Ad2usb!LOWBAT \in Ad2usb!Devs /\ Ad2usb!FIRE \in Ad2usb!Devs
    BY DEF Ad2usb!STATUS, Ad2usb!LOWBAT, Ad2usb!FIRE, Ad2usb!Devs
  <2>1. u = CASE l.kind = "hit" -> s2
              [] l.kind = "fault" -> IF s3.fatal THEN s3
                            ELSE [s3 EXCEPT !.zonefaults[l.val] = Ad2usb!Faults(s2) + 3]
              [] OTHER -> [Ad2usb!Cleared(s2, Ad2usb!Zone) EXCEPT
                             !.zonefaults = [z \in Ad2usb!Zone |-> 0]]
    BY <1>2 DEF Ad2usb!handle, Ad2usb!ad2usb_handle_std
  <2>2. /\ Work(s1) /\ s1.zonefaults = s.zonefaults /\ ~s1.fatal
        /\ \A z \in Ad2usb!Zone : SameTold(s, s1, z)
    <3> HIDE DEF u
    <3>1. CASE l.kind = "hit" BY <3>1 DEF SameTold
    <3>2. CASE l.kind # "hit"
      <4>1. \E v : s1 = Ad2usb!update_int_dev(s, Ad2usb!STATUS, v) BY <1>2, <3>2 DEF AdLine
      <4> HIDE DEF s1
      <4>2. PICK v : s1 = Ad2usb!update_int_dev(s, Ad2usb!STATUS, v) BY <4>1
      <4> DEFINE w == Ad2usb!update_int_dev(s, Ad2usb!STATUS, v)
      <4>3. /\ Work(w) /\ w.zonefaults = s.zonefaults /\ ~w.fatal
            /\ \A z \in Ad2usb!Zone : SameTold(s, w, z)
        BY <1>z, <2>0, AdUpdates
      <4> QED BY <4>2, <4>3
    <3> QED BY <3>1, <3>2
  <2> HIDE DEF s1
  <2>3. /\ Work(sb) /\ sb.zonefaults = s1.zonefaults /\ ~sb.fatal
        /\ \A z \in Ad2usb!Zone : SameTold(s1, sb, z)
    BY <1>z, <2>0, <2>2, AdUpdates
  <2> HIDE DEF sb
  <2>4. /\ Work(s2) /\ s2.zonefaults = sb.zonefaults /\ ~s2.fatal
        /\ \A z \in Ad2usb!Zone : SameTold(sb, s2, z)
    BY <1>z, <2>0, <2>3, AdUpdates
  <2> HIDE DEF s2
  <2>5. \A z \in Ad2usb!Zone : SameTold(s, s2, z) /\ s2.zonefaults[z] = s.zonefaults[z]
    BY <2>2, <2>3, <2>4 DEF SameTold
  <2>6. CASE l.kind = "hit" BY <2>1, <2>4, <2>5, <2>6 DEF SameTold
  <2>7. CASE l.kind = "fault"
    <3>1. /\ Work(s3) /\ s3.zonefaults = s2.zonefaults
          /\ s3.fatal = IF l.val \in Ad2usb!Devs THEN s2.fatal ELSE TRUE
          /\ \A z : z # l.val => SameTold(s2, s3, z)
          /\ \A z : Told(s2.told, z) => Told(s3.told, z)
      BY <2>4, AdUpdates
    <3> HIDE DEF s3
    <3>2. u = IF s3.fatal THEN s3 ELSE [s3 EXCEPT !.zonefaults[l.val] = Ad2usb!Faults(s2) + 3]
      BY <2>1, <2>7
    <3>3. CASE s3.fatal
      <4>1. l.val \notin Ad2usb!Zone BY <1>z, <2>4, <3>1, <3>3
      <4> QED BY <2>5, <3>1, <3>2, <3>3, <4>1 DEF Shows, SameTold
    <3>4. CASE ~s3.fatal
      <4> DEFINE n == Ad2usb!Faults(s2) + 3
      <4>1. n \in Nat /\ n >= 3
        <5>1. IsFiniteSet(Ad2usb!Zone) BY FS_Interval DEF Ad2usb!Zone, Ad2usb!Ad2usbAssumption
        <5>2. Ad2usb!Faults(s2) = Cardinality({z \in Ad2usb!Zone : s2.zonefaults[z] > 0})
          BY DEF Ad2usb!Faults, Ad2usb!Cardinality, Cardinality
        <5>3. Ad2usb!Faults(s2) \in Nat BY <5>1, <5>2, FS_Subset, FS_CardinalityType
        <5> QED BY <5>3
      <4>2. u = [s3 EXCEPT !.zonefaults[l.val] = n] BY <3>2, <3>4
      <4> HIDE DEF n
      <4>3. u = [data |-> s3.data, told |-> s3.told, fatal |-> s3.fatal,
                 zonefaults |-> [s3.zonefaults EXCEPT ![l.val] = n]]
        BY <3>1, <4>2 DEF Work
      <4>4. [s3.zonefaults EXCEPT ![l.val] = n] \in [Ad2usb!Zone -> Nat] BY <3>1, <4>1 DEF Work
      <4>5. Work(u) /\ u.told = s3.told /\ u.zonefaults = [s3.zonefaults EXCEPT ![l.val] = n]
        BY <4>3, <4>4 DEF Work
      <4>6. \A z \in Ad2usb!Zone : u.zonefaults[z] = IF z = l.val THEN n ELSE s3.zonefaults[z]
        BY <3>1, <4>5 DEF Work
      <4> HIDE DEF u
      <4>7. \A z \in Ad2usb!Zone : l.val # z => SameTold(s, u, z) /\ u.zonefaults[z] = s.zonefaults[z]
        BY <2>5, <3>1, <4>5, <4>6 DEF SameTold
      <4>8. \A z \in Ad2usb!Zone :
               l.val = z => u.zonefaults[z] >= 3 /\ (Told(s.told, z) => Told(u.told, z))
        BY <2>5, <3>1, <4>1, <4>5, <4>6 DEF SameTold
      <4>9. \A z \in Ad2usb!Zone : ~Shows(l, z) /\ Told(u.told, z) => Told(s.told, z)
        BY <2>7, <4>7 DEF Shows, SameTold
      <4> QED BY <4>5, <4>7, <4>8, <4>9 DEF u
    <3> QED BY <3>3, <3>4
  <2>8. CASE l.kind \notin {"hit", "fault"}
    <3>1. u = [Ad2usb!Cleared(s2, Ad2usb!Zone) EXCEPT !.zonefaults = [z \in Ad2usb!Zone |-> 0]]
      BY <2>1, <2>8
    <3>2. [z \in Ad2usb!Zone |-> 0] \in [Ad2usb!Zone -> Nat] OBVIOUS
    <3> DEFINE none == [z \in Ad2usb!Zone |-> 0]
               w == [Ad2usb!Cleared(s2, Ad2usb!Zone) EXCEPT !.zonefaults = none]
    <3>4. none \in [Ad2usb!Zone -> Nat] BY <3>2
    <3>5. u = w BY <3>1
    <3> HIDE DEF none, u
    <3>6. Work(w) /\ \A z : Told(w.told, z) => Told(s2.told, z) BY <2>4, <3>4, AdClears
    <3>3. Work(u) /\ \A z : Told(u.told, z) => Told(s2.told, z) BY <3>5, <3>6
    <3> HIDE DEF u
    <3> QED BY <2>5, <2>8, <3>3 DEF SameTold, u
  <2> QED BY <2>6, <2>7, <2>8
<1> QED BY <1>1, <1>2

\* The lines of a read: a zone's fault is told only when one of them shows it; one that
\* shows it lasts for more reads to come; and of faults none forgets a zone's.
LEMMA AdReadsLines ==
  ASSUME Ad2usb!Ad2usbAssumption, v7 \in Seq(AdLine), v9 \in [Ad2usb!Zone -> Nat],
         NEW n \in 1 .. 2, n <= Len(v7),
         NEW s1, s1 = Ad2usb!handle(Ad2usb!State, v7[1]),
         NEW s2, s2 = IF n = 2 /\ ~s1.fatal THEN Ad2usb!handle(s1, v7[2]) ELSE s1,
         ~s2.fatal
  PROVE  /\ Work(s2)
         /\ \A z \in Ad2usb!Zone :
              /\ (\A i \in 1 .. n : ~Shows(v7[i], z)) /\ Told(s2.told, z) => Told(v12, z)
              /\ \A k \in 1 .. n :
                   v7[k].val = z /\ (\A i \in k .. n : v7[i].kind = "fault") => s2.zonefaults[z] >= 3
              /\ (\A i \in 1 .. n : v7[i].kind = "fault") /\ Told(v12, z) => Told(s2.told, z)
              /\ n = 1 /\ v7[1].kind = "fault" /\ v7[1].val # z => s2.zonefaults[z] = v9[z]
<1>0. Len(v7) \in Nat BY LenProperties
<1>1. Work(Ad2usb!State) /\ ~Ad2usb!State.fatal /\ Ad2usb!State.told = v12
      /\ Ad2usb!State.zonefaults = v9
  BY DEF Work, Ad2usb!State
<1>2. v7[1] \in AdLine BY <1>0, ElementOfSeq
<1>3. /\ Work(s1)
      /\ \A z \in Ad2usb!Zone : ~Shows(v7[1], z) /\ Told(s1.told, z) => Told(v12, z)
      /\ v7[1].kind = "fault" =>
           \A z \in Ad2usb!Zone :
             /\ v7[1].val # z => (Told(s1.told, z) <=> Told(v12, z)) /\ s1.zonefaults[z] = v9[z]
             /\ v7[1].val = z => s1.zonefaults[z] >= 3 /\ (Told(v12, z) => Told(s1.told, z))
  BY <1>1, <1>2, AdHandles DEF SameTold
<1>4. CASE n = 1
  <2>1. s2 = s1 BY <1>4
  <2>2. 1 .. n = {1} /\ \A k \in 1 .. n : k .. n = {1} BY <1>4
  <2> QED BY <1>3, <1>4, <2>1, <2>2
<1>5. CASE n = 2
  <2>1. ~s1.fatal /\ s2 = Ad2usb!handle(s1, v7[2]) BY <1>5
  <2>2. v7[2] \in AdLine BY <1>0, <1>5, ElementOfSeq
  <2>3. /\ Work(s2)
        /\ \A z \in Ad2usb!Zone : ~Shows(v7[2], z) /\ Told(s2.told, z) => Told(s1.told, z)
        /\ v7[2].kind = "fault" =>
             \A z \in Ad2usb!Zone :
               /\ v7[2].val # z => (Told(s2.told, z) <=> Told(s1.told, z)) /\ s2.zonefaults[z] = s1.zonefaults[z]
               /\ v7[2].val = z => s2.zonefaults[z] >= 3 /\ (Told(s1.told, z) => Told(s2.told, z))
    BY <1>3, <2>1, <2>2, AdHandles DEF SameTold
  <2> HIDE DEF Work
  <2>4. ASSUME NEW z \in Ad2usb!Zone
        PROVE  /\ (\A i \in 1 .. n : ~Shows(v7[i], z)) /\ Told(s2.told, z) => Told(v12, z)
               /\ (\A i \in 1 .. n : v7[i].kind = "fault") /\ Told(v12, z) => Told(s2.told, z)
    <3>1. 1 \in 1 .. n /\ 2 \in 1 .. n BY <1>5
    <3> QED BY <1>3, <2>3, <3>1
  <2>5. ASSUME NEW z \in Ad2usb!Zone, NEW k \in 1 .. n,
               v7[k].val = z, \A i \in k .. n : v7[i].kind = "fault"
        PROVE  s2.zonefaults[z] >= 3
    <3>1. k \in {1, 2} BY <1>5
    <3>2. CASE k = 1
      <4>1. v7[1].kind = "fault" /\ v7[2].kind = "fault" BY <1>5, <2>5, <3>2
      <4> QED BY <1>3, <2>3, <2>5, <3>2, <4>1
    <3>3. CASE k = 2
      <4>1. v7[2].kind = "fault" BY <1>5, <2>5, <3>3
      <4> QED BY <2>3, <2>5, <3>3, <4>1
    <3> QED BY <3>1, <3>2, <3>3
  <2> QED BY <1>5, <2>3, <2>4, <2>5
<1> QED BY <1>4, <1>5

\* And the counting down at the end of the read.
LEMMA AdCountsDown ==
  ASSUME NEW s, Work(s)
  PROVE  LET u == Ad2usb!CountDown(s)
         IN /\ u.zonefaults \in [Ad2usb!Zone -> Nat]
            /\ \A z \in Ad2usb!Zone :
                 /\ u.zonefaults[z] = IF s.zonefaults[z] > 0 THEN s.zonefaults[z] - 1 ELSE 0
                 /\ Told(u.told, z) => Told(s.told, z)
                 /\ s.zonefaults[z] # 1 /\ Told(s.told, z) => Told(u.told, z)
<1> DEFINE down == [z \in Ad2usb!Zone |-> IF s.zonefaults[z] > 0 THEN s.zonefaults[z] - 1 ELSE 0]
           zs == {z \in Ad2usb!Zone : s.zonefaults[z] = 1}
           u == Ad2usb!CountDown(s)
           w == [Ad2usb!Cleared(s, zs) EXCEPT !.zonefaults = down]
<1>1. u = w BY DEF Ad2usb!CountDown
<1>2. down \in [Ad2usb!Zone -> Nat] BY DEF Work
<1>3. \A z \in Ad2usb!Zone : down[z] = IF s.zonefaults[z] > 0 THEN s.zonefaults[z] - 1 ELSE 0
  OBVIOUS
<1>4. \A z : z \in zs <=> z \in Ad2usb!Zone /\ s.zonefaults[z] = 1 OBVIOUS
<1> HIDE DEF down, zs
<1>5. /\ w.zonefaults = down
      /\ \A z : Told(w.told, z) => Told(s.told, z)
      /\ \A z : z \notin zs => SameTold(s, w, z)
  BY <1>2, AdClears
<1> HIDE DEF u, w
<1>6. /\ u.zonefaults = down
      /\ \A z : Told(u.told, z) => Told(s.told, z)
      /\ \A z : z \notin zs => SameTold(s, u, z)
  BY <1>1, <1>5
<1> QED BY <1>2, <1>3, <1>4, <1>6 DEF SameTold, u

LEMMA AdReads ==
  ASSUME Ad2usb!Ad2usbAssumption, AdInv, NEW n \in 1 .. 2, Ad2usb!ad2usb_buf_read_cb(n)
  PROVE  AdInv' /\ Ad2usb!KeepsFaults
<1> DEFINE Len1 == Len(v7)
<1>1. /\ v15 = "no" /\ n <= Len(v7) /\ Len(v7) \in Nat
      /\ v7 \in Seq(AdLine) /\ v8 \in Seq(AdKey) /\ v9 \in [Ad2usb!Zone -> Nat]
      /\ UNCHANGED <<v1, v2, v3, v4, v5, v6, v13, v14, v16, v17>>
  <2>1. v7 \in Seq(AdLine) BY DEF AdInv, AdTypes
  <2>2. Len(v7) \in Nat BY <2>1, LenProperties
  <2> QED BY <2>1, <2>2 DEF AdInv, AdTypes, Ad2usb!ad2usb_buf_read_cb, Ad2usb!panel
<1>2. /\ v7' \in Seq(AdLine) /\ Len(v7') = Len(v7) - n
      /\ \A i \in 1 .. Len(v7') : v7'[i] = v7[i + n]
  <2>1. v7' = SubSeq(v7, n + 1, Len(v7)) BY DEF Ad2usb!ad2usb_buf_read_cb
  <2> QED BY <1>1, <2>1, SubSeqProperties
<1>3. v8' \in Seq(AdKey)
  <2>1. ASSUME NEW l PROVE Ad2usb!Keys(l) \in Seq(AdKey)
    <3>1. <<"*">> \in AdKey BY DEF AdKey
    <3>2. <<<<"*">>>> \in Seq(AdKey) /\ <<>> \in Seq(AdKey) BY <3>1
    <3> QED BY <3>2 DEF Ad2usb!Keys
  <2>2. (IF n = 2 THEN Ad2usb!Keys(v7[2]) ELSE <<>>) \in Seq(AdKey) BY <2>1, EmptySeq
  <2>3. v8' = v8 \o Ad2usb!Keys(v7[1]) \o (IF n = 2 THEN Ad2usb!Keys(v7[2]) ELSE <<>>)
    BY DEF Ad2usb!ad2usb_buf_read_cb
  <2> HIDE DEF Ad2usb!Keys
  <2>4. v8 \o Ad2usb!Keys(v7[1]) \in Seq(AdKey) BY <1>1, <2>1, ConcatProperties
  <2> QED BY <2>2, <2>3, <2>4, ConcatProperties
<1>4. PICK s1 \in {Ad2usb!handle(Ad2usb!State, v7[1])} :
        \E s2 \in {IF n = 2 /\ ~s1.fatal THEN Ad2usb!handle(s1, v7[2]) ELSE s1} :
          IF s2.fatal
          THEN v15' = "fatal" /\ UNCHANGED <<v9, v10, v11, v12>>
          ELSE \E s3 \in {Ad2usb!CountDown(s2)} :
                 /\ v9' = s3.zonefaults /\ v11' = s3.data /\ v12' = s3.told
                 /\ v10' = FALSE
                 /\ UNCHANGED v15
  BY DEF Ad2usb!ad2usb_buf_read_cb
<1>5. PICK s2 : /\ s2 = IF n = 2 /\ ~s1.fatal THEN Ad2usb!handle(s1, v7[2]) ELSE s1
                /\ IF s2.fatal
                   THEN v15' = "fatal" /\ UNCHANGED <<v9, v10, v11, v12>>
                   ELSE \E s3 \in {Ad2usb!CountDown(s2)} :
                          /\ v9' = s3.zonefaults /\ v11' = s3.data /\ v12' = s3.told
                          /\ v10' = FALSE
                          /\ UNCHANGED v15
  BY <1>4
<1> HIDE DEF Ad2usb!ad2usb_buf_read_cb
\* What is left of the lines was on its way before.
<1>6. ASSUME NEW z \in Ad2usb!Zone, NeverShown(z), Told(v12', z) => Told(v12, z)
      PROVE  NeverShown(z)'
  <2>1. ASSUME NEW k \in 1 .. Len(v7') PROVE ~Shows(v7'[k], z)
    <3>1. k + n \in 1 .. Len(v7) /\ v7'[k] = v7[k + n] BY <1>1, <1>2
    <3> QED BY <1>6, <3>1 DEF NeverShown
  <2> QED BY <1>6, <2>1 DEF NeverShown, Told
<1>7. ASSUME NEW z \in Ad2usb!Zone, NEW k \in 0 .. Len(v7'), NEW j \in 0 .. Len(v7),
             j <= k + n, Seen(z, j)
      PROVE  Seen(z, k)'
  <2>1. ASSUME NEW i \in k + 1 .. Len(v7')
        PROVE  /\ v7'[i].kind = "fault" /\ v7'[i].val \in v13'
               /\ i < Len(v7') => v7'[i].val = z \/ v7'[i + 1].val = z
    <3>0. /\ n \in Nat /\ j \in Nat /\ k \in Nat /\ i \in Nat
          /\ j <= k + n /\ k + 1 <= i /\ i <= Len(v7) - n /\ Len(v7') \in Nat
      BY <1>1, <1>2, <1>7
    <3>1. i + n \in j + 1 .. Len(v7) BY <1>1, <3>0
    <3>2. v7'[i] = v7[i + n] BY <1>2, <3>0
    <3>3. ASSUME i < Len(v7') PROVE i + n < Len(v7) /\ v7'[i + 1] = v7[(i + n) + 1]
      <4>1. i + 1 \in 1 .. Len(v7') /\ (i + 1) + n = (i + n) + 1 BY <3>0, <3>3
      <4>2. v7'[i + 1] = v7[(i + 1) + n] BY <1>2, <4>1
      <4> QED BY <1>1, <1>2, <3>0, <3>3, <4>1, <4>2
    <3>4. /\ v7[i + n].kind = "fault" /\ v7[i + n].val \in v13
          /\ i + n < Len(v7) => v7[i + n].val = z \/ v7[(i + n) + 1].val = z
      BY <1>7, <3>1 DEF Seen
    <3> QED BY <1>1, <3>2, <3>3, <3>4
  <2>2. Len(v7') > 0 => v7'[Len(v7')] = v7[Len(v7)] /\ Len(v7) > 0 BY <1>1, <1>2
  <2>3. v3' = 0 /\ ~v5' /\ v6' \in v13' BY <1>1, <1>7 DEF Seen
  <2>4. Len(v7') > 0 => v7'[Len(v7')].val = v6' BY <1>1, <1>7, <2>2 DEF Seen
  <2> QED BY <2>1, <2>3, <2>4 DEF Seen
<1>8. ASSUME NEW z \in Ad2usb!Zone, SeenLines(z) PROVE SeenLines(z)'
  <2> SUFFICES ASSUME NEW k \in 1 .. Len(v7'), Shows(v7'[k], z) PROVE Seen(z, k)'
    BY DEF SeenLines, Shows
  <2>1. k + n \in 1 .. Len(v7) /\ v7'[k] = v7[k + n]
    <3>1. v7'[k] = v7[k + n] BY <1>2
    <3>2. n \in Nat /\ Len(v7) \in Nat /\ k \in 1 .. Len(v7) - n BY <1>1, <1>2
    <3>3. k + n \in 1 .. Len(v7) BY <3>2
    <3> QED BY <3>1, <3>3
  <2>2. Seen(z, k + n) BY <1>8, <2>1 DEF SeenLines
  <2> QED BY <1>1, <1>2, <1>7, <2>1, <2>2
<1>9. CASE s2.fatal
  <2>1. v15' = "fatal" /\ v9' = v9 /\ v12' = v12 BY <1>5, <1>9
  <2>2. \A z \in Ad2usb!Zone : AdZone(z)' BY <1>1, <1>6, <2>1 DEF AdInv, AdZone, Lasts
  <2>3. AdTypes' BY <1>1, <1>2, <1>3, <2>1 DEF AdInv, AdTypes
  <2>4. Ad2usb!KeepsFaults BY <2>1 DEF Ad2usb!KeepsFaults, Ad2usb!Holds
  <2> QED BY <2>2, <2>3, <2>4 DEF AdInv
<1>10. CASE ~s2.fatal
  <2>1. /\ Work(s2)
        /\ \A z \in Ad2usb!Zone :
              /\ (\A i \in 1 .. n : ~Shows(v7[i], z)) /\ Told(s2.told, z) => Told(v12, z)
              /\ \A k \in 1 .. n :
                   v7[k].val = z /\ (\A i \in k .. n : v7[i].kind = "fault") => s2.zonefaults[z] >= 3
              /\ (\A i \in 1 .. n : v7[i].kind = "fault") /\ Told(v12, z) => Told(s2.told, z)
              /\ n = 1 /\ v7[1].kind = "fault" /\ v7[1].val # z => s2.zonefaults[z] = v9[z]
    <3>1. s1 = Ad2usb!handle(Ad2usb!State, v7[1]) BY <1>4
    <3>2. s2 = IF n = 2 /\ ~s1.fatal THEN Ad2usb!handle(s1, v7[2]) ELSE s1 BY <1>5
    <3> QED BY <1>1, <1>10, <3>1, <3>2, AdReadsLines
  <2>2. /\ v15' = v15 /\ v9' \in [Ad2usb!Zone -> Nat]
        /\ \A z \in Ad2usb!Zone :
             /\ v9'[z] = IF s2.zonefaults[z] > 0 THEN s2.zonefaults[z] - 1 ELSE 0
             /\ Told(v12', z) => Told(s2.told, z)
             /\ s2.zonefaults[z] # 1 /\ Told(s2.told, z) => Told(v12', z)
    <3>1. /\ v9' = Ad2usb!CountDown(s2).zonefaults /\ v12' = Ad2usb!CountDown(s2).told
          /\ v15' = v15
      BY <1>5, <1>10
    <3> QED BY <2>1, <3>1, AdCountsDown
  <2>3. AdTypes' BY <1>1, <1>2, <1>3, <2>2 DEF AdInv, AdTypes
  <2>4. ASSUME NEW z \in Ad2usb!Zone, z \notin v2' \cup v14' PROVE NeverShown(z)'
    <3>1. NeverShown(z) BY <1>1, <2>4 DEF AdInv, AdZone
    <3>2. \A i \in 1 .. n : ~Shows(v7[i], z) BY <1>1, <3>1 DEF NeverShown
    <3> QED BY <1>6, <2>1, <2>2, <3>1, <3>2
  \* The zone is counted down to its next line, but no further.
  <2>5. ASSUME NEW z \in Ad2usb!Zone, Lasts(z)
        PROVE  /\ Told(v12, z) => s2.zonefaults[z] >= 2 /\ Told(v12', z)
               /\ Told(v12', z) => Seen(z, 0)' /\ v9'[z] >= 1 /\ (v9'[z] = 1 => Soon(z)')
    <3>0. SeenLines(z) /\ SeenTold(z) BY <2>5 DEF AdInv, AdZone
    <3>1. CASE \E k \in 1 .. n : Shows(v7[k], z)
      <4>1. PICK k \in 1 .. n : Shows(v7[k], z) BY <3>1
      <4>2. Seen(z, k) BY <1>1, <3>0, <4>1 DEF SeenLines
      <4>3. \A i \in k .. n : v7[i].kind = "fault"
        <5>1. \A i \in k + 1 .. n : v7[i].kind = "fault" BY <1>1, <4>2 DEF Seen
        <5>2. v7[k].kind = "fault" BY <4>1 DEF Shows
        <5> QED BY <5>1, <5>2
      <4>4. s2.zonefaults[z] >= 3 BY <2>1, <4>1, <4>3 DEF Shows
      <4>5. v9'[z] >= 2
        <5>1. s2.zonefaults[z] \in Nat BY <2>1 DEF Work
        <5> QED BY <2>2, <4>4, <5>1
      <4>6. Seen(z, 0)' BY <1>1, <1>2, <1>7, <4>2
      <4>7. ASSUME Told(v12, z) PROVE Told(v12', z)
        <5>1. Seen(z, 0) BY <3>0, <4>7 DEF SeenTold
        <5>2. \A i \in 1 .. n : v7[i].kind = "fault" BY <1>1, <5>1 DEF Seen
        <5> QED BY <2>1, <2>2, <4>4, <4>7, <5>2
      <4>8. v9'[z] \in Nat /\ s2.zonefaults[z] \in Nat BY <2>1, <2>2 DEF Work
      <4> QED BY <4>4, <4>5, <4>6, <4>7, <4>8
    <3>2. CASE \A k \in 1 .. n : ~Shows(v7[k], z)
      <4> SUFFICES ASSUME Told(v12, z)
                   PROVE  /\ s2.zonefaults[z] >= 2 /\ Told(v12', z)
                          /\ Seen(z, 0)' /\ v9'[z] >= 1 /\ (v9'[z] = 1 => Soon(z)')
        BY <2>1, <2>2, <3>2
      <4>1. Seen(z, 0) /\ v9[z] >= 1 /\ (v9[z] = 1 => Soon(z)) BY <3>0 DEF SeenTold
      <4>2. \A i \in 1 .. n : v7[i].kind = "fault" /\ v7[i].val # z
        BY <1>1, <3>2, <4>1 DEF Seen, Shows
      <4>3. n = 1
        <5>1. SUFFICES ASSUME n = 2 PROVE FALSE OBVIOUS
        <5>2. v7[1].val # z /\ v7[2].val # z BY <4>2, <5>1
        <5> QED BY <1>1, <4>1, <5>1, <5>2 DEF Seen
      <4>4. v7[1].val # z /\ v7[1].kind = "fault" BY <4>2, <4>3
      <4>5. v9[z] >= 2
        <5>1. v9[z] # 1
          <6>1. v7 # <<>> BY <1>1, EmptySeq
          <6> QED BY <4>1, <4>4, <6>1 DEF Soon
        <5> QED BY <1>1, <4>1, <5>1
      <4>6. s2.zonefaults[z] = v9[z] /\ v9[z] \in Nat BY <1>1, <2>1, <4>3, <4>4
      <4>7. Told(v12', z) BY <2>1, <2>2, <4>2, <4>5, <4>6
      <4>8. v9'[z] >= 1 BY <2>2, <4>5, <4>6
      <4>9. Seen(z, 0)'
        <5>1. 0 \in 0 .. Len(v7') /\ 0 \in 0 .. Len(v7) /\ 0 <= 0 + n BY <1>1, <1>2
        <5> QED BY <1>7, <4>1, <5>1
      <4>10. Soon(z)'
        <5>1. CASE Len(v7') = 0
          <6>1. v7' = <<>> BY <1>2, <5>1, EmptySeq
          <6>3. Len(v7) = 1 BY <1>1, <1>2, <4>3, <5>1
          <6>2. v6 = v7[1].val BY <4>1, <6>3 DEF Seen
          <6> QED BY <1>1, <4>4, <6>1, <6>2 DEF Soon
        <5>2. CASE Len(v7') # 0
          <6>1. v7' # <<>> BY <5>2, EmptySeq
          <6>2. v7'[1] = v7[2] /\ 1 < Len(v7) BY <1>1, <1>2, <4>3, <5>2
          <6>3. v7[1].val = z \/ v7[2].val = z BY <1>1, <4>1, <6>2 DEF Seen
          <6> QED BY <4>4, <6>1, <6>2, <6>3 DEF Soon
        <5> QED BY <5>1, <5>2
      <4> QED BY <4>5, <4>6, <4>7, <4>8, <4>9, <4>10
    <3> QED BY <3>1, <3>2
  <2>6. ASSUME NEW z \in Ad2usb!Zone, Lasts(z)' PROVE SeenLines(z)' /\ SeenTold(z)'
    <3>1. Lasts(z) BY <1>1, <2>2, <2>6 DEF Lasts
    <3>2. SeenLines(z) BY <3>1 DEF AdInv, AdZone
    <3>3. Told(v12', z) => Seen(z, 0)' /\ v9'[z] >= 1 /\ (v9'[z] = 1 => Soon(z)')
      BY <2>5, <3>1
    <3> QED BY <1>8, <3>2, <3>3 DEF SeenTold, Told
  <2>7. ASSUME NEW z \in Ad2usb!Zone, Ad2usb!Holds(z) PROVE v12'[z] = 1
    <3>1. Lasts(z) /\ Told(v12, z)
      BY <1>1, <2>7 DEF Ad2usb!Holds, Lasts, Told, Ad2usb!Cardinality, Cardinality
    <3> QED BY <2>5, <3>1 DEF Told
  <2>8. Ad2usb!KeepsFaults BY <2>7 DEF Ad2usb!KeepsFaults
  <2>9. \A z \in Ad2usb!Zone : AdZone(z)' BY <2>4, <2>6 DEF AdZone
  <2> QED BY <2>3, <2>8, <2>9 DEF AdInv
<1> QED BY <1>9, <1>10

\* The panel's next line.
LEMMA AdShows ==
  ASSUME Ad2usb!Ad2usbAssumption, AdInv, Ad2usb!Shows
  PROVE  AdInv'
<1>1. /\ UNCHANGED <<v1, v2, v3, v4, v5, v8, v9, v10, v11, v12, v13, v14, v15, v16, v17>>
      /\ v7 \in Seq(AdLine) /\ Len(v7) \in Nat /\ v4 \in {0, 1} /\ v3 \in {0, 1, 4}
  <2>1. v7 \in Seq(AdLine) BY DEF AdInv, AdTypes
  <2>2. Len(v7) \in Nat BY <2>1, LenProperties
  <2> QED BY <2>1, <2>2 DEF AdInv, AdTypes, Ad2usb!Shows, Ad2usb!coll
<1>2. PICK l \in AdLine :
        /\ v7' = Append(v7, l)
        /\ \/ l.kind # "fault" /\ v6' = v6 /\ ~(v3 = 0 /\ v2 # {} /\ ~v5)
           \/ /\ l.kind = "fault" /\ l.val = Ad2usb!Next1(v6) /\ v6' = l.val
              /\ v3 = 0 /\ v2 # {} /\ ~v5
  <2>1. CASE v3 # 0
    <3>1. v7' = Append(v7, Ad2usb!Line("armed", v3)) /\ v6' = v6
      BY <2>1 DEF Ad2usb!Shows, Ad2usb!ALARM_READY
    <3>2. Ad2usb!Line("armed", v3) \in AdLine /\ Ad2usb!Line("armed", v3).kind = "armed"
      BY <1>1 DEF Ad2usb!Line, AdLine
    <3> QED BY <2>1, <3>1, <3>2
  <2>2. CASE v3 = 0 /\ (v2 = {} \/ v5)
    <3>1. \E kind \in {"ready", "hit"} : v7' = Append(v7, Ad2usb!Line(kind, 0)) /\ v6' = v6
      BY <2>2 DEF Ad2usb!Shows, Ad2usb!ALARM_READY
    <3>2. \A kind \in {"ready", "hit"} :
            Ad2usb!Line(kind, 0) \in AdLine /\ Ad2usb!Line(kind, 0).kind = kind
      BY <1>1 DEF Ad2usb!Line, AdLine
    <3> QED BY <2>2, <3>1, <3>2
  <2>3. CASE v3 = 0 /\ v2 # {} /\ ~v5
    <3>1. v7' = Append(v7, Ad2usb!Line("fault", Ad2usb!Next1(v6))) /\ v6' = Ad2usb!Next1(v6)
      BY <2>3 DEF Ad2usb!Shows, Ad2usb!ALARM_READY
    <3>2. Ad2usb!Next1(v6) \in Nat
      <4>1. Ad2usb!Next1(v6) \in v2 BY <2>3, NextShown DEF AdInv
      <4>2. v2 \subseteq Ad2usb!PanelZone BY DEF AdInv, AdTypes
      <4>3. Ad2usb!PanelZone \subseteq Nat BY DEF Ad2usb!PanelZone, Ad2usb!Ad2usbAssumption
      <4> QED BY <4>1, <4>2, <4>3
    <3> HIDE DEF Ad2usb!Next1
    <3>3. /\ Ad2usb!Line("fault", Ad2usb!Next1(v6)) \in AdLine
          /\ Ad2usb!Line("fault", Ad2usb!Next1(v6)).kind = "fault"
          /\ Ad2usb!Line("fault", Ad2usb!Next1(v6)).val = Ad2usb!Next1(v6)
      BY <1>1, <3>2 DEF Ad2usb!Line, AdLine
    <3> QED BY <2>3, <3>1, <3>3
  <2> QED BY <2>1, <2>2, <2>3
<1>3. /\ v7' \in Seq(AdLine) /\ Len(v7') = Len(v7) + 1 /\ v7'[Len(v7) + 1] = l
      /\ \A i \in 1 .. Len(v7) : v7'[i] = v7[i]
  BY <1>1, <1>2, AppendProperties
<1>4. AdTypes' BY <1>1, <1>3 DEF AdInv, AdTypes
<1>5. ASSUME NEW z \in Ad2usb!Zone, z \notin v2' \cup v14' PROVE NeverShown(z)'
  <2>1. NeverShown(z) /\ z \notin v2 BY <1>1, <1>5 DEF AdInv, AdZone
  <2>2. ~Shows(l, z)
    <3>1. v2 # {} => Ad2usb!Next1(v6) \in v2 BY NextShown DEF AdInv
    <3> QED BY <1>2, <2>1, <3>1 DEF Shows
  <2>3. ~Told(v12, z)' BY <1>1, <2>1 DEF NeverShown, Told
  <2>4. ASSUME NEW k \in 1 .. Len(v7') PROVE ~Shows(v7'[k], z)
    <3>1. CASE k <= Len(v7) BY <1>1, <1>3, <2>1, <3>1 DEF NeverShown
    <3>2. CASE k = Len(v7) + 1 BY <1>3, <2>2, <3>2
    <3> QED BY <1>1, <1>3, <3>1, <3>2
  <2> QED BY <2>3, <2>4 DEF NeverShown, Shows, Told
<1>6. ASSUME NEW z \in Ad2usb!Zone, Lasts(z), NEW k \in 0 .. Len(v7), Seen(z, k) PROVE Seen(z, k)'
  <2>1. z \in v2 /\ v3 = 0 /\ ~v5 /\ v6 \in v13 /\ Cardinality(v13) <= 2
    BY <1>6 DEF Lasts, Seen
  <2>2. /\ l.kind = "fault" /\ l.val = v6' /\ v6' \in v13
        /\ v6 # z => l.val = z
    <3>1. l.kind = "fault" /\ l.val = Ad2usb!Next1(v6) /\ v6' = l.val BY <1>2, <2>1
    <3>2. Ad2usb!Next1(v6) \in v2 /\ (v6 # z => Ad2usb!Next1(v6) = z)
      BY <2>1, NextShown DEF AdInv
    <3> QED BY <3>1, <3>2 DEF AdInv, AdTypes
  <2>3. ASSUME NEW i \in k + 1 .. Len(v7')
        PROVE  /\ v7'[i].kind = "fault" /\ v7'[i].val \in v13'
               /\ i < Len(v7') => v7'[i].val = z \/ v7'[i + 1].val = z
    <3>1. CASE i < Len(v7)
      <4>1. v7'[i] = v7[i] /\ v7'[i + 1] = v7[i + 1] /\ i \in k + 1 .. Len(v7)
        BY <1>1, <1>3, <3>1
      <4> QED BY <1>1, <1>6, <3>1, <4>1 DEF Seen
    <3>2. CASE i = Len(v7)
      <4>1. v7'[i] = v7[i] /\ v7'[i + 1] = l /\ i \in k + 1 .. Len(v7) /\ Len(v7) > 0
        BY <1>1, <1>3, <3>2
      <4>2. v7[i].val = v6 BY <1>6, <3>2, <4>1 DEF Seen
      <4> QED BY <1>1, <1>6, <2>2, <4>1, <4>2 DEF Seen
    <3>3. CASE i = Len(v7) + 1
      <4>1. v7'[i] = l /\ ~(i < Len(v7')) BY <1>1, <1>3, <3>3
      <4> QED BY <1>1, <2>2, <4>1
    <3> QED BY <1>1, <1>3, <3>1, <3>2, <3>3
  <2>4. v7'[Len(v7')].val = v6' BY <1>3, <2>2
  <2> QED BY <1>1, <2>1, <2>2, <2>3, <2>4 DEF Seen
<1>7. ASSUME NEW z \in Ad2usb!Zone, Lasts(z)' PROVE SeenLines(z)' /\ SeenTold(z)'
  <2>1. Lasts(z) /\ SeenLines(z) /\ SeenTold(z) BY <1>1, <1>7 DEF AdInv, AdZone, Lasts
  <2>2. ASSUME NEW k \in 1 .. Len(v7'), Shows(v7'[k], z) PROVE Seen(z, k)'
    <3>1. CASE k \in 1 .. Len(v7)
      <4>1. Seen(z, k) BY <1>3, <2>1, <2>2, <3>1 DEF SeenLines
      <4> QED BY <1>1, <1>6, <2>1, <3>1, <4>1
    <3>2. CASE k = Len(v7) + 1
      <4>1. l.kind = "fault" /\ l.val = z BY <1>3, <2>2, <3>2 DEF Shows
      <4>2. v6' = z /\ v3' = 0 /\ ~v5' BY <1>1, <1>2, <4>1
      <4>3. z \in v13' BY <1>4, <1>7 DEF AdTypes, Lasts
      <4>4. k = Len(v7') /\ v7'[Len(v7')].val = v6' BY <1>3, <3>2, <4>1, <4>2
      <4>5. \A i \in k + 1 .. Len(v7') : FALSE BY <1>1, <1>3, <3>2
      <4> QED BY <4>2, <4>3, <4>4, <4>5 DEF Seen
    <3> QED BY <1>1, <1>3, <3>1, <3>2
  <2>3. ASSUME Told(v12, z) PROVE Seen(z, 0)' /\ v9[z] >= 1 /\ (v9[z] = 1 => Soon(z)')
    <3>1. Seen(z, 0) /\ v9[z] >= 1 /\ (v9[z] = 1 => Soon(z)) BY <2>1, <2>3 DEF SeenTold
    <3>2. Seen(z, 0)'
      <4>1. 0 \in 0 .. Len(v7) BY <1>1
      <4> QED BY <1>6, <2>1, <3>1, <4>1
    <3>3. ASSUME Soon(z) PROVE Soon(z)'
      <4>1. v7' # <<>> BY <1>1, <1>3, EmptySeq
      <4>2. CASE v7 = <<>>
        <5>1. v6 # z /\ Len(v7) = 0 BY <3>3, <4>2, EmptySeq DEF Soon
        <5>2. l.val = Ad2usb!Next1(v6) BY <1>2, <2>1, <3>1 DEF Seen, Lasts
        <5>3. Ad2usb!Next1(v6) = z BY <2>1, <3>1, <5>1, NextShown DEF AdInv, Lasts, Seen
        <5>4. v7'[1].val = z BY <1>3, <5>1, <5>2, <5>3
        <5> QED BY <4>1, <5>4 DEF Soon
      <4>3. CASE v7 # <<>>
        <5>1. Len(v7) # 0 BY <1>1, <4>3, EmptySeq
        <5>2. v7'[1] = v7[1] BY <1>1, <1>3, <5>1
        <5> QED BY <3>3, <4>1, <4>3, <5>2 DEF Soon
      <4> QED BY <4>2, <4>3
    <3> QED BY <3>1, <3>2, <3>3
  <2>4. SeenLines(z)' BY <2>2 DEF SeenLines, Shows
  <2>5. SeenTold(z)'
    <3>1. v12' = v12 /\ v9' = v9 BY <1>1
    <3> QED BY <2>3, <3>1 DEF SeenTold, Told
  <2> QED BY <2>4, <2>5
<1>8. \A z \in Ad2usb!Zone : AdZone(z)' BY <1>5, <1>7 DEF AdZone
<1> QED BY <1>4, <1>8 DEF AdInv

\* Lines of other kinds end what is said of two zones.
LEMMA AdShowsOther ==
  ASSUME AdInv, Ad2usb!ShowsOther
  PROVE  AdInv'
<1>1. /\ UNCHANGED <<v2, v3, v4, v5, v6, v8, v9, v12, v13, v14, v15>> /\ v17' = v17 + 1
      /\ v7 \in Seq(AdLine) /\ Len(v7) \in Nat /\ v17 \in Nat
  <2>1. v7 \in Seq(AdLine) /\ v17 \in Nat BY DEF AdInv, AdTypes
  <2>2. Len(v7) \in Nat BY <2>1, LenProperties
  <2> QED BY <2>1, <2>2 DEF Ad2usb!ShowsOther, Ad2usb!coll, Ad2usb!panel
<1>2. PICK v \in {0, 1} : v7' = Append(v7, [kind |-> "other", val |-> v, bat |-> 0])
  BY DEF Ad2usb!ShowsOther
<1>3. [kind |-> "other", val |-> v, bat |-> 0] \in AdLine BY DEF AdLine
<1>4. /\ v7' \in Seq(AdLine) /\ Len(v7') = Len(v7) + 1 /\ v7'[Len(v7) + 1].kind = "other"
      /\ \A i \in 1 .. Len(v7) : v7'[i] = v7[i]
  BY <1>1, <1>2, <1>3, AppendProperties
<1>5. AdTypes' BY <1>1, <1>4 DEF AdInv, AdTypes
<1>6. ASSUME NEW z \in Ad2usb!Zone PROVE AdZone(z)'
  <2>1. ~Lasts(z)' BY <1>1 DEF Lasts
  <2>2. ASSUME z \notin v2' \cup v14' PROVE NeverShown(z)'
    <3>1. NeverShown(z) BY <1>1, <2>2 DEF AdInv, AdZone
    <3>2. ASSUME NEW k \in 1 .. Len(v7') PROVE ~Shows(v7'[k], z)
      <4>1. CASE k <= Len(v7) BY <1>1, <1>4, <3>1, <4>1 DEF NeverShown
      <4>2. CASE k = Len(v7) + 1 BY <1>4, <4>2 DEF Shows
      <4> QED BY <1>1, <1>4, <4>1, <4>2
    <3> QED BY <1>1, <3>1, <3>2 DEF NeverShown, Told
  <2> QED BY <2>1, <2>2 DEF AdZone
<1> QED BY <1>5, <1>6 DEF AdInv

\* A key, and what it does to the panel.
LEMMA AdKeys ==
  ASSUME AdInv, UNCHANGED <<v2, v4, v6, v7, v9, v12, v13, v14, v15, v17>>, v5' = v5 \/ v5' = FALSE,
         v3' \in {0, 1, 4}, v2 # {} /\ v3 = 0 => v3' = 0, v8' \in Seq(AdKey)
  PROVE  AdInv'
<1>1. AdTypes' BY DEF AdInv, AdTypes
<1>2. ASSUME NEW z \in Ad2usb!Zone PROVE AdZone(z)'
  <2>1. z \notin v2' \cup v14' => NeverShown(z)'
    BY DEF AdInv, AdZone, NeverShown, Told, Shows
  <2>2. ASSUME Lasts(z)' PROVE SeenLines(z)' /\ SeenTold(z)'
    <3>1. Lasts(z) /\ v2 # {} BY <2>2 DEF Lasts
    <3>2. SeenLines(z) /\ SeenTold(z) BY <3>1 DEF AdInv, AdZone
    <3>3. ASSUME NEW k, Seen(z, k) PROVE Seen(z, k)' BY <3>1, <3>3 DEF Seen
    <3>4. Soon(z) => Soon(z)' BY DEF Soon
    <3>5. SeenLines(z)' BY <3>2, <3>3 DEF SeenLines, Shows
    <3>6. SeenTold(z)' BY <3>2, <3>3, <3>4 DEF SeenTold, Told
    <3> QED BY <3>5, <3>6
  <2> QED BY <2>1, <2>2 DEF AdZone
<1> QED BY <1>1, <1>2 DEF AdInv

\* A zone that is cleared is not one of those any more, and one with a new fault has not
\* been shown yet.
LEMMA AdChanges ==
  ASSUME Ad2usb!Ad2usbAssumption, AdInv, Ad2usb!Changes
  PROVE  AdInv'
<1>1. UNCHANGED <<v6, v7, v8, v9, v12, v15, v17>>
  BY DEF Ad2usb!Changes, Ad2usb!coll
<1>2. CASE v4' = 1 - v4 /\ UNCHANGED <<v2, v3, v5, v13, v14>>
  <2>1. AdTypes' BY <1>1, <1>2 DEF AdInv, AdTypes
  <2>2. ASSUME NEW z \in Ad2usb!Zone PROVE AdZone(z)'
    BY <1>1, <1>2 DEF AdInv, AdZone, NeverShown, SeenLines, SeenTold, Seen, Lasts, Told, Shows, Soon
  <2> QED BY <2>1, <2>2 DEF AdInv
<1>3. CASE \E y \in Ad2usb!PanelZone :
             /\ v2' = IF y \in v2 THEN v2 \ {y} ELSE v2 \cup {y}
             /\ v5' = (v2' # {} /\ (v5 \/ v2 = {}))
             /\ v13' = IF v2' = {} THEN {} ELSE v13 \cup v2'
             /\ v14' = v14 \cup (v2 \ v2')
             /\ UNCHANGED <<v3, v4>>
  <2>1. PICK y \in Ad2usb!PanelZone :
             /\ v2' = IF y \in v2 THEN v2 \ {y} ELSE v2 \cup {y}
             /\ v5' = (v2' # {} /\ (v5 \/ v2 = {}))
             /\ v13' = IF v2' = {} THEN {} ELSE v13 \cup v2'
             /\ v14' = v14 \cup (v2 \ v2')
             /\ UNCHANGED <<v3, v4>>
    BY <1>3
  <2>2. AdTypes' BY <1>1, <2>1 DEF AdInv, AdTypes
  <2>3. ASSUME NEW z \in Ad2usb!Zone PROVE AdZone(z)'
    <3>1. ASSUME z \notin v2' \cup v14' PROVE NeverShown(z)'
      <4>1. z \notin v2 \cup v14 BY <2>1, <3>1
      <4>2. NeverShown(z) BY <4>1 DEF AdInv, AdZone
      <4> QED BY <1>1, <4>2 DEF NeverShown, Told, Shows
    <3>2. ASSUME Lasts(z)' PROVE SeenLines(z)' /\ SeenTold(z)'
      <4>1. CASE z \notin v2
        <5>1. z \notin v2 \cup v14 BY <2>1, <3>2, <4>1 DEF Lasts
        <5>2. NeverShown(z) BY <5>1 DEF AdInv, AdZone
        <5> QED BY <1>1, <5>2 DEF NeverShown, SeenLines, SeenTold, Told, Shows
      <4>2. CASE z \in v2
        <5>1. z \in v2' /\ z \notin v14 /\ v13 \subseteq v13' BY <2>1, <3>2, <4>2 DEF Lasts
        <5>2. Cardinality(v13) <= 2
          <6>1. IsFiniteSet(v13')
            <7>1. IsFiniteSet(1 .. Zones + 1) BY FS_Interval DEF Ad2usb!Ad2usbAssumption
            <7>2. v13' \subseteq 1 .. Zones + 1 BY <2>2 DEF AdTypes, Ad2usb!PanelZone
            <7> QED BY <7>1, <7>2, FS_Subset
          <6>2. IsFiniteSet(v13) /\ Cardinality(v13) <= Cardinality(v13') BY <5>1, <6>1, FS_Subset
          <6>3. Cardinality(v13) \in Nat /\ Cardinality(v13') \in Nat
            BY <6>1, <6>2, FS_CardinalityType
          <6> QED BY <3>2, <6>2, <6>3 DEF Lasts
        <5>3. Lasts(z) BY <1>1, <3>2, <4>2, <5>1, <5>2 DEF Lasts
        <5>4. SeenLines(z) /\ SeenTold(z) BY <5>3 DEF AdInv, AdZone
        <5>5. ASSUME NEW k, Seen(z, k) PROVE Seen(z, k)'
          BY <1>1, <2>1, <4>2, <5>1, <5>5 DEF Seen
        <5>6. Soon(z) => Soon(z)' BY <1>1 DEF Soon
        <5>7. SeenLines(z)' BY <1>1, <5>4, <5>5 DEF SeenLines, Shows
        <5>8. SeenTold(z)' BY <1>1, <5>4, <5>5, <5>6 DEF SeenTold, Told
        <5> QED BY <5>7, <5>8
      <4> QED BY <4>1, <4>2
    <3> QED BY <3>1, <3>2 DEF AdZone
  <2> QED BY <2>2, <2>3 DEF AdInv
<1> QED BY <1>2, <1>3 DEF Ad2usb!Changes

\* The invariant is kept, and so is what is told of a fault that lasts.
LEMMA AdStepI == Ad2usb!Ad2usbAssumption /\ AdInv /\ Ad2usb!Next => AdInv' /\ Ad2usb!KeepsFaults
<1> SUFFICES ASSUME Ad2usb!Ad2usbAssumption, AdInv, Ad2usb!Next
             PROVE  AdInv' /\ Ad2usb!KeepsFaults
  OBVIOUS
<1>0. v8 \in Seq(AdKey) /\ v3 \in {0, 1, 4} BY DEF AdInv, AdTypes
<1>1. ASSUME v12' = v12 PROVE Ad2usb!KeepsFaults
  BY <1>1 DEF Ad2usb!KeepsFaults, Ad2usb!Holds
<1>2. CASE \E n \in 1 .. 2 : Ad2usb!ad2usb_buf_read_cb(n) BY <1>2, AdReads
<1>3. CASE Ad2usb!coll_chg_cb
  <2>1. PICK s \in {0, 1, 4} : v8' = Append(v8, <<"code", s>>)
    BY <1>3 DEF Ad2usb!coll_chg_cb, Ad2usb!ALARM_READY, Ad2usb!ALARM_STAY, Ad2usb!ALARM_AWAY
  <2>2. <<"code", s>> \in AdKey BY DEF AdKey
  <2>3. v8' \in Seq(AdKey) BY <1>0, <2>1, <2>2, AppendProperties
  <2>4. UNCHANGED <<v2, v3, v4, v5, v6, v7, v9, v12, v13, v14, v15, v17>>
    BY <1>3 DEF Ad2usb!coll_chg_cb, Ad2usb!panel, Ad2usb!coll
  <2> QED BY <1>0, <1>1, <2>3, <2>4, AdKeys
<1>4. CASE Ad2usb!Shows
  <2>1. v12' = v12 BY <1>4 DEF Ad2usb!Shows, Ad2usb!coll
  <2> QED BY <1>1, <1>4, <2>1, AdShows
<1>5. CASE Ad2usb!ShowsOther
  <2>1. v12' = v12 BY <1>5 DEF Ad2usb!ShowsOther, Ad2usb!coll
  <2> QED BY <1>1, <1>5, <2>1, AdShowsOther
<1>6. CASE Ad2usb!Takes
  <2>1. v8 # <<>> /\ v8' = Tail(v8) /\ UNCHANGED <<v2, v4, v6, v7, v9, v12, v13, v14, v15, v17>>
    BY <1>6 DEF Ad2usb!Takes, Ad2usb!coll
  <2>2. v8' \in Seq(AdKey) /\ Head(v8) \in AdKey BY <1>0, <2>1, HeadTailProperties
  <2>3. CASE Head(v8) = <<"*">>
    <3>1. v5' = FALSE /\ v3' = v3 BY <1>6, <2>3 DEF Ad2usb!Takes
    <3> QED BY <1>0, <1>1, <2>1, <2>2, <3>1, AdKeys
  <2>4. CASE Head(v8) # <<"*">>
    <3>1. /\ v3' = IF Head(v8)[2] # Ad2usb!ALARM_READY /\ v2 # {} THEN v3 ELSE Head(v8)[2]
          /\ v5' = v5
      BY <1>6, <2>4 DEF Ad2usb!Takes
    <3>2. Head(v8)[2] \in {0, 1, 4} BY <2>2, <2>4 DEF AdKey
    <3>3. v3' \in {0, 1, 4} /\ (v2 # {} /\ v3 = 0 => v3' = 0)
      BY <1>0, <3>1, <3>2 DEF Ad2usb!ALARM_READY
    <3> QED BY <1>1, <2>1, <2>2, <3>1, <3>3, AdKeys
  <2> QED BY <2>3, <2>4
<1>7. CASE Ad2usb!Changes
  <2>1. v12' = v12 BY <1>7 DEF Ad2usb!Changes, Ad2usb!coll
  <2> QED BY <1>1, <1>7, <2>1, AdChanges
<1> QED BY <1>2, <1>3, <1>4, <1>5, <1>6, <1>7 DEF Ad2usb!Next

(***************************************************************************)
(* The queues of commands to Insteon devices: what is taken out of one     *)
(***************************************************************************)
\* The largest of some numbers up to n.
LEMMA NatMax ==
  ASSUME NEW n \in Nat, NEW T \in SUBSET (0 .. n), T # {}
  PROVE  \E x \in T : \A y \in T : x >= y
<1> DEFINE above == {m \in Nat : \A y \in T : y <= m}
<1>1. n \in above OBVIOUS
<1>2. PICK m \in above : \A k \in above : m <= k BY <1>1, NatMin
<1>3. m \in T
  <2>1. SUFFICES ASSUME m \notin T PROVE FALSE OBVIOUS
  <2>2. \A y \in T : y \in Nat /\ y < m BY <1>2, <2>1
  <2>3. m - 1 \in above
    <3>1. PICK y \in T : TRUE OBVIOUS
    <3>2. m \in Nat /\ y \in Nat /\ y < m BY <1>2, <2>2, <3>1
    <3>3. m - 1 \in Nat /\ \A k \in T : k <= m - 1 BY <2>2, <3>2
    <3> QED BY <3>3
  <2> QED BY <1>2, <2>3
<1> QED BY <1>2, <1>3

\* The places of K, in their order.
Rank(K, j) == Cardinality({k \in K : k <= j})
Place(K, i) == CHOOSE j \in K : Rank(K, j) = i
LEMMA Ranks ==
  ASSUME NEW n \in Nat, NEW K \in SUBSET (1 .. n)
  PROVE  /\ IsFiniteSet(K) /\ Cardinality(K) \in Nat
         /\ \A m \in Nat : Rank(K, m) \in Nat
         /\ \A m \in Nat, j \in Nat : m <= j => Rank(K, m) <= Rank(K, j)
         /\ \A m \in Nat, j \in K : m < j => Rank(K, m) < Rank(K, j)
         /\ \A m \in Nat : m + 1 \notin K => Rank(K, m + 1) = Rank(K, m)
         /\ \A m \in Nat : m + 1 \in K => Rank(K, m + 1) = Rank(K, m) + 1
         /\ Rank(K, 0) = 0 /\ Rank(K, n) = Cardinality(K)
<1>0. \A k \in K : k \in Nat /\ 1 <= k /\ k <= n OBVIOUS
<1>1. IsFiniteSet(K)
  <2>1. IsFiniteSet(1 .. n) BY FS_Interval
  <2> QED BY <2>1, FS_Subset
<1>2. \A m : IsFiniteSet({k \in K : k <= m}) BY <1>1, FS_Subset
<1>3. \A m : Rank(K, m) \in Nat BY <1>2, FS_CardinalityType DEF Rank
<1>4. ASSUME NEW m \in Nat, NEW j \in Nat, m <= j PROVE Rank(K, m) <= Rank(K, j)
  <2>1. {k \in K : k <= m} \subseteq {k \in K : k <= j}
    <3>1. \A k \in K : k <= m => k <= j BY <1>0, <1>4
    <3> QED BY <3>1
  <2> QED BY <1>2, <2>1, FS_Subset DEF Rank
<1>5. ASSUME NEW m \in Nat, m + 1 \notin K PROVE Rank(K, m + 1) = Rank(K, m)
  <2>1. \A k \in K : k <= m + 1 <=> k <= m BY <1>5
  <2>2. {k \in K : k <= m + 1} = {k \in K : k <= m} BY <2>1
  <2> QED BY <2>2 DEF Rank
<1>6. ASSUME NEW m \in Nat, m + 1 \in K PROVE Rank(K, m + 1) = Rank(K, m) + 1
  <2>1. \A k \in K : k <= m + 1 <=> k <= m \/ k = m + 1 OBVIOUS
  <2>2. {k \in K : k <= m + 1} = {k \in K : k <= m} \cup {m + 1} BY <1>6, <2>1
  <2>3. m + 1 \notin {k \in K : k <= m} OBVIOUS
  <2> QED BY <1>2, <2>2, <2>3, FS_AddElement DEF Rank
<1>7. ASSUME NEW m \in Nat, NEW j \in K, m < j PROVE Rank(K, m) < Rank(K, j)
  <2>1. j - 1 \in Nat /\ m <= j - 1 /\ (j - 1) + 1 = j BY <1>7
  <2>2. Rank(K, m) <= Rank(K, j - 1) BY <1>4, <2>1
  <2>3. Rank(K, j) = Rank(K, j - 1) + 1 BY <1>6, <2>1
  <2> QED BY <1>3, <2>2, <2>3
<1>8. Rank(K, 0) = 0
  <2>1. {k \in K : k <= 0} = {}
    <3>1. \A k \in K : ~(k <= 0) BY <1>0
    <3> QED BY <3>1
  <2> QED BY <2>1, FS_EmptySet DEF Rank
<1>9. Rank(K, n) = Cardinality(K)
  <2>1. {k \in K : k <= n} = K BY <1>0
  <2> QED BY <2>1 DEF Rank
<1>10. Cardinality(K) \in Nat BY <1>1, FS_CardinalityType
<1> QED BY <1>1, <1>3, <1>4, <1>5, <1>6, <1>7, <1>8, <1>9, <1>10

LEMMA Places ==
  ASSUME NEW n \in Nat, NEW K \in SUBSET (1 .. n)
  PROVE  /\ Cardinality(K) \in Nat
         /\ \A i \in 1 .. Cardinality(K) : Place(K, i) \in K /\ Rank(K, Place(K, i)) = i
         /\ \A i, j \in 1 .. Cardinality(K) : i < j => Place(K, i) < Place(K, j)
         /\ \A j \in K : Rank(K, j) \in 1 .. Cardinality(K) /\ Place(K, Rank(K, j)) = j
<1>0. \A j \in K : j \in Nat /\ j >= 1 /\ j <= n OBVIOUS
<1>1. ASSUME NEW i \in 1 .. Cardinality(K) PROVE \E j \in K : Rank(K, j) = i
  <2> DEFINE T == {m \in Nat : Rank(K, m) >= i}
  <2>1. n \in T BY Ranks
  <2>2. PICK m \in T : \A k \in T : m <= k BY <2>1, NatMin
  <2>3. m # 0 BY <2>2, Ranks
  <2>4. m - 1 \in Nat /\ (m - 1) + 1 = m BY <2>2, <2>3
  <2>5. Rank(K, m - 1) < i
    <3>1. m - 1 \notin T BY <2>2, <2>4
    <3>2. Rank(K, m - 1) \in Nat BY <2>4, Ranks
    <3> QED BY <2>4, <3>1, <3>2
  <2>6. Rank(K, m - 1) \in Nat /\ Rank(K, m) >= i BY <2>2, <2>4, Ranks
  <2>7. m \in K
    <3>1. SUFFICES ASSUME m \notin K PROVE FALSE OBVIOUS
    <3>2. Rank(K, m) = Rank(K, m - 1) BY <2>4, <3>1, Ranks
    <3> QED BY <2>5, <2>6, <3>2
  <2>8. Rank(K, m) = Rank(K, m - 1) + 1 BY <2>4, <2>7, Ranks
  <2> QED BY <2>5, <2>6, <2>7, <2>8
<1>2. \A i \in 1 .. Cardinality(K) : Place(K, i) \in K /\ Rank(K, Place(K, i)) = i
  BY <1>1 DEF Place
<1>3. ASSUME NEW i \in 1 .. Cardinality(K), NEW j \in 1 .. Cardinality(K), i < j
      PROVE  Place(K, i) < Place(K, j)
  <2>0. Place(K, i) \in Nat /\ Place(K, j) \in Nat BY <1>0, <1>2
  <2>1. SUFFICES ASSUME Place(K, j) <= Place(K, i) PROVE FALSE BY <2>0
  <2>2. j <= i
    <3>1. Rank(K, Place(K, j)) <= Rank(K, Place(K, i)) BY <2>0, <2>1, Ranks
    <3> QED BY <1>2, <3>1
  <2> QED BY <1>3, <2>2
<1>4. ASSUME NEW j \in K PROVE Rank(K, j) \in 1 .. Cardinality(K) /\ Place(K, Rank(K, j)) = j
  <2>1. Rank(K, j) \in 1 .. Cardinality(K)
    <3>0. j \in Nat /\ 0 < j BY <1>0
    <3>1. Rank(K, j) \in Nat /\ Rank(K, 0) < Rank(K, j) BY <3>0, Ranks
    <3>2. Rank(K, j) <= Rank(K, n) BY <1>0, Ranks
    <3> QED BY <3>1, <3>2, Ranks
  <2> DEFINE p == Place(K, Rank(K, j))
  <2>2. p \in K /\ Rank(K, p) = Rank(K, j) BY <1>2, <2>1
  <2> HIDE DEF p
  <2>3. ~(p < j) /\ ~(j < p)
    <3>1. p < j => Rank(K, p) < Rank(K, j) BY <1>0, <2>2, Ranks
    <3>2. j < p => Rank(K, j) < Rank(K, p) BY <1>0, <2>2, Ranks
    <3>3. Rank(K, j) \in Nat BY <1>0, Ranks
    <3> QED BY <2>2, <3>1, <3>2, <3>3
  <2>4. p = j BY <1>0, <2>2, <2>3
  <2> QED BY <2>1, <2>4 DEF p
<1> QED BY <1>2, <1>3, <1>4, Ranks

\* What is left of a queue.
Left(q, K) == [i \in 1 .. Cardinality(K) |-> q[Place(K, i)]]
LEMMA LeftIs ==
  ASSUME NEW S, NEW q \in Seq(S), NEW K \in SUBSET (1 .. Len(q))
  PROVE  /\ Left(q, K) \in Seq(S) /\ Len(Left(q, K)) = Cardinality(K) /\ Cardinality(K) \in Nat
         /\ \A i \in 1 .. Cardinality(K) : Left(q, K)[i] = q[Place(K, i)]
<1>1. Len(q) \in Nat BY LenProperties
<1>2. \A i \in 1 .. Cardinality(K) : q[Place(K, i)] \in S BY <1>1, Places, ElementOfSeq
<1>3. Cardinality(K) \in Nat BY <1>1, Places
<1>4. Left(q, K) \in [1 .. Cardinality(K) -> S] BY <1>2 DEF Left
<1>5. \A i \in 1 .. Cardinality(K) : Left(q, K)[i] = q[Place(K, i)] BY DEF Left
<1> HIDE DEF Left
<1> QED BY <1>3, <1>4, <1>5

(***************************************************************************)
(* insteon_aldb                                                            *)
(***************************************************************************)
\* The commands, entries and messages while a database is only read.
AldbWait == {"ack", "data", "aldb", "send"}
AldbCmd == [kind : {"getinfo", "send"}, to : {"plm", "dev"}, com : {"", "RWALDB"}, arg : {0}, data : {0}]
AldbEntry == [cmd : AldbCmd, wait : SUBSET AldbWait, state : SUBSET AldbWait, sendcount : Nat]
AldbPlace == 1 .. 2 * ALDB_MAXSIZE
AldbMsg == [is : {"info", "std"}] \cup [is : {"echo"}, cmd : AldbCmd]
AldbMsgs == AldbMsg \cup {InsteonAldb!Ext(i, v5[i]) : i \in AldbPlace}
AldbReads ==
  /\ v2 \in Seq(AldbEntry)
  /\ v5 \in [AldbPlace -> Nat] /\ \E i \in AldbPlace : v5[i] = 0
  /\ v8 \in Seq(AldbMsgs)
  /\ v4 \in [1 .. ALDB_MAXSIZE -> {InsteonAldb!NONE} \cup Nat]
  /\ \A i \in 1 .. ALDB_MAXSIZE : v4[i] \in {InsteonAldb!NONE, v5[i]}
  /\ v6 \in 0 .. ALDB_MAXSIZE
  /\ \A i \in 1 .. v6 : v4[i] = v5[i]
AldbInv == v1 = <<>> => AldbReads

\* What is done to the head of a queue.
LEMMA AldbHead ==
  ASSUME NEW q \in Seq(AldbEntry), q # <<>>
  PROVE  /\ q[1] \in AldbEntry
         /\ \A e \in AldbEntry : [q EXCEPT ![1] = e] \in Seq(AldbEntry)
<1>1. Len(q) \in Nat /\ Len(q) > 0 BY EmptySeq, LenProperties
<1>2. q[1] \in AldbEntry BY <1>1, ElementOfSeq
<1>3. ASSUME NEW e \in AldbEntry PROVE [q EXCEPT ![1] = e] \in Seq(AldbEntry)
  <2>1. 1 \in 1 .. Len(q) BY <1>1
  <2> QED BY <2>1, ExceptSeq
<1> QED BY <1>2, <1>3

LEMMA AldbQueues ==
  ASSUME NEW q \in Seq(AldbEntry)
  PROVE  /\ InsteonAldb!plm_condense_runq(q) \in Seq(AldbEntry)
         /\ \A expired \in BOOLEAN : InsteonAldb!Live(q, expired) \in Seq(AldbEntry)
         /\ q # <<>> => InsteonAldb!Sent(q) \in Seq(AldbEntry)
         /\ InsteonAldb!plmcmdq_dequeue(q) \in Seq(AldbEntry)
         /\ \A what : InsteonAldb!plmcmdq_got_data(q, what) \in Seq(AldbEntry)
<1>0. Len(q) \in Nat /\ DOMAIN q = 1 .. Len(q) BY LenProperties
<1>1. ASSUME NEW K \in SUBSET (1 .. Len(q)) PROVE InsteonAldb!Those(q, K) \in Seq(AldbEntry)
  <2>1. InsteonAldb!Those(q, K) = Left(q, K)
    BY DEF InsteonAldb!Those, Left, Place, Rank, InsteonAldb!Cardinality, Cardinality
  <2> QED BY <2>1, LeftIs
<1>2. InsteonAldb!plm_condense_runq(q) \in Seq(AldbEntry)
  <2>1. CASE q = <<>> BY <2>1 DEF InsteonAldb!plm_condense_runq
  <2>2. CASE q # <<>>
    <3> DEFINE K == {i \in DOMAIN q : q[i].cmd # q[1].cmd}
               rest == InsteonAldb!Those(q, K)
    <3>1. rest \in Seq(AldbEntry)
      <4>1. K \in SUBSET (1 .. Len(q)) BY <1>0
      <4> QED BY <1>1, <4>1
    <3>2. <<q[1]>> \in Seq(AldbEntry)
      <4>1. q[1] \in AldbEntry BY <2>2, AldbHead
      <4> HIDE DEF AldbEntry
      <4> QED BY <4>1
    <3>3. InsteonAldb!plm_condense_runq(q) \in {rest, <<q[1]>> \o rest}
      BY <2>2 DEF InsteonAldb!plm_condense_runq
    <3> HIDE DEF rest
    <3>4. <<q[1]>> \o rest \in Seq(AldbEntry) BY <3>1, <3>2, ConcatProperties
    <3> QED BY <3>1, <3>3, <3>4
  <2> QED BY <2>1, <2>2
<1>3. ASSUME NEW expired \in BOOLEAN PROVE InsteonAldb!Live(q, expired) \in Seq(AldbEntry)
  <2> DEFINE gone == {n \in 0 .. Len(q) : \A i \in 1 .. n : InsteonAldb!Over(q[i], expired)}
             m == InsteonAldb!Max(gone)
  <2>1. 0 \in gone BY <1>0
  <2>2. \E x \in gone : \A y \in gone : x >= y BY <1>0, <2>1, NatMax
  <2>3. m \in gone BY <2>2 DEF InsteonAldb!Max
  <2>4. m \in 0 .. Len(q) BY <2>3
  <2>5. InsteonAldb!Live(q, expired) = SubSeq(q, m + 1, Len(q)) BY DEF InsteonAldb!Live
  <2> HIDE DEF m
  <2>6. \A i \in m + 1 .. Len(q) : q[i] \in AldbEntry BY <1>0, <2>4, ElementOfSeq
  <2> QED BY <1>0, <2>4, <2>5, <2>6, SubSeqProperties
<1>4. ASSUME q # <<>> PROVE InsteonAldb!Sent(q) \in Seq(AldbEntry)
  <2> DEFINE st == IF "send" \in q[1].state THEN q[1].state \ {"send"} ELSE q[1].wait
             n == q[1].sendcount + 1
             e == [q[1] EXCEPT !.state = st, !.sendcount = n]
  <2>1. InsteonAldb!Sent(q) = [q EXCEPT ![1] = e] BY <1>0, <1>4 DEF InsteonAldb!Sent
  <2>2. e \in AldbEntry
    <3>1. q[1] \in AldbEntry BY <1>4, AldbHead
    <3>2. st \in SUBSET AldbWait /\ n \in Nat BY <3>1 DEF AldbEntry
    <3> HIDE DEF st, n
    <3> QED BY <3>1, <3>2 DEF AldbEntry
  <2> QED BY <1>4, <2>1, <2>2, AldbHead
<1>5. InsteonAldb!plmcmdq_dequeue(q) \in Seq(AldbEntry)
  BY HeadTailProperties DEF InsteonAldb!plmcmdq_dequeue
<1>6. ASSUME NEW what PROVE InsteonAldb!plmcmdq_got_data(q, what) \in Seq(AldbEntry)
  <2>1. CASE q = <<>> BY <2>1 DEF InsteonAldb!plmcmdq_got_data
  <2>2. CASE q # <<>>
    <3> DEFINE e == [q[1] EXCEPT !.state = @ \ {what}]
    <3>1. InsteonAldb!plmcmdq_got_data(q, what) = [q EXCEPT ![1] = e]
      BY <2>2 DEF InsteonAldb!plmcmdq_got_data
    <3>2. e \in AldbEntry
      <4>1. q[1] \in AldbEntry BY <2>2, AldbHead
      <4> QED BY <4>1 DEF AldbEntry
    <3> QED BY <2>2, <3>1, <3>2, AldbHead
  <2> QED BY <2>1, <2>2
<1> QED BY <1>2, <1>3, <1>4, <1>5, <1>6

LEMMA AldbInitI == InsteonAldb!AldbAssumption /\ InsteonAldb!Init => AldbInv
<1> SUFFICES ASSUME InsteonAldb!AldbAssumption, InsteonAldb!Init, v1 = <<>> PROVE AldbReads
  BY DEF AldbInv
<1>1. PICK f \in Files \cup {<<>>}, records \in Databases :
        /\ v1 = f
        /\ v4 = InsteonAldb!parse_aldbfile(f) /\ v6 = Len(f)
        /\ v2 = <<InsteonAldb!plm_getinfo>> \o InsteonAldb!plm_write_aldb(f) \o InsteonAldb!plm_req_aldb
        /\ v5 = InsteonAldb!Memory(records)
        /\ v8 = <<>>
  BY DEF InsteonAldb!Init
<1>2. f = <<>> /\ DOMAIN f = {} /\ Len(f) = 0 BY <1>1
<1>3. v2 \in Seq(AldbEntry)
  <2> DEFINE g == InsteonAldb!plm_getinfo
             r == InsteonAldb!plm_enq_ext("dev", "RWALDB", 0, {"ack", "data", "aldb"})
  <2>1. g \in AldbEntry
    BY DEF InsteonAldb!plm_getinfo, InsteonAldb!Entry, InsteonAldb!Command, AldbEntry, AldbCmd, AldbWait
  <2>2. r \in AldbEntry
    BY DEF InsteonAldb!plm_enq_ext, InsteonAldb!Entry, InsteonAldb!Command, AldbEntry, AldbCmd, AldbWait
  <2>3. InsteonAldb!plm_req_aldb = <<r>> BY DEF InsteonAldb!plm_req_aldb
  <2>4. InsteonAldb!plm_write_aldb(f) = <<>>
    <3>1. InsteonAldb!plm_write_aldb(f) = [i \in {} |-> InsteonAldb!plm_write_aldb_record(i, f[i])]
      BY <1>2 DEF InsteonAldb!plm_write_aldb
    <3> QED BY <3>1
  <2> HIDE DEF g, r, AldbEntry
  <2>5. <<g>> \in Seq(AldbEntry) /\ <<r>> \in Seq(AldbEntry) BY <2>1, <2>2
  <2>6. <<g>> \o <<>> = <<g>> OBVIOUS
  <2>7. v2 = <<g>> \o <<r>> BY <1>1, <2>3, <2>4, <2>6 DEF g
  <2> QED BY <2>5, <2>7, ConcatProperties
<1>4. records \in Seq(Nat) /\ Len(records) \in 1 .. 2 * ALDB_MAXSIZE /\ records[Len(records)] = 0
      /\ DOMAIN records = 1 .. Len(records) /\ ALDB_MAXSIZE \in Nat
  BY LenProperties DEF InsteonAldb!AldbAssumption
<1>5. v5 \in [AldbPlace -> Nat]
  <2>1. \A i \in DOMAIN records : records[i] \in Nat BY <1>4, ElementOfSeq
  <2> QED BY <1>1, <2>1 DEF InsteonAldb!Memory, AldbPlace
<1>6. v5[Len(records)] = 0
  BY <1>1, <1>4 DEF InsteonAldb!Memory
<1>7. v4 = [i \in 1 .. ALDB_MAXSIZE |-> InsteonAldb!NONE]
  BY <1>1, <1>2 DEF InsteonAldb!parse_aldbfile
<1>8. v8 \in Seq(AldbMsgs) BY <1>1, EmptySeq
<1>9. Len(records) \in AldbPlace BY <1>4 DEF AldbPlace
<1> QED BY <1>1, <1>2, <1>3, <1>4, <1>5, <1>6, <1>7, <1>8, <1>9 DEF AldbReads

\* A record of the device's, put in its place.
LEMMA AldbTakes ==
  ASSUME AldbReads, ALDB_MAXSIZE \in Nat, v5' = v5, NEW i \in AldbPlace, i <= ALDB_MAXSIZE,
         v4' = [v4 EXCEPT ![i] = v5[i]], v6' = InsteonAldb!Length(v4', v6)
  PROVE  /\ v4' \in [1 .. ALDB_MAXSIZE -> {InsteonAldb!NONE} \cup Nat]
         /\ \A j \in 1 .. ALDB_MAXSIZE : v4'[j] \in {InsteonAldb!NONE, v5[j]}
         /\ v6' \in 0 .. ALDB_MAXSIZE
         /\ \A j \in 1 .. v6' : v4'[j] = v5[j]
<1>1. i \in 1 .. ALDB_MAXSIZE /\ v5[i] \in Nat BY DEF AldbReads, AldbPlace
<1>2. /\ v4' \in [1 .. ALDB_MAXSIZE -> {InsteonAldb!NONE} \cup Nat]
      /\ \A j \in 1 .. ALDB_MAXSIZE : v4'[j] = IF j = i THEN v5[i] ELSE v4[j]
  BY <1>1 DEF AldbReads
<1>3. \A j \in 1 .. ALDB_MAXSIZE : v4'[j] \in {InsteonAldb!NONE, v5[j]} BY <1>2 DEF AldbReads
<1> DEFINE holes == {j \in 1 .. ALDB_MAXSIZE : v4'[j] = InsteonAldb!NONE}
<1>4. v6' = IF holes = {} THEN v6 ELSE InsteonAldb!Min(holes) - 1 BY DEF InsteonAldb!Length
<1>5. CASE holes = {}
  <2>1. \A j \in 1 .. ALDB_MAXSIZE : v4'[j] = v5[j] BY <1>3, <1>5
  <2>2. v6' \in 0 .. ALDB_MAXSIZE BY <1>4, <1>5 DEF AldbReads
  <2>3. \A j \in 1 .. v6' : j \in 1 .. ALDB_MAXSIZE BY <2>2
  <2> QED BY <1>2, <1>3, <2>1, <2>2, <2>3
<1>6. CASE holes # {}
  <2> DEFINE m == InsteonAldb!Min(holes)
  <2>0. holes \in SUBSET Nat OBVIOUS
  <2>1. \E x \in holes : \A y \in holes : x <= y BY <1>6, <2>0, NatMin
  <2>2. m \in holes /\ \A y \in holes : m <= y BY <2>1 DEF InsteonAldb!Min
  <2>3. m \in 1 .. ALDB_MAXSIZE BY <2>2
  <2>4. v6' = m - 1 BY <1>4, <1>6
  <2> HIDE DEF m
  <2>5. \A j \in 1 .. m - 1 : j \in 1 .. ALDB_MAXSIZE /\ j \notin holes BY <2>2, <2>3
  <2>6. \A j \in 1 .. v6' : v4'[j] = v5[j] BY <1>3, <2>4, <2>5
  <2>7. v6' \in 0 .. ALDB_MAXSIZE BY <2>3, <2>4
  <2> QED BY <1>2, <1>3, <2>6, <2>7
<1> QED BY <1>5, <1>6

\* The messages after a command was given to the PLM.
LEMMA AldbAnswers ==
  ASSUME AldbReads, ALDB_MAXSIZE \in Nat, NEW cmd \in AldbCmd
  PROVE  InsteonAldb!Answers(cmd) \in Seq(AldbMsgs)
<1>1. CASE cmd.kind = "getinfo"
  <2> DEFINE m == [is |-> "info"]
  <2>1. InsteonAldb!Answers(cmd) = <<m>> BY <1>1 DEF InsteonAldb!Answers
  <2>2. m \in AldbMsgs BY DEF AldbMsgs, AldbMsg
  <2> HIDE DEF m, AldbMsgs
  <2> QED BY <2>1, <2>2
<1>2. CASE cmd.kind # "getinfo"
  <2> DEFINE m == InsteonAldb!Echo(cmd)
             n == InsteonAldb!Std
  <2>1. cmd.data = 0 BY DEF AldbCmd
  <2>2. InsteonAldb!Answers(cmd) = <<m, n>> \o InsteonAldb!Records
    BY <1>2, <2>1 DEF InsteonAldb!Answers
  <2>3. m \in AldbMsgs /\ n \in AldbMsgs
    BY DEF AldbMsgs, AldbMsg, InsteonAldb!Echo, InsteonAldb!Std
  <2>4. InsteonAldb!Records \in Seq(AldbMsgs)
    <3> DEFINE zeros == {i \in DOMAIN v5 : v5[i] = 0}
               last == InsteonAldb!Min(zeros)
    <3>1. DOMAIN v5 = AldbPlace /\ zeros # {} BY DEF AldbReads
    <3>0. \A i \in AldbPlace : i \in Nat
      BY DEF AldbPlace
    <3>9. zeros \in SUBSET Nat BY <3>0, <3>1
    <3>2. \E x \in zeros : \A y \in zeros : x <= y BY <3>1, <3>9, NatMin
    <3>3. last \in zeros BY <3>2 DEF InsteonAldb!Min
    <3>4. last \in AldbPlace BY <3>1, <3>3
    <3>5. InsteonAldb!Records = [i \in 1 .. last |-> InsteonAldb!Ext(i, v5[i])]
      BY DEF InsteonAldb!Records
    <3> HIDE DEF last
    <3>6. last \in Nat /\ \A i \in 1 .. last : i \in AldbPlace BY <3>4 DEF AldbPlace
    <3>7. \A i \in 1 .. last : InsteonAldb!Ext(i, v5[i]) \in AldbMsgs BY <3>6 DEF AldbMsgs
    <3>8. InsteonAldb!Records \in [1 .. last -> AldbMsgs] BY <3>5, <3>7
    <3> QED BY <3>6, <3>8
  <2> HIDE DEF m, n, AldbMsgs
  <2>5. <<m, n>> \in Seq(AldbMsgs) BY <2>3
  <2> QED BY <2>2, <2>4, <2>5, ConcatProperties
<1> QED BY <1>1, <1>2

LEMMA AldbStepI == InsteonAldb!AldbAssumption /\ AldbInv /\ InsteonAldb!Next => AldbInv'
<1> SUFFICES ASSUME InsteonAldb!AldbAssumption, AldbInv, InsteonAldb!Next, v1' = <<>> PROVE AldbReads'
  BY DEF AldbInv
<1>0. v1' = v1
  BY DEF InsteonAldb!Next, InsteonAldb!Runq, InsteonAldb!Receive, InsteonAldb!Lose
<1>1. AldbReads BY <1>0 DEF AldbInv
<1>2. v2 \in Seq(AldbEntry) /\ v8 \in Seq(AldbMsgs) BY <1>1 DEF AldbReads
<1>k. ASSUME v5' = v5, v2' \in Seq(AldbEntry), v8' \in Seq(AldbMsgs), UNCHANGED <<v4, v6>>
      PROVE AldbReads'
  BY <1>1, <1>k DEF AldbReads, AldbMsgs
<1>3. CASE InsteonAldb!Runq
  <2> DEFINE expired == v8 = <<>>
             q == InsteonAldb!Live(InsteonAldb!plm_condense_runq(v2), expired)
  <2>0. expired \in BOOLEAN OBVIOUS
  <2>1. /\ q = InsteonAldb!Live(InsteonAldb!plm_condense_runq(v2), expired)
        /\ IF InsteonAldb!Due(q, expired)
             THEN /\ v2' = InsteonAldb!Sent(q)
                  /\ v5' = InsteonAldb!Written(q[1].cmd)
                  /\ v8' = v8 \o InsteonAldb!Answers(q[1].cmd)
             ELSE v2' = q /\ UNCHANGED <<v5, v8>>
    BY <1>3 DEF InsteonAldb!Runq
  <2> HIDE DEF q, expired
  <2>2. q \in Seq(AldbEntry)
    <3>1. InsteonAldb!plm_condense_runq(v2) \in Seq(AldbEntry) BY <1>2, AldbQueues
    <3> QED BY <2>0, <2>1, <3>1, AldbQueues
  <2>3. UNCHANGED <<v4, v6>> BY <1>3 DEF InsteonAldb!Runq
  <2>4. CASE ~InsteonAldb!Due(q, expired) BY <1>2, <1>k, <2>1, <2>2, <2>3, <2>4
  <2>5. CASE InsteonAldb!Due(q, expired)
    <3>1. q # <<>> BY <2>5 DEF InsteonAldb!Due
    <3>2. q[1].cmd \in AldbCmd
      <4>1. q[1] \in AldbEntry BY <2>2, <3>1, AldbHead
      <4> QED BY <4>1 DEF AldbEntry
    <3>3. v2' \in Seq(AldbEntry) BY <2>1, <2>2, <2>5, <3>1, AldbQueues
    <3>4. v5' = v5 BY <2>1, <2>5, <3>2 DEF InsteonAldb!Written, AldbCmd
    <3>5. v8' \in Seq(AldbMsgs)
      <4>1. InsteonAldb!Answers(q[1].cmd) \in Seq(AldbMsgs) BY <1>1, <3>2, AldbAnswers DEF InsteonAldb!AldbAssumption
      <4> QED BY <1>2, <2>1, <2>5, <4>1, ConcatProperties
    <3> QED BY <1>k, <2>3, <3>3, <3>4, <3>5
  <2> QED BY <2>4, <2>5
<1>4. CASE InsteonAldb!Receive
  <2>1. v8 # <<>> /\ v8' = Tail(v8) /\ v5' = v5 BY <1>4 DEF InsteonAldb!Receive
  <2>2. v8' \in Seq(AldbMsgs) /\ Head(v8) \in AldbMsgs BY <1>2, <2>1, HeadTailProperties
  <2> DEFINE m == Head(v8)
  <2>g. \A what : InsteonAldb!plmcmdq_got_data(v2, what) \in Seq(AldbEntry) BY <1>2, AldbQueues
  <2>r. \A known, from, com, what :
          InsteonAldb!plmcmdq_check_recv(v2, known, from, com, what) \in Seq(AldbEntry)
    BY <1>2, <2>g DEF InsteonAldb!plmcmdq_check_recv
  <2>3. CASE m.is = "info" /\ InsteonAldb!plm_handle_getinfo
    <3>1. v2' = InsteonAldb!plmcmdq_dequeue(v2) /\ UNCHANGED <<v4, v6>>
      BY <2>3 DEF InsteonAldb!plm_handle_getinfo
    <3>2. v2' \in Seq(AldbEntry) BY <1>2, <3>1, AldbQueues
    <3> QED BY <1>k, <2>1, <2>2, <3>1, <3>2
  <2>4. CASE m.is = "echo" /\ v2' = InsteonAldb!plmcmdq_check_ack(v2, m.cmd, TRUE) /\ UNCHANGED <<v4, v6>>
    <3>1. m.cmd \in AldbCmd BY <2>2, <2>4 DEF AldbMsgs, AldbMsg, InsteonAldb!Ext
    <3>2. CASE v2 = <<>> BY <1>2, <1>k, <2>1, <2>2, <2>4, <3>2 DEF InsteonAldb!plmcmdq_check_ack
    <3>3. CASE v2 # <<>>
      <4> DEFINE st == v2[1].wait \cup {"send"}
                 n == v2[1].sendcount + 1
                 e == [v2[1] EXCEPT !.state = st, !.sendcount = n]
      <4>1. v2[1] \in AldbEntry BY <1>2, <3>3, AldbHead
      <4>2. e \in AldbEntry
        <5>1. st \in SUBSET AldbWait /\ n \in Nat BY <4>1 DEF AldbEntry, AldbWait
        <5> HIDE DEF st, n
        <5> QED BY <4>1, <5>1 DEF AldbEntry
      <4>3. InsteonAldb!plmcmdq_retry_cur(v2) = [v2 EXCEPT ![1] = e]
        <5>1. Len(v2) \in Nat /\ 1 \in DOMAIN v2 BY <1>2, <3>3, EmptySeq
        <5> QED BY <5>1 DEF InsteonAldb!plmcmdq_retry_cur
      <4>4. InsteonAldb!plmcmdq_retry_cur(v2) \in Seq(AldbEntry)
        BY <1>2, <3>3, <4>2, <4>3, AldbHead
      <4> HIDE DEF e
      <4>5. v2' \in {v2, InsteonAldb!plmcmdq_got_data(v2, "ack"), InsteonAldb!plmcmdq_retry_cur(v2)}
        BY <2>4, <3>3 DEF InsteonAldb!plmcmdq_check_ack
      <4>6. v2' \in Seq(AldbEntry) BY <1>2, <2>g, <4>4, <4>5
      <4> QED BY <1>k, <2>1, <2>2, <2>4, <4>6
    <3> QED BY <3>2, <3>3
  <2>5. CASE m.is = "std" /\ InsteonAldb!plm_handle_stdrecv
    BY <1>k, <2>1, <2>2, <2>5, <2>r DEF InsteonAldb!plm_handle_stdrecv
  <2>6. CASE m.is = "ext" /\ InsteonAldb!plm_handle_extrecv(m.recno, m.rec)
    <3>1. PICK i \in AldbPlace : m.recno = i /\ m.rec = v5[i]
      BY <2>2, <2>6 DEF AldbMsgs, AldbMsg, InsteonAldb!Ext
    <3>2. /\ v2' \in Seq(AldbEntry)
          /\ v4' = IF i <= ALDB_MAXSIZE THEN [v4 EXCEPT ![i] = v5[i]] ELSE v4
          /\ v6' = IF i <= ALDB_MAXSIZE THEN InsteonAldb!Length(v4', v6) ELSE v6
      BY <2>6, <2>r, <3>1 DEF InsteonAldb!plm_handle_extrecv
    <3>3. CASE ~(i <= ALDB_MAXSIZE) BY <1>k, <2>1, <2>2, <3>2, <3>3
    <3>4. CASE i <= ALDB_MAXSIZE
      <4>1. v4' = [v4 EXCEPT ![i] = v5[i]] /\ v6' = InsteonAldb!Length(v4', v6) BY <3>2, <3>4
      <4>2. ALDB_MAXSIZE \in Nat BY DEF InsteonAldb!AldbAssumption
      <4>3. /\ v4' \in [1 .. ALDB_MAXSIZE -> {InsteonAldb!NONE} \cup Nat]
            /\ \A j \in 1 .. ALDB_MAXSIZE : v4'[j] \in {InsteonAldb!NONE, v5[j]}
            /\ v6' \in 0 .. ALDB_MAXSIZE
            /\ \A j \in 1 .. v6' : v4'[j] = v5[j]
        BY <1>1, <2>1, <3>4, <4>1, <4>2, AldbTakes
      <4>4. /\ v5' \in [AldbPlace -> Nat] /\ \E k \in AldbPlace : v5'[k] = 0
            /\ v8' \in Seq(AldbMsgs')
        BY <1>1, <2>1, <2>2 DEF AldbReads, AldbMsgs
      <4> QED BY <2>1, <3>2, <4>3, <4>4 DEF AldbReads
    <3> QED BY <3>3, <3>4
  <2> QED BY <1>4, <2>3, <2>4, <2>5, <2>6 DEF InsteonAldb!Receive
<1>5. CASE InsteonAldb!Lose
  <2>1. v8 # <<>> /\ v8' = Tail(v8) /\ UNCHANGED <<v2, v4, v5, v6>> BY <1>5 DEF InsteonAldb!Lose
  <2> QED BY <1>2, <1>k, <2>1, HeadTailProperties
<1> QED BY <1>3, <1>4, <1>5 DEF InsteonAldb!Next

\* What is printed of a database that is only read is the beginning of it.
LEMMA AldbSays == AldbInv => InsteonAldb!PrintsTheirs
  BY DEF AldbInv, AldbReads, InsteonAldb!PrintsTheirs

(***************************************************************************)
(* insteoncoll: messages of devices on their way                           *)
(***************************************************************************)
IqMsg == [from : Lamps, com : {"on", "off", "status"}, toplm : BOOLEAN, level : {0, 1}]
IqEcho == [cmd : InsteonQueue!Commands, ok : BOOLEAN]
IqAir == IqMsg \cup IqEcho
LEMMA IqAirs ==
  /\ InsteonQueue!Answers = IqAir
  /\ \A a \in IqAir : ("cmd" \in DOMAIN a <=> a \in IqEcho) /\ ("from" \in DOMAIN a <=> a \in IqMsg)
<1>1. \A a \in IqMsg : DOMAIN a = {"from", "com", "toplm", "level"} BY DEF IqMsg
<1>2. \A a \in IqEcho : DOMAIN a = {"cmd", "ok"} BY DEF IqEcho
<1>3. InsteonQueue!Answers = IqAir BY DEF InsteonQueue!Answers, IqAir, IqMsg, IqEcho
<1>4. \A a \in IqMsg : "from" \in DOMAIN a /\ "cmd" \notin DOMAIN a BY <1>1
<1>5. \A a \in IqEcho : "cmd" \in DOMAIN a /\ "from" \notin DOMAIN a BY <1>2
<1> QED BY <1>3, <1>4, <1>5 DEF IqAir

\* What comes of device d: anything; a message to the PLM of a change, after which all
\* are asked for their status; or answers to status requests, the last with level l.
Of(m, d) == m \in IqMsg /\ m.from = d
Switched(m, d) == Of(m, d) /\ m.com # "status" /\ m.toplm
Tells(s, d) == \E i \in 1 .. Len(s) : Switched(s[i], d)
Knows(s, d, k, l) ==
  /\ \A i \in 1 .. Len(s) : Of(s[i], d) => s[i].com = "status"
  /\ (\A i \in 1 .. Len(s) : ~Of(s[i], d)) => k = l
  /\ \A i \in 1 .. Len(s) :
       Of(s[i], d) /\ (\A j \in i + 1 .. Len(s) : ~Of(s[j], d)) => s[i].level = l
\* A message to a group is followed by one to the PLM.
Followed(s, i) == \E j \in i .. Len(s) : Switched(s[j], s[i].from)
CleanedUp(s) == \A i \in 1 .. Len(s) : s[i] \in IqMsg /\ s[i].com # "status" => Followed(s, i)

LEMMA AirTail ==
  ASSUME NEW s \in Seq(IqAir), s # <<>>
  PROVE  LET t == Tail(s)
         IN /\ s[1] \in IqAir /\ Head(s) = s[1] /\ t \in Seq(IqAir)
            /\ CleanedUp(s) => CleanedUp(t)
            /\ \A d : Tells(s, d) => Tells(t, d) \/ Switched(s[1], d)
            /\ \A d, k, l : Knows(s, d, k, l) /\ ~Of(s[1], d) => Knows(t, d, k, l)
            /\ \A d, k, l : Knows(s, d, k, l) /\ Of(s[1], d) => Knows(t, d, s[1].level, l)
            /\ \A d : CleanedUp(s) /\ Of(s[1], d) /\ s[1].com # "status" /\ ~s[1].toplm => Tells(t, d)
<1> DEFINE t == Tail(s)
<1>1. /\ Len(s) \in Nat /\ Len(s) > 0 /\ Head(s) = s[1] /\ t \in Seq(IqAir) /\ Len(t) = Len(s) - 1
      /\ \A i \in 1 .. Len(t) : t[i] = s[i + 1]
  BY HeadTailProperties, EmptySeq, LenProperties
<1>2. s[1] \in IqAir BY <1>1, ElementOfSeq
<1> HIDE DEF t
<1>3. \A i \in 1 .. Len(t) : i + 1 \in 1 .. Len(s) BY <1>1
<1>4. \A j \in 2 .. Len(s) : j - 1 \in 1 .. Len(t) /\ t[j - 1] = s[j] BY <1>1
<1>5. ASSUME CleanedUp(s) PROVE CleanedUp(t)
  <2> SUFFICES ASSUME NEW i \in 1 .. Len(t), t[i] \in IqMsg, t[i].com # "status" PROVE Followed(t, i)
    BY DEF CleanedUp
  <2>1. Followed(s, i + 1) BY <1>1, <1>3, <1>5 DEF CleanedUp
  <2>2. PICK j \in i + 1 .. Len(s) : Switched(s[j], s[i + 1].from) BY <2>1 DEF Followed
  <2>3. j \in 2 .. Len(s) /\ j - 1 \in i .. Len(t) BY <1>1, <2>2
  <2> QED BY <1>1, <1>4, <2>2, <2>3 DEF Followed
<1>6. ASSUME NEW d, Tells(s, d) PROVE Tells(t, d) \/ Switched(s[1], d)
  <2>1. PICK i \in 1 .. Len(s) : Switched(s[i], d) BY <1>6 DEF Tells
  <2>2. CASE i = 1 BY <2>1, <2>2
  <2>3. CASE i # 1
    <3>1. i \in 2 .. Len(s) BY <1>1, <2>3
    <3> QED BY <1>4, <2>1, <3>1 DEF Tells
  <2> QED BY <2>2, <2>3
<1>7. ASSUME NEW d, NEW k, NEW l, Knows(s, d, k, l)
      PROVE  Knows(t, d, IF Of(s[1], d) THEN s[1].level ELSE k, l)
  <2>1. \A i \in 1 .. Len(t) : Of(t[i], d) => t[i].com = "status" BY <1>1, <1>3, <1>7 DEF Knows
  <2>2. ASSUME \A i \in 1 .. Len(t) : ~Of(t[i], d)
        PROVE  (IF Of(s[1], d) THEN s[1].level ELSE k) = l
    <3>1. \A j \in 2 .. Len(s) : ~Of(s[j], d) BY <1>4, <2>2
    <3>2. CASE Of(s[1], d)
      <4>1. 1 \in 1 .. Len(s) /\ \A j \in 1 + 1 .. Len(s) : ~Of(s[j], d) BY <1>1, <3>1
      <4> QED BY <1>7, <3>2, <4>1 DEF Knows
    <3>3. CASE ~Of(s[1], d)
      <4>1. \A j \in 1 .. Len(s) : j = 1 \/ j \in 2 .. Len(s) BY <1>1
      <4>2. \A j \in 1 .. Len(s) : ~Of(s[j], d) BY <3>1, <3>3, <4>1
      <4> QED BY <1>7, <3>3, <4>2 DEF Knows
    <3> QED BY <3>2, <3>3
  <2>3. ASSUME NEW i \in 1 .. Len(t), Of(t[i], d), \A j \in i + 1 .. Len(t) : ~Of(t[j], d)
        PROVE  t[i].level = l
    <3>1. \A j \in (i + 1) + 1 .. Len(s) : ~Of(s[j], d)
      <4>1. \A j \in (i + 1) + 1 .. Len(s) : j \in 2 .. Len(s) /\ j - 1 \in i + 1 .. Len(t) BY <1>1
      <4> QED BY <1>4, <2>3, <4>1
    <3>2. t[i] = s[i + 1] /\ i + 1 \in 1 .. Len(s) BY <1>1, <1>3
    <3> QED BY <1>7, <2>3, <3>1, <3>2 DEF Knows
  <2> QED BY <2>1, <2>2, <2>3 DEF Knows
<1>8. ASSUME NEW d, CleanedUp(s), Of(s[1], d), s[1].com # "status", ~s[1].toplm PROVE Tells(t, d)
  <2>1. 1 \in 1 .. Len(s) BY <1>1
  <2>2. PICK j \in 1 .. Len(s) : Switched(s[j], d) BY <1>8, <2>1 DEF CleanedUp, Followed, Of
  <2>3. j \in 2 .. Len(s) BY <1>1, <1>8, <2>2 DEF Switched
  <2> QED BY <1>4, <2>2, <2>3 DEF Tells
<1> QED BY <1>1, <1>2, <1>5, <1>6, <1>7, <1>8 DEF t

LEMMA AirJoins ==
  ASSUME NEW s \in Seq(IqAir), NEW b \in Seq(IqAir), CleanedUp(s)
  PROVE  LET t == s \o b
         IN /\ t \in Seq(IqAir) /\ Len(t) = Len(s) + Len(b)
            /\ CleanedUp(b) => CleanedUp(t)
            /\ \A d : Tells(s, d) \/ Tells(b, d) => Tells(t, d)
            /\ \A d, k, l : Knows(s, d, k, l) /\ (\A i \in 1 .. Len(b) : ~Of(b[i], d)) => Knows(t, d, k, l)
            /\ \A d, k, l :
                 /\ Len(b) > 0 /\ Of(b[Len(b)], d) /\ b[Len(b)].level = l
                 /\ \A i \in 1 .. Len(b) : Of(b[i], d) => b[i].com = "status"
                 => Tells(t, d) \/ Knows(t, d, k, l)
<1> DEFINE t == s \o b
<1>1. /\ Len(s) \in Nat /\ Len(b) \in Nat /\ t \in Seq(IqAir) /\ Len(t) = Len(s) + Len(b)
      /\ \A i \in 1 .. Len(s) + Len(b) : t[i] = IF i <= Len(s) THEN s[i] ELSE b[i - Len(s)]
  BY ConcatProperties, LenProperties
<1> HIDE DEF t
<1>2. /\ \A i \in 1 .. Len(s) : i \in 1 .. Len(t) /\ t[i] = s[i]
      /\ \A i \in 1 .. Len(b) : i + Len(s) \in 1 .. Len(t) /\ t[i + Len(s)] = b[i]
      /\ \A i \in 1 .. Len(t) : i \in 1 .. Len(s) \/ i - Len(s) \in 1 .. Len(b)
  <2>1. \A i \in 1 .. Len(s) : i \in 1 .. Len(t) /\ t[i] = s[i] BY <1>1
  <2>2. ASSUME NEW i \in 1 .. Len(b) PROVE i + Len(s) \in 1 .. Len(t) /\ t[i + Len(s)] = b[i]
    <3>1. i + Len(s) \in 1 .. Len(s) + Len(b) /\ ~(i + Len(s) <= Len(s)) /\ (i + Len(s)) - Len(s) = i
      BY <1>1
    <3> QED BY <1>1, <3>1
  <2>3. \A i \in 1 .. Len(t) : i \in 1 .. Len(s) \/ i - Len(s) \in 1 .. Len(b) BY <1>1
  <2> QED BY <2>1, <2>2, <2>3
<1>3. \A i \in 1 .. Len(t) : i \notin 1 .. Len(s) =>
        i - Len(s) \in 1 .. Len(b) /\ t[i] = b[i - Len(s)] BY <1>1, <1>2
<1>4. ASSUME CleanedUp(b) PROVE CleanedUp(t)
  <2> SUFFICES ASSUME NEW i \in 1 .. Len(t), t[i] \in IqMsg, t[i].com # "status" PROVE Followed(t, i)
    BY DEF CleanedUp
  <2>1. CASE i \in 1 .. Len(s)
    <3>1. PICK j \in i .. Len(s) : Switched(s[j], s[i].from)
      BY <1>2, <2>1 DEF CleanedUp, Followed
    <3>2. j \in 1 .. Len(s) /\ j \in i .. Len(t) BY <1>1, <2>1, <3>1
    <3> QED BY <1>2, <2>1, <3>1, <3>2 DEF Followed
  <2>2. CASE i \notin 1 .. Len(s)
    <3>1. PICK j \in i - Len(s) .. Len(b) : Switched(b[j], b[i - Len(s)].from)
      BY <1>3, <1>4, <2>2 DEF CleanedUp, Followed
    <3>2. i - Len(s) \in 1 .. Len(b) BY <1>3, <2>2
    <3>3. j \in 1 .. Len(b) /\ j + Len(s) \in i .. Len(t) BY <1>1, <3>1, <3>2
    <3> QED BY <1>2, <1>3, <2>2, <3>1, <3>3 DEF Followed
  <2> QED BY <2>1, <2>2
<1>5. \A d : Tells(s, d) \/ Tells(b, d) => Tells(t, d) BY <1>2 DEF Tells
<1>6. ASSUME NEW d, NEW k, NEW l, Knows(s, d, k, l), \A i \in 1 .. Len(b) : ~Of(b[i], d)
      PROVE  Knows(t, d, k, l)
  <2>1. \A i \in 1 .. Len(t) : i \notin 1 .. Len(s) => ~Of(t[i], d) BY <1>3, <1>6
  <2>2. \A i \in 1 .. Len(t) : Of(t[i], d) => t[i].com = "status" BY <1>2, <1>6, <2>1 DEF Knows
  <2>3. (\A i \in 1 .. Len(t) : ~Of(t[i], d)) => k = l BY <1>2, <1>6 DEF Knows
  <2>4. ASSUME NEW i \in 1 .. Len(t), Of(t[i], d), \A j \in i + 1 .. Len(t) : ~Of(t[j], d)
        PROVE  t[i].level = l
    <3>1. i \in 1 .. Len(s) BY <2>1, <2>4
    <3>2. \A j \in i + 1 .. Len(s) : j \in 1 .. Len(s) /\ j \in i + 1 .. Len(t) BY <1>1, <3>1
    <3>3. \A j \in i + 1 .. Len(s) : ~Of(s[j], d) BY <1>2, <2>4, <3>2
    <3> QED BY <1>2, <1>6, <2>4, <3>1, <3>3 DEF Knows
  <2> QED BY <2>2, <2>3, <2>4 DEF Knows
<1>7. ASSUME NEW d, NEW k, NEW l, Len(b) > 0, Of(b[Len(b)], d), b[Len(b)].level = l,
             \A i \in 1 .. Len(b) : Of(b[i], d) => b[i].com = "status", ~Tells(t, d)
      PROVE  Knows(t, d, k, l)
  <2>1. \A i \in 1 .. Len(s) : Of(s[i], d) => s[i].com = "status"
    <3> SUFFICES ASSUME NEW i \in 1 .. Len(s), Of(s[i], d), s[i].com # "status" PROVE Tells(s, d)
      BY <1>5, <1>7
    <3>1. PICK j \in i .. Len(s) : Switched(s[j], d) BY DEF CleanedUp, Followed, Of
    <3>2. j \in 1 .. Len(s) BY <1>1, <3>1
    <3> QED BY <3>1, <3>2 DEF Tells
  <2>2. \A i \in 1 .. Len(t) : Of(t[i], d) => t[i].com = "status" BY <1>2, <1>3, <1>7, <2>1
  <2>3. Len(t) \in 1 .. Len(t) /\ t[Len(t)] = b[Len(b)]
    <3>1. Len(b) \in 1 .. Len(b) /\ Len(b) + Len(s) = Len(t) BY <1>1, <1>7
    <3> QED BY <1>2, <3>1
  <2>4. ASSUME NEW i \in 1 .. Len(t), Of(t[i], d), \A j \in i + 1 .. Len(t) : ~Of(t[j], d)
        PROVE  t[i].level = l
    <3>1. i = Len(t)
      <4>1. SUFFICES ASSUME i # Len(t) PROVE FALSE OBVIOUS
      <4>2. Len(t) \in i + 1 .. Len(t) BY <1>1, <4>1
      <4> QED BY <1>7, <2>3, <2>4, <4>2
    <3> QED BY <1>7, <2>3, <3>1
  <2> QED BY <1>7, <2>2, <2>3, <2>4 DEF Knows
<1> QED BY <1>1, <1>4, <1>5, <1>6, <1>7 DEF t

(***************************************************************************)
(* insteoncoll: a queue q of commands; lp are the devices' levels, wn those *)
(* wanted of them, df and ex the devices that are deaf and exempt.         *)
(***************************************************************************)
IqPause == InsteonQueue!Pause
IqWait == {"ack", "data", "any"}
IqEntry == [cmd : InsteonQueue!Commands \cup {IqPause}, wait : SUBSET IqWait,
            state : SUBSET (IqWait \cup {"send"}), sendcount : Nat, sent : Nat]
\* A command that switches device d, and one that asks for its status.
Orders(c, d) == c \in InsteonQueue!Commands /\ c.dev = d /\ c.com # "status"
Asks(c, d) == c \in InsteonQueue!Commands /\ c.dev = d /\ c.com = "status"
\* How often a command was sent, and is to be sent; one that has not been sent is given
\* up only for late NAKs, as deaf or exempt say.
Late(c, df, ex) == IF c.com = "status" THEN c.dev \in ex ELSE c.dev \in df
Sends(e, df, ex) ==
  IF e.cmd = IqPause THEN e.sent = 0
  ELSE /\ e.sent <= e.sendcount /\ e.sent <= 2
       /\ "send" \in e.state => e.sent = 0 \/ e.sent < e.sendcount
       /\ e.sent = 0 => "send" \in e.state /\ (e.sendcount > 2 => Late(e.cmd, df, ex))
\* Only the first command was sent; and no other one is in the queue twice, but requests
\* for status.
FirstSent(q) == \A i, j \in 1 .. Len(q) :
  j < i /\ q[i].cmd # IqPause /\ q[j].cmd # IqPause => q[i].sent = 0 /\ q[i].sendcount = 0
Once(q) == \A i, j \in 1 .. Len(q) : \A d \in Lamps :
  i # j /\ Orders(q[i].cmd, d) => q[j].cmd # q[i].cmd
\* The last command to a device is the one that is wanted.
LastTo(q, d, i) == Orders(q[i].cmd, d) /\ \A j \in i + 1 .. Len(q) : ~Orders(q[j].cmd, d)
Wins(q, d, lp, wn, df) ==
  /\ \A i \in 1 .. Len(q) : LastTo(q, d, i) =>
       /\ InsteonQueue!Level(q[i].cmd.com) = wn[d]
       /\ q[i].sent > 0 /\ d \notin df => lp[d] = wn[d]
  /\ (\A i \in 1 .. Len(q) : ~Orders(q[i].cmd, d)) /\ d \notin df => lp[d] = wn[d]
Queue(q, lp, wn, df, ex) ==
  /\ q \in Seq(IqEntry)
  /\ \A i \in 1 .. Len(q) : Sends(q[i], df, ex)
  /\ FirstSent(q) /\ Once(q)
  /\ \A d \in Lamps : Wins(q, d, lp, wn, df)
\* A level is known, or will be asked for: what was sent of it will be heard first.
Asked(q, d) ==
  /\ \E i \in 1 .. Len(q) : Asks(q[i].cmd, d)
  /\ \A i \in 1 .. Len(q) : Asks(q[i].cmd, d) => q[i].sent = 0

LEMMA IqCommands ==
  /\ IqPause \notin InsteonQueue!Commands
  /\ \A e \in IqEntry : e.cmd # IqPause => e.cmd \in InsteonQueue!Commands
  /\ \A d : ~Orders(IqPause, d) /\ ~Asks(IqPause, d)
  /\ \A c \in InsteonQueue!Commands : c.dev \in Lamps /\ (Orders(c, c.dev) \/ Asks(c, c.dev))
  /\ \A c, d : Asks(c, d) => c = [dev |-> d, com |-> "status"]
<1>1. IqPause \notin InsteonQueue!Commands
  <2>1. IqPause.com = "pause" BY DEF IqPause, InsteonQueue!Pause
  <2>2. \A c \in InsteonQueue!Commands : c.com # "pause" BY DEF InsteonQueue!Commands
  <2> QED BY <2>1, <2>2
<1> QED BY <1>1 DEF IqEntry, Orders, Asks, InsteonQueue!Commands

\* What is left when what equals the head, and is no pause, is taken out.
LEMMA QueueLeft ==
  ASSUME NEW q, NEW lp, NEW wn, NEW df, NEW ex, Queue(q, lp, wn, df, ex), q # <<>>,
         NEW K \in SUBSET (1 .. Len(q)), 1 \in K,
         \A i \in 1 .. Len(q) : i \notin K => q[i].cmd = q[1].cmd /\ q[1].cmd # IqPause
  PROVE  LET t == Left(q, K)
         IN Queue(t, lp, wn, df, ex) /\ t # <<>> /\ \A d : Asked(q, d) => Asked(t, d)
<1> DEFINE n == Cardinality(K)
           t == Left(q, K)
<1>1. q \in Seq(IqEntry) /\ Len(q) \in Nat BY LenProperties DEF Queue
<1>2. /\ n \in Nat /\ t \in Seq(IqEntry) /\ Len(t) = n
      /\ \A i \in 1 .. n : Place(K, i) \in K /\ t[i] = q[Place(K, i)]
      /\ \A i, j \in 1 .. n : i < j => Place(K, i) < Place(K, j)
      /\ \A j \in K : Rank(K, j) \in 1 .. n /\ Place(K, Rank(K, j)) = j /\ t[Rank(K, j)] = q[j]
  <2>1. n \in Nat /\ t \in Seq(IqEntry) /\ Len(t) = n /\ \A i \in 1 .. n : t[i] = q[Place(K, i)]
    BY <1>1, LeftIs
  <2>2. /\ \A i \in 1 .. n : Place(K, i) \in K
        /\ \A i, j \in 1 .. n : i < j => Place(K, i) < Place(K, j)
        /\ \A j \in K : Rank(K, j) \in 1 .. n /\ Place(K, Rank(K, j)) = j
    BY <1>1, Places
  <2> HIDE DEF n, t
  <2> QED BY <2>1, <2>2
<1>3. \A i \in 1 .. n : Place(K, i) \in 1 .. Len(q) BY <1>2
<1>4. \A i, j \in 1 .. n : i # j => Place(K, i) # Place(K, j)
  <2> SUFFICES ASSUME NEW i \in 1 .. n, NEW j \in 1 .. n, i # j PROVE Place(K, i) # Place(K, j)
    OBVIOUS
  <2>1. i < j \/ j < i OBVIOUS
  <2>2. Place(K, i) \in Nat /\ Place(K, j) \in Nat BY <1>3
  <2>3. i < j => Place(K, i) < Place(K, j) BY <1>2
  <2>4. j < i => Place(K, j) < Place(K, i) BY <1>2
  <2> HIDE DEF n
  <2> QED BY <2>1, <2>2, <2>3, <2>4
<1> HIDE DEF n, t
<1>5. t # <<>>
  <2>1. Rank(K, 1) \in 1 .. n BY <1>2
  <2>2. Len(t) > 0 BY <1>2, <2>1
  <2> QED BY <1>2, <2>2, EmptySeq
<1>6. ASSUME NEW i \in 1 .. Len(q), NEW d \in Lamps, Orders(q[i].cmd, d) PROVE i \in K
  <2>1. SUFFICES ASSUME i \notin K PROVE FALSE OBVIOUS
  <2>2. i # 1 /\ q[i].cmd = q[1].cmd /\ 1 \in 1 .. Len(q) BY <2>1
  <2> QED BY <1>6, <2>2 DEF Queue, Once
<1>7. \A i \in 1 .. n : Sends(t[i], df, ex) BY <1>2, <1>3 DEF Queue
<1>8. FirstSent(t)
  <2> SUFFICES ASSUME NEW i \in 1 .. n, NEW j \in 1 .. n, j < i, t[i].cmd # IqPause, t[j].cmd # IqPause
               PROVE  t[i].sent = 0 /\ t[i].sendcount = 0
    BY <1>2 DEF FirstSent
  <2> DEFINE pi == Place(K, i)
             pj == Place(K, j)
  <2>1. pj < pi /\ pi \in 1 .. Len(q) /\ pj \in 1 .. Len(q) /\ t[i] = q[pi] /\ t[j] = q[pj] BY <1>2, <1>3
  <2>2. FirstSent(q) BY DEF Queue
  <2> HIDE DEF pi, pj
  <2> QED BY <2>1, <2>2 DEF FirstSent
<1>9. Once(t)
  <2> SUFFICES ASSUME NEW i \in 1 .. n, NEW j \in 1 .. n, NEW d \in Lamps, i # j, Orders(t[i].cmd, d)
               PROVE  t[j].cmd # t[i].cmd
    BY <1>2 DEF Once
  <2> DEFINE pi == Place(K, i)
             pj == Place(K, j)
  <2>1. pi # pj /\ pi \in 1 .. Len(q) /\ pj \in 1 .. Len(q) /\ t[i] = q[pi] /\ t[j] = q[pj]
    BY <1>2, <1>3, <1>4
  <2>2. Once(q) BY DEF Queue
  <2> HIDE DEF pi, pj
  <2> QED BY <2>1, <2>2 DEF Once
<1>10. ASSUME NEW d \in Lamps PROVE Wins(t, d, lp, wn, df)
  <2>0. Wins(q, d, lp, wn, df) BY DEF Queue
  <2>1. ASSUME NEW i \in 1 .. n, LastTo(t, d, i) PROVE LastTo(q, d, Place(K, i))
    <3>1. Orders(q[Place(K, i)].cmd, d) BY <1>2, <2>1 DEF LastTo
    <3>2. ASSUME NEW j \in Place(K, i) + 1 .. Len(q), Orders(q[j].cmd, d) PROVE FALSE
      <4>1. Place(K, i) \in Nat /\ Place(K, i) >= 1 BY <1>3
      <4>2. j \in 1 .. Len(q) /\ Place(K, i) < j BY <1>1, <4>1
      <4>3. j \in K BY <1>6, <3>2, <4>2
      <4>4. Rank(K, j) \in 1 .. n /\ Place(K, Rank(K, j)) = j /\ t[Rank(K, j)] = q[j] BY <1>2, <4>3
      <4>5. ~(Rank(K, j) <= i)
        <5>1. SUFFICES ASSUME Rank(K, j) <= i PROVE FALSE OBVIOUS
        <5>2. Rank(K, j) = i \/ Rank(K, j) < i BY <4>4, <5>1
        <5>3. Rank(K, j) < i => j < Place(K, i) BY <1>2, <4>4
        <5>4. Rank(K, j) = i => j = Place(K, i) BY <4>4
        <5> QED BY <4>1, <4>2, <5>2, <5>3, <5>4
      <4>6. Rank(K, j) \in i + 1 .. Len(t) BY <1>2, <4>4, <4>5
      <4> QED BY <2>1, <3>2, <4>4, <4>6 DEF LastTo
    <3> QED BY <3>1, <3>2 DEF LastTo
  <2>2. ASSUME \A i \in 1 .. n : ~Orders(t[i].cmd, d) PROVE \A i \in 1 .. Len(q) : ~Orders(q[i].cmd, d)
    BY <1>2, <1>6, <2>2
  <2>3. ASSUME NEW i \in 1 .. n, LastTo(t, d, i)
        PROVE  /\ InsteonQueue!Level(t[i].cmd.com) = wn[d]
               /\ t[i].sent > 0 /\ d \notin df => lp[d] = wn[d]
    <3>1. Place(K, i) \in 1 .. Len(q) /\ t[i] = q[Place(K, i)] BY <1>2, <1>3
    <3>2. LastTo(q, d, Place(K, i)) BY <2>1, <2>3
    <3> QED BY <2>0, <3>1, <3>2 DEF Wins
  <2>4. (\A i \in 1 .. n : ~Orders(t[i].cmd, d)) /\ d \notin df => lp[d] = wn[d]
    BY <2>0, <2>2 DEF Wins
  <2> QED BY <1>2, <2>3, <2>4 DEF Wins
<1>11. ASSUME NEW d, Asked(q, d) PROVE Asked(t, d)
  <2>1. \A i \in 1 .. n : Asks(t[i].cmd, d) => t[i].sent = 0 BY <1>2, <1>3, <1>11 DEF Asked
  <2>2. PICK i \in 1 .. Len(q) : Asks(q[i].cmd, d) BY <1>11 DEF Asked
  <2>3. \E j \in K : q[j].cmd = q[i].cmd BY <2>2
  <2>4. \E j \in 1 .. n : Asks(t[j].cmd, d) BY <1>2, <2>2, <2>3
  <2> QED BY <1>2, <2>1, <2>4 DEF Asked
<1> QED BY <1>2, <1>5, <1>7, <1>8, <1>9, <1>10, <1>11 DEF Queue, t

\* A pause that is over leaves, or a command that was sent, or that late NAKs ended.
LEMMA QueueTail ==
  ASSUME NEW q, NEW lp, NEW wn, NEW df, NEW ex, Queue(q, lp, wn, df, ex), q # <<>>,
         q[1].cmd = IqPause \/ q[1].sent > 0 \/ q[1].sendcount > 2
  PROVE  LET t == Tail(q)
         IN Queue(t, lp, wn, df, ex) /\ \A d : Asked(q, d) => Asked(t, d) \/ d \in ex
<1> DEFINE t == Tail(q)
<1>1. /\ q \in Seq(IqEntry) /\ t \in Seq(IqEntry) /\ Len(q) \in Nat /\ Len(q) > 0 /\ Len(t) = Len(q) - 1
      /\ \A i \in 1 .. Len(t) : t[i] = q[i + 1]
  BY HeadTailProperties, EmptySeq, LenProperties DEF Queue
<1> HIDE DEF t
<1>2. \A i \in 1 .. Len(t) : i + 1 \in 1 .. Len(q) BY <1>1
<1>3. \A j \in 2 .. Len(q) : j - 1 \in 1 .. Len(t) /\ t[j - 1] = q[j] BY <1>1
<1>4. q[1] \in IqEntry /\ Sends(q[1], df, ex) /\ 1 \in 1 .. Len(q) BY <1>1, ElementOfSeq DEF Queue
<1>5. \A i \in 1 .. Len(t) : Sends(t[i], df, ex) BY <1>1, <1>2 DEF Queue
<1>6. FirstSent(t)
  <2> SUFFICES ASSUME NEW i \in 1 .. Len(t), NEW j \in 1 .. Len(t), j < i,
                      t[i].cmd # IqPause, t[j].cmd # IqPause
               PROVE  t[i].sent = 0 /\ t[i].sendcount = 0
    BY DEF FirstSent
  <2>1. i + 1 \in 1 .. Len(q) /\ j + 1 \in 1 .. Len(q) /\ j + 1 < i + 1 BY <1>2
  <2> QED BY <1>1, <2>1 DEF Queue, FirstSent
<1>7. Once(t)
  <2> SUFFICES ASSUME NEW i \in 1 .. Len(t), NEW j \in 1 .. Len(t), NEW d \in Lamps,
                      i # j, Orders(t[i].cmd, d)
               PROVE  t[j].cmd # t[i].cmd
    BY DEF Once
  <2>1. i + 1 \in 1 .. Len(q) /\ j + 1 \in 1 .. Len(q) /\ j + 1 # i + 1 BY <1>2
  <2> QED BY <1>1, <2>1 DEF Queue, Once
<1>8. ASSUME NEW d \in Lamps PROVE Wins(t, d, lp, wn, df)
  <2>0. Wins(q, d, lp, wn, df) BY DEF Queue
  <2>1. ASSUME NEW i \in 1 .. Len(t), LastTo(t, d, i)
        PROVE  /\ InsteonQueue!Level(t[i].cmd.com) = wn[d]
               /\ t[i].sent > 0 /\ d \notin df => lp[d] = wn[d]
    <3>1. i + 1 \in 1 .. Len(q) /\ t[i] = q[i + 1] BY <1>1, <1>2
    <3>2. ASSUME NEW j \in (i + 1) + 1 .. Len(q) PROVE ~Orders(q[j].cmd, d)
      <4>1. j \in 2 .. Len(q) /\ j - 1 \in i + 1 .. Len(t) BY <1>1
      <4> QED BY <1>3, <2>1, <4>1 DEF LastTo
    <3>3. LastTo(q, d, i + 1) BY <2>1, <3>1, <3>2 DEF LastTo
    <3> QED BY <2>0, <3>1, <3>3 DEF Wins
  <2>2. ASSUME \A i \in 1 .. Len(t) : ~Orders(t[i].cmd, d), d \notin df PROVE lp[d] = wn[d]
    <3>1. \A j \in 2 .. Len(q) : ~Orders(q[j].cmd, d) BY <1>3, <2>2
    <3>2. CASE Orders(q[1].cmd, d)
      <4>1. LastTo(q, d, 1)
        <5>1. \A j \in 1 + 1 .. Len(q) : j \in 2 .. Len(q) OBVIOUS
        <5> QED BY <3>1, <3>2, <5>1 DEF LastTo
      <4>2. q[1].cmd # IqPause /\ ~Late(q[1].cmd, df, ex)
        BY <2>2, <3>2, IqCommands DEF Late, Orders
      <4>3. q[1].sent > 0
        <5>1. q[1].sent \in Nat BY <1>4 DEF IqEntry
        <5> QED BY <1>4, <4>2, <5>1 DEF Sends
      <4> QED BY <1>4, <2>0, <2>2, <4>1, <4>3 DEF Wins
    <3>3. CASE ~Orders(q[1].cmd, d)
      <4>1. \A j \in 1 .. Len(q) : j = 1 \/ j \in 2 .. Len(q) BY <1>1
      <4>2. \A j \in 1 .. Len(q) : ~Orders(q[j].cmd, d) BY <3>1, <3>3, <4>1
      <4> QED BY <2>0, <2>2, <4>2 DEF Wins
    <3> QED BY <3>2, <3>3
  <2> QED BY <2>1, <2>2 DEF Wins
<1>9. ASSUME NEW d, Asked(q, d), d \notin ex PROVE Asked(t, d)
  <2>1. ~Asks(q[1].cmd, d)
    <3> SUFFICES ASSUME Asks(q[1].cmd, d) PROVE FALSE OBVIOUS
    <3>1. q[1].sent = 0 BY <1>4, <1>9 DEF Asked
    <3>2. q[1].cmd # IqPause /\ ~Late(q[1].cmd, df, ex) BY <1>9, IqCommands DEF Late, Asks
    <3> QED BY <1>4, <3>1, <3>2 DEF Sends
  <2>2. PICK i \in 1 .. Len(q) : Asks(q[i].cmd, d) BY <1>9 DEF Asked
  <2>3. i \in 2 .. Len(q) BY <1>1, <2>1, <2>2
  <2>4. \A j \in 1 .. Len(t) : Asks(t[j].cmd, d) => t[j].sent = 0 BY <1>1, <1>2, <1>9 DEF Asked
  <2> QED BY <1>3, <2>2, <2>3, <2>4 DEF Asked
<1> QED BY <1>1, <1>5, <1>6, <1>7, <1>8, <1>9 DEF Queue, t

\* A queue of the same commands, of which the head and the pauses may have been counted.
LEMMA QueueAlike ==
  ASSUME NEW q, NEW lp, NEW wn, NEW df, NEW ex, Queue(q, lp, wn, df, ex),
         NEW t \in Seq(IqEntry), Len(t) = Len(q),
         \A i \in 1 .. Len(q) :
           /\ t[i].cmd = q[i].cmd /\ t[i].sent = q[i].sent /\ Sends(t[i], df, ex)
           /\ i # 1 /\ q[i].cmd # IqPause => t[i].sendcount = q[i].sendcount
  PROVE  Queue(t, lp, wn, df, ex) /\ \A d : Asked(q, d) => Asked(t, d)
<1>1. Len(q) \in Nat BY LenProperties DEF Queue
<1>2. FirstSent(t)
  <2> SUFFICES ASSUME NEW i \in 1 .. Len(q), NEW j \in 1 .. Len(q), j < i,
                      t[i].cmd # IqPause, t[j].cmd # IqPause
               PROVE  t[i].sent = 0 /\ t[i].sendcount = 0
    BY DEF FirstSent
  <2>1. i # 1 OBVIOUS
  <2> QED BY <2>1 DEF Queue, FirstSent
<1>3. Once(t) BY DEF Queue, Once
<1>4. ASSUME NEW d \in Lamps PROVE Wins(t, d, lp, wn, df)
  <2>0. Wins(q, d, lp, wn, df) BY DEF Queue
  <2>1. ASSUME NEW i \in 1 .. Len(q), LastTo(t, d, i) PROVE LastTo(q, d, i)
    <3>1. \A j \in i + 1 .. Len(q) : j \in 1 .. Len(q) BY <1>1
    <3> QED BY <2>1, <3>1 DEF LastTo
  <2>2. \A i \in 1 .. Len(q) : LastTo(t, d, i) =>
          /\ InsteonQueue!Level(t[i].cmd.com) = wn[d]
          /\ t[i].sent > 0 /\ d \notin df => lp[d] = wn[d]
    BY <2>0, <2>1 DEF Wins
  <2>3. (\A i \in 1 .. Len(q) : ~Orders(t[i].cmd, d)) /\ d \notin df => lp[d] = wn[d]
    BY <2>0 DEF Wins
  <2> QED BY <2>2, <2>3 DEF Wins
<1>5. \A d : Asked(q, d) => Asked(t, d) BY DEF Asked
<1> QED BY <1>2, <1>3, <1>4, <1>5 DEF Queue

\* Other devices become deaf or exempt.
LEMMA QueueMore ==
  ASSUME NEW q, NEW lp, NEW wn, NEW df, NEW ex, Queue(q, lp, wn, df, ex),
         NEW df2, NEW ex2, df \subseteq df2, ex \subseteq ex2
  PROVE  Queue(q, lp, wn, df2, ex2)
<1>1. \A i \in 1 .. Len(q) : Sends(q[i], df2, ex2) BY DEF Queue, Sends, Late
<1>2. \A d \in Lamps : Wins(q, d, lp, wn, df2) BY DEF Queue, Wins
<1> QED BY <1>1, <1>2 DEF Queue

\* Pauses are put before the queue, and pauses and requests for status behind it.
Added(e) ==
  /\ e.sent = 0
  /\ \/ e.cmd = IqPause
     \/ (\E d : Asks(e.cmd, d)) /\ e.sendcount = 0 /\ "send" \in e.state
LEMMA QueueGrown ==
  ASSUME NEW q, NEW lp, NEW wn, NEW df, NEW ex, Queue(q, lp, wn, df, ex),
         NEW t \in Seq(IqEntry), NEW k \in Nat, Len(t) >= Len(q) + k,
         \A i \in 1 .. Len(q) : t[i + k] = q[i],
         \A i \in 1 .. k : t[i].cmd = IqPause /\ t[i].sent = 0,
         \A i \in Len(q) + k + 1 .. Len(t) : Added(t[i])
  PROVE  Queue(t, lp, wn, df, ex) /\ \A d : Asked(q, d) => Asked(t, d)
<1> DEFINE old == {i \in 1 .. Len(t) : i - k \in 1 .. Len(q)}
           new == Len(q) + k + 1 .. Len(t)
<1>1. Len(q) \in Nat /\ Len(t) \in Nat BY LenProperties DEF Queue
<1>2. \A i \in 1 .. Len(t) : i \in 1 .. k \/ i \in old \/ i \in new BY <1>1
<1>3. ASSUME NEW i \in old PROVE i - k \in 1 .. Len(q) /\ t[i] = q[i - k]
  <2>1. i - k \in 1 .. Len(q) /\ (i - k) + k = i BY <1>1
  <2> QED BY <2>1
<1>4. \A i \in 1 .. Len(q) : i + k \in old /\ i + k \in 1 .. Len(t) /\ t[i + k] = q[i] BY <1>1
<1>5. \A i \in 1 .. k, d \in Lamps : ~Orders(t[i].cmd, d) /\ ~Asks(t[i].cmd, d) BY IqCommands
<1>6. \A i \in new : \A d \in Lamps : ~Orders(t[i].cmd, d) BY IqCommands DEF Added, Asks, Orders
<1>7. \A i, j \in 1 .. Len(t) : i \in old /\ j \in new => i < j BY <1>1
<1> HIDE DEF old, new
<1>8. \A i \in 1 .. Len(t) : Sends(t[i], df, ex)
  <2>1. ASSUME NEW i \in 1 .. k PROVE Sends(t[i], df, ex) BY DEF Sends
  <2>2. ASSUME NEW i \in new PROVE Sends(t[i], df, ex) BY DEF Sends, Added, new
  <2>3. \A i \in old : Sends(t[i], df, ex) BY <1>3 DEF Queue
  <2> QED BY <1>2, <2>1, <2>2, <2>3
<1>9. FirstSent(t)
  <2> SUFFICES ASSUME NEW i \in 1 .. Len(t), NEW j \in 1 .. Len(t), j < i,
                      t[i].cmd # IqPause, t[j].cmd # IqPause
               PROVE  t[i].sent = 0 /\ t[i].sendcount = 0
    BY DEF FirstSent
  <2>1. CASE i \in new BY <2>1 DEF Added, new
  <2>2. CASE i \in old /\ j \in old
    <3>1. i - k \in 1 .. Len(q) /\ j - k \in 1 .. Len(q) /\ j - k < i - k BY <1>1, <1>3, <2>2
    <3>2. t[i] = q[i - k] /\ t[j] = q[j - k] BY <1>3, <2>2
    <3>3. FirstSent(q) BY DEF Queue
    <3> QED BY <3>1, <3>2, <3>3 DEF FirstSent
  <2>3. i \in new \/ (i \in old /\ j \in old)
    <3>1. i \notin 1 .. k /\ j \notin 1 .. k OBVIOUS
    <3>2. ~(i \in old /\ j \in new)
      <4>1. i \in old /\ j \in new => i < j BY <1>7
      <4> QED BY <1>1, <4>1
    <3> QED BY <1>2, <3>1, <3>2
  <2> QED BY <2>1, <2>2, <2>3
<1>10. Once(t)
  <2> SUFFICES ASSUME NEW i \in 1 .. Len(t), NEW j \in 1 .. Len(t), NEW d \in Lamps, i # j,
                      Orders(t[i].cmd, d), t[j].cmd = t[i].cmd
               PROVE  FALSE
    BY DEF Once
  <2>1. i \in old /\ j \in old BY <1>2, <1>5, <1>6
  <2>2. i - k # j - k BY <1>1
  <2>3. /\ i - k \in 1 .. Len(q) /\ j - k \in 1 .. Len(q)
        /\ Orders(q[i - k].cmd, d) /\ q[j - k].cmd = q[i - k].cmd
    BY <1>3, <2>1
  <2>4. Once(q) BY DEF Queue
  <2> QED BY <2>2, <2>3, <2>4 DEF Once
<1>11. ASSUME NEW d \in Lamps PROVE Wins(t, d, lp, wn, df)
  <2>0. Wins(q, d, lp, wn, df) BY DEF Queue
  <2>1. ASSUME NEW i \in 1 .. Len(t), LastTo(t, d, i)
        PROVE  i \in old /\ LastTo(q, d, i - k)
    <3>1. i \in old BY <1>2, <1>5, <1>6, <2>1 DEF LastTo
    <3>2. ASSUME NEW j \in (i - k) + 1 .. Len(q) PROVE ~Orders(q[j].cmd, d)
      <4>1. j \in 1 .. Len(q) /\ j + k \in i + 1 .. Len(t) BY <1>1, <1>3, <3>1
      <4> QED BY <2>1, <4>1 DEF LastTo
    <3> QED BY <1>3, <2>1, <3>1, <3>2 DEF LastTo
  <2>2. \A i \in 1 .. Len(t) : LastTo(t, d, i) =>
          /\ InsteonQueue!Level(t[i].cmd.com) = wn[d]
          /\ t[i].sent > 0 /\ d \notin df => lp[d] = wn[d]
    BY <1>3, <2>0, <2>1 DEF Wins
  <2>3. (\A i \in 1 .. Len(t) : ~Orders(t[i].cmd, d)) /\ d \notin df => lp[d] = wn[d]
    BY <1>4, <2>0 DEF Wins
  <2> QED BY <2>2, <2>3 DEF Wins
<1>12. ASSUME NEW d, Asked(q, d) PROVE Asked(t, d)
  <2>1. \A i \in 1 .. Len(t) : Asks(t[i].cmd, d) => t[i].sent = 0
    <3>1. \A i \in 1 .. k : t[i].sent = 0 OBVIOUS
    <3>2. \A i \in new : t[i].sent = 0 BY DEF new, Added
    <3>3. \A i \in old : Asks(t[i].cmd, d) => t[i].sent = 0 BY <1>3, <1>12 DEF Asked
    <3> QED BY <1>2, <3>1, <3>2, <3>3
  <2>2. \E i \in 1 .. Len(t) : Asks(t[i].cmd, d) BY <1>4, <1>12 DEF Asked
  <2> QED BY <2>1, <2>2 DEF Asked
<1> QED BY <1>8, <1>9, <1>10, <1>11, <1>12 DEF Queue

\* A command that is not in the queue is asked for.
LEMMA QueueOrdered ==
  ASSUME NEW q, NEW lp, NEW wn \in [Lamps -> {0, 1}], NEW df, NEW ex, Queue(q, lp, wn, df, ex),
         NEW e \in IqEntry, e.cmd \in InsteonQueue!Commands, e.cmd.com # "status",
         e.sent = 0, e.sendcount = 0, "send" \in e.state,
         \A i \in 1 .. Len(q) : q[i].cmd # e.cmd
  PROVE  LET t == Append(q, e)
         IN /\ Queue(t, lp, [wn EXCEPT ![e.cmd.dev] = InsteonQueue!Level(e.cmd.com)], df, ex)
            /\ \A d : Asked(q, d) => Asked(t, d)
<1> DEFINE t == Append(q, e)
           wn2 == [wn EXCEPT ![e.cmd.dev] = InsteonQueue!Level(e.cmd.com)]
<1>1. /\ t \in Seq(IqEntry) /\ Len(q) \in Nat /\ Len(t) = Len(q) + 1 /\ t[Len(q) + 1] = e
      /\ \A i \in 1 .. Len(q) : t[i] = q[i]
  BY AppendProperties, LenProperties DEF Queue
<1>2. /\ e.cmd.dev \in Lamps /\ Orders(e.cmd, e.cmd.dev) /\ e.cmd # IqPause
      /\ \A d : ~Asks(e.cmd, d) /\ (Orders(e.cmd, d) => d = e.cmd.dev)
  BY IqCommands DEF Asks, Orders
<1>3. \A d \in Lamps : wn2[d] = IF d = e.cmd.dev THEN InsteonQueue!Level(e.cmd.com) ELSE wn[d]
  BY <1>2
<1>4. \A i \in 1 .. Len(t) : i \in 1 .. Len(q) \/ i = Len(q) + 1 BY <1>1
<1>5. \A i \in 1 .. Len(q) : i \in 1 .. Len(t) BY <1>1
<1> HIDE DEF t, wn2
<1>6. \A i \in 1 .. Len(t) : Sends(t[i], df, ex) BY <1>1, <1>4 DEF Queue, Sends
<1>7. FirstSent(t)
  <2> SUFFICES ASSUME NEW i \in 1 .. Len(t), NEW j \in 1 .. Len(t), j < i,
                      t[i].cmd # IqPause, t[j].cmd # IqPause
               PROVE  t[i].sent = 0 /\ t[i].sendcount = 0
    BY DEF FirstSent
  <2>1. CASE i = Len(q) + 1 BY <1>1, <2>1
  <2>2. CASE i \in 1 .. Len(q)
    <3>1. j \in 1 .. Len(q) BY <1>1, <2>2
    <3> QED BY <1>1, <2>2, <3>1 DEF Queue, FirstSent
  <2> QED BY <1>4, <2>1, <2>2
<1>8. Once(t)
  <2> SUFFICES ASSUME NEW i \in 1 .. Len(t), NEW j \in 1 .. Len(t), NEW d \in Lamps, i # j,
                      Orders(t[i].cmd, d), t[j].cmd = t[i].cmd
               PROVE  FALSE
    BY DEF Once
  <2>1. CASE i \in 1 .. Len(q) /\ j \in 1 .. Len(q) BY <1>1, <2>1 DEF Queue, Once
  <2>2. CASE i = Len(q) + 1 /\ j \in 1 .. Len(q) BY <1>1, <2>2
  <2>3. CASE i \in 1 .. Len(q) /\ j = Len(q) + 1 BY <1>1, <2>3
  <2> QED BY <1>4, <2>1, <2>2, <2>3
<1>9. ASSUME NEW d \in Lamps PROVE Wins(t, d, lp, wn2, df)
  <2>0. Wins(q, d, lp, wn, df) BY DEF Queue
  <2>1. CASE d = e.cmd.dev
    <3>1. Len(q) + 1 \in 1 .. Len(t) /\ Orders(t[Len(q) + 1].cmd, d) BY <1>1, <1>2, <2>1
    <3>2. ASSUME NEW i \in 1 .. Len(t), LastTo(t, d, i) PROVE i = Len(q) + 1
      <4>1. SUFFICES ASSUME i # Len(q) + 1 PROVE FALSE OBVIOUS
      <4>2. Len(q) + 1 \in i + 1 .. Len(t) BY <1>1, <4>1
      <4> QED BY <3>1, <3>2, <4>2 DEF LastTo
    <3> QED BY <1>1, <1>3, <2>1, <3>1, <3>2 DEF Wins
  <2>2. CASE d # e.cmd.dev
    <3>1. ~Orders(t[Len(q) + 1].cmd, d) BY <1>1, <1>2, <2>2
    <3>2. ASSUME NEW i \in 1 .. Len(t), LastTo(t, d, i) PROVE i \in 1 .. Len(q) /\ LastTo(q, d, i)
      <4>1. i \in 1 .. Len(q) BY <1>4, <3>1, <3>2 DEF LastTo
      <4>2. \A j \in i + 1 .. Len(q) : j \in i + 1 .. Len(t) /\ j \in 1 .. Len(q) BY <1>1, <4>1
      <4> QED BY <1>1, <3>2, <4>1, <4>2 DEF LastTo
    <3> QED BY <1>1, <1>3, <1>4, <1>5, <2>0, <2>2, <3>1, <3>2 DEF Wins
  <2> QED BY <2>1, <2>2
<1>10. \A d : Asked(q, d) => Asked(t, d) BY <1>1, <1>2, <1>4, <1>5 DEF Asked
<1> QED BY <1>1, <1>6, <1>7, <1>8, <1>9, <1>10 DEF Queue, t, wn2

\* The command at the head is sent, or sent again: it is heard, or its device is deaf.
LEMMA QueueSent ==
  ASSUME NEW q, NEW lp, NEW wn, NEW df, NEW ex, Queue(q, lp, wn, df, ex), q # <<>>,
         q[1].cmd # IqPause, NEW lp2, NEW df2, NEW ex2,
         NEW t \in Seq(IqEntry), Len(t) = Len(q), \A i \in 2 .. Len(q) : t[i] = q[i],
         t[1].cmd = q[1].cmd, t[1].sent > 0, Sends(t[1], df2, ex2),
         \A d \in Lamps : d # q[1].cmd.dev => lp2[d] = lp[d] /\ (d \in df2 <=> d \in df),
         \A d : Asks(q[1].cmd, d) => lp2[d] = lp[d] /\ (d \in df2 <=> d \in df),
         \A d : Orders(q[1].cmd, d) /\ d \notin df2 => lp2[d] = InsteonQueue!Level(q[1].cmd.com)
  PROVE  /\ Queue(t, lp2, wn, df2, ex2)
         /\ \A d : Asked(q, d) /\ ~Asks(q[1].cmd, d) => Asked(t, d)
<1> DEFINE d0 == q[1].cmd.dev
<1>1. q \in Seq(IqEntry) /\ Len(q) \in Nat /\ Len(q) > 0 BY EmptySeq, LenProperties DEF Queue
<1>2. q[1] \in IqEntry /\ q[1].cmd \in InsteonQueue!Commands /\ d0 \in Lamps
  BY <1>1, ElementOfSeq, IqCommands
<1>3. \A i \in 1 .. Len(q) : i = 1 \/ i \in 2 .. Len(q) BY <1>1
<1>4. \A i \in 2 .. Len(q) : i \in 1 .. Len(q) /\ 1 < i BY <1>1
<1>5. \A d : Orders(q[1].cmd, d) \/ Asks(q[1].cmd, d) => d = d0 BY DEF Orders, Asks
<1>6. Orders(q[1].cmd, d0) \/ Asks(q[1].cmd, d0) BY <1>2, IqCommands
<1> HIDE DEF d0
<1>7. \A i \in 1 .. Len(q) : t[i].cmd = q[i].cmd BY <1>3
<1>8. \A i \in 2 .. Len(q) : q[i].cmd # IqPause => q[i].sent = 0 /\ q[i].sendcount = 0
  <2>1. FirstSent(q) /\ 1 \in 1 .. Len(q) BY <1>1 DEF Queue
  <2> QED BY <1>4, <2>1 DEF FirstSent
<1>9. \A i \in 1 .. Len(q) : Sends(t[i], df2, ex2)
  <2>1. ASSUME NEW i \in 2 .. Len(q) PROVE Sends(q[i], df2, ex2)
    <3>1. Sends(q[i], df, ex) BY <1>4 DEF Queue
    <3> QED BY <1>8, <3>1 DEF Sends
  <2> QED BY <1>3, <2>1
<1>10. FirstSent(t)
  <2> SUFFICES ASSUME NEW i \in 1 .. Len(q), NEW j \in 1 .. Len(q), j < i,
                      t[i].cmd # IqPause, t[j].cmd # IqPause
               PROVE  t[i].sent = 0 /\ t[i].sendcount = 0
    BY DEF FirstSent
  <2>1. i \in 2 .. Len(q) BY <1>1
  <2> QED BY <1>8, <2>1
<1>11. Once(t) BY <1>7 DEF Queue, Once
<1>12. ASSUME NEW d \in Lamps PROVE Wins(t, d, lp2, wn, df2)
  <2>0. Wins(q, d, lp, wn, df) BY DEF Queue
  <2>1. ASSUME NEW i \in 1 .. Len(q), LastTo(t, d, i) PROVE LastTo(q, d, i)
    <3>1. \A j \in i + 1 .. Len(q) : j \in 1 .. Len(q) BY <1>1
    <3> QED BY <1>7, <2>1, <3>1 DEF LastTo
  <2>2. ASSUME NEW i \in 1 .. Len(q), LastTo(t, d, i), t[i].sent > 0, d \notin df2
        PROVE  lp2[d] = wn[d]
    <3>1. InsteonQueue!Level(q[i].cmd.com) = wn[d] BY <2>0, <2>1, <2>2 DEF Wins
    <3>2. CASE i = 1 BY <2>2, <3>1, <3>2, <1>7 DEF LastTo
    <3>3. CASE i \in 2 .. Len(q)
      <4>1. q[i].cmd # IqPause BY <1>4, <1>7, <2>2, <3>3, IqCommands DEF LastTo
      <4> QED BY <1>8, <2>2, <3>3, <4>1
    <3> QED BY <1>3, <3>2, <3>3
  <2>3. ASSUME \A i \in 1 .. Len(q) : ~Orders(t[i].cmd, d), d \notin df2 PROVE lp2[d] = wn[d]
    <3>1. \A i \in 1 .. Len(q) : ~Orders(q[i].cmd, d) BY <1>7, <2>3
    <3>2. ~Orders(q[1].cmd, d)
      <4>1. 1 \in 1 .. Len(q) BY <1>1
      <4> QED BY <3>1, <4>1
    <3>3. lp2[d] = lp[d] /\ (d \in df2 <=> d \in df) BY <1>6, <3>2 DEF d0
    <3> QED BY <2>0, <2>3, <3>1, <3>3 DEF Wins
  <2>4. \A i \in 1 .. Len(q) : LastTo(t, d, i) => InsteonQueue!Level(t[i].cmd.com) = wn[d]
    BY <1>7, <2>0, <2>1 DEF Wins
  <2> QED BY <2>2, <2>3, <2>4 DEF Wins
<1>13. ASSUME NEW d, Asked(q, d), ~Asks(q[1].cmd, d) PROVE Asked(t, d)
  <2>1. \A i \in 1 .. Len(q) : Asks(t[i].cmd, d) => t[i].sent = 0
    <3>1. \A i \in 2 .. Len(q) : Asks(t[i].cmd, d) => t[i].sent = 0 BY <1>4, <1>13 DEF Asked
    <3> QED BY <1>3, <1>13, <3>1
  <2>2. \E i \in 1 .. Len(q) : Asks(t[i].cmd, d) BY <1>7, <1>13 DEF Asked
  <2> QED BY <2>1, <2>2 DEF Asked
<1> QED BY <1>9, <1>10, <1>11, <1>12, <1>13 DEF Queue

\* A device is switched by hand.
LEMMA QueuePressed ==
  ASSUME NEW q, NEW lp, NEW wn, NEW df, NEW ex, Queue(q, lp, wn, df, ex),
         NEW d0 \in Lamps, NEW lp2, NEW wn2, NEW df2,
         \A d \in Lamps : d # d0 => lp2[d] = lp[d] /\ wn2[d] = wn[d] /\ (d \in df2 <=> d \in df),
         (\E i \in 1 .. Len(q) : Orders(q[i].cmd, d0)) => wn2[d0] = wn[d0] /\ d0 \in df2,
         (\A i \in 1 .. Len(q) : ~Orders(q[i].cmd, d0)) => lp2[d0] = wn2[d0]
  PROVE  Queue(q, lp2, wn2, df2, ex)
<1>1. ASSUME NEW i \in 1 .. Len(q) PROVE Sends(q[i], df2, ex)
  <2>1. Sends(q[i], df, ex) /\ q \in Seq(IqEntry) BY DEF Queue
  <2>2. q[i].cmd # IqPause => q[i].cmd \in InsteonQueue!Commands
    <3>1. q[i] \in IqEntry BY <2>1, ElementOfSeq
    <3> QED BY <3>1, IqCommands
  <2>3. CASE q[i].cmd = IqPause BY <2>1, <2>3 DEF Sends
  <2>4. CASE q[i].cmd # IqPause /\ q[i].cmd.com = "status" BY <2>1, <2>4 DEF Sends, Late
  <2>5. CASE q[i].cmd # IqPause /\ q[i].cmd.com # "status"
    <3>1. Orders(q[i].cmd, q[i].cmd.dev) BY <2>2, <2>5 DEF Orders
    <3>2. q[i].cmd.dev \in Lamps BY <2>2, <2>5 DEF InsteonQueue!Commands
    <3>3. q[i].cmd.dev \in df => q[i].cmd.dev \in df2
      <4>1. CASE q[i].cmd.dev = d0 BY <3>1, <4>1
      <4>2. CASE q[i].cmd.dev # d0 BY <3>2, <4>2
      <4> QED BY <4>1, <4>2
    <3> QED BY <2>1, <2>5, <3>3 DEF Sends, Late
  <2> QED BY <2>3, <2>4, <2>5
<1>2. ASSUME NEW d \in Lamps PROVE Wins(q, d, lp2, wn2, df2)
  <2>0. Wins(q, d, lp, wn, df) BY DEF Queue
  <2>1. CASE d # d0 BY <2>0, <2>1 DEF Wins
  <2>2. CASE d = d0 /\ \E i \in 1 .. Len(q) : Orders(q[i].cmd, d0) BY <2>0, <2>2 DEF Wins
  <2>3. CASE d = d0 /\ \A i \in 1 .. Len(q) : ~Orders(q[i].cmd, d0) BY <2>0, <2>3 DEF Wins, LastTo
  <2> QED BY <2>1, <2>2, <2>3
<1> QED BY <1>1, <1>2 DEF Queue

(***************************************************************************)
(* insteoncoll: what the code makes of the queue                           *)
(***************************************************************************)
LEMMA EntryIs ==
  ASSUME NEW c \in InsteonQueue!Commands
  PROVE  LET e == InsteonQueue!Entry(c)
         IN /\ e \in IqEntry /\ e.cmd = c /\ e.sent = 0 /\ e.sendcount = 0 /\ "send" \in e.state
            /\ e.cmd # IqPause /\ (c.com = "status" => Added(e))
<1> DEFINE w == IF c.com = "status" THEN {"ack", "any"} ELSE {"ack", "data"}
           e == InsteonQueue!Entry(c)
<1>1. e = [cmd |-> c, wait |-> w, state |-> w \cup {"send"}, sendcount |-> 0, sent |-> 0]
  BY DEF InsteonQueue!Entry
<1>2. w \in SUBSET IqWait BY DEF IqWait
<1>3. c # IqPause BY IqCommands
<1>4. c.com = "status" => \E d : Asks(c, d) BY DEF Asks
<1> HIDE DEF w, e
<1>5. e \in IqEntry BY <1>1, <1>2 DEF IqEntry
<1> QED BY <1>1, <1>3, <1>4, <1>5 DEF e, Added

LEMMA PauseIs ==
  ASSUME NEW n \in Nat
  PROVE  LET e == InsteonQueue!PauseEntry(n)
         IN e \in IqEntry /\ e.cmd = IqPause /\ e.sent = 0 /\ Added(e)
  BY DEF InsteonQueue!PauseEntry, IqEntry, IqPause, Added

\* Every device of a list of them is asked for its status.
LEMMA QueriesAsk ==
  ASSUME NEW D \in SUBSET Lamps, IsFiniteSet(D)
  PROVE  LET b == InsteonQueue!Queries(D)
         IN /\ b \in Seq(IqEntry) /\ \A i \in 1 .. Len(b) : Added(b[i]) /\ b[i].sent = 0
            /\ \A d \in D : \E i \in 1 .. Len(b) : Asks(b[i].cmd, d)
<1> DEFINE n == Cardinality(D)
           S == InsteonQueue!SetToSeq(D)
           b == InsteonQueue!Queries(D)
<1>1. n \in Nat /\ ExistsBijection(1 .. n, D) BY FS_CardinalityType
<1>2. PICK f \in Bijection(1 .. n, D) : TRUE BY <1>1 DEF ExistsBijection
<1>3. f \in [1 .. n -> D] /\ \A i, j \in 1 .. n : f[i] = f[j] => i = j
  BY <1>2 DEF Bijection, Injection, IsInjective
<1>4. InsteonQueue!Cardinality(D) = n BY DEF InsteonQueue!Cardinality, Cardinality
<1> DEFINE Apart(g) == \A i, j \in DOMAIN g : g[i] = g[j] => i = j
<1>5. S = CHOOSE g \in [1 .. n -> D] : Apart(g)
  <2> HIDE DEF n
  <2> QED BY <1>4 DEF InsteonQueue!SetToSeq
<1>6. S \in [1 .. n -> D] /\ \A i, j \in 1 .. n : S[i] = S[j] => i = j
  <2> HIDE DEF S, n
  <2>1. Apart(f) BY <1>3
  <2>2. S \in [1 .. n -> D] /\ Apart(S)
    <3> HIDE DEF Apart
    <3> QED BY <1>3, <1>5, <2>1
  <2> QED BY <2>2
<1>7. \A d \in D : \E i \in 1 .. n : S[i] = d
  <2> HIDE DEF S, n
  <2>1. S \in Injection(1 .. n, D) BY <1>6 DEF Injection, IsInjective
  <2>2. IsFiniteSet(1 .. n) /\ Cardinality(1 .. n) = n BY <1>1, FS_Interval
  <2>3. S \in Surjection(1 .. n, D) BY <1>1, <2>1, <2>2, FS_Injection DEF n
  <2> QED BY <2>3 DEF Surjection
<1>8. b = [i \in 1 .. n |-> InsteonQueue!Entry([dev |-> S[i], com |-> "status"])]
  BY <1>4 DEF InsteonQueue!Queries
<1> HIDE DEF S, n, b
<1>9. ASSUME NEW i \in 1 .. n PROVE b[i] \in IqEntry /\ Added(b[i]) /\ b[i].sent = 0 /\ Asks(b[i].cmd, S[i])
  <2> DEFINE c == [dev |-> S[i], com |-> "status"]
  <2>1. c \in InsteonQueue!Commands /\ c.com = "status" /\ c.dev = S[i] BY <1>6 DEF InsteonQueue!Commands
  <2>2. b[i] = InsteonQueue!Entry(c) BY <1>8
  <2> HIDE DEF c
  <2> QED BY <2>1, <2>2, EntryIs DEF Asks
<1>10. b \in Seq(IqEntry) /\ Len(b) = n
  <2>1. DOMAIN b = 1 .. n /\ b \in [1 .. n -> IqEntry] BY <1>8, <1>9
  <2> QED BY <1>1, <2>1, LenProperties
<1>11. ASSUME NEW d \in D PROVE \E i \in 1 .. n : Asks(b[i].cmd, d)
  <2>1. PICK i \in 1 .. n : S[i] = d BY <1>7
  <2> QED BY <1>9, <2>1
<1> QED BY <1>9, <1>10, <1>11 DEF b

\* Duplicates of the head are taken out.
LEMMA Condenses ==
  ASSUME NEW q, NEW lp, NEW wn, NEW df, NEW ex, Queue(q, lp, wn, df, ex), q # <<>>
  PROVE  LET t == InsteonQueue!Condensed(q)
         IN Queue(t, lp, wn, df, ex) /\ t # <<>> /\ \A d : Asked(q, d) => Asked(t, d)
<1> DEFINE K == {i \in DOMAIN q : i = 1 \/ q[i].cmd = InsteonQueue!Pause \/ q[i].cmd # q[1].cmd}
<1>1. q \in Seq(IqEntry) /\ DOMAIN q = 1 .. Len(q) /\ Len(q) \in Nat /\ Len(q) > 0
  BY EmptySeq, LenProperties DEF Queue
<1>2. K \in SUBSET (1 .. Len(q)) /\ 1 \in K BY <1>1
<1>3. \A i \in 1 .. Len(q) : i \notin K => q[i].cmd = q[1].cmd /\ q[1].cmd # IqPause
  BY <1>1 DEF IqPause
<1>4. InsteonQueue!Condensed(q) = IF K = DOMAIN q THEN q ELSE InsteonQueue!Those(q, K)
  BY DEF InsteonQueue!Condensed
<1> HIDE DEF K
<1>5. InsteonQueue!Those(q, K) = Left(q, K)
  BY DEF InsteonQueue!Those, Left, Place, Rank, InsteonQueue!Cardinality, Cardinality
<1>6. Queue(Left(q, K), lp, wn, df, ex) /\ Left(q, K) # <<>> /\ \A d : Asked(q, d) => Asked(Left(q, K), d)
  BY <1>2, <1>3, QueueLeft
<1> HIDE DEF Left
<1> QED BY <1>4, <1>5, <1>6

\* The head is given up; what comes after it has not been sent, and is not.
LEMMA Lives ==
  ASSUME NEW q, NEW lp, NEW wn, NEW df, NEW ex, Queue(q, lp, wn, df, ex),
         NEW expired \in BOOLEAN
  PROVE  LET t == InsteonQueue!Live(q, expired)
         IN /\ Queue(t, lp, wn, df, ex) /\ \A d : Asked(q, d) => Asked(t, d) \/ d \in ex
            /\ t # <<>> => ~InsteonQueue!Over(t[1]) /\ ~InsteonQueue!GivenUp(t[1], expired)
<1> DEFINE ends(i) == InsteonQueue!Over(q[i]) \/ InsteonQueue!GivenUp(q[i], expired)
           gone == {n \in 0 .. Len(q) : \A i \in 1 .. n : ends(i)}
           t == InsteonQueue!Live(q, expired)
           m == InsteonQueue!Max(gone)
<1>1. q \in Seq(IqEntry) /\ Len(q) \in Nat BY LenProperties DEF Queue
<1>2. gone \in SUBSET (0 .. Len(q)) /\ 0 \in gone BY <1>1
<1>3. m \in gone /\ \A n \in gone : m >= n
  <2>1. \E x \in gone : \A n \in gone : x >= n BY <1>1, <1>2, NatMax
  <2> QED BY <2>1 DEF InsteonQueue!Max
<1>4. t = SubSeq(q, m + 1, Len(q)) BY DEF InsteonQueue!Live
<1>5. m \in 0 .. Len(q) /\ (\A i \in 1 .. m : ends(i)) BY <1>3
<1>6. m < Len(q) => ~ends(m + 1)
  <2> SUFFICES ASSUME m < Len(q), ends(m + 1) PROVE FALSE OBVIOUS
  <2> HIDE DEF m, ends
  <2>1. m + 1 \in 0 .. Len(q) /\ \A i \in 1 .. m + 1 : i \in 1 .. m \/ i = m + 1 BY <1>1, <1>5
  <2>2. m + 1 \in gone BY <1>5, <2>1
  <2>3. m \in Nat BY <1>5
  <2> QED BY <1>3, <2>2, <2>3
<1> HIDE DEF m, t, gone, ends
<1>7. CASE m = 0
  <2>1. SubSeq(q, 1, Len(q)) = q BY <1>1
  <2>2. t = q BY <1>4, <1>7, <2>1
  <2>3. q # <<>> => ~ends(1)
    <3>1. q # <<>> => 0 < Len(q) BY <1>1, EmptySeq
    <3> QED BY <1>6, <1>7, <3>1
  <2> QED BY <2>2, <2>3 DEF t, ends
<1>8. CASE m # 0
  <2>1. Len(q) > 0 /\ m \in 1 .. Len(q) /\ 1 \in 1 .. m BY <1>1, <1>5, <1>8
  <2>2. ends(1) BY <1>5, <2>1
  <2>3. /\ q[1] \in IqEntry /\ q[1].cmd # IqPause /\ Sends(q[1], df, ex)
        /\ q[1].sent \in Nat /\ (q[1].sent > 0 \/ q[1].sendcount > 2)
    <3>1. 1 \in 1 .. Len(q) /\ q[1] \in IqEntry BY <1>1, <2>1, ElementOfSeq
    <3>2. Sends(q[1], df, ex) BY <3>1 DEF Queue
    <3>3. q[1].sent \in Nat BY <3>1 DEF IqEntry
    <3>4. q[1].cmd # IqPause
      BY <2>2 DEF ends, InsteonQueue!Over, InsteonQueue!GivenUp, IqPause
    <3>5. "send" \notin q[1].state \/ q[1].sendcount > 2
      BY <2>2 DEF ends, InsteonQueue!Over, InsteonQueue!GivenUp, InsteonQueue!CMDQ_MAX_SEND
    <3> QED BY <3>1, <3>2, <3>3, <3>4, <3>5 DEF Sends
  <2>4. Len(q) >= 2 => ~ends(2)
    <3> SUFFICES ASSUME Len(q) >= 2, ends(2) PROVE FALSE OBVIOUS
    <3>1. 2 \in 1 .. Len(q) /\ 1 \in 1 .. Len(q) BY <1>1
    <3>2. q[2].cmd # IqPause
      BY DEF ends, InsteonQueue!Over, InsteonQueue!GivenUp, IqPause
    <3>3. q[2].sent = 0 /\ q[2].sendcount = 0 BY <2>3, <3>1, <3>2 DEF Queue, FirstSent
    <3>4. Sends(q[2], df, ex) BY <3>1 DEF Queue
    <3>5. "send" \in q[2].state BY <3>2, <3>3, <3>4 DEF Sends
    <3> QED BY <3>3, <3>5 DEF ends, InsteonQueue!Over, InsteonQueue!GivenUp, InsteonQueue!CMDQ_MAX_SEND
  <2>5. m = 1
    <3>1. SUFFICES ASSUME m # 1 PROVE FALSE OBVIOUS
    <3>2. 2 \in 1 .. m /\ Len(q) >= 2 BY <1>1, <2>1, <3>1
    <3> QED BY <1>5, <2>4, <3>2
  <2>6. t = Tail(q) /\ q # <<>> /\ Len(t) = Len(q) - 1 /\ \A i \in 1 .. Len(t) : t[i] = q[i + 1]
    <3>1. q # <<>> BY <2>1
    <3>2. SubSeq(q, 2, Len(q)) = Tail(q) BY <1>1, <2>1
    <3>3. m + 1 = 2 BY <2>5
    <3>4. t = Tail(q) BY <1>4, <3>2, <3>3
    <3>5. Len(Tail(q)) = Len(q) - 1 /\ \A i \in 1 .. Len(Tail(q)) : Tail(q)[i] = q[i + 1]
      BY <1>1, <3>1, HeadTailProperties
    <3> QED BY <3>1, <3>4, <3>5
  <2>7. Queue(t, lp, wn, df, ex) /\ \A d : Asked(q, d) => Asked(t, d) \/ d \in ex
    BY <2>3, <2>6, QueueTail
  <2>8. ASSUME t # <<>> PROVE Len(q) >= 2 /\ t[1] = q[2]
    <3>1. t \in Seq(IqEntry) BY <2>7 DEF Queue
    <3>2. Len(t) > 0 /\ Len(t) \in Nat BY <2>8, <3>1, EmptySeq, LenProperties
    <3>3. 1 \in 1 .. Len(t) /\ 1 + 1 = 2 BY <3>2
    <3> QED BY <1>1, <2>6, <3>2, <3>3
  <2> QED BY <2>4, <2>7, <2>8 DEF t, ends
<1> QED BY <1>7, <1>8

(***************************************************************************)
(* insteoncoll: cmdfifo (v1), need_query (v2), air (v3), lamp (v4), known  *)
(* (v5), wanted (v8), deaf (v9) and exempt (v10).  A level that is not     *)
(* exempt is known when all has been heard that is under way, or will be   *)
(* asked for: all levels will be (need_query), a request for it is in the  *)
(* queue, or a message under way will have all levels asked for.           *)
(***************************************************************************)
Known(q, nq, s, lp, kn, ex) == \A d \in Lamps :
  d \notin ex => nq \/ Asked(q, d) \/ Tells(s, d) \/ Knows(s, d, kn[d], lp[d])
IqTypes ==
  /\ v2 \in BOOLEAN /\ v3 \in Seq(IqAir) /\ CleanedUp(v3)
  /\ v4 \in [Lamps -> {0, 1}] /\ v5 \in [Lamps -> {0, 1}] /\ v8 \in [Lamps -> {0, 1}]
  /\ v9 \subseteq Lamps /\ v10 \subseteq Lamps
IqInv == IqTypes /\ Queue(v1, v4, v8, v9, v10) /\ Known(v1, v2, v3, v4, v5, v10)

LEMMA QueueNone ==
  ASSUME NEW lp, NEW wn, NEW df, NEW ex, \A d \in Lamps : d \notin df => lp[d] = wn[d]
  PROVE  Queue(<<>>, lp, wn, df, ex) /\ \A d : ~Asked(<<>>, d)
<1> DEFINE q == <<>>
<1>1. q \in Seq(IqEntry) /\ \A i \in 1 .. Len(q) : FALSE BY EmptySeq
<1> HIDE DEF q
<1>2. Queue(q, lp, wn, df, ex)
  <2>1. FirstSent(q) /\ Once(q) BY <1>1 DEF FirstSent, Once
  <2>2. \A d \in Lamps : Wins(q, d, lp, wn, df) BY <1>1 DEF Wins
  <2> QED BY <1>1, <2>1, <2>2 DEF Queue
<1>3. \A d : ~Asked(q, d) BY <1>1 DEF Asked
<1> QED BY <1>2, <1>3 DEF q

LEMMA IqInitI == InsteonQueue!Init => IqInv
<1> SUFFICES ASSUME InsteonQueue!Init PROVE IqInv OBVIOUS
<1> USE DEF InsteonQueue!Init
<1>1. v3 \in Seq(IqAir) /\ CleanedUp(v3)
  <2> DEFINE s == <<>>
  <2>1. s \in Seq(IqAir) /\ \A i \in 1 .. Len(s) : FALSE BY EmptySeq
  <2> HIDE DEF s
  <2>2. s \in Seq(IqAir) /\ CleanedUp(s) BY <2>1 DEF CleanedUp
  <2> QED BY <2>2 DEF s
<1>2. Queue(v1, v4, v8, v9, v10) BY QueueNone
<1>3. Known(v1, v2, v3, v4, v5, v10) BY DEF Known
<1>4. v5 \in [Lamps -> {0, 1}] OBVIOUS
<1> QED BY <1>1, <1>2, <1>3, <1>4 DEF IqInv, IqTypes

\* coll_chg_cb.
LEMMA IqRequests ==
  ASSUME IqInv, NEW c \in InsteonQueue!Commands, InsteonQueue!Request(c)
  PROVE  IqInv'
<1> DEFINE e == InsteonQueue!Entry(c)
<1>1. IqTypes /\ Queue(v1, v4, v8, v9, v10) /\ Known(v1, v2, v3, v4, v5, v10) BY DEF IqInv
<1>2. /\ c.com # "status" /\ \A i \in DOMAIN v1 : v1[i].cmd # c
      /\ v1' = Append(v1, e) /\ v8' = [v8 EXCEPT ![c.dev] = InsteonQueue!Level(c.com)]
      /\ UNCHANGED <<v2, v3, v4, v5, v9, v10>>
  BY DEF InsteonQueue!Request, InsteonQueue!InQueue
<1>3. e \in IqEntry /\ e.cmd = c /\ e.sent = 0 /\ e.sendcount = 0 /\ "send" \in e.state
  BY EntryIs
<1> HIDE DEF e
<1>4. v8 \in [Lamps -> {0, 1}] /\ v8' \in [Lamps -> {0, 1}]
  BY <1>1, <1>2 DEF IqTypes, InsteonQueue!Level
<1>5. \A i \in 1 .. Len(v1) : v1[i].cmd # e.cmd
  <2>1. DOMAIN v1 = 1 .. Len(v1) BY <1>1, LenProperties DEF Queue
  <2> QED BY <1>2, <1>3, <2>1
<1>6. /\ Queue(Append(v1, e), v4, [v8 EXCEPT ![e.cmd.dev] = InsteonQueue!Level(e.cmd.com)], v9, v10)
      /\ \A d : Asked(v1, d) => Asked(Append(v1, e), d)
  BY <1>1, <1>2, <1>3, <1>4, <1>5, QueueOrdered
<1>7. Queue(v1', v4', v8', v9', v10') BY <1>2, <1>3, <1>6
<1>8. Known(v1', v2', v3', v4', v5', v10') BY <1>1, <1>2, <1>6 DEF Known
<1>9. IqTypes' BY <1>1, <1>2, <1>4 DEF IqTypes
<1> QED BY <1>7, <1>8, <1>9 DEF IqInv

\* An entry of which only what is waited for changes, and that is not sent again unless it is
\* counted, is as good as before; a NAK counts it.
LEMMA EntryWaits ==
  ASSUME NEW e \in IqEntry, NEW df, NEW ex, Sends(e, df, ex), NEW w, w \subseteq IqWait
  PROVE  LET f == [e EXCEPT !.state = e.state \ w]
         IN f \in IqEntry /\ f.cmd = e.cmd /\ f.sent = e.sent /\ f.sendcount = e.sendcount
            /\ Sends(f, df, ex)
<1> DEFINE f == [e EXCEPT !.state = e.state \ w]
<1>1. /\ f.cmd = e.cmd /\ f.sent = e.sent /\ f.sendcount = e.sendcount /\ f.state = e.state \ w
      /\ f \in IqEntry
  BY DEF IqEntry
<1>2. "send" \in f.state <=> "send" \in e.state BY <1>1 DEF IqWait
<1> HIDE DEF f
<1>3. Sends(f, df, ex) BY <1>1, <1>2 DEF Sends
<1> QED BY <1>1, <1>3 DEF f

LEMMA EntryRetried ==
  ASSUME NEW e \in IqEntry, NEW df, NEW ex, Sends(e, df, ex),
         e.cmd # IqPause, e.sent = 0 /\ e.sendcount >= 2 => Late(e.cmd, df, ex)
  PROVE  LET f == InsteonQueue!Retry(e)
         IN f \in IqEntry /\ f.cmd = e.cmd /\ f.sent = e.sent /\ Sends(f, df, ex)
<1> DEFINE f == InsteonQueue!Retry(e)
           w == e.wait \cup {"send"}
           n == e.sendcount + 1
<1>1. n \in Nat /\ w \in SUBSET (IqWait \cup {"send"}) /\ e.sent \in Nat /\ e.sendcount \in Nat
  BY DEF IqEntry
<1>2. f = [e EXCEPT !.state = w, !.sendcount = n] BY DEF InsteonQueue!Retry
<1> HIDE DEF w, n
<1>3. f.cmd = e.cmd /\ f.sent = e.sent /\ f.sendcount = n /\ f.state = w /\ f \in IqEntry
  BY <1>1, <1>2 DEF IqEntry
<1> HIDE DEF f
<1>4. "send" \in w /\ n = e.sendcount + 1 BY DEF w, n
<1>5. Sends(f, df, ex) BY <1>1, <1>3, <1>4 DEF Sends
<1> QED BY <1>3, <1>5 DEF f

LEMMA QueueHead ==
  ASSUME NEW q, NEW lp, NEW wn, NEW df, NEW ex, Queue(q, lp, wn, df, ex), q # <<>>
  PROVE  /\ q \in Seq(IqEntry) /\ Len(q) \in Nat /\ Len(q) > 0 /\ 1 \in 1 .. Len(q)
         /\ q[1] \in IqEntry /\ Sends(q[1], df, ex)
<1>1. q \in Seq(IqEntry) BY DEF Queue
<1>2. Len(q) \in Nat /\ Len(q) > 0 BY <1>1, EmptySeq, LenProperties
<1>3. 1 \in 1 .. Len(q) BY <1>2
<1>4. q[1] \in IqEntry BY <1>1, <1>3, ElementOfSeq
<1> QED BY <1>1, <1>2, <1>3, <1>4 DEF Queue

\* The head is changed, but what it is and how often it was sent.
LEMMA HeadChanged ==
  ASSUME NEW q, NEW lp, NEW wn, NEW df, NEW ex, Queue(q, lp, wn, df, ex), q # <<>>,
         NEW f \in IqEntry, f.cmd = q[1].cmd, f.sent = q[1].sent, Sends(f, df, ex)
  PROVE  LET t == [q EXCEPT ![1] = f]
         IN Queue(t, lp, wn, df, ex) /\ \A d : Asked(q, d) => Asked(t, d)
<1> DEFINE t == [q EXCEPT ![1] = f]
<1>1. q \in Seq(IqEntry) /\ Len(q) \in Nat /\ Len(q) > 0 BY QueueHead
<1>2. t \in Seq(IqEntry) /\ Len(t) = Len(q) /\ \A i \in 1 .. Len(q) : t[i] = IF i = 1 THEN f ELSE q[i]
  BY <1>1
<1> HIDE DEF t
<1>3. \A i \in 1 .. Len(q) :
        /\ t[i].cmd = q[i].cmd /\ t[i].sent = q[i].sent /\ Sends(t[i], df, ex)
        /\ i # 1 /\ q[i].cmd # IqPause => t[i].sendcount = q[i].sendcount
  BY <1>2 DEF Queue
<1>4. Queue(t, lp, wn, df, ex) /\ \A d : Asked(q, d) => Asked(t, d) BY <1>2, <1>3, QueueAlike
<1> QED BY <1>4 DEF t

\* An echo of a command: it is no message of a device.
LEMMA IqEchoes ==
  ASSUME IqInv, v3 # <<>>, InsteonQueue!Echo(v3[1])
  PROVE  IqInv'
<1> DEFINE a == v3[1]
           t == Tail(v3)
           late == InsteonQueue!EndedUnsent(v1[1], a)
<1>1. IqTypes /\ Queue(v1, v4, v8, v9, v10) /\ Known(v1, v2, v3, v4, v5, v10) BY DEF IqInv
<1>2. /\ "cmd" \in DOMAIN a /\ v3' = t /\ UNCHANGED <<v2, v4, v5, v8>>
  BY DEF InsteonQueue!Echo
<1>3. a \in IqAir /\ t \in Seq(IqAir) /\ CleanedUp(t)
  BY <1>1, AirTail DEF IqTypes
<1>4. a \in IqEcho /\ \A d : ~Of(a, d)
  <2>1. "cmd" \in DOMAIN a /\ a \in IqAir BY <1>2, <1>3
  <2> HIDE DEF a
  <2>2. a \in IqEcho BY <2>1, IqAirs
  <2>3. a \notin IqMsg
    <3>1. \A m \in IqMsg : DOMAIN m = {"from", "com", "toplm", "level"} BY DEF IqMsg
    <3> QED BY <2>1, <3>1
  <2> QED BY <2>2, <2>3 DEF Of
<1>5. /\ \A d : Tells(v3, d) => Tells(t, d)
      /\ \A d, k, l : Knows(v3, d, k, l) => Knows(t, d, k, l)
  BY <1>1, <1>4, AirTail DEF IqTypes, Switched
<1> HIDE DEF a, t
<1>6. SUFFICES /\ v9' \subseteq Lamps /\ v10' \subseteq Lamps /\ v10 \subseteq v10'
               /\ Queue(v1', v4, v8, v9', v10') /\ \A d : Asked(v1, d) => Asked(v1', d)
  <2>1. IqTypes' BY <1>1, <1>2, <1>3, <1>6 DEF IqTypes
  <2>2. Queue(v1', v4', v8', v9', v10') BY <1>2, <1>6
  <2>3. Known(v1', v2', v3', v4', v5', v10') BY <1>1, <1>2, <1>5, <1>6 DEF Known
  <2> QED BY <2>1, <2>2, <2>3 DEF IqInv
<1>7. a.cmd \in InsteonQueue!Commands /\ a.ok \in BOOLEAN BY <1>4 DEF IqEcho
<1>8. CASE v1 = <<>> \/ v1[1].cmd \notin {a.cmd, IqPause}
  <2>1. UNCHANGED <<v1, v9, v10>>
    BY <1>8 DEF InsteonQueue!Echo, InsteonQueue!HeadIs, IqPause, a
  <2> QED BY <1>1, <2>1 DEF IqTypes
<1>9. CASE v1 # <<>> /\ v1[1].cmd = IqPause
  <2>1. v1[1] \in IqEntry /\ Sends(v1[1], v9, v10) BY <1>1, <1>9, QueueHead
  <2>2. IqPause # a.cmd BY <1>7, IqCommands
  <2>3. \/ v1' = [v1 EXCEPT ![1].sendcount = @ + 1] /\ UNCHANGED <<v9, v10>>
        \/ UNCHANGED <<v1, v9, v10>>
    BY <1>9, <2>2 DEF InsteonQueue!Echo, InsteonQueue!HeadIs, IqPause, a
  <2> DEFINE f == [v1[1] EXCEPT !.sendcount = v1[1].sendcount + 1]
  <2>4. [v1 EXCEPT ![1].sendcount = @ + 1] = [v1 EXCEPT ![1] = f] OBVIOUS
  <2>5. f \in IqEntry /\ f.cmd = v1[1].cmd /\ f.sent = v1[1].sent BY <2>1 DEF IqEntry
  <2> HIDE DEF f
  <2>6. Sends(f, v9, v10) BY <1>9, <2>1, <2>5 DEF Sends
  <2>7. /\ Queue([v1 EXCEPT ![1] = f], v4, v8, v9, v10)
        /\ \A d : Asked(v1, d) => Asked([v1 EXCEPT ![1] = f], d)
    BY <1>1, <1>9, <2>5, <2>6, HeadChanged
  <2>8. v9 \subseteq Lamps /\ v10 \subseteq Lamps BY <1>1 DEF IqTypes
  <2>9. CASE v1' = [v1 EXCEPT ![1].sendcount = @ + 1] /\ UNCHANGED <<v9, v10>>
    <3>1. v1' = [v1 EXCEPT ![1] = f] BY <2>4, <2>9
    <3> QED BY <2>7, <2>8, <2>9, <3>1
  <2> QED BY <1>1, <2>3, <2>8, <2>9
<1>10. CASE v1 # <<>> /\ v1[1].cmd = a.cmd
  <2>1. v1[1] \in IqEntry /\ v1[1].cmd # IqPause BY <1>1, <1>7, <1>10, QueueHead, IqCommands
  <2> DEFINE f == IF a.ok THEN InsteonQueue!Acked(v1[1]) ELSE InsteonQueue!Retry(v1[1])
  <2>2. \/ /\ v1' = [v1 EXCEPT ![1] = f]
           /\ IF a.cmd.com = "status" THEN v10' = v10 \cup late /\ v9' = v9
              ELSE v9' = v9 \cup late /\ v10' = v10
        \/ UNCHANGED <<v1, v9, v10>>
    <3>1. [v1 EXCEPT ![1] = IF a.ok THEN InsteonQueue!Acked(@) ELSE InsteonQueue!Retry(@)]
          = [v1 EXCEPT ![1] = f]
      OBVIOUS
    <3>2. a.cmd # IqPause BY <1>7, IqCommands
    <3> QED BY <1>10, <3>1, <3>2 DEF InsteonQueue!Echo, InsteonQueue!HeadIs, IqPause, a, late
  <2>3. late \subseteq Lamps /\ (~a.ok /\ v1[1].sent = 0 /\ v1[1].sendcount >= 2 => v1[1].cmd.dev \in late)
    BY <1>7, <1>10, IqCommands DEF InsteonQueue!EndedUnsent, InsteonQueue!CMDQ_MAX_SEND
  <2>4. v9 \subseteq Lamps /\ v10 \subseteq Lamps BY <1>1 DEF IqTypes
  <2>5. CASE UNCHANGED <<v1, v9, v10>> BY <1>1, <2>4, <2>5
  <2> HIDE DEF f, late
  <2>6. CASE /\ v1' = [v1 EXCEPT ![1] = f]
             /\ IF a.cmd.com = "status" THEN v10' = v10 \cup late /\ v9' = v9
                ELSE v9' = v9 \cup late /\ v10' = v10
    <3>1. v9 \subseteq v9' /\ v10 \subseteq v10' /\ v9' \subseteq Lamps /\ v10' \subseteq Lamps
      BY <2>3, <2>4, <2>6
    <3>2. Queue(v1, v4, v8, v9', v10') BY <1>1, <3>1, QueueMore
    <3>3. Sends(v1[1], v9', v10') BY <1>10, <3>2, QueueHead
    <3>4. ~a.ok /\ v1[1].sent = 0 /\ v1[1].sendcount >= 2 => Late(v1[1].cmd, v9', v10')
      BY <1>10, <2>3, <2>6 DEF Late
    <3>5. f \in IqEntry /\ f.cmd = v1[1].cmd /\ f.sent = v1[1].sent /\ Sends(f, v9', v10')
      <4>1. CASE a.ok
        <5>1. {"ack"} \subseteq IqWait BY DEF IqWait
        <5>2. f = [v1[1] EXCEPT !.state = v1[1].state \ {"ack"}] BY <4>1 DEF f, InsteonQueue!Acked
        <5> QED BY <2>1, <3>3, <5>1, <5>2, EntryWaits
      <4>2. CASE ~a.ok
        <5>1. f = InsteonQueue!Retry(v1[1]) BY <4>2 DEF f
        <5> QED BY <2>1, <3>3, <3>4, <4>2, <5>1, EntryRetried
      <4> QED BY <4>1, <4>2
    <3>6. /\ Queue([v1 EXCEPT ![1] = f], v4, v8, v9', v10')
          /\ \A d : Asked(v1, d) => Asked([v1 EXCEPT ![1] = f], d)
      BY <1>10, <3>2, <3>5, HeadChanged
    <3> QED BY <2>6, <3>1, <3>6
  <2> QED BY <2>2, <2>5, <2>6
<1> QED BY <1>8, <1>9, <1>10

\* plmcmdq_check_recv.
LEMMA QueueReceives ==
  ASSUME NEW q, NEW lp, NEW wn, NEW df, NEW ex, Queue(q, lp, wn, df, ex), NEW a
  PROVE  LET t == InsteonQueue!Received(q, a)
         IN Queue(t, lp, wn, df, ex) /\ \A d : Asked(q, d) => Asked(t, d)
<1> DEFINE t == InsteonQueue!Received(q, a)
           w == {"any"} \cup IF q[1].cmd.com = a.com THEN {"data"} ELSE {}
           f == [q[1] EXCEPT !.state = q[1].state \ w]
<1>1. t = q \/ (q # <<>> /\ t = [q EXCEPT ![1].state = @ \ w]) BY DEF InsteonQueue!Received
<1>2. [q EXCEPT ![1].state = @ \ w] = [q EXCEPT ![1] = f] OBVIOUS
<1>3. w \subseteq IqWait BY DEF IqWait
<1> HIDE DEF t, w
<1>4. CASE t = q BY <1>4 DEF t
<1>5. CASE q # <<>> /\ t = [q EXCEPT ![1].state = @ \ w]
  <2>1. q[1] \in IqEntry /\ Sends(q[1], df, ex) BY <1>5, QueueHead
  <2>2. f \in IqEntry /\ f.cmd = q[1].cmd /\ f.sent = q[1].sent /\ Sends(f, df, ex)
    BY <1>3, <2>1, EntryWaits
  <2> HIDE DEF f
  <2>3. /\ Queue([q EXCEPT ![1] = f], lp, wn, df, ex)
        /\ \A d : Asked(q, d) => Asked([q EXCEPT ![1] = f], d)
    BY <1>5, <2>2, HeadChanged
  <2>4. t = [q EXCEPT ![1] = f] BY <1>2, <1>5
  <2> QED BY <2>3, <2>4 DEF t
<1> QED BY <1>1, <1>4, <1>5

\* plm_check_proper_delay.
LEMMA QueueDelayed ==
  ASSUME NEW q, NEW lp, NEW wn, NEW df, NEW ex, Queue(q, lp, wn, df, ex), NEW d, Delay \in Nat
  PROVE  LET t == InsteonQueue!Delayed(q, d)
         IN Queue(t, lp, wn, df, ex) /\ \A x : Asked(q, x) => Asked(t, x)
<1> DEFINE t == InsteonQueue!Delayed(q, d)
           p == InsteonQueue!PauseEntry(Delay)
           pauses == {i \in DOMAIN q : q[i].cmd = InsteonQueue!Pause}
           m == InsteonQueue!Min(pauses)
<1>1. t = q \/ t = <<p>> \o q \/ (pauses # {} /\ t = [q EXCEPT ![m].sendcount = Delay])
  BY DEF InsteonQueue!Delayed
<1>2. q \in Seq(IqEntry) /\ Len(q) \in Nat /\ DOMAIN q = 1 .. Len(q) BY LenProperties DEF Queue
<1>3. pauses # {} => m \in 1 .. Len(q) /\ q[m].cmd = IqPause
  <2> SUFFICES ASSUME pauses # {} PROVE m \in pauses BY <1>2 DEF IqPause
  <2>1. pauses \in SUBSET Nat BY <1>2
  <2>2. \E x \in pauses : \A y \in pauses : x <= y BY <2>1, NatMin
  <2> QED BY <2>2 DEF InsteonQueue!Min
<1>4. p \in IqEntry /\ p.cmd = IqPause /\ p.sent = 0 BY PauseIs
<1> HIDE DEF t, p, m, pauses
<1>5. CASE t = q BY <1>5 DEF t
<1>6. CASE t = <<p>> \o q
  <2> DEFINE b == <<p>>
  <2>1. b \in Seq(IqEntry) /\ Len(b) = 1 /\ b[1] = p BY <1>4
  <2> HIDE DEF b
  <2>2. /\ b \o q \in Seq(IqEntry) /\ Len(b \o q) = 1 + Len(q)
        /\ \A i \in 1 .. 1 + Len(q) : (b \o q)[i] = IF i <= 1 THEN b[i] ELSE q[i - 1]
    <3>1. /\ b \o q \in Seq(IqEntry) /\ Len(b \o q) = Len(b) + Len(q)
          /\ \A i \in 1 .. Len(b) + Len(q) : (b \o q)[i] = IF i <= Len(b) THEN b[i] ELSE q[i - Len(b)]
      BY <1>2, <2>1, ConcatProperties
    <3>2. Len(b) = 1 BY <2>1
    <3> QED BY <3>1, <3>2
  <2>3. t = b \o q BY <1>6 DEF b
  <2>4. t \in Seq(IqEntry) /\ Len(t) >= Len(q) + 1 /\ \A i \in Len(q) + 1 + 1 .. Len(t) : Added(t[i])
    BY <1>2, <2>2, <2>3
  <2>5. ASSUME NEW i \in 1 .. Len(q) PROVE t[i + 1] = q[i]
    <3>1. i + 1 \in 1 .. 1 + Len(q) /\ ~(i + 1 <= 1) /\ (i + 1) - 1 = i BY <1>2
    <3> QED BY <2>2, <2>3, <3>1
  <2>6. \A i \in 1 .. 1 : t[i].cmd = IqPause /\ t[i].sent = 0
    <3>1. 1 \in 1 .. 1 + Len(q) BY <1>2
    <3>2. t[1] = p BY <2>1, <2>2, <2>3, <3>1
    <3> QED BY <1>4, <3>2
  <2>7. 1 \in Nat OBVIOUS
  <2>8. Queue(t, lp, wn, df, ex) /\ \A x : Asked(q, x) => Asked(t, x)
    BY <2>4, <2>5, <2>6, <2>7, QueueGrown
  <2> QED BY <2>8 DEF t
<1>7. CASE pauses # {} /\ t = [q EXCEPT ![m].sendcount = Delay]
  <2> DEFINE f == [q[m] EXCEPT !.sendcount = Delay]
  <2>1. [q EXCEPT ![m].sendcount = Delay] = [q EXCEPT ![m] = f] OBVIOUS
  <2>2. q[m] \in IqEntry /\ m \in 1 .. Len(q) /\ q[m].cmd = IqPause BY <1>2, <1>3, <1>7, ElementOfSeq
  <2>3. f \in IqEntry /\ f.cmd = q[m].cmd /\ f.sent = q[m].sent BY <2>2 DEF IqEntry
  <2> HIDE DEF f
  <2>4. t = [q EXCEPT ![m] = f] BY <1>7, <2>1
  <2>5. t \in Seq(IqEntry) /\ Len(t) = Len(q) /\ \A i \in 1 .. Len(q) : t[i] = IF i = m THEN f ELSE q[i]
    BY <1>2, <2>2, <2>3, <2>4
  <2>6. \A i \in 1 .. Len(q) : Sends(q[i], df, ex) BY DEF Queue
  <2>7. Sends(f, df, ex) BY <2>2, <2>3, <2>6 DEF Sends
  <2>8. \A i \in 1 .. Len(q) :
          /\ t[i].cmd = q[i].cmd /\ t[i].sent = q[i].sent /\ Sends(t[i], df, ex)
          /\ i # 1 /\ q[i].cmd # IqPause => t[i].sendcount = q[i].sendcount
    BY <2>2, <2>3, <2>5, <2>6, <2>7
  <2>9. Queue(t, lp, wn, df, ex) /\ \A x : Asked(q, x) => Asked(t, x) BY <2>5, <2>8, QueueAlike
  <2> QED BY <2>9 DEF t
<1> QED BY <1>1, <1>5, <1>6, <1>7

\* What is only added to the end of the queue: pauses and requests for status.
LEMMA QueueJoined ==
  ASSUME NEW q, NEW lp, NEW wn, NEW df, NEW ex, Queue(q, lp, wn, df, ex),
         NEW b \in Seq(IqEntry), \A i \in 1 .. Len(b) : Added(b[i])
  PROVE  LET t == q \o b
         IN Queue(t, lp, wn, df, ex) /\ \A d : Asked(q, d) => Asked(t, d)
<1> DEFINE t == q \o b
<1>1. q \in Seq(IqEntry) /\ Len(q) \in Nat /\ Len(b) \in Nat BY LenProperties DEF Queue
<1>2. /\ t \in Seq(IqEntry) /\ Len(t) = Len(q) + Len(b)
      /\ \A i \in 1 .. Len(q) + Len(b) : t[i] = IF i <= Len(q) THEN q[i] ELSE b[i - Len(q)]
  BY <1>1, ConcatProperties
<1> HIDE DEF t
<1>3. ASSUME NEW i \in 1 .. Len(q) PROVE t[i + 0] = q[i]
  <2>1. i \in 1 .. Len(q) + Len(b) /\ i + 0 = i BY <1>1
  <2> QED BY <1>2, <2>1
<1>4. ASSUME NEW i \in Len(q) + 0 + 1 .. Len(t) PROVE Added(t[i])
  <2>1. i \in 1 .. Len(q) + Len(b) /\ ~(i <= Len(q)) /\ i - Len(q) \in 1 .. Len(b) BY <1>1, <1>2
  <2> QED BY <1>2, <2>1
<1>5. 0 \in Nat /\ Len(t) >= Len(q) + 0 BY <1>1, <1>2
<1>6. \A i \in 1 .. 0 : t[i].cmd = IqPause /\ t[i].sent = 0 OBVIOUS
<1>7. Queue(t, lp, wn, df, ex) /\ \A d : Asked(q, d) => Asked(t, d)
  BY <1>2, <1>3, <1>4, <1>5, <1>6, QueueGrown
<1> QED BY <1>7 DEF t

\* A pause, requests for the status of devices, and a pause.
LEMMA Grouped ==
  ASSUME NEW D \in SUBSET Lamps, IsFiniteSet(D), NEW n \in Nat
  PROVE  LET b == <<InsteonQueue!PauseEntry(n)>> \o InsteonQueue!Queries(D)
         IN /\ b \in Seq(IqEntry) /\ Len(b) > 0
            /\ \A i \in 1 .. Len(b) : Added(b[i]) /\ b[i].sent = 0
            /\ \A d \in D : \E i \in 1 .. Len(b) : Asks(b[i].cmd, d)
            /\ LET c == b \o <<InsteonQueue!PauseEntry(1)>>
               IN c \in Seq(IqEntry) /\ \A i \in 1 .. Len(c) : Added(c[i])
<1> DEFINE p == InsteonQueue!PauseEntry(n)
           z == InsteonQueue!PauseEntry(1)
           g == InsteonQueue!Queries(D)
           b == <<p>> \o g
           c == b \o <<z>>
<1>1. p \in IqEntry /\ Added(p) /\ p.sent = 0 /\ z \in IqEntry /\ Added(z) BY PauseIs
<1>2. /\ g \in Seq(IqEntry) /\ \A i \in 1 .. Len(g) : Added(g[i]) /\ g[i].sent = 0
      /\ \A d \in D : \E i \in 1 .. Len(g) : Asks(g[i].cmd, d)
  BY QueriesAsk
<1> HIDE DEF p, g, z
<1>3. <<p>> \in Seq(IqEntry) /\ Len(<<p>>) = 1 /\ <<p>>[1] = p BY <1>1
<1>4. <<z>> \in Seq(IqEntry) /\ Len(<<z>>) = 1 /\ <<z>>[1] = z BY <1>1
<1>5. Len(g) \in Nat BY <1>2, LenProperties
<1>6. /\ b \in Seq(IqEntry) /\ Len(b) = 1 + Len(g)
      /\ \A i \in 1 .. 1 + Len(g) : b[i] = IF i <= 1 THEN <<p>>[i] ELSE g[i - 1]
  BY <1>2, <1>3, ConcatProperties
<1> HIDE DEF b
<1>7. \A i \in 1 .. Len(b) : i = 1 \/ (i - 1 \in 1 .. Len(g) /\ b[i] = g[i - 1])
  BY <1>5, <1>6
<1>8. b[1] = p BY <1>3, <1>5, <1>6
<1>9. \A i \in 1 .. Len(b) : Added(b[i]) /\ b[i].sent = 0 BY <1>1, <1>2, <1>7, <1>8
<1>10. ASSUME NEW d \in D PROVE \E i \in 1 .. Len(b) : Asks(b[i].cmd, d)
  <2>1. PICK i \in 1 .. Len(g) : Asks(g[i].cmd, d) BY <1>2
  <2>2. i + 1 \in 1 .. 1 + Len(g) /\ ~(i + 1 <= 1) /\ (i + 1) - 1 = i BY <1>5
  <2>3. b[i + 1] = g[i] BY <1>6, <2>2
  <2> QED BY <1>6, <2>1, <2>2, <2>3
<1>11. Len(b) \in Nat /\ Len(b) > 0 BY <1>5, <1>6
<1>12. /\ c \in Seq(IqEntry) /\ Len(c) = Len(b) + 1
       /\ \A i \in 1 .. Len(b) + 1 : c[i] = IF i <= Len(b) THEN b[i] ELSE <<z>>[i - Len(b)]
  BY <1>4, <1>6, ConcatProperties
<1> HIDE DEF c
<1>13. ASSUME NEW i \in 1 .. Len(c) PROVE Added(c[i])
  <2>1. i \in 1 .. Len(b) \/ (i = Len(b) + 1 /\ ~(i <= Len(b)) /\ i - Len(b) = 1) BY <1>11, <1>12
  <2>2. CASE i \in 1 .. Len(b)
    <3>1. i \in 1 .. Len(b) + 1 /\ i <= Len(b) BY <1>11, <2>2
    <3> QED BY <1>9, <1>12, <2>2, <3>1
  <2>3. CASE i = Len(b) + 1 /\ ~(i <= Len(b)) /\ i - Len(b) = 1
    <3>1. c[i] = z BY <1>4, <1>12, <2>3
    <3> QED BY <1>1, <3>1
  <2> QED BY <2>1, <2>2, <2>3
<1> QED BY <1>6, <1>9, <1>10, <1>11, <1>12, <1>13 DEF b, c, p, g, z

\* plm_handle_stdrecv while a status request is at the head of the queue.
LEMMA IqAnswers ==
  ASSUME IqInv, v3 # <<>>, InsteonQueue!StatusReceived(v3[1])
  PROVE  IqInv'
<1> DEFINE a == v3[1]
           t == Tail(v3)
           d == v1[1].cmd.dev
           q == InsteonQueue!Received(v1, a)
<1>1. IqTypes /\ Queue(v1, v4, v8, v9, v10) /\ Known(v1, v2, v3, v4, v5, v10) BY DEF IqInv
<1>2. /\ "from" \in DOMAIN a /\ v1 # <<>> /\ v1[1].cmd \in InsteonQueue!StatusRequests
      /\ v3' = t /\ v1' = q /\ v5' = [v5 EXCEPT ![d] = a.level]
      /\ v10' = IF a.from = d /\ a.com = "status" THEN v10 ELSE v10 \cup {a.from, d}
      /\ UNCHANGED <<v2, v4, v8, v9>>
  BY DEF InsteonQueue!StatusReceived, InsteonQueue!HeadIs
<1>3. a \in IqAir /\ t \in Seq(IqAir) /\ CleanedUp(t) BY <1>1, AirTail DEF IqTypes
<1>4. a \in IqMsg BY <1>2, <1>3, IqAirs
<1>5. /\ \A x : Tells(v3, x) => Tells(t, x) \/ Switched(a, x)
      /\ \A x, k, l : Knows(v3, x, k, l) /\ ~Of(a, x) => Knows(t, x, k, l)
      /\ \A x, k, l : Knows(v3, x, k, l) /\ Of(a, x) => Knows(t, x, a.level, l)
  BY <1>1, AirTail DEF IqTypes
<1>6. d \in Lamps BY <1>2 DEF InsteonQueue!StatusRequests, InsteonQueue!Commands
<1> HIDE DEF a, t, d, q
<1>7. a.from \in Lamps /\ a.level \in {0, 1} BY <1>4 DEF IqMsg
<1>8. v5 \in [Lamps -> {0, 1}] /\ v10 \subseteq Lamps BY <1>1 DEF IqTypes
<1>9. /\ v5' \in [Lamps -> {0, 1}] /\ v10' \subseteq Lamps /\ v10 \subseteq v10'
      /\ \A x \in Lamps : v5'[x] = IF x = d THEN a.level ELSE v5[x]
  BY <1>2, <1>6, <1>7, <1>8
<1>10. Queue(q, v4, v8, v9, v10) /\ \A x : Asked(v1, x) => Asked(q, x)
  BY <1>1, QueueReceives DEF q
<1>11. Queue(v1', v4', v8', v9', v10')
  <2>1. Queue(q, v4, v8, v9, v10') BY <1>9, <1>10, QueueMore
  <2> QED BY <1>2, <2>1
<1>12. ASSUME NEW x \in Lamps, x \notin v10'
       PROVE  v2' \/ Asked(v1', x) \/ Tells(v3', x) \/ Knows(v3', x, v5'[x], v4'[x])
  <2>1. x \notin v10 BY <1>9, <1>12
  <2>2. CASE v2 \/ Asked(v1, x) BY <1>2, <1>10, <2>2
  <2>3. CASE Tells(v3, x)
    <3>1. ~Switched(a, x) BY <1>2, <1>12 DEF Switched, Of
    <3> QED BY <1>2, <1>5, <2>3, <3>1
  <2>4. CASE Knows(v3, x, v5[x], v4[x])
    <3>1. CASE Of(a, x)
      <4>1. x = d BY <1>2, <1>12, <3>1 DEF Of
      <4>2. v5'[x] = a.level BY <1>9, <4>1
      <4> QED BY <1>2, <1>5, <2>4, <3>1, <4>2
    <3>2. CASE ~Of(a, x)
      <4>1. a.from # x BY <1>4, <3>2 DEF Of
      <4>2. x # d BY <1>2, <1>12, <4>1
      <4>3. v5'[x] = v5[x] BY <1>9, <4>2
      <4> QED BY <1>2, <1>5, <2>4, <3>2, <4>3
    <3> QED BY <3>1, <3>2
  <2> QED BY <1>1, <2>1, <2>2, <2>3, <2>4 DEF Known
<1>13. Known(v1', v2', v3', v4', v5', v10') BY <1>12 DEF Known
<1>14. IqTypes' BY <1>1, <1>2, <1>3, <1>9 DEF IqTypes
<1> QED BY <1>11, <1>13, <1>14 DEF IqInv

\* plm_handle_stdrecv otherwise.
LEMMA IqHears ==
  ASSUME InsteonQueue!InsteonAssumption, IqInv, v3 # <<>>, InsteonQueue!MessageReceived(v3[1])
  PROVE  IqInv'
<1> DEFINE a == v3[1]
           t == Tail(v3)
           q == InsteonQueue!Received(v1, a)
           r == InsteonQueue!Delayed(q, a.from)
           grouped == ~a.toplm /\ Members[a.from] # {}
           b == IF grouped THEN InsteonQueue!GroupQueries(a.from) ELSE <<>>
<1>1. IqTypes /\ Queue(v1, v4, v8, v9, v10) /\ Known(v1, v2, v3, v4, v5, v10) BY DEF IqInv
<1>2. /\ "from" \in DOMAIN a /\ v3' = t /\ UNCHANGED <<v4, v8, v9>>
      /\ \/ /\ a.com = "status" /\ v1' = q /\ v10' = v10 \cup {a.from} /\ UNCHANGED <<v5, v2>>
         \/ /\ a.com # "status" /\ v1' = r \o b /\ v10' = v10
            /\ v5' = [v5 EXCEPT ![a.from] = a.level] /\ v2' = (v2 \/ ~grouped)
  BY DEF InsteonQueue!MessageReceived
<1>3. a \in IqAir /\ t \in Seq(IqAir) /\ CleanedUp(t) /\ CleanedUp(v3)
  BY <1>1, AirTail DEF IqTypes
<1>4. a \in IqMsg BY <1>2, <1>3, IqAirs
<1>5. /\ \A x : Tells(v3, x) => Tells(t, x) \/ Switched(a, x)
      /\ \A x, k, l : Knows(v3, x, k, l) /\ ~Of(a, x) => Knows(t, x, k, l)
      /\ \A x : Of(a, x) /\ a.com # "status" /\ ~a.toplm => Tells(t, x)
  BY <1>1, <1>3, AirTail DEF IqTypes
<1>6. Queue(q, v4, v8, v9, v10) /\ \A x : Asked(v1, x) => Asked(q, x)
  BY <1>1, QueueReceives
<1> HIDE DEF a, t, q
<1>7. a.from \in Lamps /\ a.level \in {0, 1} /\ a.toplm \in BOOLEAN BY <1>4 DEF IqMsg
<1>8. v5 \in [Lamps -> {0, 1}] /\ v10 \subseteq Lamps /\ v2 \in BOOLEAN BY <1>1 DEF IqTypes
<1>9. CASE a.com = "status" /\ v1' = q /\ v10' = v10 \cup {a.from} /\ UNCHANGED <<v5, v2>>
  <2>1. v10' \subseteq Lamps /\ v10 \subseteq v10' BY <1>7, <1>8, <1>9
  <2>2. Queue(q, v4, v8, v9, v10') BY <1>6, <2>1, QueueMore
  <2>3. Queue(v1', v4', v8', v9', v10') BY <1>2, <1>9, <2>2
  <2>4. ASSUME NEW x \in Lamps, x \notin v10'
        PROVE  v2' \/ Asked(v1', x) \/ Tells(v3', x) \/ Knows(v3', x, v5'[x], v4'[x])
    <3>1. x \notin v10 /\ x # a.from BY <1>9, <2>4
    <3>2. ~Of(a, x) /\ ~Switched(a, x) BY <3>1 DEF Of, Switched
    <3> QED BY <1>1, <1>2, <1>5, <1>6, <1>9, <3>1, <3>2 DEF Known
  <2>5. Known(v1', v2', v3', v4', v5', v10') BY <2>4 DEF Known
  <2>6. IqTypes' BY <1>1, <1>2, <1>3, <1>9, <2>1 DEF IqTypes
  <2> QED BY <2>3, <2>5, <2>6 DEF IqInv
<1>10. CASE /\ a.com # "status" /\ v1' = r \o b /\ v10' = v10
            /\ v5' = [v5 EXCEPT ![a.from] = a.level] /\ v2' = (v2 \/ ~grouped)
  <2>1. Delay \in Nat /\ Members[a.from] \in SUBSET Lamps /\ IsFiniteSet(Members[a.from])
    <3>1. Delay \in Nat /\ Members[a.from] \in SUBSET Lamps
      BY <1>7 DEF InsteonQueue!InsteonAssumption
    <3>2. IsFiniteSet(Lamps)
      BY DEF InsteonQueue!InsteonAssumption, InsteonQueue!IsFiniteSet, IsFiniteSet
    <3> QED BY <3>1, <3>2, FS_Subset
  <2>2. Queue(r, v4, v8, v9, v10) /\ \A x : Asked(q, x) => Asked(r, x)
    BY <1>6, <2>1, QueueDelayed
  <2>3. b \in Seq(IqEntry) /\ \A i \in 1 .. Len(b) : Added(b[i])
    <3>1. CASE grouped
      <4>1. b = <<InsteonQueue!PauseEntry(Delay)>> \o InsteonQueue!Queries(Members[a.from])
                \o <<InsteonQueue!PauseEntry(1)>>
        BY <3>1 DEF InsteonQueue!GroupQueries
      <4> QED BY <2>1, <4>1, Grouped
    <3>2. CASE ~grouped
      <4> HIDE DEF grouped
      <4>1. b = <<>> BY <3>2
      <4>2. b \in Seq(IqEntry) /\ Len(b) = 0 BY <4>1, EmptySeq
      <4> QED BY <4>2
    <3> QED BY <3>1, <3>2
  <2> HIDE DEF r, b
  <2>4. Queue(r \o b, v4, v8, v9, v10) /\ \A x : Asked(r, x) => Asked(r \o b, x)
    BY <2>2, <2>3, QueueJoined
  <2>5. Queue(v1', v4', v8', v9', v10') BY <1>2, <1>10, <2>4
  <2>6. /\ v2' \in BOOLEAN /\ v5' \in [Lamps -> {0, 1}]
        /\ \A x \in Lamps : x # a.from => v5'[x] = v5[x]
    BY <1>7, <1>8, <1>10
  <2>7. ASSUME NEW x \in Lamps, x \notin v10', ~v2'
        PROVE  Asked(v1', x) \/ Tells(v3', x) \/ Knows(v3', x, v5'[x], v4'[x])
    <3>1. ~v2 /\ grouped BY <1>8, <1>10, <2>7
    <3>2. ~a.toplm BY <3>1
    <3>3. CASE x = a.from
      <4>1. Of(a, x) BY <1>4, <3>3 DEF Of
      <4> QED BY <1>2, <1>5, <1>10, <3>2, <4>1
    <3>4. CASE x # a.from
      <4>1. ~Of(a, x) /\ ~Switched(a, x) BY <3>4 DEF Of, Switched
      <4>2. v5'[x] = v5[x] BY <2>6, <3>4
      <4>3. Asked(v1, x) => Asked(v1', x) BY <1>6, <1>10, <2>2, <2>4
      <4> QED BY <1>1, <1>2, <1>5, <1>10, <2>7, <3>1, <4>1, <4>2, <4>3 DEF Known
    <3> QED BY <3>3, <3>4
  <2>8. Known(v1', v2', v3', v4', v5', v10') BY <2>7 DEF Known
  <2>9. IqTypes' BY <1>1, <1>2, <1>3, <1>10, <2>6 DEF IqTypes
  <2> QED BY <2>5, <2>8, <2>9 DEF IqInv
<1> QED BY <1>2, <1>9, <1>10

\* A button is pressed.
LEMMA IqPressed ==
  ASSUME IqInv, NEW d \in Lamps, InsteonQueue!Press(d)
  PROVE  IqInv'
<1> DEFINE com == IF v4[d] = 0 THEN "on" ELSE "off"
           queued == \E c \in {"on", "off"} : \E i \in DOMAIN v1 : v1[i].cmd = [dev |-> d, com |-> c]
           m == [from |-> d, com |-> com, toplm |-> FALSE, level |-> InsteonQueue!Level(com)]
           n == [from |-> d, com |-> com, toplm |-> TRUE, level |-> 1]
           b == <<m, n>>
<1>1. IqTypes /\ Queue(v1, v4, v8, v9, v10) /\ Known(v1, v2, v3, v4, v5, v10) BY DEF IqInv
<1>2. /\ v4' = [v4 EXCEPT ![d] = 1 - @]
      /\ v8' = [v8 EXCEPT ![d] = IF queued THEN @ ELSE 1 - v4[d]]
      /\ v9' = IF queued THEN v9 \cup {d} ELSE v9 \ {d}
      /\ v3' = v3 \o b /\ UNCHANGED <<v1, v2, v5, v10>>
  BY DEF InsteonQueue!Press, InsteonQueue!InQueue
<1>3. /\ m \in IqMsg /\ m.from = d /\ m.com # "status"
      /\ n \in IqMsg /\ n.from = d /\ n.com # "status" /\ n.toplm
  BY DEF IqMsg, InsteonQueue!Level
<1> HIDE DEF m, n
<1>4. b \in Seq(IqAir) /\ Len(b) = 2 /\ b[1] = m /\ b[2] = n BY <1>3 DEF IqAir
<1> HIDE DEF b
<1>5. \A i \in 1 .. Len(b) : i \in {1, 2} /\ b[i].from = d BY <1>3, <1>4
<1>6. Switched(b[2], d) /\ 2 \in 1 .. Len(b) BY <1>3, <1>4 DEF Switched, Of
<1>7. CleanedUp(b) /\ Tells(b, d)
  <2>1. ASSUME NEW i \in 1 .. Len(b) PROVE Followed(b, i)
    <3>1. b[i].from = d /\ 2 \in i .. Len(b) BY <1>4, <1>5
    <3> QED BY <1>6, <3>1 DEF Followed
  <2> QED BY <1>6, <2>1 DEF CleanedUp, Tells
<1>8. \A x : x # d => \A i \in 1 .. Len(b) : ~Of(b[i], x) BY <1>5 DEF Of
<1>9. /\ v3 \o b \in Seq(IqAir) /\ CleanedUp(v3 \o b) /\ Tells(v3 \o b, d)
      /\ \A x : Tells(v3, x) => Tells(v3 \o b, x)
      /\ \A x, k, l : Knows(v3, x, k, l) /\ x # d => Knows(v3 \o b, x, k, l)
  BY <1>1, <1>4, <1>7, <1>8, AirJoins DEF IqTypes
<1>10. /\ v4 \in [Lamps -> {0, 1}] /\ v8 \in [Lamps -> {0, 1}] /\ v9 \subseteq Lamps
  BY <1>1 DEF IqTypes
<1>11. queued <=> \E i \in 1 .. Len(v1) : Orders(v1[i].cmd, d)
  <2>1. DOMAIN v1 = 1 .. Len(v1) BY <1>1, LenProperties DEF Queue
  <2>2. \A c : Orders(c, d) <=> c \in {[dev |-> d, com |-> "on"], [dev |-> d, com |-> "off"]}
    BY DEF Orders, InsteonQueue!Commands
  <2> QED BY <2>1, <2>2
<1> HIDE DEF queued
<1>12. /\ v4' \in [Lamps -> {0, 1}] /\ v8' \in [Lamps -> {0, 1}] /\ v9' \subseteq Lamps
       /\ v4'[d] = 1 - v4[d] /\ v8'[d] = IF queued THEN v8[d] ELSE 1 - v4[d]
       /\ \A x \in Lamps : x # d => v4'[x] = v4[x] /\ v8'[x] = v8[x]
  <2>1. v4[d] \in {0, 1} /\ 1 - v4[d] \in {0, 1} BY <1>10
  <2>2. v9' \subseteq Lamps BY <1>2, <1>10
  <2>3. v4' \in [Lamps -> {0, 1}] /\ v4'[d] = 1 - v4[d] BY <1>2, <1>10, <2>1
  <2>4. v8' \in [Lamps -> {0, 1}] /\ v8'[d] = IF queued THEN v8[d] ELSE 1 - v4[d]
    BY <1>2, <1>10, <2>1
  <2>5. \A x \in Lamps : x # d => v4'[x] = v4[x] /\ v8'[x] = v8[x] BY <1>2, <1>10
  <2> QED BY <2>2, <2>3, <2>4, <2>5
<1>13. \A x \in Lamps : x # d => (x \in v9' <=> x \in v9) BY <1>2
<1>14. queued => d \in v9' BY <1>2
<1>15. Queue(v1, v4', v8', v9', v10)
  BY <1>1, <1>11, <1>12, <1>13, <1>14, QueuePressed
<1>16. Queue(v1', v4', v8', v9', v10') BY <1>2, <1>15
<1>17. ASSUME NEW x \in Lamps, x \notin v10'
       PROVE  v2' \/ Asked(v1', x) \/ Tells(v3', x) \/ Knows(v3', x, v5'[x], v4'[x])
  <2>1. CASE x = d BY <1>2, <1>9, <2>1
  <2>2. CASE x # d BY <1>1, <1>2, <1>9, <1>12, <1>17, <2>2 DEF Known
  <2> QED BY <2>1, <2>2
<1>18. Known(v1', v2', v3', v4', v5', v10') BY <1>17 DEF Known
<1>19. IqTypes' BY <1>1, <1>2, <1>9, <1>12 DEF IqTypes
<1> QED BY <1>16, <1>18, <1>19 DEF IqInv

(* plm_runq *)
LEMMA EntrySent ==
  ASSUME NEW e \in IqEntry, NEW df, NEW ex, Sends(e, df, ex), e.cmd # IqPause,
         NEW expired \in BOOLEAN, ~InsteonQueue!Over(e), ~InsteonQueue!GivenUp(e, expired),
         "send" \in e.state \/ expired, NEW f,
         f = [e EXCEPT !.state = IF "send" \in e.state THEN @ \ {"send"} ELSE e.wait,
                       !.sendcount = @ + 1, !.sent = @ + 1]
  PROVE  f \in IqEntry /\ f.cmd = e.cmd /\ f.sent > 0 /\ \A df2, ex2 : Sends(f, df2, ex2)
<1> DEFINE w == IF "send" \in e.state THEN e.state \ {"send"} ELSE e.wait
           n == e.sendcount + 1
           k == e.sent + 1
<1>1. /\ e.sendcount \in Nat /\ e.sent \in Nat /\ e.wait \subseteq IqWait
      /\ e.state \subseteq IqWait \cup {"send"}
  BY DEF IqEntry
<1>2. w \in SUBSET (IqWait \cup {"send"}) /\ "send" \notin w BY <1>1 DEF IqWait
<1>3. f = [e EXCEPT !.state = w, !.sendcount = n, !.sent = k] OBVIOUS
<1>4. n \in Nat /\ k \in Nat /\ k > 0 BY <1>1
<1>5. k <= n /\ k <= 2
  <2>1. e.sendcount <= 2 BY <1>1 DEF InsteonQueue!Over, InsteonQueue!CMDQ_MAX_SEND, IqPause
  <2>2. e.sent <= e.sendcount BY DEF Sends
  <2>3. CASE "send" \in e.state BY <1>1, <2>1, <2>2, <2>3 DEF Sends
  <2>4. CASE "send" \notin e.state
    <3>1. e.sendcount < 2
      BY <1>1, <2>4 DEF InsteonQueue!GivenUp, InsteonQueue!CMDQ_MAX_SEND, IqPause
    <3> QED BY <1>1, <2>2, <3>1
  <2> QED BY <2>3, <2>4
<1> HIDE DEF w, n, k
<1>6. f \in IqEntry /\ f.cmd = e.cmd /\ f.state = w /\ f.sendcount = n /\ f.sent = k
  BY <1>2, <1>3, <1>4 DEF IqEntry
<1>7. \A df2, ex2 : Sends(f, df2, ex2) BY <1>2, <1>4, <1>5, <1>6 DEF Sends
<1> QED BY <1>4, <1>6, <1>7

\* The first element of a sequence is replaced.
LEMMA NewHead ==
  ASSUME NEW S, NEW q \in Seq(S), q # <<>>, NEW e \in S
  PROVE  LET t == <<e>> \o Tail(q)
         IN t \in Seq(S) /\ Len(t) = Len(q) /\ t[1] = e /\ \A i \in 2 .. Len(q) : t[i] = q[i]
<1> DEFINE h == <<e>>
           r == Tail(q)
           t == h \o r
<1>1. Len(q) \in Nat /\ Len(q) > 0 BY EmptySeq, LenProperties
<1>2. h \in Seq(S) /\ Len(h) = 1 /\ h[1] = e OBVIOUS
<1>3. r \in Seq(S) /\ Len(r) = Len(q) - 1 /\ \A i \in 1 .. Len(r) : r[i] = q[i + 1]
  BY HeadTailProperties
<1> HIDE DEF h, r
<1>4. /\ t \in Seq(S) /\ Len(t) = Len(h) + Len(r)
      /\ \A i \in 1 .. Len(h) + Len(r) : t[i] = IF i <= Len(h) THEN h[i] ELSE r[i - Len(h)]
  <2>1. h \in Seq(S) /\ r \in Seq(S) BY <1>2, <1>3
  <2> QED BY <2>1, ConcatProperties
<1> HIDE DEF t
<1>5. 1 \in 1 .. Len(h) + Len(r) /\ Len(h) + Len(r) = Len(q) BY <1>1, <1>2, <1>3
<1>6. ASSUME NEW i \in 2 .. Len(q) PROVE t[i] = q[i]
  <2>1. /\ i \in 1 .. Len(h) + Len(r) /\ ~(i <= Len(h)) /\ i - Len(h) = i - 1
        /\ i - 1 \in 1 .. Len(r) /\ (i - 1) + 1 = i
    BY <1>1, <1>2, <1>3
  <2> QED BY <1>3, <1>4, <2>1
<1>7. t \in Seq(S) /\ Len(t) = Len(q) /\ t[1] = e /\ \A i \in 2 .. Len(q) : t[i] = q[i]
  BY <1>2, <1>4, <1>5, <1>6
<1> QED BY <1>7 DEF t, h, r

\* What comes back when a command is sent: perhaps echo x, perhaps message m.
Perhaps(x) == {<<>>, <<x>>}
\* What messages of devices there are in b is m, and is b2.
OnlyThat(b, m, b2) == \A i \in 1 .. Len(b) : \A d : Of(b[i], d) => b2 = <<m>> /\ b[i] = m
LEMMA Returns ==
  ASSUME NEW x \in IqEcho, NEW m \in IqMsg, m.toplm, NEW b1 \in Perhaps(x), NEW b2 \in Perhaps(m)
  PROVE  LET b == b1 \o b2
         IN /\ b \in Seq(IqAir) /\ Len(b) \in Nat /\ CleanedUp(b)
            /\ OnlyThat(b, m, b2)
            /\ b2 = <<m>> => Len(b) > 0 /\ b[Len(b)] = m
<1> DEFINE answered == b2 = <<m>>
           b == b1 \o b2
<1>0. x \in IqAir /\ m \in IqAir BY DEF IqAir
<1>k. b1 \in {<<>>, <<x>>} /\ b2 \in {<<>>, <<m>>} BY DEF Perhaps
<1>1. b1 \in Seq(IqAir) /\ Len(b1) \in {0, 1} /\ \A i \in 1 .. Len(b1) : b1[i] = x
  <2>1. CASE b1 = <<x>>
    <3>1. b1 \in Seq(IqAir) /\ Len(b1) = 1 /\ b1[1] = x BY <1>0, <2>1
    <3> QED BY <3>1
  <2>2. CASE b1 = <<>>
    <3>1. b1 \in Seq(IqAir) /\ Len(b1) = 0 BY <2>2, EmptySeq
    <3> QED BY <3>1
  <2> QED BY <1>k, <2>1, <2>2
<1>2. /\ b2 \in Seq(IqAir) /\ Len(b2) \in {0, 1} /\ (answered => Len(b2) = 1)
      /\ \A i \in 1 .. Len(b2) : answered /\ b2[i] = m
  <2>1. CASE b2 = <<m>>
    <3>1. b2 \in Seq(IqAir) /\ Len(b2) = 1 /\ b2[1] = m BY <1>0, <2>1
    <3> QED BY <2>1, <3>1
  <2>2. CASE b2 = <<>>
    <3>1. b2 \in Seq(IqAir) /\ Len(b2) = 0 BY <2>2, EmptySeq
    <3>2. Len(<<m>>) = 1 OBVIOUS
    <3> QED BY <3>1, <3>2
  <2> QED BY <1>k, <2>1, <2>2
<1> HIDE DEF answered
<1>3. /\ b \in Seq(IqAir) /\ Len(b) = Len(b1) + Len(b2)
      /\ \A i \in 1 .. Len(b1) + Len(b2) : b[i] = IF i <= Len(b1) THEN b1[i] ELSE b2[i - Len(b1)]
  BY <1>1, <1>2, ConcatProperties
<1> HIDE DEF b
<1>4. x \notin IqMsg
  <2>1. DOMAIN x = {"cmd", "ok"} BY DEF IqEcho
  <2>2. \A z \in IqMsg : DOMAIN z = {"from", "com", "toplm", "level"} BY DEF IqMsg
  <2> QED BY <2>1, <2>2
<1>5. Len(b1) \in Nat /\ Len(b2) \in Nat BY <1>1, <1>2
<1>6. ASSUME NEW i \in 1 .. Len(b) PROVE b[i] = x \/ (answered /\ b[i] = m)
  <2>1. i \in 1 .. Len(b1) + Len(b2) BY <1>3
  <2>2. CASE i <= Len(b1) BY <1>1, <1>3, <1>5, <2>1, <2>2
  <2>3. CASE ~(i <= Len(b1))
    <3>1. i - Len(b1) \in 1 .. Len(b2) BY <1>5, <2>1, <2>3
    <3> QED BY <1>2, <1>3, <2>1, <2>3, <3>1
  <2> QED BY <2>2, <2>3
<1>7. \A i \in 1 .. Len(b) : \A d : Of(b[i], d) => answered /\ b[i] = m BY <1>4, <1>6 DEF Of
<1>8. ASSUME answered PROVE Len(b) > 0 /\ b[Len(b)] = m
  <2>1. Len(b2) = 1 /\ Len(b) = Len(b1) + 1 BY <1>2, <1>3, <1>8
  <2>2. Len(b) \in 1 .. Len(b1) + Len(b2) /\ ~(Len(b) <= Len(b1)) /\ Len(b) - Len(b1) = 1
    BY <1>5, <2>1
  <2>3. b[Len(b)] = b2[1] BY <1>3, <2>2
  <2>4. 1 \in 1 .. Len(b2) BY <2>1
  <2> QED BY <1>2, <1>5, <2>1, <2>3, <2>4
<1>9. CleanedUp(b)
  <2> SUFFICES ASSUME NEW i \in 1 .. Len(b), b[i] \in IqMsg, b[i].com # "status" PROVE Followed(b, i)
    BY DEF CleanedUp
  <2>1. b[i] = m BY <1>4, <1>6
  <2>2. i \in i .. Len(b) /\ Switched(b[i], b[i].from) BY <1>3, <1>5, <2>1 DEF Switched, Of
  <2> QED BY <2>2 DEF Followed
<1>10. Len(b) \in Nat BY <1>3, <1>5
<1>11. /\ b \in Seq(IqAir) /\ Len(b) \in Nat /\ CleanedUp(b)
       /\ \A i \in 1 .. Len(b) : \A d : Of(b[i], d) => answered /\ b[i] = m
       /\ answered => Len(b) > 0 /\ b[Len(b)] = m
  BY <1>3, <1>7, <1>8, <1>9, <1>10
<1> QED BY <1>11 DEF answered, b, OnlyThat

LEMMA IqSends ==
  ASSUME IqTypes, NEW q, Queue(q, v4, v8, v9, v10), Known(q, v2, v3, v4, v5, v10),
         q # <<>>, q[1].cmd # IqPause,
         NEW expired \in BOOLEAN, ~InsteonQueue!Over(q[1]), ~InsteonQueue!GivenUp(q[1], expired),
         "send" \in q[1].state \/ expired, InsteonQueue!Send(q[1], q)
  PROVE  IqInv'
<1> DEFINE e == q[1]
           d == e.cmd.dev
           more == [e EXCEPT !.state = IF "send" \in e.state THEN @ \ {"send"} ELSE e.wait,
                             !.sendcount = @ + 1, !.sent = @ + 1]
           level == IF e.cmd.com = "status" THEN v4[d] ELSE InsteonQueue!Level(e.cmd.com)
           m == [from |-> d, com |-> e.cmd.com, toplm |-> TRUE, level |-> level]
           back(echo, answered) ==
             (IF echo = "none" THEN <<>> ELSE <<[cmd |-> e.cmd, ok |-> echo = "ack"]>>)
             \o (IF answered THEN <<m>> ELSE <<>>)
           t == <<more>> \o Tail(q)
<1>1. /\ q \in Seq(IqEntry) /\ Len(q) \in Nat /\ Len(q) > 0 /\ e \in IqEntry /\ Sends(e, v9, v10)
  BY QueueHead
<1>2. e.cmd \in InsteonQueue!Commands /\ d \in Lamps /\ e.cmd.com \in {"on", "off", "status"}
  BY <1>1, IqCommands DEF InsteonQueue!Commands
<1>3. more \in IqEntry /\ more.cmd = e.cmd /\ more.sent > 0 /\ \A df2, ex2 : Sends(more, df2, ex2)
  <2>1. more = [e EXCEPT !.state = IF "send" \in e.state THEN @ \ {"send"} ELSE e.wait,
                         !.sendcount = @ + 1, !.sent = @ + 1]
    OBVIOUS
  <2> HIDE DEF more
  <2> QED BY <1>1, <2>1, EntrySent
<1>4. v1' = t /\ UNCHANGED <<v2, v5, v8>> BY DEF InsteonQueue!Send
<1>5. PICK echo \in {"none", "nak", "ack"}, heard \in BOOLEAN, answered \in BOOLEAN :
        /\ answered => heard
        /\ v3' = v3 \o back(echo, answered)
        /\ v4' = [v4 EXCEPT ![d] = IF heard THEN level ELSE @]
        /\ v10' = IF e.cmd.com = "status"
                    THEN IF answered THEN v10 \ {d} ELSE v10 \cup {d}
                    ELSE IF heard /\ ~answered THEN v10 \cup {d} ELSE v10
        /\ v9' = IF e.cmd.com = "status" THEN v9
                 ELSE IF heard THEN v9 \ {d} ELSE v9 \cup {d}
  BY ZenonT(60) DEF InsteonQueue!Send
<1> DEFINE b == back(echo, answered)
<1>6. /\ v4 \in [Lamps -> {0, 1}] /\ v9 \subseteq Lamps /\ v10 \subseteq Lamps
      /\ v3 \in Seq(IqAir) /\ CleanedUp(v3)
  BY DEF IqTypes
<1>7. level \in {0, 1} BY <1>2, <1>6 DEF InsteonQueue!Level
<1>8. m \in IqMsg /\ m.from = d /\ m.com = e.cmd.com /\ m.toplm /\ m.level = level
  <2> HIDE DEF level
  <2> QED BY <1>2, <1>7 DEF IqMsg
<1>9. /\ b \in Seq(IqAir) /\ Len(b) \in Nat /\ CleanedUp(b)
      /\ \A i \in 1 .. Len(b) : \A x : Of(b[i], x) => answered /\ b[i] = m
      /\ answered => Len(b) > 0 /\ b[Len(b)] = m
  <2> DEFINE z == [cmd |-> e.cmd, ok |-> echo = "ack"]
  <2>1. z \in IqEcho BY <1>2 DEF IqEcho
  <2> HIDE DEF z, m
  <2> DEFINE b1 == IF echo = "none" THEN <<>> ELSE <<z>>
             b2 == IF answered THEN <<m>> ELSE <<>>
  <2>2. b = b1 \o b2 BY DEF z
  <2>3. b1 \in Perhaps(z) /\ b2 \in Perhaps(m) BY DEF Perhaps
  <2>4. b2 = <<m>> <=> answered
    <3>1. <<>> # <<m>> OBVIOUS
    <3> QED BY <3>1
  <2> HIDE DEF b, b1, b2
  <2>5. m \in IqMsg /\ m.toplm BY <1>8
  <2>6. LET r == b1 \o b2
        IN /\ r \in Seq(IqAir) /\ Len(r) \in Nat /\ CleanedUp(r)
           /\ OnlyThat(r, m, b2)
           /\ b2 = <<m>> => Len(r) > 0 /\ r[Len(r)] = m
    BY <2>1, <2>3, <2>5, Returns
  <2>7. /\ b \in Seq(IqAir) /\ Len(b) \in Nat /\ CleanedUp(b)
        /\ OnlyThat(b, m, b2)
        /\ b2 = <<m>> => Len(b) > 0 /\ b[Len(b)] = m
    BY <2>2, <2>6
  <2> QED BY <2>4, <2>7 DEF OnlyThat
<1>10. /\ t \in Seq(IqEntry) /\ Len(t) = Len(q) /\ t[1] = more /\ \A i \in 2 .. Len(q) : t[i] = q[i]
  <2> HIDE DEF more
  <2>1. q \in Seq(IqEntry) /\ q # <<>> /\ more \in IqEntry BY <1>1, <1>3
  <2> HIDE DEF e
  <2> QED BY <2>1, NewHead
<1> HIDE DEF t, more, b, back, m
<1>11. v3' = v3 \o b BY <1>5 DEF b
<1>12. /\ v4' \in [Lamps -> {0, 1}] /\ v9' \subseteq Lamps /\ v10' \subseteq Lamps
       /\ v4'[d] = IF heard THEN level ELSE v4[d]
       /\ \A x \in Lamps : x # d => v4'[x] = v4[x] /\ (x \in v9' <=> x \in v9) /\ (x \in v10' <=> x \in v10)
  <2> HIDE DEF level
  <2>1. v4' \in [Lamps -> {0, 1}] /\ v4'[d] = IF heard THEN level ELSE v4[d]
    BY <1>2, <1>5, <1>6, <1>7
  <2>2. \A x \in Lamps : x # d => v4'[x] = v4[x] BY <1>5, <1>6
  <2>3. v9' \subseteq Lamps /\ v10' \subseteq Lamps BY <1>2, <1>5, <1>6
  <2>4. \A x \in Lamps : x # d => (x \in v9' <=> x \in v9) /\ (x \in v10' <=> x \in v10) BY <1>5
  <2> QED BY <2>1, <2>2, <2>3, <2>4
<1>13. \A x : Asks(e.cmd, x) <=> x = d /\ e.cmd.com = "status" BY <1>2 DEF Asks
<1>14. \A x : Orders(e.cmd, x) <=> x = d /\ e.cmd.com # "status" BY <1>2 DEF Orders
<1>15. /\ Queue(t, v4', v8, v9', v10')
       /\ \A x : Asked(q, x) /\ ~Asks(e.cmd, x) => Asked(t, x)
  <2>1. \A x : Asks(e.cmd, x) => v4'[x] = v4[x] /\ (x \in v9' <=> x \in v9)
    BY <1>5, <1>12, <1>13 DEF level
  <2>2. \A x : Orders(e.cmd, x) /\ x \notin v9' => v4'[x] = InsteonQueue!Level(e.cmd.com)
    BY <1>5, <1>12, <1>14 DEF level
  <2>3. \A x \in Lamps : x # d => v4'[x] = v4[x] /\ (x \in v9' <=> x \in v9) BY <1>12
  <2>4. t[1].cmd = q[1].cmd /\ t[1].sent > 0 /\ Sends(t[1], v9', v10') BY <1>3, <1>10
  <2>5. ASSUME NEW lp2, NEW df2, NEW ex2,
               t[1].cmd = q[1].cmd, t[1].sent > 0, Sends(t[1], df2, ex2),
               \A x \in Lamps : x # q[1].cmd.dev => lp2[x] = v4[x] /\ (x \in df2 <=> x \in v9),
               \A x : Asks(q[1].cmd, x) => lp2[x] = v4[x] /\ (x \in df2 <=> x \in v9),
               \A x : Orders(q[1].cmd, x) /\ x \notin df2 => lp2[x] = InsteonQueue!Level(q[1].cmd.com)
        PROVE  /\ Queue(t, lp2, v8, df2, ex2)
               /\ \A x : Asked(q, x) /\ ~Asks(q[1].cmd, x) => Asked(t, x)
    <3>1. /\ t \in Seq(IqEntry) /\ Len(t) = Len(q) /\ \A i \in 2 .. Len(q) : t[i] = q[i] BY <1>10
    <3> HIDE DEF e, d
    <3> QED BY <2>5, <3>1, QueueSent
  <2> QED BY <2>1, <2>2, <2>3, <2>4, <2>5
<1>16. /\ v3 \o b \in Seq(IqAir) /\ CleanedUp(v3 \o b)
       /\ \A x : Tells(v3, x) \/ Tells(b, x) => Tells(v3 \o b, x)
       /\ \A x, k, l : Knows(v3, x, k, l) /\ (\A i \in 1 .. Len(b) : ~Of(b[i], x)) => Knows(v3 \o b, x, k, l)
       /\ \A x, k, l :
            /\ Len(b) > 0 /\ Of(b[Len(b)], x) /\ b[Len(b)].level = l
            /\ \A i \in 1 .. Len(b) : Of(b[i], x) => b[i].com = "status"
            => Tells(v3 \o b, x) \/ Knows(v3 \o b, x, k, l)
  BY <1>6, <1>9, AirJoins
<1>17. ASSUME NEW x \in Lamps, x \notin v10'
       PROVE  v2' \/ Asked(v1', x) \/ Tells(v3', x) \/ Knows(v3', x, v5'[x], v4'[x])
  <2>1. CASE x # d \/ (e.cmd.com # "status" /\ ~heard)
    <3>1. x \notin v10 BY <1>5, <1>12, <1>17, <2>1
    <3>2. ~Asks(e.cmd, x) BY <1>13, <2>1
    <3>3. v4'[x] = v4[x] BY <1>12, <2>1
    <3>4. \A i \in 1 .. Len(b) : ~Of(b[i], x) BY <1>5, <1>8, <1>9, <2>1 DEF Of
    <3>5. v2 \/ Asked(q, x) \/ Tells(v3, x) \/ Knows(v3, x, v5[x], v4[x]) BY <3>1 DEF Known
    <3> QED BY <1>4, <1>11, <1>15, <1>16, <3>2, <3>3, <3>4, <3>5
  <2>2. CASE x = d /\ e.cmd.com # "status" /\ heard
    <3>1. answered BY <1>5, <1>17, <2>2
    <3>2. Len(b) \in 1 .. Len(b) /\ Switched(b[Len(b)], d) BY <1>8, <1>9, <2>2, <3>1 DEF Switched, Of
    <3>3. Tells(b, d) BY <3>2 DEF Tells
    <3> QED BY <1>11, <1>16, <2>2, <3>3
  <2>3. CASE x = d /\ e.cmd.com = "status"
    <3>1. answered /\ heard BY <1>5, <1>17, <2>3
    <3>2. Len(b) > 0 /\ Of(b[Len(b)], d) /\ b[Len(b)].level = level BY <1>8, <1>9, <3>1 DEF Of
    <3>3. \A i \in 1 .. Len(b) : Of(b[i], d) => b[i].com = "status" BY <1>8, <1>9, <2>3
    <3>4. v4'[d] = level BY <1>12, <3>1
    <3>5. Tells(v3 \o b, d) \/ Knows(v3 \o b, d, v5'[d], v4'[d])
      BY <1>16, <3>2, <3>3, <3>4
    <3> QED BY <1>11, <2>3, <3>5
  <2> QED BY <2>1, <2>2, <2>3
<1>18. Known(v1', v2', v3', v4', v5', v10') BY <1>17 DEF Known
<1>19. Queue(v1', v4', v8', v9', v10') BY <1>4, <1>15
<1>20. IqTypes' BY <1>4, <1>11, <1>12, <1>16 DEF IqTypes
<1> QED BY <1>18, <1>19, <1>20 DEF IqInv

LEMMA IqRuns ==
  ASSUME InsteonQueue!InsteonAssumption, IqInv, NEW expired \in BOOLEAN, InsteonQueue!Runq(expired)
  PROVE  IqInv'
<1> DEFINE q == IF v1 = <<>> THEN <<>> ELSE InsteonQueue!Live(InsteonQueue!Condensed(v1), expired)
<1>1. IqTypes /\ Queue(v1, v4, v8, v9, v10) /\ Known(v1, v2, v3, v4, v5, v10) BY DEF IqInv
<1>2. \/ q = <<>> /\ InsteonQueue!QueueEmpty
      \/ q # <<>> /\ q[1].cmd = IqPause /\ InsteonQueue!Rest(q)
      \/ /\ q # <<>> /\ q[1].cmd # IqPause /\ ("send" \in q[1].state \/ expired)
         /\ InsteonQueue!Send(q[1], q)
      \/ v1' = q /\ UNCHANGED <<v2, v3, v4, v5, v8, v9, v10>>
  BY DEF InsteonQueue!Runq, IqPause
<1>3. /\ Queue(q, v4, v8, v9, v10) /\ \A x : Asked(v1, x) => Asked(q, x) \/ x \in v10
      /\ q # <<>> => ~InsteonQueue!Over(q[1]) /\ ~InsteonQueue!GivenUp(q[1], expired)
  <2>1. CASE v1 = <<>>
    <3>1. q = v1 BY <2>1
    <3> HIDE DEF q
    <3> QED BY <1>1, <2>1, <3>1
  <2>2. CASE v1 # <<>>
    <3> DEFINE c == InsteonQueue!Condensed(v1)
    <3>1. q = InsteonQueue!Live(c, expired) BY <2>2
    <3>2. Queue(c, v4, v8, v9, v10) /\ \A x : Asked(v1, x) => Asked(c, x)
      BY <1>1, <2>2, Condenses
    <3> HIDE DEF c, q
    <3>3. LET t == InsteonQueue!Live(c, expired)
          IN /\ Queue(t, v4, v8, v9, v10) /\ \A x : Asked(c, x) => Asked(t, x) \/ x \in v10
             /\ t # <<>> => ~InsteonQueue!Over(t[1]) /\ ~InsteonQueue!GivenUp(t[1], expired)
      BY <3>2, Lives
    <3> QED BY <3>1, <3>2, <3>3
  <2> QED BY <2>1, <2>2
<1> HIDE DEF q
<1>4. Known(q, v2, v3, v4, v5, v10) BY <1>1, <1>3 DEF Known
<1>5. CASE q = <<>> /\ InsteonQueue!QueueEmpty
  <2>1. /\ v1' = IF v2 THEN <<InsteonQueue!PauseEntry(Delay)>> \o InsteonQueue!Queries(Lamps) ELSE <<>>
        /\ v2' = FALSE /\ UNCHANGED <<v3, v4, v5, v8, v9, v10>>
    BY <1>5 DEF InsteonQueue!QueueEmpty
  <2>2. Queue(v1', v4, v8, v9, v10) /\ \A x \in Lamps : v2 \/ Asked(q, x) => Asked(v1', x)
    <3>0. Queue(<<>>, v4, v8, v9, v10) /\ \A x : ~Asked(<<>>, x)
      <4>1. Queue(<<>>, v4, v8, v9, v10) BY <1>3, <1>5
      <4>2. ASSUME NEW x, Asked(<<>>, x) PROVE FALSE
        <5>1. Len(<<>>) = 0 OBVIOUS
        <5> QED BY <4>2, <5>1 DEF Asked
      <4> QED BY <4>1, <4>2
    <3>1. CASE ~v2
      <4>1. v1' = <<>> BY <2>1, <3>1
      <4> QED BY <1>5, <3>0, <3>1, <4>1
    <3>2. CASE v2
      <4> DEFINE b == <<InsteonQueue!PauseEntry(Delay)>> \o InsteonQueue!Queries(Lamps)
      <4>1. Delay \in Nat /\ IsFiniteSet(Lamps)
        BY DEF InsteonQueue!InsteonAssumption, InsteonQueue!IsFiniteSet, IsFiniteSet
      <4>2. /\ b \in Seq(IqEntry) /\ Len(b) > 0 /\ \A i \in 1 .. Len(b) : Added(b[i]) /\ b[i].sent = 0
            /\ \A x \in Lamps : \E i \in 1 .. Len(b) : Asks(b[i].cmd, x)
        BY <4>1, Grouped
      <4> HIDE DEF b
      <4>3. v1' = b BY <2>1, <3>2 DEF b
      <4>4. Queue(<<>> \o b, v4, v8, v9, v10) BY <3>0, <4>2, QueueJoined
      <4>5. <<>> \o b = b BY <4>2, ConcatEmptySeq
      <4>6. \A x \in Lamps : Asked(b, x) BY <4>2 DEF Asked
      <4> QED BY <4>3, <4>4, <4>5, <4>6
    <3> QED BY <3>1, <3>2
  <2>3. Queue(v1', v4', v8', v9', v10') BY <2>1, <2>2
  <2>4. Known(v1', v2', v3', v4', v5', v10') BY <1>4, <2>1, <2>2 DEF Known
  <2>5. IqTypes' BY <1>1, <2>1 DEF IqTypes
  <2> QED BY <2>3, <2>4, <2>5 DEF IqInv
<1>6. CASE q # <<>> /\ q[1].cmd = IqPause /\ InsteonQueue!Rest(q)
  <2>1. /\ v1' = IF q[1].sendcount = 0 THEN Tail(q) ELSE [q EXCEPT ![1].sendcount = @ - 1]
        /\ UNCHANGED <<v2, v3, v4, v5, v8, v9, v10>>
    BY <1>6 DEF InsteonQueue!Rest
  <2>2. Queue(v1', v4, v8, v9, v10) /\ \A x : Asked(q, x) => Asked(v1', x) \/ x \in v10
    <3>1. CASE q[1].sendcount = 0
      <4>1. Queue(Tail(q), v4, v8, v9, v10) /\ \A x : Asked(q, x) => Asked(Tail(q), x) \/ x \in v10
        BY <1>3, <1>6, QueueTail
      <4> QED BY <2>1, <3>1, <4>1
    <3>2. CASE q[1].sendcount # 0
      <4> DEFINE f == [q[1] EXCEPT !.sendcount = q[1].sendcount - 1]
      <4>1. [q EXCEPT ![1].sendcount = @ - 1] = [q EXCEPT ![1] = f] OBVIOUS
      <4>2. q[1] \in IqEntry /\ Sends(q[1], v9, v10) BY <1>3, <1>6, QueueHead
      <4>3. q[1].sendcount - 1 \in Nat BY <3>2, <4>2 DEF IqEntry
      <4>4. f \in IqEntry /\ f.cmd = q[1].cmd /\ f.sent = q[1].sent BY <4>2, <4>3 DEF IqEntry
      <4> HIDE DEF f
      <4>5. Sends(f, v9, v10) BY <1>6, <4>2, <4>4 DEF Sends
      <4>6. /\ Queue([q EXCEPT ![1] = f], v4, v8, v9, v10)
            /\ \A x : Asked(q, x) => Asked([q EXCEPT ![1] = f], x)
        BY <1>3, <1>6, <4>4, <4>5, HeadChanged
      <4>7. v1' = [q EXCEPT ![1] = f] BY <2>1, <3>2, <4>1
      <4> QED BY <4>6, <4>7
    <3> QED BY <3>1, <3>2
  <2>3. Queue(v1', v4', v8', v9', v10') BY <2>1, <2>2
  <2>4. Known(v1', v2', v3', v4', v5', v10') BY <1>4, <2>1, <2>2 DEF Known
  <2>5. IqTypes' BY <1>1, <2>1 DEF IqTypes
  <2> QED BY <2>3, <2>4, <2>5 DEF IqInv
<1>7. CASE /\ q # <<>> /\ q[1].cmd # IqPause /\ ("send" \in q[1].state \/ expired)
           /\ InsteonQueue!Send(q[1], q)
  BY <1>1, <1>3, <1>4, <1>7, IqSends
<1>8. CASE v1' = q /\ UNCHANGED <<v2, v3, v4, v5, v8, v9, v10>>
  <2>1. Queue(v1', v4', v8', v9', v10') BY <1>3, <1>8
  <2>2. Known(v1', v2', v3', v4', v5', v10') BY <1>4, <1>8
  <2>3. IqTypes' BY <1>1, <1>8 DEF IqTypes
  <2> QED BY <2>1, <2>2, <2>3 DEF IqInv
<1> QED BY <1>2, <1>5, <1>6, <1>7, <1>8

LEMMA IqStepI == InsteonQueue!InsteonAssumption /\ IqInv /\ InsteonQueue!Next => IqInv'
<1> SUFFICES ASSUME InsteonQueue!InsteonAssumption, IqInv, InsteonQueue!Next PROVE IqInv'
  OBVIOUS
<1>1. ASSUME NEW c \in InsteonQueue!Commands, InsteonQueue!Request(c) PROVE IqInv'
  BY <1>1, IqRequests
<1>2. CASE InsteonQueue!Rescan
  <2>1. v2' = TRUE /\ UNCHANGED <<v1, v3, v4, v5, v8, v9, v10>> BY <1>2 DEF InsteonQueue!Rescan
  <2>2. Queue(v1', v4', v8', v9', v10') BY <2>1 DEF IqInv
  <2>3. Known(v1', v2', v3', v4', v5', v10') BY <2>1 DEF Known
  <2>4. IqTypes' BY <2>1 DEF IqInv, IqTypes
  <2> QED BY <2>2, <2>3, <2>4 DEF IqInv
<1>3. ASSUME NEW expired \in BOOLEAN, InsteonQueue!Runq(expired) PROVE IqInv'
  BY <1>3, IqRuns
<1>4. CASE InsteonQueue!HandleNext
  <2>1. v3 # <<>> /\ InsteonQueue!Handle(Head(v3)) BY <1>4 DEF InsteonQueue!HandleNext
  <2>2. Head(v3) = v3[1] BY <2>1, AirTail DEF IqInv, IqTypes
  <2>3. InsteonQueue!Handle(v3[1]) BY <2>1, <2>2
  <2> QED BY <2>1, <2>3, IqEchoes, IqAnswers, IqHears DEF InsteonQueue!Handle
<1>5. ASSUME NEW d \in Lamps, InsteonQueue!Press(d) PROVE IqInv'
  BY <1>5, IqPressed
<1> QED BY <1>1, <1>2, <1>3, <1>4, <1>5 DEF InsteonQueue!Next

\* When nothing is in the queue or under way, no order is left, and no level to be heard of.
LEMMA IqSays == IqInv => InsteonQueue!LastWins /\ InsteonQueue!SentAtMost /\ InsteonQueue!Truthful
<1> SUFFICES ASSUME IqInv
             PROVE  InsteonQueue!LastWins /\ InsteonQueue!SentAtMost /\ InsteonQueue!Truthful
  OBVIOUS
<1>1. IqTypes /\ Queue(v1, v4, v8, v9, v10) /\ Known(v1, v2, v3, v4, v5, v10) BY DEF IqInv
<1>2. DOMAIN v1 = 1 .. Len(v1) BY <1>1, LenProperties DEF Queue
<1>3. v1 = <<>> => \A i \in 1 .. Len(v1) : FALSE OBVIOUS
<1>4. v3 = <<>> => \A i \in 1 .. Len(v3) : FALSE OBVIOUS
<1>5. InsteonQueue!LastWins
  BY <1>1, <1>3 DEF InsteonQueue!LastWins, InsteonQueue!Quiet, Queue, Wins
<1>6. InsteonQueue!SentAtMost
  <2> SUFFICES ASSUME NEW i \in 1 .. Len(v1) PROVE v1[i].sent <= InsteonQueue!CMDQ_MAX_SEND
    BY <1>2 DEF InsteonQueue!SentAtMost
  <2>1. Sends(v1[i], v9, v10) BY <1>1 DEF Queue
  <2> QED BY <2>1 DEF Sends, InsteonQueue!CMDQ_MAX_SEND
<1>7. InsteonQueue!Truthful
  <2> SUFFICES ASSUME NEW d \in Lamps, InsteonQueue!Quiet, d \notin v10 PROVE v5[d] = v4[d]
    BY DEF InsteonQueue!Truthful
  <2>1. v1 = <<>> /\ v3 = <<>> /\ ~v2 BY DEF InsteonQueue!Quiet
  <2>2. ~Asked(v1, d) /\ ~Tells(v3, d) BY <1>3, <1>4, <2>1 DEF Asked, Tells
  <2>3. Knows(v3, d, v5[d], v4[d]) BY <1>1, <2>1, <2>2 DEF Known
  <2> QED BY <1>4, <2>1, <2>3 DEF Knows
<1> QED BY <1>5, <1>6, <1>7

-----------------------------------------------------------------------------
(* The whole. *)

\* The invariants of the collectors and tools.
IInv ==
  /\ which = "rrd" => RrdInv
  /\ which = "icaddy" => CaddyInv
  /\ which = "balboa" => SpaInv
  /\ which = "alarmcoll" => AlarmInv
  /\ which = "owsrv" => OwsInv
  /\ which = "ad2usb" => AdInv
  /\ which = "aldb" => AldbInv
  /\ which = "insteon" => IqInv

LEMMA InitI == Init => IInv
<1> SUFFICES ASSUME Init PROVE IInv OBVIOUS
<1>1. which = "rrd" => RrdInv BY RrdInitI DEF Init
<1>2. which = "icaddy" => CaddyInv BY CaddyInitI, CaddyConstants DEF Init
<1>3. which = "balboa" => SpaInv BY SpaInitI DEF Init
<1>4. which = "alarmcoll" => AlarmInv BY AlarmInitI DEF Init
<1>5. which = "owsrv" => OwsInv BY OwsInitI, OwsrvConstants DEF Init
<1>6. which = "ad2usb" => AdInv BY AdInitI DEF Init
<1>7. which = "aldb" => AldbInv BY AldbInitI, AldbConstants DEF Init
<1>8. which = "insteon" => IqInv BY IqInitI DEF Init
<1> QED BY <1>1, <1>2, <1>3, <1>4, <1>5, <1>6, <1>7, <1>8 DEF IInv

\* Nothing changes.
LEMMA StutterI == IInv /\ UNCHANGED vars => IInv'
<1> SUFFICES ASSUME IInv, UNCHANGED vars PROVE IInv' OBVIOUS
<1> USE DEF vars
<1>1. RrdInv => RrdInv' BY DEF RrdInv, Rrd!Introduced
<1>2. CaddyInv => CaddyInv' BY DEF CaddyInv, CaddyTimes, Icaddy!RunsAsSet
<1>3. SpaInv => SpaInv'
  BY DEF SpaInv, SpaTypes, Heard, Goal, GoalAhead, Copied, FromSpa, Balboa!AsThePanelSays
<1>4. AlarmInv => AlarmInv' BY DEF AlarmInv, SaidLast, On
<1>5. OwsInv => OwsInv' BY DEF OwsInv, OwsTypes, OwsLink, OwsTurns, LastIsCurrent
<1>6. AdInv => AdInv'
  BY DEF AdInv, AdTypes, AdZone, NeverShown, Lasts, SeenLines, SeenTold, Seen, Soon
<1>7. AldbInv => AldbInv' BY DEF AldbInv, AldbReads, AldbMsgs
<1>8. IqInv => IqInv' BY DEF IqInv, IqTypes
<1> QED BY <1>1, <1>2, <1>3, <1>4, <1>5, <1>6, <1>7, <1>8 DEF IInv

\* A step of one keeps its invariant; the others have not begun.
LEMMA StepI == IInv /\ [Next]_vars => IInv'
<1> SUFFICES ASSUME IInv, Next PROVE IInv' BY StutterI
<1>0. which' = which BY DEF Next
<1>1. which = "rrd" => RrdInv' BY RrdStepI DEF IInv, Next
<1>2. which = "icaddy" => CaddyInv' BY CaddyStepI, CaddyConstants DEF IInv, Next
<1>3. which = "balboa" => SpaInv' BY SpaStepI DEF IInv, Next
<1>4. which = "alarmcoll" => AlarmInv' BY AlarmStepI DEF IInv, Next
<1>5. which = "owsrv" => OwsInv' BY OwsStepI DEF IInv, Next
<1>6. which = "ad2usb" => AdInv' BY AdStepI, Ad2usbConstants DEF IInv, Next
<1>7. which = "aldb" => AldbInv' BY AldbStepI, AldbConstants DEF IInv, Next
<1>8. which = "insteon" => IqInv' BY IqStepI, InsteonConstants DEF IInv, Next
<1> QED BY <1>0, <1>1, <1>2, <1>3, <1>4, <1>5, <1>6, <1>7, <1>8 DEF IInv

\* The collectors and tools keep their invariants.
THEOREM Invariant == Spec => []IInv
BY InitI, StepI, PTL DEF Spec

\* coll_chg_number_cb of icaddycoll posts program 4 with the whole minutes, but with one
\* at least, of each time that a client has set, and without the zones it has set to
\* zero, whatever updates and countdowns there are in between (but of the zone that an
\* update says to be running, which has the seconds left); the presses that
\* balboacoll sends bring the spa's pumps and its temperature range to where a client
\* asked for them, and plm_runq gives the commands to Insteon devices to the modem so that the last one
\* asked for is the last one done, none more often than CMDQ_MAX_SEND times.
THEOREM DevicesObey == Spec => []Obeyed
<1>1. IInv => Obeyed
  <2> SUFFICES ASSUME IInv PROVE Obeyed OBVIOUS
  <2>1. which = "icaddy" => Icaddy!RunsAsSet BY DEF IInv, CaddyInv
  <2>2. which = "balboa" => Balboa!DoesAsAsked BY SpaObeys DEF IInv
  <2>3. which = "insteon" => InsteonQueue!LastWins /\ InsteonQueue!SentAtMost BY IqSays DEF IInv
  <2> QED BY <2>1, <2>2, <2>3 DEF Obeyed
<1> QED BY <1>1, Invariant, PTL

\* What balboacoll tells of the spa's pumps is what its panel says it has; owsrvcoll
\* takes no answer of the owserver for that to another question, and tells gnhastd
\* only of devices it has registered on the connection it has; alarmcoll has set
\* the alarms of the rows that apply, once its lines have come; rrdcoll has asked for
\* the feeds on the connection it has; insteoncoll has told the levels of the lamps
\* when all answers have come; and insteon_aldb prints the database of the device.
THEOREM AnswersAreTrue == Spec => []Truthful
<1>1. IInv => Truthful
  <2> SUFFICES ASSUME IInv PROVE Truthful OBVIOUS
  <2>1. which = "balboa" => Balboa!AsThePanelSays BY SpaObeys DEF IInv
  <2>2. which = "owsrv" => Owsrv!Truthful /\ Owsrv!Introduced BY OwsSays DEF IInv
  <2>3. which = "alarmcoll" => Alarmcoll!AlarmsAreFired BY AlarmSays DEF IInv
  <2>4. which = "rrd" => Rrd!Introduced BY DEF IInv, RrdInv
  <2>5. which = "insteon" => InsteonQueue!Truthful BY IqSays DEF IInv
  <2>6. which = "aldb" => InsteonAldb!PrintsTheirs BY AldbSays DEF IInv
  <2> QED BY <2>1, <2>2, <2>3, <2>4, <2>5, <2>6 DEF Truthful
<1> QED BY <1>1, Invariant, PTL

\* cb_ad2usb_parse does not take back a fault of a zone that lasts while at most one
\* other zone has one: two lines that show another zone's do not come one after the
\* other (zonefaults).
THEOREM FaultsAreKept == Spec => NoFalseClear
<1>1. IInv /\ [Next]_vars => [which = "ad2usb" => Ad2usb!KeepsFaults]_vars
  <2> SUFFICES ASSUME IInv, Next, which = "ad2usb" PROVE Ad2usb!KeepsFaults OBVIOUS
  <2> QED BY AdStepI, Ad2usbConstants DEF IInv, Next
<1> QED BY <1>1, Invariant, PTL DEF Spec, NoFalseClear
=============================================================================
