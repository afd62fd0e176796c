------------------------------ MODULE Devices ------------------------------
(***************************************************************************)
(* The collectors and tools of which liveness is checked as well as        *)
(* safety, in one specification, as in Collectors: the whole behaves as    *)
(* one of them, chosen at the start (which), and its variables stand for   *)
(* those of that one.                                                      *)
(***************************************************************************)
EXTENDS Integers

CONSTANTS
  MaxChanges, MaxLost, MaxWire,                    \* bounds: records, a field for each part that has it
  MaxAsked,                                        \* of Venstar
  IcZones, PerMinute, MaxTimer,                    \* of Icaddy
  Confs, OwsRescan, MaxConns,                      \* of Owsrv
  Zones, MaxLines, MaxOthers,                      \* of Ad2usb
  Fields,                                          \* of Alarmcoll
  RrdDevs,                                         \* of Rrd
  Switches, Others, MaxAlarms,                     \* of Jsoncgi
  Lamps, Members, MaxAsks, MaxPresses, MaxAir, Delay,  \* of InsteonQueue
  Targets, Hubs, MaxBuf,                           \* of InsteonHub
  Databases, Files, ALDB_MAXSIZE,                  \* of InsteonAldb
  Listed, Groups                                   \* of InsteonDiscover

VARIABLES which, v1, v2, v3, v4, v5, v6, v7, v8, v9, v10, v11, v12, v13, v14, v15, v16, v17, v18, v19, v20, v21, v22

vars == <<which, v1, v2, v3, v4, v5, v6, v7, v8, v9, v10, v11, v12, v13, v14, v15, v16, v17, v18, v19, v20, v21, v22>>
rest19 == <<v19, v20, v21, v22>>
rest18 == <<v18, rest19>>
rest17 == <<v17, rest18>>
rest16 == <<v16, rest17>>
rest14 == <<v14, v15, rest16>>
rest13 == <<v13, rest14>>
rest12 == <<v12, rest13>>
rest11 == <<v11, rest12>>
rest10 == <<v10, rest11>>

Idle19 == v19 = 0 /\ v20 = 0 /\ v21 = 0 /\ v22 = 0
Idle18 == v18 = 0 /\ Idle19
Idle17 == v17 = 0 /\ Idle18
Idle16 == v16 = 0 /\ Idle17
Idle14 == v14 = 0 /\ v15 = 0 /\ Idle16
Idle13 == v13 = 0 /\ Idle14
Idle12 == v12 = 0 /\ Idle13
Idle11 == v11 = 0 /\ Idle12
Idle10 == v10 = 0 /\ Idle11

-----------------------------------------------------------------------------
Venstar == INSTANCE Venstar WITH
  MaxChanges <- MaxChanges.venstar, MaxLost <- MaxLost.venstar, ttype <- v1, units <- v2,
  tempscale <- v3, at <- v4, venstar_url <- v5, query_running <- v6,
  feedurl <- v7, http_cn <- v8, feeds <- v9, asked <- v10, ven <- v11,
  data <- v12, told <- v13, posts <- v14, again <- v15, ended <- v16,
  changes <- v17, losses <- v18

Icaddy == INSTANCE Icaddy WITH
  Zones <- IcZones, MaxChanges <- MaxChanges.icaddy, MaxLost <- MaxLost.icaddy, configured <- v1,
  known <- v2, hasrain <- v3, settings <- v4, status <- v5, ic <- v6, data <- v7,
  told <- v8, notimerupdate <- v9, waiting <- v10, set <- v11, posts <- v12,
  program <- v13, changes <- v14, losses <- v15

Balboa == INSTANCE Balboa WITH
  MaxWire <- MaxWire.balboa, MaxChanges <- MaxChanges.balboa,
  MaxLost <- MaxLost.balboa, conn <- v1, wire <- v2, buf <- v3,
  stuck <- v4, out <- v5, spa <- v6, panel <- v7, cfgdone <- v8, spacfg <- v9,
  devices_ready <- v10, prev_stat <- v11, data <- v12, told <- v13, goal <- v14,
  changes <- v15, losses <- v16

Owsrv == INSTANCE Owsrv WITH
  Rescan <- OwsRescan, MaxChanges <- MaxChanges.owsrv, MaxLost <- MaxLost.owsrv,
  link <- v1, need_rereg <- v2, shutdown <- v3, reg <- v4, told <- v5,
  dumpconf <- v6, kind <- v7, conf <- v8, keeps <- v9, owc <- v10, bev <- v11,
  persistent <- v12, alldevs <- v13, current_dev <- v14, lastcmd <- v15,
  loopnr <- v16, timer_pending <- v17, dead <- v18, value <- v19, mixed <- v20,
  changes <- v21, losses <- v22

Ad2usb == INSTANCE Ad2usb WITH
  MaxChanges <- MaxChanges.ad2usb, seccode <- v1,
  faulted <- v2, armed <- v3, battery <- v4, prompt <- v5, shown <- v6,
  lines <- v7, keys <- v8, zonefaults <- v9, first_update <- v10, data <- v11,
  told <- v12, crowd <- v13, back <- v14, ended <- v15, changes <- v16,
  others <- v17

Alarmcoll == INSTANCE Alarmcoll WITH
  MaxWire <- MaxWire.alarmcoll, MaxChanges <- MaxChanges.alarmcoll,
  MaxLost <- MaxLost.alarmcoll,
  watched <- v1, fired <- v2, last <- v3, value <- v4, feeds <- v5, wire <- v6,
  out <- v7, alarms <- v8, deaf <- v9, changes <- v10, losses <- v11

Rrd == INSTANCE Rrd WITH
  Devs <- RrdDevs, MaxWire <- MaxWire.rrd, MaxChanges <- MaxChanges.rrd, MaxLost <- MaxLost.rrd, mode <- v1,
  gnhastd_conn <- v2, rrdc_conn <- v3, need_rereg <- v4, shutdown <- v5,
  feeds <- v6, listed <- v7, value <- v8, wire <- v9, stored <- v10,
  dumped <- v11, lost <- v12, health <- v13

Jsoncgi == INSTANCE Jsoncgi WITH
  MaxWire <- MaxWire.jsoncgi, MaxChanges <- MaxChanges.jsoncgi,
  MaxLost <- MaxLost.jsoncgi, conn <- v1, shutdown <- v2, health <- v3,
  spew <- v4, asked <- v5, wire <- v6, devs <- v7, value <- v8, feeds <- v9,
  watching <- v10, alarm <- v11, data <- v12, page <- v13, shown <- v14,
  changes <- v15, losses <- v16

InsteonQueue == INSTANCE InsteonQueue WITH
  Devices <- Lamps, Repeats <- FALSE, cmdfifo <- v1,
  need_query <- v2, air <- v3, lamp <- v4, known <- v5, asks <- v6,
  presses <- v7, wanted <- v8, deaf <- v9, exempt <- v10

InsteonHub == INSTANCE InsteonHub WITH
  MaxLost <- MaxLost.hub,
  hubtype <- v1, queue <- v2, hubhtmlstate <- v3, buf <- v4, reply <- v5,
  clears <- v6, workbuf <- v7, zeros <- v8, lost <- v9

InsteonAldb == INSTANCE InsteonAldb WITH
  MaxLost <- MaxLost.aldb, file <- v1,
  queue <- v2, plm_addr <- v3, mine <- v4, db <- v5, aldblen <- v6, done <- v7,
  air <- v8, lost <- v9

InsteonDiscover == INSTANCE InsteonDiscover WITH
  MaxLost <- MaxLost.discover, mode <- v1,
  queue <- v2, plm_addr <- v3, proto <- v4, devcat <- v5, plm <- v6,
  linkmode <- v7, links <- v8, asked <- v9, done <- v10, air <- v11, lost <- v12

\* What the parts assume of their constants.
ASSUME CaddyConstants == Icaddy!IcaddyAssumption
ASSUME InsteonConstants == InsteonQueue!InsteonAssumption
ASSUME OwsrvConstants == Owsrv!OwsrvAssumption
ASSUME Ad2usbConstants == Ad2usb!Ad2usbAssumption
ASSUME AldbConstants == InsteonAldb!AldbAssumption

-----------------------------------------------------------------------------
Init ==
  \/ which = "venstar" /\ Venstar!Init /\ Idle19
  \/ which = "icaddy" /\ Icaddy!Init /\ Idle16
  \/ which = "balboa" /\ Balboa!Init /\ Idle17
  \/ which = "owsrv" /\ Owsrv!Init
  \/ which = "ad2usb" /\ Ad2usb!Init /\ Idle18
  \/ which = "alarmcoll" /\ Alarmcoll!Init /\ Idle12
  \/ which = "rrd" /\ Rrd!Init /\ Idle14
  \/ which = "jsoncgi" /\ Jsoncgi!Init /\ Idle17
  \/ which = "insteon" /\ InsteonQueue!Init /\ Idle11
  \/ which = "hub" /\ InsteonHub!Init /\ Idle10
  \/ which = "aldb" /\ InsteonAldb!Init /\ Idle10
  \/ which = "discover" /\ InsteonDiscover!Init /\ Idle13

Next ==
  \/ which = "venstar" /\ Venstar!Next /\ UNCHANGED <<which, rest19>>
  \/ which = "icaddy" /\ Icaddy!Next /\ UNCHANGED <<which, rest16>>
  \/ which = "balboa" /\ Balboa!Next /\ UNCHANGED <<which, rest17>>
  \/ which = "owsrv" /\ Owsrv!Next /\ UNCHANGED which
  \/ which = "ad2usb" /\ Ad2usb!Next /\ UNCHANGED <<which, rest18>>
  \/ which = "alarmcoll" /\ Alarmcoll!Next /\ UNCHANGED <<which, rest12>>
  \/ which = "rrd" /\ Rrd!Next /\ UNCHANGED <<which, rest14>>
  \/ which = "jsoncgi" /\ Jsoncgi!Next /\ UNCHANGED <<which, rest17>>
  \/ which = "insteon" /\ InsteonQueue!Next /\ UNCHANGED <<which, rest11>>
  \/ which = "hub" /\ InsteonHub!Next /\ UNCHANGED <<which, rest10>>
  \/ which = "aldb" /\ InsteonAldb!Next /\ UNCHANGED <<which, rest10>>
  \/ which = "discover" /\ InsteonDiscover!Next /\ UNCHANGED <<which, rest13>>

\* The fairness of each: of its actions at most eight need weak fairness, two strong.
Weak(n) ==
  \/ which = "venstar" /\ Venstar!Weak(n) /\ UNCHANGED <<which, rest19>>
  \/ which = "icaddy" /\ Icaddy!Weak(n) /\ UNCHANGED <<which, rest16>>
  \/ which = "balboa" /\ Balboa!Weak(n) /\ UNCHANGED <<which, rest17>>
  \/ which = "owsrv" /\ Owsrv!Weak(n) /\ UNCHANGED which
  \/ which = "ad2usb" /\ Ad2usb!Weak(n) /\ UNCHANGED <<which, rest18>>
  \/ which = "alarmcoll" /\ Alarmcoll!Weak(n) /\ UNCHANGED <<which, rest12>>
  \/ which = "rrd" /\ Rrd!Weak(n) /\ UNCHANGED <<which, rest14>>
  \/ which = "jsoncgi" /\ Jsoncgi!Weak(n) /\ UNCHANGED <<which, rest17>>
  \/ which = "insteon" /\ InsteonQueue!Weak(n) /\ UNCHANGED <<which, rest11>>
  \/ which = "hub" /\ InsteonHub!Weak(n) /\ UNCHANGED <<which, rest10>>
  \/ which = "aldb" /\ InsteonAldb!Weak(n) /\ UNCHANGED <<which, rest10>>
  \/ which = "discover" /\ InsteonDiscover!Weak(n) /\ UNCHANGED <<which, rest13>>
Strong(n) ==
  \/ which = "alarmcoll" /\ Alarmcoll!Strong(n) /\ UNCHANGED <<which, rest12>>
  \/ which = "rrd" /\ Rrd!Strong(n) /\ UNCHANGED <<which, rest14>>
  \/ which = "jsoncgi" /\ Jsoncgi!Strong(n) /\ UNCHANGED <<which, rest17>>
Fairness == (\A n \in 1 .. 8 : WF_vars(Weak(n))) /\ \A n \in 1 .. 2 : SF_vars(Strong(n))

Spec == Init /\ [][Next]_vars /\ Fairness

-----------------------------------------------------------------------------
\* The types of the instance's variables.
TypeOK ==
  CASE which = "venstar" -> Venstar!TypeOK
    [] which = "icaddy" -> Icaddy!TypeOK
    [] which = "balboa" -> Balboa!TypeOK
    [] which = "owsrv" -> Owsrv!TypeOK
    [] which = "ad2usb" -> Ad2usb!TypeOK
    [] which = "alarmcoll" -> Alarmcoll!TypeOK
    [] which = "rrd" -> Rrd!TypeOK
    [] which = "jsoncgi" -> Jsoncgi!TypeOK
    [] which = "insteon" -> InsteonQueue!TypeOK
    [] which = "hub" -> InsteonHub!TypeOK
    [] which = "aldb" -> InsteonAldb!TypeOK
    [] which = "discover" -> InsteonDiscover!TypeOK

\* What is asked of a device is done to it as it was asked: the timers of the caddy's
\* zones, the spa's buttons, and the last command to a lamp.
Obeyed ==
  CASE which = "icaddy"   -> Icaddy!RunsAsSet
    [] which = "balboa"   -> Balboa!DoesAsAsked
    [] which = "insteon"  -> InsteonQueue!LastWins /\ InsteonQueue!SentAtMost
    [] OTHER -> TRUE

\* The search for Insteon devices asks each of them all that it is to be asked.
EachAsked == which = "discover" => InsteonDiscover!AllAsked

\* What is told, printed or stored is what the device said, of a device that was made
\* known before: no answer is taken for that of another device or command.
Truthful ==
  CASE which = "balboa"    -> Balboa!AsThePanelSays
    [] which = "owsrv"     -> Owsrv!Truthful /\ Owsrv!Introduced
    [] which = "alarmcoll" -> Alarmcoll!AlarmsAreFired
    [] which = "rrd"       -> Rrd!Introduced
    [] which = "insteon"   -> InsteonQueue!Truthful
    [] which = "aldb"      -> InsteonAldb!PrintsTheirs
    [] OTHER -> TRUE

\* A fault of a zone is not taken back before the zone is clear.
NoFalseClear == [][which = "ad2usb" => Ad2usb!KeepsFaults]_vars

\* In the end gnhastd, the spa, the thermostat, the databases, a web page and the tables of alarms
\* agree with the devices, over lost requests and connections.
Settled ==
  CASE which = "venstar"   -> Venstar!Settled
    [] which = "icaddy"    -> Icaddy!Settled
    [] which = "balboa"    -> Balboa!Settled
    [] which = "owsrv"     -> Owsrv!Settled
    [] which = "ad2usb"    -> Ad2usb!Settled
    [] which = "alarmcoll" -> Alarmcoll!Settled
    [] which = "rrd"       -> Rrd!Settled
    [] which = "jsoncgi"   -> Jsoncgi!Settled
    [] OTHER -> TRUE
Stopped ==
  CASE which = "venstar" -> Venstar!Stopped
    [] which = "rrd"     -> Rrd!Stopped
    [] which = "jsoncgi" -> Jsoncgi!Stopped
    [] OTHER -> FALSE

\* Every command to an Insteon device ends, answered or given up, and so do the tools.
Ended ==
  CASE which = "insteon"  -> ~InsteonQueue!Waiting
    [] which = "hub"      -> InsteonHub!Ended
    [] which = "aldb"     -> InsteonAldb!Ended
    [] which = "discover" -> InsteonDiscover!Ended
    [] OTHER -> TRUE
CommandsEnd == []<>Ended
=============================================================================
