----------------------------- MODULE Collectors -----------------------------
(***************************************************************************)
(* The collectors of which safety is checked, in one specification: each   *)
(* is a process of its own that talks to gnhastd and to its device only,   *)
(* so the whole behaves as one of them, chosen at the start (which), and   *)
(* its variables stand for those of that one.                              *)
(***************************************************************************)
EXTENDS Integers

CONSTANTS
  MaxLost,                                         \* bound: connections lost, of each
  MaxReadings, TooOld,                             \* of Wmr918
  MAX_THREE, MAX_WSEC, MAXGEMRETRY, MaxPackets,    \* of Brul
  MAX_D30303_DEVS,                                 \* of Discovery
  DayLen, Half, Update, Suns,                      \* of Astro
  N, MaxRain                                       \* of Wupws

VARIABLES which, v1, v2, v3, v4, v5, v6, v7, v8, v9,
          v10, v11, v12, v13, v14, v15, v16, v17, v18,
          v19, v20, v21, v22, v23, v24, v25, v26

vars == <<which, v1, v2, v3, v4, v5, v6, v7, v8, v9,
          v10, v11, v12, v13, v14, v15, v16, v17, v18,
          v19, v20, v21, v22, v23, v24, v25, v26>>
rest21 == <<v21, v22, v23, v24, v25, v26>>
rest14 == <<v14, v15, v16, v17, v18, v19, v20, rest21>>
rest10 == <<v10, v11, v12, v13, rest14>>
rest8 == <<v8, v9, rest10>>

Idle21 == v21 = 0 /\ v22 = 0 /\ v23 = 0 /\ v24 = 0 /\ v25 = 0 /\ v26 = 0
Idle14 == v14 = 0 /\ v15 = 0 /\ v16 = 0 /\ v17 = 0 /\ v18 = 0 /\ v19 = 0 /\ v20 = 0 /\ Idle21
Idle10 == v10 = 0 /\ v11 = 0 /\ v12 = 0 /\ v13 = 0 /\ Idle14
Idle8 == v8 = 0 /\ v9 = 0 /\ Idle10

-----------------------------------------------------------------------------
Wmr918 == INSTANCE Wmr918 WITH
  MaxPackets <- MaxReadings, link <- v1, need_rereg <- v2, shutdown <- v3,
  reg <- v4, told <- v5, station <- v6, cfg <- v7,
  dumpconf <- v8, named <- v9, conf <- v10, alldevs <- v11, gotdata <- v12,
  input <- v13, hung <- v14, count <- v15, age <- v16, ended <- v17, said <- v18,
  packets <- v19, losses <- v20

Brul == INSTANCE Brul WITH
  link <- v1, need_rereg <- v2, shutdown <- v3, reg <- v4, told <- v5,
  model <- v6, pkttype <- v7, dumpconf <- v8, mode <- v9, gemlink <- v10,
  cmd <- v11, reply <- v12, realtime <- v13, brulconf <- v14, alldevs <- v15,
  cur <- v16, prev <- v17, counters <- v18, drawn <- v19, power <- v20,
  gemconnattempts <- v21, wiznetfound <- v22, skipped <- v23, stuck <- v24,
  packets <- v25, losses <- v26

Discovery == INSTANCE Discovery WITH
  hostname <- v1, mac_prefix <- v2, sent <- v3, replies <- v4, d30303_count <- v5,
  d30303_list <- v6, url <- v7

Astro == INSTANCE Astro WITH
  now <- v1, sun_at <- v2, sunmethod <- v3, sun <- v4, moon <- v5, due <- v6,
  get <- v7, asked <- v8, since <- v9

Wupws == INSTANCE Wupws WITH
  accumulate <- v1, plain <- v2, rain <- v3, past <- v4, connected <- v5, fed <- v6,
  uploaded <- v7, cur <- v8, data <- v9, vals <- v10, since <- v11, sent <- v12,
  lost <- v13

-----------------------------------------------------------------------------
Init ==
  \/ which = "wmr918" /\ Wmr918!Init /\ Idle21
  \/ which = "brul" /\ Brul!Init
  \/ which = "discovery" /\ Discovery!Init /\ Idle8
  \/ which = "astro" /\ Astro!Init /\ Idle10
  \/ which = "wupws" /\ Wupws!Init /\ Idle14

Next ==
  \/ which = "wmr918" /\ Wmr918!Next /\ UNCHANGED <<which, rest21>>
  \/ which = "brul" /\ Brul!Next /\ UNCHANGED which
  \/ which = "discovery" /\ Discovery!Next /\ UNCHANGED <<which, rest8>>
  \/ which = "astro" /\ Astro!Next /\ UNCHANGED <<which, rest10>>
  \/ which = "wupws" /\ Wupws!Next /\ UNCHANGED <<which, rest14>>

Spec == Init /\ [][Next]_vars

-----------------------------------------------------------------------------
\* The types of the collector's variables.
TypeOK ==
  CASE which = "wmr918"    -> Wmr918!TypeOK
    [] which = "brul"      -> Brul!TypeOK
    [] which = "discovery" -> Discovery!TypeOK
    [] which = "astro"     -> Astro!TypeOK
    [] which = "wupws"     -> Wupws!TypeOK

\* What a collector tells is what it last heard: the readings of the station in the
\* configured scale, the energy drawn between the packets, the mode of the day and
\* the averages of late; over lost packets, wrapped counters, lost connections and
\* timers set before.
Truthful ==
  CASE which = "wmr918" -> Wmr918!Truthful
    [] which = "brul"   -> Brul!Truthful
    [] which = "astro"  -> Astro!LatelyRight
    [] which = "wupws"  -> Wupws!OfLate
    [] OTHER -> TRUE

\* gnhastd is told no value of a device that was not registered on this connection.
Introduced ==
  CASE which = "wmr918" -> Wmr918!Introduced
    [] which = "brul"   -> Brul!Introduced
    [] OTHER -> TRUE

\* What a collector finds out about its device is right, and all that there is: the
\* dump of a station, the set-up of a GEM, the address of a device on the network.
Configured ==
  CASE which = "wmr918"    -> Wmr918!NeverFatal /\ Wmr918!DumpComplete
    [] which = "brul"      -> Brul!Configured
    [] which = "discovery" -> Discovery!Chosen
    [] OTHER -> TRUE
=============================================================================
