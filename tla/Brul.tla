-------------------------------- MODULE Brul --------------------------------
(***************************************************************************)
(* brulcoll: the collector of Brultech energy monitors.  A GEM is set up   *)
(* over its connection, one command after the other, before it sends       *)
(* packets of counters, from which the collector computes the power.  The  *)
(* set-up is driven by the answers, and also by every loss of the          *)
(* connection; a serial network module (Wiznet) that keeps a GEM from      *)
(* being reached can be reset.                                             *)
(***************************************************************************)
EXTENDS Link, Sequences

CONSTANTS
  MAX_THREE,    \* the counter of seconds wraps here
  MAX_WSEC,     \* the counters of watt seconds wrap here
  MAXGEMRETRY,  \* attempts before the Wiznet is reset
  MaxPackets,   \* bound: packets of counters
  MaxLost       \* bound: losses of either connection

VARIABLES
  model,      \* "gem" or "ecm1240"
  pkttype,    \* the packets asked for: "48NETTIME" (and as this, "32NET"), or "48NET"
  dumpconf,   \* given -m: write a configuration and exit
  mode,       \* BRUL_MODE_*
  gemlink,    \* connection to the GEM: "connecting", "up", or "closed"
  cmd,        \* the command on its way to the GEM
  reply,      \* the line on its way back
  realtime,   \* the GEM is sending packets
  brulconf,   \* what the collector takes for the GEM's serial number, channels,
              \* temperature and pulse probes
  alldevs,    \* the devices in the table
  cur, prev,  \* bruldata: seconds and watt seconds
  counters,   \* the GEM's own counters
  drawn,      \* history: seconds and watt seconds since the packet in cur, from there
              \* ("packet") or from the start or a restart of the GEM
  power,      \* history: those between prev and cur
  gemconnattempts,  \* attempts so far, less those forgiven after a reset
  wiznetfound,      \* the Wiznet has answered
  skipped,    \* history: the set-up went on without an answer
  stuck,      \* the input begins with what looks like a header and is never drained
  packets,    \* packets so far
  losses      \* losses so far

brulVars == <<model, pkttype, dumpconf, mode, gemlink, cmd, reply, realtime, brulconf, alldevs,
              cur, prev, counters, drawn, power, gemconnattempts, wiznetfound, skipped,
              stuck, packets, losses>>
vars == <<linkVars, brulVars>>

Zero == [seconds |-> 0, channel |-> 0]

-----------------------------------------------------------------------------
\* The set-up of a GEM: the command sent in each mode, its answer, and the mode
\* that waits for it.
Setup ==
  [NONE     |-> [cmd |-> "SYSOFF", then |-> "RTOFF"],
   RTOFF    |-> [cmd |-> "SYSPKT", then |-> "PKT"],
   PKT      |-> [cmd |-> "SYSIVL", then |-> "IVL"],
   IVL      |-> [cmd |-> "RQSSRN", then |-> "SRN"],
   SRN      |-> [cmd |-> "TMPDG",  then |-> "TEMPTYPE"],
   TEMPTYPE |-> [cmd |-> "RQSTST", then |-> "TST"],
   TST      |-> [cmd |-> "RQSPST", then |-> "PST"],
   PST      |-> [cmd |-> "RQSCMX", then |-> "CMX"],
   CMX      |-> [cmd |-> "SYS_ON", then |-> "RTON"]]
Answer ==
  [SYSOFF |-> "OFF", SYSPKT |-> "PKT", SYSIVL |-> "IVL", RQSSRN |-> "serial", TMPDG |-> "F",
   RQSTST |-> "temps", RQSPST |-> "pulses", RQSCMX |-> "channels", SYS_ON |-> "_ON"]
Commands == DOMAIN Answer
\* "junk": bytes of packets up to one that ends a line, an answer at its end or not.
Lines == {Answer[c] : c \in Commands} \cup {"junk"}
Modes == DOMAIN Setup \cup {"RTON", "DATA", "WAITREADY"}

\* brul_setup_gem: in other modes it only flushes the input.
brul_setup_gem ==
  /\ reply' = "none"
  /\ IF mode \in DOMAIN Setup
       THEN cmd' = Setup[mode].cmd /\ mode' = Setup[mode].then
       ELSE UNCHANGED <<cmd, mode>>

\* The devices: a GEM has probes 3 and 8 for temperatures and 1 and 4 for pulses.
\* c is the wattsec and w the watt device of its one channel.
brul_build_devices == {"c", "w", "volt", "sec"}
brul_handle_tstpst(line) == IF line = "temps" THEN {"t3", "t8"}
                            ELSE IF line = "pulses" THEN {"p1", "p4"} ELSE {}
AllDevs == brul_build_devices \cup {"t3", "t8", "p1", "p4"}

\* main: the commands of the set-up wait for the connection.  No device is in
\* the configuration that is dumped, all are named in any other.
Init ==
  /\ LinkInit
  /\ model \in {"gem", "ecm1240"}
  /\ pkttype \in {"48NETTIME", "48NET"}
  /\ dumpconf \in BOOLEAN
  /\ mode = IF model = "gem" THEN Setup["NONE"].then ELSE "WAITREADY"
  /\ gemlink = "connecting"
  /\ cmd = IF model = "gem" THEN Setup["NONE"].cmd ELSE "none"
  /\ reply = "none"
  /\ realtime = TRUE
  /\ brulconf = [f \in {"serial", "temps", "pulses", "channels"} |-> "unset"]
  /\ alldevs = IF dumpconf THEN {} ELSE AllDevs
  /\ reg = alldevs
  /\ cur = Zero /\ prev = Zero
  /\ counters \in {[seconds |-> 1, channel |-> 0],
                   [seconds |-> MAX_THREE - 1, channel |-> MAX_WSEC - 1]}
  /\ drawn = [seconds |-> 0, channel |-> 0, from |-> "start"]
  /\ power = drawn
  /\ gemconnattempts = 1
  /\ wiznetfound = FALSE
  /\ skipped = FALSE
  /\ stuck = FALSE
  /\ packets = 0
  /\ losses = 0

data == <<cur, prev, counters, drawn, power>>
constant == <<model, pkttype, dumpconf>>

-----------------------------------------------------------------------------
\* The GEM carries out a command and answers it.  While it sends packets, the
\* answer may come at the end of one.
GemAnswers ==
  /\ Running /\ gemlink = "up"
  /\ cmd # "none" /\ reply = "none"
  /\ cmd' = "none"
  /\ \/ reply' = Answer[cmd]
     \/ realtime /\ reply' = "junk"
  /\ realtime' = CASE cmd = "SYSOFF" -> FALSE [] cmd = "SYS_ON" -> TRUE [] OTHER -> realtime
  /\ UNCHANGED <<linkVars, constant, mode, gemlink, brulconf, alldevs, data, gemconnattempts,
                 wiznetfound, skipped, stuck, packets, losses>>

\* A packet that comes during the set-up is so much junk, read line by line.
GemJunk ==
  /\ Running /\ gemlink = "up" /\ model = "gem"
  /\ realtime /\ mode # "DATA" /\ reply = "none"
  /\ reply' = "junk"
  /\ UNCHANGED <<linkVars, constant, mode, gemlink, cmd, realtime, brulconf, alldevs, data,
                 gemconnattempts, wiznetfound, skipped, stuck, packets, losses>>

\* A wrong Expected: whatever comes ends the wait for OFF.
ExpectAnything(line) ==
  CASE mode = "PKT"      -> line = "PKT"
    [] mode = "IVL"      -> line = "IVL"
    [] mode = "TEMPTYPE" -> line = "F"
    [] mode \in {"RTOFF", "SRN", "TST", "PST", "CMX"} -> TRUE
    [] OTHER -> FALSE
\* The line lets the set-up go on.
Expected(line) ==
  CASE mode = "RTOFF"    -> line = "OFF"
    [] mode = "PKT"      -> line = "PKT"
    [] mode = "IVL"      -> line = "IVL"
    [] mode = "TEMPTYPE" -> line = "F"
    [] mode \in {"SRN", "TST", "PST", "CMX"} -> TRUE
    [] OTHER -> FALSE

\* The devices' names are under the GEM's serial number; with another, they are
\* new devices without names, of which gnhastd is told nothing.
Ours(D) == IF brulconf.serial = "right" THEN D ELSE {}

\* What the line tells of the GEM in this mode.
Asked == [SRN |-> "serial", TST |-> "temps", PST |-> "pulses", CMX |-> "channels"]

\* brul_buf_read_cb, before there is data.  Junk has no probes and no channels
\* that are not zero.
brul_buf_read_cb ==
  /\ Running /\ gemlink = "up"
  /\ reply # "none" /\ mode # "DATA"
  /\ IF Expected(reply) /\ ~(mode = "CMX" /\ dumpconf)
       THEN brul_setup_gem
       ELSE /\ reply' = "none"
            /\ mode' = IF mode = "RTON" /\ reply = "_ON" THEN "DATA" ELSE mode
            /\ UNCHANGED cmd
  /\ brulconf' = IF mode \in DOMAIN Asked
                   THEN [brulconf EXCEPT ![Asked[mode]] =
                           IF reply = Asked[mode] THEN "right" ELSE "wrong"]
                   ELSE brulconf
  /\ LET new == CASE mode \in {"TST", "PST"} -> brul_handle_tstpst(reply)
                  [] mode = "CMX" /\ reply = "channels" -> brul_build_devices
                  [] mode = "CMX" /\ reply # "channels" -> {"volt", "sec"}
                  [] OTHER -> {}
     IN /\ alldevs' = alldevs \cup new
        /\ IF mode = "CMX" /\ dumpconf
             THEN link' = "exited" /\ UNCHANGED <<need_rereg, shutdown, reg, told>>
             ELSE Say(IF dumpconf THEN {} ELSE Ours(new), NothingTold)
  /\ UNCHANGED <<constant, gemlink, realtime, data, gemconnattempts, wiznetfound, skipped,
                 stuck, packets, losses>>

\* WAITREADY comes after DATA in the numbering of the modes: the answer of an
\* ECM1240 to brul_setup_ecm is drained as bad data, and it is never asked for
\* more.  What it sends nevertheless, brul_handle_ecm1240 keeps to itself.
EcmPacket ==
  /\ Running /\ gemlink = "up" /\ model = "ecm1240" /\ mode = "WAITREADY"
  /\ packets < MaxPackets
  /\ packets' = packets + 1
  /\ prev' = cur
  /\ cur' = counters
  /\ UNCHANGED <<linkVars, constant, mode, gemlink, cmd, reply, realtime, brulconf, alldevs, counters,
                 drawn, power, gemconnattempts, wiznetfound, skipped, stuck, losses>>

-----------------------------------------------------------------------------
\* A wrong Since: a counter that went down has restarted from zero.
SinceRestarts(old, new, max) == IF old > new THEN new ELSE new - old
\* The difference of two values of a counter that wraps at max.
Since(old, new, max) == IF old > new THEN max - old + new ELSE new - old

\* calc_devices: what is told of c, the counters now, and p, those before.  The
\* rest is copied as the seconds are; bit 8 of validtemp and bit 4 of validpulse
\* are not looked at.
calc_devices(c, p) ==
  LET known(f, D) == IF brulconf[f] = "right" THEN D ELSE {}
      copied == {"volt", "sec"} \cup known("temps", {"t3"}) \cup known("pulses", {"p1"})
      counts == known("channels", {"c"})
      watts == IF p.seconds = 0 THEN {} ELSE known("channels", {"w"})
  IN [d \in Ours(copied \cup counts \cup watts) \cap alldevs |->
        CASE d = "c" -> <<c.channel>>
          [] d = "w" -> <<Since(p.channel, c.channel, MAX_WSEC), Since(p.seconds, c.seconds, MAX_THREE)>>
          [] OTHER -> <<c.seconds>>]

\* The GEM has counted s seconds and w watt seconds more, and sends a packet.
Counted(s, w) ==
  /\ Running /\ gemlink = "up" /\ model = "gem" /\ realtime
  /\ mode = "DATA" /\ ~stuck
  /\ packets < MaxPackets
  /\ packets' = packets + 1
  /\ drawn.seconds + s < MAX_THREE /\ drawn.channel + w < MAX_WSEC
  /\ counters' = [seconds |-> (counters.seconds + s) % MAX_THREE,
                  channel |-> (counters.channel + w) % MAX_WSEC]
  /\ UNCHANGED <<constant, mode, gemlink, cmd, reply, realtime, brulconf, alldevs, gemconnattempts,
                 wiznetfound, skipped, losses>>
More(s, w) == [drawn EXCEPT !.seconds = @ + s, !.channel = @ + w]

\* brul_handle_type7 or brul_handle_type5: the whole packet was there.  (The
\* layout of type 5 has a date, which the packets 48NET have not.)
GoodPacket(s, w) ==
  /\ Counted(s, w)
  /\ pkttype # "48NET"
  /\ prev' = cur
  /\ cur' = counters'
  /\ power' = More(s, w)
  /\ drawn' = [seconds |-> 0, channel |-> 0, from |-> "packet"]
  /\ Say({}, calc_devices(cur', prev'))
  /\ UNCHANGED stuck
\* The footer is not where it should be: nothing is stored, but all is told again
\* (zeros, if there was no packet before).  The rest of the packet is drained,
\* unless there is half a header in it, with a type that nothing handles.
BadPacket(s, w) ==
  /\ Counted(s, w)
  /\ drawn' = More(s, w)
  /\ Say({}, calc_devices(cur, prev))
  /\ stuck' \in BOOLEAN
  /\ UNCHANGED <<cur, prev, power>>
\* The GEM loses its power: its counters start from zero.
GemRestart ==
  /\ losses < MaxLost
  /\ losses' = losses + 1
  /\ counters' = Zero
  /\ drawn' = [seconds |-> 0, channel |-> 0, from |-> "restart"]
  /\ UNCHANGED <<linkVars, constant, mode, gemlink, cmd, reply, realtime, brulconf, alldevs, cur, prev,
                 power, gemconnattempts, wiznetfound, skipped, stuck, packets>>

-----------------------------------------------------------------------------
\* connect_server_cb: the attempts forgiven after a reset of the Wiznet.
Forgiven == 5
\* brul_netconnect_event_cb.  The number of attempts is never set back: its event
\* callback is not the one that would.
GemUp ==
  /\ Running /\ gemlink = "connecting"
  /\ gemlink' = "up"
  /\ UNCHANGED <<linkVars, constant, mode, cmd, reply, realtime, brulconf, alldevs, data,
                 gemconnattempts, wiznetfound, skipped, stuck, packets, losses>>
\* At a loss, or a failed attempt, the next one is made at once and the set-up
\* goes on with the next command.
GemLost ==
  /\ Running /\ gemlink \in {"connecting", "up"}
  /\ losses < MaxLost
  /\ losses' = losses + 1
  /\ gemlink' = "connecting"
  /\ brul_setup_gem
  /\ skipped' = (skipped \/ mode \in DOMAIN Setup)
  /\ stuck' = FALSE
  /\ gemconnattempts' =
       IF model = "gem" /\ gemconnattempts + 1 > MAXGEMRETRY /\ wiznetfound
         THEN gemconnattempts + 1 - Forgiven ELSE gemconnattempts + 1
  /\ UNCHANGED <<linkVars, constant, realtime, brulconf, alldevs, data, wiznetfound, packets>>

\* The Wiznet's answer to the FIND that is sent once.
cb_wiznet_read ==
  /\ Running /\ model = "gem" /\ ~wiznetfound
  /\ wiznetfound' = TRUE
  /\ UNCHANGED <<linkVars, constant, mode, gemlink, cmd, reply, realtime, brulconf, alldevs, data,
                 gemconnattempts, skipped, stuck, packets, losses>>

connect_event_cb ==
  \/ LinkUp /\ UNCHANGED brulVars
  \/ /\ losses < MaxLost
     /\ losses' = losses + 1
     /\ LinkLost
     /\ UNCHANGED <<constant, mode, gemlink, cmd, reply, realtime, brulconf, alldevs, data,
                    gemconnattempts, wiznetfound, skipped, stuck, packets>>
connect_server_cb ==
  /\ LinkRetry(IF dumpconf THEN {} ELSE alldevs)
  /\ UNCHANGED brulVars
\* The connection to the GEM is freed at once.
cb_sigterm ==
  /\ LinkSigterm
  /\ gemlink' = "closed"
  /\ UNCHANGED <<constant, mode, cmd, reply, realtime, brulconf, alldevs, data, gemconnattempts,
                 wiznetfound, skipped, stuck, packets, losses>>
cb_shutdown == LinkShutdown /\ UNCHANGED brulVars

Packet ==
  \E s \in 1 .. 2, w \in 0 .. MAX_WSEC - 2 : GoodPacket(s, w) \/ BadPacket(s, w)

Next ==
  \/ GemAnswers \/ GemJunk \/ brul_buf_read_cb \/ EcmPacket \/ Packet \/ GemRestart
  \/ GemUp \/ GemLost \/ cb_wiznet_read
  \/ connect_event_cb \/ connect_server_cb \/ cb_sigterm \/ cb_shutdown

Spec == Init /\ [][Next]_vars

-----------------------------------------------------------------------------
\* Type invariant of brulcoll's state.
TypeOK ==
  /\ LinkTypeOK(AllDevs, Seq(Int))
  /\ mode \in Modes
  /\ gemlink \in {"connecting", "up", "closed"}
  /\ cmd \in Commands \cup {"none"}
  /\ reply \in Lines \cup {"none"}
  /\ DOMAIN brulconf = {"serial", "temps", "pulses", "channels"}
  /\ Range(brulconf) \subseteq {"unset", "right", "wrong"}
  /\ alldevs \subseteq AllDevs
  /\ cur.seconds \in 0 .. MAX_THREE - 1 /\ cur.channel \in 0 .. MAX_WSEC - 1
  /\ gemconnattempts \in 1 - Forgiven .. MaxLost + 1

\* The power told is the energy drawn over the time between the last two packets,
\* though counters wrap, packets are lost and so are connections; not if the GEM
\* has restarted in between, nor when its seconds were zero.
Truthful ==
  "w" \in DOMAIN told /\ power.from = "packet" /\ prev.seconds # 0
    => told["w"] = <<power.channel, power.seconds>>

\* A GEM that sends data to a collector that was set up without an interruption is
\* known: its serial number, channels and probes.
Configured ==
  mode = "DATA" /\ ~skipped => \A f \in DOMAIN brulconf : brulconf[f] = "right"

\* gnhastd is told no value of a device that it does not know.
Introduced == dumpconf \/ RegisteredFirst
=============================================================================
