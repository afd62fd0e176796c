----------------------------- MODULE Connection -----------------------------
(***************************************************************************)
(* The connection of one collector to gnhastd, over losses, failed         *)
(* attempts, restarts of gnhastd and the collector's shutdown.  What the   *)
(* collector writes waits in its bufferevent until the connection stands;  *)
(* it is lost with the bufferevent.  Two kinds of collectors differ in     *)
(* what they send on a new connection: those with a connect_server_cb of   *)
(* their own register their devices again, those of common/genconn.c only  *)
(* give their name.                                                        *)
(***************************************************************************)
EXTENDS Integers, Sequences, SequencesExt

CONSTANTS
  Devices,      \* the devices that the collector may find
  Reregisters,  \* TRUE for a connect_server_cb of the collector's own
  MaxOut,       \* bound: lines that wait in the bufferevent
  MaxCuts       \* bound: sessions cut and ends of gnhastd

\* What else is written.
Others == {"client", "imalive", "disconnect"}
\* Lines of the protocol: a device stands for its registration.
Lines == Devices \cup Others

ASSUME ConnectionAssumption ==
  /\ Devices \cap Others = {}
  /\ Reregisters \in BOOLEAN
  /\ MaxOut \in Nat
  /\ MaxCuts \in Nat

VARIABLES
  up,          \* gnhastd is running
  session,     \* gnhastd's side of the connection: "none", "open" or "closing"
  owned,       \* devices whose collector is this session
  named,       \* the session has a tracking device
  bev,         \* "connecting", "connected", "freed"; "exited" or "crashed" with
               \* the process
  out,         \* the lines in the bufferevent, or under way
  need_rereg,  \* there was an attempt before
  shutdown,    \* connection_t.shutdown
  health,      \* a self-health timer is running
  found,       \* alldevs of the collector
  cuts         \* cuts so far

server == <<up, session, owned, named>>
vars == <<server, bev, out, need_rereg, shutdown, health, found, cuts>>

-----------------------------------------------------------------------------
\* main: the first attempt is under way and the name waits to be sent.
Init ==
  /\ up \in BOOLEAN
  /\ session = "none"
  /\ owned = {}
  /\ named = FALSE
  /\ bev = "connecting"
  /\ out = <<"client">>
  /\ need_rereg = FALSE
  /\ shutdown = FALSE
  /\ health = FALSE
  /\ found = {}
  /\ cuts = 0

Alive == bev \notin {"exited", "crashed"}

\* BEV_EVENT_CONNECTED, and accept_cb at the other end.
Connected ==
  /\ bev = "connecting" /\ up /\ session = "none"
  /\ bev' = "connected"
  /\ health' = TRUE
  /\ session' = "open"
  /\ UNCHANGED <<up, owned, named, out, need_rereg, shutdown, found, cuts>>

\* A wrong Lost: an attempt that failed is not a lost connection.
LostNoRereg ==
  /\ \/ bev = "connecting"
     \/ bev = "connected" /\ session = "none"
  /\ bev' = IF shutdown THEN "exited" ELSE "freed"
  /\ need_rereg' = (need_rereg \/ (bev = "connected" /\ ~shutdown))
  /\ out' = <<>>
  /\ UNCHANGED <<server, shutdown, health, found, cuts>>

\* BEV_EVENT_ERROR or EOF: the attempt failed, or the connection ended.
Lost ==
  /\ \/ bev = "connecting"
     \/ bev = "connected" /\ session = "none"
  /\ bev' = IF shutdown THEN "exited" ELSE "freed"
  /\ need_rereg' = (need_rereg \/ ~shutdown)
  /\ out' = <<>>
  /\ UNCHANGED <<server, shutdown, health, found, cuts>>

\* A wrong Retry: the name is given, the devices are not.
RetryNameOnly ==
  /\ bev = "freed"
  /\ bev' = "connecting"
  /\ out' = IF need_rereg THEN <<"client">> ELSE <<>>
  /\ need_rereg' = (need_rereg /\ ~Reregisters)
  /\ UNCHANGED <<server, shutdown, health, found, cuts>>

\* A wrong Retry: only a connection that once stood has a reconnection timer.
RetryAfterConnected ==
  /\ bev = "freed" /\ health
  /\ bev' = "connecting"
  /\ out' = IF need_rereg
              THEN (IF Reregisters THEN SetToSeq(found) ELSE <<>>) \o <<"client">>
              ELSE <<>>
  /\ need_rereg' = (need_rereg /\ ~Reregisters)
  /\ UNCHANGED <<server, shutdown, health, found, cuts>>

\* The reconnection timer: connect_server_cb or generic_connect_server_cb.
Retry ==
  /\ bev = "freed"
  /\ bev' = "connecting"
  /\ out' = IF need_rereg
              THEN (IF Reregisters THEN SetToSeq(found) ELSE <<>>) \o <<"client">>
              ELSE <<>>
  /\ need_rereg' = (need_rereg /\ ~Reregisters)
  /\ UNCHANGED <<server, shutdown, health, found, cuts>>

\* The collector writes a line.  The pointer to a freed bufferevent stays in
\* use: what is written there is lost, or the process crashes.
Write(line) ==
  \/ /\ Alive /\ bev # "freed"
     /\ Len(out) < MaxOut
     /\ out' = Append(out, line)
     /\ UNCHANGED bev
  \/ /\ bev = "freed"
     /\ bev' \in {"freed", "crashed"}
     /\ UNCHANGED out

\* The collector finds a device and registers it.
Discover(d) ==
  /\ d \notin found
  /\ found' = found \cup {d}
  /\ Write(d)
  /\ UNCHANGED <<server, need_rereg, shutdown, health, cuts>>

\* generic_collector_health_cb of a collector that is well.
Health ==
  /\ health
  /\ Write("imalive")
  /\ UNCHANGED <<server, need_rereg, shutdown, health, found, cuts>>

\* cb_sigterm, and generic_cb_sigterm, which asks whether it is connected.
Sigterm ==
  /\ Alive /\ ~shutdown
  /\ shutdown' = TRUE
  /\ IF Reregisters \/ bev = "connected"
       THEN Write("disconnect")
       ELSE UNCHANGED <<bev, out>>
  /\ UNCHANGED <<server, need_rereg, health, found, cuts>>

\* generic_cb_shutdown, 30 seconds after the signal.
ShutdownTimer ==
  /\ Alive /\ shutdown
  /\ bev' = "exited"
  /\ out' = <<>>
  /\ UNCHANGED <<server, need_rereg, shutdown, health, found, cuts>>

\* gnhastd reads the next line: cmd_register, cmd_client, cmd_imalive or
\* cmd_disconnect.
Read ==
  /\ bev = "connected" /\ session = "open" /\ out # <<>>
  /\ out' = Tail(out)
  /\ owned' = owned \cup ({Head(out)} \cap Devices)
  /\ named' = (named \/ Head(out) = "client")
  /\ session' = IF Head(out) = "disconnect" THEN "closing" ELSE session
  /\ UNCHANGED <<up, bev, need_rereg, shutdown, health, found, cuts>>

\* A wrong End: the tracking device stays with the session.
EndKeepsName ==
  /\ session' = "none"
  /\ owned' = {}
  /\ UNCHANGED <<named, bev, out, need_rereg, shutdown, health, found>>

\* The session ends at gnhastd's side: buf_error_cb.
End ==
  /\ session' = "none"
  /\ owned' = {}
  /\ named' = FALSE
  /\ UNCHANGED <<bev, out, need_rereg, shutdown, health, found>>

\* The network cuts the connection.  (That gnhastd takes the collector's next
\* connection before it sees the end of the last is the overlap of Registry.)
Cut ==
  /\ session = "open"
  /\ cuts < MaxCuts
  /\ cuts' = cuts + 1
  /\ End
  /\ UNCHANGED up

\* gnhastd has sent all there was after a disconnect (buf_write_cb), or sees
\* that the collector's end is gone.
EndSession ==
  /\ session # "none"
  /\ session = "closing" \/ bev # "connected"
  /\ End
  /\ UNCHANGED <<up, cuts>>

\* gnhastd ends, or crashes, and starts again.
Stop ==
  /\ up
  /\ cuts < MaxCuts
  /\ cuts' = cuts + 1
  /\ up' = FALSE
  /\ End
Start ==
  /\ ~up
  /\ up' = TRUE
  /\ UNCHANGED <<session, owned, named, bev, out, need_rereg, shutdown, health, found, cuts>>

Next ==
  \/ Connected \/ Lost \/ Retry
  \/ \E d \in Devices : Discover(d)
  \/ Health \/ Sigterm \/ ShutdownTimer
  \/ Read \/ Cut \/ EndSession \/ Stop \/ Start

Spec == Init /\ [][Next]_vars

\* Both event loops serve what is ready and timers fire; an attempt does not
\* fail for ever while gnhastd is there to be reached.
LiveSpec ==
  /\ Spec
  /\ WF_vars(Lost) /\ WF_vars(Retry) /\ SF_vars(Connected)
  /\ WF_vars(Read) /\ WF_vars(EndSession) /\ WF_vars(ShutdownTimer)

-----------------------------------------------------------------------------
\* Type invariant of the connection's two ends: a session of gnhastd's is not
\* there without gnhastd, nor before the collector has connected.
TypeOK ==
  /\ up \in BOOLEAN
  /\ session \in (IF up THEN {"none", "open", "closing"} ELSE {"none"})
  /\ owned \subseteq (IF session = "none" THEN {} ELSE found)
  /\ named \in (IF session = "none" THEN {FALSE} ELSE BOOLEAN)
  /\ bev \in {"connecting", "connected", "freed", "exited", "crashed"}
  /\ out \in Seq(Lines)
  /\ need_rereg \in BOOLEAN
  /\ shutdown \in BOOLEAN
  /\ health \in BOOLEAN
  /\ found \subseteq Devices
  /\ cuts \in 0 .. MaxCuts

\* Everything that the collector wrote on this connection has been read.
Quiet == bev = "connected" /\ session = "open" /\ out = <<>>

\* gnhastd can find the collector of each of its devices: once the collector is
\* connected and has nothing more to say, gnhastd knows it as the collector of
\* every device it found, whatever was lost before.
InStep == Quiet => owned = found

\* A collector that is connected and has nothing more to say has a tracking
\* device, so that its health is watched over, whatever was lost before.
Tracked == Quiet => named

\* A collector that lives on is connected in the end, if gnhastd stays up and
\* the cuts end: no loss at any point of an attempt leaves it without a further
\* attempt.
ComesBack ==
  <>[](up /\ Alive) => <>[](bev = "connected" /\ session = "open")
=============================================================================
