------------------------------ MODULE Registry ------------------------------
(***************************************************************************)
(* The connection and device registry of gnhastd: who is connected, which  *)
(* devices exist, which connection each device is served by, who watches   *)
(* it, and whether the tracking device of a collector says OK or BAD.      *)
(*                                                                         *)
(* gnhastd is one event loop, so every callback (a command read from a     *)
(* socket, a timer, a socket error, a signal) is one atomic action.  What  *)
(* interleaves is the order in which the loop runs them.                   *)
(*                                                                         *)
(* A member of Clients is the memory of a client_t.  free() gives it back  *)
(* and a later accept may be handed the same memory, so a pointer that     *)
(* outlives its client ends up naming a stranger.                          *)
(***************************************************************************)
EXTENDS Naturals, FiniteSets

CONSTANTS
  Clients,    \* client_t memory: one per connection that is alive at a time
  Plain,      \* uids of the devices collectors register
  Trackers,   \* uids "<client name>-<host>" of the devices gnhastd makes itself
  NoClient,   \* the NULL of device_t.collector
  NoDev,      \* the NULL of client_t.coll_dev
  MaxDup,     \* bound: cfeed requests of one client
  Watchable,  \* bound: the devices that cfeed requests are for
  Contended   \* the devices that may be registered, or whose name may be taken,
              \* while another live connection holds them (a collector that
              \* reconnects before the old connection is noticed dead)

ASSUME RegistryAssumption ==
  /\ NoClient \notin Clients
  /\ NoDev \notin Trackers
  /\ Plain \cap Trackers = {}
  /\ MaxDup \in Nat

Devices == Plain \cup Trackers
Uncontended == Plain \ Contended

VARIABLES
  conn,       \* state of each client_t: "free", "open", "closing" (disconnect asked)
  silent,     \* clients unheard of for more than 3 * HEALTH_CHECK_RATE seconds
  provider,   \* client_t.provider
  devs,       \* client_t.devices: the devices linked on the client's list
  watched,    \* client_t.watched
  collDev,    \* client_t.coll_dev
  known,      \* alldevs and the rb tree: the devices that exist
  collector,  \* device_t.collector
  onq,        \* devices whose onq has DEVONQ_CLIENT
  watch,      \* wrap_client_t's on the watchers lists: <<device, client, n>>
  status      \* data of a tracking device: "none" (no data), "ok", "bad"

clientVars == <<conn, silent, provider, devs, watched, collDev>>
deviceVars == <<known, collector, onq, watch, status>>
vars == <<clientVars, deviceVars>>

-----------------------------------------------------------------------------
(* Helpers *)

Live == {c \in Clients : conn[c] # "free"}

\* The entries of client c on all the watchers lists.
EntriesOf(c) == {w \in watch : w[2] = c}

\* buf_read_cb stamps client->lastupd before it looks at the data.
Heard(c) == silent' = silent \ {c}

\* A wrong Mark: trusts cmd_disconnect to have marked a closing client bad.
MarkUnlessClosing(c, s) ==
  status' = [d \in Trackers |->
               IF collDev[c] = d /\ ~(s = "bad" /\ conn[c] = "closing")
                 THEN s ELSE status[d]]

\* store_data_dev on a client's tracking device, if it has one.
Mark(c, s) ==
  status' = [d \in Trackers |-> IF collDev[c] = d THEN s ELSE status[d]]

-----------------------------------------------------------------------------
Init ==
  /\ conn = [c \in Clients |-> "free"]
  /\ silent = {}
  /\ provider = [c \in Clients |-> FALSE]
  /\ devs = [c \in Clients |-> {}]
  /\ watched = [c \in Clients |-> 0]
  /\ collDev = [c \in Clients |-> NoDev]
  /\ known \in SUBSET Plain             \* the device conf file
  /\ collector = [d \in Devices |-> NoClient]
  /\ onq = {}
  /\ watch = {}
  /\ status = [d \in Trackers |-> "none"]

\* accept_cb, sslaccept_cb: a zeroed client_t goes on the clients list (Free
\* has zeroed what nothing reads between the free and the next allocation).
Accept(c) ==
  /\ conn[c] = "free"
  /\ conn' = [conn EXCEPT ![c] = "open"]
  /\ devs' = [devs EXCEPT ![c] = {}]
  /\ watched' = [watched EXCEPT ![c] = 0]
  /\ UNCHANGED <<silent, provider, collDev, deviceVars>>

\* cmd_client by a collector, whose name and host give the uid d.  A collector
\* sends it once, right after it connects.
Client(c, d) ==
  /\ c \in Live
  /\ collDev[c] = NoDev
  /\ d \in Contended \/ \A o \in Live : collDev[o] # d
  /\ Heard(c)
  /\ collDev' = [collDev EXCEPT ![c] = d]
  /\ known' = known \cup {d}
  /\ collector' = IF d \in known THEN collector
                                 ELSE [collector EXCEPT ![d] = c]
  /\ status' = [status EXCEPT ![d] = "ok"]
  /\ UNCHANGED <<conn, provider, devs, watched, onq, watch>>

\* A wrong Register: links the device without looking at its onq flag.
RegisterAlways(c, d) ==
  /\ c \in Live
  /\ d \in Contended \/ collector[d] \in {NoClient, c}
  /\ Heard(c)
  /\ known' = known \cup {d}
  /\ collector' = [collector EXCEPT ![d] = c]
  /\ provider' = [provider EXCEPT ![c] = TRUE]
  /\ devs' = [devs EXCEPT ![c] = @ \cup {d}]
  /\ onq' = onq \cup {d}
  /\ UNCHANGED <<conn, watched, collDev, watch, status>>

\* cmd_register with full specifications; d may be new or known.
Register(c, d) ==
  /\ c \in Live
  /\ d \in Contended \/ collector[d] \in {NoClient, c}
  /\ Heard(c)
  /\ known' = known \cup {d}
  /\ collector' = [collector EXCEPT ![d] = c]
  /\ provider' = [provider EXCEPT ![c] = @ \/ devs[c] = {}]
  /\ devs' = IF d \in onq THEN devs ELSE [devs EXCEPT ![c] = @ \cup {d}]
  /\ onq' = onq \cup {d}
  /\ UNCHANGED <<conn, watched, collDev, watch, status>>

\* A wrong Cfeed: a second request of the same client is not counted.
CfeedOnce(c, d) ==
  /\ c \in Live
  /\ d \in known \cap Watchable
  /\ Cardinality(EntriesOf(c)) < MaxDup
  /\ Heard(c)
  /\ \E n \in 1 .. MaxDup :
       /\ <<d, c, n>> \notin watch
       /\ \A m \in 1 .. n - 1 : <<d, c, m>> \in watch
       /\ watch' = watch \cup {<<d, c, n>>}
       /\ watched' = [watched EXCEPT ![c] = IF n = 1 THEN @ + 1 ELSE @]
  /\ UNCHANGED <<conn, provider, devs, collDev, known, collector, onq, status>>

\* cmd_cfeed: a wrap_client_t at the end of the device's watchers; asking again
\* adds another.
Cfeed(c, d) ==
  /\ c \in Live
  /\ d \in known \cap Watchable
  /\ Cardinality(EntriesOf(c)) < MaxDup
  /\ Heard(c)
  /\ \E n \in 1 .. MaxDup :
       /\ <<d, c, n>> \notin watch
       /\ \A m \in 1 .. n - 1 : <<d, c, m>> \in watch
       /\ watch' = watch \cup {<<d, c, n>>}
  /\ watched' = [watched EXCEPT ![c] = @ + 1]
  /\ UNCHANGED <<conn, provider, devs, collDev, known, collector, onq, status>>

\* cmd_imalive: the collector says its self-check is fine.
Imalive(c) ==
  /\ c \in Live
  /\ Heard(c)
  /\ Mark(c, "ok")
  /\ UNCHANGED <<conn, provider, devs, watched, collDev, known, collector, onq, watch>>

\* Any other line, a command that fails included: buf_read_cb stamps lastupd
\* and nothing else of this module changes.
Talk(c) ==
  /\ c \in Live
  /\ Heard(c)
  /\ UNCHANGED <<conn, provider, devs, watched, collDev, deviceVars>>

\* A wrong Disconnect: releases the client's devices before it is closed.
DisconnectReleases(c) ==
  /\ c \in Live
  /\ Heard(c)
  /\ conn' = [conn EXCEPT ![c] = "closing"]
  /\ Mark(c, "bad")
  /\ devs' = [devs EXCEPT ![c] = {}]
  /\ onq' = onq \ devs[c]
  /\ collector' = [d \in Devices |-> IF d \in devs[c] THEN NoClient ELSE collector[d]]
  /\ UNCHANGED <<provider, watched, collDev, known, watch>>

\* cmd_disconnect: close once the output is written.  Lines that follow it in
\* the input are still read.
Disconnect(c) ==
  /\ c \in Live
  /\ Heard(c)
  /\ conn' = [conn EXCEPT ![c] = "closing"]
  /\ Mark(c, "bad")
  /\ UNCHANGED <<provider, devs, watched, collDev, known, collector, onq, watch>>

-----------------------------------------------------------------------------
\* A wrong Unwatch: counts down for every device walked, watched or not.
UnwatchEvery(c) ==
  /\ watch' = watch \ EntriesOf(c)
  /\ watched' = [watched EXCEPT ![c] = @ - Cardinality(known)]
\* A wrong Unwatch: walks the client's own devices instead of all of them.
UnwatchOwn(c) ==
  LET mine == {w \in EntriesOf(c) : w[1] \in devs[c]}
  IN /\ watch' = watch \ mine
     /\ watched' = [watched EXCEPT ![c] = @ - Cardinality(mine)]

\* The walk of buf_error_cb over alldevs that takes c off the watchers lists.
Unwatch(c) ==
  LET unwatched == {w \in EntriesOf(c) : w[1] \in known}
  IN /\ watch' = watch \ unwatched
     /\ watched' = [watched EXCEPT ![c] = @ - Cardinality(unwatched)]

\* A wrong Unlink: takes the devices off the list and keeps their collector.
UnlinkOnly(c) ==
  /\ devs' = [devs EXCEPT ![c] = {}]
  /\ onq' = onq \ devs[c]
  /\ UNCHANGED collector
\* A wrong Unlink: clears the collector of every device on any client's list.
UnlinkEvery(c) ==
  /\ devs' = [devs EXCEPT ![c] = {}]
  /\ onq' = onq \ devs[c]
  /\ collector' = [d \in Devices |-> IF d \in onq THEN NoClient ELSE collector[d]]

\* The walk of buf_error_cb over client->devices, done for providers only.
Unlink(c) ==
  LET provided == IF provider[c] THEN devs[c] ELSE {}
  IN /\ collector' = [d \in Devices |-> IF d \in provided THEN NoClient
                                                          ELSE collector[d]]
     /\ devs' = [devs EXCEPT ![c] = @ \ provided]
     /\ onq' = onq \ provided

\* buf_error_cb: what freeing a client_t does to everything that names it.
Free(c) ==
  /\ conn' = [conn EXCEPT ![c] = "free"]
  /\ Mark(c, "bad")
  /\ Unwatch(c)
  /\ Unlink(c)
  /\ provider' = [provider EXCEPT ![c] = FALSE]
  /\ collDev' = [collDev EXCEPT ![c] = NoDev]
  /\ silent' = silent \ {c}
  /\ UNCHANGED known

\* The peer closed the connection, or the socket failed.
Error(c) == c \in Live /\ Free(c)

\* A wrong Drained: a provider is kept.
DrainedUnlessProvider(c) == conn[c] = "closing" /\ ~provider[c] /\ Free(c)

\* buf_write_cb, installed by cmd_disconnect: all output has been written.
Drained(c) == conn[c] = "closing" /\ Free(c)

\* More than 3 * HEALTH_CHECK_RATE seconds pass without a byte from c.
FallSilent(c) ==
  /\ c \in Live
  /\ silent' = silent \cup {c}
  /\ UNCHANGED <<conn, provider, devs, watched, collDev, deviceVars>>

\* A wrong HealthTimer: looks at providers only.
HealthTimerProviders ==
  /\ status' = [d \in Trackers |->
                  IF \E c \in Live \cap silent : provider[c] /\ collDev[c] = d
                    THEN "bad" ELSE status[d]]
  /\ UNCHANGED <<clientVars, known, collector, onq, watch>>

\* health_update_clients_cb, every 3 seconds, over all clients.
HealthTimer ==
  /\ status' = [d \in Trackers |->
                  IF \E c \in Live \cap silent : collDev[c] = d THEN "bad"
                                                                ELSE status[d]]
  /\ UNCHANGED <<clientVars, known, collector, onq, watch>>

\* cb_sigterm frees every client, main writes the device conf (which leaves the
\* tracking devices out) and exits; the next gnhastd reads it back.
Restart ==
  /\ conn' = [c \in Clients |-> "free"]
  /\ silent' = {}
  /\ provider' = [c \in Clients |-> FALSE]
  /\ devs' = [c \in Clients |-> {}]
  /\ watched' = [c \in Clients |-> 0]
  /\ collDev' = [c \in Clients |-> NoDev]
  /\ known' = known \cap Plain
  /\ collector' = [d \in Devices |-> NoClient]
  /\ onq' = {}
  /\ watch' = {}
  /\ status' = [d \in Trackers |-> "none"]

Command(c) ==
  \/ \E d \in Trackers : Client(c, d)
  \/ \E d \in Plain : Register(c, d)
  \/ \E d \in Devices : Cfeed(c, d)
  \/ Imalive(c) \/ Talk(c) \/ Disconnect(c)

Next ==
  \/ \E c \in Clients : Accept(c) \/ Command(c) \/ Error(c) \/ Drained(c) \/ FallSilent(c)
  \/ HealthTimer
  \/ Restart

Spec == Init /\ [][Next]_vars

-----------------------------------------------------------------------------
(* Type correctness *)

\* Type invariant of the registry's state.
TypeOK ==
  /\ conn \in [Clients -> {"free", "open", "closing"}]
  /\ silent \in SUBSET Clients
  /\ provider \in [Clients -> BOOLEAN]
  /\ devs \in [Clients -> SUBSET Plain]
  /\ watched \in [Clients -> Nat]
  /\ collDev \in [Clients -> Trackers \cup {NoDev}]
  /\ known \in SUBSET Devices
  /\ collector \in [Devices -> Clients \cup {NoClient}]
  /\ onq \in SUBSET Plain
  /\ watch \in SUBSET (Devices \X Clients \X (1 .. MaxDup))
  /\ status \in [Trackers -> {"none", "ok", "bad"}]

(* Safety *)

\* A device is linked on the devices list of exactly one client when its onq
\* says so and on none otherwise, and that client will take it off again when
\* it is freed (provider is set): TAILQ_INSERT_TAIL in cmd_register never links
\* a linked device, and no list keeps a device of a freed client.
OneList ==
  /\ \A c \in Clients, d \in Plain : d \in devs[c] =>
       /\ d \in onq /\ d \in known
       /\ c \in Live /\ provider[c]
       /\ \A o \in Clients : d \in devs[o] => o = c
  /\ \A d \in onq : \E c \in Clients : d \in devs[c]

\* Every wrap_client_t on a watchers list names a live client and sits on a
\* device the alldevs walk of buf_error_cb can reach, so cmd_update writes to
\* no freed bufferevent.
WatchersLive == \A w \in watch : w[2] \in Live /\ w[1] \in known

\* client->watched counts the entries of the client on all watchers lists: the
\* "Client is still being watched" error of buf_error_cb is never logged, and
\* the count starts at zero with every connection.
WatchCount == \A c \in Clients : watched[c] = Cardinality(EntriesOf(c))

\* A tracking device says OK only while a live connection carries it: whatever
\* way the last connection of a collector ends, disconnect, socket error or
\* shutdown, the device no longer says OK.
OkHasConnection ==
  \A d \in Trackers : status[d] = "ok" => \E c \in Live : collDev[c] = d

\* device_t.collector of a registered device is never the memory of a freed
\* client, when no connection takes the device over from one that holds it,
\* whatever becomes of the devices that are taken over.
ServedByLive ==
  \A d \in Uncontended : collector[d] # NoClient => collector[d] \in Live

(* Action properties *)

\* A device that no connection takes over loses its collector only by the end of
\* the connection that serves it: buf_error_cb of one client does not orphan the
\* devices of another.
OrphanedByOwner ==
  [][\A d \in Uncontended : collector[d] # NoClient /\ collector'[d] = NoClient
                              => conn'[collector[d]] = "free"]_vars

\* So does a device that a newcomer has taken over: the end of the connection that
\* it was taken from leaves it with the newcomer.
NewcomerKeeps ==
  [][\A d \in Plain \cap Contended : collector[d] # NoClient /\ collector'[d] = NoClient
                                      => conn'[collector[d]] = "free"]_vars

\* For the devices with one live connection at a time, the lists and pointers of
\* the registry are what Ownership promises.
O == INSTANCE Ownership WITH Plain <- Uncontended, live <- Live,
                             server <- [d \in Uncontended |-> collector[d]]
ImplementsOwnership == O!OwnSpec

-----------------------------------------------------------------------------
(* Liveness.  The event loop runs its persistent timers and delivers socket  *)
(* events, and a peer that reads lets the output drain.  Nothing is assumed   *)
(* of when collectors talk, except in the last property.                      *)

Fairness ==
  /\ WF_vars(HealthTimer)
  /\ \A c \in Clients : WF_vars(Drained(c))

LiveSpec == Spec /\ Fairness

\* CHANGELOG 0.4: a collector that sends nothing is flagged as bad.
SilentIsFlagged ==
  \A c \in Clients, d \in Trackers :
    (collDev[c] = d /\ c \in silent) ~> (status[d] # "ok" \/ c \notin silent)

\* A connection that asked to be closed is freed once its output is written.
DisconnectCloses == \A c \in Clients : (conn[c] = "closing") ~> (conn[c] = "free")
=============================================================================
