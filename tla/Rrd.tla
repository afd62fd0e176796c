-------------------------------- MODULE Rrd ---------------------------------
(***************************************************************************)
(* rrdcoll: asks gnhastd for a feed of every device of its configuration   *)
(* and writes what comes into the device's round-robin file, itself or     *)
(* through rrdcached.  Both connections are handled by the same callbacks. *)
(***************************************************************************)
EXTENDS Lists, Functions

CONSTANTS
  Devs,        \* the devices of the configuration
  MaxWire,     \* bound: lines on their way to rrdcached, and feeds of a device
  MaxChanges,  \* bound: changes of a device's value
  MaxLost      \* bound: connections lost

VARIABLES
  mode,          \* "direct", "usecache" or "dump"
  gnhastd_conn,  \* "connecting", "up", "waiting" for the timer, with a freed bufferevent; "exited", "crashed"
  rrdc_conn,     \* "none", "connecting", "up", "waiting" or "closed"
  need_rereg, shutdown,
  health,        \* the timer of the health checks runs
  feeds,         \* feeds asked for on gnhastd_conn, of each device
  listed,        \* the list of devices was asked for, and is not yet told
  value,         \* the devices' values at gnhastd
  wire,          \* updates on their way to rrdcached
  stored,        \* the last value of each file
  dumped,        \* the configuration was dumped, with a section for every device of the list
  lost

vars == <<mode, gnhastd_conn, rrdc_conn, need_rereg, shutdown, health, feeds, listed, value, wire, stored, dumped,
          lost>>
Running == gnhastd_conn \in {"connecting", "up", "waiting"}

\* rrd_rrdcreate: asks for the feeds, and makes the files that are not there yet.
Create(files, ds) == [d \in DOMAIN files \cup ds |-> IF d \in DOMAIN files THEN files[d] ELSE -1]

\* main.  A device with no ds gets no file.
Init ==
  /\ mode \in {"direct", "usecache", "dump"}
  /\ gnhastd_conn = "connecting"
  /\ rrdc_conn = IF mode = "usecache" THEN "connecting" ELSE "none"
  /\ need_rereg = FALSE /\ shutdown = FALSE /\ health = FALSE
  /\ feeds = [d \in Devs |-> 1] /\ listed = TRUE
  /\ value = [d \in Devs |-> 0]
  /\ wire = <<>> /\ lost = 0 /\ dumped = FALSE
  /\ \E ds \in SUBSET Devs : stored = Create([d \in {} |-> -1], ds)

\* connect_event_cb.
Connected ==
  \/ /\ gnhastd_conn = "connecting" /\ gnhastd_conn' = "up" /\ health' = TRUE
     /\ UNCHANGED <<mode, rrdc_conn, need_rereg, shutdown, feeds, listed, value, wire, stored, dumped, lost>>
  \/ /\ Running /\ rrdc_conn = "connecting" /\ rrdc_conn' = "up"
     /\ UNCHANGED <<mode, gnhastd_conn, need_rereg, shutdown, health, feeds, listed, value, wire, stored, dumped, lost>>
GnhastdLost ==
  /\ gnhastd_conn \in {"connecting", "up"}
  /\ \/ shutdown /\ UNCHANGED lost
     \/ lost < MaxLost /\ lost' = lost + 1
  /\ gnhastd_conn' = IF shutdown THEN "exited" ELSE "waiting"
  /\ need_rereg' = (need_rereg \/ ~shutdown)
  /\ feeds' = [d \in Devs |-> 0] /\ listed' = FALSE
  /\ UNCHANGED <<mode, rrdc_conn, shutdown, health, value, wire, stored, dumped>>
RrdcLost ==
  /\ Running /\ rrdc_conn \in {"connecting", "up"} /\ lost < MaxLost /\ lost' = lost + 1
  /\ rrdc_conn' = "waiting" /\ need_rereg' = TRUE /\ wire' = <<>>
  /\ UNCHANGED <<mode, gnhastd_conn, shutdown, health, feeds, listed, value, stored, dumped>>

\* connect_server_cb: every attempt but the first ones asks for the feeds, on the connection
\* to gnhastd, whichever it was made for.
reregister ==
  /\ feeds' = [d \in Devs |-> IF need_rereg THEN feeds[d] + 1 ELSE feeds[d]]
  /\ listed' = (listed \/ need_rereg)
  /\ UNCHANGED need_rereg
connect_server_cb ==
  \/ /\ gnhastd_conn = "waiting" /\ gnhastd_conn' = "connecting"
     /\ reregister
     /\ UNCHANGED <<mode, rrdc_conn, shutdown, health, value, wire, stored, dumped, lost>>
  \/ /\ gnhastd_conn \in {"connecting", "up"} /\ rrdc_conn = "waiting" /\ rrdc_conn' = "connecting"
     /\ \A d \in Devs : feeds[d] < MaxWire
     /\ reregister
     /\ UNCHANGED <<mode, gnhastd_conn, shutdown, health, value, wire, stored, dumped, lost>>
  \/ /\ gnhastd_conn = "waiting" /\ rrdc_conn = "waiting" /\ rrdc_conn' = "connecting"
     /\ gnhastd_conn' \in {"waiting", "crashed"}   \* as in rrd_update_dev
     /\ UNCHANGED <<mode, need_rereg, shutdown, health, feeds, listed, value, wire, stored, dumped, lost>>

\* health_cb: once there was a connection to gnhastd its timer goes on for ever; while
\* there is none it writes through the pointer to the freed bufferevent, which may also
\* do nothing.
health_cb ==
  /\ health /\ gnhastd_conn = "waiting" /\ gnhastd_conn' = "crashed"
  /\ UNCHANGED <<mode, rrdc_conn, need_rereg, shutdown, health, feeds, listed, value, wire, stored, dumped, lost>>

\* gnhastd's timer, coll_upd_cb and rrd_update_dev.
rrd_update_dev(d) ==
  \/ /\ mode # "usecache"
     /\ stored' = IF d \in DOMAIN stored THEN [stored EXCEPT ![d] = value[d]] ELSE stored
     /\ UNCHANGED <<gnhastd_conn, wire>>
  \/ /\ rrdc_conn \in {"connecting", "up"} /\ Len(wire) < MaxWire
     /\ wire' = Append(wire, <<d, value[d]>>)
     /\ UNCHANGED <<gnhastd_conn, stored>>
  \/ /\ rrdc_conn \in {"waiting", "closed"}   \* through the pointer to the freed bufferevent
     /\ gnhastd_conn' \in {"up", "crashed"}
     /\ UNCHANGED <<wire, stored>>
Feed(d) ==
  /\ gnhastd_conn = "up" /\ feeds[d] > 0
  /\ rrd_update_dev(d)
  /\ UNCHANGED <<mode, rrdc_conn, need_rereg, shutdown, health, feeds, listed, value, dumped, lost>>
\* rrdcached takes an update.
Store ==
  /\ Running /\ rrdc_conn = "up" /\ wire # <<>>
  /\ wire' = Tail(wire)
  /\ stored' = IF Head(wire)[1] \in DOMAIN stored THEN [stored EXCEPT ![Head(wire)[1]] = Head(wire)[2]] ELSE stored
  /\ UNCHANGED <<mode, gnhastd_conn, rrdc_conn, need_rereg, shutdown, health, feeds, listed, value, dumped, lost>>
\* The answer to request_devlist; at its end cmd_endldevs may dump the configuration.
cmd_endldevs ==
  /\ gnhastd_conn = "up" /\ listed
  /\ listed' = FALSE
  /\ IF mode = "dump" THEN dumped' = TRUE /\ gnhastd_conn' = "exited" ELSE UNCHANGED <<dumped, gnhastd_conn>>
  /\ UNCHANGED <<mode, rrdc_conn, need_rereg, shutdown, health, feeds, value, wire, stored, lost>>

Change(d) ==
  /\ value[d] < MaxChanges
  /\ value' = [value EXCEPT ![d] = @ + 1]
  /\ UNCHANGED <<mode, gnhastd_conn, rrdc_conn, need_rereg, shutdown, health, feeds, listed, wire, stored, dumped, lost>>

\* cb_sigterm: the connection to rrdcached is closed with what waits on it.
cb_sigterm ==
  /\ Running /\ ~shutdown /\ shutdown' = TRUE
  /\ gnhastd_conn' \in IF gnhastd_conn = "waiting" \/ rrdc_conn = "waiting" THEN {gnhastd_conn, "crashed"} ELSE {gnhastd_conn}
  /\ rrdc_conn' = IF rrdc_conn \in {"none", "waiting"} THEN rrdc_conn ELSE "closed"
  /\ wire' = <<>>
  /\ UNCHANGED <<mode, need_rereg, health, feeds, listed, value, stored, dumped, lost>>
cb_shutdown ==
  /\ Running /\ shutdown /\ gnhastd_conn' = "exited"
  /\ UNCHANGED <<mode, rrdc_conn, need_rereg, shutdown, health, feeds, listed, value, wire, stored, dumped, lost>>

Next ==
  \/ Connected \/ GnhastdLost \/ RrdcLost \/ connect_server_cb \/ health_cb \/ Store \/ cmd_endldevs
  \/ cb_sigterm \/ cb_shutdown \/ \E d \in Devs : Feed(d) \/ Change(d)
\* The timers run, servers that are there answer.
Weak(n) ==
  CASE n = 1 -> Connected
    [] n = 2 -> connect_server_cb
    [] n = 3 -> Store
    [] OTHER -> FALSE
Strong(n) == n \in DOMAIN SetToSeq(Devs) /\ Feed(SetToSeq(Devs)[n])
Fairness ==
  /\ \A n \in 1 .. 3 : WF_vars(Weak(n))
  /\ \A n \in 1 .. Cardinality(Devs) : SF_vars(Strong(n))
Spec == Init /\ [][Next]_vars /\ Fairness

-----------------------------------------------------------------------------
\* Type invariant.
TypeOK ==
  /\ gnhastd_conn \in {"connecting", "up", "waiting", "exited", "crashed"}
  /\ rrdc_conn \in {"none", "connecting", "up", "waiting", "closed"}
  /\ need_rereg \in BOOLEAN /\ shutdown \in BOOLEAN /\ health \in BOOLEAN /\ listed \in BOOLEAN
  /\ feeds \in [Devs -> 0 .. MaxWire]
  /\ DOMAIN stored \subseteq Devs /\ Range(stored) \subseteq -1 .. MaxChanges
  /\ Len(wire) <= MaxWire /\ dumped \in BOOLEAN

\* Whenever there is a connection to gnhastd every device's feed is asked for on it, in
\* whatever order the two connections were lost and made again.
Introduced == gnhastd_conn \in {"connecting", "up"} => \A d \in Devs : feeds[d] > 0

\* Unless it ends, every file gets the last value of its device.
Settled == \A d \in DOMAIN stored : stored[d] = value[d]
Stopped == ~Running \/ shutdown
=============================================================================
