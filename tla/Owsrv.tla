-------------------------------- MODULE Owsrv --------------------------------
(***************************************************************************)
(* owsrvcoll: the collector of an owserver.  It reads one device after the *)
(* other, each when the answer about the one before has come, and asks for *)
(* a new list of all devices every so many loops.  What an answer is about *)
(* is what was asked last, of whichever connection it comes from: a        *)
(* watchdog that starts a new chain before the old one is dead mixes them. *)
(***************************************************************************)
EXTENDS Link, Lists

CONSTANTS
  Confs,       \* the sets of devices that may be configured
  Rescan,      \* the loops between two lists
  MaxConns,    \* bound: connections to the owserver
  MaxChanges,  \* bound: changes of the devices
  MaxLost      \* bound: losses, errors, pings and late answers

VARIABLES
  dumpconf,    \* only the list is wanted
  kind,        \* of the devices on the bus: "temp", "none" or "wet"
  conf,        \* the devices that are configured, and have names
  keeps,       \* the owserver grants persistent connections
  owc,         \* the connections to the owserver
  bev,         \* the index of conn->bev, 0 when that is freed
  persistent,
  alldevs,     \* the table, in its order
  current_dev, \* an index of alldevs, 0 for NULL
  lastcmd, loopnr, timer_pending,
  dead,        \* crashed through the freed conn->bev
  value,       \* of the devices
  mixed,       \* history: an answer was still to come, or to be read, when more was asked
  changes, losses

owsVars == <<dumpconf, kind, conf, keeps, owc, bev, persistent, alldevs, current_dev, lastcmd, loopnr,
             timer_pending, dead, value, mixed, changes, losses>>
vars == <<linkVars, owsVars>>
constant == <<dumpconf, kind, conf, keeps>>
chain == <<owc, bev, persistent, alldevs, current_dev, lastcmd, loopnr, timer_pending, dead>>
counts == <<changes, losses>>

Bus == 1 .. 2
\* What a reading makes when it is taken for a list: a device of no type.
JUNK == 0
Kind(d) == IF d = JUNK THEN "none" ELSE kind[d]
OWSM_DIRALL == <<"dirall">>
OWSM_READ(d) == <<"read", d>>
NewConn(c) == [asked |-> <<c>>, sent |-> <<>>, input |-> <<>>]
Pending(c) == c.asked # <<>> \/ c.sent # <<>> \/ c.input # <<>>

\* ows_handle_dirall: a device that is not in the configuration is a thermometer,
\* or of no type; parse_devices has inserted the others.  Those are registered.
NewFromBus(d) == kind[d] # "wet"
ows_handle_dirall(names) == alldevs \o SetToSeq(names \ {alldevs[i] : i \in DOMAIN alldevs})

\* Those that may be configured are on the bus.
OwsrvAssumption == \A c \in Confs : c \subseteq Bus

\* main.
Init ==
  /\ LinkInit
  /\ dumpconf \in BOOLEAN
  /\ kind \in [Bus -> {"temp", "none", "wet"}]
  /\ conf \in Confs
  /\ \A d \in Bus \ conf : NewFromBus(d)
  /\ reg = IF dumpconf THEN {} ELSE conf
  /\ keeps \in BOOLEAN
  /\ owc = <<NewConn(OWSM_DIRALL)>>
  /\ bev = 1
  /\ persistent = FALSE
  /\ alldevs = SetToSeq(conf)
  /\ current_dev = 0
  /\ lastcmd = OWSM_DIRALL
  /\ loopnr = 0
  /\ timer_pending = FALSE
  /\ dead = FALSE
  /\ value = [d \in Bus |-> 0]
  /\ mixed = FALSE
  /\ changes = 0 /\ losses = 0

Alive == Running /\ ~dead

-----------------------------------------------------------------------------
\* bufferevent_write of a request, on a connection of its own unless they persist;
\* cs are the connections as they are by then.
Ask(c, cs) ==
  \/ /\ ~persistent'
     /\ Len(cs) < MaxConns
     /\ owc' = Append(cs, NewConn(c))
     /\ bev' = Len(cs) + 1
     /\ UNCHANGED dead
  \/ /\ persistent' /\ bev # 0
     /\ owc' = [cs EXCEPT ![bev].asked = Append(@, c)]
     /\ UNCHANGED <<bev, dead>>
  \/ /\ persistent' /\ bev = 0
     /\ owc' = cs
     /\ dead' \in BOOLEAN
     /\ UNCHANGED bev
NotAsked(cs) == owc' = cs /\ UNCHANGED <<bev, dead, lastcmd>>

\* The end of the list: the next loop begins after a while, every so often with a
\* DIRALL.
Wrap(cs) ==
  /\ loopnr' = (loopnr + 1) % Rescan
  /\ current_dev' = IF loopnr' = 0 \/ alldevs' = <<>> THEN 0 ELSE 1
  /\ timer_pending' = TRUE
  /\ NotAsked(cs)

\* ows_schedule_devread of the i-th device: those of no type are passed over, and a
\* leaf wetness sensor without its number ends the chain.
ows_schedule_devread(i, cs, timer) ==
  LET typed == {j \in i .. Len(alldevs') : Kind(alldevs'[j]) # "none"}
      j == CHOOSE k \in typed : \A l \in typed : k <= l
  IN IF typed = {} THEN Wrap(cs)
     ELSE /\ UNCHANGED loopnr
          /\ timer_pending' = timer
          /\ IF Kind(alldevs'[j]) = "wet"
             THEN NotAsked(cs) /\ current_dev' = IF j = i THEN current_dev ELSE j
             ELSE /\ Ask(OWSM_READ(alldevs'[j]), cs)
                  /\ lastcmd' = OWSM_READ(alldevs'[j]) /\ current_dev' = j

\* readcbout: the device after the one that cur is.
readcbout(cur, cs) ==
  IF cur = 0 \/ cur = Len(alldevs') THEN Wrap(cs) ELSE ows_schedule_devread(cur + 1, cs, timer_pending)

\* A wrong ows_schedule_dirall: what was asked last is still a read.
dirall_keeps_lastcmd(cs) ==
  /\ Ask(OWSM_DIRALL, cs)
  /\ current_dev' = IF alldevs = <<>> THEN 0 ELSE 1
  /\ UNCHANGED <<lastcmd, loopnr, alldevs>>
ows_schedule_dirall(cs) ==
  /\ Ask(OWSM_DIRALL, cs)
  /\ current_dev' = 0
  /\ lastcmd' = OWSM_DIRALL
  /\ UNCHANGED <<loopnr, alldevs>>

\* A reading, of a device that has a name, as it is told.
Reading(m) == IF m[1] = "read" THEN m ELSE <<"nonsense">>
\* ows_buf_read_cb, for the n messages that came together: it reads one.  An answer
\* to a DIRALL is followed by the read of the second device.
ows_buf_read_cb(i, n) ==
  /\ Alive
  /\ n \in 1 .. Len(owc[i].sent)
  /\ \E m \in {Head(owc[i].input \o SubSeq(owc[i].sent, 1, n))} :
     \E cs \in {[owc EXCEPT ![i].input = Tail(@ \o SubSeq(owc[i].sent, 1, n)),
                            ![i].sent = SubSeq(@, n + 1, Len(@))]} :
       /\ persistent' = (persistent \/ keeps)
       /\ mixed' = (mixed \/ cs[i].input # <<>>)
       /\ IF m[1] = "ping"
          THEN /\ NotAsked(cs)
               /\ UNCHANGED <<linkVars, alldevs, current_dev, loopnr, timer_pending>>
          ELSE IF m[1] = "bad"
          THEN UNCHANGED <<linkVars, alldevs>> /\ readcbout(current_dev, cs)
          ELSE IF lastcmd = OWSM_DIRALL
          THEN /\ alldevs' = ows_handle_dirall(IF m[1] = "dirall" THEN Bus ELSE {JUNK})
               /\ readcbout(1, cs)
               /\ IF dumpconf THEN link' = "exited" /\ UNCHANGED <<need_rereg, shutdown, reg, told>>
                  ELSE UNCHANGED linkVars
          ELSE /\ UNCHANGED alldevs
               /\ IF current_dev # 0 /\ alldevs[current_dev] \in conf
                  THEN Say({}, [d \in {alldevs[current_dev]} |-> Reading(m)])
                  ELSE UNCHANGED linkVars
               /\ readcbout(current_dev, cs)
  /\ UNCHANGED <<constant, value, counts>>

ows_timer_cb ==
  /\ Alive /\ timer_pending
  /\ UNCHANGED persistent
  /\ mixed' = (mixed \/ \E i \in DOMAIN owc : Pending(owc[i]))
  /\ IF current_dev = 0 THEN ows_schedule_dirall(owc) /\ timer_pending' = FALSE
     ELSE UNCHANGED alldevs /\ ows_schedule_devread(current_dev, owc, FALSE)
  /\ UNCHANGED <<linkVars, constant, value, counts>>

\* ows_watchdog_cb, after three updates without an answer: the chain has ended, or
\* what it waits for is late.
Stalled == ~timer_pending /\ \A i \in DOMAIN owc : owc[i].asked = <<>> /\ owc[i].sent = <<>>
ows_watchdog_cb ==
  /\ Alive
  /\ \/ Stalled /\ UNCHANGED losses
     \/ ~Stalled /\ losses < MaxLost /\ losses' = losses + 1
  /\ UNCHANGED <<persistent, timer_pending>>
  /\ mixed' = (mixed \/ \E i \in DOMAIN owc : Pending(owc[i]))
  /\ ows_schedule_dirall(owc)
  /\ UNCHANGED <<linkVars, constant, value, changes>>

-----------------------------------------------------------------------------
\* The owserver answers, in order on each connection: with the list, a reading or
\* an error, after a ping when it is slow.
OwAnswers(i) ==
  /\ owc[i].asked # <<>>
  /\ LET c == Head(owc[i].asked)
         good == IF c = OWSM_DIRALL THEN c ELSE <<"read", c[2], value[c[2]]>>
     IN \/ /\ owc' = [owc EXCEPT ![i].asked = Tail(@), ![i].sent = Append(@, good)]
           /\ UNCHANGED losses
        \/ /\ losses < MaxLost
           /\ losses' = losses + 1
           /\ \E w \in {<<<<"bad">>>>, <<<<"ping">>, good>>} :
                owc' = [owc EXCEPT ![i].asked = Tail(@), ![i].sent = @ \o w]
  /\ UNCHANGED <<linkVars, constant, bev, persistent, alldevs, current_dev, lastcmd, loopnr,
                 timer_pending, dead, value, mixed, changes>>
\* ows_connect_event_cb: the owserver has closed a connection, after its answer
\* when it does not keep them, or at any time.  conn->bev is not looked at, and
\* persistent is one for all.
OwEof(i) ==
  /\ Alive
  /\ \/ /\ owc[i].asked = <<>> /\ owc[i].sent = <<>>
        /\ keeps => i # bev
        /\ UNCHANGED losses
     \/ losses < MaxLost /\ losses' = losses + 1
  /\ persistent' = FALSE
  /\ owc' = RemoveAt(owc, i)
  /\ bev' = IF bev = i THEN 0 ELSE IF bev > i THEN bev - 1 ELSE bev
  /\ UNCHANGED <<linkVars, constant, alldevs, current_dev, lastcmd, loopnr, timer_pending, dead, value,
                 mixed, changes>>
\* The value of a device that is read.
BusChanges ==
  /\ changes < MaxChanges
  /\ changes' = changes + 1
  /\ \E d \in Bus : kind[d] = "temp" /\ value' = [value EXCEPT ![d] = 1 - @]
  /\ UNCHANGED <<linkVars, constant, chain, mixed, losses>>

-----------------------------------------------------------------------------
connect_event_cb ==
  \/ Alive /\ LinkUp /\ UNCHANGED owsVars
  \/ /\ Alive
     /\ losses < MaxLost
     /\ losses' = losses + 1
     /\ LinkLost
     /\ UNCHANGED <<constant, chain, value, mixed, changes>>
connect_server_cb ==
  /\ Alive
  /\ LinkRetry(IF dumpconf THEN {} ELSE {alldevs[i] : i \in DOMAIN alldevs} \cap conf)
  /\ UNCHANGED owsVars
\* conn->bev is freed once more when it was already.
cb_sigterm ==
  /\ Alive /\ LinkSigterm
  /\ IF bev = 0 THEN dead' \in BOOLEAN /\ UNCHANGED owc ELSE owc' = RemoveAt(owc, bev) /\ UNCHANGED dead
  /\ bev' = 0
  /\ UNCHANGED <<constant, persistent, alldevs, current_dev, lastcmd, loopnr, timer_pending, value,
                 mixed, counts>>
cb_shutdown == Alive /\ LinkShutdown /\ UNCHANGED owsVars

Next ==
  \/ \E i \in 1 .. Len(owc) : OwAnswers(i) \/ OwEof(i) \/ \E n \in 1 .. 2 : ows_buf_read_cb(i, n)
  \/ ows_timer_cb \/ ows_watchdog_cb \/ BusChanges
  \/ connect_event_cb \/ connect_server_cb \/ cb_sigterm \/ cb_shutdown

\* libevent's callbacks and timers, and an owserver that answers and closes.
Weak(n) ==
  \/ \E i \in DOMAIN owc : \/ n = 3 * i - 2 /\ OwAnswers(i)
                           \/ n = 3 * i - 1 /\ OwEof(i) /\ UNCHANGED losses
                           \/ n = 3 * i /\ \E k \in 1 .. 2 : ows_buf_read_cb(i, k)
  \/ n = 3 * MaxConns + 1 /\ ows_timer_cb
  \/ n = 3 * MaxConns + 2 /\ Stalled /\ ows_watchdog_cb
Fairness == \A n \in 1 .. 3 * MaxConns + 2 : WF_vars(Weak(n))
Spec == Init /\ [][Next]_vars /\ Fairness

-----------------------------------------------------------------------------
\* Type invariant of owsrvcoll's state.
TypeOK ==
  /\ LinkTypeOK(Bus, {<<"nonsense">>} \cup ({"read"} \X Bus \X {0, 1}))
  /\ Len(owc) <= MaxConns /\ bev \in 0 .. Len(owc)
  /\ persistent \in BOOLEAN /\ timer_pending \in BOOLEAN /\ dead \in BOOLEAN
  /\ current_dev \in 0 .. Len(alldevs)
  /\ lastcmd = OWSM_DIRALL \/ lastcmd[1] = "read"
  /\ loopnr \in 0 .. Rescan - 1

\* A device is told the reading of that device, and the table has what is on the
\* bus, as long as no answer was still to come or to be read when more was asked:
\* through lost connections, errors, and the watchdog.
Truthful ==
  ~mixed => /\ \A d \in DOMAIN told : told[d][1] = "read" /\ told[d][2] = d
            /\ JUNK \notin Range(alldevs)

\* gnhastd is told no value of a device that it does not know, except when only the
\* list was wanted and the first answer was none.
Introduced == ~dumpconf => RegisteredFirst

\* The chain goes on for ever: in the end gnhastd has the reading of each device it
\* knows, unless a device ends the chain, or answers were mixed.
Settled ==
  link = "up" /\ ~dead /\ ~shutdown /\ ~mixed /\ (\A d \in Bus : kind[d] # "wet")
    => \A d \in reg : kind[d] = "temp" => d \in DOMAIN told /\ told[d] = <<"read", d, value[d]>>
=============================================================================
