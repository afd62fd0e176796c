------------------------------- MODULE Venstar -------------------------------
(***************************************************************************)
(* venstarcoll: the collector of a Venstar thermostat.  It waits for the   *)
(* thermostat's NOTIFY, then asks it for its state in three feeds, each on *)
(* a connection of its own, one request after the other.  A change is a    *)
(* POST on one more connection, and when it succeeded the state is asked   *)
(* for once more.  The connection to gnhastd is common/genconn.c's, the    *)
(* subject of Connection; told is what the collector makes of it.          *)
(***************************************************************************)
EXTENDS Integers, Sequences, FiniteSets, TLC

CONSTANTS
  MaxAsked,    \* bound: requests of a feed under way
  MaxChanges,  \* bound: changes asked for, or made at the thermostat, and what is below
  MaxLost      \* bound: requests that fail, and moves of the thermostat

VARIABLES
  ttype,      \* the thermostat's and the configured type: "RES" or "COM"
  units,      \* the thermostat's temperature scale
  tempscale,  \* the collector's
  at,         \* the thermostat's address
  venstar_url,    \* the one heard of last, 0 before
  query_running,  \* the feeds have been set up
  feedurl,    \* the address in the feeds' requests: "none", "kept" or "freed"
  http_cn,    \* the address each feed is connected to, 0 before its first request
  feeds,      \* the feeds that have started
  asked,      \* for each feed, its requests under way: "asked" or the answer
  ven,        \* what the thermostat is set to and shows
  data,       \* the collector's copy
  told,       \* what gnhastd was told last
  posts,      \* changes on their way, each on a connection of its own
  again,      \* a timer for the query that follows a change
  ended,      \* "no", "fatal" or "crashed"
  changes, losses

vars == <<ttype, units, tempscale, at, venstar_url, query_running, feedurl, http_cn, feeds, asked,
          ven, data, told, posts, again, ended, changes, losses>>

-----------------------------------------------------------------------------
\* The devices: those in the answer to a Query/Info, which of them a type of
\* thermostat has, and those of the other feeds, the sensors and the alerts (which
\* go the same way and have one here).
Feeds == {"info", "others"}
build_devices(type) ==
  {"mode", "heattemp", "cooltemp", "setpointdelta", IF type = "COM" THEN "holiday" ELSE "away"}
ByFeed(type) ==
  [info |-> build_devices(type), others |-> {"outdoortemp"}]
AllDevs(type) == UNION {ByFeed(type)[f] : f \in Feeds}

\* queryinfo: the fields that are looked for.  The type in the table says which
\* thermostats have a field, but only a thermostat of that very type is asked for
\* it: of a commercial one, what both types have is never known.
queryinfo(type) ==
  IF type = "RES" THEN build_devices("RES") ELSE build_devices("COM") \ build_devices("RES")
Known(f) == IF f = "info" THEN queryinfo(ttype) ELSE ByFeed(ttype)[f]

\* Modes and setpoints.
THERMMODE_OFF == 0
THERMMODE_HEAT == 1
THERMMODE_COOL == 2
THERMMODE_AUTO == 3
Modes == {THERMMODE_OFF, THERMMODE_HEAT, THERMMODE_COOL, THERMMODE_AUTO}
Temps == 1 .. 2
Nothing == [d \in {} |-> 0]

Init ==
  /\ ttype \in {"RES", "COM"}
  /\ units = "F"
  /\ tempscale \in IF ttype = "RES" THEN {"F", "C"} ELSE {"F"}
  /\ at = 1
  /\ venstar_url = 0
  /\ query_running = FALSE
  /\ feedurl = "none"
  /\ http_cn = [f \in Feeds |-> 0]
  /\ feeds = {}
  /\ asked = [f \in Feeds |-> <<>>]
  /\ ven = [d \in AllDevs(ttype) |->
              CASE d = "mode" -> THERMMODE_OFF [] d = "heattemp" -> 1 [] d = "cooltemp" -> 2
                [] d = "setpointdelta" -> 1 [] OTHER -> 0]
  /\ data = [d \in AllDevs(ttype) |-> 0]
  /\ told = Nothing
  /\ posts = {}
  /\ again = FALSE
  /\ ended = "no"
  /\ changes = 0
  /\ losses = 0

Runs == ended = "no"
found == <<venstar_url, query_running, feedurl>>
requests == <<http_cn, feeds, asked>>
control == <<posts, again>>
constant == <<ttype, units>>
counts == <<changes, losses>>
MayLose == losses < MaxLost /\ changes + losses < MaxChanges

-----------------------------------------------------------------------------
\* cb_notify_read, for a NOTIFY of the configured thermostat; those of others
\* are dropped.  Its address is kept, the feeds have a pointer to an earlier one.
\* Without a Cache-Control line the rest is not looked at: the first such ends
\* the collector, which has no MAC address then.
cb_notify_read ==
  /\ Runs
  /\ \/ venstar_url # at
     \/ ~query_running
  /\ venstar_url' = at
  /\ feedurl' = CASE ~query_running -> "kept" [] venstar_url = at -> feedurl [] OTHER -> "freed"
  /\ query_running' = TRUE
  /\ IF query_running
       THEN UNCHANGED ended
       ELSE \E cachecontrol \in BOOLEAN : ended' = IF cachecontrol THEN "no" ELSE "fatal"
  /\ UNCHANGED <<constant, tempscale, at, requests, ven, data, told, control, counts>>

\* delay_feedstart_cb, feed after feed.
venstar_startfeed == <<"info", "others">>
delay_feedstart_cb ==
  /\ Runs /\ query_running
  /\ \E i \in DOMAIN venstar_startfeed :
       /\ venstar_startfeed[i] \notin feeds
       /\ \A j \in 1 .. i - 1 : venstar_startfeed[j] \in feeds
       /\ feeds' = feeds \cup {venstar_startfeed[i]}
  /\ UNCHANGED <<constant, tempscale, at, found, http_cn, asked, ven, data, told, control, ended, counts>>

\* cb_http_GET.  The connection is made once, to the address there was then; an
\* address that has been freed may be anything.
Get(f) ==
  \/ /\ Len(asked[f]) < MaxAsked
     /\ http_cn' = [http_cn EXCEPT ![f] = IF @ = 0 THEN venstar_url ELSE @]
     /\ asked' = [asked EXCEPT ![f] = Append(@, <<"asked">>)]
     /\ UNCHANGED ended
  \/ /\ feedurl = "freed"
     /\ ended' \in {"no", "crashed"}
     /\ UNCHANGED <<http_cn, asked>>
cb_http_GET(f) ==
  /\ Runs /\ f \in feeds
  /\ Get(f)
  /\ UNCHANGED <<constant, tempscale, at, found, feeds, ven, data, told, control, counts>>
\* Two seconds after a change.
QueryAgain ==
  /\ Runs /\ again
  /\ again' \in BOOLEAN
  /\ Get("info")
  /\ UNCHANGED <<constant, tempscale, at, found, feeds, ven, data, told, posts, counts>>

\* The thermostat answers the first request of a connection.
Replied(f) ==
  /\ \E i \in DOMAIN asked[f] :
       /\ asked[f][i] = <<"asked">>
       /\ \A j \in 1 .. i - 1 : asked[f][j] # <<"asked">>
       /\ http_cn[f] = at
       /\ asked' = [asked EXCEPT ![f][i] = <<"answer", [d \in ByFeed(ttype)[f] |-> ven[d]]>>]
  /\ UNCHANGED <<constant, tempscale, at, found, http_cn, feeds, ven, data, told, control, ended, counts>>

\* request_cb: no answer, or one that is not used: a failure, another's name, or
\* what is no JSON of at most 255 tokens.
NoAnswer(f) ==
  /\ Runs
  /\ asked[f] # <<>>
  /\ asked' = [asked EXCEPT ![f] = Tail(@)]
  /\ IF http_cn[f] # at THEN UNCHANGED losses
     ELSE MayLose /\ losses' = losses + 1
  /\ UNCHANGED <<constant, tempscale, at, found, http_cn, feeds, ven, data, told, control, ended, changes>>

Tell(f, answer) == [d \in DOMAIN answer \cap Known(f) |-> answer[d]]

\* request_cb with an answer.  When the thermostat's scale is not the collector's,
\* the devices are to be registered again, by a pointer that has no value.
request_cb(f) ==
  /\ Runs
  /\ asked[f] # <<>> /\ Head(asked[f]) # <<"asked">>
  /\ asked' = [asked EXCEPT ![f] = Tail(@)]
  /\ IF f = "info" /\ tempscale # units
       THEN tempscale' = units /\ ended' \in {"no", "crashed"}
       ELSE UNCHANGED <<tempscale, ended>>
  /\ IF ended' = "no"
       THEN /\ data' = Tell(f, Head(asked[f])[2]) @@ data
            /\ told' = Tell(f, Head(asked[f])[2]) @@ told
       ELSE UNCHANGED <<data, told>>
  /\ UNCHANGED <<constant, at, found, http_cn, feeds, ven, control, counts>>

-----------------------------------------------------------------------------
\* update_mode: the setpoints go with the mode, as they were known last.
update_mode(mode) ==
  LET heat == [heattemp |-> data["heattemp"]]
      cool == [cooltemp |-> data["cooltemp"]]
      both == heat @@ cool
      with(set) == {[mode |-> mode] @@ set}
  IN CASE mode = THERMMODE_OFF  -> with(both)
       [] mode = THERMMODE_AUTO -> IF data["heattemp"] + data["setpointdelta"] > data["cooltemp"] THEN {}
                           ELSE with(both)
       [] mode = THERMMODE_HEAT -> with(heat)
       [] mode = THERMMODE_COOL -> with(cool)

\* coll_chg_cb: a change asked for through gnhastd.  Before the thermostat has
\* been found there is nowhere to post it.
coll_chg_cb ==
  /\ Runs /\ changes + losses < MaxChanges
  /\ changes' = changes + 1
  /\ \E sets \in {update_mode(m) : m \in Modes} \cup
                 {{[heattemp |-> t]} : t \in Temps} \cup {{[cooltemp |-> t]} : t \in Temps} :
       posts' = IF venstar_url = 0 THEN posts ELSE posts \cup sets
  /\ UNCHANGED <<constant, tempscale, at, found, requests, ven, data, told, again, ended, losses>>

\* The thermostat keeps its setpoints apart in automatic mode, and takes no other
\* values than those it can be set to.
Accepts(new) ==
  /\ new.heattemp \in Temps /\ new.cooltemp \in Temps
  /\ new.mode = THERMMODE_AUTO => new.heattemp + new.setpointdelta <= new.cooltemp

\* The thermostat takes a change or refuses it: changes on different connections
\* in any order.  request_cb with its success sets the timer.  Or the change, or
\* its answer, is lost.
Posted(p) ==
  /\ posts' = posts \ {p}
  /\ \/ Accepts(p @@ ven) /\ ven' = p @@ ven /\ again' = TRUE /\ UNCHANGED losses
     \/ ~Accepts(p @@ ven) /\ UNCHANGED <<ven, again, losses>>
     \/ /\ MayLose /\ losses' = losses + 1
        /\ UNCHANGED again
        /\ ven' \in {ven, IF Accepts(p @@ ven) THEN p @@ ven ELSE ven}
  /\ UNCHANGED <<constant, tempscale, at, found, requests, data, told, ended, changes>>

\* Somebody changes something at the thermostat, or its address changes.
Turned ==
  /\ changes + losses < MaxChanges
  /\ changes' = changes + 1
  /\ \E new \in {[mode |-> THERMMODE_OFF], [heattemp |-> 2], [outdoortemp |-> 1]} :
       Accepts(new @@ ven) /\ ven' = new @@ ven
  /\ UNCHANGED <<constant, tempscale, at, found, requests, data, told, control, ended, losses>>
Moved ==
  /\ MayLose
  /\ losses' = losses + 1
  /\ at = 1 /\ at' = 2
  /\ UNCHANGED <<constant, tempscale, found, requests, ven, data, told, control, ended, changes>>

Next ==
  \/ cb_notify_read \/ delay_feedstart_cb \/ QueryAgain
  \/ \E f \in Feeds : cb_http_GET(f) \/ Replied(f) \/ NoAnswer(f) \/ request_cb(f)
  \/ coll_chg_cb \/ \E p \in posts : Posted(p)
  \/ Turned \/ Moved

\* Timers and answers come, and the callbacks are run.
Weak(n) ==
  CASE n = 1 -> cb_http_GET("info")
    [] n = 2 -> cb_http_GET("others")
    [] n = 3 -> Replied("info")
    [] n = 4 -> Replied("others")
    [] n = 5 -> request_cb("info")
    [] n = 6 -> request_cb("others")
    [] n = 7 -> cb_notify_read
    [] n = 8 -> delay_feedstart_cb
    [] OTHER -> FALSE
Fairness == \A n \in 1 .. 8 : WF_vars(Weak(n))

Spec == Init /\ [][Next]_vars /\ Fairness

-----------------------------------------------------------------------------
\* Type invariant of venstarcoll's state.
TypeOK ==
  /\ tempscale \in {"F", "C"}
  /\ venstar_url \in 0 .. at
  /\ feedurl \in {"none", "kept", "freed"}
  /\ \A f \in Feeds : http_cn[f] \in 0 .. at /\ Len(asked[f]) <= MaxAsked
  /\ feeds \subseteq Feeds
  /\ DOMAIN ven = AllDevs(ttype) /\ DOMAIN data = AllDevs(ttype)
  /\ DOMAIN told \subseteq AllDevs(ttype)
  /\ Cardinality(posts) <= MaxChanges
  /\ again \in BOOLEAN
  /\ ended \in {"no", "fatal", "crashed"}

\* However the requests, the changes and their answers overtake each other,
\* gnhastd comes to know what a thermostat that stays where it is shows in the end.
Settled == \A f \in Feeds : \A d \in Known(f) : d \in DOMAIN told /\ told[d] = ven[d]
Stopped == ~Runs \/ at # 1
=============================================================================
