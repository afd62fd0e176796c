------------------------------ MODULE Gnhastd ------------------------------
(***************************************************************************)
(* The parts of gnhastd that share no state, in one specification: the     *)
(* alarms, the timed feeds, the water marks and handlers, the groups, and  *)
(* the values themselves. Each has a behaviour of its own in the code,     *)
(* too: none reads what another writes, and a step of one does not wait    *)
(* for a step of another. So the whole behaves as one of them, chosen at   *)
(* the start (which), and its variables stand for those of that one.       *)
(***************************************************************************)
EXTENDS Integers

CONSTANTS
  Listeners, Aluids, Channels, Generic, MaxSev, MaxOut, NoAlarm,     \* of Alarms
  Rates, MaxFeeds,                                                   \* of Feeds
  Devices, Dimmers, Clients, Samples, Marks, NoValue,                \* of Updates
  Uids, FirstFile, MaxEdits, MaxStops,                               \* of Groups
  Cases, MaxWire, MaxChanges, MaxLost                                \* of Values

VARIABLES which, v1, v2, v3, v4, v5, v6, v7, v8, v9, v10, v11, v12, v13, v14

vars == <<which, v1, v2, v3, v4, v5, v6, v7, v8, v9, v10, v11, v12, v13, v14>>
rest12 == <<v12, v13, v14>>
rest10 == <<v10, v11, rest12>>
rest7 == <<v7, v8, v9, rest10>>
rest5 == <<v5, v6, rest7>>

Idle12 == v12 = 0 /\ v13 = 0 /\ v14 = 0
Idle10 == v10 = 0 /\ v11 = 0 /\ Idle12
Idle7 == v7 = 0 /\ v8 = 0 /\ v9 = 0 /\ Idle10
Idle5 == v5 = 0 /\ v6 = 0 /\ Idle7

-----------------------------------------------------------------------------
Alarms == INSTANCE AlarmsProofs WITH
  alarms <- v1, alarmwatch <- v2, alchan <- v3, phase <- v4, out <- v5, view <- v6

Feeds == INSTANCE Feeds WITH
  wdevices <- v1, timer_gcd <- v2, left <- v3, resets <- v4

Updates == INSTANCE Updates WITH
  Listeners <- Clients, data <- v1, last <- v2, nodata <- v3, mode <- v4, lowat <- v5,
  hiwat <- v6, floating <- v7, watchers <- v8, told <- v9, handled <- v10, exempt <- v11

Groups == INSTANCE Groups WITH
  allgroups <- v1, cfg <- v2, file <- v3, gui <- v4, togui <- v5, tognh <- v6,
  saved <- v7, edits <- v8, stops <- v9

Values == INSTANCE ValuesProofs WITH
  case <- v1, coll <- v2, server <- v3, client <- v4, real <- v5, file <- v6, up <- v7,
  watching <- v8, cs <- v9, sc <- v10, ss <- v11, sg <- v12, changes <- v13,
  losses <- v14

\* What each part assumes of its constants.
ASSUME AlarmsConstants == Alarms!AlarmsAssumption
ASSUME FeedsConstants == Feeds!FeedsAssumption
ASSUME UpdatesConstants == Updates!UpdatesAssumption
ASSUME ValuesConstants == Values!ValuesAssumption

-----------------------------------------------------------------------------
Init ==
  \/ which = "alarms" /\ Alarms!Init /\ Idle7
  \/ which = "feeds" /\ Feeds!Init /\ Idle5
  \/ which = "updates" /\ Updates!Init /\ Idle12
  \/ which = "groups" /\ Groups!Init /\ Idle10
  \/ which = "values" /\ Values!Init

Next ==
  \/ which = "alarms" /\ Alarms!Next /\ UNCHANGED <<which, rest7>>
  \/ which = "feeds" /\ Feeds!Next /\ UNCHANGED <<which, rest5>>
  \/ which = "updates" /\ Updates!Next /\ UNCHANGED <<which, rest12>>
  \/ which = "groups" /\ Groups!Next /\ UNCHANGED <<which, rest10>>
  \/ which = "values" /\ Values!Next /\ UNCHANGED which

\* The fairness of Alarms and of Values.
Fairness ==
  /\ \A l \in Listeners : WF_(Alarms!vars)(which = "alarms" /\ Alarms!Receive(l))
  /\ SF_(Values!vars)(which = "values" /\ Values!Measure)
  /\ SF_(Values!vars)(which = "values" /\ Values!Feed)
  /\ WF_(Values!vars)(which = "values" /\ Values!TakesFromCollector)
  /\ WF_(Values!vars)(which = "values" /\ Values!TakesFromClient)
  /\ WF_(Values!vars)(which = "values" /\ Values!ClientTakes)
  /\ WF_(Values!vars)(which = "values" /\ Values!CollectorTakes)
  /\ WF_(Values!vars)(which = "values" /\ Values!CollectorStarts)

Spec == Init /\ [][Next]_vars /\ Fairness

-----------------------------------------------------------------------------
\* The types of the part's variables.
TypeOK ==
  CASE which = "alarms"  -> Alarms!TypeOK
    [] which = "feeds"   -> Feeds!TypeOK
    [] which = "updates" -> Updates!TypeOK
    [] which = "groups"  -> Groups!TypeOK
    [] which = "values"  -> Values!TypeOK

\* A handler has been run for the value that its settings say it must know.
HandlersKnow == which = "updates" => Updates!HandlerCurrent /\ Updates!SpamHandled

\* A listener that has read everything has the alarms and the values that gnhastd
\* has: none that was cleared, none missing.
ListenersKnow ==
  CASE which = "alarms"  -> Alarms!NoGhostAlarm /\ Alarms!NoMissedAlarm
    [] which = "updates" -> Updates!ListenerCurrent
    [] OTHER -> TRUE

\* A feed is never late, and its timer wakes gnhastd no more often than it must.
FeedsOnTime == which = "feeds" => Feeds!FeedOnTime /\ Feeds!LongestPeriod

\* A feed is not sent twice within its rate, a handler not run twice for values
\* beyond the same mark.
NotTooOften ==
  [][/\ which = "feeds" => Feeds!NoneTooOften
     /\ which = "updates" => Updates!RunsOnCrossing]_vars

\* The groups are what gtk-gnhast saved, each counted as often as it is a subgroup.
GroupsSaved == which = "groups" => Groups!SubgroupsCounted /\ Groups!SavedIsTaken

\* An orderly stop of gnhastd and its next start lose no group.
NothingForgotten == [][which = "groups" => Groups!StopKeepsAll]_vars

\* A client gets a device's value in the scale that it asked for.
UnitAsAsked == which = "values" => Values!UnitAsAsked

\* A cfeed gives the values in the scale of the device, as the comment of cmd_cfeed has it.
CfeedUnscaled == which = "values" => Values!CfeedUnscaled

\* A cleared alarm leaves every listener's table; a device's value and its name get
\* to gnhastd and to the client.
Arrives ==
  /\ \A l \in Listeners, id \in Aluids :
       []<>(which = "alarms" => Alarms!Forgotten(l, id))
  /\ <>[](which = "values" => Values!Settled)
=============================================================================
