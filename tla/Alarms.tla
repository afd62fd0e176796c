------------------------------- MODULE Alarms -------------------------------
(***************************************************************************)
(* The alarm table of gnhastd and the copies its listeners keep.  Anyone   *)
(* may set or clear an alarm; gnhastd sends the change to the listeners    *)
(* whose severity and channels it matches, and a clear to every listener.  *)
(* A listener runs jsoncgicoll's start-up: listenalarms, then dumpalarms,  *)
(* on one connection, and keeps what it is told in a table of its own with *)
(* the same update_alarm.  The connection is a FIFO in each direction.     *)
(***************************************************************************)
EXTENDS Integers, Sequences, FiniteSets, SequencesExt

CONSTANTS
  Listeners,  \* connections that listen for alarms
  Aluids,     \* alarm uids
  Channels,   \* alarm channels, the bits of alchan
  Generic,    \* ACHAN_GENERIC
  MaxSev,     \* bound: severities 1 .. MaxSev
  MaxOut,     \* bound: messages under way to one listener
  NoAlarm     \* no alarm with this uid

Severities == 1 .. MaxSev
Unset == -1                  \* alsev of a setalarm that names none
Clear == 0                   \* alsev that deletes the alarm
Alarm == [sev : Severities \cup {Unset}, chan : SUBSET Channels]

\* Assumed by the instances: a table is finite.
AlarmsAssumption ==
  /\ Generic \in Channels
  /\ MaxSev \in Nat \ {0}
  /\ MaxOut \in Nat \ {0}
  /\ IsFiniteSet(Aluids)
  /\ NoAlarm \notin Alarm
Message == [id : Aluids, sev : Severities \cup {Clear}, chan : SUBSET Channels]

VARIABLES
  alarms,      \* gnhastd's table: an Alarm or NoAlarm for each uid
  alarmwatch,  \* client_t.alarmwatch, 0 when not listening
  alchan,      \* client_t.alchan
  phase,       \* how far the listener's start-up is: "new", "listening", "synced"
  out,         \* setalarm messages under way to each listener
  view         \* each listener's own table

vars == <<alarms, alarmwatch, alchan, phase, out, view>>

-----------------------------------------------------------------------------
\* A wrong Updated: clearing an alarm that is not there creates it.
UpdatedCreatesCleared(old, hasText, sev, chan) ==
  IF old = NoAlarm THEN IF hasText THEN [sev |-> sev, chan |-> chan] ELSE NoAlarm
  ELSE IF sev = Clear THEN NoAlarm
  ELSE [sev |-> IF sev = Unset THEN old.sev ELSE sev,
        chan |-> IF chan = {} THEN {Generic} ELSE chan]

\* update_alarm, for one uid: the alarm after it, NoAlarm when it returns NULL.
Updated(old, hasText, sev, chan) ==
  IF sev = Clear \/ (old = NoAlarm /\ ~hasText) THEN NoAlarm
  ELSE IF old = NoAlarm THEN [sev |-> sev, chan |-> chan]
  ELSE [sev |-> IF sev = Unset THEN old.sev ELSE sev,
        chan |-> IF chan = {} THEN {Generic} ELSE chan]

\* The listeners cmd_setalarm tells of alarm a.
Wants(l, a) ==
  /\ alarmwatch[l] # 0
  /\ alarmwatch[l] <= a.sev
  /\ alchan[l] \cap a.chan # {}

\* gn_setalarm of alarm a, and the clearing message.
SetMessage(id, a) == [id |-> id, sev |-> a.sev, chan |-> a.chan]
ClearMessage(id) == [id |-> id, sev |-> Clear, chan |-> Channels]

-----------------------------------------------------------------------------
Init ==
  /\ alarms = [id \in Aluids |-> NoAlarm]
  /\ alarmwatch = [l \in Listeners |-> 0]
  /\ alchan = [l \in Listeners |-> {}]
  /\ phase = [l \in Listeners |-> "new"]
  /\ out = [l \in Listeners |-> <<>>]
  /\ view = [l \in Listeners |-> [id \in Aluids |-> NoAlarm]]

\* A wrong SetAlarm: a clear goes only to those who wanted the alarm.
SetAlarmClearsMatching(id, hasText, sev, chan) ==
  LET new == Updated(alarms[id], hasText, sev, chan)
      told == {l \in Listeners : IF new = NoAlarm
                                   THEN alarms[id] # NoAlarm /\ Wants(l, alarms[id])
                                   ELSE Wants(l, new)}
      m == IF new = NoAlarm THEN ClearMessage(id) ELSE SetMessage(id, new)
  IN /\ \A l \in told : Len(out[l]) < MaxOut
     /\ alarms' = [alarms EXCEPT ![id] = new]
     /\ out' = [l \in Listeners |-> IF l \in told THEN Append(out[l], m) ELSE out[l]]
     /\ UNCHANGED <<alarmwatch, alchan, phase, view>>

\* cmd_setalarm from any client.
SetAlarm(id, hasText, sev, chan) ==
  LET new == Updated(alarms[id], hasText, sev, chan)
      told == {l \in Listeners : IF new = NoAlarm THEN alarmwatch[l] > 0
                                                  ELSE Wants(l, new)}
      m == IF new = NoAlarm THEN ClearMessage(id) ELSE SetMessage(id, new)
  IN /\ \A l \in told : Len(out[l]) < MaxOut
     /\ alarms' = [alarms EXCEPT ![id] = new]
     /\ out' = [l \in Listeners |-> IF l \in told THEN Append(out[l], m) ELSE out[l]]
     /\ UNCHANGED <<alarmwatch, alchan, phase, view>>

\* cmd_listen_alarms: the minimal severity and the channels wanted.
Listen(l, sev, chan) ==
  /\ phase[l] = "new"
  /\ phase' = [phase EXCEPT ![l] = "listening"]
  /\ alarmwatch' = [alarmwatch EXCEPT ![l] = sev]
  /\ alchan' = [alchan EXCEPT ![l] = chan]
  /\ UNCHANGED <<alarms, out, view>>

\* A wrong Dump: leaves out the alarms of the lowest severity.
DumpAbove(l) ==
  LET dumped == {id \in Aluids : alarms[id] # NoAlarm /\ alarms[id].sev > 1
                                 /\ alarms[id].chan # {}}
  IN /\ phase[l] = "listening"
     /\ Len(out[l]) + Cardinality(dumped) <= MaxOut
     /\ out' = [out EXCEPT ![l] =
                  @ \o SetToSeq({SetMessage(id, alarms[id]) : id \in dumped})]
     /\ phase' = [phase EXCEPT ![l] = "synced"]
     /\ UNCHANGED <<alarms, alarmwatch, alchan, view>>

\* cmd_dump_alarms without arguments: severity 1 and up, all channels.
Dump(l) ==
  LET dumped == {id \in Aluids : alarms[id] # NoAlarm /\ alarms[id].sev >= 1
                                 /\ alarms[id].chan # {}}
  IN /\ phase[l] = "listening"
     /\ Len(out[l]) + Cardinality(dumped) <= MaxOut
     /\ out' = [out EXCEPT ![l] =
                  @ \o SetToSeq({SetMessage(id, alarms[id]) : id \in dumped})]
     /\ phase' = [phase EXCEPT ![l] = "synced"]
     /\ UNCHANGED <<alarms, alarmwatch, alchan, view>>

\* cmd_alarm in the listener: the next setalarm on its connection.
Receive(l) ==
  /\ out[l] # <<>>
  /\ LET m == Head(out[l])
     IN view' = [view EXCEPT ![l][m.id] = Updated(@, TRUE, m.sev, m.chan)]
  /\ out' = [out EXCEPT ![l] = Tail(@)]
  /\ UNCHANGED <<alarms, alarmwatch, alchan, phase>>

\* The connection ends: gnhastd forgets the client, the listener its table.
Close(l) ==
  /\ phase[l] # "new"
  /\ phase' = [phase EXCEPT ![l] = "new"]
  /\ alarmwatch' = [alarmwatch EXCEPT ![l] = 0]
  /\ alchan' = [alchan EXCEPT ![l] = {}]
  /\ out' = [out EXCEPT ![l] = <<>>]
  /\ view' = [view EXCEPT ![l] = [id \in Aluids |-> NoAlarm]]
  /\ UNCHANGED alarms

Next ==
  \/ \E id \in Aluids, hasText \in BOOLEAN,
        sev \in Severities \cup {Unset, Clear}, chan \in SUBSET Channels :
       SetAlarm(id, hasText, sev, chan)
  \/ \E l \in Listeners :
       \/ \E sev \in Severities, chan \in SUBSET Channels : Listen(l, sev, chan)
       \/ Dump(l) \/ Receive(l) \/ Close(l)

Spec == Init /\ [][Next]_vars

\* A listener reads what it is sent.
LiveSpec == Spec /\ \A l \in Listeners : WF_vars(Receive(l))

-----------------------------------------------------------------------------
\* Type invariant of the alarm table, the listeners and their connections.
TypeOK ==
  /\ alarms \in [Aluids -> Alarm \cup {NoAlarm}]
  /\ alarmwatch \in [Listeners -> 0 .. MaxSev]
  /\ alchan \in [Listeners -> SUBSET Channels]
  /\ phase \in [Listeners -> {"new", "listening", "synced"}]
  /\ out \in [Listeners -> Seq(Message)]
  /\ \A l \in Listeners : Len(out[l]) <= MaxOut
  /\ view \in [Listeners -> [Aluids -> Alarm \cup {NoAlarm}]]

\* A table that has v for id will have a, when the messages q are read: the last
\* one about id decides, or v when there is none.
About(q, id) == {i \in DOMAIN q : q[i].id = id}
Reads(q, id, v, a) ==
  IF About(q, id) = {} THEN v = a
  ELSE \A i \in About(q, id) :
         (\A j \in About(q, id) : j <= i) => Updated(v, TRUE, q[i].sev, q[i].chan) = a
WillSee(l, id, a) == Reads(out[l], id, view[l][id], a)

\* A listener that has read everything shows no alarm that gnhastd has cleared,
\* however clears, dumps and sets were ordered: cmd_setalarm tells everyone.
NoGhostAlarm ==
  \A l \in Listeners, id \in Aluids :
    phase[l] # "new" /\ alarms[id] = NoAlarm => WillSee(l, id, NoAlarm)

\* After listen and dump a listener misses no alarm it wants, and has its
\* current severity and channels, an alarm set between the two included.
NoMissedAlarm ==
  \A l \in Listeners, id \in Aluids :
    /\ phase[l] = "synced"
    /\ alarms[id] # NoAlarm
    /\ Wants(l, alarms[id])
    => WillSee(l, id, alarms[id])

\* A cleared alarm leaves every listener's table, unless it is set again or the
\* listener goes away.
Forgotten(l, id) ==
  phase[l] # "new" /\ alarms[id] = NoAlarm => view[l][id] = NoAlarm
=============================================================================
