---------------------------- MODULE AlarmsProofs ----------------------------
(***************************************************************************)
(* Lemmas about Alarms, for every set of listeners, alarms and channels: a *)
(* listener's table and the messages on their way to it agree with the     *)
(* alarms of gnhastd.  A message says all there is to say of an alarm, so  *)
(* only the last one about each alarm matters; the invariant follows it    *)
(* through the connection.  The theorem of the specification is in         *)
(* GnhastdProofs, which uses these lemmas of the instance that is checked. *)
(***************************************************************************)
EXTENDS Alarms, FiniteSetTheorems, SequenceTheorems, TLAPS

\* What gnhastd sends: a message has channels.
Sent == {m \in Message : m.chan # {}}

\* What a message makes of the alarm, whatever it was.
Says(m) == IF m.sev = Clear THEN NoAlarm ELSE [sev |-> m.sev, chan |-> m.chan]

\* Only those who listen are told, and they have nothing of an earlier connection.
OnlyListeners ==
  \A l \in Listeners :
    /\ phase[l] = "new" <=> alarmwatch[l] = 0
    /\ phase[l] = "new" => out[l] = <<>> /\ \A id \in Aluids : view[l][id] = NoAlarm

IInv ==
  /\ TypeOK
  /\ out \in [Listeners -> Seq(Sent)]
  /\ OnlyListeners
  /\ NoGhostAlarm
  /\ NoMissedAlarm

-----------------------------------------------------------------------------
(* Lemmas about messages and sequences of them. *)

\* The messages of a dump, put in a sequence, are just those of the set.
LEMMA SetToSeqLists ==
  ASSUME NEW S, IsFiniteSet(S)
  PROVE  /\ SetToSeq(S) \in Seq(S)
         /\ Len(SetToSeq(S)) = Cardinality(S)
         /\ \A x \in S : \E i \in 1 .. Len(SetToSeq(S)) : SetToSeq(S)[i] = x
<1> DEFINE n == Cardinality(S)
<1>1. n \in Nat /\ Bijection(1..n, S) # {}
  BY FS_CardinalityType DEF ExistsBijection
<1>2. \E f \in [1..n -> S] : IsInjective(f)
  BY <1>1 DEF Bijection, Injection
<1>3. SetToSeq(S) \in [1..n -> S] /\ IsInjective(SetToSeq(S))
  BY <1>2 DEF SetToSeq
<1>4. SetToSeq(S) \in Injection(1..n, S) BY <1>3 DEF Injection
<1>5. Cardinality(1..n) = n BY <1>1, FS_Interval
<1>6. SetToSeq(S) \in Surjection(1..n, S) BY <1>4, <1>5, FS_Injection
<1>7. SetToSeq(S) \in Seq(S) /\ Len(SetToSeq(S)) = n BY <1>1, <1>3
<1> QED BY <1>6, <1>7 DEF Surjection

\* A message makes the same of every alarm.
LEMMA UpdatedSays ==
  ASSUME AlarmsAssumption, NEW old, NEW m \in Sent
  PROVE  /\ Updated(old, TRUE, m.sev, m.chan) = Says(m)
         /\ Says(m) \in Alarm \cup {NoAlarm}
<1>1. m.sev \in Nat /\ m.chan # {} BY DEF AlarmsAssumption, Sent, Message, Severities, Clear
<1>2. m.sev # Unset BY <1>1 DEF Unset
<1>3. CASE m.sev = Clear BY <1>3 DEF Updated, Says
<1>4. CASE m.sev # Clear
  <2>1. [sev |-> m.sev, chan |-> m.chan] \in Alarm
    BY <1>4 DEF Sent, Message, Alarm
  <2> QED BY <1>1, <1>2, <1>4, <2>1 DEF Updated, Says
<1> QED BY <1>3, <1>4

\* update_alarm returns an alarm or none.
LEMMA UpdatedType ==
  ASSUME AlarmsAssumption, NEW old \in Alarm \cup {NoAlarm}, NEW hasText \in BOOLEAN,
         NEW sev \in Severities \cup {Unset, Clear}, NEW chan \in SUBSET Channels
  PROVE  Updated(old, hasText, sev, chan) \in Alarm \cup {NoAlarm}
<1>1. CASE sev = Clear \/ (old = NoAlarm /\ ~hasText) BY <1>1 DEF Updated
<1>2. CASE sev # Clear /\ old = NoAlarm /\ hasText BY <1>2 DEF Updated, Alarm
<1>3. CASE sev # Clear /\ old # NoAlarm
  <2>1. old.sev \in Severities \cup {Unset} BY <1>3 DEF Alarm
  <2>2. {Generic} \in SUBSET Channels BY DEF AlarmsAssumption
  <2> DEFINE s == IF sev = Unset THEN old.sev ELSE sev
             c == IF chan = {} THEN {Generic} ELSE chan
  <2>3. s \in Severities \cup {Unset} /\ c \in SUBSET Channels BY <1>3, <2>1, <2>2
  <2>4. [sev |-> s, chan |-> c] \in Alarm BY <2>3 DEF Alarm
  <2> QED BY <1>3, <2>4 DEF Updated
<1> QED BY <1>1, <1>2, <1>3

\* What will be read, in terms of what the messages say.
LEMMA ReadsSays ==
  ASSUME AlarmsAssumption, NEW q \in Seq(Sent), NEW id, NEW v, NEW a
  PROVE  Reads(q, id, v, a) <=>
           IF About(q, id) = {} THEN v = a
           ELSE \A i \in About(q, id) : (\A j \in About(q, id) : j <= i) => Says(q[i]) = a
<1>1. \A i \in About(q, id) : q[i] \in Sent
  BY LenProperties, ElementOfSeq DEF About
<1>2. \A i \in About(q, id) : Updated(v, TRUE, q[i].sev, q[i].chan) = Says(q[i])
  BY <1>1, UpdatedSays
<1> QED BY <1>2 DEF Reads

\* Messages about other alarms change nothing.
LEMMA ReadsOthers ==
  ASSUME AlarmsAssumption, NEW q \in Seq(Sent), NEW d \in Seq(Sent),
         NEW id, NEW v, NEW a,
         \A i \in 1 .. Len(d) : d[i].id # id
  PROVE  Reads(q \o d, id, v, a) <=> Reads(q, id, v, a)
<1>1. /\ Len(q) \in Nat /\ Len(d) \in Nat /\ DOMAIN q = 1 .. Len(q)
      /\ DOMAIN (q \o d) = 1 .. Len(q) + Len(d)
      /\ \A i \in 1 .. Len(q) + Len(d) :
           (q \o d)[i] = IF i <= Len(q) THEN q[i] ELSE d[i - Len(q)]
  BY ConcatProperties, LenProperties
<1>2. ASSUME NEW i \in 1 .. Len(q) + Len(d), ~(i <= Len(q))
      PROVE  (q \o d)[i].id # id
  BY <1>1, <1>2
<1>3. About(q \o d, id) = About(q, id) BY <1>1, <1>2 DEF About
<1>4. \A i \in About(q, id) : (q \o d)[i] = q[i] BY <1>1 DEF About
<1>5. q \o d \in Seq(Sent) BY ConcatProperties
<1>6. \A i \in About(q, id) : Says((q \o d)[i]) = Says(q[i]) BY <1>4
<1> DEFINE Told == \/ About(q, id) = {} /\ v = a
                   \/ /\ About(q, id) # {}
                      /\ \A i \in About(q, id) : (\A j \in About(q, id) : j <= i) => Says(q[i]) = a
<1>7. Reads(q, id, v, a) <=> Told BY ReadsSays
<1>8. Reads(q \o d, id, v, a) <=> Told BY <1>3, <1>5, <1>6, ReadsSays
<1> QED BY <1>7, <1>8

\* Messages that all say the same of the alarm decide it.
LEMMA ReadsLast ==
  ASSUME AlarmsAssumption, NEW q \in Seq(Sent), NEW d \in Seq(Sent),
         NEW id, NEW v, NEW a,
         \E i \in 1 .. Len(d) : d[i].id = id,
         \A i \in 1 .. Len(d) : d[i].id = id => Says(d[i]) = a
  PROVE  Reads(q \o d, id, v, a)
<1>1. /\ Len(q) \in Nat /\ Len(d) \in Nat
      /\ DOMAIN (q \o d) = 1 .. Len(q) + Len(d)
      /\ \A i \in 1 .. Len(q) + Len(d) :
           (q \o d)[i] = IF i <= Len(q) THEN q[i] ELSE d[i - Len(q)]
  BY ConcatProperties, LenProperties
<1>2. PICK k \in 1 .. Len(d) : d[k].id = id OBVIOUS
<1>3. Len(q) + k \in About(q \o d, id) BY <1>1, <1>2 DEF About
<1>4. ASSUME NEW i \in About(q \o d, id), \A j \in About(q \o d, id) : j <= i
      PROVE  Says((q \o d)[i]) = a
  <2>1. i \in 1 .. Len(q) + Len(d) /\ (q \o d)[i].id = id BY <1>1 DEF About
  <2>2. Len(q) + k <= i BY <1>3, <1>4
  <2>3. i - Len(q) \in 1 .. Len(d) /\ (q \o d)[i] = d[i - Len(q)] BY <1>1, <2>1, <2>2
  <2> QED BY <2>1, <2>3
<1>5. q \o d \in Seq(Sent) BY ConcatProperties
<1> QED BY <1>3, <1>4, <1>5, ReadsSays

\* Reading a message changes nothing of what the table will hold in the end.
LEMMA ReadsNext ==
  ASSUME AlarmsAssumption, NEW q \in Seq(Sent), q # <<>>, NEW id, NEW v, NEW a, Reads(q, id, v, a)
  PROVE  Reads(Tail(q), id, IF Head(q).id = id THEN Says(Head(q)) ELSE v, a)
<1>1. /\ Len(q) \in Nat \ {0} /\ DOMAIN q = 1 .. Len(q) /\ q[1] = Head(q)
      /\ Tail(q) \in Seq(Sent) /\ DOMAIN Tail(q) = 1 .. Len(q) - 1
      /\ \A i \in 1 .. Len(q) - 1 : Tail(q)[i] = q[i + 1]
  BY HeadTailProperties, LenProperties, EmptySeq
<1>2. \A i \in About(Tail(q), id) : i \in Nat /\ i + 1 \in About(q, id) /\ Tail(q)[i] = q[i + 1]
  BY <1>1 DEF About
<1>3. \A i \in About(q, id) : i = 1 \/ i - 1 \in About(Tail(q), id)
  BY <1>1 DEF About
<1>4. CASE About(Tail(q), id) = {}
  <2>1. CASE Head(q).id = id
    <3>1. \A j \in About(q, id) : j = 1 BY <1>3, <1>4
    <3>2. 1 \in About(q, id) BY <1>1, <2>1 DEF About
    <3>3. \A j \in About(q, id) : j <= 1 BY <3>1
    <3>4. Says(q[1]) = a BY <3>2, <3>3, ReadsSays
    <3> QED BY <1>4, <2>1, <3>4, <1>1 DEF Reads
  <2>2. CASE Head(q).id # id
    <3>1. About(q, id) = {} BY <1>1, <1>3, <1>4, <2>2 DEF About
    <3> QED BY <1>4, <2>2, <3>1 DEF Reads
  <2> QED BY <2>1, <2>2
<1>5. CASE About(Tail(q), id) # {}
  <2>1. ASSUME NEW i \in About(Tail(q), id), \A j \in About(Tail(q), id) : j <= i
        PROVE  Says(Tail(q)[i]) = a
    <3>1. \A j \in About(q, id) : j \in Int /\ (j = 1 \/ j - 1 <= i) BY <1>1, <1>3, <2>1 DEF About
    <3>2. i \in Nat /\ i >= 1 BY <1>1 DEF About
    <3>3. \A j \in About(q, id) : j <= i + 1 BY <3>1, <3>2
    <3>4. i + 1 \in About(q, id) /\ Tail(q)[i] = q[i + 1] BY <1>2
    <3> QED BY <3>3, <3>4, ReadsSays
  <2> QED BY <1>1, <1>5, <2>1, ReadsSays
<1> QED BY <1>4, <1>5

-----------------------------------------------------------------------------
\* Nobody listens yet.
LEMMA InitI ==
  ASSUME AlarmsAssumption, Init
  PROVE  IInv
<1> USE DEF Init
<1>1. TypeOK BY EmptySeq DEF AlarmsAssumption, TypeOK
<1>2. out \in [Listeners -> Seq(Sent)] BY EmptySeq
<1>3. OnlyListeners BY DEF OnlyListeners
<1>4. NoGhostAlarm /\ NoMissedAlarm BY DEF NoGhostAlarm, NoMissedAlarm
<1> QED BY <1>1, <1>2, <1>3, <1>4 DEF IInv

\* A change of an alarm: the listeners that are told read the new one last, those
\* that are not have no interest in it.
LEMMA SetAlarmI ==
  ASSUME AlarmsAssumption, IInv,
         NEW id \in Aluids, NEW hasText \in BOOLEAN,
         NEW sev \in Severities \cup {Unset, Clear}, NEW chan \in SUBSET Channels,
         SetAlarm(id, hasText, sev, chan)
  PROVE  IInv'
<1> DEFINE new == Updated(alarms[id], hasText, sev, chan)
           told == {l \in Listeners : IF new = NoAlarm THEN alarmwatch[l] > 0
                                                       ELSE Wants(l, new)}
           m == IF new = NoAlarm THEN ClearMessage(id) ELSE SetMessage(id, new)
<1>1. /\ \A l \in told : Len(out[l]) < MaxOut
      /\ alarms' = [alarms EXCEPT ![id] = new]
      /\ out' = [l \in Listeners |-> IF l \in told THEN Append(out[l], m) ELSE out[l]]
      /\ UNCHANGED <<alarmwatch, alchan, phase, view>>
  BY DEF SetAlarm
<1>2. TypeOK /\ out \in [Listeners -> Seq(Sent)] /\ OnlyListeners BY DEF IInv
<1>3. new \in Alarm \cup {NoAlarm} BY <1>2, UpdatedType DEF TypeOK
<1> HIDE DEF new
<1>4. ASSUME NEW l \in told
      PROVE  m \in Sent /\ Says(m) = new
  <2>1. CASE new = NoAlarm
    <3>1. ClearMessage(id) \in Message /\ Channels # {}
      BY DEF ClearMessage, Message, AlarmsAssumption
    <3> QED BY <2>1, <3>1 DEF Sent, ClearMessage, Says
  <2>2. CASE new # NoAlarm
    <3>1. /\ new \in Alarm /\ alarmwatch[l] \in 0 .. MaxSev /\ MaxSev \in Nat
          /\ alarmwatch[l] # 0 /\ alarmwatch[l] <= new.sev /\ new.chan # {}
      BY <1>2, <1>3, <2>2 DEF Wants, TypeOK, AlarmsAssumption
    <3>2. new.sev \in Severities /\ new.sev # Clear /\ new.chan \in SUBSET Channels
      BY <3>1 DEF Alarm, Severities, Unset, Clear
    <3>3. new = [sev |-> new.sev, chan |-> new.chan] BY <3>1 DEF Alarm
    <3>4. SetMessage(id, new) \in Sent
      BY <3>1, <3>2 DEF SetMessage, Sent, Message
    <3> QED BY <2>2, <3>2, <3>3, <3>4 DEF SetMessage, Says
  <2> QED BY <2>1, <2>2
<1>5. out' \in [Listeners -> Seq(Sent)] BY <1>1, <1>2, <1>4, AppendProperties
<1>6. TypeOK'
  <2>1. \A l \in Listeners : Len(out'[l]) <= MaxOut
    BY <1>1, <1>2, <1>4, AppendProperties, LenProperties DEF TypeOK, AlarmsAssumption
  <2>2. Seq(Sent) \subseteq Seq(Message) BY SeqMonotonic DEF Sent
  <2>3. out' \in [Listeners -> Seq(Message)] BY <1>5, <2>2
  <2> QED BY <1>1, <1>2, <1>3, <2>1, <2>3 DEF TypeOK
<1>7. OnlyListeners'
  <2>1. ASSUME NEW l \in Listeners, phase[l] = "new" PROVE l \notin told
    BY <1>2, <2>1 DEF OnlyListeners, Wants
  <2> QED BY <1>1, <1>2, <2>1 DEF OnlyListeners
<1>8. ASSUME NEW l \in Listeners, NEW x \in Aluids, NEW a, l \in told => x # id
      PROVE  WillSee(l, x, a) => WillSee(l, x, a)'
  <2>1. CASE l \in told
    <3>1. out'[l] = out[l] \o <<m>> BY <1>1, <1>2, <1>4, <2>1, AppendIsConcat
    <3>2. m.id = id BY DEF ClearMessage, SetMessage
    <3>3. <<m>> \in Seq(Sent) /\ \A i \in 1 .. Len(<<m>>) : <<m>>[i].id # x
      BY <1>4, <1>8, <2>1, <3>2
    <3>4. out[l] \in Seq(Sent) BY <1>2
    <3>5. Reads(out[l] \o <<m>>, x, view[l][x], a) <=> Reads(out[l], x, view[l][x], a)
      BY <3>3, <3>4, ReadsOthers
    <3> QED BY <1>1, <3>1, <3>5 DEF WillSee
  <2>2. CASE l \notin told
    BY <1>1, <2>2 DEF WillSee
  <2> QED BY <2>1, <2>2
<1>9. ASSUME NEW l \in told
      PROVE  Reads(out'[l], id, view'[l][id], new)
  <2>1. out'[l] = out[l] \o <<m>> BY <1>1, <1>2, <1>4, AppendIsConcat
  <2>2. m.id = id BY DEF ClearMessage, SetMessage
  <2>3. /\ <<m>> \in Seq(Sent) /\ 1 \in 1 .. Len(<<m>>) /\ <<m>>[1] = m
        /\ \A i \in 1 .. Len(<<m>>) : <<m>>[i] = m
    BY <1>4
  <2>4. Reads(out'[l], id, view[l][id], new)
    BY <1>2, <1>4, <2>1, <2>2, <2>3, ReadsLast
  <2> QED BY <1>1, <2>4
<1>10. NoGhostAlarm'
  <2> SUFFICES ASSUME NEW l \in Listeners, NEW x \in Aluids,
                      phase'[l] # "new", alarms'[x] = NoAlarm
               PROVE  WillSee(l, x, NoAlarm)'
    BY DEF NoGhostAlarm
  <2>1. CASE x = id
    <3>1. new = NoAlarm BY <1>1, <1>2, <2>1 DEF TypeOK
    <3>2. alarmwatch[l] # 0 BY <1>1, <1>2 DEF OnlyListeners
    <3>3. l \in told BY <1>2, <3>1, <3>2 DEF TypeOK, AlarmsAssumption
    <3> QED BY <1>9, <2>1, <3>1, <3>3 DEF WillSee
  <2>2. CASE x # id
    <3>1. alarms[x] = NoAlarm BY <1>1, <1>2, <2>2 DEF TypeOK
    <3> QED BY <1>1, <1>8, <2>2, <3>1 DEF IInv, NoGhostAlarm
  <2> QED BY <2>1, <2>2
<1>11. NoMissedAlarm'
  <2> SUFFICES ASSUME NEW l \in Listeners, NEW x \in Aluids, phase'[l] = "synced",
                      alarms'[x] # NoAlarm, Wants(l, alarms[x])'
               PROVE  WillSee(l, x, alarms[x])'
    BY DEF NoMissedAlarm
  <2>1. CASE x = id
    <3>1. alarms'[x] = new BY <1>1, <1>2, <2>1 DEF TypeOK
    <3>2. l \in told BY <1>1, <3>1 DEF Wants
    <3> QED BY <1>9, <2>1, <3>1, <3>2 DEF WillSee
  <2>2. CASE x # id
    <3>1. alarms'[x] = alarms[x] BY <1>1, <1>2, <2>2 DEF TypeOK
    <3>2. Wants(l, alarms[x]) BY <1>1, <3>1 DEF Wants
    <3>3. WillSee(l, x, alarms[x]) BY <1>1, <3>1, <3>2 DEF IInv, NoMissedAlarm
    <3>4. WillSee(l, x, alarms[x]) => \E a : a = alarms[x] /\ WillSee(l, x, a)' BY <1>8, <2>2
    <3> QED BY <3>1, <3>3, <3>4 DEF WillSee
  <2> QED BY <2>1, <2>2
<1> QED BY <1>5, <1>6, <1>7, <1>10, <1>11 DEF IInv

\* A listener starts with an empty table and nothing under way.
LEMMA ListenI ==
  ASSUME AlarmsAssumption, IInv,
         NEW l \in Listeners, NEW sev \in Severities, NEW chan \in SUBSET Channels,
         Listen(l, sev, chan)
  PROVE  IInv'
<1> USE DEF Listen, IInv
<1>1. sev \in 0 .. MaxSev /\ sev # 0 BY DEF AlarmsAssumption, Severities
<1>2. TypeOK' BY <1>1 DEF TypeOK
<1>3. OnlyListeners' BY <1>1 DEF OnlyListeners, TypeOK
<1>4. NoGhostAlarm'
  <2> SUFFICES ASSUME NEW k \in Listeners, NEW id \in Aluids,
                      phase'[k] # "new", alarms'[id] = NoAlarm
               PROVE  WillSee(k, id, NoAlarm)
    BY DEF NoGhostAlarm, WillSee
  <2>1. CASE k = l
    <3>1. out[l] = <<>> /\ view[l][id] = NoAlarm BY DEF OnlyListeners
    <3>2. About(<<>>, id) = {} BY EmptySeq DEF About
    <3> QED BY <2>1, <3>1, <3>2 DEF WillSee, Reads
  <2>2. CASE k # l
    BY <2>2 DEF NoGhostAlarm, TypeOK
  <2> QED BY <2>1, <2>2
<1>5. NoMissedAlarm'
  <2> SUFFICES ASSUME NEW k \in Listeners, NEW id \in Aluids, phase'[k] = "synced",
                      alarms[id] # NoAlarm, Wants(k, alarms[id])'
               PROVE  WillSee(k, id, alarms[id])
    BY DEF NoMissedAlarm, WillSee
  <2>1. k # l /\ phase[k] = "synced" BY DEF TypeOK
  <2> QED BY <2>1 DEF NoMissedAlarm, Wants
<1> QED BY <1>2, <1>3, <1>4, <1>5

\* The dump tells of every alarm that the listener wants, once.
LEMMA DumpI ==
  ASSUME AlarmsAssumption, IInv, NEW l \in Listeners, Dump(l)
  PROVE  IInv'
<1> DEFINE dumped == {id \in Aluids : alarms[id] # NoAlarm /\ alarms[id].sev >= 1
                                       /\ alarms[id].chan # {}}
           lines == {SetMessage(id, alarms[id]) : id \in dumped}
           d == SetToSeq(lines)
<1>1. /\ phase[l] = "listening"
      /\ Len(out[l]) + Cardinality(dumped) <= MaxOut
      /\ out' = [out EXCEPT ![l] = @ \o d]
      /\ phase' = [phase EXCEPT ![l] = "synced"]
      /\ UNCHANGED <<alarms, alarmwatch, alchan, view>>
  BY DEF Dump
<1>2. TypeOK /\ out \in [Listeners -> Seq(Sent)] /\ OnlyListeners BY DEF IInv
<1>3. ASSUME NEW id \in dumped
      PROVE  /\ SetMessage(id, alarms[id]) \in Sent
             /\ Says(SetMessage(id, alarms[id])) = alarms[id]
  <2>1. alarms[id] \in Alarm /\ alarms[id].sev >= 1 /\ alarms[id].chan # {}
    BY <1>2 DEF TypeOK
  <2>2. alarms[id].sev \in Severities /\ alarms[id].sev # Clear
    BY <2>1 DEF Alarm, Unset, Clear
  <2> QED BY <2>1, <2>2 DEF Alarm, SetMessage, Sent, Message, Says
<1>4. IsFiniteSet(lines) /\ Cardinality(lines) \in Nat /\ Cardinality(dumped) \in Nat
      /\ Cardinality(lines) <= Cardinality(dumped)
  <2>1. IsFiniteSet(dumped) BY FS_Subset DEF AlarmsAssumption
  <2>2. IsFiniteSet(lines) /\ Cardinality(lines) <= Cardinality(dumped)
    <3> DEFINE f == [id \in dumped |-> SetMessage(id, alarms[id])]
    <3>1. f \in Surjection(dumped, lines) BY DEF Surjection
    <3> HIDE DEF f, dumped, lines
    <3> QED BY <2>1, <3>1, FS_Surjection
  <2> QED BY <2>1, <2>2, FS_CardinalityType
<1>5. /\ d \in Seq(lines) /\ Len(d) = Cardinality(lines)
      /\ \A x \in lines : \E i \in 1 .. Len(d) : d[i] = x
  BY <1>4, SetToSeqLists
<1>6. lines \subseteq Sent BY <1>3
<1>7. d \in Seq(Sent) BY <1>5, <1>6, SeqMonotonic
<1>8. \A i \in 1 .. Len(d) : d[i] \in lines BY <1>5, ElementOfSeq
<1> HIDE DEF d, lines, dumped
<1>9. out'[l] = out[l] \o d /\ out[l] \in Seq(Sent) BY <1>1, <1>2
<1>10. out' \in [Listeners -> Seq(Sent)]
  <2>1. out'[l] \in Seq(Sent) BY <1>7, <1>9, ConcatProperties
  <2> QED BY <1>1, <1>2, <1>9, <2>1
<1>11. TypeOK'
  <2>1. Len(out'[l]) <= MaxOut
    BY <1>1, <1>4, <1>5, <1>7, <1>9, ConcatProperties, LenProperties DEF AlarmsAssumption
  <2>2. Seq(Sent) \subseteq Seq(Message) BY SeqMonotonic DEF Sent
  <2>3. out' \in [Listeners -> Seq(Message)] BY <1>10, <2>2
  <2>4. \A k \in Listeners : k # l => out'[k] = out[k] BY <1>1, <1>2
  <2> QED BY <1>1, <1>2, <2>1, <2>3, <2>4 DEF TypeOK
<1>12. OnlyListeners' BY <1>1, <1>2 DEF OnlyListeners, TypeOK
<1>13. ASSUME NEW id \in Aluids, NEW a, id \notin dumped, WillSee(l, id, a)
       PROVE  Reads(out'[l], id, view[l][id], a)
  <2>1. \A x \in lines : x.id # id BY <1>13 DEF lines, SetMessage
  <2>2. \A i \in 1 .. Len(d) : d[i].id # id BY <1>8, <2>1
  <2> QED BY <1>7, <1>9, <1>13, <2>2, ReadsOthers DEF WillSee
<1>14. ASSUME NEW id \in dumped
       PROVE  Reads(out'[l], id, view[l][id], alarms[id])
  <2>1. \A x \in lines : x.id = id => Says(x) = alarms[id]
    BY <1>3 DEF lines, SetMessage
  <2>2. SetMessage(id, alarms[id]) \in lines /\ SetMessage(id, alarms[id]).id = id
    BY DEF lines, SetMessage
  <2>3. \E i \in 1 .. Len(d) : d[i].id = id BY <1>5, <2>2
  <2>4. \A i \in 1 .. Len(d) : d[i].id = id => Says(d[i]) = alarms[id] BY <1>8, <2>1
  <2> QED BY <1>7, <1>9, <2>3, <2>4, ReadsLast
<1>15. NoGhostAlarm'
  <2> SUFFICES ASSUME NEW k \in Listeners, NEW id \in Aluids,
                      phase'[k] # "new", alarms[id] = NoAlarm
               PROVE  Reads(out'[k], id, view[k][id], NoAlarm)
    BY <1>1 DEF NoGhostAlarm, WillSee
  <2>1. WillSee(k, id, NoAlarm) BY <1>1, <1>2 DEF IInv, NoGhostAlarm, TypeOK
  <2>2. CASE k = l
    <3>1. id \notin dumped BY DEF dumped
    <3> QED BY <1>13, <2>1, <2>2, <3>1
  <2>3. CASE k # l BY <1>1, <1>2, <2>1, <2>3 DEF WillSee
  <2> QED BY <2>2, <2>3
<1>16. NoMissedAlarm'
  <2> SUFFICES ASSUME NEW k \in Listeners, NEW id \in Aluids, phase'[k] = "synced",
                      alarms[id] # NoAlarm, Wants(k, alarms[id])
               PROVE  Reads(out'[k], id, view[k][id], alarms[id])
    BY <1>1 DEF NoMissedAlarm, WillSee, Wants
  <2>1. CASE k = l
    <3>1. /\ alarms[id] \in Alarm /\ alarms[id].chan # {}
          /\ alarmwatch[l] \in 0 .. MaxSev /\ alarmwatch[l] # 0
          /\ alarmwatch[l] <= alarms[id].sev
      BY <1>2, <2>1 DEF Wants, TypeOK
    <3>2. alarms[id].sev >= 1 BY <3>1 DEF Alarm, Severities, Unset, AlarmsAssumption
    <3>3. id \in dumped BY <3>1, <3>2 DEF dumped
    <3> QED BY <1>14, <2>1, <3>3
  <2>2. CASE k # l
    <3>1. phase[k] = "synced" /\ out'[k] = out[k] BY <1>1, <1>2, <2>2 DEF TypeOK
    <3> QED BY <3>1 DEF IInv, NoMissedAlarm, WillSee
  <2> QED BY <2>1, <2>2
<1> QED BY <1>10, <1>11, <1>12, <1>15, <1>16 DEF IInv

\* Reading a message takes the table a step to where the messages lead it.
LEMMA ReceiveI ==
  ASSUME AlarmsAssumption, IInv, NEW l \in Listeners, Receive(l)
  PROVE  IInv'
<1> DEFINE m == Head(out[l])
<1>1. TypeOK /\ out \in [Listeners -> Seq(Sent)] /\ OnlyListeners BY DEF IInv
<1>2. out[l] \in Seq(Sent) /\ out[l] # <<>> BY <1>1 DEF Receive
<1>3. m \in Sent /\ Tail(out[l]) \in Seq(Sent) /\ Len(Tail(out[l])) = Len(out[l]) - 1
      /\ Len(out[l]) \in Nat
  BY <1>2, HeadTailProperties, LenProperties
<1>4. m.id \in Aluids BY <1>3 DEF Sent, Message
<1> HIDE DEF m
<1>5. /\ view' = [view EXCEPT ![l][m.id] = Says(m)]
      /\ out' = [out EXCEPT ![l] = Tail(@)]
      /\ UNCHANGED <<alarms, alarmwatch, alchan, phase>>
  BY <1>1, <1>3, <1>4, UpdatedSays DEF Receive, TypeOK, m
<1>6. Says(m) \in Alarm \cup {NoAlarm} BY <1>3, UpdatedSays
<1>7. out' \in [Listeners -> Seq(Sent)] BY <1>1, <1>3, <1>5
<1>8. TypeOK'
  <2>1. \A k \in Listeners : Len(out'[k]) <= MaxOut
    BY <1>1, <1>3, <1>5 DEF TypeOK, AlarmsAssumption
  <2>2. Seq(Sent) \subseteq Seq(Message) BY SeqMonotonic DEF Sent
  <2>3. view' \in [Listeners -> [Aluids -> Alarm \cup {NoAlarm}]]
    BY <1>1, <1>4, <1>5, <1>6 DEF TypeOK
  <2>4. out' \in [Listeners -> Seq(Message)] BY <1>7, <2>2
  <2> QED BY <1>1, <1>5, <2>1, <2>3, <2>4 DEF TypeOK
<1>9. OnlyListeners'
  <2>1. phase[l] # "new" BY <1>1, <1>2 DEF OnlyListeners
  <2>2. \A k \in Listeners : k # l => out'[k] = out[k] /\ view'[k] = view[k]
    BY <1>1, <1>5 DEF TypeOK
  <2> QED BY <1>1, <1>5, <2>1, <2>2 DEF OnlyListeners
<1>10. ASSUME NEW k \in Listeners, NEW id \in Aluids, NEW a, WillSee(k, id, a)
       PROVE  Reads(out'[k], id, view'[k][id], a)
  <2>1. CASE k = l
    <3>1. out'[l] = Tail(out[l]) BY <1>1, <1>5
    <3>2. view'[l][id] = IF m.id = id THEN Says(m) ELSE view[l][id]
      BY <1>1, <1>4, <1>5 DEF TypeOK
    <3> QED BY <1>2, <1>10, <2>1, <3>1, <3>2, ReadsNext DEF WillSee, m
  <2>2. CASE k # l
    BY <1>1, <1>5, <1>10, <2>2 DEF WillSee, TypeOK
  <2> QED BY <2>1, <2>2
<1>11. NoGhostAlarm' BY <1>5, <1>10 DEF IInv, NoGhostAlarm, WillSee
<1>12. NoMissedAlarm' BY <1>5, <1>10 DEF IInv, NoMissedAlarm, WillSee, Wants
<1> QED BY <1>7, <1>8, <1>9, <1>11, <1>12 DEF IInv

\* With the connection everything that was on it is gone.
LEMMA CloseI ==
  ASSUME AlarmsAssumption, IInv, NEW l \in Listeners, Close(l)
  PROVE  IInv'
<1> USE DEF Close, IInv
<1>1. TypeOK' /\ out' \in [Listeners -> Seq(Sent)]
  BY EmptySeq DEF TypeOK, AlarmsAssumption
<1>2. OnlyListeners' BY DEF OnlyListeners, TypeOK
<1>3. \A k \in Listeners : phase'[k] # "new" =>
        phase[k] = phase'[k] /\ out'[k] = out[k] /\ view'[k] = view[k]
        /\ alarmwatch'[k] = alarmwatch[k] /\ alchan'[k] = alchan[k]
  BY DEF TypeOK
<1>4. NoGhostAlarm' BY <1>3 DEF NoGhostAlarm, WillSee
<1>5. NoMissedAlarm' BY <1>3 DEF NoMissedAlarm, WillSee, Wants
<1> QED BY <1>1, <1>2, <1>4, <1>5

LEMMA StepI ==
  ASSUME AlarmsAssumption, IInv, [Next]_vars
  PROVE  IInv'
<1>1. ASSUME NEW id \in Aluids, NEW hasText \in BOOLEAN,
             NEW sev \in Severities \cup {Unset, Clear}, NEW chan \in SUBSET Channels,
             SetAlarm(id, hasText, sev, chan)
      PROVE  IInv'
  BY <1>1, SetAlarmI
<1>2. ASSUME NEW l \in Listeners, NEW sev \in Severities, NEW chan \in SUBSET Channels,
             Listen(l, sev, chan)
      PROVE  IInv'
  BY <1>2, ListenI
<1>3. ASSUME NEW l \in Listeners, Dump(l) PROVE IInv' BY <1>3, DumpI
<1>4. ASSUME NEW l \in Listeners, Receive(l) PROVE IInv' BY <1>4, ReceiveI
<1>5. ASSUME NEW l \in Listeners, Close(l) PROVE IInv' BY <1>5, CloseI
<1>6. CASE UNCHANGED vars
  BY <1>6 DEF vars, IInv, TypeOK, OnlyListeners, NoGhostAlarm, NoMissedAlarm, WillSee, Wants
<1> QED BY <1>1, <1>2, <1>3, <1>4, <1>5, <1>6 DEF Next
=============================================================================
