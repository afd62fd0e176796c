--------------------------- MODULE GnhastdProofs ---------------------------
(***************************************************************************)
(* Theorems about the parts of gnhastd, for every value of the constants.  *)
(* Each part has an inductive invariant of its own: those of the alarms    *)
(* and of the values are in AlarmsProofs and ValuesProofs, that of the     *)
(* water marks comes first here, and that of the feeds is only that they   *)
(* are feeds.  In every behaviour one part takes the steps and its         *)
(* invariant holds.                                                        *)
(***************************************************************************)
EXTENDS Gnhastd, SequenceTheorems, TLAPS

(***************************************************************************)
(* The water marks, the handlers and the clients with a cfeed, for every   *)
(* set of devices, clients, values and marks: what a handler and a client  *)
(* know of a value.  The invariant adds to the properties that a chg       *)
(* counts as asked only for a device whose chg is stored, and that a       *)
(* client has no value from a cfeed it no longer has.  Of Updates' vari-   *)
(* ables data is v1, last v2, nodata v3, mode v4, lowat v5, hiwat v6,      *)
(* floating v7, watchers v8, told v9, handled v10 and exempt v11.          *)
(***************************************************************************)

\* Only a chg that is stored leaves a value that was only asked for.
AskedFloats == \A d \in Devices \ v7 : "asked" \notin v11[d]

\* Who does not watch a device was not told of it on this connection.
WatchersTold ==
  \A l \in Clients, d \in Devices : l \notin v8[d] => v9[l][d] = NoValue

MarksOrdered == \A d \in Devices : v5[d] <= v6[d]

UpdatesInv ==
  /\ Updates!TypeOK
  /\ AskedFloats
  /\ WatchersTold
  /\ MarksOrdered
  /\ Updates!HandlerCurrent
  /\ Updates!SpamHandled
  /\ Updates!ListenerCurrent

-----------------------------------------------------------------------------
\* No device has a value, so that no handler and no client has to know one.
LEMMA UpdatesInitI ==
  ASSUME Updates!UpdatesAssumption, Updates!Init
  PROVE  UpdatesInv
<1> USE DEF Updates!Init, Updates!UpdatesAssumption
<1>1. PICK m \in [Devices -> Marks] : /\ v5 = [d \in Devices |-> m[d][1]]
                                      /\ v6 = [d \in Devices |-> m[d][2]]
  OBVIOUS
<1>2. ASSUME NEW d \in Devices
      PROVE  m[d][1] \in Int /\ m[d][2] \in Int /\ m[d][1] <= m[d][2]
  <2>1. m[d] \in Marks OBVIOUS
  <2>2. m[d] \in Int \X Int BY <2>1
  <2> QED BY <2>1, <2>2
<1>3. Updates!TypeOK BY <1>1, <1>2 DEF Updates!TypeOK
<1>4. AskedFloats /\ WatchersTold BY DEF AskedFloats, WatchersTold
<1>5. MarksOrdered BY <1>1, <1>2 DEF MarksOrdered
<1>6. Updates!HandlerCurrent /\ Updates!SpamHandled /\ Updates!ListenerCurrent
  BY DEF Updates!HandlerCurrent, Updates!ChangedKnown, Updates!CrossedKnown, Updates!SpamHandled,
      Updates!ListenerCurrent, Updates!Due
<1> QED BY <1>3, <1>4, <1>5, <1>6 DEF UpdatesInv

\* A value that goes from one side of the marks to beyond one of them, and was not
\* just on it, runs a handler that fires on crossings.
LEMMA CrossingFires ==
  ASSUME Updates!UpdatesAssumption, Updates!TypeOK, MarksOrdered, NEW d \in Devices, NEW v \in
      Samples,
         v4[d] = "cross", Updates!Side(d, v) # "between",
         Updates!Side(d, v) # Updates!Side(d, v1[d]), ~Updates!Touched(d, v)
  PROVE  Updates!Watermark(d, v, v1[d])
<1>1. /\ v \in Int /\ v1[d] \in Int /\ v5[d] \in Int /\ v6[d] \in Int
      /\ v5[d] <= v6[d]
  <2>1. Samples \subseteq Int BY Zenon DEF Updates!UpdatesAssumption
  <2>2. v \in Int /\ Samples \cup {0} \subseteq Int BY <2>1
  <2>3. v1[d] \in Samples \cup {0} /\ v5[d] \in Int /\ v6[d] \in Int BY DEF Updates!TypeOK
  <2>4. v1[d] \in Int BY <2>2, <2>3, Zenon
  <2>5. v5[d] <= v6[d] BY Zenon DEF MarksOrdered
  <2> QED BY <2>2, <2>3, <2>4, <2>5
<1>2. CASE Updates!Unmarked(d) BY <1>2 DEF Updates!Watermark
<1>3. CASE ~Updates!Unmarked(d)
  <2>1. CASE v < v5[d]
    <3>1. ~(v1[d] < v5[d]) BY <2>1 DEF Updates!Side
    <3>2. v1[d] # v5[d] BY <1>3, <2>1 DEF Updates!Touched
    <3> QED BY <1>1, <2>1, <3>1, <3>2 DEF Updates!Watermark
  <2>2. CASE ~(v < v5[d]) /\ v > v6[d]
    <3>1. v1[d] < v5[d] \/ ~(v1[d] > v6[d]) BY <2>2 DEF Updates!Side
    <3>2. v1[d] # v6[d] BY <1>3, <2>2 DEF Updates!Touched
    <3> QED BY <1>1, <2>2, <3>1, <3>2 DEF Updates!Watermark
  <2> QED BY <2>1, <2>2 DEF Updates!Side
<1> QED BY <1>2, <1>3

LEMMA UpdatesUpdateI ==
  ASSUME Updates!UpdatesAssumption, UpdatesInv, NEW d \in Devices, NEW v \in Samples,
      Updates!Update(d, v)
  PROVE  UpdatesInv'
<1>1. Updates!TypeOK /\ AskedFloats /\ WatchersTold /\ MarksOrdered BY DEF UpdatesInv
<1>2. /\ v1' = [v1 EXCEPT ![d] = v]
      /\ v2' = [v2 EXCEPT ![d] = v1[d]]
      /\ v3' = [v3 EXCEPT ![d] = FALSE]
      /\ v10' = IF Updates!Watermark(d, v, v1[d]) \/ v3[d]
                      THEN [v10 EXCEPT ![d] = v] ELSE v10
      /\ Updates!Tell(d, v) /\ Updates!Settle(d, v, {})
      /\ UNCHANGED <<v4, v5, v6, v7, v8>>
  BY DEF Updates!Update, Updates!Store, Updates!settings
<1>3. /\ v1'[d] = v /\ v3'[d] = FALSE
      /\ v10'[d] = IF Updates!Watermark(d, v, v1[d]) \/ v3[d] THEN v ELSE v10[d]
      /\ v11'[d] = IF v3[d] THEN {}
                      ELSE IF Updates!Same(d, v, v1[d]) THEN v11[d] \ {"asked"}
                      ELSE IF Updates!Touched(d, v) THEN {"touched"} ELSE {}
      /\ \A e \in Devices \ {d} :
           /\ v1'[e] = v1[e] /\ v3'[e] = v3[e]
           /\ v10'[e] = v10[e] /\ v11'[e] = v11[e]
  BY <1>1, <1>2 DEF Updates!TypeOK, Updates!Settle
<1>4. \A l \in Clients, e \in Devices :
        v9'[l][e] = IF e = d /\ l \in v8[d] THEN v ELSE v9[l][e]
  BY <1>1, <1>2 DEF Updates!TypeOK, Updates!Tell
<1>5. Updates!TypeOK'
  <2>1. v9' \in [Clients -> [Devices -> Samples \cup {0, NoValue}]]
    BY <1>1, <1>2 DEF Updates!TypeOK, Updates!Tell
  <2>2. v11' \in [Devices -> SUBSET {"modified", "touched", "asked"}]
    BY <1>1, <1>2 DEF Updates!TypeOK, Updates!Settle
  <2>3. v10' \in [Devices -> Samples \cup {NoValue}] BY <1>1, <1>2 DEF Updates!TypeOK
  <2> QED BY <1>1, <1>2, <2>1, <2>2, <2>3 DEF Updates!TypeOK
<1>6. AskedFloats' BY <1>1, <1>2, <1>3 DEF AskedFloats
<1>7. WatchersTold' BY <1>1, <1>2, <1>4 DEF WatchersTold
<1>8. MarksOrdered' BY <1>1, <1>2 DEF MarksOrdered
<1>9. \A e \in Devices : \A x : Updates!Side(e, x)' = Updates!Side(e, x') BY <1>2 DEF Updates!Side
<1>10. Updates!HandlerCurrent'
  <2> SUFFICES ASSUME NEW e \in Devices \ v7
               PROVE  Updates!ChangedKnown(e)' /\ Updates!CrossedKnown(e)'
    BY <1>2 DEF Updates!HandlerCurrent
  <2>1. CASE e # d
    BY <1>2, <1>3, <2>1 DEF UpdatesInv, Updates!HandlerCurrent, Updates!ChangedKnown,
        Updates!CrossedKnown, Updates!Due, Updates!Side
  <2>2. CASE e = d /\ v3[d]
    BY <1>2, <1>3, <2>2 DEF Updates!ChangedKnown, Updates!CrossedKnown,
        Updates!UpdatesAssumption, Updates!Side
  <2>3. CASE e = d /\ ~v3[d]
    <3>1. Updates!Due(d)' /\ Updates!Same(d, v, v1[d]) => Updates!Due(d)
      BY <1>1, <1>3, <2>3 DEF Updates!Due, AskedFloats
    <3>2. Updates!ChangedKnown(d)'
      <4>1. CASE Updates!Same(d, v, v1[d])
        BY <1>2, <1>3, <2>3, <3>1, <4>1 DEF UpdatesInv, Updates!HandlerCurrent,
            Updates!ChangedKnown, Updates!Same
      <4>2. CASE ~Updates!Same(d, v, v1[d])
        BY <1>2, <1>3, <4>2 DEF Updates!ChangedKnown, Updates!Same, Updates!Watermark
      <4> QED BY <4>1, <4>2
    <3>3. Updates!CrossedKnown(d)'
      <4> SUFFICES ASSUME Updates!Due(d)', v4[d] = "cross", Updates!Side(d, v) # "between"
                   PROVE  v10'[d] # NoValue /\ Updates!Side(d, v10'[d]) = Updates!Side(d, v)
        BY <1>2, <1>3 DEF Updates!CrossedKnown, Updates!Side
      <4>1. CASE v10'[d] = v BY <4>1 DEF Updates!UpdatesAssumption
      <4>2. CASE Updates!Same(d, v, v1[d]) /\ v10'[d] = v10[d]
        BY <2>3, <3>1, <4>2 DEF UpdatesInv, Updates!HandlerCurrent, Updates!CrossedKnown,
            Updates!Same
      <4>3. CASE ~Updates!Same(d, v, v1[d])
        <5>1. ~Updates!Touched(d, v) BY <1>3, <2>3, <4>3 DEF Updates!Due
        <5>2. Updates!Watermark(d, v, v1[d]) BY <1>1, <4>3, <5>1, CrossingFires DEF Updates!Same
        <5> QED BY <1>3, <4>1, <5>2
      <4> QED BY <1>3, <4>1, <4>2, <4>3
    <3> QED BY <2>3, <3>2, <3>3
  <2> QED BY <2>1, <2>2, <2>3
<1>11. Updates!SpamHandled'
  <2> SUFFICES ASSUME NEW e \in Devices, Updates!Due(e)', v4[e] # "change",
                      Updates!Unmarked(e) \/ (v4[e] = "spam" /\ Updates!Side(e, v1'[e]) #
                          "between")
               PROVE  v10'[e] = v1'[e]
    BY <1>2 DEF Updates!SpamHandled, Updates!Unmarked, Updates!Side
  <2>1. CASE e # d BY <1>3, <2>1 DEF UpdatesInv, Updates!SpamHandled, Updates!Due
  <2>2. CASE e = d
    <3>1. v4[d] \in Updates!Modes BY <1>1 DEF Updates!TypeOK
    <3>2. Updates!Watermark(d, v, v1[d]) BY <1>3, <2>2, <3>1 DEF Updates!Watermark, Updates!Side,
        Updates!Modes
    <3> QED BY <1>3, <2>2, <3>2
  <2> QED BY <2>1, <2>2
<1>12. Updates!ListenerCurrent'
  BY <1>2, <1>3, <1>4 DEF UpdatesInv, Updates!ListenerCurrent
<1> QED BY <1>5, <1>6, <1>7, <1>8, <1>10, <1>11, <1>12 DEF UpdatesInv

\* What a client asks for is not the provider's word: nobody has to know it yet.
LEMMA UpdatesChangeI ==
  ASSUME Updates!UpdatesAssumption, UpdatesInv, NEW d \in Devices, NEW v \in Samples,
      Updates!Change(d, v)
  PROVE  UpdatesInv'
<1>1. Updates!TypeOK /\ AskedFloats /\ WatchersTold /\ MarksOrdered BY DEF UpdatesInv
<1>2. /\ d \in v7
      /\ v1' = [v1 EXCEPT ![d] = v]
      /\ v2' = [v2 EXCEPT ![d] = v1[d]]
      /\ v3' = [v3 EXCEPT ![d] = FALSE]
      /\ Updates!Settle(d, v, {"asked"})
      /\ UNCHANGED <<v4, v5, v6, v7, v8, v9, v10>>
  BY DEF Updates!Change, Updates!Store, Updates!settings
<1>3. /\ "asked" \in v11'[d]
      /\ \A e \in Devices \ {d} :
           v1'[e] = v1[e] /\ v3'[e] = v3[e] /\ v11'[e] = v11[e]
  BY <1>1, <1>2 DEF Updates!TypeOK, Updates!Settle
<1>4. Updates!TypeOK'
  <2>1. v11' \in [Devices -> SUBSET {"modified", "touched", "asked"}]
    BY <1>1, <1>2 DEF Updates!TypeOK, Updates!Settle
  <2> QED BY <1>1, <1>2, <2>1 DEF Updates!TypeOK
<1>5. AskedFloats' BY <1>1, <1>2, <1>3 DEF AskedFloats
<1>6. WatchersTold' BY <1>1, <1>2 DEF WatchersTold
<1>7. MarksOrdered' BY <1>1, <1>2 DEF MarksOrdered
<1>8. \A e \in Devices : Updates!Due(e)' => e # d /\ Updates!Due(e) BY <1>3 DEF Updates!Due
<1>9. Updates!HandlerCurrent'
  BY <1>2, <1>3, <1>8 DEF UpdatesInv, Updates!HandlerCurrent, Updates!ChangedKnown,
      Updates!CrossedKnown, Updates!Side
<1>10. Updates!SpamHandled' BY <1>2, <1>3, <1>8 DEF UpdatesInv, Updates!SpamHandled,
    Updates!Unmarked, Updates!Side
<1>11. Updates!ListenerCurrent' BY <1>2, <1>3 DEF UpdatesInv, Updates!ListenerCurrent
<1> QED BY <1>4, <1>5, <1>6, <1>7, <1>9, <1>10, <1>11 DEF UpdatesInv

\* With new settings the handler has to know the next value that they tell from
\* the present one.
LEMMA UpdatesModifyI ==
  ASSUME Updates!UpdatesAssumption, UpdatesInv, NEW d \in Devices, NEW m \in Updates!Modes, NEW
      marks \in Marks,
         Updates!Modify(d, m, marks)
  PROVE  UpdatesInv'
<1>1. Updates!TypeOK /\ AskedFloats /\ WatchersTold /\ MarksOrdered BY DEF UpdatesInv
<1>2. /\ v4' = [v4 EXCEPT ![d] = m]
      /\ v5' = [v5 EXCEPT ![d] = marks[1]]
      /\ v6' = [v6 EXCEPT ![d] = marks[2]]
      /\ v11' = [v11 EXCEPT ![d] = @ \cup {"modified"}]
      /\ UNCHANGED <<v1, v2, v3, v7, v8, v9, v10>>
  BY DEF Updates!Modify
<1>3. marks[1] \in Int /\ marks[2] \in Int /\ marks[1] <= marks[2]
  <2>1. marks \in Int \X Int BY DEF Updates!UpdatesAssumption
  <2> QED BY <2>1 DEF Updates!UpdatesAssumption
<1>4. Updates!TypeOK' BY <1>1, <1>2, <1>3 DEF Updates!TypeOK
<1>5. AskedFloats' BY <1>1, <1>2 DEF AskedFloats, Updates!TypeOK
<1>6. WatchersTold' BY <1>1, <1>2 DEF WatchersTold
<1>7. MarksOrdered' BY <1>1, <1>2, <1>3 DEF MarksOrdered, Updates!TypeOK
<1>8. \A e \in Devices : Updates!Due(e)' =>
        Updates!Due(e) /\ v4'[e] = v4[e] /\ v5'[e] = v5[e] /\ v6'[e] = v6[e]
  BY <1>1, <1>2 DEF Updates!Due, Updates!TypeOK
<1>9. Updates!HandlerCurrent'
  BY <1>2, <1>8 DEF UpdatesInv, Updates!HandlerCurrent, Updates!ChangedKnown,
      Updates!CrossedKnown, Updates!Side
<1>10. Updates!SpamHandled' BY <1>2, <1>8 DEF UpdatesInv, Updates!SpamHandled, Updates!Unmarked,
    Updates!Side
<1>11. Updates!ListenerCurrent' BY <1>1, <1>2 DEF UpdatesInv, Updates!ListenerCurrent,
    Updates!TypeOK
<1> QED BY <1>4, <1>5, <1>6, <1>7, <1>9, <1>10, <1>11 DEF UpdatesInv

\* What becomes of the clients is nothing to the handlers.
LEMMA HandlersAlone ==
  ASSUME UpdatesInv, UNCHANGED <<v1, v2, v3, Updates!settings, v10, v11>>
  PROVE  /\ AskedFloats' /\ MarksOrdered' /\ Updates!HandlerCurrent' /\ Updates!SpamHandled'
         /\ Updates!TypeOK' <=> /\ v8' \in [Devices -> SUBSET Clients]
                       /\ v9' \in [Clients -> [Devices -> Samples \cup {0, NoValue}]]
<1> USE DEF UpdatesInv, Updates!settings
<1>1. AskedFloats' BY DEF AskedFloats
<1>2. MarksOrdered' BY DEF MarksOrdered
<1>3. Updates!HandlerCurrent' BY DEF Updates!HandlerCurrent, Updates!ChangedKnown,
    Updates!CrossedKnown, Updates!Due, Updates!Side
<1>4. Updates!SpamHandled' BY DEF Updates!SpamHandled, Updates!Due, Updates!Unmarked, Updates!Side
<1>5. Updates!TypeOK' <=> /\ v8' \in [Devices -> SUBSET Clients]
                  /\ v9' \in [Clients -> [Devices -> Samples \cup {0, NoValue}]]
  BY DEF Updates!TypeOK
<1> QED BY <1>1, <1>2, <1>3, <1>4, <1>5

LEMMA UpdatesCfeedI ==
  ASSUME UpdatesInv, NEW l \in Clients, NEW d \in Devices, Updates!Cfeed(l, d)
  PROVE  UpdatesInv'
<1> USE DEF Updates!Cfeed
<1>1. Updates!TypeOK /\ WatchersTold /\ Updates!ListenerCurrent BY DEF UpdatesInv
<1>2. AskedFloats' /\ MarksOrdered' /\ Updates!HandlerCurrent' /\ Updates!SpamHandled' BY
    HandlersAlone
<1>3. Updates!TypeOK' BY <1>1, HandlersAlone DEF Updates!TypeOK
<1>4. WatchersTold' BY <1>1 DEF WatchersTold, Updates!TypeOK
<1>5. Updates!ListenerCurrent' BY <1>1 DEF Updates!ListenerCurrent, WatchersTold, Updates!TypeOK
<1> QED BY <1>2, <1>3, <1>4, <1>5 DEF UpdatesInv

LEMMA UpdatesAskI ==
  ASSUME UpdatesInv, NEW l \in Clients, NEW d \in Devices, Updates!Ask(l, d)
  PROVE  UpdatesInv'
<1> USE DEF Updates!Ask
<1>1. Updates!TypeOK /\ WatchersTold /\ Updates!ListenerCurrent BY DEF UpdatesInv
<1>2. AskedFloats' /\ MarksOrdered' /\ Updates!HandlerCurrent' /\ Updates!SpamHandled' BY
    HandlersAlone
<1>3. Updates!TypeOK' BY <1>1, HandlersAlone DEF Updates!TypeOK
<1>4. \A k \in Clients, e \in Devices :
        v9'[k][e] = IF k = l /\ e = d THEN v1[d] ELSE v9[k][e]
  BY <1>1 DEF Updates!TypeOK
<1>5. WatchersTold' BY <1>1, <1>4 DEF WatchersTold
<1>6. Updates!ListenerCurrent' BY <1>1, <1>4 DEF Updates!ListenerCurrent
<1> QED BY <1>2, <1>3, <1>5, <1>6 DEF UpdatesInv

LEMMA UpdatesLeaveI ==
  ASSUME UpdatesInv, NEW l \in Clients, Updates!Leave(l)
  PROVE  UpdatesInv'
<1> USE DEF Updates!Leave
<1>1. Updates!TypeOK /\ WatchersTold /\ Updates!ListenerCurrent BY DEF UpdatesInv
<1>2. AskedFloats' /\ MarksOrdered' /\ Updates!HandlerCurrent' /\ Updates!SpamHandled' BY
    HandlersAlone
<1>3. Updates!TypeOK' BY <1>1, HandlersAlone DEF Updates!TypeOK
<1>4. \A k \in Clients, e \in Devices :
        v9'[k][e] = IF k = l THEN NoValue ELSE v9[k][e]
  BY <1>1 DEF Updates!TypeOK
<1>5. WatchersTold' BY <1>1, <1>4 DEF WatchersTold
<1>6. Updates!ListenerCurrent' BY <1>1, <1>4 DEF Updates!ListenerCurrent
<1> QED BY <1>2, <1>3, <1>5, <1>6 DEF UpdatesInv

\* After a restart there are no values, and no clients.
LEMMA UpdatesRestartI ==
  ASSUME Updates!UpdatesAssumption, UpdatesInv, Updates!Restart
  PROVE  UpdatesInv'
<1> USE DEF Updates!Restart, Updates!settings
<1>1. Updates!TypeOK' BY DEF UpdatesInv, Updates!TypeOK
<1>2. AskedFloats' BY DEF UpdatesInv, AskedFloats
<1>3. WatchersTold' BY DEF WatchersTold
<1>4. MarksOrdered' BY DEF UpdatesInv, MarksOrdered
<1>5. Updates!HandlerCurrent' BY DEF Updates!HandlerCurrent, Updates!ChangedKnown,
    Updates!CrossedKnown, Updates!Due
<1>6. Updates!SpamHandled' BY DEF Updates!SpamHandled, Updates!Due
<1>7. Updates!ListenerCurrent' BY DEF Updates!ListenerCurrent
<1> QED BY <1>1, <1>2, <1>3, <1>4, <1>5, <1>6, <1>7 DEF UpdatesInv

LEMMA UpdatesStepI ==
  ASSUME Updates!UpdatesAssumption, UpdatesInv, [Updates!Next]_(Updates!vars)
  PROVE  UpdatesInv'
<1>1. ASSUME NEW d \in Devices, NEW v \in Samples, Updates!Update(d, v) PROVE UpdatesInv'
  BY <1>1, UpdatesUpdateI
<1>2. ASSUME NEW d \in Devices, NEW v \in Samples, Updates!Change(d, v) PROVE UpdatesInv'
  BY <1>2, UpdatesChangeI
<1>3. ASSUME NEW d \in Devices, NEW m \in Updates!Modes, NEW marks \in Marks, Updates!Modify(d,
    m, marks)
      PROVE  UpdatesInv'
  BY <1>3, UpdatesModifyI
<1>4. ASSUME NEW d \in Devices, NEW l \in Clients, Updates!Cfeed(l, d) PROVE UpdatesInv'
  BY <1>4, UpdatesCfeedI
<1>5. ASSUME NEW d \in Devices, NEW l \in Clients, Updates!Ask(l, d) PROVE UpdatesInv'
  BY <1>5, UpdatesAskI
<1>6. ASSUME NEW l \in Clients, Updates!Leave(l) PROVE UpdatesInv' BY <1>6, UpdatesLeaveI
<1>7. CASE Updates!Restart BY <1>7, UpdatesRestartI
<1>8. CASE UNCHANGED Updates!vars
  <2>1. Updates!TypeOK' BY <1>8, HandlersAlone DEF Updates!vars, UpdatesInv, Updates!TypeOK
  <2>2. WatchersTold' /\ Updates!ListenerCurrent' BY <1>8 DEF Updates!vars, UpdatesInv,
      WatchersTold, Updates!ListenerCurrent
  <2> QED BY <1>8, <2>1, <2>2, HandlersAlone DEF Updates!vars, UpdatesInv
<1> QED BY <1>1, <1>2, <1>3, <1>4, <1>5, <1>6, <1>7, <1>8 DEF Updates!Next

\* A handler is run by values of the provider only, when they cross.
LEMMA UpdatesStepRuns ==
  ASSUME Updates!UpdatesAssumption, UpdatesInv, [Updates!Next]_(Updates!vars)
  PROVE  Updates!RunsOnCrossing
<1> SUFFICES ASSUME NEW d \in Devices, ~v3[d], v4[d] = "cross", ~Updates!Unmarked(d),
                    v10'[d] # v10[d]
             PROVE  /\ Updates!Side(d, v1'[d]) # "between"
                    /\ Updates!Side(d, v1[d]) # Updates!Side(d, v1'[d])
  BY DEF Updates!RunsOnCrossing
<1>1. Updates!TypeOK /\ MarksOrdered BY DEF UpdatesInv
<1>2. PICK v \in Samples : Updates!Update(d, v)
  <2>1. ASSUME NEW e \in Devices, NEW v \in Samples, Updates!Update(e, v), e # d
        PROVE  v10'[d] = v10[d]
    BY <1>1, <2>1 DEF Updates!Update, Updates!TypeOK
  <2> QED BY <2>1 DEF Updates!Next, Updates!vars, Updates!Change, Updates!Modify, Updates!Cfeed,
      Updates!Ask, Updates!Leave, Updates!Restart
<1>3. v1'[d] = v /\ Updates!Watermark(d, v, v1[d])
  BY <1>1, <1>2 DEF Updates!Update, Updates!Store, Updates!TypeOK
<1>4. /\ v5[d] \in Int /\ v6[d] \in Int /\ v5[d] <= v6[d]
      /\ v \in Int /\ v1[d] \in Int
  <2>1. Samples \cup {0} \subseteq Int BY DEF Updates!UpdatesAssumption
  <2>2. v1[d] \in Samples \cup {0} BY <1>1 DEF Updates!TypeOK
  <2> QED BY <1>1, <2>1, <2>2 DEF Updates!TypeOK, MarksOrdered
<1>5. \/ v < v5[d] /\ v1[d] > v5[d]
      \/ v > v6[d] /\ v1[d] < v6[d]
  BY <1>3 DEF Updates!Watermark
<1> QED BY <1>3, <1>4, <1>5 DEF Updates!Side

-----------------------------------------------------------------------------
(* The parts. *)

\* The feeds of the client.
FeedsOK == v1 \in Seq(Feeds!Wrap)

\* The invariants of the parts.
IInv ==
  /\ which = "alarms" => Alarms!IInv
  /\ which = "feeds" => FeedsOK
  /\ which = "updates" => UpdatesInv
  /\ which = "values" => Values!IInv

-----------------------------------------------------------------------------
(* The feeds. *)

\* Whatever a step does to the feeds, they stay feeds.
LEMMA FeedsStepI ==
  ASSUME FeedsOK, [Feeds!Next]_(Feeds!vars)
  PROVE  FeedsOK'
<1> USE DEF FeedsOK
<1>0. DOMAIN v1 = 1 .. Len(v1) /\ \A i \in DOMAIN v1 : v1[i] \in Feeds!Wrap
  BY ElementOfSeq, LenProperties
<1>1. CASE UNCHANGED Feeds!vars BY <1>1 DEF Feeds!vars
<1>2. ASSUME NEW rate \in Rates, Feeds!Feed(rate) PROVE FeedsOK'
  <2> DEFINE new == [rate |-> rate, gap |-> 0, fired |-> FALSE, late |-> 0]
  <2>1. v1' = Append(v1, new) BY <1>2 DEF Feeds!Feed
  <2>2. new \in Feeds!Wrap BY DEF Feeds!Wrap
  <2> QED BY <2>1, <2>2, AppendProperties
<1>3. ASSUME NEW late \in {0, 1}, Feeds!Fire(late) PROVE FeedsOK'
  <2>1. v1' = [i \in DOMAIN v1 |->
                IF Feeds!Ready(v1[i], late)
                  THEN [v1[i] EXCEPT !.gap = 0, !.fired = TRUE, !.late = late] ELSE v1[i]]
    BY <1>3 DEF Feeds!Fire
  <2>2. \A i \in DOMAIN v1 :
           [v1[i] EXCEPT !.gap = 0, !.fired = TRUE, !.late = late] \in Feeds!Wrap
    BY <1>0 DEF Feeds!Wrap
  <2>3. v1' \in [1 .. Len(v1) -> Feeds!Wrap] BY <1>0, <2>1, <2>2
  <2> QED BY <2>3, LenProperties
<1>4. CASE Feeds!Tick
  <2>1. v1' = [i \in DOMAIN v1 |-> [v1[i] EXCEPT !.gap = @ + 1]] BY <1>4 DEF Feeds!Tick
  <2>2. \A i \in DOMAIN v1 : [v1[i] EXCEPT !.gap = @ + 1] \in Feeds!Wrap
    BY <1>0 DEF Feeds!Wrap
  <2>3. v1' \in [1 .. Len(v1) -> Feeds!Wrap] BY <1>0, <2>1, <2>2
  <2> QED BY <2>3, LenProperties
<1>5. CASE Feeds!Close BY <1>5, EmptySeq DEF Feeds!Close
<1> QED BY <1>1, <1>2, <1>3, <1>4, <1>5 DEF Feeds!Next

\* Only a firing that finds a feed due starts its count again.
LEMMA FeedsStepOften ==
  ASSUME FeedsConstants, FeedsOK, [Feeds!Next]_(Feeds!vars)
  PROVE  Feeds!NoneTooOften
<1> SUFFICES ASSUME NEW i \in DOMAIN v1, v1[i].fired, v1[i].gap > 0,
                    i \in DOMAIN v1', v1'[i].gap = 0
             PROVE  v1[i].gap >= v1[i].rate - 1
  BY DEF Feeds!NoneTooOften
<1>1. v1[i] \in Feeds!Wrap BY ElementOfSeq, LenProperties DEF FeedsOK
<1>2. /\ v1[i].rate \in Nat /\ v1[i].gap \in Nat /\ v1[i].late \in {0, 1}
  BY <1>1, FeedsConstants DEF Feeds!Wrap, Feeds!FeedsAssumption
<1>3. CASE UNCHANGED Feeds!vars BY <1>2, <1>3 DEF Feeds!vars
<1>4. ASSUME NEW rate \in Rates, Feeds!Feed(rate) PROVE FALSE
  <2>1. v1' = Append(v1, [rate |-> rate, gap |-> 0, fired |-> FALSE, late |-> 0])
    BY <1>4 DEF Feeds!Feed
  <2>2. v1'[i] = v1[i] BY <2>1, LenProperties DEF FeedsOK
  <2> QED BY <1>2, <2>2
<1>5. ASSUME NEW late \in {0, 1}, Feeds!Fire(late) PROVE v1[i].gap >= v1[i].rate - 1
  <2>1. v1'[i] = IF Feeds!Ready(v1[i], late)
                 THEN [v1[i] EXCEPT !.gap = 0, !.fired = TRUE, !.late = late] ELSE v1[i]
    BY <1>5 DEF Feeds!Fire
  <2>2. Feeds!Ready(v1[i], late) BY <1>2, <2>1
  <2> QED BY <1>2, <2>2 DEF Feeds!Ready
<1>6. CASE Feeds!Tick
  <2>1. v1'[i] = [v1[i] EXCEPT !.gap = @ + 1] BY <1>6 DEF Feeds!Tick
  <2> QED BY <1>1, <1>2, <2>1 DEF Feeds!Wrap
<1>7. CASE Feeds!Close
  <2>1. v1' = <<>> BY <1>7 DEF Feeds!Close
  <2> QED BY <2>1
<1> QED BY <1>3, <1>4, <1>5, <1>6, <1>7 DEF Feeds!Next

-----------------------------------------------------------------------------
(* The whole. *)

LEMMA InitI == Init => IInv
<1> SUFFICES ASSUME Init PROVE IInv OBVIOUS
<1>1. CASE which = "alarms"
  BY <1>1, AlarmsConstants, Alarms!InitI DEF Init, IInv
<1>2. CASE which = "feeds"
  <2>1. v1 = <<>> BY <1>2 DEF Init, Feeds!Init
  <2> QED BY <1>2, <2>1, EmptySeq DEF IInv, FeedsOK
<1>3. CASE which = "updates"
  BY <1>3, UpdatesConstants, UpdatesInitI DEF Init, IInv
<1>4. CASE which = "values"
  BY <1>4, ValuesConstants, Values!InitI DEF Init, IInv
<1> QED BY <1>1, <1>2, <1>3, <1>4 DEF IInv

\* A step of one part keeps that part's invariant; the others have not begun.
LEMMA StepI == IInv /\ [Next]_vars => IInv'
<1> SUFFICES ASSUME IInv, [Next]_vars PROVE IInv' OBVIOUS
<1>1. which' = which BY DEF Next, vars
<1>2. ASSUME which = "alarms" PROVE Alarms!IInv'
  <2>1. [Alarms!Next]_(Alarms!vars) BY <1>2 DEF Next, vars, Alarms!vars
  <2> QED BY <1>2, <2>1, AlarmsConstants, Alarms!StepI DEF IInv
<1>3. ASSUME which = "feeds" PROVE FeedsOK'
  <2>1. [Feeds!Next]_(Feeds!vars) BY <1>3 DEF Next, vars, Feeds!vars
  <2> QED BY <1>3, <2>1, FeedsStepI DEF IInv
<1>4. ASSUME which = "updates" PROVE UpdatesInv'
  <2>1. [Updates!Next]_(Updates!vars) BY <1>4 DEF Next, vars, Updates!vars, Updates!settings
  <2> QED BY <1>4, <2>1, UpdatesConstants, UpdatesStepI DEF IInv
<1>5. ASSUME which = "values" PROVE Values!IInv'
  <2>1. [Values!Next]_(Values!vars) BY <1>5 DEF Next, vars, Values!vars
  <2> QED BY <1>5, <2>1, ValuesConstants, Values!StepI DEF IInv
<1> QED BY <1>1, <1>2, <1>3, <1>4, <1>5 DEF IInv

\* Every behaviour of gnhastd keeps the invariants of its parts.
THEOREM Invariant == Spec => []IInv
BY InitI, StepI, PTL DEF Spec

\* No handler waits for a value that gnhastd has: cmd_update has run it for the last
\* value that its water marks call for, and one that is spammed for every value.
THEOREM HandlersAreRun == Spec => []HandlersKnow
<1>1. IInv => HandlersKnow
  BY DEF IInv, HandlersKnow, UpdatesInv
<1> QED BY <1>1, Invariant, PTL

\* What a listener will have once it has read what is under way to it is what gnhastd
\* has: of alarms, by the messages that alarm.c queues, and of values, by the updates
\* of cfeeds.
THEOREM ListenersAreTold == Spec => []ListenersKnow
<1>1. IInv => ListenersKnow
  BY DEF IInv, ListenersKnow, UpdatesInv, Alarms!IInv
<1> QED BY <1>1, Invariant, PTL

\* The scale of a value at a client is the one the client asked for, through the
\* flags of gn_update_device, restarts of the collector included.
THEOREM ClientsScale == Spec => []UnitAsAsked
<1>1. IInv => UnitAsAsked
  BY DEF IInv, UnitAsAsked, Values!IInv, Values!AsWanted, Values!Wanted, Values!UnitAsAsked
<1> QED BY <1>1, Invariant, PTL

\* The timer sends no feed twice within its rate, and updates of a device run its
\* handler once for each crossing of a mark.
THEOREM NoSpam == Spec => NotTooOften
<1>1. IInv /\ [Next]_vars =>
        /\ which = "feeds" => Feeds!NoneTooOften
        /\ which = "updates" => Updates!RunsOnCrossing
  <2> SUFFICES ASSUME IInv, [Next]_vars
               PROVE  /\ which = "feeds" => Feeds!NoneTooOften
                      /\ which = "updates" => Updates!RunsOnCrossing
    OBVIOUS
  <2>1. ASSUME which = "feeds" PROVE Feeds!NoneTooOften
    <3>1. [Feeds!Next]_(Feeds!vars) BY <2>1 DEF Next, vars, Feeds!vars
    <3> QED BY <2>1, <3>1, FeedsConstants, FeedsStepOften DEF IInv
  <2>2. ASSUME which = "updates" PROVE Updates!RunsOnCrossing
    <3>1. [Updates!Next]_(Updates!vars) BY <2>2 DEF Next, vars, Updates!vars, Updates!settings
    <3> QED BY <2>2, <3>1, UpdatesConstants, UpdatesStepRuns DEF IInv
  <2> QED BY <2>1, <2>2
<1> QED BY <1>1, Invariant, PTL DEF Spec, NotTooOften
=============================================================================
