-------------------------- MODULE ConnectionProofs --------------------------
(***************************************************************************)
(* Proofs about Connection, for every set of devices.  What gnhastd has    *)
(* yet to learn of the collector is always in the bufferevent, unless the  *)
(* bufferevent is freed; and then need_rereg is set, so that the next      *)
(* attempt starts with all of it.                                          *)
(***************************************************************************)
EXTENDS Connection, FiniteSetTheorems, SequenceTheorems, TLAPS

-----------------------------------------------------------------------------
(* Lemmas about sequences of lines. *)

\* The devices list, put on the wire, holds just the devices.
LEMMA SetToSeqLists ==
  ASSUME NEW S, IsFiniteSet(S)
  PROVE  SetToSeq(S) \in Seq(S) /\ Range(SetToSeq(S)) = S
<1> DEFINE n == Cardinality(S)
<1>1. n \in Nat /\ Bijection(1..n, S) # {}
  BY FS_CardinalityType DEF ExistsBijection
<1>2. \E f \in [1..n -> S] : IsInjective(f)
  BY <1>1 DEF Bijection, Injection
<1>3. SetToSeq(S) \in [1..n -> S] /\ IsInjective(SetToSeq(S))
  BY <1>2 DEF SetToSeq
<1>4. SetToSeq(S) \in Injection(1..n, S) BY <1>3 DEF Injection
<1>5. Cardinality(1..n) = n BY <1>1, FS_Interval
<1>6. SetToSeq(S) \in Surjection(1..n, S) BY <1>4, <1>5, FS_Injection
<1>7. Range(SetToSeq(S)) = S BY <1>3, <1>6 DEF Surjection, Range
<1>8. SetToSeq(S) \in Seq(S) BY <1>1, <1>3
<1> QED BY <1>7, <1>8

\* A line that is appended is added to what waits.
LEMMA RangeAppend ==
  ASSUME NEW S, NEW s \in Seq(S), NEW x \in S
  PROVE  Append(s, x) \in Seq(S) /\ Range(Append(s, x)) = Range(s) \cup {x}
<1>1. /\ Append(s, x) \in Seq(S) /\ Len(Append(s, x)) = Len(s) + 1
      /\ \A i \in 1 .. Len(s) : Append(s, x)[i] = s[i]
      /\ Append(s, x)[Len(s) + 1] = x
  BY AppendProperties
<1>2. Len(s) \in Nat /\ 1 .. Len(s) + 1 = (1 .. Len(s)) \cup {Len(s) + 1}
  BY LenProperties
<1>3. Range(Append(s, x)) = {Append(s, x)[i] : i \in 1 .. Len(s) + 1}
  BY <1>1, RangeEquality
<1>4. Range(s) = {s[i] : i \in 1 .. Len(s)} BY RangeEquality
<1> QED BY <1>1, <1>2, <1>3, <1>4

\* What waits is what is read next and the rest.
LEMMA RangeHeadTail ==
  ASSUME NEW S, NEW s \in Seq(S), s # <<>>
  PROVE  /\ Head(s) \in S /\ Tail(s) \in Seq(S)
         /\ Range(s) = {Head(s)} \cup Range(Tail(s))
<1>1. /\ Head(s) \in S /\ Tail(s) \in Seq(S) /\ Len(Tail(s)) = Len(s) - 1
      /\ \A i \in 1 .. Len(Tail(s)) : Tail(s)[i] = s[i + 1]
  BY HeadTailProperties
<1>2. Len(s) \in Nat \ {0} /\ s[1] = Head(s)
  BY EmptySeq
<1>3. Range(s) = {s[i] : i \in 1 .. Len(s)} BY RangeEquality
<1>4. Range(Tail(s)) = {s[i + 1] : i \in 1 .. Len(s) - 1}
  <2>1. Range(Tail(s)) = {Tail(s)[i] : i \in 1 .. Len(Tail(s))}
    BY <1>1, RangeEquality
  <2> QED BY <1>1, <2>1
<1>5. \A i \in 1 .. Len(s) : i = 1 \/ (i - 1 \in 1 .. Len(s) - 1 /\ (i - 1) + 1 = i)
  BY <1>2
<1>6. \A i \in 1 .. Len(s) - 1 : i + 1 \in 1 .. Len(s) BY <1>2
<1>7. 1 \in 1 .. Len(s) BY <1>2
<1>8. Range(s) \subseteq {Head(s)} \cup Range(Tail(s))
  BY <1>2, <1>3, <1>4, <1>5
<1>9. {Head(s)} \cup Range(Tail(s)) \subseteq Range(s)
  BY <1>2, <1>3, <1>4, <1>6, <1>7
<1> QED BY <1>1, <1>8, <1>9

\* Nothing waits in an empty bufferevent.
LEMMA RangeEmpty == Range(<<>>) = {} /\ \A S : <<>> \in Seq(S)
BY DEF Range

\* One line waits in that of the start.
LEMMA RangeOne == ASSUME NEW x PROVE Range(<<x>>) = {x}
BY DEF Range

\* The name follows the registrations.
LEMMA RangeThenOne ==
  ASSUME NEW S, NEW s \in Seq(S), NEW x \in S
  PROVE  s \o <<x>> \in Seq(S) /\ Range(s \o <<x>>) = Range(s) \cup {x}
<1>1. <<x>> \in Seq(S) OBVIOUS
<1>2. s \o <<x>> \in Seq(S) BY <1>1, ConcatProperties
<1>3. Range(s \o <<x>>) = Range(s) \cup Range(<<x>>) BY <1>1, RangeConcatenation
<1> QED BY <1>2, <1>3, RangeOne

-----------------------------------------------------------------------------
\* What has to be on its way while an attempt or a session is under way.
Hopeful == bev = "connecting" \/ (bev = "connected" /\ session = "open")

\* The collector's name is on its way until gnhastd has it.
NameComes == Hopeful => named \/ "client" \in Range(out)

\* So are the devices, when the collector registers them again.
DevicesCome == Hopeful /\ Reregisters => found \subseteq owned \cup Range(out)

\* The inductive invariant.
IInv ==
  /\ TypeOK
  /\ IsFiniteSet(found)
  /\ Range(out) \cap Devices \subseteq found
  /\ bev = "freed" => need_rereg
  /\ bev \in {"connecting", "freed"} => session = "none"
  /\ NameComes
  /\ DevicesCome

-----------------------------------------------------------------------------
\* The first attempt carries the name, and there are no devices yet.
LEMMA InitIInv == Init => IInv
<1> SUFFICES ASSUME Init PROVE IInv OBVIOUS
<1>1. out \in Seq(Lines) /\ Range(out) = {"client"}
  BY RangeOne DEF Init, Lines, Others
<1>2. session = "none" /\ owned = {} /\ named = FALSE BY DEF Init
<1>3. cuts \in 0 .. MaxCuts BY ConnectionAssumption DEF Init
<1>4. bev \in {"connecting", "connected", "freed", "exited", "crashed"} BY DEF Init
<1>5. TypeOK BY <1>1, <1>2, <1>3, <1>4 DEF Init, TypeOK
<1>6. "client" \notin Devices BY ConnectionAssumption DEF Others
<1> QED
  BY <1>1, <1>5, <1>6, FS_EmptySet DEF Init, IInv, NameComes, DevicesCome, Hopeful

\* A line written to a bufferevent that is there is added to what waits; one
\* written to a freed bufferevent leaves it freed, or the collector crashed.
LEMMA WriteAdds ==
  ASSUME IInv, NEW line \in Lines, Write(line)
  PROVE  /\ out' \in Seq(Lines)
         /\ \/ bev # "freed" /\ bev' = bev /\ Range(out') = Range(out) \cup {line}
            \/ bev = "freed" /\ bev' \in {"freed", "crashed"} /\ out' = out
<1>1. CASE bev # "freed"
  <2>1. bev' = bev /\ out' = Append(out, line) BY <1>1 DEF Write
  <2>2. out \in Seq(Lines) BY DEF IInv, TypeOK
  <2>3. out' \in Seq(Lines) /\ Range(out') = Range(out) \cup {line}
    BY <2>1, <2>2, RangeAppend
  <2> QED BY <1>1, <2>1, <2>3
<1>2. CASE bev = "freed"
  BY <1>2 DEF IInv, TypeOK, Write, Alive
<1> QED BY <1>1, <1>2

\* Every line that is written is in the protocol, and only devices stand for
\* registrations.
LEMMA OtherLines ==
  /\ Devices \subseteq Lines
  /\ \A line \in Others : line \in Lines /\ line \notin Devices
BY ConnectionAssumption DEF Lines

\* A line other than a registration keeps the invariant, when nothing else of
\* the connection changes.
LEMMA WriteOther ==
  ASSUME IInv, NEW line \in Others, Write(line), UNCHANGED <<server, need_rereg, health, found, cuts>>,
         shutdown' \in BOOLEAN
  PROVE  IInv'
<1>1. /\ out' \in Seq(Lines)
      /\ \/ bev # "freed" /\ bev' = bev /\ Range(out') = Range(out) \cup {line}
         \/ bev = "freed" /\ bev' \in {"freed", "crashed"} /\ out' = out
  BY WriteAdds, OtherLines
<1>2. line \notin Devices BY OtherLines
<1>3. TypeOK' BY <1>1 DEF IInv, TypeOK, server
<1> QED
  BY <1>1, <1>2, <1>3 DEF IInv, NameComes, DevicesCome, Hopeful, server

\* Every step keeps the invariant.
LEMMA StepIInv == IInv /\ [Next]_vars => IInv'
<1> SUFFICES ASSUME IInv, [Next]_vars PROVE IInv' OBVIOUS
<1>1. CASE Connected
  BY <1>1 DEF Connected, IInv, TypeOK, NameComes, DevicesCome, Hopeful
<1>2. CASE Lost
  <2>1. Range(out') = {} /\ out' \in Seq(Lines) BY <1>2, RangeEmpty DEF Lost
  <2>2. TypeOK' BY <1>2, <2>1 DEF Lost, server, IInv, TypeOK
  <2> QED
    BY <1>2, <2>1, <2>2 DEF Lost, server, IInv, TypeOK, NameComes, DevicesCome, Hopeful
<1>3. CASE Retry
  <2> DEFINE registrations == IF Reregisters THEN SetToSeq(found) ELSE <<>>
  <2>1. need_rereg BY <1>3 DEF Retry, IInv
  <2>2. /\ registrations \in Seq(Lines)
        /\ Range(registrations) = IF Reregisters THEN found ELSE {}
    <3>1. SetToSeq(found) \in Seq(Lines) /\ Range(SetToSeq(found)) = found
      BY SetToSeqLists DEF IInv, TypeOK, Lines
    <3>2. Range(<<>>) = {} /\ <<>> \in Seq(Lines) BY RangeEmpty
    <3> QED BY <3>1, <3>2
  <2> HIDE DEF registrations
  <2>3. out' = registrations \o <<"client">> BY <1>3, <2>1 DEF Retry, registrations
  <2>4. "client" \in Lines BY OtherLines DEF Others
  <2>5. /\ out' \in Seq(Lines)
        /\ Range(out') = {"client"} \cup (IF Reregisters THEN found ELSE {})
    <3>1. /\ registrations \o <<"client">> \in Seq(Lines)
          /\ Range(registrations \o <<"client">>) = Range(registrations) \cup {"client"}
      BY <2>2, <2>4, RangeThenOne
    <3> QED BY <2>2, <2>3, <3>1
  <2>6. "client" \notin Devices BY OtherLines DEF Others
  <2>7. TypeOK' BY <1>3, <2>5, ConnectionAssumption DEF Retry, server, IInv, TypeOK
  <2> QED
    BY <1>3, <2>5, <2>6, <2>7
    DEF Retry, server, IInv, TypeOK, NameComes, DevicesCome, Hopeful
<1>4. ASSUME NEW d \in Devices, Discover(d) PROVE IInv'
  <2>1. /\ out' \in Seq(Lines)
        /\ \/ bev # "freed" /\ bev' = bev /\ Range(out') = Range(out) \cup {d}
           \/ bev = "freed" /\ bev' \in {"freed", "crashed"} /\ out' = out
    BY <1>4, WriteAdds, OtherLines DEF Discover
  <2>2. IsFiniteSet(found') BY <1>4, FS_AddElement DEF Discover, IInv
  <2>3. TypeOK' BY <1>4, <2>1 DEF Discover, server, IInv, TypeOK
  <2> QED
    BY <1>4, <2>1, <2>2, <2>3 DEF Discover, server, IInv, NameComes, DevicesCome, Hopeful
<1>5. CASE Health
  BY <1>5, WriteOther DEF Health, Others, IInv, TypeOK
<1>6. CASE Sigterm
  <2>1. CASE Write("disconnect")
    BY <1>6, <2>1, WriteOther DEF Sigterm, Others
  <2>2. CASE UNCHANGED <<bev, out>>
    BY <1>6, <2>2 DEF Sigterm, server, IInv, TypeOK, NameComes, DevicesCome, Hopeful
  <2> QED BY <1>6, <2>1, <2>2 DEF Sigterm
<1>7. CASE ShutdownTimer
  <2>1. Range(out') = {} /\ out' \in Seq(Lines) BY <1>7, RangeEmpty DEF ShutdownTimer
  <2>2. TypeOK' BY <1>7, <2>1 DEF ShutdownTimer, server, IInv, TypeOK
  <2> QED
    BY <1>7, <2>1, <2>2 DEF ShutdownTimer, server, IInv, NameComes, DevicesCome, Hopeful
<1>8. CASE Read
  <2>1. /\ Head(out) \in Lines /\ out' \in Seq(Lines)
        /\ Range(out) = {Head(out)} \cup Range(out')
    BY <1>8, RangeHeadTail DEF Read, IInv, TypeOK
  <2>2. {Head(out)} \cap Devices \subseteq found BY <2>1 DEF IInv
  <2>3. TypeOK'
    <3>1. session' \in {"open", "closing"} /\ up BY <1>8 DEF Read, IInv, TypeOK
    <3>2. owned' \subseteq found BY <1>8, <2>2 DEF Read, IInv, TypeOK
    <3>3. named' \in BOOLEAN BY <1>8 DEF Read, IInv, TypeOK
    <3> QED BY <1>8, <2>1, <3>1, <3>2, <3>3 DEF Read, IInv, TypeOK
  <2>4. NameComes' BY <1>8, <2>1 DEF Read, IInv, NameComes, Hopeful
  <2>5. DevicesCome'
    BY <1>8, <2>1 DEF Read, IInv, TypeOK, DevicesCome, Hopeful
  <2> QED BY <1>8, <2>1, <2>3, <2>4, <2>5 DEF Read, IInv
<1>9. CASE Cut \/ EndSession \/ Stop
  <2>1. /\ session' = "none" /\ owned' = {} /\ named' = FALSE
        /\ UNCHANGED <<bev, out, need_rereg, shutdown, health, found>>
    BY <1>9 DEF Cut, EndSession, Stop, End
  <2>2. TypeOK'
    <3>1. up' \in BOOLEAN BY <1>9 DEF Cut, EndSession, Stop, IInv, TypeOK
    <3>2. cuts' \in 0 .. MaxCuts
      BY <1>9, ConnectionAssumption DEF Cut, EndSession, Stop, IInv, TypeOK
    <3> QED BY <2>1, <3>1, <3>2 DEF IInv, TypeOK
  <2>3. bev = "connecting" => owned' = owned /\ named' = named
    BY <1>9 DEF Cut, EndSession, Stop, End, IInv, TypeOK
  <2> QED
    BY <2>1, <2>2, <2>3 DEF IInv, NameComes, DevicesCome, Hopeful
<1>10. CASE Start
  <2>1. TypeOK' BY <1>10 DEF Start, IInv, TypeOK
  <2> QED BY <1>10, <2>1 DEF Start, IInv, NameComes, DevicesCome, Hopeful
<1>11. CASE UNCHANGED vars
  BY <1>11 DEF vars, server, IInv, TypeOK, NameComes, DevicesCome, Hopeful
<1> QED
  BY <1>1, <1>2, <1>3, <1>4, <1>5, <1>6, <1>7, <1>8, <1>9, <1>10, <1>11 DEF Next

-----------------------------------------------------------------------------
\* The invariant holds, for collectors of both kinds.
THEOREM Invariance == Spec => []IInv
BY InitIInv, StepIInv, PTL DEF Spec

\* Type correctness: both ends of the connection keep to their states, gnhastd
\* has no session without a collector that connected, nor a device that the
\* collector has not found.
THEOREM TypeCorrect == Spec => []TypeOK
<1>1. IInv => TypeOK BY DEF IInv
<1> QED BY <1>1, Invariance, PTL

\* gnhastd has a tracking device for every collector that has nothing more to
\* say, of either kind.
THEOREM AlwaysTracked == Spec => []Tracked
<1>1. IInv => Tracked
  BY RangeEmpty DEF IInv, NameComes, Hopeful, Tracked, Quiet
<1> QED BY <1>1, Invariance, PTL

\* gnhastd knows a collector that registers again as the collector of each of
\* its devices, once it has nothing more to say.
THEOREM StaysInStep ==
  ASSUME Reregisters PROVE Spec => []InStep
<1>1. IInv => InStep
  BY RangeEmpty DEF IInv, TypeOK, DevicesCome, Hopeful, InStep, Quiet
<1> QED BY <1>1, Invariance, PTL
=============================================================================
