---------------------------- MODULE ValuesProofs ----------------------------
(***************************************************************************)
(* Lemmas about Values, for every device and any number of lines under     *)
(* way: the client of a device has its values in the scale that it asked   *)
(* for, if it asked for one.  The collector and gnhastd have them in the   *)
(* device's own scale, and so have the lines between the two; the one      *)
(* conversion is where gnhastd writes to the client.  The theorem of the   *)
(* specification is in GnhastdProofs, which uses these lemmas of the       *)
(* instance that is checked.                                               *)
(***************************************************************************)
EXTENDS Values, SequenceTheorems, TLAPS

\* The scale that the client's lines are in.
Wanted == IF case.watch = "cfeed" THEN 0 ELSE case.as

\* What the client has is in it, or in scale 0, the one that no flag stands for, if the
\* client could not ask for any.
AsWanted == client.known /\ case.subtype \in Scalable => client.value.in = Wanted

\* A device_t whose value is in the scale of the device, s, and one of which that
\* is not known.
Device(s) ==
  [name : Names, scale : {s}, hiwat : {0, 1}, value : [n : Int, in : {s}], known : BOOLEAN]
Copy(s) ==
  [name : Names, scale : {s}, hiwat : {0, 1}, value : [n : Int, in : Int], known : BOOLEAN]

\* The lines of each connection.
Upds(s) == [cmd : {"upd"}, n : Int, in : {s}]
Regs(s) == [cmd : {"reg"}, name : Names, scale : {s}]
Chgs == [cmd : {"chg"}, n : Int]
Mods == [cmd : {"mod"}, name : Names, hiwat : {0, 1}]
Renames == [cmd : {"mod"}, name : Names]
Watches == [cmd : {"feed", "cfeed", "ask"}]
CollectorLine(s) == Upds(s) \cup Regs(s) \cup Mods
ClientLine == Watches \cup Chgs \cup Mods
Fed == [cmd : {"upd"}, n : Int, in : IF case.subtype \in Scalable THEN {Wanted} ELSE Int]

IInv ==
  /\ case \in Case
  /\ coll \in Device(case.scale)
  /\ server \in Device(case.scale)
  /\ client \in Copy(case.scale)
  /\ real \in Int
  /\ file \in Names
  /\ up \in BOOLEAN /\ watching \in BOOLEAN
  /\ cs \in Seq(CollectorLine(case.scale)) /\ Len(cs) <= MaxWire + 2
  /\ sc \in Seq(Chgs \cup Renames)
  /\ ss \in Seq(ClientLine) /\ Len(ss) <= MaxWire + 1
  /\ sg \in Seq(Fed) /\ Len(sg) <= MaxWire
  /\ AsWanted

-----------------------------------------------------------------------------
(* Lemmas about values. *)

\* A number stays a number, as nonsensical as it may be.
LEMMA NumbersStay ==
  ASSUME NEW c \in Case, NEW pt, NEW x \in Int, NEW old \in Int
  PROVE  /\ store_data_dev(c, pt, x) \in Int
         /\ Printed(c, get_data_dev(c, x)) \in Int
         /\ Printed(c, x) \in Int
         /\ Kept(c, old, x) \in Int
<1>1. \A y \in Int : \A p : store_data_dev(c, p, y) \in Int
  BY DEF store_data_dev, U8, U32, NONSENSE
<1>2. \A y \in Int : Printed(c, y) \in Int BY DEF Printed, U32
<1>3. get_data_dev(c, x) \in Int BY DEF get_data_dev
<1>4. \A w : parse_command(w, x) \in Int BY DEF parse_command, U64
<1>5. Kept(c, old, x) \in Int BY <1>1, <1>4 DEF Kept
<1> QED BY <1>1, <1>2, <1>3, <1>5

\* The scale asked for comes back from the flags; no flag is scale 0.
LEMMA ScaleFlags ==
  GET_SCALE(0) = 0 /\ \A s \in Scales : GET_SCALE(Flag(s)) = s
<1>1. 2 ^ 0 = 1 /\ 2 ^ 1 = 2 /\ 2 ^ 2 = 4 /\ 2 ^ 3 = 8 BY SMT
<1>2. 2 ^ 8 = 256 /\ 2 ^ 9 = 512 /\ 2 ^ 10 = 1024 /\ 2 ^ 11 = 2048 BY SMT
<1>3. GET_SCALE(0) = 0 BY DEF GET_SCALE, ffs
<1>4. ffs(0) = 0 /\ ffs(1) = 1 BY <1>1 DEF ffs
<1>5. ffs(2) = 2 BY <1>1 DEF ffs
<1>6. ffs(4) = 3 BY <1>1 DEF ffs
<1>7. GET_SCALE(256) = ffs(0) /\ GET_SCALE(512) = ffs(1) BY DEF GET_SCALE
<1>8. GET_SCALE(1024) = ffs(2) /\ GET_SCALE(2048) = ffs(4) BY DEF GET_SCALE
<1>9. \A s \in Scales : s = 0 \/ s = 1 \/ s = 2 \/ s = 3 BY DEF Scales
<1>10. Flag(0) = 256 /\ Flag(1) = 512 /\ Flag(2) = 1024 /\ Flag(3) = 2048 BY <1>2 DEF Flag
<1> QED BY <1>3, <1>4, <1>5, <1>6, <1>7, <1>8, <1>9, <1>10

\* gn_update_device writes the value in the scale it is told, when there is one.
LEMMA UpdScales ==
  ASSUME NEW c \in Case, NEW dev \in Device(c.scale), NEW scale \in Scales
  PROVE  Upd(c, dev, scale) \in
           [cmd : {"upd"}, n : Int, in : IF c.subtype \in Scalable THEN {scale} ELSE Int]
<1> DEFINE v == gn_maybe_scale(c, dev, scale)
<1>1. c.scale \in Int /\ scale \in Int BY DEF Case, Scales
<1>2. dev.scale = c.scale /\ dev.value \in [n : Int, in : {c.scale}] BY DEF Device
<1>3. v \in [n : Int, in : IF c.subtype \in Scalable THEN {scale} ELSE Int]
  BY <1>1, <1>2 DEF gn_maybe_scale, Turned
<1>4. v.n \in Int /\ v.in \in (IF c.subtype \in Scalable THEN {scale} ELSE Int) BY <1>3
<1> HIDE DEF v
<1>5. Printed(c, get_data_dev(c, v.n)) \in Int BY <1>4, NumbersStay
<1> QED BY <1>4, <1>5 DEF Upd, v

\* The collector's own lines are in the scale of the device.
LEMMA UpdOwn ==
  ASSUME NEW c \in Case, NEW dev \in Device(c.scale)
  PROVE  Upd(c, dev, dev.scale) \in Upds(c.scale)
<1>1. dev.scale = c.scale /\ dev.value.n \in Int /\ dev.value.in = c.scale BY DEF Device
<1>2. Printed(c, get_data_dev(c, dev.value.n)) \in Int BY <1>1, NumbersStay
<1> QED BY <1>1, <1>2 DEF Upd, gn_maybe_scale, Upds

\* A line that is said is the last.
LEMMA SayLine ==
  ASSUME NEW S, NEW q \in Seq(S), NEW x \in S
  PROVE  Say(q, x) \in Seq(S) /\ Len(Say(q, x)) = Len(q) + 1
BY AppendProperties DEF Say

-----------------------------------------------------------------------------
(* The steps. *)

LEMMA InitI ==
  ASSUME ValuesAssumption, Init
  PROVE  IInv
<1> USE DEF Init, ValuesAssumption
<1>1. case \in Case OBVIOUS
<1>2. case.scale \in Scales /\ case.watch \in {"feed", "cfeed", "ask"} BY <1>1 DEF Case
<1>3. Dev(case.scale) \in Device(case.scale) /\ Dev(case.scale) \in Copy(case.scale)
  BY <1>2 DEF Dev, Device, Copy, Names, Scales
<1>4. /\ Reg(coll) \in CollectorLine(case.scale) /\ Mod(coll) \in CollectorLine(case.scale)
  BY <1>3 DEF Reg, Mod, Device, CollectorLine, Regs, Mods
<1>5. cs \in Seq(CollectorLine(case.scale)) /\ Len(cs) = 2 BY <1>4 DEF generic_build_device
<1>6. <<[cmd |-> case.watch]>> \in Seq(ClientLine) BY <1>2 DEF ClientLine, Watches
<1>7. client.known = FALSE BY DEF Dev
<1>8. <<>> \in Seq(Fed) /\ <<>> \in Seq(Chgs \cup Renames) BY EmptySeq
<1>9. MaxWire \in Nat OBVIOUS
<1>10. /\ coll \in Device(case.scale) /\ server \in Device(case.scale)
       /\ client \in Copy(case.scale)
  BY <1>3
<1>11. real = 0 /\ file = "old" OBVIOUS
<1>12. real \in Int /\ file \in Names BY <1>11 DEF Names
<1>13. up \in BOOLEAN /\ watching \in BOOLEAN OBVIOUS
<1>14. cs \in Seq(CollectorLine(case.scale)) /\ Len(cs) <= MaxWire + 2 BY <1>5, <1>9
<1>15. sc \in Seq(Chgs \cup Renames) /\ sg \in Seq(Fed) /\ Len(sg) <= MaxWire BY <1>8, <1>9
<1>16. ss = <<[cmd |-> case.watch]>> OBVIOUS
<1>17. ss \in Seq(ClientLine) /\ Len(ss) <= MaxWire + 1 BY <1>6, <1>9, <1>16
<1>18. AsWanted BY <1>7 DEF AsWanted
<1> HIDE DEF Init
<1> QED BY <1>1, <1>10, <1>12, <1>13, <1>14, <1>15, <1>17, <1>18 DEF IInv

\* The collector's value is in the device's scale, and so is the line.
LEMMA MeasureI ==
  ASSUME ValuesAssumption, IInv, Measure
  PROVE  IInv'
<1> USE DEF IInv, ValuesAssumption
<1> DEFINE n == store_data_dev(case, argtable(find_arg_bydev(case)), real)
<1>1. coll' = [coll EXCEPT !.value.n = n, !.known = TRUE] BY DEF Measure
<1>2. n \in Int BY NumbersStay
<1> HIDE DEF n
<1>3. coll' \in Device(case.scale) BY <1>1, <1>2 DEF Device
<1>4. coll.scale = coll'.scale BY <1>3 DEF Device
<1>5. Upd(case, coll', coll'.scale) \in CollectorLine(case.scale)
  BY <1>3, UpdOwn DEF CollectorLine
<1>6. cs' \in Seq(CollectorLine(case.scale)) /\ Len(cs') <= MaxWire + 2
  BY <1>4, <1>5, SayLine, LenProperties DEF Measure, Room
<1>7. UNCHANGED <<case, server, client, real, file, up, watching, sc, ss, sg>> BY DEF Measure
<1> QED BY <1>3, <1>6, <1>7 DEF AsWanted, Fed, Wanted

\* gnhastd takes a value, a name and a scale as they are, all in the device's scale;
\* who watches every update is told in scale 0.
LEMMA TakesFromCollectorI ==
  ASSUME ValuesAssumption, IInv, TakesFromCollector
  PROVE  IInv'
<1> USE DEF IInv, ValuesAssumption
<1>1. PICK l \in {Head(cs)} :
        \/ l.cmd = "upd" /\ cmd_update(l) /\ UNCHANGED sc
        \/ l.cmd = "reg" /\ cmd_register(l) /\ UNCHANGED sc
        \/ l.cmd = "mod" /\ cmd_modify(l) /\ UNCHANGED sg
  BY DEF TakesFromCollector
<1>2. /\ cs # <<>> /\ cs' = Tail(cs)
      /\ UNCHANGED <<case, coll, client, real, file, up, watching, ss>>
  BY DEF TakesFromCollector
<1>3. /\ l \in CollectorLine(case.scale)
      /\ cs' \in Seq(CollectorLine(case.scale)) /\ Len(cs') <= MaxWire + 2
  BY <1>2, HeadTailProperties, LenProperties
<1>4. CASE l.cmd = "upd" /\ cmd_update(l) /\ UNCHANGED sc
  <2>1. l.n \in Int /\ l.in = case.scale
    BY <1>3, <1>4 DEF CollectorLine, Upds, Regs, Mods
  <2>2. server.value.n \in Int BY DEF Device
  <2>3. Kept(case, server.value.n, l.n) \in Int BY <2>1, <2>2, NumbersStay
  <2>4. server' = [server EXCEPT !.value = [n |-> Kept(case, server.value.n, l.n), in |-> l.in],
                                 !.known = TRUE]
    BY <1>4 DEF cmd_update
  <2>5. server' \in Device(case.scale) BY <2>1, <2>3, <2>4 DEF Device
  <2>6. sg' \in Seq(Fed) /\ Len(sg') <= MaxWire
    <3>1. CASE watching /\ case.watch = "cfeed" /\ Room(sg)
      <4>1. Wanted = 0 /\ 0 \in Scales BY <3>1 DEF Wanted, Scales
      <4>2. Upd(case, server', GET_SCALE(0)) \in Fed
        BY <2>5, <4>1, ScaleFlags, UpdScales DEF Fed
      <4>3. sg' = Say(sg, Upd(case, server', GET_SCALE(0))) BY <1>4, <3>1 DEF cmd_update
      <4> QED BY <3>1, <4>2, <4>3, SayLine, LenProperties DEF Room
    <3>2. CASE ~(watching /\ case.watch = "cfeed" /\ Room(sg))
      BY <1>4, <3>2 DEF cmd_update
    <3> QED BY <3>1, <3>2
  <2> QED BY <1>2, <1>3, <1>4, <2>5, <2>6 DEF AsWanted, Fed, Wanted
<1>5. CASE l.cmd = "reg" /\ cmd_register(l) /\ UNCHANGED sc
  <2>1. l.name \in Names /\ l.scale = case.scale
    BY <1>3, <1>5 DEF CollectorLine, Upds, Regs, Mods
  <2>2. server' \in Device(case.scale) BY <1>5, <2>1 DEF cmd_register, Device
  <2> QED BY <1>2, <1>3, <1>5, <2>2 DEF cmd_register, AsWanted, Fed, Wanted
<1>6. CASE l.cmd = "mod" /\ cmd_modify(l) /\ UNCHANGED sg
  <2>1. l.name \in Names /\ l.hiwat \in {0, 1}
    BY <1>3, <1>6 DEF CollectorLine, Upds, Regs, Mods
  <2>2. server' \in Device(case.scale) BY <1>6, <2>1 DEF cmd_modify, Device
  <2>3. [cmd |-> "mod", name |-> l.name] \in Chgs \cup Renames BY <2>1 DEF Renames
  <2>4. sc' \in Seq(Chgs \cup Renames) BY <1>6, <2>3, SayLine DEF cmd_modify
  <2> QED BY <1>2, <1>3, <1>6, <2>2, <2>4 DEF AsWanted, Fed, Wanted
<1> QED BY <1>1, <1>4, <1>5, <1>6

\* A chg gives gnhastd another number, never another scale.
LEMMA TakesFromClientI ==
  ASSUME ValuesAssumption, IInv, TakesFromClient
  PROVE  IInv'
<1> USE DEF IInv, ValuesAssumption
<1>1. PICK l \in {Head(ss)} :
       \/ /\ l.cmd \in {"feed", "cfeed", "ask"}
          /\ watching' = TRUE
          /\ UNCHANGED <<server, sc>>
       \/ /\ l.cmd = "chg"
          /\ server' = IF datatype_dev(case) = "double" /\ Updated(find_arg_bydev(case))
                       THEN [server EXCEPT !.value.n = l.n] ELSE server
          /\ sc' = IF up /\ Updated(find_arg_bydev(case)) THEN Say(sc, l) ELSE sc
          /\ UNCHANGED watching
       \/ l.cmd = "mod" /\ cmd_modify(l) /\ UNCHANGED watching
  BY DEF TakesFromClient
<1>2. /\ ss # <<>> /\ ss' = Tail(ss)
      /\ UNCHANGED <<case, coll, client, real, file, up, cs, sg>>
  BY DEF TakesFromClient
<1>3. /\ l \in ClientLine
      /\ ss' \in Seq(ClientLine) /\ Len(ss') <= MaxWire + 1
  BY <1>2, HeadTailProperties, LenProperties
<1>4. CASE watching' = TRUE /\ UNCHANGED <<server, sc>>
  BY <1>2, <1>3, <1>4 DEF AsWanted, Fed, Wanted
<1>5. CASE /\ l.cmd = "chg"
           /\ server' = IF datatype_dev(case) = "double" /\ Updated(find_arg_bydev(case))
                        THEN [server EXCEPT !.value.n = l.n] ELSE server
           /\ sc' = IF up /\ Updated(find_arg_bydev(case)) THEN Say(sc, l) ELSE sc
           /\ UNCHANGED watching
  <2>1. l \in Chgs /\ l.n \in Int BY <1>3, <1>5 DEF ClientLine, Watches, Chgs, Mods
  <2>2. server' \in Device(case.scale) BY <1>5, <2>1 DEF Device
  <2>3. sc' \in Seq(Chgs \cup Renames) BY <1>5, <2>1, SayLine
  <2> QED BY <1>2, <1>3, <1>5, <2>2, <2>3 DEF AsWanted, Fed, Wanted
<1>6. CASE l.cmd = "mod" /\ cmd_modify(l) /\ UNCHANGED watching
  <2>1. l.name \in Names /\ l.hiwat \in {0, 1}
    BY <1>3, <1>6 DEF ClientLine, Watches, Chgs, Mods
  <2>2. server' \in Device(case.scale) BY <1>6, <2>1 DEF cmd_modify, Device
  <2>3. [cmd |-> "mod", name |-> l.name] \in Chgs \cup Renames BY <2>1 DEF Renames
  <2>4. sc' \in Seq(Chgs \cup Renames) BY <1>6, <2>3, SayLine DEF cmd_modify
  <2> QED BY <1>2, <1>3, <1>6, <2>2, <2>4 DEF AsWanted, Fed, Wanted
<1> QED BY <1>1, <1>4, <1>5, <1>6

\* A timed feed and the answer to "ask" carry the flag of the scale asked for.
LEMMA FeedI ==
  ASSUME ValuesAssumption, IInv, Feed
  PROVE  IInv'
<1> USE DEF IInv, ValuesAssumption
<1>1. /\ case.watch # "cfeed" /\ Room(sg)
      /\ sg' = Say(sg, Upd(case, server, GET_SCALE(Flag(case.as))))
      /\ UNCHANGED <<case, coll, server, client, real, file, up, watching, cs, sc, ss>>
  BY DEF Feed
<1>2. case.as \in Scales /\ Wanted = case.as BY <1>1 DEF Case, Wanted
<1>3. Upd(case, server, case.as) \in Fed BY <1>2, UpdScales DEF Fed
<1>4. GET_SCALE(Flag(case.as)) = case.as BY <1>2, ScaleFlags
<1>5. sg' \in Seq(Fed) /\ Len(sg') <= MaxWire
  BY <1>1, <1>3, <1>4, SayLine, LenProperties DEF Room
<1> QED BY <1>1, <1>5 DEF AsWanted, Fed, Wanted

\* The client takes the scale of the line.
LEMMA ClientTakesI ==
  ASSUME ValuesAssumption, IInv, ClientTakes
  PROVE  IInv'
<1> USE DEF IInv, ValuesAssumption
<1> DEFINE l == Head(sg)
<1>1. /\ sg # <<>> /\ sg' = Tail(sg)
      /\ client' = [client EXCEPT !.value = [n |-> Kept(case, client.value.n, l.n), in |-> l.in],
                                  !.known = TRUE]
      /\ UNCHANGED <<case, coll, server, real, file, up, watching, cs, sc, ss>>
  BY DEF ClientTakes
<1>2. l \in Fed /\ sg' \in Seq(Fed) /\ Len(sg') <= MaxWire
  BY <1>1, HeadTailProperties, LenProperties
<1> HIDE DEF l
<1>3. /\ l.n \in Int /\ l.in \in IF case.subtype \in Scalable THEN {Wanted} ELSE Int
      /\ client.value.n \in Int
  BY <1>2 DEF Fed, Copy
<1>4. Wanted \in Int BY DEF Wanted, Case, Scales
<1>5. Kept(case, client.value.n, l.n) \in Int BY <1>3, NumbersStay
<1>6. client' \in Copy(case.scale) BY <1>1, <1>3, <1>4, <1>5 DEF Copy
<1>7. case.subtype \in Scalable => client'.value.in = Wanted BY <1>1, <1>3 DEF Copy
<1>8. AsWanted' BY <1>1, <1>7 DEF AsWanted, Wanted
<1> QED BY <1>1, <1>2, <1>6, <1>8 DEF Fed, Wanted

\* The device changes, or its name, by what was said to the collector.
LEMMA CollectorTakesI ==
  ASSUME ValuesAssumption, IInv, CollectorTakes
  PROVE  IInv'
<1> USE DEF IInv, ValuesAssumption
<1>1. PICK l \in {Head(sc)} :
       \/ l.cmd = "chg" /\ real' = cmd_change(l) /\ UNCHANGED <<coll, file>>
       \/ /\ l.cmd = "mod"
          /\ coll' = [coll EXCEPT !.name = l.name]
          /\ file' = new_conf_from_dev(coll')
          /\ UNCHANGED real
  BY DEF CollectorTakes
<1>2. /\ sc # <<>> /\ sc' = Tail(sc)
      /\ UNCHANGED <<case, server, client, up, watching, cs, ss, sg>>
  BY DEF CollectorTakes
<1>3. l \in Chgs \cup Renames /\ sc' \in Seq(Chgs \cup Renames)
  BY <1>2, HeadTailProperties
<1>4. CASE l.cmd = "chg" /\ real' = cmd_change(l) /\ UNCHANGED <<coll, file>>
  <2>1. l.n \in Int BY <1>3, <1>4 DEF Chgs, Renames
  <2>2. real' \in Int BY <1>4, <2>1, NumbersStay DEF cmd_change
  <2> QED BY <1>2, <1>3, <1>4, <2>2 DEF AsWanted, Fed, Wanted
<1>5. CASE /\ l.cmd = "mod"
           /\ coll' = [coll EXCEPT !.name = l.name]
           /\ file' = new_conf_from_dev(coll')
           /\ UNCHANGED real
  <2>1. l.name \in Names BY <1>3, <1>5 DEF Chgs, Renames
  <2>2. coll' \in Device(case.scale) /\ coll'.name \in Names BY <1>5, <2>1 DEF Device
  <2> QED BY <1>2, <1>3, <1>5, <2>2 DEF new_conf_from_dev, AsWanted, Fed, Wanted
<1> QED BY <1>1, <1>4, <1>5

LEMMA UserChangesI ==
  ASSUME ValuesAssumption, IInv, UserChanges
  PROVE  IInv'
<1> USE DEF IInv, ValuesAssumption
<1>1. /\ Len(ss) < MaxWire
      /\ UNCHANGED <<case, coll, server, client, real, file, up, watching, cs, sc, sg>>
  BY DEF UserChanges, Room
<1>2. ASSUME NEW n \in Numbers
      PROVE  Chg(case, store_data_dev(case, argtable(find_arg_bydev(case)), n)) \in ClientLine
  <2>1. n \in Int BY DEF Numbers
  <2>2. store_data_dev(case, argtable(find_arg_bydev(case)), n) \in Int BY <2>1, NumbersStay
  <2> QED BY <2>2, NumbersStay DEF Chg, ClientLine, Chgs
<1>3. \A name \in Names : [cmd |-> "mod", name |-> name, hiwat |-> 1] \in ClientLine
  BY DEF ClientLine, Mods
<1>4. \E x \in ClientLine : ss' = Say(ss, x) BY <1>2, <1>3 DEF UserChanges
<1>5. ss' \in Seq(ClientLine) /\ Len(ss') <= MaxWire + 1
  BY <1>1, <1>4, SayLine, LenProperties
<1> QED BY <1>1, <1>5 DEF AsWanted, Fed, Wanted

LEMMA ChangesI ==
  ASSUME IInv, Changes
  PROVE  IInv'
<1>1. real' \in Int BY DEF Changes, Numbers
<1>2. UNCHANGED <<case, coll, server, client, file, up, watching, cs, sc, ss, sg>>
  BY DEF Changes, wires
<1> QED BY <1>1, <1>2 DEF IInv, AsWanted, Fed, Wanted

\* A restart of the collector leaves no line of its connection; the configuration has
\* the device's scale.
LEMMA CollectorEndsI ==
  ASSUME ValuesAssumption, IInv, CollectorEnds
  PROVE  IInv'
<1>1. /\ up' = FALSE /\ cs' = <<>> /\ sc' = <<>>
      /\ UNCHANGED <<case, coll, server, client, real, file, watching, ss, sg>>
  BY DEF CollectorEnds
<1>2. cs' \in Seq(CollectorLine(case.scale)) /\ sc' \in Seq(Chgs \cup Renames) /\ Len(cs') = 0
  BY <1>1, EmptySeq
<1>3. Len(cs') <= MaxWire + 2 BY <1>2 DEF ValuesAssumption
<1>4. AsWanted' BY <1>1 DEF IInv, AsWanted, Wanted
<1>5. sg' \in Seq(Fed)' /\ Len(sg') <= MaxWire BY <1>1 DEF IInv, Fed, Wanted
<1> QED BY <1>1, <1>2, <1>3, <1>4, <1>5 DEF IInv

LEMMA CollectorStartsI ==
  ASSUME ValuesAssumption, IInv, CollectorStarts
  PROVE  IInv'
<1> USE DEF IInv, ValuesAssumption
<1>1. /\ up' = TRUE /\ coll' = new_dev_from_conf(file) /\ cs' = <<Reg(coll'), Mod(coll')>>
      /\ UNCHANGED <<case, server, client, real, file, watching, sc, ss, sg>>
  BY DEF CollectorStarts, generic_build_device
<1>2. case.scale \in Scales BY DEF Case
<1>3. Dev(case.scale) \in Device(case.scale) BY <1>2 DEF Dev, Device, Names
<1>4. coll' \in Device(case.scale) BY <1>1, <1>3 DEF new_dev_from_conf, Device
<1>5. Reg(coll') \in CollectorLine(case.scale) /\ Mod(coll') \in CollectorLine(case.scale)
  BY <1>4 DEF Reg, Mod, Device, CollectorLine, Regs, Mods
<1>6. cs' \in Seq(CollectorLine(case.scale)) /\ Len(cs') = 2 BY <1>1, <1>5
<1>7. Len(cs') <= MaxWire + 2 BY <1>6
<1> QED BY <1>1, <1>4, <1>6, <1>7 DEF AsWanted, Fed, Wanted

LEMMA StepI ==
  ASSUME ValuesAssumption, IInv, [Next]_vars
  PROVE  IInv'
<1>1. CASE UNCHANGED vars BY <1>1 DEF vars, IInv, AsWanted, Fed, Wanted
<1> QED
  BY <1>1, MeasureI, TakesFromCollectorI, TakesFromClientI, FeedI, ClientTakesI, CollectorTakesI,
     UserChangesI, ChangesI, CollectorEndsI, CollectorStartsI DEF Next
=============================================================================
