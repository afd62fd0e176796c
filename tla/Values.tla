------------------------------- MODULE Values -------------------------------
(***************************************************************************)
(* The way of a device's value, name and water marks: from its collector   *)
(* through gnhastd to a client that watches it, and the client's changes   *)
(* back.  Each of the three keeps a device_t of its own; a value is        *)
(* written as text under the keyword of the device and read by the type    *)
(* that the argument table gives the keyword.                              *)
(***************************************************************************)
EXTENDS Integers, Sequences

CONSTANTS
  Cases,       \* the devices and how they are watched: see Case
  MaxWire,     \* bound: lines on their way
  MaxChanges,  \* bound: changes by the client
  MaxLost      \* bound: restarts of the collector

VARIABLES
  case,        \* the device: type, subtype, scale; and how the client watches it, in which scale
  coll,        \* the device of the collector
  server,      \* of gnhastd
  client,      \* of the client
  real,        \* what the device itself shows
  file,        \* the name in the collector's configuration file
  up,          \* the collector is connected and has registered the device
  watching,    \* the client's feed is known to gnhastd
  cs, sc, ss, sg, \* lines: collector to gnhastd and back, client to gnhastd and back
  changes, losses

vars == <<case, coll, server, client, real, file, up, watching, cs, sc, ss, sg, changes, losses>>
counts == <<changes, losses>>
wires == <<cs, sc, ss, sg>>

Names == {"old", "new"}
\* The integers are narrower than the code's, in the same proportion to each other.
U8 == 4
U32 == 16
U64 == 256
Numbers == {0, 3, 9}
\* The scales of temperatures, pressures and speeds; the others have fewer.
Scales == 0 .. 3
Case == [type : {"switch", "dimmer", "sensor", "blind"}, subtype : STRING, scale : Scales,
         watch : {"feed", "cfeed", "ask"}, as : Scales]
\* Assumed by the instances.
ValuesAssumption == Cases \subseteq Case /\ {MaxWire, MaxChanges, MaxLost} \subseteq Nat

-----------------------------------------------------------------------------
\* The subtypes by what they are kept in.
States == {"switch", "outlet", "weather", "alarm", "thmode", "thstate", "smnum", "collector", "blind", "daylight", "tristate"}
Counts == {"timer", "count", "trigger"}
Longs == {"wsec", "number"}
Scalable == {"temp", "pres", "speed", "rain", "lux"}

\* store_data_dev, get_data_dev: the member of the union; a blind has none to get.
Member(c) ==
  IF c.type = "switch" THEN "u8" ELSE IF c.type = "dimmer" THEN "double"
  ELSE IF c.subtype \in States THEN "u8" ELSE IF c.subtype \in Counts THEN "u32"
  ELSE IF c.subtype \in Longs THEN "i64" ELSE "double"
datatype_dev(c) ==
  IF c.type = "dimmer" THEN "double" ELSE IF c.subtype \in States \cup Counts THEN "uint"
  ELSE IF c.subtype \in Longs THEN "ll" ELSE "double"
find_arg_bydev(c) ==
  IF c.type = "dimmer" THEN "dimmer" ELSE IF c.subtype = "outlet" THEN "switch" ELSE c.subtype
argtable(word) ==
  IF word \in States THEN "int" ELSE IF word \in Counts THEN "uint" ELSE IF word \in Longs THEN "ll" ELSE "double"
\* What a member keeps of the argument as it was read; a number read as one type and
\* kept as another is nonsense.
NONSENSE == -99
store_data_dev(c, pt, x) ==
  LET m == Member(c)
  IN CASE m = "u8" /\ pt = "int" -> x % U8
       [] m = "u32" /\ pt = "uint" -> x % U32
       [] m = "i64" /\ pt = "ll" -> x
       [] m = "double" /\ pt = "double" -> x
       [] OTHER -> NONSENSE
\* What is got, into a variable that was 0.
get_data_dev(c, x) == IF c.type = "blind" THEN 0 ELSE x

\* Printing with %d or %jd or %f, and parse_command.
Printed(c, x) == IF datatype_dev(c) = "uint" /\ x >= U32 \div 2 THEN x - U32 ELSE x
\* A wrong way to read it: as a signed integer that stays within its bounds.
atoi(word, x) == IF argtable(word) = "uint" /\ x < 0 THEN 0 ELSE x
parse_command(word, x) == IF argtable(word) = "uint" THEN x % U64 ELSE x
\* The keywords that cmd_update and cmd_change know.
Updated(word) == word # "rain"
\* What a device keeps of the text of its value.
Kept(c, old, n) ==
  LET w == find_arg_bydev(c)
  IN IF Updated(w) THEN store_data_dev(c, argtable(w), parse_command(w, n)) ELSE old

\* A value is a number and the scale it is in: gn_scale_temp and the others turn it
\* into another, if it is in the one they are told.
Turned(v, cur, new) == IF v.in = cur THEN [v EXCEPT !.in = new] ELSE [v EXCEPT !.in = NONSENSE]
\* gn_maybe_scale: from the device's scale; a device without scales keeps its value.
gn_maybe_scale(c, dev, new) ==
  IF dev.scale = new \/ c.subtype \notin Scalable THEN dev.value ELSE Turned(dev.value, dev.scale, new)
\* GNC_UPD_SCALE and GNC_GET_SCALE: the scale among the flags of an update, one bit
\* each; none for scale 0, or when none was given.
Flag(scale) == 2 ^ (8 + scale)
ffs(x) == IF x = 0 THEN 0 ELSE CHOOSE n \in 1 .. 8 : x % 2 ^ n # 0 /\ x % 2 ^ (n - 1) = 0
\* A wrong one: the bit of scale 0 counts.
GET_SCALE_FROM_8(what) == ffs(((what % 65536) \div 256))
GET_SCALE(what) == ffs(((what % 65536) \div 512))

\* gn_update_device.
Upd(c, dev, scale) ==
  LET v == gn_maybe_scale(c, dev, scale)
  IN [cmd |-> "upd", n |-> Printed(c, get_data_dev(c, v.n)), in |-> v.in]
Chg(c, x) == [cmd |-> "chg", n |-> Printed(c, x)]
Reg(dev) == [cmd |-> "reg", name |-> dev.name, scale |-> dev.scale]
\* gn_modify_device; cmd_modify sends the name on, without the water mark.
Mod(dev) == [cmd |-> "mod", name |-> dev.name, hiwat |-> dev.hiwat]

Say(q, line) == Append(q, line)
Room(q) == Len(q) < MaxWire

-----------------------------------------------------------------------------
Dev(scale) == [name |-> "old", scale |-> scale, hiwat |-> 0, value |-> [n |-> 0, in |-> scale], known |-> FALSE]
\* The device as the configuration file has it, and back.
new_dev_from_conf(name) == [Dev(case.scale) EXCEPT !.name = name]
new_conf_from_dev(dev) == dev.name
\* generic_build_device.
generic_build_device(dev) == <<Reg(dev), Mod(dev)>>
Init ==
  /\ case \in Cases
  /\ coll = Dev(case.scale) /\ server = Dev(case.scale) /\ client = Dev(case.scale)
  /\ real = 0
  /\ file = "old"
  /\ up = TRUE /\ watching = FALSE
  /\ cs = generic_build_device(coll) /\ sc = <<>>
  /\ ss = <<[cmd |-> case.watch]>> /\ sg = <<>>
  /\ changes = 0 /\ losses = 0

\* The collector reads its device.
Measure ==
  /\ up /\ Room(cs)
  /\ \E n \in {store_data_dev(case, argtable(find_arg_bydev(case)), real)} :
       coll' = [coll EXCEPT !.value.n = n, !.known = TRUE]
  /\ cs' = Say(cs, Upd(case, coll', coll.scale))
  /\ UNCHANGED <<case, server, client, real, file, up, watching, sc, ss, sg, counts>>

\* cmd_update of gnhastd; those who watch are told, with no scale among the flags.
cmd_update(l) ==
  /\ server' = [server EXCEPT !.value = [n |-> Kept(case, @.n, l.n), in |-> l.in], !.known = TRUE]
  /\ sg' = IF watching /\ case.watch = "cfeed" /\ Room(sg) THEN Say(sg, Upd(case, server', GET_SCALE(0))) ELSE sg
cmd_register(l) == server' = [server EXCEPT !.name = l.name, !.scale = l.scale] /\ UNCHANGED sg
\* cmd_modify: goes on to the collector, also when it is the collector that sent it.
cmd_modify(l) ==
  /\ server' = [server EXCEPT !.name = l.name, !.hiwat = l.hiwat]
  /\ sc' = IF up THEN Say(sc, [cmd |-> "mod", name |-> l.name]) ELSE sc
TakesFromCollector ==
  /\ cs # <<>>
  /\ cs' = Tail(cs)
  /\ \E l \in {Head(cs)} :
       \/ l.cmd = "upd" /\ cmd_update(l) /\ UNCHANGED sc
       \/ l.cmd = "reg" /\ cmd_register(l) /\ UNCHANGED sc
       \/ l.cmd = "mod" /\ cmd_modify(l) /\ UNCHANGED sg
  /\ UNCHANGED <<case, coll, client, real, file, up, watching, ss, counts>>
\* From the client: feed, cfeed or ask; chg, of which gnhastd keeps a double at once,
\* and which changes nothing if gnhastd does not know the keyword; mod.
TakesFromClient ==
  /\ ss # <<>>
  /\ ss' = Tail(ss)
  /\ \E l \in {Head(ss)} :
       \/ /\ l.cmd \in {"feed", "cfeed", "ask"}
          /\ watching' = TRUE
          /\ UNCHANGED <<server, sc>>
       \/ /\ l.cmd = "chg"
          /\ server' = IF datatype_dev(case) = "double" /\ Updated(find_arg_bydev(case))
                       THEN [server EXCEPT !.value.n = l.n] ELSE server
          /\ sc' = IF up /\ Updated(find_arg_bydev(case)) THEN Say(sc, l) ELSE sc
          /\ UNCHANGED watching
       \/ l.cmd = "mod" /\ cmd_modify(l) /\ UNCHANGED watching
  /\ UNCHANGED <<case, coll, client, real, file, up, cs, sg, counts>>

\* feeddata_cb, in the scale of the feed; or the answer to one more "ask".
Feed ==
  /\ watching /\ case.watch # "cfeed" /\ Room(sg)
  /\ sg' = Say(sg, Upd(case, server, GET_SCALE(Flag(case.as))))
  /\ UNCHANGED <<case, coll, server, client, real, file, up, watching, cs, sc, ss, counts>>
\* cmd_update of the client.
ClientTakes ==
  /\ sg # <<>>
  /\ sg' = Tail(sg)
  /\ client' = [client EXCEPT !.value = [n |-> Kept(case, @.n, Head(sg).n), in |-> Head(sg).in], !.known = TRUE]
  /\ UNCHANGED <<case, coll, server, real, file, up, watching, cs, sc, ss, counts>>

\* cmd_change of the collector: a switch or a dimmer stays within 0 and 1.
cmd_change(l) == IF case.type \in {"switch", "dimmer"} /\ l.n > 1 THEN 1 ELSE Kept(case, real, l.n)
\* The device takes the value; cmd_modify writes the configuration file with the name.
CollectorTakes ==
  /\ up /\ sc # <<>>
  /\ sc' = Tail(sc)
  /\ \E l \in {Head(sc)} :
       \/ l.cmd = "chg" /\ real' = cmd_change(l) /\ UNCHANGED <<coll, file>>
       \/ /\ l.cmd = "mod"
          /\ coll' = [coll EXCEPT !.name = l.name]
          /\ file' = new_conf_from_dev(coll')
          /\ UNCHANGED real
  /\ UNCHANGED <<case, server, client, up, watching, cs, ss, sg, counts>>

\* The user of the client changes the value, or the name and the water mark.
UserChanges ==
  /\ changes < MaxChanges /\ Room(ss)
  /\ changes' = changes + 1
  /\ \/ \E n \in Numbers : ss' = Say(ss, Chg(case, store_data_dev(case, argtable(find_arg_bydev(case)), n)))
     \/ \E name \in Names : ss' = Say(ss, [cmd |-> "mod", name |-> name, hiwat |-> 1])
  /\ UNCHANGED <<case, coll, server, client, real, file, up, watching, cs, sc, sg, losses>>
\* The device changes.
Changes ==
  /\ changes < MaxChanges
  /\ changes' = changes + 1
  /\ real' \in Numbers
  /\ UNCHANGED <<case, coll, server, client, file, up, watching, wires, losses>>

\* The collector ends, and starts again from its configuration file.
CollectorEnds ==
  /\ up /\ losses < MaxLost
  /\ losses' = losses + 1
  /\ up' = FALSE
  /\ cs' = <<>> /\ sc' = <<>>
  /\ UNCHANGED <<case, coll, server, client, real, file, watching, ss, sg, changes>>
CollectorStarts ==
  /\ ~up
  /\ up' = TRUE
  /\ coll' = new_dev_from_conf(file)
  /\ cs' = generic_build_device(coll')
  /\ UNCHANGED <<case, server, client, real, file, watching, sc, ss, sg, counts>>

Next ==
  \/ Measure \/ TakesFromCollector \/ TakesFromClient \/ Feed \/ ClientTakes \/ CollectorTakes
  \/ UserChanges \/ Changes \/ CollectorEnds \/ CollectorStarts
\* Collectors measure again and again, feeds come again and again; no line is left.
Fairness ==
  /\ SF_vars(Measure) /\ SF_vars(Feed)
  /\ WF_vars(TakesFromCollector) /\ WF_vars(TakesFromClient) /\ WF_vars(ClientTakes)
  /\ WF_vars(CollectorTakes) /\ WF_vars(CollectorStarts)
Spec == Init /\ [][Next]_vars /\ Fairness

-----------------------------------------------------------------------------
\* Type invariant of the three devices.
TypeOK ==
  /\ \A d \in {coll, server, client} :
       d.name \in Names /\ d.hiwat \in {0, 1} /\ d.scale \in Scales /\ d.value.n \in Int /\ d.value.in \in Int
  /\ up \in BOOLEAN /\ watching \in BOOLEAN
  /\ Len(cs) <= MaxWire + 2 /\ Len(ss) <= MaxWire + 1 /\ Len(sg) <= MaxWire

\* A client that asked for its values in a scale has them in it, whatever the scale of
\* the device is.
UnitAsAsked ==
  client.known /\ case.subtype \in Scalable /\ case.watch # "cfeed" => client.value.in = case.as

\* The comment of cmd_cfeed: "No scaling is provided here.  sorry."  A client that asked
\* for every update has the values in the scale of the device.
CfeedUnscaled ==
  client.known /\ case.subtype \in Scalable /\ case.watch = "cfeed" => client.value.in = case.scale

\* In the end gnhastd and the client have what the device shows, as far as it can be
\* kept, and one name for it; but for rain rates, which cmd_update does not know, and
\* blinds, whose value is never got.
Carried(c) == c.subtype # "rain" /\ c.type # "blind"
Settled ==
  /\ server.name = file /\ coll.name = file
  /\ Carried(case) =>
       LET n == store_data_dev(case, argtable(find_arg_bydev(case)), real)
       IN n # NONSENSE /\ server.value.n = n /\ client.value.n = n
=============================================================================
