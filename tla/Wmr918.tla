------------------------------- MODULE Wmr918 -------------------------------
(***************************************************************************)
(* wmr918coll: the collector of Oregon Scientific weather stations.  A     *)
(* WX200 (over wx200d or a serial line) and a WMR918 (over a serial line)  *)
(* send packets of binary coded decimal digits; each packet has a          *)
(* checksum, and only the first byte of a WX200's and the first three of a *)
(* WMR918's say where a packet begins and of what length it is.            *)
(***************************************************************************)
EXTENDS Link, Sequences, FiniteSetsExt, SequencesExt

CONSTANTS
  MaxPackets,  \* bound: packets and stretches of noise received, unless a WX200's
               \* configuration is dumped
  MaxLost,     \* bound: losses of either connection
  TooOld       \* the steps of time that make up collector_is_ok's five minutes

VARIABLES
  station,    \* the kind of the station and its line: "wx200d" (a WX200 on a serial
              \* line differs in that the line is never lost) or "wmr918"
  cfg,        \* the scales of the wmr918 section
  dumpconf,   \* given -m: write a configuration and exit
  named,      \* devices that have a name in the configuration
  conf,       \* devices that have a section in it
  alldevs,    \* the devices in the table
  gotdata,    \* groups seen
  input,      \* the evbuffer: "empty", "part" of a packet, "deaf" (it begins
              \* with noise that is never drained)
  hung,       \* the read callback does not return
  count,      \* wmr_handle_clock: clock packets, to 2
  age,        \* time since wmr_lastupd, in steps up to TooOld
  ended,      \* "no", "dumped" (exit after the dump) or "fatal" (LOG_FATAL)
  said,       \* history: the reading last handled of each group, unless dumping
  packets,    \* packets so far
  losses      \* losses so far

wmrVars == <<station, cfg, dumpconf, named, conf, alldevs, gotdata, input, hung, count,
             age, ended, said, packets, losses>>
vars == <<linkVars, wmrVars>>

-----------------------------------------------------------------------------
(***************************************************************************)
(* Packets.  A packet is digits at places <<byte, mask>>.  A field names a *)
(* device, the kind of its data, the places of its digits with the weight  *)
(* that the code gives each (in tenths of the unit), the place of its sign *)
(* and what is added.                                                      *)
(***************************************************************************)
Lo(b) == <<b, 15>>
Hi(b) == <<b, 240>>
Never == <<0, 0>>
Plain(dev, kind, digits) ==
  [dev |-> dev, kind |-> kind, digits |-> digits, sign |-> Never, add |-> 0]
Signed(dev, kind, digits, sign) ==
  [dev |-> dev, kind |-> kind, digits |-> digits, sign |-> sign, add |-> 0]
Above(dev, kind, digits, add) ==
  [dev |-> dev, kind |-> kind, digits |-> digits, sign |-> Never, add |-> add]
Bcd(low, high) == <<<<low, 10>>, <<high, 100>>>>
Flag(dev, mask) == Plain(dev, "flag", <<<<<<3, mask>>, 10 * mask>>>>)

Wx2Temp(dev, b) ==
  Signed(dev, "temp", <<<<Lo(b), 1>>, <<Hi(b), 10>>, <<<<b + 1, 7>>, 100>>>>, <<b + 1, 8>>)
wx2_handle_humid == {Plain("inhumid", "humid", Bcd(Lo(8), Hi(8))),
                     Plain("outhumid", "humid", Bcd(Lo(20), Hi(20)))}
wx2_handle_temp == {Wx2Temp("intemp", 1), Wx2Temp("outtemp", 16)}
wx2_handle_baro ==
  {Plain("indew", "celsius", Bcd(Lo(7), Hi(7))),
   Plain("outdew", "celsius", Bcd(Lo(18), Hi(18))),
   Plain("localbaro", "baro", <<<<Lo(1), 10>>, <<Hi(1), 100>>, <<Lo(2), 1000>>, <<Hi(2), 1000>>>>),
   Plain("sealevelbaro", "baro", <<<<Lo(3), 1>>, <<Hi(3), 10>>, <<Lo(4), 100>>, <<Hi(4), 1000>>,
                                   <<Lo(5), 10000>>>>)}
Wx2Rain(dev, b) == Plain(dev, "rain", <<<<Lo(b), 10>>, <<Hi(b), 10>>, <<Lo(b + 1), 1000>>,
                                        <<Hi(b + 1), IF dev = "rain" THEN 0 ELSE 1000>>>>)
wx2_handle_rain == {Wx2Rain("rain", 1), Wx2Rain("ydayrain", 3), Wx2Rain("totalrain", 5)}
Wx2Wind(speed, dir, b) ==
  {Plain(speed, "speed", <<<<Lo(b), 1>>, <<Hi(b), 10>>, <<Lo(b + 1), 100>>>>),
   Plain(dir, "dir", <<<<Hi(b + 1), 10>>, <<Lo(b + 2), 100>>, <<Hi(b + 2), 1000>>>>)}
wx2_handle_wind == Wx2Wind("windgust", "windgustdir", 1) \cup Wx2Wind("windavg", "windavgdir", 4)
                     \cup {Plain("windchill", "celsius", Bcd(Lo(16), Hi(16)))}

wmr_calc_temp(dev) ==
  Signed(dev, "celsius", <<<<Lo(4), 1>>, <<Hi(4), 10>>, <<Lo(5), 100>>, <<<<5, 48>>, 16000>>>>,
         <<5, 128>>)
\* A wrong wmr_handle_wind: the gust's tenths are read from the direction.
wmr_wind_overlap ==
  {Plain("winddir", "dir", <<<<Lo(4), 10>>, <<Hi(4), 100>>, <<Lo(5), 1000>>>>),
   Plain("windgust", "speed", <<<<Lo(5), 1>>, <<Lo(6), 10>>, <<Hi(6), 100>>>>),
   Plain("windavg", "speed", <<<<Lo(7), 1>>, <<Hi(7), 10>>, <<Lo(8), 100>>>>),
   Signed("windchill", "celsius", Bcd(Lo(9), Hi(9)), <<8, 128>>),
   Flag("windbattery", 64)}
wmr_handle_wind ==
  {Plain("winddir", "dir", <<<<Lo(4), 10>>, <<Hi(4), 100>>, <<Lo(5), 1000>>>>),
   Plain("windgust", "speed", <<<<Hi(5), 1>>, <<Lo(6), 10>>, <<Hi(6), 100>>>>),
   Plain("windavg", "speed", <<<<Lo(7), 1>>, <<Hi(7), 10>>, <<Lo(8), 100>>>>),
   Signed("windchill", "celsius", Bcd(Lo(9), Hi(9)), <<8, 128>>),
   Flag("windbattery", 64)}
\* With and without a hygrometer.
wmr_handle_th(hygro) ==
  {wmr_calc_temp("temp"), Flag("battery", 64)} \cup
  (IF hygro THEN {Plain("humid", "humid", Bcd(Lo(6), Hi(6))),
                  Plain("dew", "celsius", Bcd(Lo(7), Hi(7)))} ELSE {})
\* The sea level pressure is what this offset adds to the converter's value.
wmr_handle_bth ==
  {Plain("thbhumid", "humid", Bcd(Lo(6), Hi(6))), wmr_calc_temp("thbtemp"),
   Plain("thbdew", "celsius", Bcd(Lo(7), Hi(7))),
   Above("thblocalbaro", "mb", <<<<<<8, 255>>, 10>>>>, 7950),
   Plain("thbsealevelbaro", "offset",
         <<<<Lo(10), 1>>, <<Hi(10), 10>>, <<Lo(11), 100>>, <<Hi(11), 1000>>>>),
   Flag("thbbattery", 64), Plain("thbweather", "weather", <<<<Lo(9), 10>>>>)}
wmr_handle_extbth ==
  {Plain("inhumid", "humid", Bcd(Lo(6), Hi(6))), wmr_calc_temp("intemp"),
   Plain("indew", "celsius", Bcd(Lo(7), Hi(7))),
   Above("localbaro", "mb", <<<<<<8, 255>>, 10>>, <<<<9, 1>>, 2560>>>>, 6000),
   Plain("sealevelbaro", "offset",
         <<<<Hi(10), 1>>, <<Lo(11), 10>>, <<Hi(11), 100>>, <<Lo(12), 1000>>, <<Hi(12), 10000>>>>),
   Flag("inthbbattery", 64), Plain("inthbweather", "weather", <<<<Hi(9), 10>>>>)}
wmr_handle_rain ==
  {Plain("rain", "rain", <<<<Lo(4), 10>>, <<Hi(4), 100>>, <<Lo(5), 1000>>>>),
   Plain("ydayrain", "rain", <<<<Lo(8), 10>>, <<Hi(8), 100>>, <<Lo(9), 1000>>, <<Hi(9), 10000>>>>),
   Above("totalrain", "rain", <<<<Hi(5), 1>>, <<Lo(6), 10>>, <<Hi(6), 100>>, <<Lo(7), 1000>>,
                                <<Hi(7), 10000>>>>, -5),
   Flag("rainbattery", 64)}

\* The packets that each read callback knows, with the channels in use.  (More
\* than one mushroom, or a channel beyond 3, ends or misleads the collector: the
\* group of the one is not that of the other.)
Channels(type) == CASE type = "TH" -> {0, 1} [] type = "THERM" -> {1} [] OTHER -> {0}
Wx2Types == {"HUMID", "TEMP", "BARO", "RAIN", "WIND", "TIME"}
WmrTypes == {"wind", "wmrrain", "TH", "MUSH", "THERM", "THB", "EXTTHB", "MIN", "CLOCK"}
Types == IF station = "wmr918" THEN WmrTypes ELSE Wx2Types
Sources(T) == UNION {{t} \X Channels(t) : t \in T}

Fields(type) ==
  CASE type = "HUMID" -> wx2_handle_humid
    [] type = "TEMP"  -> wx2_handle_temp
    [] type = "BARO"  -> wx2_handle_baro
    [] type = "RAIN"  -> wx2_handle_rain
    [] type = "WIND"  -> wx2_handle_wind
    [] type = "TIME"  -> {}
    [] type = "wind"  -> wmr_handle_wind
    [] type = "wmrrain" -> wmr_handle_rain
    [] type = "TH"    -> wmr_handle_th(TRUE)
    [] type = "MUSH"  -> wmr_handle_th(TRUE)
    [] type = "THERM" -> wmr_handle_th(FALSE)
    [] type = "THB"   -> wmr_handle_bth
    [] type = "EXTTHB" -> wmr_handle_extbth
    [] type \in {"MIN", "CLOCK"} -> {Plain("mainbattery", "flag", <<<<<<3, 128>>, 1280>>>>)}

\* A device is of the source whose packets have its values; the two minute
\* packets have the same one.
Owner(s) == IF s[1] = "CLOCK" THEN <<"MIN", 0>> ELSE s
Devs(s) == {<<Owner(s), f.dev>> : f \in Fields(s[1])}
\* wmr_handle_clock asks for the one group, whichever packet it was.
GroupAsked(s) == Owner(s)

\* What the station shows, in tenths: two readings of every field, the second
\* below zero where there is a sign.
Shown(f, j) ==
  LET n == Len(f.digits)
      places == IF f.kind \in {"celsius", "temp"} /\ n > 3 THEN 3 ELSE n
      tens == IF j = 1 THEN 54321 ELSE 23456
      unit == IF Len(f.digits) > 0 THEN f.digits[1][2] ELSE 1
      size == unit * (tens % (IF f.kind = "mb" THEN 256 * n ELSE 10 ^ places)) + f.add
  IN CASE f.kind = "flag"    -> (j - 1) * unit
       [] f.kind = "weather" -> <<120, 30>>[j]     \* sunny, rainy
       [] OTHER -> IF j = 2 /\ f.sign # Never THEN -size ELSE size

\* The places that the station fills for it: decimal digits, or a byte and a bit.
Abs(n) == IF n < 0 THEN -n ELSE n
Digit(f, i, j) ==
  LET unit == f.digits[1][2]
      base == IF f.kind = "mb" THEN 256 ELSE 10
      size == (Abs(Shown(f, j)) - f.add) \div unit
  IN IF f.kind = "weather" THEN size ELSE (size \div base ^ (i - 1)) % base
Wire(type, j) ==
  [p \in UNION {{f.sign} \cup {f.digits[i][1] : i \in DOMAIN f.digits} : f \in Fields(type)} |->
    LET f == CHOOSE f \in Fields(type) :
               p = f.sign \/ \E i \in DOMAIN f.digits : p = f.digits[i][1]
    IN IF p = f.sign THEN (IF Shown(f, j) < 0 THEN 1 ELSE 0)
       ELSE Digit(f, CHOOSE i \in DOMAIN f.digits : p = f.digits[i][1], j)]

\* What the handlers make of the places.
Number(f, wire) ==
  LET size == f.add + FoldLeft(LAMBDA sum, d : sum + d[2] * wire[d[1]], 0, f.digits)
  IN IF f.sign # Never /\ wire[f.sign] = 1 THEN -size ELSE size

-----------------------------------------------------------------------------
\* The scales: a number in one unit is converted to another; converting it from
\* a unit that it is not in makes it wrong.
Conv(x, from, to) ==
  IF from = to THEN x ELSE [x EXCEPT !.unit = IF x.unit = from THEN to ELSE "wrong"]
In(n, unit) == [n |-> n, unit |-> unit]

\* The unit of what a WX200 shows: its first reading in metric units, its second
\* in others.
Native(type, kind, j) ==
  CASE kind \in {"temp", "celsius"} -> IF kind = "temp" /\ j = 2 THEN "F" ELSE "C"
    [] kind = "speed" -> IF type = "WIND" THEN <<"kph", "knots">>[j] ELSE "ms"
    [] kind = "rain"  -> IF type = "RAIN" /\ j = 2 THEN "in" ELSE "mm"
    [] kind = "baro"  -> <<"mb", "inHg">>[j]
    [] kind \in {"mb", "offset"} -> "mb"
    [] OTHER -> "none"
Scale(kind) ==
  CASE kind \in {"temp", "celsius"} -> cfg.tscale
    [] kind = "speed" -> cfg.speedscale
    [] kind = "rain"  -> cfg.lengthscale
    [] kind \in {"mb", "baro", "offset"} -> cfg.baroscale
    [] OTHER -> "none"

\* wx2_calc_baro converts to the scale, wx2_handle_baro does it again.
wx2_calc_baro(x, native) == Conv(Conv(Conv(x, native, "mb"), "mb", cfg.baroscale), "mb", cfg.baroscale)

\* The handlers' conversions.  The speeds of a WX200 go through miles per hour.
Converted(type, f, j, n) ==
  LET native == Native(type, f.kind, j)
      x == In(n, native)
  IN CASE f.kind = "baro"  -> wx2_calc_baro(x, native)
       [] f.kind = "speed" -> IF native = cfg.speedscale /\ native = "ms" THEN x
                              ELSE Conv(Conv(x, native, "mph"), "mph", cfg.speedscale)
       [] OTHER -> Conv(x, native, Scale(f.kind))

\* The sea level pressure: the converter's value and the offset, which a WMR918
\* sends without its thousands.
SeaLevel(type, offset, adc) ==
  adc + offset + (IF type = "THB" /\ offset < 4000 THEN 10000 ELSE 0)
Adc(type, get(_)) ==
  LET f == CHOOSE f \in Fields(type) : f.kind = "mb" IN get(f) - f.add
SeaShown(type, f, j) == Shown(f, j) + Adc(type, LAMBDA g : Shown(g, j))
                          + (IF type = "THB" /\ j = 2 THEN 10000 ELSE 0)

Reported(type, f, j) ==
  LET wire == Wire(type, j)
      n == Number(f, wire)
  IN IF f.kind = "offset"
       THEN Converted(type, f, j, SeaLevel(type, n, Adc(type, LAMBDA g : Number(g, wire))))
       ELSE Converted(type, f, j, n)
Meant(type, f, j) ==
  In(IF f.kind = "offset" THEN SeaShown(type, f, j) ELSE Shown(f, j), Scale(f.kind))

\* What of a WX200 is not told as it is shown: its local pressure and its rain
\* are put together with wrong weights, and its pressures are converted twice.
Misread(type, f) ==
  \/ type = "RAIN"
  \/ type = "BARO" /\ f.kind = "baro" /\ (f.dev = "localbaro" \/ cfg.baroscale # "mb")

-----------------------------------------------------------------------------
\* Two of the configurations that there can be.
Scales == {[tscale |-> "F", baroscale |-> "inHg", lengthscale |-> "in", speedscale |-> "mph"],
           [tscale |-> "K", baroscale |-> "cb", lengthscale |-> "mm", speedscale |-> "knots"]}
AllDevs == UNION {Devs(s) : s \in Sources(Types)}

\* The devices of the configuration are in the table, those with a name are
\* registered.
parse_devices ==
  /\ conf = named
  /\ alldevs = conf
  /\ reg = IF dumpconf THEN {} ELSE alldevs \cap named

\* main.  A serial line may be read from the middle of a packet.
Init ==
  /\ LinkInit
  /\ station \in {"wx200d", "wmr918"}
  /\ cfg \in Scales
  /\ dumpconf \in BOOLEAN
  /\ named = IF dumpconf THEN {} ELSE AllDevs
  /\ parse_devices
  /\ gotdata = {}
  /\ input \in (IF station = "wmr918" THEN {"empty", "deaf"} ELSE {"empty"})
  /\ hung = FALSE
  /\ count = 0
  /\ age = 0
  /\ ended = "no"
  /\ said = [s \in {} |-> 0]
  /\ packets = 0
  /\ losses = 0

\* The event loop is there to run a callback.
Serving == Running /\ ~hung

\* new_dev and new_int_dev of the devices D, of values vals.
new_dev(D, vals) ==
  /\ alldevs' = alldevs \cup D
  /\ conf' = conf \cup D
  /\ IF dumpconf THEN UNCHANGED linkVars ELSE Say(D \cap named, vals)
  /\ UNCHANGED ended

\* update_dev and update_int_dev; a device that is not in the table is fatal.
update_dev(D, vals) ==
  /\ UNCHANGED <<alldevs, conf>>
  /\ IF D \subseteq alldevs
       THEN Say({}, vals) /\ UNCHANGED ended
       ELSE /\ ended' = "fatal"
            /\ link' = "exited"
            /\ UNCHANGED <<need_rereg, shutdown, reg, told>>

\* maybe_dump_conf is called by each handler of a WX200's packets, before the
\* packet's group is marked, and by the third clock packet of a WMR918.
maybe_dump_conf(s) ==
  /\ dumpconf
  /\ IF station = "wmr918" THEN s[1] \in {"MIN", "CLOCK"} /\ count > 1
                           ELSE \A t \in Wx2Types \ {"TIME"} : <<t, 0>> \in gotdata

\* The packet of source s, with the j-th readings, has come in whole.
Handle(s, j) ==
  LET type == s[1]
      vals == [d \in Devs(s) \cap named |->
                 Reported(type, CHOOSE f \in Fields(type) : f.dev = d[2], j)]
  IN /\ gotdata' = IF type = "TIME" THEN gotdata ELSE gotdata \cup {s}
     /\ count' = IF dumpconf /\ type \in {"MIN", "CLOCK"} THEN Min({count + 1, 2}) ELSE count
     /\ said' = IF dumpconf THEN said ELSE (Owner(s) :> j) @@ said
     /\ IF maybe_dump_conf(s)
          THEN /\ ended' = "dumped"
               /\ link' = "exited"
               /\ conf' = IF GroupAsked(s) \in gotdata THEN conf ELSE conf \cup Devs(s)
               /\ UNCHANGED <<need_rereg, shutdown, reg, told, alldevs>>
          ELSE IF GroupAsked(s) \in gotdata
          THEN update_dev(Devs(s), vals)
          ELSE new_dev(Devs(s), vals)

\* One more packet or stretch of noise.  (A dump waits for the five groups of a
\* WX200, for the third clock packet of a WMR918.)
Uncounted == dumpconf /\ station # "wmr918"
Received ==
  /\ Serving
  /\ Uncounted \/ packets < (IF dumpconf THEN 3 ELSE MaxPackets)
  /\ packets' = IF Uncounted THEN packets ELSE packets + 1
  /\ UNCHANGED <<station, cfg, dumpconf, named, losses>>

\* wx2_buf_read_cb and wmr_buf_read_cb, with a good checksum, a wrong one, and
\* when there is not yet all of the packet.
GoodPacket ==
  /\ Received
  /\ input # "deaf"
  /\ input' = "empty"
  /\ age' = 0
  /\ \E s \in Sources(Types), j \in {1, 2} : Handle(s, j)
  /\ UNCHANGED hung
Spoilt ==
  /\ UNCHANGED <<linkVars, conf, alldevs, gotdata, count, ended, said>>
BadChecksum ==
  /\ Received
  /\ input # "deaf"
  /\ input' = "empty"
  /\ age' = 0
  /\ Spoilt /\ UNCHANGED hung
PartOfPacket ==
  /\ Received
  /\ input = "empty"
  /\ input' = "part"
  /\ Spoilt /\ UNCHANGED <<hung, age>>

\* What begins with no packet's first byte is never drained.  For a WX200 the
\* loop goes on for ever; for a WMR918 it ends, whatever comes after, unless the
\* third byte alone is wrong.
Noise ==
  /\ Received
  /\ input = "empty"
  /\ Spoilt
  /\ \/ hung' = TRUE /\ UNCHANGED <<input, age>>
     \/ station = "wmr918" /\ input' = "deaf" /\ age' = 0 /\ UNCHANGED hung
Unheard ==
  /\ Serving
  /\ input = "deaf" /\ age # 0
  /\ age' = 0
  /\ Spoilt
  /\ UNCHANGED <<station, cfg, dumpconf, named, input, hung, packets, losses>>

\* wx200d_connect_event_cb: another connection, another bufferevent.
wx200d_lost ==
  /\ Serving /\ station = "wx200d" /\ losses < MaxLost
  /\ losses' = losses + 1
  /\ input' = "empty"
  /\ UNCHANGED <<linkVars, station, cfg, dumpconf, named, conf, alldevs, gotdata, hung, count,
                 age, ended, said, packets>>

\* Time goes by.
Tick ==
  /\ Running
  /\ age' = Min({age + 1, TooOld})
  /\ age # age'
  /\ UNCHANGED <<linkVars, station, cfg, dumpconf, named, conf, alldevs, gotdata, input, hung,
                 count, ended, said, packets, losses>>

\* health_cb: the timer of an earlier connection writes to a freed bufferevent.
collector_is_ok == age < TooOld
health_cb ==
  /\ Serving /\ collector_is_ok
  /\ link = "waiting"
  /\ link' = "crashed"
  /\ UNCHANGED <<need_rereg, shutdown, reg, told, wmrVars>>

\* connect_event_cb, connect_server_cb, cb_sigterm and cb_shutdown.
connect_event_cb ==
  /\ ~hung
  /\ \/ LinkUp /\ UNCHANGED wmrVars
     \/ /\ losses < MaxLost
        /\ losses' = losses + 1
        /\ LinkLost
        /\ UNCHANGED <<station, cfg, dumpconf, named, conf, alldevs, gotdata, input, hung, count,
                       age, ended, said, packets>>
\* A wrong connect_server_cb: the devices are not registered again.
connect_without_rereg == ~hung /\ LinkRetry({}) /\ UNCHANGED wmrVars
connect_server_cb ==
  /\ ~hung
  /\ LinkRetry(IF dumpconf THEN {} ELSE alldevs \cap named)
  /\ UNCHANGED wmrVars
cb_sigterm == ~hung /\ LinkSigterm /\ UNCHANGED wmrVars
cb_shutdown == ~hung /\ LinkShutdown /\ UNCHANGED wmrVars

Next ==
  \/ GoodPacket \/ BadChecksum \/ PartOfPacket \/ Noise \/ Unheard \/ wx200d_lost
  \/ Tick \/ health_cb \/ connect_event_cb \/ connect_server_cb \/ cb_sigterm \/ cb_shutdown

Spec == Init /\ [][Next]_vars

-----------------------------------------------------------------------------
\* Type invariant of wmr918coll's state.
TypeOK ==
  /\ LinkTypeOK(AllDevs, [n : Int, unit : {"F", "C", "K", "inHg", "mb", "cb", "in", "mm", "mph",
                                           "ms", "knots", "none", "wrong"}])
  /\ dumpconf \in BOOLEAN
  /\ named \subseteq conf /\ conf \subseteq AllDevs
  /\ alldevs \subseteq conf
  /\ gotdata \subseteq Sources(Types)
  /\ input \in {"empty", "part", "deaf"}
  /\ hung \in BOOLEAN
  /\ count \in 0 .. 2
  /\ age \in 0 .. TooOld
  /\ ended \in {"no", "dumped", "fatal"}
  /\ DOMAIN said \subseteq Sources(Types)

\* gnhastd has of every device what the station showed in the last good packet,
\* in the configured scale, over lost packets and lost connections.
Truthful ==
  Running => \A d \in DOMAIN told :
    LET type == d[1][1]
        f == CHOOSE f \in Fields(type) : f.dev = d[2]
    IN Misread(type, f) \/ told[d] = Meant(type, f, said[d[1]])

\* gnhastd is told no value of a device that it does not know.
Introduced == dumpconf \/ RegisteredFirst

\* The packets of a station never end the collector.
NeverFatal == ended # "fatal"

\* The configuration that a WX200's collector writes has all of its devices.
DumpComplete == ended = "dumped" /\ station # "wmr918" => AllDevs \subseteq conf
=============================================================================
