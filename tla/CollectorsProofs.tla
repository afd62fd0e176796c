-------------------------- MODULE CollectorsProofs --------------------------
(***************************************************************************)
(* Theorems about the collectors, for every value of the constants: what   *)
(* they tell gnhastd is of devices that are registered, and what they find *)
(* out about their devices is right.  Variables are under the names of     *)
(* Collectors; the comments give those of the modules.                     *)
(***************************************************************************)
EXTENDS Collectors, TLAPS

\* The connection of wmr918coll and of brulcoll to gnhastd.  While lines can be
\* written, the devices D are registered (reg, v4), unless a configuration is dumped
\* (dumpconf, v8); while the retry timer runs (link, v1, is "waiting") they will be
\* when it fires (need_rereg, v2), and nothing has been told (told, v5); and nothing
\* is told of others.
LinkOK(D) ==
  /\ v1 \in {"connecting", "up"} /\ ~v8 => D \subseteq v4
  /\ v1 = "waiting" => v2 /\ DOMAIN v5 = {}
  /\ v8 \/ DOMAIN v5 \subseteq v4

\* wmr918coll.  A group that has been seen (gotdata, v12) has its devices in the table
\* (alldevs, v11) and so in the configuration (conf, v10); when the collector ends
\* (ended, v17), its connection does.
WmrInv ==
  /\ v8 \in BOOLEAN
  /\ LinkOK(v11 \cap v9)
  /\ v12 \subseteq Wmr918!Sources(Wmr918!Types)
  /\ v17 \in {"no", "dumped"} /\ (v17 # "no" => v1 = "exited")
  /\ v17 = "no" => \A s \in v12 : Wmr918!Devs(s) \subseteq v11
  /\ v11 \subseteq v10
  /\ Wmr918!DumpComplete

-----------------------------------------------------------------------------
(* The connection. *)

\* A line that registers X and tells the values vals keeps it, if what is new in the
\* table is in X.
LEMMA WmrSay ==
  ASSUME NEW D, NEW E, NEW X, NEW vals, LinkOK(D), Wmr918!Say(X, vals), v8' = v8,
         E \ D \subseteq X, v8 \/ DOMAIN vals \subseteq X \cup D
  PROVE  LinkOK(E)'
<1>1. CASE v1 \in {"connecting", "up"}
  <2>1. /\ v1' = v1 /\ v4' = v4 \cup X
        /\ v5' = [d \in DOMAIN v5 \cup DOMAIN vals |-> IF d \in DOMAIN vals THEN vals[d] ELSE v5[d]]
    BY <1>1 DEF Wmr918!Say
  <2>2. DOMAIN v5' = DOMAIN v5 \cup DOMAIN vals BY <2>1
  <2> QED BY <1>1, <2>1, <2>2 DEF LinkOK
<1>2. CASE v1 = "waiting"
  BY <1>2 DEF Wmr918!Say, Wmr918!linkVars, LinkOK
<1> QED BY <1>1, <1>2 DEF Wmr918!Say

\* The loss of the connection, its retry with the devices D, and the rest.
LEMMA WmrLink ==
  ASSUME NEW D, LinkOK(D), v8' = v8,
         \/ Wmr918!LinkUp \/ Wmr918!LinkLost \/ Wmr918!LinkRetry(IF v8 THEN {} ELSE D)
         \/ Wmr918!LinkSigterm \/ Wmr918!LinkShutdown \/ UNCHANGED Wmr918!linkVars
  PROVE  LinkOK(D)'
<1> USE DEF LinkOK
<1>1. CASE Wmr918!LinkUp BY <1>1 DEF Wmr918!LinkUp
<1>2. CASE Wmr918!LinkLost
  <2>1. DOMAIN Wmr918!NothingTold = {} BY DEF Wmr918!NothingTold
  <2> QED BY <1>2, <2>1 DEF Wmr918!LinkLost
<1>3. CASE Wmr918!LinkRetry(IF v8 THEN {} ELSE D) BY <1>3 DEF Wmr918!LinkRetry
<1>4. CASE Wmr918!LinkSigterm BY <1>4 DEF Wmr918!LinkSigterm, Wmr918!Running
<1>5. CASE Wmr918!LinkShutdown BY <1>5 DEF Wmr918!LinkShutdown
<1>6. CASE UNCHANGED Wmr918!linkVars BY <1>6 DEF Wmr918!linkVars
<1> QED BY <1>1, <1>2, <1>3, <1>4, <1>5, <1>6

-----------------------------------------------------------------------------
(* wmr918coll. *)

\* The two minute packets have the same devices.
LEMMA WmrOwner ==
  ASSUME NEW s
  PROVE  Wmr918!Devs(Wmr918!Owner(s)) = Wmr918!Devs(s)
<1>1. CASE s[1] = "CLOCK"
  <2>1. Wmr918!Owner(s) = <<"MIN", 0>> /\ Wmr918!Owner(<<"MIN", 0>>) = <<"MIN", 0>>
    BY <1>1 DEF Wmr918!Owner
  <2>2. Wmr918!Fields("MIN") = Wmr918!Fields("CLOCK") BY DEF Wmr918!Fields
  <2> QED BY <1>1, <2>1, <2>2 DEF Wmr918!Devs
<1>2. CASE s[1] # "CLOCK" BY <1>2 DEF Wmr918!Owner
<1> QED BY <1>1, <1>2

LEMMA WmrInit == Wmr918!Init => WmrInv
<1> SUFFICES ASSUME Wmr918!Init PROVE WmrInv OBVIOUS
<1> USE DEF Wmr918!Init, Wmr918!LinkInit, Wmr918!parse_devices
<1>1. v8 \in BOOLEAN OBVIOUS
<1>2. DOMAIN v5 = {} BY DEF Wmr918!NothingTold
<1>3. LinkOK(v11 \cap v9) BY <1>2 DEF LinkOK
<1> QED BY <1>1, <1>3 DEF WmrInv, Wmr918!DumpComplete

\* When every group of a WX200 has been seen, all of its devices are in the table.
LEMMA WmrComplete ==
  ASSUME v6 # "wmr918", \A t \in Wmr918!Wx2Types \ {"TIME"} : <<t, 0>> \in v12,
         \A s \in v12 : Wmr918!Devs(s) \subseteq v11
  PROVE  Wmr918!AllDevs \subseteq v11
<1>1. SUFFICES ASSUME NEW t \in Wmr918!Wx2Types, NEW s \in {t} \X Wmr918!Channels(t)
               PROVE  Wmr918!Devs(s) \subseteq v11
  BY DEF Wmr918!AllDevs, Wmr918!Sources, Wmr918!Types
<1>2. s = <<t, 0>> BY DEF Wmr918!Channels, Wmr918!Wx2Types
<1>3. CASE t = "TIME"
  <2>1. Wmr918!Fields(s[1]) = {} BY <1>2, <1>3 DEF Wmr918!Fields
  <2> QED BY <2>1 DEF Wmr918!Devs
<1>4. CASE t # "TIME" BY <1>2, <1>4
<1> QED BY <1>3, <1>4

\* A packet: its group's devices are in the table, or it puts them there and registers
\* those with names.
LEMMA WmrHandle ==
  ASSUME WmrInv, v17 = "no", v8' = v8, v9' = v9, v6' = v6,
         NEW s \in Wmr918!Sources(Wmr918!Types), NEW j, Wmr918!Handle(s, j)
  PROVE  WmrInv'
<1> DEFINE vals == [d \in Wmr918!Devs(s) \cap v9 |->
                     Wmr918!Reported(s[1], CHOOSE f \in Wmr918!Fields(s[1]) : f.dev = d[2], j)]
<1>1. v12' \subseteq v12 \cup {s} /\ v12' \subseteq Wmr918!Sources(Wmr918!Types)'
  BY DEF Wmr918!Handle, WmrInv, Wmr918!Sources, Wmr918!Types, Wmr918!Channels,
         Wmr918!WmrTypes, Wmr918!Wx2Types
<1>2. DOMAIN vals = Wmr918!Devs(s) \cap v9 OBVIOUS
<1>3. Wmr918!AllDevs' = Wmr918!AllDevs
  BY DEF Wmr918!AllDevs, Wmr918!Sources, Wmr918!Types
<1>4. CASE Wmr918!maybe_dump_conf(s)
  <2>1. /\ v17' = "dumped" /\ v1' = "exited" /\ v10 \subseteq v10'
        /\ UNCHANGED <<v2, v3, v4, v5, v11>>
    BY <1>4 DEF Wmr918!Handle
  <2>2. v6 # "wmr918" => Wmr918!AllDevs \subseteq v11
    BY <1>4, WmrComplete DEF WmrInv, Wmr918!maybe_dump_conf
  <2>3. LinkOK(v11 \cap v9)' BY <2>1 DEF LinkOK, WmrInv
  <2>4. Wmr918!DumpComplete' BY <1>3, <2>1, <2>2 DEF WmrInv, Wmr918!DumpComplete
  <2> QED BY <1>1, <2>1, <2>3, <2>4 DEF WmrInv
<1>5. CASE ~Wmr918!maybe_dump_conf(s) /\ Wmr918!GroupAsked(s) \in v12
  <2>1. Wmr918!Devs(s) \subseteq v11
    BY <1>5, WmrOwner DEF WmrInv, Wmr918!GroupAsked
  <2>2. Wmr918!update_dev(Wmr918!Devs(s), vals) BY <1>5 DEF Wmr918!Handle
  <2>3. UNCHANGED <<v11, v10, v17>> /\ Wmr918!Say({}, vals)
    BY <2>1, <2>2 DEF Wmr918!update_dev
  <2>4. LinkOK(v11 \cap v9)'
    <3> HIDE DEF vals
    <3>1. LinkOK(v11 \cap v9) /\ DOMAIN vals \subseteq v11 \cap v9 BY <1>2, <2>1 DEF WmrInv
    <3>2. \A D : LinkOK(D) /\ DOMAIN vals \subseteq D => LinkOK(D)' BY <2>3, WmrSay
    <3> QED BY <2>3, <3>1, <3>2 DEF LinkOK
  <2>5. Wmr918!DumpComplete' BY <2>3 DEF WmrInv, Wmr918!DumpComplete
  <2> QED BY <1>1, <2>1, <2>3, <2>4, <2>5 DEF WmrInv
<1>6. CASE ~Wmr918!maybe_dump_conf(s) /\ Wmr918!GroupAsked(s) \notin v12
  <2>1. Wmr918!new_dev(Wmr918!Devs(s), vals) BY <1>6 DEF Wmr918!Handle
  <2>2. v11' = v11 \cup Wmr918!Devs(s) /\ v10' = v10 \cup Wmr918!Devs(s) /\ v17' = v17
    BY <2>1 DEF Wmr918!new_dev
  <2>3. LinkOK(v11 \cap v9)'
    <3> HIDE DEF vals
    <3>1. CASE v8 BY <2>1, <3>1 DEF Wmr918!new_dev, Wmr918!linkVars, LinkOK, WmrInv
    <3>2. CASE ~v8
      <4>1. LinkOK(v11 \cap v9) BY DEF WmrInv
      <4>2. Wmr918!Say(Wmr918!Devs(s) \cap v9, vals) BY <2>1, <3>2 DEF Wmr918!new_dev
      <4>3. \A D, E : LinkOK(D) /\ E \ D \subseteq Wmr918!Devs(s) \cap v9 => LinkOK(E)'
        BY <1>2, <4>2, WmrSay
      <4> QED BY <2>2, <4>1, <4>3 DEF LinkOK
    <3> QED BY <3>1, <3>2
  <2>4. Wmr918!DumpComplete' BY <2>2 DEF Wmr918!DumpComplete
  <2> QED BY <1>1, <2>2, <2>3, <2>4 DEF WmrInv
<1> QED BY <1>4, <1>5, <1>6

LEMMA WmrStep == WmrInv /\ [Wmr918!Next]_(Wmr918!vars) => WmrInv'
<1> SUFFICES ASSUME WmrInv, [Wmr918!Next]_(Wmr918!vars) PROVE WmrInv' OBVIOUS
<1>1. CASE Wmr918!GoodPacket
  <2>1. v17 = "no" BY <1>1 DEF Wmr918!GoodPacket, Wmr918!Received, Wmr918!Serving, Wmr918!Running, WmrInv
  <2>2. v8' = v8 /\ v9' = v9 /\ v6' = v6 BY <1>1 DEF Wmr918!GoodPacket, Wmr918!Received
  <2> QED BY <1>1, <2>1, <2>2, WmrHandle DEF Wmr918!GoodPacket
<1>2. ASSUME UNCHANGED <<v6, v8, v9, v10, v11, v12, v17>>, LinkOK(v11 \cap v9)', v17 # "no" => v1' = "exited"
      PROVE  WmrInv'
  <2>1. Wmr918!DumpComplete'
    BY <1>2 DEF WmrInv, Wmr918!DumpComplete, Wmr918!AllDevs, Wmr918!Sources, Wmr918!Types
  <2>2. v12' \subseteq Wmr918!Sources(Wmr918!Types)'
    BY <1>2 DEF WmrInv, Wmr918!Sources, Wmr918!Types
  <2> QED BY <1>2, <2>1, <2>2 DEF WmrInv
<1>3. ASSUME UNCHANGED <<v6, v8, v9, v10, v11, v12, v17>>,
             \/ Wmr918!LinkUp \/ Wmr918!LinkLost
             \/ Wmr918!LinkRetry(IF v8 THEN {} ELSE v11 \cap v9)
             \/ Wmr918!LinkSigterm \/ Wmr918!LinkShutdown \/ UNCHANGED Wmr918!linkVars
      PROVE  WmrInv'
  <2>1. LinkOK(v11 \cap v9) /\ v11' \cap v9' = v11 \cap v9 BY <1>3 DEF WmrInv
  <2>2. LinkOK(v11 \cap v9)' BY <1>3, <2>1, WmrLink DEF LinkOK
  <2>3. v17 # "no" => v1' = "exited"
    BY <1>3 DEF WmrInv, Wmr918!LinkUp, Wmr918!LinkLost, Wmr918!LinkRetry, Wmr918!LinkSigterm,
                Wmr918!LinkShutdown, Wmr918!Running, Wmr918!linkVars
  <2> QED BY <1>2, <1>3, <2>2, <2>3
<1>4. CASE Wmr918!BadChecksum \/ Wmr918!PartOfPacket \/ Wmr918!Noise \/ Wmr918!Unheard
  BY <1>3, <1>4 DEF Wmr918!BadChecksum, Wmr918!PartOfPacket, Wmr918!Noise, Wmr918!Unheard,
                    Wmr918!Spoilt, Wmr918!Received
<1>5. CASE Wmr918!wx200d_lost \/ Wmr918!Tick
  BY <1>3, <1>5 DEF Wmr918!wx200d_lost, Wmr918!Tick
<1>6. CASE Wmr918!health_cb
  <2>1. UNCHANGED <<v2, v4, v5, v6, v8, v9, v10, v11, v12, v17>> /\ v1 = "waiting" /\ v1' = "crashed"
    BY <1>6 DEF Wmr918!health_cb, Wmr918!wmrVars
  <2>2. LinkOK(v11 \cap v9)' BY <2>1 DEF WmrInv, LinkOK
  <2> QED BY <1>2, <2>1, <2>2 DEF WmrInv
<1>7. CASE Wmr918!connect_event_cb
  BY <1>3, <1>7 DEF Wmr918!connect_event_cb, Wmr918!wmrVars
<1>8. CASE Wmr918!connect_server_cb \/ Wmr918!cb_sigterm \/ Wmr918!cb_shutdown
  BY <1>3, <1>8 DEF Wmr918!connect_server_cb, Wmr918!cb_sigterm, Wmr918!cb_shutdown, Wmr918!wmrVars
<1>9. CASE UNCHANGED Wmr918!vars
  BY <1>3, <1>9 DEF Wmr918!vars, Wmr918!wmrVars
<1> QED
  BY <1>1, <1>4, <1>5, <1>6, <1>7, <1>8, <1>9 DEF Wmr918!Next

-----------------------------------------------------------------------------
(* brulcoll.  The variables are mode (v9), cmd (v11), reply (v12), realtime (v13),  *)
(* brulconf (v14), alldevs (v15) and skipped (v23).                                 *)

\* The modes in which the GEM is quiet, and those after the answer that tells f.
Quiet == {"PKT", "IVL", "SRN", "TEMPTYPE", "TST", "PST", "CMX"}
After(f) ==
  CASE f = "serial"   -> {"TEMPTYPE", "TST", "PST", "CMX", "RTON", "DATA"}
    [] f = "temps"    -> {"PST", "CMX", "RTON", "DATA"}
    [] f = "pulses"   -> {"CMX", "RTON", "DATA"}
    [] f = "channels" -> {"RTON", "DATA"}
Facts == {"serial", "temps", "pulses", "channels"}

\* A GEM that has been told to be quiet says nothing but the answer that is waited
\* for, so what has been answered is right; unless the set-up was driven on by the
\* loss of its connection.
SetUp ==
  /\ v9 \in Quiet =>
       /\ ~v13
       /\ \E m \in DOMAIN Brul!Setup :
            LET sent == Brul!Setup[m]
            IN sent.then = v9 /\ v11 \in {sent.cmd, "none"} /\ v12 \in {Brul!Answer[sent.cmd], "none"}
  /\ v9 = "RTOFF" =>
       v11 \in {"SYSOFF", "none"} /\ (v11 = "none" \/ v12 = "OFF" => ~v13)
  /\ \A f \in Facts : v9 \in After(f) => v14[f] = "right"
BrulInv ==
  /\ v8 \in BOOLEAN
  /\ ~v8 => v15 = Brul!AllDevs
  /\ LinkOK(v15)
  /\ v9 \in Brul!Modes \ {"NONE"}
  /\ DOMAIN v14 = Facts
  /\ v23 \in BOOLEAN
  /\ v23 \/ SetUp

\* Both collectors have the same connection.
LEMMA SameLink ==
  /\ \A X, vals : Brul!Say(X, vals) <=> Wmr918!Say(X, vals)
  /\ Brul!LinkUp <=> Wmr918!LinkUp
  /\ Brul!LinkLost <=> Wmr918!LinkLost
  /\ \A D : Brul!LinkRetry(D) <=> Wmr918!LinkRetry(D)
  /\ Brul!LinkSigterm <=> Wmr918!LinkSigterm
  /\ Brul!LinkShutdown <=> Wmr918!LinkShutdown
  /\ Brul!linkVars = Wmr918!linkVars
<1> USE DEF Brul!linkVars, Wmr918!linkVars, Brul!NothingTold, Wmr918!NothingTold,
            Brul!Running, Wmr918!Running
<1>1. \A X, vals : Brul!Say(X, vals) <=> Wmr918!Say(X, vals) BY DEF Brul!Say, Wmr918!Say
<1>2. Brul!LinkUp <=> Wmr918!LinkUp BY DEF Brul!LinkUp, Wmr918!LinkUp
<1>3. Brul!LinkLost <=> Wmr918!LinkLost BY DEF Brul!LinkLost, Wmr918!LinkLost
<1>4. \A D : Brul!LinkRetry(D) <=> Wmr918!LinkRetry(D) BY DEF Brul!LinkRetry, Wmr918!LinkRetry
<1>5. Brul!LinkSigterm <=> Wmr918!LinkSigterm BY DEF Brul!LinkSigterm, Wmr918!LinkSigterm
<1>6. Brul!LinkShutdown <=> Wmr918!LinkShutdown BY DEF Brul!LinkShutdown, Wmr918!LinkShutdown
<1> QED BY <1>1, <1>2, <1>3, <1>4, <1>5, <1>6

\* The answer that a quiet GEM gives lets the set-up go on, and tells what was asked.
LEMMA SetupAnswers ==
  ASSUME NEW m \in DOMAIN Brul!Setup, Brul!Setup[m].then \in Quiet, v9 = Brul!Setup[m].then
  PROVE  LET line == Brul!Answer[Brul!Setup[m].cmd]
         IN Brul!Expected(line) /\ (v9 \in DOMAIN Brul!Asked => Brul!Asked[v9] = line)
BY DEF Brul!Setup, Brul!Answer, Brul!Expected, Brul!Asked, Quiet

LEMMA BrulInit == Brul!Init => BrulInv
<1> SUFFICES ASSUME Brul!Init PROVE BrulInv OBVIOUS
<1> USE DEF Brul!Init, Brul!LinkInit
<1>1. DOMAIN v5 = {} BY DEF Brul!NothingTold
<1>2. LinkOK(v15) BY <1>1 DEF LinkOK
<1>3. v8 \in BOOLEAN /\ v23 \in BOOLEAN /\ DOMAIN v14 = Facts /\ (~v8 => v15 = Brul!AllDevs)
  BY DEF Facts
<1>4. \/ v9 = "RTOFF" /\ v11 = "SYSOFF" /\ v12 = "none"
      \/ v9 = "WAITREADY"
  BY DEF Brul!Setup
<1>5. SetUp BY <1>4 DEF SetUp, Quiet, After, Facts
<1> QED BY <1>2, <1>3, <1>4, <1>5 DEF BrulInv, Brul!Modes, Brul!Setup

\* What an answer, a stretch of junk and the line that is read do to the set-up.
LEMMA GemAnswersSetUp ==
  ASSUME SetUp, Brul!GemAnswers \/ Brul!GemJunk
  PROVE  SetUp'
<1>1. v9' = v9 /\ v14' = v14 BY DEF Brul!GemAnswers, Brul!GemJunk
<1>2. CASE v9 \in Quiet
  <2>1. PICK m \in DOMAIN Brul!Setup :
          LET sent == Brul!Setup[m]
          IN sent.then = v9 /\ v11 \in {sent.cmd, "none"} /\ v12 \in {Brul!Answer[sent.cmd], "none"}
    BY <1>2 DEF SetUp
  <2>2. ~v13 BY <1>2 DEF SetUp
  <2>3. Brul!GemAnswers BY <2>2 DEF Brul!GemJunk
  <2>4. v11 = Brul!Setup[m].cmd /\ v11' = "none" /\ v12' = Brul!Answer[v11]
    BY <2>1, <2>2, <2>3 DEF Brul!GemAnswers
  <2>5. ~v13'
    <3>1. v11 # "SYS_ON" BY <1>2, <2>1, <2>4 DEF Brul!Setup, Quiet
    <3> QED BY <2>2, <2>3, <3>1 DEF Brul!GemAnswers
  <2>6. v9 # "RTOFF" BY <1>2 DEF Quiet
  <2> QED BY <1>1, <2>1, <2>4, <2>5, <2>6 DEF SetUp
<1>3. CASE v9 = "RTOFF"
  <2>1. v11' \in {"SYSOFF", "none"} /\ (v11' = "none" \/ v12' = "OFF" => ~v13')
    BY <1>3 DEF SetUp, Brul!GemAnswers, Brul!GemJunk
  <2> QED BY <1>1, <1>3, <2>1 DEF SetUp, Quiet
<1>4. CASE v9 \notin Quiet /\ v9 # "RTOFF" BY <1>1, <1>4 DEF SetUp
<1> QED BY <1>2, <1>3, <1>4

LEMMA ReadSetUp ==
  ASSUME SetUp, DOMAIN v14 = Facts, v9 \in Brul!Modes \ {"NONE"}, Brul!brul_buf_read_cb
  PROVE  SetUp'
<1>1. v13' = v13 BY DEF Brul!brul_buf_read_cb
<1>2. v14' = IF v9 \in DOMAIN Brul!Asked
             THEN [v14 EXCEPT ![Brul!Asked[v9]] = IF v12 = Brul!Asked[v9] THEN "right" ELSE "wrong"]
             ELSE v14
  BY DEF Brul!brul_buf_read_cb
<1>3. CASE v9 \in Quiet
  <2>1. PICK m \in DOMAIN Brul!Setup :
          LET sent == Brul!Setup[m]
          IN sent.then = v9 /\ v11 \in {sent.cmd, "none"} /\ v12 \in {Brul!Answer[sent.cmd], "none"}
    BY <1>3 DEF SetUp
  <2>2. v12 = Brul!Answer[Brul!Setup[m].cmd] BY <2>1 DEF Brul!brul_buf_read_cb
  <2>3. Brul!Expected(v12) /\ (v9 \in DOMAIN Brul!Asked => Brul!Asked[v9] = v12)
    BY <1>3, <2>1, <2>2, SetupAnswers
  <2>4. v9 \in DOMAIN Brul!Setup BY <1>3 DEF Quiet, Brul!Setup
  <2>5. \A f \in Facts : v9 \in After(f) \/ (v9 \in DOMAIN Brul!Asked /\ Brul!Asked[v9] = f)
                           => v14'[f] = "right"
    BY <1>2, <2>3 DEF SetUp
  <2>6. ~v13 BY <1>3 DEF SetUp
  <2>7. CASE ~(v9 = "CMX" /\ v8)
    <3>1. v12' = "none" /\ v11' = Brul!Setup[v9].cmd /\ v9' = Brul!Setup[v9].then
      BY <2>3, <2>4, <2>7 DEF Brul!brul_buf_read_cb, Brul!brul_setup_gem
    <3>2. v9' # "RTOFF" BY <1>3, <3>1 DEF Quiet, Brul!Setup
    <3>3. \A f \in Facts : v9' \in After(f) =>
             v9 \in After(f) \/ (v9 \in DOMAIN Brul!Asked /\ Brul!Asked[v9] = f)
      BY <1>3, <3>1 DEF Quiet, Facts, After, Brul!Setup, Brul!Asked
    <3> QED BY <1>1, <2>4, <2>5, <2>6, <3>1, <3>2, <3>3 DEF SetUp
  <2>8. CASE v9 = "CMX" /\ v8
    <3>1. v12' = "none" /\ v11' = v11 /\ v9' = v9 BY <2>8 DEF Brul!brul_buf_read_cb
    <3>2. v9 # "RTOFF" BY <1>3 DEF Quiet
    <3> QED BY <1>1, <2>1, <2>5, <2>6, <3>1, <3>2 DEF SetUp
  <2> QED BY <2>7, <2>8
<1>4. CASE v9 = "RTOFF"
  <2>1. v14' = v14 BY <1>2, <1>4 DEF Brul!Asked
  <2>2. CASE v12 = "OFF"
    <3>1. v12' = "none" /\ v11' = "SYSPKT" /\ v9' = "PKT"
      BY <1>4, <2>2 DEF Brul!brul_buf_read_cb, Brul!brul_setup_gem, Brul!Expected, Brul!Setup
    <3>2. "RTOFF" \in DOMAIN Brul!Setup /\ Brul!Setup["RTOFF"] = [cmd |-> "SYSPKT", then |-> "PKT"]
      BY DEF Brul!Setup
    <3> QED BY <1>1, <1>4, <2>1, <2>2, <3>1, <3>2 DEF SetUp, After, Facts
  <2>3. CASE v12 # "OFF"
    <3>1. v12' = "none" /\ v11' = v11 /\ v9' = v9
      BY <1>4, <2>3 DEF Brul!brul_buf_read_cb, Brul!Expected
    <3> QED BY <1>1, <1>4, <2>1, <3>1 DEF SetUp, Quiet
  <2> QED BY <2>2, <2>3
<1>5. CASE v9 \in {"RTON", "DATA", "WAITREADY"}
  <2>1. v14' = v14 BY <1>2, <1>5 DEF Brul!Asked
  <2>2. v9' = IF v9 = "RTON" /\ v12 = "_ON" THEN "DATA" ELSE v9
    BY <1>5 DEF Brul!brul_buf_read_cb, Brul!Expected
  <2> QED BY <1>5, <2>1, <2>2 DEF SetUp, Quiet, After, Facts
<1> QED BY <1>3, <1>4, <1>5 DEF Brul!Modes, Brul!Setup, Quiet

\* The devices of a GEM in its connection to gnhastd: all, unless it is a dump.
LEMMA ReadLink ==
  ASSUME BrulInv, Brul!brul_buf_read_cb
  PROVE  LinkOK(v15)' /\ (~v8 => v15' = Brul!AllDevs)
<1> DEFINE new == CASE v9 \in {"TST", "PST"} -> Brul!brul_handle_tstpst(v12)
                    [] v9 = "CMX" /\ v12 = "channels" -> Brul!brul_build_devices
                    [] v9 = "CMX" /\ v12 # "channels" -> {"volt", "sec"}
                    [] OTHER -> {}
<1>1. /\ v15' = v15 \cup new /\ v8' = v8
      /\ IF v9 = "CMX" /\ v8 THEN v1' = "exited" /\ UNCHANGED <<v2, v3, v4, v5>>
         ELSE Brul!Say(IF v8 THEN {} ELSE Brul!Ours(new), Brul!NothingTold)
  BY DEF Brul!brul_buf_read_cb, Brul!constant
<1>2. new \subseteq Brul!AllDevs
  BY DEF Brul!brul_handle_tstpst, Brul!brul_build_devices, Brul!AllDevs
<1> HIDE DEF new
<1>3. ~v8 => v15' = Brul!AllDevs /\ v15 = Brul!AllDevs BY <1>1, <1>2 DEF BrulInv
<1>4. CASE v9 = "CMX" /\ v8 BY <1>1, <1>4 DEF LinkOK, BrulInv
<1>5. CASE ~(v9 = "CMX" /\ v8)
  <2>1. DOMAIN Brul!NothingTold = {} BY DEF Brul!NothingTold
  <2>2. PICK X : Wmr918!Say(X, Brul!NothingTold) BY <1>1, <1>5, SameLink
  <2>3. \A D : LinkOK(D) => LinkOK(D)' BY <1>1, <2>1, <2>2, WmrSay
  <2> QED BY <1>1, <1>3, <2>3 DEF BrulInv, LinkOK
<1> QED BY <1>3, <1>4, <1>5

\* A packet tells values of devices in the table only.
LEMMA PacketLink ==
  ASSUME BrulInv, NEW c, NEW p, Brul!Say({}, Brul!calc_devices(c, p)), v8' = v8, v15' = v15
  PROVE  LinkOK(v15)'
<1>1. DOMAIN Brul!calc_devices(c, p) \subseteq v15 BY DEF Brul!calc_devices
<1>2. \A D : LinkOK(D) /\ DOMAIN Brul!calc_devices(c, p) \subseteq D => LinkOK(D)'
  BY SameLink, WmrSay
<1> QED BY <1>1, <1>2 DEF BrulInv, LinkOK

LEMMA BrulStep == BrulInv /\ [Brul!Next]_(Brul!vars) => BrulInv'
<1> SUFFICES ASSUME BrulInv, [Brul!Next]_(Brul!vars) PROVE BrulInv' OBVIOUS
<1>1. ASSUME UNCHANGED <<v8, v9, v14, v15, v23>>, LinkOK(v15)', SetUp => SetUp'
      PROVE  BrulInv'
  BY <1>1 DEF BrulInv, Brul!AllDevs, Brul!Modes
<1>2. ASSUME UNCHANGED <<v8, v9, v14, v15, v23>>, LinkOK(v15)', UNCHANGED <<v11, v12, v13>>
      PROVE  BrulInv'
  BY <1>1, <1>2 DEF SetUp
<1>3. ASSUME UNCHANGED <<v8, v9, v14, v15, v23, v11, v12, v13>>,
             \/ Brul!LinkUp \/ Brul!LinkLost \/ Brul!LinkRetry(IF v8 THEN {} ELSE v15)
             \/ Brul!LinkSigterm \/ Brul!LinkShutdown \/ UNCHANGED Brul!linkVars
      PROVE  BrulInv'
  <2>1. \/ Wmr918!LinkUp \/ Wmr918!LinkLost \/ Wmr918!LinkRetry(IF v8 THEN {} ELSE v15)
        \/ Wmr918!LinkSigterm \/ Wmr918!LinkShutdown \/ UNCHANGED Wmr918!linkVars
    BY <1>3, SameLink DEF Wmr918!linkVars, Brul!linkVars
  <2>2. LinkOK(v15)' BY <1>3, <2>1, WmrLink DEF BrulInv, LinkOK
  <2> QED BY <1>2, <1>3, <2>2
<1> USE DEF Brul!constant, Brul!data
<1>4. CASE Brul!GemAnswers \/ Brul!GemJunk
  <2>1. UNCHANGED <<v8, v9, v14, v15, v23>> /\ UNCHANGED Brul!linkVars
    BY <1>4 DEF Brul!GemAnswers, Brul!GemJunk
  <2>2. LinkOK(v15)' BY <2>1 DEF BrulInv, LinkOK, Brul!linkVars
  <2> QED BY <1>1, <1>4, <2>1, <2>2, GemAnswersSetUp
<1>5. CASE Brul!brul_buf_read_cb
  <2>1. UNCHANGED <<v8, v23>> BY <1>5 DEF Brul!brul_buf_read_cb
  <2>2. LinkOK(v15)' /\ (~v8 => v15' = Brul!AllDevs) BY <1>5, ReadLink
  <2>3. SetUp => SetUp' BY <1>5, ReadSetUp DEF BrulInv
  <2>4. v9' \in Brul!Modes \ {"NONE"}
    BY <1>5 DEF Brul!brul_buf_read_cb, Brul!brul_setup_gem, BrulInv, Brul!Modes, Brul!Setup
  <2>5. DOMAIN v14' = Facts BY <1>5 DEF Brul!brul_buf_read_cb, BrulInv
  <2> QED BY <2>1, <2>2, <2>3, <2>4, <2>5 DEF BrulInv, Brul!AllDevs
<1>6. CASE Brul!EcmPacket
  BY <1>3, <1>6 DEF Brul!EcmPacket
<1>7. CASE Brul!Packet
  <2>1. PICK s \in 1 .. 2, w \in 0 .. MAX_WSEC - 2 : Brul!GoodPacket(s, w) \/ Brul!BadPacket(s, w)
    BY <1>7 DEF Brul!Packet
  <2>2. UNCHANGED <<v8, v9, v14, v15, v23, v11, v12, v13>>
    BY <2>1 DEF Brul!GoodPacket, Brul!BadPacket, Brul!Counted
  <2>3. \E c, p : Brul!Say({}, Brul!calc_devices(c, p))
    BY <2>1 DEF Brul!GoodPacket, Brul!BadPacket
  <2>4. LinkOK(v15)' BY <2>2, <2>3, PacketLink
  <2> QED BY <1>2, <2>2, <2>4
<1>8. CASE Brul!GemRestart \/ Brul!GemUp \/ Brul!cb_wiznet_read
  BY <1>3, <1>8 DEF Brul!GemRestart, Brul!GemUp, Brul!cb_wiznet_read
<1>9. CASE Brul!GemLost
  <2>1. /\ UNCHANGED <<v8, v13, v14, v15>> /\ UNCHANGED Brul!linkVars
        /\ Brul!brul_setup_gem /\ v23' = (v23 \/ v9 \in DOMAIN Brul!Setup)
    BY <1>9 DEF Brul!GemLost
  <2>2. LinkOK(v15)' BY <2>1 DEF BrulInv, LinkOK, Brul!linkVars
  <2>3. v9' \in Brul!Modes \ {"NONE"}
    BY <2>1 DEF Brul!brul_setup_gem, BrulInv, Brul!Modes, Brul!Setup
  <2>4. v23' \in BOOLEAN BY <2>1
  <2>5. v23' \/ SetUp'
    <3>1. CASE v23 \/ v9 \in DOMAIN Brul!Setup BY <2>1, <3>1
    <3>2. CASE ~v23 /\ v9 \notin DOMAIN Brul!Setup
      <4>1. UNCHANGED <<v9, v11, v13, v14>> BY <2>1, <3>2 DEF Brul!brul_setup_gem
      <4>2. v9 \notin Quiet /\ v9 # "RTOFF" BY <3>2 DEF Brul!Setup, Quiet
      <4> QED BY <3>2, <4>1, <4>2 DEF BrulInv, SetUp
    <3> QED BY <3>1, <3>2
  <2> QED BY <2>1, <2>2, <2>3, <2>4, <2>5 DEF BrulInv, Brul!AllDevs
<1>10. CASE Brul!connect_event_cb \/ Brul!connect_server_cb
  BY <1>3, <1>10 DEF Brul!connect_event_cb, Brul!connect_server_cb, Brul!brulVars
<1>11. CASE Brul!cb_sigterm \/ Brul!cb_shutdown
  BY <1>3, <1>11 DEF Brul!cb_sigterm, Brul!cb_shutdown, Brul!brulVars
<1>12. CASE UNCHANGED Brul!vars
  BY <1>3, <1>12 DEF Brul!vars, Brul!brulVars
<1> QED
  BY <1>4, <1>5, <1>6, <1>7, <1>8, <1>9, <1>10, <1>11, <1>12 DEF Brul!Next

-----------------------------------------------------------------------------
(* The discovery: hostname (v1), mac_prefix (v2), d30303_count (v5), d30303_list    *)
(* (v6) and url (v7).                                                               *)

\* A match, by name or by address, is of the maker asked for.
LEMMA MatchesMaker ==
  ASSUME NEW i, NEW name, NEW unset, NEW k \in {1, 2},
         Discovery!Matches(i, name, v2, unset)[k] = TRUE
  PROVE  v2 = "none" \/ v2 = v6[i].mac
<1> DEFINE mp == v2 = "none" \/ v2 = v6[i].mac
           hn == name # "none" /\ name = v6[i].name
           ip == unset \/ name = "none" \/ \E j \in 1 .. i : name = v6[j].ip
           byName == hn /\ mp
           byAddress == ip /\ mp
<1>1. Discovery!Matches(i, name, v2, unset) = <<byName, byAddress>> BY DEF Discovery!Matches
<1> HIDE DEF byName, byAddress
<1>2. <<byName, byAddress>>[1] = byName /\ <<byName, byAddress>>[2] = byAddress OBVIOUS
<1>3. byName = TRUE \/ byAddress = TRUE BY <1>1, <1>2
<1> QED BY <1>3 DEF byName, byAddress

\* Once a device is chosen nothing is received; and what is chosen matches.
LEMMA DiscoveryStep ==
  ASSUME Discovery!Chosen, [Discovery!Next]_(Discovery!vars)
  PROVE  Discovery!Chosen'
<1>1. CASE UNCHANGED Discovery!vars BY <1>1 DEF Discovery!vars, Discovery!Chosen
<1>2. CASE Discovery!cb_d30303_send \/ Discovery!cb_d30303_read
  BY <1>2 DEF Discovery!cb_d30303_send, Discovery!cb_d30303_read, Discovery!Listening,
              Discovery!Chosen
<1>3. CASE Discovery!cb_end_d30303
  <2> SUFFICES ASSUME v7' \notin {"none", "stopped", "crashed"} PROVE Discovery!Chosen'
    BY DEF Discovery!Chosen
  <2>1. UNCHANGED <<v1, v2, v5, v6>> BY <1>3 DEF Discovery!cb_end_d30303
  <2>2. v1 = "none" /\ v2 = "none" => v5 = 1 BY <1>3 DEF Discovery!cb_end_d30303
  <2> DEFINE name == IF v1 = "none" /\ v2 = "none" THEN v6[1].name ELSE v1
             found(unset) == Discovery!First(name, v2, unset)
             first(unset) == CHOOSE i \in found(unset) : TRUE
  <2>3. PICK unset \in BOOLEAN :
          /\ found(unset) # {}
          /\ v7' \in {v6[first(unset)].name, v6[first(unset)].ip}
    BY <1>3 DEF Discovery!cb_end_d30303
  <2>4. first(unset) \in found(unset) BY <2>3
  <2>5. PICK k \in {1, 2} :
          first(unset) \in DOMAIN v6 /\ Discovery!Matches(first(unset), name, v2, unset)[k] = TRUE
    BY <2>4 DEF Discovery!First
  <2>6. v2 = "none" \/ v2 = v6[first(unset)].mac BY <2>5, MatchesMaker
  <2> QED BY <2>1, <2>2, <2>3, <2>5, <2>6 DEF Discovery!Chosen
<1> QED BY <1>1, <1>2, <1>3 DEF Discovery!Next

-----------------------------------------------------------------------------
(* The whole. *)

\* The invariants of the collectors.
IInv ==
  /\ which = "wmr918" => WmrInv
  /\ which = "brul" => BrulInv
  /\ which = "discovery" => Discovery!Chosen

LEMMA InitI == Init => IInv
<1> SUFFICES ASSUME Init PROVE IInv OBVIOUS
<1>1. which = "wmr918" => WmrInv BY WmrInit DEF Init
<1>2. which = "brul" => BrulInv BY BrulInit DEF Init
<1>3. which = "discovery" => Discovery!Chosen BY DEF Init, Discovery!Init, Discovery!Chosen
<1> QED BY <1>1, <1>2, <1>3 DEF IInv

\* A step of one collector keeps its invariant; the others have not begun.
LEMMA StepI == IInv /\ [Next]_vars => IInv'
<1> SUFFICES ASSUME IInv, [Next]_vars PROVE IInv' OBVIOUS
<1>1. which' = which BY DEF Next, vars
<1>2. ASSUME which = "wmr918" PROVE WmrInv'
  <2>1. [Wmr918!Next]_(Wmr918!vars)
    BY <1>2 DEF Next, vars, Wmr918!vars, Wmr918!wmrVars, Wmr918!linkVars
  <2> QED BY <1>2, <2>1, WmrStep DEF IInv
<1>3. ASSUME which = "brul" PROVE BrulInv'
  <2>1. [Brul!Next]_(Brul!vars)
    BY <1>3 DEF Next, vars, Brul!vars, Brul!brulVars, Brul!linkVars
  <2> QED BY <1>3, <2>1, BrulStep DEF IInv
<1>4. ASSUME which = "discovery" PROVE Discovery!Chosen'
  <2>1. [Discovery!Next]_(Discovery!vars) BY <1>4 DEF Next, vars, Discovery!vars
  <2> QED BY <1>4, <2>1, DiscoveryStep DEF IInv
<1> QED BY <1>1, <1>2, <1>3, <1>4 DEF IInv

\* The collectors keep their invariants.
THEOREM Invariant == Spec => []IInv
BY InitI, StepI, PTL DEF Spec

\* wmr918coll and brulcoll tell gnhastd the values of devices only that it has
\* registered on the connection it has, though the connection is lost, retried by
\* connect_server_cb, and lines are written to it before it is up.
THEOREM DevicesAreIntroduced == Spec => []Introduced
<1>1. IInv => Introduced
  BY DEF IInv, Introduced, WmrInv, BrulInv, LinkOK, Wmr918!Introduced, Wmr918!RegisteredFirst,
         Brul!Introduced, Brul!RegisteredFirst
<1> QED BY <1>1, Invariant, PTL

\* update_dev of wmr918coll never meets a device that it does not have, and its dump
\* has them all; the set-up of a GEM, answer by answer, has found its serial number,
\* channels and probes when it takes data; and cb_end_d30303 chooses a device of
\* the maker asked for, or the only one.
THEOREM DevicesAreFoundOut == Spec => []Configured
<1>1. IInv => Configured
  <2> SUFFICES ASSUME IInv PROVE Configured OBVIOUS
  <2>1. which = "wmr918" => Wmr918!NeverFatal /\ Wmr918!DumpComplete
    BY DEF IInv, WmrInv, Wmr918!NeverFatal
  <2>2. which = "brul" => Brul!Configured
    BY DEF IInv, BrulInv, SetUp, Facts, After, Brul!Configured
  <2>3. which = "discovery" => Discovery!Chosen BY DEF IInv
  <2> QED BY <2>1, <2>2, <2>3 DEF Configured
<1> QED BY <1>1, Invariant, PTL
=============================================================================
