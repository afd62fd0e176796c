---------------------------- MODULE MoncollProofs ----------------------------
(***************************************************************************)
(* Proofs about Moncoll, for every set of pids and all limits.  A start is *)
(* safe because the check of the pids that it asks for comes before the    *)
(* next pass: from then on the pid that moncoll remembers is that of the   *)
(* only instance.  A kill is the last resort because every attempt that is *)
(* counted has told the instance to end.                                   *)
(***************************************************************************)
EXTENDS Moncoll, TLAPS

\* What moncoll knows of the instance by its pid.
PidKnown ==
  ~systemd =>
    \A p \in Live : /\ IF proc[p] = "starting" THEN recheck ELSE pidfile = p
                    /\ recheck \/ mon.pid = p

\* There is nothing left to be told to end after SIGKILL, and moncoll finds out
\* before the next pass.
KilledIsGone ==
  mon.kill_attempts > KillLimit => Live = {} /\ (systemd => recheck \/ mon.down)

\* The attempts counted are those at this instance.
AttemptsAreTerms == \A p \in Live : terms[p] >= mon.kill_attempts

\* The inductive invariant.
IInv ==
  /\ TypeOK
  /\ OneInstance
  /\ PidKnown
  /\ KilledIsGone
  /\ AttemptsAreTerms

-----------------------------------------------------------------------------
\* There is one instance or none, and nothing has been counted.
LEMMA InitIInv == Init => IInv
<1> SUFFICES ASSUME Init PROVE IInv OBVIOUS
<1>1. TypeOK
  <2>1. proc \in [Pids -> {"none", "well"}] /\ pidfile \in Pids \cup {0} BY DEF Init
  <2>2. {said, fed, systemd, recheck, raised, news} \subseteq BOOLEAN BY DEF Init, Well
  <2>3. hasty \in 0 .. MaxHasty /\ fails \in 0 .. MaxFails
    BY MoncollAssumption DEF Init
  <2>4. terms \in [Pids -> Nat] BY DEF Init
  <2>5. mon \in Mons
    BY MoncollAssumption DEF Init, Mons
  <2> QED BY <2>1, <2>2, <2>3, <2>4, <2>5 DEF TypeOK
<1>2. OneInstance /\ \A p \in Live : proc[p] # "starting" /\ pidfile = p
  BY DEF Init, OneInstance, Live
<1>3. recheck /\ mon.kill_attempts = 0 /\ \A p \in Pids : terms[p] = 0
  BY DEF Init
<1>4. ~(mon.kill_attempts > KillLimit) BY <1>3, MoncollAssumption
<1>5. Live \subseteq Pids BY DEF Live
<1> QED
  BY <1>1, <1>2, <1>3, <1>4, <1>5
  DEF IInv, PidKnown, KilledIsGone, AttemptsAreTerms

\* The steps of the collector and of gnhastd: they start no instance.
LEMMA OutsideIInv ==
  ASSUME IInv,
         \/ \E p \in Pids : WritePid(p) \/ Connect(p) \/ Break(p) \/ Exit(p)
         \/ Flag \/ Restart \/ Feed
  PROVE  IInv'
<1>1. ASSUME NEW p \in Pids, WritePid(p) PROVE IInv'
  <2>1. Live' = Live /\ p \in Live BY <1>1 DEF WritePid, Live, IInv, TypeOK
  <2>2. TypeOK' BY <1>1 DEF WritePid, IInv, TypeOK
  <2>3. OneInstance' BY <2>1 DEF IInv, OneInstance
  <2>4. PidKnown'
    BY <1>1, <2>1 DEF WritePid, IInv, TypeOK, OneInstance, PidKnown, Live
  <2> QED
    BY <1>1, <2>1, <2>2, <2>3, <2>4 DEF WritePid, IInv, KilledIsGone, AttemptsAreTerms
<1>2. ASSUME NEW p \in Pids, Connect(p) PROVE IInv'
  <2>1. Live' = Live BY <1>2 DEF Connect, Live, IInv, TypeOK
  <2>2. TypeOK' BY <1>2 DEF Connect, IInv, TypeOK
  <2>3. PidKnown' BY <1>2, <2>1 DEF Connect, IInv, TypeOK, PidKnown, Live
  <2> QED
    BY <1>2, <2>1, <2>2, <2>3
    DEF Connect, IInv, OneInstance, KilledIsGone, AttemptsAreTerms
<1>3. ASSUME NEW p \in Pids, Break(p) PROVE IInv'
  <2>1. Live' \subseteq Live BY <1>3 DEF Break, Broken, Live, IInv, TypeOK
  <2>2. fails' \in 0 .. MaxFails
    BY <1>3, MoncollAssumption DEF Break, Fail, IInv, TypeOK
  <2>3. TypeOK' BY <1>3, <2>2 DEF Break, Broken, IInv, TypeOK
  <2>4. PidKnown' BY <1>3, <2>1 DEF Break, Broken, IInv, TypeOK, PidKnown, Live
  <2> QED
    BY <1>3, <2>1, <2>3, <2>4
    DEF Break, IInv, OneInstance, KilledIsGone, AttemptsAreTerms
<1>4. ASSUME NEW p \in Pids, Exit(p) PROVE IInv'
  <2>1. Live' = Live \ {p} /\ p \in Live BY <1>4 DEF Exit, Live, IInv, TypeOK
  <2>2. Live' = {} BY <2>1 DEF IInv, OneInstance
  <2>3. TypeOK' BY <1>4 DEF Exit, IInv, TypeOK
  <2> QED
    BY <1>4, <2>2, <2>3
    DEF Exit, IInv, OneInstance, PidKnown, KilledIsGone, AttemptsAreTerms
<1>5. CASE Flag \/ Restart
  <2>1. UNCHANGED <<proc, pidfile, systemd, mon, recheck, terms>>
    BY <1>5 DEF Flag, Restart
  <2>2. fails' \in 0 .. MaxFails
    BY <1>5, MoncollAssumption DEF Flag, Restart, Fail, IInv, TypeOK
  <2>3. TypeOK' BY <1>5, <2>2 DEF Flag, Restart, IInv, TypeOK
  <2> QED
    BY <2>1, <2>3 DEF IInv, Live, OneInstance, PidKnown, KilledIsGone, AttemptsAreTerms
<1>6. CASE Feed
  <2>1. UNCHANGED <<proc, pidfile, systemd, recheck, terms>> BY <1>6 DEF Feed, env
  <2>2. /\ mon'.pid = mon.pid /\ mon'.kill_attempts = mon.kill_attempts
        /\ mon'.down = mon.down
    BY <1>6 DEF Feed, IInv, TypeOK, Mons
  <2>3. news' \in BOOLEAN BY <1>6 DEF Feed, Decided, IInv, TypeOK
  <2>4. TypeOK' BY <1>6, <2>3 DEF Feed, env, IInv, TypeOK, Mons
  <2> QED
    BY <2>1, <2>2, <2>4
    DEF IInv, Live, OneInstance, PidKnown, KilledIsGone, AttemptsAreTerms
<1> QED BY <1>1, <1>2, <1>3, <1>4, <1>5, <1>6

\* A check of the pids: from then on moncoll has the pid of the instance.
LEMMA CheckIInv ==
  ASSUME IInv, NEW asked \in BOOLEAN, CheckPids(asked) PROVE IInv'
<1>1. UNCHANGED <<proc, pidfile, systemd, terms, fed, said, raised, news, fails>>
  BY DEF CheckPids, env
<1>2. hasty' \in 0 .. MaxHasty
  BY MoncollAssumption DEF CheckPids, Hasten, IInv, TypeOK
<1>3. mon' = Checked /\ recheck' \in BOOLEAN BY DEF CheckPids, IInv, TypeOK
<1>4. /\ mon' \in Mons
      /\ mon'.kill_attempts = mon.kill_attempts
      /\ systemd => mon'.pid = mon.pid /\ (mon'.down <=> Live = {})
      /\ ~systemd => mon'.pid = IF pidfile = 0 THEN mon.pid ELSE pidfile
  BY <1>3 DEF Checked, IInv, TypeOK, Mons
<1>5. TypeOK' BY <1>1, <1>2, <1>3, <1>4 DEF IInv, TypeOK
<1>6. Live' = Live BY <1>1 DEF Live
<1>7. OneInstance' BY <1>6 DEF IInv, OneInstance
<1>8. PidKnown'
  <2> SUFFICES ASSUME ~systemd', NEW p \in Live'
               PROVE  /\ IF proc'[p] = "starting" THEN recheck' ELSE pidfile' = p
                      /\ recheck' \/ mon'.pid = p
    BY DEF PidKnown
  <2>1. p \in Live /\ p \in Pids /\ p # 0 BY <1>6, MoncollAssumption DEF Live
  <2>2. CASE proc[p] = "starting"
    <3>1. recheck BY <1>1, <2>1, <2>2 DEF IInv, PidKnown
    <3>2. recheck' BY <2>1, <2>2, <3>1 DEF CheckPids
    <3> QED BY <1>1, <2>2, <3>2
  <2>3. CASE proc[p] # "starting"
    <3>1. pidfile = p BY <1>1, <2>1, <2>3 DEF IInv, PidKnown
    <3> QED BY <1>1, <1>4, <2>1, <2>3, <3>1
  <2> QED BY <2>2, <2>3
<1>9. KilledIsGone' BY <1>1, <1>4, <1>6 DEF IInv, KilledIsGone
<1>10. AttemptsAreTerms' BY <1>1, <1>4, <1>6 DEF IInv, AttemptsAreTerms
<1> QED BY <1>5, <1>7, <1>8, <1>9, <1>10 DEF IInv

\* A pass counts itself; what else it counts is for Content, Start and End to say.
LEMMA PassCounts ==
  ASSUME IInv
  PROVE  /\ Passed \in Mons
         /\ Passed.kill_attempts = mon.kill_attempts
         /\ Passed.pid = mon.pid /\ Passed.down = mon.down
BY DEF Passed, IInv, TypeOK, Mons

\* Restarts and passes are forgotten in time.
LEMMA Forgotten ==
  ASSUME NEW m \in Mons, NEW r, r = [m EXCEPT !.passes = 0, !.restarts = 0]
  PROVE  r \in Mons /\ r.pid = m.pid /\ r.down = m.down /\ r.kill_attempts = m.kill_attempts
BY DEF Mons

\* A restart is counted, and what was counted of the instance before is not kept.
LEMMA Restarted ==
  ASSUME NEW m \in Mons, NEW r, r = [m EXCEPT !.restarts = @ + 1, !.kill_attempts = 0]
  PROVE  r \in Mons /\ r.pid = m.pid /\ r.kill_attempts = 0
<1>1. 0 \in 0 .. KillLimit + 1 BY MoncollAssumption
<1>2. m.restarts + 1 \in Nat BY DEF Mons
<1>3. r = [pid |-> m.pid, alive |-> m.alive, down |-> m.down, kill_attempts |-> 0,
           passes |-> m.passes, restarts |-> m.restarts + 1]
  BY DEF Mons
<1> QED BY <1>1, <1>2, <1>3 DEF Mons

\* A collector that is started is held to be well.
LEMMA HeldWell ==
  ASSUME NEW m \in Mons, NEW r, r = [m EXCEPT !.alive = TRUE]
  PROVE  r \in Mons /\ r.pid = m.pid /\ r.kill_attempts = m.kill_attempts
BY DEF Mons

\* A pass that finds the collector well touches no process.
LEMMA ContentIInv ==
  ASSUME IInv, Content, UNCHANGED <<pidfile, said, fed, systemd>>,
         hasty' \in 0 .. MaxHasty
  PROVE  IInv'
<1>1. UNCHANGED <<proc, recheck, news, terms, fails>> /\ raised' \in BOOLEAN
  BY DEF Content, IInv, TypeOK
<1>2. /\ mon' \in Mons
      /\ mon'.kill_attempts = mon.kill_attempts
      /\ mon'.pid = mon.pid /\ mon'.down = mon.down
  <2>1. mon' = [Passed EXCEPT !.passes = 0, !.restarts = 0] \/ mon' = Passed
    BY DEF Content
  <2> QED BY <2>1, PassCounts, Forgotten
<1>3. TypeOK' BY <1>1, <1>2 DEF IInv, TypeOK
<1> QED
  BY <1>1, <1>2, <1>3
  DEF IInv, Live, OneInstance, PidKnown, KilledIsGone, AttemptsAreTerms

\* A new process is launched where there is none.
LEMMA LaunchAlone ==
  ASSUME IInv, Live = {}, Launch
  PROVE  /\ proc' \in [Pids -> {"none", "starting", "running", "well", "hung", "ending"}]
         /\ terms' \in [Pids -> Nat]
         /\ \A p \in Live' : proc'[p] = "starting"
         /\ \A p, q \in Live' : p = q
<1> DEFINE free == {p \in Pids : Gone(p) /\ p \notin {pidfile, mon.pid}}
<1> DEFINE new == CHOOSE p \in free : \A q \in free : p <= q
<1>1. proc' = [proc EXCEPT ![new] = "starting"] /\ terms' = [terms EXCEPT ![new] = 0]
  BY DEF Launch
<1> HIDE DEF new, free
<1>2. \A p \in Pids : proc[p] = "none" BY DEF Live
<1>3. \A p \in Live' : p = new /\ p \in Pids
  BY <1>1, <1>2 DEF Live, IInv, TypeOK
<1> QED BY <1>1, <1>3 DEF Live, IInv, TypeOK

\* A start: by its pid, or by systemd, there is no instance.
LEMMA StartIInv ==
  ASSUME IInv, Start, ~recheck, UNCHANGED <<pidfile, said, fed, systemd>>,
         hasty' \in 0 .. MaxHasty
  PROVE  IInv'
<1> DEFINE m == [Passed EXCEPT !.restarts = @ + 1, !.kill_attempts = 0]
<1>1. m \in Mons /\ m.kill_attempts = 0 /\ m.pid = mon.pid
  BY PassCounts, Restarted
<1>2. mon' = m \/ mon' = [m EXCEPT !.alive = TRUE] BY DEF Start
<1> HIDE DEF m
<1>3. mon' \in Mons /\ mon'.kill_attempts = 0 /\ mon'.pid = mon.pid
  BY <1>1, <1>2, HeldWell
<1>4. /\ raised' \in BOOLEAN /\ recheck' \in BOOLEAN /\ news' \in BOOLEAN
      /\ fails' \in 0 .. MaxFails
  <2>1. raised' \in BOOLEAN BY DEF Start, Alarmed, IInv, TypeOK
  <2>2. recheck' \in BOOLEAN /\ news' \in BOOLEAN BY DEF Start, IInv, TypeOK
  <2>3. fails' = fails \/ Fail BY DEF Start
  <2>4. fails' \in 0 .. MaxFails
    BY <2>3, MoncollAssumption DEF Fail, IInv, TypeOK
  <2> QED BY <2>1, <2>2, <2>4
<1>5. KilledIsGone' BY <1>3, MoncollAssumption DEF KilledIsGone
<1>6. CASE UNCHANGED <<proc, recheck, terms>>
  <2>1. TypeOK' BY <1>3, <1>4, <1>6 DEF IInv, TypeOK
  <2>2. AttemptsAreTerms'
    BY <1>3, <1>6 DEF IInv, TypeOK, AttemptsAreTerms, Live
  <2> QED
    BY <1>3, <1>5, <1>6, <2>1, <2>2 DEF IInv, Live, OneInstance, PidKnown
<1>7. CASE Launch /\ recheck'
  <2>1. CASE systemd /\ Live # {}
    <3>1. UNCHANGED <<proc, terms>> BY <1>7, <2>1 DEF Launch
    <3>2. TypeOK' BY <1>3, <1>4, <3>1 DEF IInv, TypeOK
    <3>3. AttemptsAreTerms'
      BY <1>3, <3>1 DEF IInv, TypeOK, AttemptsAreTerms, Live
    <3> QED
      BY <1>5, <2>1, <3>1, <3>2, <3>3 DEF IInv, Live, OneInstance, PidKnown
  <2>2. CASE ~(systemd /\ Live # {})
    <3>1. Live = {}
      <4>1. SUFFICES ASSUME ~systemd, NEW p \in Live PROVE FALSE BY <2>2
      <4>2. mon.pid = p BY <4>1 DEF IInv, PidKnown
      <4>3. p \in Nat \ {0} BY MoncollAssumption DEF Live
      <4>4. mon.pid < 1 \/ Gone(mon.pid) BY <4>1 DEF Start, NoProcess
      <4> QED BY <4>1, <4>2, <4>3, <4>4 DEF Gone
    <3>2. /\ proc' \in [Pids -> {"none", "starting", "running", "well", "hung", "ending"}]
          /\ terms' \in [Pids -> Nat]
          /\ \A p \in Live' : proc'[p] = "starting"
          /\ \A p, q \in Live' : p = q
      BY <1>7, <3>1, LaunchAlone
    <3>3. TypeOK' BY <1>3, <1>4, <3>2 DEF IInv, TypeOK
    <3>4. PidKnown' BY <1>7, <3>2 DEF PidKnown
    <3>5. AttemptsAreTerms'
      BY <1>3, <3>2 DEF AttemptsAreTerms, Live
    <3> QED BY <1>5, <3>2, <3>3, <3>4, <3>5 DEF IInv, OneInstance
  <2> QED BY <2>1, <2>2
<1> QED BY <1>6, <1>7 DEF Start

\* An attempt is counted.
LEMMA Attempted ==
  ASSUME NEW m \in Mons, NEW r, r = [m EXCEPT !.kill_attempts = @ + 1],
         m.kill_attempts <= KillLimit
  PROVE  r \in Mons /\ r.pid = m.pid /\ r.kill_attempts = m.kill_attempts + 1
<1>1. m.kill_attempts + 1 \in 0 .. KillLimit + 1 BY MoncollAssumption DEF Mons
<1>2. r = [pid |-> m.pid, alive |-> m.alive, down |-> m.down,
           kill_attempts |-> m.kill_attempts + 1, passes |-> m.passes,
           restarts |-> m.restarts]
  BY DEF Mons
<1> QED BY <1>1, <1>2 DEF Mons

\* After SIGKILL there is nothing left to end.
LEMMA NoneAfterKill ==
  ASSUME IInv, End, ~recheck PROVE mon.kill_attempts \in 0 .. KillLimit
<1>1. mon.kill_attempts \in 0 .. KillLimit + 1 BY DEF IInv, TypeOK, Mons
<1>2. SUFFICES ASSUME mon.kill_attempts > KillLimit PROVE FALSE
  BY <1>1, MoncollAssumption
<1>3. Live = {} /\ (systemd => mon.down) BY <1>2 DEF IInv, KilledIsGone
<1>4. ~NoProcess BY DEF End
<1> QED BY <1>3, <1>4 DEF NoProcess, Gone

\* What End does to processes: there is none, or the only one is told to end or
\* killed.
LEMMA EndsTheOne ==
  ASSUME IInv, End, ~recheck
  PROVE  \/ Live = {} /\ UNCHANGED <<proc, terms, fails>>
         \/ \E p \in Live :
              /\ Live = {p}
              /\ IF mon.kill_attempts + 1 > KillLimit THEN Kill(p) ELSE Term(p)
<1>1. /\ Passed \in Mons /\ Passed.kill_attempts = mon.kill_attempts
  BY PassCounts
<1>2. [Passed EXCEPT !.kill_attempts = @ + 1].kill_attempts = mon.kill_attempts + 1
  BY <1>1, NoneAfterKill, Attempted
<1>3. CASE Live = {} BY <1>3 DEF End
<1>4. CASE Live # {}
  <2>1. PICK p \in IF systemd THEN Live ELSE {mon.pid} :
          IF mon.kill_attempts + 1 > KillLimit THEN Kill(p) ELSE Term(p)
    BY <1>2, <1>4 DEF End
  <2>2. p \in Live
    <3>1. ~systemd => ~Gone(mon.pid) BY DEF End, NoProcess
    <3> QED BY <2>1, <3>1 DEF Gone
  <2>3. Live = {p} BY <2>2 DEF IInv, OneInstance
  <2> QED BY <2>1, <2>2, <2>3
<1> QED BY <1>3, <1>4

\* An attempt to end the instance: counted, and the instance told so or killed.
LEMMA EndIInv ==
  ASSUME IInv, End, ~recheck, UNCHANGED <<pidfile, said, fed, systemd>>,
         hasty' \in 0 .. MaxHasty
  PROVE  IInv'
<1>1. /\ mon' \in Mons /\ mon'.pid = mon.pid
      /\ mon'.kill_attempts = mon.kill_attempts + 1
  <2>1. mon' = [Passed EXCEPT !.kill_attempts = @ + 1] BY DEF End
  <2>2. Passed.kill_attempts <= KillLimit
    BY PassCounts, NoneAfterKill, MoncollAssumption
  <2> QED BY <2>1, <2>2, PassCounts, Attempted
<1>2. raised' \in BOOLEAN /\ news' = news /\ recheck' = systemd
  BY DEF End, Alarmed, IInv, TypeOK
<1>3. CASE Live = {} /\ UNCHANGED <<proc, terms, fails>>
  <2>1. TypeOK' BY <1>1, <1>2, <1>3 DEF IInv, TypeOK
  <2>2. Live' = {} BY <1>3 DEF Live
  <2> QED
    BY <1>2, <2>1, <2>2
    DEF IInv, OneInstance, PidKnown, KilledIsGone, AttemptsAreTerms
<1>4. ASSUME NEW p \in Live, Live = {p},
             IF mon.kill_attempts + 1 > KillLimit THEN Kill(p) ELSE Term(p)
      PROVE  IInv'
  <2>1. p \in Pids BY DEF Live
  <2>2. CASE mon.kill_attempts + 1 > KillLimit
    <3>1. Kill(p) BY <1>4, <2>2
    <3>2. TypeOK'
      <4>1. proc' = [proc EXCEPT ![p] = "none"] /\ UNCHANGED <<terms, fails>>
        BY <3>1 DEF Kill
      <4> QED BY <1>1, <1>2, <4>1 DEF IInv, TypeOK
    <3>3. Live' = {} BY <1>4, <3>1 DEF Kill, Live, IInv, TypeOK
    <3> QED
      BY <1>2, <3>2, <3>3
      DEF IInv, OneInstance, PidKnown, KilledIsGone, AttemptsAreTerms
  <2>3. CASE ~(mon.kill_attempts + 1 > KillLimit)
    <3>1. Term(p) BY <1>4, <2>3
    <3>2. /\ \/ proc' = proc
             \/ proc' = [proc EXCEPT ![p] = "none"]
             \/ proc' = [proc EXCEPT ![p] = "ending"]
          /\ terms' = [terms EXCEPT ![p] = @ + 1]
      BY <3>1 DEF Term
    <3>3. fails' \in 0 .. MaxFails
      BY <3>1, MoncollAssumption DEF Term, Fail, IInv, TypeOK
    <3>4. TypeOK'
      <4>1. proc' \in [Pids -> {"none", "starting", "running", "well", "hung", "ending"}]
        BY <3>2 DEF IInv, TypeOK
      <4>2. terms' \in [Pids -> Nat]
        <5>1. terms \in [Pids -> Nat] BY DEF IInv, TypeOK
        <5>2. terms[p] + 1 \in Nat BY <2>1, <5>1
        <5> QED BY <3>2, <5>1, <5>2
      <4> QED BY <1>1, <1>2, <3>3, <4>1, <4>2 DEF IInv, TypeOK
    <3>5. Live' \subseteq {p} BY <1>4, <3>2 DEF Live, IInv, TypeOK
    <3>6. PidKnown'
      <4>1. ~systemd => proc[p] # "starting" /\ pidfile = p /\ mon.pid = p
        BY DEF IInv, PidKnown
      <4>2. proc[p] # "starting" => proc'[p] # "starting"
        BY <2>1, <3>2 DEF IInv, TypeOK
      <4> QED BY <1>1, <3>5, <4>1, <4>2 DEF PidKnown
    <3>7. KilledIsGone' BY <1>1, <2>3 DEF KilledIsGone
    <3>8. AttemptsAreTerms'
      <4>1. terms[p] \in Nat /\ terms[p] >= mon.kill_attempts
        BY <2>1 DEF IInv, TypeOK, AttemptsAreTerms
      <4>2. terms'[p] = terms[p] + 1 BY <2>1, <3>2 DEF IInv, TypeOK
      <4>3. mon.kill_attempts \in Nat BY NoneAfterKill, MoncollAssumption
      <4> QED BY <1>1, <3>5, <4>1, <4>2, <4>3 DEF AttemptsAreTerms
    <3> QED BY <3>4, <3>5, <3>6, <3>7, <3>8 DEF IInv, OneInstance
  <2> QED BY <2>2, <2>3
<1> QED BY <1>3, <1>4, EndsTheOne

-----------------------------------------------------------------------------
\* A pass comes after the check of the pids that the last start asked for.
LEMMA PassIInv == ASSUME IInv, Pass PROVE IInv'
<1>1. /\ ~recheck /\ UNCHANGED <<pidfile, said, fed, systemd>>
      /\ Content \/ Start \/ End
  BY DEF Pass
<1>2. hasty' \in 0 .. MaxHasty
  BY MoncollAssumption DEF Pass, Hasten, IInv, TypeOK
<1> QED BY <1>1, <1>2, ContentIInv, StartIInv, EndIInv

\* Every step keeps the invariant.
LEMMA StepIInv == IInv /\ [Next]_vars => IInv'
<1> SUFFICES ASSUME IInv, [Next]_vars PROVE IInv' OBVIOUS
<1>1. CASE \/ \E p \in Pids : WritePid(p) \/ Connect(p) \/ Break(p) \/ Exit(p)
           \/ Flag \/ Restart \/ Feed
  BY <1>1, OutsideIInv
<1>2. CASE \E asked \in BOOLEAN : CheckPids(asked) BY <1>2, CheckIInv
<1>3. CASE Pass BY <1>3, PassIInv
<1>4. CASE UNCHANGED vars
  BY <1>4
  DEF vars, env, IInv, TypeOK, Live, OneInstance, PidKnown, KilledIsGone,
      AttemptsAreTerms
<1> QED BY <1>1, <1>2, <1>3, <1>4 DEF Next

\* The invariant holds.
THEOREM Invariance == Spec => []IInv
BY InitIInv, StepIInv, PTL DEF Spec

\* Type correctness, and with it that no instance is killed twice: the attempts
\* never go past the one that sends SIGKILL.
THEOREM TypeCorrect == Spec => []TypeOK
<1>1. IInv => TypeOK BY DEF IInv
<1> QED BY <1>1, Invariance, PTL

\* moncoll never starts a collector next to one that still runs, however starts,
\* stops, hangs, exits and checks follow one another.
THEOREM NeverTwo == Spec => []OneInstance
<1>1. IInv => OneInstance BY DEF IInv
<1> QED BY <1>1, Invariance, PTL

\* Of the steps only End raises kill_attempts.
LEMMA OnlyEndCounts ==
  ASSUME IInv, [Next]_vars, mon'.kill_attempts > mon.kill_attempts
  PROVE  End /\ ~recheck
<1>1. mon.kill_attempts \in Nat
  BY MoncollAssumption DEF IInv, TypeOK, Mons
<1>2. ~(mon'.kill_attempts = mon.kill_attempts \/ mon'.kill_attempts = 0)
  BY <1>1
<1>3. mon' # mon BY <1>2
<1>4. ~(\E p \in Pids : WritePid(p) \/ Connect(p) \/ Break(p) \/ Exit(p))
  BY <1>3 DEF WritePid, Connect, Break, Exit
<1>5. ~(Flag \/ Restart \/ UNCHANGED vars) BY <1>3 DEF Flag, Restart, vars
<1>6. ~Feed BY <1>2 DEF Feed, IInv, TypeOK, Mons
<1>7. ~\E asked \in BOOLEAN : CheckPids(asked)
  BY <1>2 DEF CheckPids, Checked, IInv, TypeOK, Mons
<1>8. Pass BY <1>4, <1>5, <1>6, <1>7 DEF Next
<1>9. ~Content
  <2>1. SUFFICES ASSUME Content PROVE FALSE OBVIOUS
  <2>2. mon' = [Passed EXCEPT !.passes = 0, !.restarts = 0] \/ mon' = Passed
    BY <2>1 DEF Content
  <2> QED BY <1>2, <2>2, PassCounts, Forgotten
<1>10. ~Start
  <2>1. SUFFICES ASSUME Start PROVE FALSE OBVIOUS
  <2> DEFINE m == [Passed EXCEPT !.restarts = @ + 1, !.kill_attempts = 0]
  <2>2. m \in Mons /\ m.kill_attempts = 0 BY PassCounts, Restarted
  <2>3. mon' = m \/ mon' = [m EXCEPT !.alive = TRUE] BY <2>1 DEF Start
  <2> HIDE DEF m
  <2> QED BY <1>2, <2>2, <2>3, HeldWell
<1> QED BY <1>8, <1>9, <1>10 DEF Pass

\* SIGKILL is sent only to an instance that was told to end KillLimit times.
THEOREM KillIsLast == Spec => Mercy
<1>1. ASSUME IInv, [Next]_vars, NEW p \in Live,
             Gone(p)', mon'.kill_attempts > mon.kill_attempts, terms'[p] = terms[p]
      PROVE  terms[p] >= KillLimit
  <2>1. End /\ ~recheck BY <1>1, OnlyEndCounts
  <2>2. p \in Pids /\ terms[p] \in Nat BY <1>1 DEF Live, IInv, TypeOK
  <2>3. p \notin Live' BY <1>1 DEF Gone
  <2>4. proc' # proc BY <2>3 DEF Live
  <2>5. IF mon.kill_attempts + 1 > KillLimit THEN Kill(p) ELSE Term(p)
    BY <1>1, <2>1, <2>4, EndsTheOne
  <2>6. ~Term(p)
    <3>1. Term(p) => terms'[p] = terms[p] + 1 BY <1>1, <2>2 DEF Term, IInv, TypeOK
    <3> QED BY <1>1, <2>2, <3>1
  <2>7. mon.kill_attempts + 1 > KillLimit BY <2>5, <2>6
  <2>8. terms[p] >= mon.kill_attempts BY <1>1 DEF IInv, AttemptsAreTerms
  <2>9. mon.kill_attempts \in Nat
    BY <1>1, MoncollAssumption DEF IInv, TypeOK, Mons
  <2> QED BY <2>2, <2>7, <2>8, <2>9, MoncollAssumption
<1>2. IInv /\ [Next]_vars
      => [\A p \in Live :
            Gone(p)' /\ mon'.kill_attempts > mon.kill_attempts /\ terms'[p] = terms[p]
              => terms[p] >= KillLimit]_vars
  BY <1>1
<1> QED BY <1>2, Invariance, PTL DEF Spec, Mercy
=============================================================================
