------------------------------ MODULE Moncoll ------------------------------
(***************************************************************************)
(* moncoll watches a collector: through gnhastd, which says whether the    *)
(* collector is well and feeds that to moncoll, and through the pid that   *)
(* the collector wrote to a file, or systemd.  A collector that is not     *)
(* well is told to end and is started again when it is gone.  Collectors   *)
(* are watched each by themselves, so there is one here; its instances are *)
(* the processes that were started for it.                                 *)
(*                                                                         *)
(* Two facts about time are used.  A check of the pids is asked for 5      *)
(* seconds after each start, and passes are 10 seconds apart: the check    *)
(* comes first.  A collector writes its pid file within those 5 seconds:   *)
(* all do as soon as they have read their configuration.                   *)
(***************************************************************************)
EXTENDS Integers

CONSTANTS
  Pids,       \* process ids; one that is still remembered is not given again
  KillLimit,  \* kills before SIGKILL; 5 in the code
  Long,       \* passes after which restarts are forgotten; 60 in the code
  Soon,       \* passes before which no alarm is raised or cleared; 10
  Many,       \* restarts that raise the alarm; 5
  MaxFails,   \* bound: collectors that break, starts and stops that fail
  MaxHasty    \* bound: passes between a start and the feed of what it came to,
              \* and checks of the pids before a start has written its own

ASSUME MoncollAssumption ==
  /\ Pids \subseteq Nat \ {0}
  /\ {KillLimit, Long, Soon, Many, MaxFails, MaxHasty} \subseteq Nat
  /\ Soon < Long

VARIABLES
  proc,     \* the instances: "none", "starting", "running" (its pid file is
            \* written), "well" (connected too), "hung" or "ending"
  pidfile,  \* the pid in the file, 0 when there is none
  said,     \* the tracking device in gnhastd: is the collector well?
  fed,      \* moncoll has a feed of the tracking device
  systemd,  \* use_systemd
  mon,      \* moncol_t; alive is its truth value, true for the first -1,
            \* and down that of systemd_status
  recheck,  \* a check of the pids has been asked for
  raised,   \* the alarm is in gnhastd
  news,     \* what the last start came to has been fed
  hasty,    \* passes and checks that came too early
  terms,    \* history: times each instance was only told to end
  fails     \* failures so far

env == <<proc, pidfile, said, fed>>
vars == <<env, systemd, mon, recheck, raised, news, hasty, terms, fails>>

-----------------------------------------------------------------------------
Live == {p \in Pids : proc[p] # "none"}
Gone(p) == p \notin Live
Well == \E p \in Pids : proc[p] = "well"
\* A process gone wrong without a word, and without removing its pid file.
Broken == {"hung", "none"}

\* setup_monitors.  Has the tracking device not been known to gnhastd, the feed
\* was refused.
Init ==
  /\ \E p \in Pids :
       \/ /\ proc = [q \in Pids |-> IF q = p THEN "well" ELSE "none"]
          /\ pidfile = p
          /\ fed = TRUE
       \/ /\ proc = [q \in Pids |-> "none"]
          /\ pidfile = 0
          /\ fed \in BOOLEAN
  /\ said = Well
  /\ systemd \in BOOLEAN
  /\ mon = [pid |-> -1, alive |-> TRUE, down |-> FALSE, kill_attempts |-> 0,
            passes |-> 0, restarts |-> 0]
  /\ recheck = TRUE
  /\ raised = FALSE
  /\ news = TRUE
  /\ hasty = 0
  /\ terms = [p \in Pids |-> 0]
  /\ fails = 0

Fail == fails < MaxFails /\ fails' = fails + 1
Hasten == hasty < MaxHasty /\ hasty' = hasty + 1

-----------------------------------------------------------------------------
(* The collector *)

\* writepidfile.
WritePid(p) ==
  /\ proc[p] = "starting"
  /\ proc' = [proc EXCEPT ![p] = "running"]
  /\ pidfile' = p
  /\ UNCHANGED <<said, fed, systemd, mon, recheck, raised, news, hasty, terms, fails>>

\* The collector connects, or is heard of again: cmd_client, cmd_imalive.
Connect(p) ==
  /\ proc[p] \in {"running", "well"} /\ (proc[p] = "well" => ~said)
  /\ proc' = [proc EXCEPT ![p] = "well"]
  /\ said' = TRUE
  /\ UNCHANGED <<pidfile, fed, systemd, mon, recheck, raised, news, hasty, terms, fails>>

\* The collector hangs, or its process dies.
Break(p) ==
  /\ proc[p] \in {"starting", "running", "well"}
  /\ Fail
  /\ \E how \in Broken :
       /\ how = "hung" => proc[p] # "starting"
       /\ proc' = [proc EXCEPT ![p] = how]
  /\ UNCHANGED <<pidfile, said, fed, systemd, mon, recheck, raised, news, hasty, terms>>

\* generic_cb_shutdown, the end of main.
Exit(p) ==
  /\ proc[p] = "ending"
  /\ proc' = [proc EXCEPT ![p] = "none"]
  /\ pidfile' = 0
  /\ UNCHANGED <<said, fed, systemd, mon, recheck, raised, news, hasty, terms, fails>>

\* gnhastd flags the tracking device: buf_error_cb, the health timer.
Flag ==
  /\ said /\ ~Well
  /\ said' = FALSE
  /\ UNCHANGED <<proc, pidfile, fed, systemd, mon, recheck, raised, news, hasty, terms, fails>>

\* gnhastd starts again.  Its alarms are gone, the tracking device is not well
\* until its collector is back, and moncoll does not ask for its feed again.
Restart ==
  /\ Fail
  /\ said' = FALSE
  /\ fed' = FALSE
  /\ raised' = FALSE
  /\ UNCHANGED <<proc, pidfile, systemd, mon, recheck, news, hasty, terms>>

-----------------------------------------------------------------------------
(* moncoll *)

\* The last start has come to something.
Decided == \A p \in Pids : proc[p] \notin {"starting", "running"}

\* A wrong coll_upd_cb: what checks and starts have found is not corrected.
FeedOnlyGood ==
  /\ fed
  /\ mon' = [mon EXCEPT !.alive = @ \/ said]
  /\ news' = (news \/ Decided)
  /\ UNCHANGED <<env, systemd, recheck, raised, hasty, terms, fails>>
\* coll_upd_cb, for what the feed sends.
Feed ==
  /\ fed
  /\ mon' = [mon EXCEPT !.alive = said]
  /\ news' = (news \/ Decided)
  /\ UNCHANGED <<env, systemd, recheck, raised, hasty, terms, fails>>

\* A wrong Checked: it does not look for the process.
CheckedFile ==
  IF systemd THEN [mon EXCEPT !.alive = @ /\ Live # {}, !.down = Live = {}]
  ELSE IF pidfile = 0 THEN mon
  ELSE [mon EXCEPT !.pid = pidfile]
Checked ==
  IF systemd THEN [mon EXCEPT !.alive = @ /\ Live # {}, !.down = Live = {}]
  ELSE IF pidfile = 0 THEN mon
  ELSE [mon EXCEPT !.pid = pidfile, !.alive = @ /\ ~Gone(pidfile)]

\* cb_checkpids, every minute or as asked for.
CheckPids(asked) ==
  /\ asked => recheck
  /\ IF \A p \in Pids : proc[p] # "starting" THEN UNCHANGED hasty
     ELSE ~asked /\ Hasten
  /\ mon' = Checked
  /\ recheck' = (recheck /\ ~asked)
  /\ UNCHANGED <<env, systemd, raised, news, terms, fails>>

\* A new process for the collector; systemd does not start a second one.
Launch ==
  LET free == {p \in Pids : Gone(p) /\ p \notin {pidfile, mon.pid}}
      new == CHOOSE p \in free : \A q \in free : p <= q
  IN IF systemd /\ Live # {} THEN UNCHANGED <<proc, terms>>
     ELSE /\ proc' = [proc EXCEPT ![new] = "starting"]
          /\ terms' = [terms EXCEPT ![new] = 0]

\* The instance is told to end, with SIGTERM or by systemctl stop.  A hung
\* process may ignore the one, the other may fail.
Term(p) ==
  /\ \/ /\ proc' = [proc EXCEPT ![p] = IF systemd THEN "none" ELSE "ending"]
        /\ UNCHANGED fails
     \/ /\ proc[p] = "hung"
        /\ UNCHANGED <<proc, fails>>
     \/ /\ systemd /\ Fail
        /\ UNCHANGED proc
  /\ terms' = [terms EXCEPT ![p] = @ + 1]

Kill(p) ==
  /\ proc' = [proc EXCEPT ![p] = "none"]
  /\ UNCHANGED <<terms, fails>>

Passed == [mon EXCEPT !.passes = @ + 1]

\* A wrong Content: only the passes are forgotten.
ContentRemembers ==
  LET m == IF Passed.passes > Long THEN [Passed EXCEPT !.passes = 0] ELSE Passed
  IN /\ mon.alive
     /\ mon' = m
     /\ raised' = (raised /\ ~(m.passes > Soon /\ m.restarts = 0))
     /\ UNCHANGED <<proc, recheck, news, terms, fails>>
\* The pass finds the collector well: in time, restarts are forgotten and the
\* alarm is cleared.
Content ==
  LET m == IF Passed.passes > Long THEN [Passed EXCEPT !.passes = 0, !.restarts = 0]
           ELSE Passed
  IN /\ mon.alive
     /\ mon' = m
     /\ raised' = (raised /\ ~(m.passes > Soon /\ m.restarts = 0))
     /\ UNCHANGED <<proc, recheck, news, terms, fails>>

NoProcess == IF systemd THEN mon.down ELSE mon.pid < 1 \/ Gone(mon.pid)
Alarmed(m) == raised \/ (m.passes > Soon /\ m.restarts >= Many)

\* Wrong starts: the pids are not read again, or kill_attempts are kept.
StartUnread ==
  /\ ~mon.alive /\ NoProcess
  /\ LET m == [Passed EXCEPT !.restarts = @ + 1, !.kill_attempts = 0]
     IN /\ raised' = Alarmed(m)
        /\ \/ /\ mon' = [m EXCEPT !.alive = TRUE]
              /\ Launch
              /\ news' = FALSE
              /\ UNCHANGED <<recheck, fails>>
           \/ /\ mon' = m
              /\ Fail
              /\ UNCHANGED <<proc, recheck, news, terms>>
StartKeepsKills ==
  /\ ~mon.alive /\ NoProcess
  /\ LET m == [Passed EXCEPT !.restarts = @ + 1]
     IN /\ raised' = Alarmed(m)
        /\ \/ /\ mon' = [m EXCEPT !.alive = TRUE]
              /\ Launch
              /\ recheck' = TRUE /\ news' = FALSE
              /\ UNCHANGED fails
           \/ /\ mon' = m
              /\ Fail
              /\ UNCHANGED <<proc, recheck, news, terms>>
\* The process is gone: another one is started.
Start ==
  /\ ~mon.alive /\ NoProcess
  /\ LET m == [Passed EXCEPT !.restarts = @ + 1, !.kill_attempts = 0]
     IN /\ raised' = Alarmed(m)
        /\ \/ /\ mon' = [m EXCEPT !.alive = TRUE]
              /\ Launch
              /\ recheck' = TRUE /\ news' = FALSE
              /\ UNCHANGED fails
           \/ /\ mon' = m
              /\ Fail
              /\ UNCHANGED <<proc, recheck, news, terms>>

\* A wrong End: it is only ever told to end.
EndGently ==
  /\ ~mon.alive /\ ~NoProcess
  /\ LET m == [Passed EXCEPT !.kill_attempts = @ + 1]
     IN /\ mon' = m
        /\ raised' = Alarmed(m)
        /\ IF Live = {} THEN UNCHANGED <<proc, terms, fails>>
           ELSE \E p \in IF systemd THEN Live ELSE {mon.pid} : Term(p)
  /\ recheck' = (recheck \/ systemd)
  /\ UNCHANGED news
\* The process is there: it is told to end, in the end with SIGKILL.
End ==
  /\ ~mon.alive /\ ~NoProcess
  /\ LET m == [Passed EXCEPT !.kill_attempts = @ + 1]
     IN /\ mon' = m
        /\ raised' = Alarmed(m)
        /\ IF Live = {} THEN UNCHANGED <<proc, terms, fails>>
           ELSE \E p \in IF systemd THEN Live ELSE {mon.pid} :
                  IF m.kill_attempts > KillLimit THEN Kill(p) ELSE Term(p)
  /\ recheck' = (recheck \/ systemd)
  /\ UNCHANGED news

\* cb_restart_collectors.
Pass ==
  /\ ~recheck
  /\ IF (fed /\ news) \/ (~fed /\ Decided) THEN UNCHANGED hasty
     ELSE Hasten
  /\ Content \/ Start \/ End
  /\ UNCHANGED <<pidfile, said, fed, systemd>>

Next ==
  \/ \E p \in Pids : WritePid(p) \/ Connect(p) \/ Break(p) \/ Exit(p)
  \/ Flag
  \/ Restart
  \/ Feed
  \/ \E asked \in BOOLEAN : CheckPids(asked)
  \/ Pass

Spec == Init /\ [][Next]_vars

\* Timers fire; a collector that is started and not broken connects, one that
\* ends does so; gnhastd notices.
LiveSpec ==
  /\ Spec
  /\ \A p \in Pids : WF_vars(WritePid(p)) /\ WF_vars(Connect(p)) /\ WF_vars(Exit(p))
  /\ WF_vars(Flag)
  /\ WF_vars(Feed)
  /\ \A asked \in BOOLEAN : WF_vars(CheckPids(asked))
  /\ WF_vars(Pass)

-----------------------------------------------------------------------------
Mons == [pid : Pids \cup {-1}, alive : BOOLEAN, down : BOOLEAN,
         kill_attempts : 0 .. KillLimit + 1, passes : Nat, restarts : Nat]

\* Type invariant; kill_attempts in particular are bounded: SIGKILL is sent once.
TypeOK ==
  /\ proc \in [Pids -> {"none", "starting", "running", "well", "hung", "ending"}]
  /\ pidfile \in Pids \cup {0}
  /\ {said, fed, systemd, recheck, raised, news} \subseteq BOOLEAN
  /\ mon \in Mons
  /\ hasty \in 0 .. MaxHasty
  /\ terms \in [Pids -> Nat]
  /\ fails \in 0 .. MaxFails

\* moncoll never has two instances of a collector run at once: it starts one
\* only when it knows that the one before is gone.
OneInstance == \A p, q \in Live : p = q

\* SIGKILL is for an instance that has been told to end KillLimit times.
Mercy ==
  [][\A p \in Live :
       Gone(p)' /\ mon'.kill_attempts > mon.kill_attempts /\ terms'[p] = terms[p]
         => terms[p] >= KillLimit]_vars

\* A collector that is not well, hung or gone, is brought back, while moncoll
\* has its feed.  CHANGELOG.md: "when a collector is marked bad, it can restart
\* the collector, forcibly if needed".
Recovers == fed /\ ~Well ~> Well \/ ~fed

\* A collector that died is started again, also after gnhastd's restart.
DeathSeen == Live = {} /\ (systemd \/ pidfile # 0) ~> Live # {}

\* The alarm is cleared when no more goes wrong.
AlarmClears == raised ~> ~raised
=============================================================================
