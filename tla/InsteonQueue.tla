---------------------------- MODULE InsteonQueue ----------------------------
(***************************************************************************)
(* The command queue of insteoncoll.  Commands to Insteon devices wait in  *)
(* cmdfifo; the one at the head is given to the PLM, a modem, which echoes *)
(* it with an ACK or a NAK and transmits it; the device that hears it acts *)
(* and answers.  A timer runs the queue: it sends, gives time, repeats and *)
(* gives up.  Echoes and answers may be lost, or come when the command     *)
(* they belong to has been repeated or given up.  Devices are switches or  *)
(* dimmers with a level of 0 or 1.  Which way the PLM is attached makes no *)
(* difference here, except that a hub asked over HTTP is slower.           *)
(***************************************************************************)
EXTENDS Lists, FiniteSetsExt

CONSTANTS
  Devices,    \* devices, each with an address of its own
  Members,    \* the devices of the group that each device leads, {} for none
  Repeats,    \* may a command be asked for that is in the queue already?
  MaxAsks,    \* bound: commands asked for, and buttons pressed
  MaxPresses, \* bound: buttons pressed, of these
  MaxAir,     \* bound: echoes and answers under way
  Delay       \* cycles of the queue that a pause lasts; 10 in the code

\* Assumed by the instances.
InsteonAssumption ==
  /\ IsFiniteSet(Devices) /\ Members \in [Devices -> SUBSET Devices]
  /\ Repeats \in BOOLEAN
  /\ {MaxAsks, MaxPresses, MaxAir, Delay} \subseteq Nat

CMDQ_MAX_SEND == 2

\* Commands: STDCMD_ON, STDCMD_OFF and STDCMD_STATUSREQ, to a device.
Commands == [dev : Devices, com : {"on", "off", "status"}]
StatusRequests == {cmd \in Commands : cmd.com = "status"}
Pause == [com |-> "pause"]

\* What the PLM gives to the collector: its echo of a command, and a standard
\* message of a device: to the PLM, an answer or the cleanup that follows a
\* message to a group, or to a group.  level is what is made of its com2.
Answers == [cmd : Commands, ok : BOOLEAN]
           \cup [from : Devices, com : {"on", "off", "status"},
                 toplm : BOOLEAN, level : {0, 1}]

VARIABLES
  cmdfifo,     \* the queue: cmd, state and wait, sendcount; and sent, history:
               \* the times the command was given to the PLM
  need_query,  \* need_query # 0
  air,         \* Answers under way in order, those in workfifo included
  lamp,        \* the devices' levels
  known,       \* the levels last stored and told to gnhastd
  asks,        \* commands asked for so far
  presses,     \* buttons pressed so far
  wanted,      \* history: the level last asked for, or set by hand
  deaf,        \* history: devices that did not hear the last command sent, or of
               \* which a button was pressed with a command in the queue, or whose
               \* command late NAKs ended before it was sent
  exempt       \* history: devices whose level may not be known, see below

vars == <<cmdfifo, need_query, air, lamp, known, asks, presses, wanted, deaf, exempt>>

(***************************************************************************)
(* exempt has a device from when an answer of it is lost, when it does not *)
(* hear a status request or late NAKs end one before it was sent, or when  *)
(* a message of it is stored for another or ignored, or a message of       *)
(* another stored for it, because of what is at the head of the queue;     *)
(* until it answers a status request.                                      *)
(***************************************************************************)
-----------------------------------------------------------------------------
Level(com) == IF com = "on" THEN 1 ELSE 0

\* plm_enq_std, for plm_switch_on, plm_switch_off and plm_query_all_devices.
Entry(cmd) ==
  LET wait == IF cmd.com = "status" THEN {"ack", "any"} ELSE {"ack", "data"}
  IN [cmd |-> cmd, wait |-> wait, state |-> wait \cup {"send"}, sendcount |-> 0, sent |-> 0]
\* plm_enq_wait.
PauseEntry(howlong) ==
  [cmd |-> Pause, wait |-> {}, state |-> {}, sendcount |-> howlong, sent |-> 0]
\* Status requests, in the order of the list that is walked.
Queries(devs) ==
  [i \in 1 .. Cardinality(devs) |-> Entry([dev |-> SetToSeq(devs)[i], com |-> "status"])]

Init ==
  /\ cmdfifo = <<>>
  /\ need_query = FALSE
  /\ air = <<>>
  /\ lamp \in [Devices -> {0, 1}]
  /\ known = [d \in Devices |-> 0]
  /\ asks = 0
  /\ presses = 0
  /\ wanted = lamp
  /\ deaf = {}
  /\ exempt = Devices

HeadIs(cmds) == cmdfifo # <<>> /\ cmdfifo[1].cmd \in cmds
InQueue(cmd) == \E i \in DOMAIN cmdfifo : cmdfifo[i].cmd = cmd

\* A wrong Request: the newest command goes first.
RequestFirst(cmd) ==
  /\ cmd.com # "status"
  /\ asks + presses < MaxAsks /\ asks' = asks + 1
  /\ Repeats \/ ~InQueue(cmd)
  /\ cmdfifo' = <<Entry(cmd)>> \o cmdfifo
  /\ wanted' = [wanted EXCEPT ![cmd.dev] = Level(cmd.com)]
  /\ UNCHANGED <<need_query, air, lamp, known, presses, deaf, exempt>>

\* coll_chg_cb.
Request(cmd) ==
  /\ cmd.com # "status"
  /\ asks + presses < MaxAsks /\ asks' = asks + 1
  /\ Repeats \/ ~InQueue(cmd)
  /\ cmdfifo' = Append(cmdfifo, Entry(cmd))
  /\ wanted' = [wanted EXCEPT ![cmd.dev] = Level(cmd.com)]
  /\ UNCHANGED <<need_query, air, lamp, known, presses, deaf, exempt>>

\* plm_rescan.
Rescan ==
  /\ need_query' = TRUE
  /\ UNCHANGED <<cmdfifo, air, lamp, known, asks, presses, wanted, deaf, exempt>>

-----------------------------------------------------------------------------
(* plm_runq *)

\* The elements of q at the positions K, in their order.
Those(q, K) ==
  [i \in 1 .. Cardinality(K) |-> q[CHOOSE j \in K : Cardinality({k \in K : k <= j}) = i]]

\* plm_condense_runq: commands equal to the one at the head are removed.  That
\* a command of which only the data differs replaces the one at the head does
\* not come about here: a device's commands have no data.
Condensed(q) ==
  LET kept == {i \in DOMAIN q : i = 1 \/ q[i].cmd = Pause \/ q[i].cmd # q[1].cmd}
  IN IF kept = DOMAIN q THEN q ELSE Those(q, kept)

Over(e) == e.cmd # Pause /\ (e.state = {} \/ e.sendcount > CMDQ_MAX_SEND)
\* The command has had its time and all of its attempts.
GivenUp(e, expired) ==
  /\ expired /\ e.cmd # Pause /\ "send" \notin e.state
  /\ e.sendcount >= CMDQ_MAX_SEND

\* The queue without the commands at its head that are over or given up.
Live(q, expired) ==
  LET gone == {n \in 0 .. Len(q) :
                \A i \in 1 .. n : Over(q[i]) \/ GivenUp(q[i], expired)}
  IN SubSeq(q, Max(gone) + 1, Len(q))

\* The head of the queue is given to the PLM.  Nothing comes back; a NAK; an
\* ACK only, the device having acted or not; or an ACK and the answer.
Send(e, q) ==
  /\ LET first == "send" \in e.state
         more == [e EXCEPT !.state = IF first THEN @ \ {"send"} ELSE e.wait,
                           !.sendcount = @ + 1, !.sent = @ + 1]
     IN cmdfifo' = <<more>> \o Tail(q)
  /\ \E echo \in {"none", "nak", "ack"}, heard, answered \in BOOLEAN :
       LET d == e.cmd.dev
           level == IF e.cmd.com = "status" THEN lamp[d] ELSE Level(e.cmd.com)
           back == (IF echo = "none" THEN <<>> ELSE <<[cmd |-> e.cmd, ok |-> echo = "ack"]>>)
                   \o (IF answered THEN <<[from |-> d, com |-> e.cmd.com,
                                           toplm |-> TRUE, level |-> level]>> ELSE <<>>)
       IN /\ heard => echo # "nak"
          /\ answered => heard
          /\ Len(air) + Len(back) <= MaxAir
          /\ air' = air \o back
          /\ lamp' = [lamp EXCEPT ![d] = IF heard THEN level ELSE @]
          /\ exempt' = IF e.cmd.com = "status"
                         THEN IF answered THEN exempt \ {d} ELSE exempt \cup {d}
                         ELSE IF heard /\ ~answered THEN exempt \cup {d} ELSE exempt
          /\ deaf' = IF e.cmd.com = "status" THEN deaf
                     ELSE IF heard THEN deaf \ {d} ELSE deaf \cup {d}
  /\ UNCHANGED <<need_query, known, asks, presses, wanted>>

\* plm_queue_empty_cb.
QueueEmpty ==
  /\ cmdfifo' = IF need_query
       THEN <<PauseEntry(Delay)>> \o Queries(Devices)
       ELSE <<>>
  /\ need_query' = FALSE
  /\ UNCHANGED <<air, lamp, known, asks, presses, wanted, deaf, exempt>>

\* Wrong Rests: one counts on below 0, one never ends.
RestBelow(q) ==
  /\ cmdfifo' = [q EXCEPT ![1].sendcount = @ - 1]
  /\ UNCHANGED <<need_query, air, lamp, known, asks, presses, wanted, deaf, exempt>>
RestStays(q) ==
  /\ cmdfifo' = IF q[1].sendcount = 0 THEN q ELSE [q EXCEPT ![1].sendcount = @ - 1]
  /\ UNCHANGED <<need_query, air, lamp, known, asks, presses, wanted, deaf, exempt>>
\* A pause is at the head.
Rest(q) ==
  /\ cmdfifo' = IF q[1].sendcount = 0 THEN Tail(q) ELSE [q EXCEPT ![1].sendcount = @ - 1]
  /\ UNCHANGED <<need_query, air, lamp, known, asks, presses, wanted, deaf, exempt>>

\* plm_runq, the time of the command at the head having expired or not.
Runq(expired) ==
  \E q \in {IF cmdfifo = <<>> THEN <<>> ELSE Live(Condensed(cmdfifo), expired)} :
     \/ /\ q = <<>>
        /\ QueueEmpty
     \/ /\ q # <<>> /\ q[1].cmd = Pause
        /\ Rest(q)
     \/ /\ q # <<>> /\ q[1].cmd # Pause
        /\ "send" \in q[1].state \/ expired
        /\ Send(q[1], q)
     \/ /\ q # <<>> /\ q[1].cmd # Pause
        /\ "send" \notin q[1].state /\ ~expired
        /\ cmdfifo' = q
        /\ UNCHANGED <<need_query, air, lamp, known, asks, presses, wanted, deaf, exempt>>

-----------------------------------------------------------------------------
(* handle_command, called by plm_run_workq *)

\* plmcmdq_check_ack, of an ACK.
Acked(e) == [e EXCEPT !.state = @ \ {"ack"}]
\* plmcmdq_retry_cur without counting.
RetryUncounted(e) == [e EXCEPT !.state = e.wait \cup {"send"}]
\* plmcmdq_retry_cur.
Retry(e) == [e EXCEPT !.state = e.wait \cup {"send"}, !.sendcount = @ + 1]
\* The device of a command that a NAK, of an earlier one, ends before it was sent.
EndedUnsent(e, a) == IF ~a.ok /\ e.sent = 0 /\ e.sendcount >= CMDQ_MAX_SEND THEN {a.cmd.dev} ELSE {}

\* PLM_SEND, plmcmdq_check_ack.  With a pause at the head, the byte tested for
\* an ACK has not been read: the pause may be counted up as if to be repeated.
Echo(a) ==
  /\ "cmd" \in DOMAIN a
  /\ air' = Tail(air)
  /\ \/ /\ HeadIs({a.cmd})
        /\ cmdfifo' = [cmdfifo EXCEPT ![1] =
                         IF a.ok THEN Acked(@) ELSE Retry(@)]
        /\ IF a.cmd.com = "status"
             THEN exempt' = exempt \cup EndedUnsent(cmdfifo[1], a) /\ UNCHANGED deaf
             ELSE deaf' = deaf \cup EndedUnsent(cmdfifo[1], a) /\ UNCHANGED exempt
     \/ /\ HeadIs({Pause})
        /\ cmdfifo' = [cmdfifo EXCEPT ![1].sendcount = @ + 1]
        /\ UNCHANGED <<deaf, exempt>>
     \/ /\ ~HeadIs({a.cmd})
        /\ UNCHANGED <<cmdfifo, deaf, exempt>>
  /\ UNCHANGED <<need_query, lamp, known, asks, presses, wanted>>

\* plmcmdq_check_recv: what the command at the head need no longer wait for.
Received(q, a) ==
  IF q # <<>> /\ q[1].cmd # Pause /\ a.toplm /\ q[1].cmd.dev = a.from
    THEN [q EXCEPT ![1].state =
            @ \ ({"any"} \cup IF q[1].cmd.com = a.com THEN {"data"} ELSE {})]
    ELSE q

\* plm_check_proper_delay: a pause comes before a command to the device.
Delayed(q, d) ==
  LET pauses == {i \in DOMAIN q : q[i].cmd = Pause}
  IN IF ~\E i \in DOMAIN q : q[i].cmd # Pause /\ q[i].cmd.dev = d THEN q
     ELSE IF pauses = {} THEN <<PauseEntry(Delay)>> \o q
     ELSE [q EXCEPT ![Min(pauses)].sendcount = Delay]

\* plm_handle_stdrecv while a status request is at the head: the level is
\* stored for the device of that request.
StatusReceived(a) ==
  LET d == cmdfifo[1].cmd.dev
  IN /\ "from" \in DOMAIN a
     /\ HeadIs(StatusRequests)
     /\ air' = Tail(air)
     /\ cmdfifo' = Received(cmdfifo, a)
     /\ known' = [known EXCEPT ![d] = a.level]
     /\ exempt' = IF a.from = d /\ a.com = "status" THEN exempt
                  ELSE exempt \cup {a.from, d}
     /\ UNCHANGED <<need_query, lamp, asks, presses, wanted, deaf>>

\* plm_query_grouped_devices.
GroupQueries(d) == <<PauseEntry(Delay)>> \o Queries(Members[d]) \o <<PauseEntry(1)>>

\* plm_handle_stdrecv otherwise: the level of an ON or OFF is stored for the
\* device, and the members of its group, or all devices, are to be asked for
\* their status.  The answer to a status request, whose com1 is not that of
\* the request, is ignored.
MessageReceived(a) ==
  LET grouped == ~a.toplm /\ Members[a.from] # {}
  IN /\ "from" \in DOMAIN a
     /\ ~HeadIs(StatusRequests)
     /\ air' = Tail(air)
     /\ IF a.com = "status"
          THEN /\ cmdfifo' = Received(cmdfifo, a)
               /\ exempt' = exempt \cup {a.from}
               /\ UNCHANGED <<known, need_query>>
          ELSE /\ cmdfifo' = Delayed(Received(cmdfifo, a), a.from)
                             \o IF grouped THEN GroupQueries(a.from) ELSE <<>>
               /\ known' = [known EXCEPT ![a.from] = a.level]
               /\ need_query' = (need_query \/ ~grouped)
               /\ UNCHANGED exempt
     /\ UNCHANGED <<lamp, asks, presses, wanted, deaf>>

\* Somebody presses the button of a device, which tells its group and then,
\* in a cleanup whose com2 is the number of the group, the PLM.
Press(d) ==
  LET com == IF lamp[d] = 0 THEN "on" ELSE "off"
      queued == \E c \in {"on", "off"} : InQueue([dev |-> d, com |-> c])
  IN /\ presses < MaxPresses /\ asks + presses < MaxAsks /\ presses' = presses + 1
     /\ Len(air) + 2 <= MaxAir
     /\ lamp' = [lamp EXCEPT ![d] = 1 - @]
     /\ wanted' = [wanted EXCEPT ![d] = IF queued THEN @ ELSE 1 - lamp[d]]
     /\ deaf' = IF queued THEN deaf \cup {d} ELSE deaf \ {d}
     /\ air' = air \o <<[from |-> d, com |-> com, toplm |-> FALSE, level |-> Level(com)],
                        [from |-> d, com |-> com, toplm |-> TRUE, level |-> 1]>>
     /\ UNCHANGED <<cmdfifo, need_query, known, asks, exempt>>

Handle(a) == Echo(a) \/ StatusReceived(a) \/ MessageReceived(a)

HandleNext == air # <<>> /\ Handle(Head(air))

Next ==
  \/ \E cmd \in Commands : Request(cmd)
  \/ Rescan
  \/ \E expired \in BOOLEAN : Runq(expired)
  \/ HandleNext
  \/ \E d \in Devices : Press(d)

Spec == Init /\ [][Next]_vars

\* The timers of the queue and of the workqueue fire; what the collector waits
\* for does not stop the clock.
Weak(n) ==
  CASE n = 1 -> Runq(TRUE)
    [] n = 2 -> HandleNext
    [] OTHER -> FALSE
LiveSpec == Spec /\ \A n \in 1 .. 2 : WF_vars(Weak(n))

-----------------------------------------------------------------------------
Waits == {"ack", "data", "any"}

\* Type invariant of the queue and of what the collector knows.
TypeOK ==
  /\ cmdfifo \in Seq([cmd : Commands \cup {Pause}, wait : SUBSET Waits,
                      state : SUBSET (Waits \cup {"send"}),
                      sendcount : 0 .. 255, sent : Nat])
  /\ need_query \in BOOLEAN
  /\ air \in Seq(Answers) /\ Len(air) <= MaxAir
  /\ lamp \in [Devices -> {0, 1}]
  /\ known \in [Devices -> {0, 1}]
  /\ asks \in 0 .. MaxAsks
  /\ presses \in 0 .. MaxPresses
  /\ wanted \in [Devices -> {0, 1}]
  /\ deaf \subseteq Devices
  /\ exempt \subseteq Devices

\* No command is given to the PLM more than CMDQ_MAX_SEND times, however many
\* NAKs, late NAKs and timeouts come together.
SentAtMost == \A i \in DOMAIN cmdfifo : cmdfifo[i].sent <= CMDQ_MAX_SEND

Quiet == cmdfifo = <<>> /\ air = <<>> /\ ~need_query

\* A device ends with the level that was last asked for, unless it could not
\* hear the last command sent to it.
LastWins == \A d \in Devices : Quiet /\ d \notin deaf => lamp[d] = wanted[d]

\* When all is quiet the collector has told gnhastd the levels that the devices
\* have, if their answers came and a query did not get another's: an answer that
\* overtakes another is made good by the query that follows it.
Truthful == \A d \in Devices : Quiet /\ d \notin exempt => known[d] = lamp[d]

\* Every command leaves the queue, answered or given up, however often its echo
\* or its answer is lost, pauses are put before it, or a rescan is asked for: it is
\* always, in the end, not so that one is left. (No more commands are asked for than
\* MaxAsks.)
Waiting == \E cmd \in Commands \ StatusRequests : InQueue(cmd)
=============================================================================
