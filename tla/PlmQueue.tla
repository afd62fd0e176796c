------------------------------ MODULE PlmQueue ------------------------------
(***************************************************************************)
(* The command queue of insteon_common.c as operators on its value, for    *)
(* the tools that work on the links of devices.  Unlike insteoncoll they   *)
(* queue commands that differ only in their data, and commands to the PLM  *)
(* itself, and queue no pauses.  (InsteonQueue models what insteoncoll     *)
(* does with the queue.)                                                   *)
(***************************************************************************)
EXTENDS Integers, Sequences, FiniteSetsExt

CMDQ_MAX_SEND == 2

\* What the first 8 bytes of a command hold, and its data: 0 for none.
Command(kind, to, com, arg, data) == [kind |-> kind, to |-> to, com |-> com, arg |-> arg, data |-> data]
Entry(cmd, wait) == [cmd |-> cmd, wait |-> wait, state |-> wait \cup {"send"}, sendcount |-> 0]

plm_getinfo == Entry(Command("getinfo", "plm", "", 0, 0), {"ack"})
\* The first state of a linking is not what it waits for when it is repeated.
plm_all_link(code, group) ==
  [Entry(Command("alink", "plm", code, group, 0), {"ack", "data", "alink"}) EXCEPT !.state = {"ack", "alink", "send"}]
\* plm_enq_std; with an empty data part, and a checksum, for a device of the newest protocol.
plm_enq_std(dev, com, arg, wait) == Entry(Command("send", dev, com, arg, 0), wait)
plm_enq_ext(dev, com, data, wait) == Entry(Command("send", dev, com, 0, data), wait)

\* The elements of q at the positions K, in their order.
Those(q, K) ==
  [i \in 1 .. Cardinality(K) |-> q[CHOOSE j \in K : Cardinality({k \in K : k <= j}) = i]]

\* plm_condense_runq: what equals the head goes; then the head goes, whether it was
\* sent or not, if another command has the same first 8 bytes.
SameStart(c, d) == [c EXCEPT !.data = 0] = [d EXCEPT !.data = 0]
plm_condense_runq(q) ==
  IF q = <<>> THEN q
  ELSE LET rest == Those(q, {i \in DOMAIN q : q[i].cmd # q[1].cmd})
       IN IF q[1].cmd.kind = "send" /\ \E i \in DOMAIN rest : SameStart(rest[i].cmd, q[1].cmd)
            THEN rest ELSE <<q[1]>> \o rest

\* plm_runq: commands at the head that are over, or given up, leave; the next is sent
\* if it is Due.
Over(e, expired) ==
  \/ e.state = {} \/ e.sendcount > CMDQ_MAX_SEND
  \/ expired /\ "send" \notin e.state /\ e.sendcount >= CMDQ_MAX_SEND
Live(q, expired) ==
  SubSeq(q, Max({n \in 0 .. Len(q) : \A i \in 1 .. n : Over(q[i], expired)}) + 1, Len(q))
Due(q, expired) == q # <<>> /\ (expired \/ "send" \in q[1].state)
Sent(q) ==
  [q EXCEPT ![1].state = IF "send" \in @ THEN @ \ {"send"} ELSE q[1].wait, ![1].sendcount = @ + 1]

plmcmdq_dequeue(q) == IF q = <<>> THEN q ELSE Tail(q)
plmcmdq_got_data(q, what) == IF q = <<>> THEN q ELSE [q EXCEPT ![1].state = @ \ {what}]
plmcmdq_retry_cur(q) == [q EXCEPT ![1].state = q[1].wait \cup {"send"}, ![1].sendcount = @ + 1]
\* The echo of a command; a short command at the head takes any echo for its own, and
\* a byte of the address for the ACK.
plmcmdq_check_ack(q, cmd, ok) ==
  IF q = <<>> THEN q
  ELSE IF q[1].cmd.kind = "send" /\ (cmd.kind # "send" \/ ~SameStart(q[1].cmd, cmd)) THEN q
  ELSE IF ok /\ q[1].cmd.kind = cmd.kind THEN plmcmdq_got_data(q, "ack")
  ELSE plmcmdq_retry_cur(q)
\* A message of a device to the PLM, whose address must be known.
plmcmdq_check_recv(q, known, from, com, what) ==
  IF known /\ q # <<>> /\ q[1].cmd.kind = "send" /\ q[1].cmd.to = from /\ q[1].cmd.com = com
    THEN plmcmdq_got_data(q, what) ELSE q
=============================================================================
