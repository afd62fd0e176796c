----------------------------- MODULE InsteonHub -----------------------------
(***************************************************************************)
(* The queue of commands when the PLM is in a hub that is asked over HTTP: *)
(* the hub keeps what the PLM says in a buffer, which is read again and    *)
(* again and cleared by a request of its own; and one command is out at a  *)
(* time, by a state next to that of the queue.                             *)
(***************************************************************************)
EXTENDS PlmQueue

CONSTANTS
  Targets,   \* the devices that commands are for, in order
  Hubs,      \* subset of {"new", "old"}: an old hub does not tell how much of its buffer is used
  MaxBuf,    \* bound: messages in the hub's buffer
  MaxLost    \* bound: commands of which something is lost, or that get a NAK

VARIABLES
  hubtype,
  queue,         \* cmdfifo
  hubhtmlstate,
  buf,           \* the hub's buffer
  reply,         \* answers to the reading of it, on their way
  clears,        \* requests to clear it, on their way
  workbuf,       \* hubhtml_workbuf: the messages in it
  zeros,         \* it has zeros in it, too few to be taken out
  lost

vars == <<hubtype, queue, hubhtmlstate, buf, reply, clears, workbuf, zeros, lost>>
hub == <<buf, reply, clears>>

\* hubhtml_startfeed: the buffer, whatever is in it, is to be cleared.
Init ==
  /\ hubtype \in Hubs
  /\ queue = [i \in DOMAIN Targets |-> plm_enq_std(Targets[i], "ON", 0, {"ack", "data"})]
  /\ hubhtmlstate = "WCLEAR"
  /\ buf \in {<<>>, <<[is |-> "std", from |-> "other"]>>}
  /\ reply = <<>> /\ clears = 1 /\ workbuf = <<>> /\ zeros = FALSE /\ lost = 0

\* The timer of cb_http_GET, slow next to that of hubhtml_readcb: the hub answers with its buffer.
Get ==
  /\ reply = <<>> /\ workbuf = <<>> /\ clears < 2
  /\ reply' = <<buf>>
  /\ UNCHANGED <<hubtype, queue, hubhtmlstate, buf, clears, workbuf, zeros, lost>>
\* hubhtml_buf_request_cb: takes what is used of the buffer, adds zeros, and has the buffer
\* cleared; the wait for the first clearing is over when the work buffer is empty.
hubhtml_buf_request_cb ==
  /\ reply # <<>>
  /\ reply' = <<>>
  /\ \E used \in {hubtype = "old" \/ reply[1] # <<>>} :
       /\ workbuf' = workbuf \o reply[1]
       /\ zeros' = (zeros \/ used)
       /\ clears' = IF used THEN clears + 1 ELSE clears
  /\ hubhtmlstate' = IF hubhtmlstate = "WCLEAR" /\ workbuf' = <<>> /\ ~zeros' THEN "IDLE" ELSE hubhtmlstate
  /\ UNCHANGED <<hubtype, queue, buf, lost>>
\* hubhtml_clear_im_buffer_cb.
Clear ==
  /\ clears > 0
  /\ clears' = clears - 1
  /\ buf' = <<>>
  /\ UNCHANGED <<hubtype, queue, hubhtmlstate, reply, workbuf, zeros, lost>>

\* plm_send_cmd: a request; the PLM says what it did, or NAK, or is not heard, and the
\* device answers, or not.
Echo(cmd, ok) == [is |-> "echo", cmd |-> cmd, ok |-> ok]
Std(d) == [is |-> "std", from |-> d]
Nak == [is |-> "nak"]
plm_send_cmd(cmd) ==
  \/ /\ buf' = buf \o <<Echo(cmd, TRUE), Std(cmd.to)>>
     /\ UNCHANGED lost
  \/ /\ lost < MaxLost /\ lost' = lost + 1
     /\ buf' \in {buf} \cup {Append(buf, m) : m \in {Echo(cmd, TRUE), Std(cmd.to), Echo(cmd, FALSE), Nak}}
\* plm_runq: nothing is done, and no time is up, unless the hub's state is idle. The time is
\* longer than an answer is under way.
UnderWay(m) == m \in Range(buf \o workbuf) \/ (reply # <<>> /\ m \in Range(reply[1]))
plm_runq ==
  /\ hubhtmlstate = "IDLE" /\ Len(buf) + 2 <= MaxBuf
  /\ \E expired \in {queue # <<>> /\ ~UnderWay(Std(queue[1].cmd.to)) /\ ~UnderWay(Echo(queue[1].cmd, TRUE))} :
     \E q \in {Live(plm_condense_runq(queue), expired)} :
       IF Due(q, expired)
         THEN queue' = Sent(q) /\ hubhtmlstate' = "WCMD" /\ plm_send_cmd(q[1].cmd)
         ELSE queue' = q /\ UNCHANGED <<hubhtmlstate, buf, lost>>
  /\ UNCHANGED <<hubtype, reply, clears, workbuf, zeros>>

\* CHECKHTMLSTATE.
CHECKHTMLSTATE == hubhtmlstate' = IF hubhtmlstate = "WCMD" THEN "IDLE" ELSE hubhtmlstate
Waiting(q) == q # <<>> /\ q[1].state \ {"send"} # {}
\* hubhtml_readcb: takes a message m; a bare NAK takes the start of what follows with it,
\* which then is not known for a message.
hubhtml_readcb(m) ==
  /\ workbuf # <<>> /\ m = Head(workbuf)
  /\ workbuf' = IF m = Nak /\ Len(workbuf) > 1 THEN Tail(Tail(workbuf)) ELSE Tail(workbuf)
handle_command ==
  /\ \E m \in Range(workbuf) :
       /\ hubhtml_readcb(m)
       /\ \/ /\ m.is = "echo"
             /\ queue' = plmcmdq_check_ack(queue, m.cmd, m.ok)
             /\ hubhtmlstate' = IF Waiting(queue') THEN "WCMD" ELSE hubhtmlstate
          \/ /\ m.is = "std"
             /\ queue' = plmcmdq_check_recv(queue, TRUE, m.from, "ON", "data")
             /\ CHECKHTMLSTATE
          \/ /\ m.is = "nak"
             /\ UNCHANGED <<queue, hubhtmlstate>>
  /\ UNCHANGED <<hubtype, hub, zeros, lost>>

\* Another device says something.
Other ==
  /\ Len(buf) + 3 <= MaxBuf
  /\ buf' = Append(buf, Std("other"))
  /\ UNCHANGED <<hubtype, queue, hubhtmlstate, reply, clears, workbuf, zeros, lost>>

Next == Get \/ hubhtml_buf_request_cb \/ Clear \/ plm_runq \/ handle_command \/ Other
\* The hub answers; other devices say something again and again.
Weak(n) ==
  CASE n = 1 -> Get
    [] n = 2 -> hubhtml_buf_request_cb
    [] n = 3 -> Clear
    [] n = 4 -> plm_runq
    [] n = 5 -> handle_command
    [] n = 6 -> Other
    [] OTHER -> FALSE
Fairness == \A n \in 1 .. 6 : WF_vars(Weak(n))

Spec == Init /\ [][Next]_vars /\ Fairness

-----------------------------------------------------------------------------
\* Type invariant.
TypeOK ==
  /\ hubtype \in Hubs /\ hubhtmlstate \in {"IDLE", "WCLEAR", "WCMD"}
  /\ Len(buf) <= MaxBuf /\ Len(reply) <= 1 /\ clears \in 0 .. 2 /\ zeros \in BOOLEAN
  /\ \A i \in DOMAIN queue : queue[i].sendcount \in 0 .. 2 * MaxBuf

\* Every command ends, answered or given up, as long as other devices are heard; or none
\* ever begins, when the buffer was not empty as it was first read.
Ended == queue = <<>> \/ hubhtmlstate = "WCLEAR"
=============================================================================
