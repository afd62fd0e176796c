---------------------------- MODULE InsteonAldb ----------------------------
(***************************************************************************)
(* insteon_aldb: prints the link database of an Insteon device, or writes  *)
(* it from a file and then prints it.  A record is a number; 0 is the      *)
(* empty record that ends a database.                                      *)
(***************************************************************************)
EXTENDS PlmQueue

CONSTANTS
  Databases,    \* what a device may have: sequences of records, the last of them 0
  Files,        \* what a file may have
  ALDB_MAXSIZE, \* records the tool has room for
  MaxLost       \* bound: messages lost

VARIABLES
  file,         \* what the tool was asked to write, <<>> for nothing
  queue,        \* cmdfifo
  plm_addr,     \* the PLM's address is known
  mine,         \* dd->aldb; NONE for a record without an address
  db,           \* the device's database
  aldblen,      \* dd->aldblen
  done,         \* the tool has ended
  air,          \* messages that come from the PLM
  lost

vars == <<file, queue, plm_addr, mine, aldblen, db, done, air, lost>>

\* Assumed by the instances: a database ends within the device's memory.
AldbAssumption ==
  /\ ALDB_MAXSIZE \in Nat
  /\ \A records \in Databases :
       records \in Seq(Nat) /\ Len(records) \in 1 .. 2 * ALDB_MAXSIZE /\ records[Len(records)] = 0

NONE == -1
\* The device's memory, of twice the room, starts with the records.
Memory(records) == [i \in 1 .. 2 * ALDB_MAXSIZE |-> IF i \in DOMAIN records THEN records[i] ELSE 0]
\* A wrong Length: as far as the last record that came.
LengthToLast(aldb, before) ==
  LET there == {i \in 1 .. ALDB_MAXSIZE : aldb[i] # NONE}
  IN IF there = {} THEN before ELSE Max(there)
\* dd->aldblen: up to the first record without an address; if there is none it stays.
Length(aldb, before) ==
  LET holes == {i \in 1 .. ALDB_MAXSIZE : aldb[i] = NONE}
  IN IF holes = {} THEN before ELSE Min(holes) - 1

\* A data part: the record's number and the record, or none for "all the records".
WriteOf(i, rec) == i * 10 + rec
plm_write_aldb_record(i, rec) == plm_enq_ext("dev", "RWALDB", WriteOf(i, rec), {"ack", "data"})
plm_write_aldb(records) == [i \in DOMAIN records |-> plm_write_aldb_record(i, records[i])]
plm_req_aldb == <<plm_enq_ext("dev", "RWALDB", 0, {"ack", "data", "aldb"})>>
parse_aldbfile(f) == [i \in 1 .. ALDB_MAXSIZE |-> IF i \in DOMAIN f THEN f[i] ELSE NONE]

Init ==
  \E f \in Files \cup {<<>>}, records \in Databases :
    /\ file = f
    /\ mine = parse_aldbfile(f) /\ aldblen = Len(f)
    /\ queue = <<plm_getinfo>> \o plm_write_aldb(f) \o plm_req_aldb
    /\ db = Memory(records)
    /\ plm_addr = FALSE /\ done = FALSE /\ air = <<>> /\ lost = 0

\* What comes back: the echo; the device's short answer; and its records, up to the
\* empty one.
Echo(cmd) == [is |-> "echo", cmd |-> cmd]
Std == [is |-> "std"]
Ext(i, rec) == [is |-> "ext", recno |-> i, rec |-> rec]
Records == LET last == Min({i \in DOMAIN db : db[i] = 0}) IN [i \in 1 .. last |-> Ext(i, db[i])]
Answers(cmd) ==
  IF cmd.kind = "getinfo" THEN <<[is |-> "info"]>>
  ELSE <<Echo(cmd), Std>> \o IF cmd.data = 0 THEN Records ELSE <<>>
Written(cmd) ==
  IF cmd.kind = "send" /\ cmd.data # 0 THEN [db EXCEPT ![cmd.data \div 10] = cmd.data % 10] ELSE db

\* plm_runq; the time given to a command is over only when nothing comes any more.
Runq ==
  /\ ~done
  /\ \E expired \in {air = <<>>} :
     \E q \in {Live(plm_condense_runq(queue), expired)} :
       IF Due(q, expired)
         THEN /\ queue' = Sent(q)
              /\ db' = Written(q[1].cmd)
              /\ air' = air \o Answers(q[1].cmd)
         ELSE queue' = q /\ UNCHANGED <<db, air>>
  /\ UNCHANGED <<file, plm_addr, mine, aldblen, done, lost>>

plm_handle_getinfo == plm_addr' = TRUE /\ queue' = plmcmdq_dequeue(queue) /\ UNCHANGED <<mine, aldblen, done>>
plm_handle_stdrecv ==
  queue' = plmcmdq_check_recv(queue, plm_addr, "dev", "RWALDB", "data") /\ UNCHANGED <<plm_addr, mine, aldblen, done>>
\* plm_handle_extrecv, plm_handle_aldb: after the last record, or one there is no room
\* for, the tool prints and ends.
plm_handle_extrecv(i, rec) ==
  /\ queue' = plmcmdq_check_recv(queue, plm_addr, "dev", "RWALDB", "ext")
  /\ mine' = IF i <= ALDB_MAXSIZE THEN [mine EXCEPT ![i] = rec] ELSE mine
  /\ aldblen' = IF i <= ALDB_MAXSIZE THEN Length(mine', aldblen) ELSE aldblen
  /\ done' = (rec = 0 \/ i > ALDB_MAXSIZE)
  /\ UNCHANGED plm_addr
\* handle_command.
Receive ==
  /\ ~done /\ air # <<>>
  /\ air' = Tail(air)
  /\ \E m \in {Head(air)} :
       \/ m.is = "info" /\ plm_handle_getinfo
       \/ m.is = "echo" /\ queue' = plmcmdq_check_ack(queue, m.cmd, TRUE) /\ UNCHANGED <<plm_addr, mine, aldblen, done>>
       \/ m.is = "std" /\ plm_handle_stdrecv
       \/ m.is = "ext" /\ plm_handle_extrecv(m.recno, m.rec)
  /\ UNCHANGED <<file, db, lost>>
Lose ==
  /\ air # <<>> /\ lost < MaxLost /\ ~done
  /\ air' = Tail(air)
  /\ lost' = lost + 1
  /\ UNCHANGED <<file, queue, plm_addr, mine, aldblen, db, done>>

Next == Runq \/ Receive \/ Lose
Weak(n) ==
  CASE n = 1 -> Runq
    [] n = 2 -> Receive
    [] OTHER -> FALSE
Fairness == \A n \in 1 .. 2 : WF_vars(Weak(n))
Spec == Init /\ [][Next]_vars /\ Fairness

-----------------------------------------------------------------------------
\* Type invariant.
TypeOK ==
  /\ aldblen \in 0 .. ALDB_MAXSIZE /\ plm_addr \in BOOLEAN /\ done \in BOOLEAN
  /\ mine \in [1 .. ALDB_MAXSIZE -> {NONE} \cup Nat] /\ db \in [1 .. 2 * ALDB_MAXSIZE -> Nat]
  /\ lost \in 0 .. MaxLost

\* What is printed of a device's database is the beginning of it: a record that is
\* lost ends it, and is not shown as another.
PrintsTheirs == file = <<>> /\ done => \A i \in 1 .. aldblen : mine[i] = db[i]

\* The tool ends, if no more messages are lost than a command is repeated.
Ended == done

\* plm_write_aldb: "Write the entire ALDB".
WritesAll == done /\ lost = 0 => \A i \in DOMAIN file : db[i] = file[i]
=============================================================================
