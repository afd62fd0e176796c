-------------------------- MODULE InsteonDiscover --------------------------
(***************************************************************************)
(* insteon_discover: asks the listed devices for their engine versions,    *)
(* links the PLM to them, as controller and as responder, asks for their   *)
(* product data and writes a configuration file.  A device and the PLM are *)
(* linked when both are in linking mode; the tool learns the device's      *)
(* category from the PLM's report of it.                                   *)
(***************************************************************************)
EXTENDS PlmQueue, Lists

CONSTANTS
  Listed,     \* the listed devices in their order
  Groups,     \* the groups that the database of models gives a device: a sequence of numbers
  MaxLost     \* bound: messages lost

VARIABLES
  mode,
  queue,      \* cmdfifo
  plm_addr,   \* the PLM's address is known
  proto,      \* devices whose engine version is known
  devcat,     \* devices whose category is known, with an entry in the configuration
  plm,        \* the PLM's linking mode: its code and group, <<>> for none
  linkmode,   \* devices in linking mode
  links,      \* <<code, group, device>>: what the PLM is linked to
  asked,      \* commands that were echoed and answered at least once
  done, air, lost

vars == <<mode, queue, plm_addr, proto, devcat, plm, linkmode, links, asked, done, air, lost>>
told == <<plm_addr, proto, devcat, asked>>

Devices == Range(Listed)
\* One entry, or several, for each device in the order of the list.
ForEach(Of(_)) == FlattenSeq([i \in DOMAIN Listed |-> Of(Listed[i])])

\* A mutant: the first device of the list instead of the current one.
LinkModeFirst(d, group) == plm_enq_std(Listed[1], "LINKMODE", group, {"ack", "data"})
LinkMode(d, group) == plm_enq_std(d, "LINKMODE", group, {"ack", "data"})
plm_get_engine_versions == LET Of(d) == <<plm_enq_std(d, "GETVERS", 0, {"ack", "data"})>> IN ForEach(Of)
LinkAsController == LET Of(d) == <<LinkMode(d, 1), plm_all_link("controller", 117)>> IN ForEach(Of)
Assign(d, group) ==
  <<plm_all_link("responder", group), LinkMode(d, group), plm_enq_std(d, "ASSIGN", group, {"ack", "data"})>>
LinkAsResponder ==
  LET Of(d) == <<plm_all_link("responder", 1), LinkMode(d, 1)>>
               \o IF d \in devcat THEN FlattenSeq([i \in DOMAIN Groups[d] |-> Assign(d, Groups[d][i])]) ELSE <<>>
  IN ForEach(Of)
AskData == LET Of(d) == <<plm_enq_std(d, "PDATA", 0, {"ack", "ext", "data"})>> IN ForEach(Of)

Init ==
  /\ mode = "GET_DEV_VERS"
  /\ queue = <<plm_getinfo>> \o plm_get_engine_versions
  /\ plm_addr = FALSE
  /\ proto = {} /\ devcat = {} /\ plm = <<>> /\ linkmode = {} /\ links = {} /\ asked = {}
  /\ done = FALSE /\ air = <<>> /\ lost = 0

-----------------------------------------------------------------------------
\* plm_queue_empty_cb: the next part of the work; for ever the same if a device has not
\* told its version.
QueueEmpty ==
  \/ /\ mode = "GET_DEV_VERS"
     /\ \/ proto = Devices /\ mode' = "LINK_ALL_C" /\ queue' = LinkAsController
        \/ proto # Devices /\ mode' = mode /\ queue' = <<>>
     /\ UNCHANGED done
  \/ mode = "LINK_ALL_C" /\ mode' = "LINK_ALL_R" /\ queue' = LinkAsResponder /\ UNCHANGED done
  \/ mode = "LINK_ALL_R" /\ mode' = "GET_DEV_INFO" /\ queue' = AskData /\ UNCHANGED done
  \/ mode = "GET_DEV_INFO" /\ done' = TRUE /\ queue' = <<>> /\ UNCHANGED mode

Echo(cmd) == [is |-> "echo", cmd |-> cmd]
Std(cmd) == [is |-> "std", cmd |-> cmd]
Ext(cmd) == [is |-> "ext", cmd |-> cmd]
Complete(d) == [is |-> "complete", dev |-> d]
\* What a command does to the PLM and the device, and what comes back.
Effect(cmd) ==
  \/ /\ cmd.kind = "getinfo"
     /\ air' = Append(air, [is |-> "info"])
     /\ UNCHANGED <<plm, linkmode, links>>
  \/ /\ cmd.kind = "alink"
     /\ plm' = <<cmd.com, cmd.arg>>
     /\ UNCHANGED <<linkmode, links>>
     /\ air' = Append(air, Echo(cmd))
  \/ /\ cmd.kind = "send" /\ cmd.com # "PDATA"
     /\ linkmode' = IF cmd.com = "LINKMODE" THEN linkmode \cup {cmd.to} ELSE linkmode
     /\ air' = air \o <<Echo(cmd), Std(cmd)>>
     /\ UNCHANGED <<plm, links>>
  \/ /\ cmd.kind = "send" /\ cmd.com = "PDATA"
     /\ air' = air \o <<Echo(cmd), Std(cmd), Ext(cmd)>>
     /\ UNCHANGED <<plm, linkmode, links>>

\* plm_runq; the time given to a command is over only when nothing comes any more.
Runq ==
  /\ ~done
  /\ \E expired \in {air = <<>>} :
     \E q \in {Live(plm_condense_runq(queue), expired)} :
       \/ q = <<>> /\ QueueEmpty /\ UNCHANGED <<air, plm, linkmode, links>>
       \/ Due(q, expired) /\ queue' = Sent(q) /\ Effect(q[1].cmd) /\ UNCHANGED <<mode, done>>
       \/ /\ q # <<>> /\ ~Due(q, expired)
          /\ queue' = q
          /\ UNCHANGED <<mode, done, air, plm, linkmode, links>>
  /\ UNCHANGED <<told, lost>>
\* The PLM and a device find each other.
Linking ==
  /\ plm # <<>>
  /\ \E d \in linkmode :
       /\ links' = links \cup {plm \o <<d>>}
       /\ linkmode' = linkmode \ {d}
       /\ air' = Append(air, Complete(d))
  /\ plm' = <<>>
  /\ UNCHANGED <<mode, queue, told, done, lost>>

\* plm_handle_alink_complete: the command at the head, which the code takes to be there
\* (and it is: TLC would stop where queue[1] is not defined), leaves if its bytes 2 to 4
\* are the device's address.
Completed(d) ==
  /\ queue' = IF queue[1].cmd.kind = "send" /\ queue[1].cmd.to = d THEN plmcmdq_dequeue(queue) ELSE queue
  /\ devcat' = devcat \cup {d}
  /\ UNCHANGED <<plm_addr, proto, asked>>
Answered(cmd, what) ==
  /\ queue' = plmcmdq_check_recv(queue, plm_addr, cmd.to, cmd.com, what)
  /\ proto' = IF cmd.com = "GETVERS" THEN proto \cup {cmd.to} ELSE proto
  /\ asked' = asked \cup {cmd}
  /\ UNCHANGED <<plm_addr, devcat>>
\* handle_command.
Receive ==
  /\ ~done /\ air # <<>>
  /\ air' = Tail(air)
  /\ \E m \in {Head(air)} :
       \/ m.is = "info" /\ plm_addr' = TRUE /\ queue' = plmcmdq_dequeue(queue) /\ UNCHANGED <<proto, devcat, asked>>
       \/ m.is = "echo" /\ queue' = plmcmdq_check_ack(queue, m.cmd, TRUE) /\ UNCHANGED told
       \/ m.is \in {"std", "ext"} /\ Answered(m.cmd, IF m.is = "std" THEN "data" ELSE "ext")
       \/ m.is = "complete" /\ Completed(m.dev)
  /\ UNCHANGED <<mode, plm, linkmode, links, done, lost>>
Lose ==
  /\ air # <<>> /\ lost < MaxLost /\ ~done
  /\ air' = Tail(air)
  /\ lost' = lost + 1
  /\ UNCHANGED <<mode, queue, told, plm, linkmode, links, done>>

Next == Runq \/ Linking \/ Receive \/ Lose
Weak(n) ==
  CASE n = 1 -> Runq
    [] n = 2 -> Receive
    [] n = 3 -> Linking
    [] OTHER -> FALSE
Fairness == \A n \in 1 .. 3 : WF_vars(Weak(n))
Spec == Init /\ [][Next]_vars /\ Fairness

-----------------------------------------------------------------------------
\* Type invariant.
TypeOK ==
  /\ mode \in {"GET_DEV_VERS", "LINK_ALL_C", "LINK_ALL_R", "GET_DEV_INFO"}
  /\ proto \cup devcat \cup linkmode \subseteq Devices
  /\ links \subseteq {"controller", "responder"} \X Nat \X Devices
  /\ plm_addr \in BOOLEAN /\ done \in BOOLEAN /\ lost \in 0 .. MaxLost

\* When the tool ends, every device has been asked for its version and put in linking
\* mode, though commands are taken for duplicates of others, and leave the queue
\* because of a report that another began.
AllAsked ==
  done => \A d \in Devices, com \in {"GETVERS", "LINKMODE"} : \E c \in asked : c.to = d /\ c.com = com

\* The tool ends, if no more messages are lost than a command is repeated.
Ended == done
=============================================================================
