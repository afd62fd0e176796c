------------------------------- MODULE Ad2usb -------------------------------
(***************************************************************************)
(* ad2usbcoll: the collector of an alarm panel, seen through an AD2USB on  *)
(* a serial line.  The panel never says which zones are clear while others *)
(* are not: it shows the faults one after the other, and a zone counts as  *)
(* clear when it was not shown for as many reads as there seemed to be     *)
(* faults, and two more.  The connection to gnhastd is common/genconn.c's, *)
(* the subject of Connection; told is what the collector makes of it.      *)
(***************************************************************************)
EXTENDS Integers, Sequences, FiniteSets

CONSTANTS
  Zones,       \* zones that are configured; the panel may have one more
  MaxLines,    \* bound: lines and keys on their way
  MaxChanges,  \* bound: changes at the panel, or asked for
  MaxOthers    \* bound: lines of other kinds

VARIABLES
  seccode,     \* there is a code to change the alarm's state with
  faulted,     \* the panel: zones with a fault
  armed,       \* ALARM_READY, ALARM_STAY or ALARM_AWAY
  battery,     \* it is low
  prompt,      \* it waits for a * before it shows the faults
  shown,       \* the zone that it showed last
  lines, keys, \* on their way
  zonefaults,  \* reads until a zone counts as clear
  first_update,
  data,        \* the collector's copy
  told,        \* what gnhastd was told last
  crowd,       \* history: the zones that had a fault since all was clear
  back,        \* history: the zones that were clear again
  ended, changes, others

vars == <<seccode, faulted, armed, battery, prompt, shown, lines, keys, zonefaults, first_update,
          data, told, crowd, back, ended, changes, others>>
panel == <<faulted, armed, battery, prompt, shown, crowd, back>>
coll == <<zonefaults, first_update, data, told, ended>>

Ad2usbAssumption == Zones \in Nat

Zone == 1 .. Zones
PanelZone == 1 .. Zones + 1
ALARM_READY == 0
ALARM_STAY == 1
ALARM_AWAY == 4
ALARM_FAULT == 5
\* maybe_dump_conf makes the devices; the power goes the way of the battery, and one
\* device stands for those behind relays, expanders and receivers.  All have names; one
\* without would not be told.
Devs == Zone \cup {Zones + 2, Zones + 3, Zones + 4, Zones + 5}
STATUS == Zones + 2
LOWBAT == Zones + 3
FIRE == Zones + 4
EXTRA == Zones + 5

Init ==
  /\ seccode \in BOOLEAN
  /\ faulted = {} /\ armed = ALARM_READY
  /\ battery = 0
  /\ prompt = FALSE /\ shown = 0
  /\ lines = <<>> /\ keys = <<>>
  /\ zonefaults = [z \in Zone |-> 0]
  /\ first_update = TRUE
  /\ data = [d \in Devs |-> IF d = FIRE THEN 1 ELSE 0]
  /\ told = [d \in {} |-> 0]
  /\ crowd = {} /\ back = {}
  /\ ended = "no"
  /\ changes = 0 /\ others = 0

-----------------------------------------------------------------------------
\* What a handler works on, and whether it has met a device that is not there.
State == [data |-> data, told |-> told, zonefaults |-> zonefaults, fatal |-> FALSE]
\* update_int_dev.
update_int_dev(s, d, val) ==
  IF d \notin Devs THEN [s EXCEPT !.fatal = TRUE]
  ELSE [s EXCEPT !.data[d] = val,
                 !.told = IF s.data[d] # val \/ first_update
                          THEN [e \in DOMAIN @ \cup {d} |-> IF e = d THEN val ELSE @[e]] ELSE @]
\* Zones that count as clear.
Cleared(s, zs) ==
  [s EXCEPT !.data = [d \in Devs |-> IF d \in zs THEN 0 ELSE @[d]],
            !.told = [d \in DOMAIN @ \cup (IF first_update THEN zs ELSE {}) |->
                        IF d \in zs THEN 0 ELSE @[d]]]

\* ad2usb_handle_std.  Fire is read where the battery is.
Faults(s) == Cardinality({z \in Zone : s.zonefaults[z] > 0})
ad2usb_handle_std(s, l) ==
  LET fault == l.kind = "fault"
      s1 == CASE l.kind = "armed" -> update_int_dev(s, STATUS, l.val)
              [] l.kind = "ready" -> update_int_dev(s, STATUS, ALARM_READY)
              [] l.kind = "fault" -> update_int_dev(s, STATUS, ALARM_FAULT)
              [] l.kind = "hit"   -> s
      s2 == update_int_dev(update_int_dev(s1, LOWBAT, l.bat), FIRE, l.bat)
      s3 == update_int_dev(s2, l.val, 1)
  IN CASE l.kind = "hit" -> s2
       [] fault          -> IF s3.fatal THEN s3
                            ELSE [s3 EXCEPT !.zonefaults[l.val] = Faults(s2) + 3]
       [] OTHER          -> [Cleared(s2, Zone) EXCEPT !.zonefaults = [z \in Zone |-> 0]]
\* The keys pressed at a line.  (The return after a fault, and ad2usb_wake_up's, only
\* make the panel show on, which it does.)
Keys(l) == IF l.kind = "hit" THEN <<<<"*">>>> ELSE <<>>

\* ad2usb_handle_exp and ad2usb_handle_rfx.
handle(s, l) == IF l.kind = "other" THEN update_int_dev(s, EXTRA, l.val) ELSE ad2usb_handle_std(s, l)

\* A wrong end of ad2usb_buf_read_cb: a fault is forgotten one read too early.
CountDownEarly(s) ==
  LET down == [z \in Zone |-> IF s.zonefaults[z] > 1 THEN s.zonefaults[z] - 2 ELSE 0]
  IN [Cleared(s, {z \in Zone : s.zonefaults[z] > 0 /\ down[z] = 0}) EXCEPT !.zonefaults = down]
\* The faults are counted down once for all lines of a read.
CountDown(s) ==
  LET down == [z \in Zone |-> IF s.zonefaults[z] > 0 THEN s.zonefaults[z] - 1 ELSE 0]
  IN [Cleared(s, {z \in Zone : s.zonefaults[z] = 1}) EXCEPT !.zonefaults = down]

\* ad2usb_buf_read_cb, with n lines.
ad2usb_buf_read_cb(n) ==
  /\ ended = "no"
  /\ n \in 1 .. Len(lines)
  /\ Len(keys) < MaxLines
  /\ lines' = SubSeq(lines, n + 1, Len(lines))
  /\ keys' = keys \o Keys(lines[1]) \o (IF n = 2 THEN Keys(lines[2]) ELSE <<>>)
  /\ \E s1 \in {handle(State, lines[1])} :
     \E s2 \in {IF n = 2 /\ ~s1.fatal THEN handle(s1, lines[2]) ELSE s1} :
       IF s2.fatal
       THEN ended' = "fatal" /\ UNCHANGED <<zonefaults, first_update, data, told>>
       ELSE \E s3 \in {CountDown(s2)} :
              /\ zonefaults' = s3.zonefaults /\ data' = s3.data /\ told' = s3.told
              /\ first_update' = FALSE
              /\ UNCHANGED ended
  /\ UNCHANGED <<seccode, panel, changes, others>>

\* coll_chg_cb: the code, and the button for the state.
coll_chg_cb ==
  /\ ended = "no"
  /\ changes < MaxChanges
  /\ changes' = changes + 1
  /\ seccode
  /\ Len(keys) < MaxLines
  /\ \E s \in {ALARM_READY, ALARM_STAY, ALARM_AWAY} : keys' = Append(keys, <<"code", s>>)
  /\ UNCHANGED <<seccode, panel, lines, coll, others>>

-----------------------------------------------------------------------------
\* The panel.  It shows faults in turn, when they have been asked for.
Next1(z) ==
  LET after == {y \in faulted : y > z}
      those == IF after = {} THEN faulted ELSE after
  IN CHOOSE y \in those : \A x \in those : y <= x
Line(kind, val) == [kind |-> kind, val |-> val, bat |-> battery]
Shows ==
  /\ Len(lines) < MaxLines
  /\ IF armed # ALARM_READY THEN lines' = Append(lines, Line("armed", armed)) /\ UNCHANGED shown
     ELSE IF faulted = {} THEN lines' = Append(lines, Line("ready", 0)) /\ UNCHANGED shown
     ELSE IF prompt THEN lines' = Append(lines, Line("hit", 0)) /\ UNCHANGED shown
     ELSE lines' = Append(lines, Line("fault", Next1(shown))) /\ shown' = Next1(shown)
  /\ UNCHANGED <<seccode, faulted, armed, battery, prompt, crowd, back, keys, coll, changes, others>>
ShowsOther ==
  /\ Len(lines) < MaxLines /\ others < MaxOthers
  /\ others' = others + 1
  /\ \E v \in {0, 1} : lines' = Append(lines, [kind |-> "other", val |-> v, bat |-> 0])
  /\ UNCHANGED <<seccode, panel, keys, coll, changes>>
Takes ==
  /\ keys # <<>>
  /\ keys' = Tail(keys)
  /\ IF Head(keys) = <<"*">> THEN prompt' = FALSE /\ UNCHANGED armed
     ELSE /\ armed' = IF Head(keys)[2] # ALARM_READY /\ faulted # {} THEN armed ELSE Head(keys)[2]
          /\ UNCHANGED prompt
  /\ UNCHANGED <<seccode, faulted, battery, shown, crowd, back, lines, coll, changes, others>>
Changes ==
  /\ changes < MaxChanges
  /\ changes' = changes + 1
  /\ \/ \E z \in PanelZone :
          /\ faulted' = IF z \in faulted THEN faulted \ {z} ELSE faulted \cup {z}
          /\ prompt' = (faulted' # {} /\ (prompt \/ faulted = {}))
          /\ crowd' = IF faulted' = {} THEN {} ELSE crowd \cup faulted'
          /\ back' = back \cup (faulted \ faulted')
          /\ UNCHANGED <<armed, battery>>
     \/ battery' = 1 - battery /\ UNCHANGED <<faulted, armed, prompt, crowd, back>>
  /\ UNCHANGED <<seccode, shown, lines, keys, coll, others>>

Next ==
  \/ \E n \in 1 .. 2 : ad2usb_buf_read_cb(n)
  \/ coll_chg_cb \/ Shows \/ ShowsOther \/ Takes \/ Changes

\* The panel shows something all the time, and takes keys.
Weak(n) ==
  CASE n = 1 -> (\E m \in 1 .. 2 : ad2usb_buf_read_cb(m))
    [] n = 2 -> Takes
    [] n = 3 -> Shows
    [] OTHER -> FALSE
Fairness == \A n \in 1 .. 3 : WF_vars(Weak(n))

Spec == Init /\ [][Next]_vars /\ Fairness

-----------------------------------------------------------------------------
\* Type invariant of ad2usbcoll's state.
TypeOK ==
  /\ ended \in {"no", "fatal"} /\ first_update \in BOOLEAN
  /\ Len(lines) <= MaxLines
  /\ \A z \in Zone : zonefaults[z] \in 0 .. Zones + 3
  /\ \A d \in Devs \ {STATUS} : data[d] \in {0, 1}
  /\ data[STATUS] \in {ALARM_READY, ALARM_STAY, ALARM_AWAY, ALARM_FAULT}
  /\ DOMAIN told \subseteq Devs

\* While no more than two zones have had a fault, one that is told is not taken back
\* before it is cleared, though the panel shows only one at a time; unless the
\* alarm is set, or lines of other kinds were counted as well.  (Of three, one at a time
\* beside a lasting one, each new one is shown before that.)
Holds(z) == z \in faulted \ back /\ Cardinality(crowd) <= 2 /\ others = 0 /\ armed = ALARM_READY /\ z \in DOMAIN told /\ told[z] = 1
KeepsFaults == \A z \in Zone : Holds(z) /\ z \in faulted' => told'[z] = 1

\* In the end the zones that have a fault, the battery and the alarm's state are what
\* the panel says, when it is not set; and gnhastd knows of all that was ever told.
\* (Fire is what the battery is.  What the first read did not show is not told before
\* it changes.)
Settled ==
  ended = "no" =>
    /\ \A z \in Zone : data[z] = IF armed = ALARM_READY /\ z \in faulted THEN 1 ELSE 0
    /\ data[STATUS] = IF armed # ALARM_READY THEN armed
                      ELSE IF faulted = {} THEN ALARM_READY ELSE ALARM_FAULT
    /\ data[LOWBAT] = battery
    /\ \A d \in DOMAIN told : told[d] = data[d]
    /\ armed = ALARM_READY => faulted \subseteq DOMAIN told
=============================================================================
