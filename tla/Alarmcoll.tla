------------------------------ MODULE Alarmcoll ------------------------------
(***************************************************************************)
(* alarmcoll: it has gnhastd feed it the devices of its alarm list and     *)
(* sets or clears an alarm when a row of the list begins or ceases to      *)
(* apply.  A row may depend on an earlier one, of another device; both are *)
(* looked at only when a value of their own device comes.                  *)
(***************************************************************************)
EXTENDS Integers, Sequences, FiniteSets, Functions

CONSTANTS
  Fields,      \* the monitoring types to choose the second row's from
  MaxWire,     \* bound: updates on their way
  MaxChanges,  \* bound: changes of the devices
  MaxLost      \* bound: lost connections, restarts

VARIABLES
  watched,     \* the rows of the list
  fired,       \* for each row, it applies
  last,        \* of a J row: the value that it saw first, and how long ago
  value,       \* of the devices, in gnhastd
  feeds,       \* the devices that gnhastd feeds
  wire,        \* updates on their way
  out,         \* lines on their way to gnhastd
  alarms,      \* the rows whose alarm gnhastd has
  deaf,        \* history: the connection was lost since the start
  changes, losses

vars == <<watched, fired, last, value, feeds, wire, out, alarms, deaf, changes, losses>>
counts == <<changes, losses>>

Devs == {"a", "b"}
Values == 0 .. 2

-----------------------------------------------------------------------------
\* parse_wtype: the flags of a monitoring type, one character after the other.
WithChar(w, c) ==
  CASE c = ">" -> w \cup (IF "LT" \in w THEN {"NE"} ELSE {"GT"})
    [] c = "<" -> w \cup (IF "GT" \in w THEN {"NE"} ELSE {"LT"})
    [] c = "=" -> IF "LT" \in w THEN (w \ {"LT"}) \cup {"LTE"}
                  ELSE IF "GT" \in w THEN (w \ {"GT"}) \cup {"GTE"} ELSE w \cup {"EQ"}
    [] c = "J" -> w \cup {"JITTER"}
    [] c = "&" -> IF "OR" \in w THEN w ELSE w \cup {"AND"}
    [] c = "|" -> IF "AND" \in w THEN w ELSE w \cup {"OR"}
parse_wtype(field) ==
  LET flags[i \in 0 .. Len(field)] == IF i = 0 THEN {} ELSE WithChar(flags[i - 1], field[i])
  IN flags[Len(field)]

\* parse_csv.  The second row is the first one's rest: it may depend on it.
Row(dev, field, val, sev) ==
  [uid |-> dev, field |-> field, wtype |-> parse_wtype(field), val |-> val, sev |-> sev, comparison |-> 1]
Lists ==
  {<<Row("a", <<">">>, 0, s), Row("b", f, 1, 1), Row("a", <<"J">>, 0, 1)>> : s \in {0, 1}, f \in Fields}
Rows == 1 .. 3
THRESHOLD == 1

\* alarmcoll_establish_feeds: every alarm is cleared, every device fed and asked for.
alarmcoll_establish_feeds == <<<<"start">>>>

Init ==
  /\ watched \in Lists
  /\ fired = [r \in Rows |-> FALSE]
  /\ last = [val |-> 0, age |-> 0]
  /\ value \in [Devs -> {0, 1}]
  /\ feeds = {}
  /\ wire = <<>>
  /\ out = alarmcoll_establish_feeds
  /\ alarms \in {{}, Rows}
  /\ deaf = FALSE
  /\ changes = 0 /\ losses = 0

-----------------------------------------------------------------------------
\* TEST_DATATYPE, by the first flag that is there; of a J row, whether the value is
\* the one seen first, and for how long.
Test(row, data, then) ==
  LET w == row.wtype
  IN IF "GT" \in w THEN data > row.val
     ELSE IF "LT" \in w THEN data < row.val
     ELSE IF "EQ" \in w THEN data = row.val
     ELSE IF "LTE" \in w THEN data <= row.val
     ELSE IF "GTE" \in w THEN data >= row.val
     ELSE IF "NE" \in w THEN data # row.val
     ELSE IF "JITTER" \in w THEN data = then.val /\ then.age > THRESHOLD
     ELSE FALSE
\* The test, and what it is combined with: whether the other row applies now.
Combined(row, test, other) ==
  LET ored == test \/ ("OR" \in row.wtype /\ other)
  IN ored /\ ("AND" \in row.wtype => other)

\* A wrong coll_upd_cb: it is left at the first row of the device.
upd_first_row(f, then, dev, data) ==
  LET r == CHOOSE r \in Rows : watched[r].uid = dev /\ \A q \in Rows : watched[q].uid = dev => r <= q
  IN [f EXCEPT ![r] = Combined(watched[r], Test(watched[r], data, then), f[1])]
\* The rows of the device, from the top: a row finds what the one above has become.
upd_rows(f, then, dev, data) ==
  LET new[r \in 0 .. 3] ==
        IF r = 0 THEN f
        ELSE IF watched[r].uid # dev THEN new[r - 1]
        ELSE [new[r - 1] EXCEPT ![r] =
                Combined(watched[r], Test(watched[r], data, then), new[r - 1][watched[r].comparison])]
  IN new[3]
\* coll_upd_cb: the alarms of the rows that have begun or ceased to apply.
coll_upd_cb ==
  /\ wire # <<>>
  /\ wire' = Tail(wire)
  /\ \E u \in {Head(wire)} :
     \E f \in {upd_rows(fired, last, u[1], u[2])} :
       /\ fired' = f
       /\ last' = IF u[1] = "a" /\ u[2] # last.val THEN [val |-> u[2], age |-> 0] ELSE last
       /\ LET set == {r \in Rows : f[r] /\ ~fired[r] /\ watched[r].sev > 0}
              cleared == {r \in Rows : ~f[r] /\ fired[r]}
          IN out' = IF set \cup cleared = {} THEN out ELSE Append(out, <<"alarms", set, cleared>>)
  /\ UNCHANGED <<watched, value, feeds, alarms, deaf, counts>>
\* time(NULL).
Tick ==
  /\ last.age <= THRESHOLD
  /\ last' = [last EXCEPT !.age = @ + 1]
  /\ UNCHANGED <<watched, fired, value, feeds, wire, out, alarms, deaf, counts>>

-----------------------------------------------------------------------------
\* gnhastd takes a line, feeds its devices, and has them changed by others.
Takes ==
  /\ out # <<>>
  /\ out' = Tail(out)
  /\ LET l == Head(out)
     IN IF l = <<"start">> THEN alarms' = {} /\ feeds' = Range([r \in Rows |-> watched[r].uid])
        ELSE alarms' = (alarms \cup l[2]) \ l[3] /\ UNCHANGED feeds
  /\ UNCHANGED <<watched, fired, last, value, wire, deaf, counts>>
Feed(d) ==
  /\ d \in feeds
  /\ Len(wire) < MaxWire
  /\ wire' = Append(wire, <<d, value[d]>>)
  /\ UNCHANGED <<watched, fired, last, value, feeds, out, alarms, deaf, counts>>
Changes ==
  /\ changes < MaxChanges
  /\ changes' = changes + 1
  /\ \E d \in Devs, v \in Values : value' = [value EXCEPT ![d] = v]
  /\ UNCHANGED <<watched, fired, last, feeds, wire, out, alarms, deaf, losses>>

\* The connection is lost, and made again by generic_connect_server_cb, or gnhastd
\* was started again: nothing asks for the feeds once more.
Lost ==
  /\ losses < MaxLost
  /\ losses' = losses + 1
  /\ deaf' = TRUE
  /\ feeds' = {} /\ wire' = <<>> /\ out' = <<>>
  /\ alarms' \in {alarms, {}}
  /\ UNCHANGED <<watched, fired, last, value, changes>>
\* main, after an end at any time.
Restart ==
  /\ losses < MaxLost
  /\ losses' = losses + 1
  /\ deaf' = FALSE
  /\ fired' = [r \in Rows |-> FALSE]
  /\ last' = [val |-> 0, age |-> 0]
  /\ feeds' = {} /\ wire' = <<>> /\ out' = alarmcoll_establish_feeds
  /\ UNCHANGED <<watched, value, alarms, changes>>

Next ==
  \/ coll_upd_cb \/ Tick \/ Takes \/ Changes \/ Lost \/ Restart
  \/ \E d \in Devs : Feed(d)

\* gnhastd feeds every device again and again; time goes on.
Weak(n) ==
  CASE n = 1 -> coll_upd_cb
    [] n = 2 -> Takes
    [] n = 3 -> Tick
    [] OTHER -> FALSE
Strong(n) ==
  CASE n = 1 -> Feed("a")
    [] n = 2 -> Feed("b")
    [] OTHER -> FALSE
Fairness ==
  /\ \A n \in 1 .. 3 : WF_vars(Weak(n))
  /\ \A n \in 1 .. 2 : SF_vars(Strong(n))
Spec == Init /\ [][Next]_vars /\ Fairness

-----------------------------------------------------------------------------
\* Type invariant of alarmcoll's state.
TypeOK ==
  /\ fired \in [Rows -> BOOLEAN]
  /\ last.val \in Values /\ last.age \in 0 .. THRESHOLD + 1
  /\ feeds \subseteq Devs
  /\ Len(wire) <= MaxWire
  /\ alarms \subseteq Rows
  /\ deaf \in BOOLEAN

\* gnhastd has the alarms of the rows that apply, when what was sent has come, and
\* no connection was lost: through restarts of the collector too.
AlarmsAreFired ==
  ~deaf /\ out = <<>> => alarms = {r \in Rows : fired[r] /\ watched[r].sev > 0}

\* In the end the alarms are those that the values call for, unless the connection
\* was lost: a row that depends on one of another device is looked at again in time.
Applies(r) ==
  LET test(q) == Test(watched[q], value[watched[q].uid], [val |-> value["a"], age |-> THRESHOLD + 1])
  IN Combined(watched[r], test(r), test(1))
Settled == ~deaf => alarms = {r \in Rows : Applies(r) /\ watched[r].sev > 0}
=============================================================================
