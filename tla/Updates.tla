------------------------------ MODULE Updates ------------------------------
(***************************************************************************)
(* What gnhastd does with a value: an upd from the provider is stored with *)
(* the value before it, may run the device's handler, and goes to the      *)
(* clients with a cfeed on the device.  A chg goes to the collector, and   *)
(* for a device of floating data (a dimmer) is also stored at once.  The   *)
(* handler and its water marks can be modified at any time, and gnhastd    *)
(* restarts from devices.conf, which holds the settings but no values.     *)
(***************************************************************************)
EXTENDS Integers

CONSTANTS
  Devices,    \* devices that have a handler
  Dimmers,    \* those whose data may be a double, which cmd_change stores
  Listeners,  \* clients with cfeeds
  Samples,    \* the values a provider reports and a client asks for
  Marks,      \* pairs <<lowat, hiwat>> that are set
  NoValue     \* nothing told, nothing handled

\* Assumed by the instances.
UpdatesAssumption ==
  /\ Dimmers \subseteq Devices
  /\ Samples \subseteq Int
  /\ Marks \subseteq Int \X Int
  /\ \A m \in Marks : m[1] <= m[2]   \* so the user sets them; gnhastd does not look
  /\ NoValue \notin Samples \cup {0}

Modes == {"cross", "spam", "change"}   \* spamhandler no, yes and change

VARIABLES
  data,      \* device_t.data
  last,      \* device_t.last, the value before
  nodata,    \* DEVFLAG_NODATA
  mode,      \* DEVFLAG_SPAMHANDLER and DEVFLAG_CHANGEHANDLER
  lowat,     \* device_t.lowat
  hiwat,     \* device_t.hiwat
  floating,  \* devices whose subtype has DATATYPE_DOUBLE
  watchers,  \* device_t.watchers
  told,      \* history: what each watcher was last sent of the device
  handled,   \* history: the value the handler was last run for
  exempt     \* history: why a handler need not know the value, below

settings == <<mode, lowat, hiwat, floating>>
vars == <<data, last, nodata, settings, watchers, told, handled, exempt>>

(***************************************************************************)
(* exempt[d] has "modified" from a change of d's settings until a value    *)
(* comes that they tell from the present one; "touched" from a value that  *)
(* went beyond a mark from just on it, as long; and "asked" from a chg     *)
(* until the provider's next upd.                                          *)
(***************************************************************************)
-----------------------------------------------------------------------------
Unmarked(d) == lowat[d] = 0 /\ hiwat[d] = 0

\* A wrong device_watermark: a value that stays beyond the mark counts too.
WatermarkIgnoresCrossing(d, new, old) ==
  \/ mode[d] = "change" /\ new # old
  \/ mode[d] # "change" /\ (Unmarked(d) \/ new < lowat[d] \/ new > hiwat[d])
\* A wrong device_watermark: a spammed handler is run on crossings only.
WatermarkNeverSpams(d, new, old) ==
  \/ mode[d] = "change" /\ new # old
  \/ mode[d] # "change" /\ Unmarked(d)
  \/ mode[d] # "change" /\ new < lowat[d] /\ old > lowat[d]
  \/ mode[d] # "change" /\ new > hiwat[d] /\ old < hiwat[d]

\* device_watermark returns other than 0, for a device of value new and
\* previous value old.
Watermark(d, new, old) ==
  \/ mode[d] = "change" /\ new # old
  \/ mode[d] # "change" /\ Unmarked(d)
  \/ mode[d] = "spam" /\ (new < lowat[d] \/ new > hiwat[d])
  \/ mode[d] = "cross" /\ \/ new < lowat[d] /\ old > lowat[d]
                          \/ new > hiwat[d] /\ old < hiwat[d]

\* Where value v lies among the water marks of d.
Side(d, v) == IF v < lowat[d] THEN "below" ELSE IF v > hiwat[d] THEN "above" ELSE "between"

\* The settings of d make no difference between v and w.
Same(d, v, w) == IF mode[d] = "change" THEN v = w ELSE Side(d, v) = Side(d, w)

-----------------------------------------------------------------------------
\* The devices as gnhastd has read them from devices.conf.
Init ==
  /\ floating \in SUBSET Dimmers
  /\ mode \in [Devices -> Modes]
  /\ \E m \in [Devices -> Marks] : /\ lowat = [d \in Devices |-> m[d][1]]
                                   /\ hiwat = [d \in Devices |-> m[d][2]]
  /\ data = [d \in Devices |-> 0]
  /\ last = [d \in Devices |-> 0]
  /\ nodata = [d \in Devices |-> TRUE]
  /\ watchers = [d \in Devices |-> {}]
  /\ told = [l \in Listeners |-> [d \in Devices |-> NoValue]]
  /\ handled = [d \in Devices |-> NoValue]
  /\ exempt = [d \in Devices |-> {}]

\* store_data_dev of the current value.
Store(d, v) ==
  /\ data' = [data EXCEPT ![d] = v]
  /\ last' = [last EXCEPT ![d] = data[d]]
  /\ nodata' = [nodata EXCEPT ![d] = FALSE]

\* gn_update_device to every watcher of d.
Tell(d, v) ==
  told' = [l \in Listeners |-> IF l \in watchers[d] THEN [told[l] EXCEPT ![d] = v]
                                                    ELSE told[l]]

\* A value on the mark is not beyond it, and the next one has not crossed it.
Touched(d, v) ==
  /\ mode[d] = "cross" /\ ~Unmarked(d)
  /\ \/ v < lowat[d] /\ data[d] = lowat[d]
     \/ v > hiwat[d] /\ data[d] = hiwat[d]

\* Value v of d comes, for reason why.
Settle(d, v, why) ==
  exempt' = [exempt EXCEPT ![d] =
    why \cup (IF nodata[d] THEN {} ELSE IF Same(d, v, data[d]) THEN @ \ {"asked"}
              ELSE IF Touched(d, v) THEN {"touched"} ELSE {})]

\* cmd_update from the provider: store, run the handler, tell the watchers.
Update(d, v) ==
  /\ Store(d, v)
  /\ handled' = IF Watermark(d, v, data[d]) \/ nodata[d]
                  THEN [handled EXCEPT ![d] = v] ELSE handled
  /\ Tell(d, v)
  /\ Settle(d, v, {})
  /\ UNCHANGED <<settings, watchers>>

\* cmd_change of a dimmer; of any other device nothing is kept but the
\* message to the collector.
Change(d, v) ==
  /\ d \in floating
  /\ Store(d, v)
  /\ Settle(d, v, {"asked"})
  /\ UNCHANGED <<settings, watchers, told, handled>>

\* cmd_modify of the mode and the marks.
Modify(d, m, marks) ==
  /\ mode' = [mode EXCEPT ![d] = m]
  /\ lowat' = [lowat EXCEPT ![d] = marks[1]]
  /\ hiwat' = [hiwat EXCEPT ![d] = marks[2]]
  /\ exempt' = [exempt EXCEPT ![d] = @ \cup {"modified"}]
  /\ UNCHANGED <<data, last, nodata, floating, watchers, told, handled>>

\* cmd_cfeed.
Cfeed(l, d) ==
  /\ watchers' = [watchers EXCEPT ![d] = @ \cup {l}]
  /\ UNCHANGED <<data, last, nodata, settings, told, handled, exempt>>

\* cmd_ask_device of a device that the client watches.
Ask(l, d) ==
  /\ l \in watchers[d]
  /\ told' = [told EXCEPT ![l][d] = data[d]]
  /\ UNCHANGED <<data, last, nodata, settings, watchers, handled, exempt>>

\* The client's connection ends.
Leave(l) ==
  /\ watchers' = [d \in Devices |-> watchers[d] \ {l}]
  /\ told' = [told EXCEPT ![l] = [d \in Devices |-> NoValue]]
  /\ UNCHANGED <<data, last, nodata, settings, handled, exempt>>

\* gnhastd ends and starts again: settings only are kept.
Restart ==
  /\ data' = [d \in Devices |-> 0]
  /\ last' = [d \in Devices |-> 0]
  /\ nodata' = [d \in Devices |-> TRUE]
  /\ watchers' = [d \in Devices |-> {}]
  /\ told' = [l \in Listeners |-> [d \in Devices |-> NoValue]]
  /\ UNCHANGED <<settings, handled, exempt>>

Next ==
  \/ \E d \in Devices :
       \/ \E v \in Samples : Update(d, v) \/ Change(d, v)
       \/ \E m \in Modes, marks \in Marks : Modify(d, m, marks)
       \/ \E l \in Listeners : Cfeed(l, d) \/ Ask(l, d)
  \/ \E l \in Listeners : Leave(l)
  \/ Restart

Spec == Init /\ [][Next]_vars

-----------------------------------------------------------------------------
\* Type invariant of the devices, their settings and their watchers.
TypeOK ==
  /\ data \in [Devices -> Samples \cup {0}]
  /\ last \in [Devices -> Samples \cup {0}]
  /\ nodata \in [Devices -> BOOLEAN]
  /\ mode \in [Devices -> Modes]
  /\ lowat \in [Devices -> Int]
  /\ hiwat \in [Devices -> Int]
  /\ floating \subseteq Dimmers
  /\ watchers \in [Devices -> SUBSET Listeners]
  /\ told \in [Listeners -> [Devices -> Samples \cup {0, NoValue}]]
  /\ handled \in [Devices -> Samples \cup {NoValue}]
  /\ exempt \in [Devices -> SUBSET {"modified", "touched", "asked"}]

\* The handler of d must know the value: there is one, not only asked for, not
\* still the one d had when its settings were modified, and not come beyond a mark
\* from just on it.
Due(d) == ~nodata[d] /\ exempt[d] = {}

\* A handler that fires on change has been run for the value d has.
ChangedKnown(d) == Due(d) /\ mode[d] = "change" => handled[d] = data[d]

\* When the value of d lies beyond a water mark, the last run of a handler that
\* fires on crossings was for a value beyond the same mark.
CrossedKnown(d) ==
  Due(d) /\ mode[d] = "cross" /\ Side(d, data[d]) # "between"
    => handled[d] # NoValue /\ Side(d, handled[d]) = Side(d, data[d])

\* Every device's handler that fires on change has been run for the value the
\* device has.  gnhast.h says of the flag "fire when device changes".
ChangeHandled == \A d \in Devices : ChangedKnown(d)

\* A spammed handler has been run for the value the device has when that lies
\* beyond a mark, as has any handler of a device without marks.
SpamHandled ==
  \A d \in Devices :
    /\ Due(d)
    /\ mode[d] # "change"
    /\ Unmarked(d) \/ (mode[d] = "spam" /\ Side(d, data[d]) # "between")
    => handled[d] = data[d]

\* The handler of a device whose chg is not stored knows what its settings say
\* it should, whatever the order of updates, modifications and restarts.
HandlerCurrent == \A d \in Devices \ floating : ChangedKnown(d) /\ CrossedKnown(d)

\* A client that has a cfeed on the device and a value of it has the value
\* that gnhastd has, once the provider has answered any chg.
ListenerCurrent ==
  \A l \in Listeners, d \in Devices :
    /\ l \in watchers[d]
    /\ told[l][d] # NoValue
    /\ "asked" \notin exempt[d]
    => told[l][d] = data[d]

\* While its marks stand, a handler that fires on crossings is run for a second
\* value beyond the same mark only if a value in between came first: device
\* updates do not spam it.
RunsOnCrossing ==
  \A d \in Devices :
    /\ ~nodata[d]
    /\ mode[d] = "cross" /\ ~Unmarked(d)
    /\ handled'[d] # handled[d]
    => Side(d, data'[d]) # "between" /\ Side(d, data[d]) # Side(d, data'[d])
=============================================================================
