-------------------------------- MODULE Link --------------------------------
(***************************************************************************)
(* A collector's side of its connection to gnhastd, as far as the modules  *)
(* of the collectors need it: those with a connect_server_cb of their own  *)
(* extend this module.  The lines themselves, and gnhastd's side, are the  *)
(* subject of Connection; here reg and told are what the lines written on  *)
(* the present connection amount to.                                       *)
(***************************************************************************)
EXTENDS Integers, Functions

VARIABLES
  link,        \* "connecting", "up", "waiting" (for the retry timer, with a freed
               \* bufferevent), "exited" or "crashed"
  need_rereg,  \* an attempt was made before
  shutdown,    \* connection_t.shutdown
  reg,         \* devices registered on this connection
  told         \* the value last told of each device, on this connection

linkVars == <<link, need_rereg, shutdown, reg, told>>
NothingTold == [d \in {} |-> {}]

LinkInit ==
  /\ link = "connecting"
  /\ need_rereg = FALSE
  /\ shutdown = FALSE
  /\ told = NothingTold

Running == link \in {"connecting", "up", "waiting"}

\* gn_register_device of the devices in D, then gn_update_device of those in
\* the domain of vals.  Through the pointer to a freed bufferevent, the lines
\* are lost or the process crashes.
Say(D, vals) ==
  \/ /\ link \in {"connecting", "up"}
     /\ reg' = reg \cup D
     /\ told' = [d \in DOMAIN told \cup DOMAIN vals |->
                   IF d \in DOMAIN vals THEN vals[d] ELSE told[d]]
     /\ UNCHANGED <<link, need_rereg, shutdown>>
  \/ /\ link = "waiting"
     /\ D \cup DOMAIN vals # {}
     /\ link' \in {"waiting", "crashed"}
     /\ UNCHANGED <<need_rereg, shutdown, reg, told>>
  \/ /\ link = "waiting"
     /\ D \cup DOMAIN vals = {}
     /\ UNCHANGED linkVars

\* BEV_EVENT_CONNECTED.
LinkUp ==
  /\ link = "connecting"
  /\ link' = "up"
  /\ UNCHANGED <<need_rereg, shutdown, reg, told>>

\* BEV_EVENT_ERROR or EOF: the lines on their way are lost with the bufferevent.
LinkLost ==
  /\ link \in {"connecting", "up"}
  /\ link' = IF shutdown THEN "exited" ELSE "waiting"
  /\ need_rereg' = (need_rereg \/ ~shutdown)
  /\ reg' = {}
  /\ told' = NothingTold
  /\ UNCHANGED shutdown

\* The retry timer: the devices in D that have names are registered again.
LinkRetry(D) ==
  /\ link = "waiting"
  /\ link' = "connecting"
  /\ reg' = IF need_rereg THEN D ELSE {}
  /\ need_rereg' = FALSE
  /\ UNCHANGED <<shutdown, told>>

\* The signal, and the end 30 seconds after it.
LinkSigterm ==
  /\ Running /\ ~shutdown
  /\ shutdown' = TRUE
  /\ IF link = "waiting" THEN link' \in {"waiting", "crashed"} ELSE UNCHANGED link
  /\ UNCHANGED <<need_rereg, reg, told>>
LinkShutdown ==
  /\ Running /\ shutdown
  /\ link' = "exited"
  /\ UNCHANGED <<need_rereg, shutdown, reg, told>>

LinkTypeOK(Devs, Vals) ==
  /\ link \in {"connecting", "up", "waiting", "exited", "crashed"}
  /\ need_rereg \in BOOLEAN
  /\ shutdown \in BOOLEAN
  /\ reg \subseteq Devs
  /\ DOMAIN told \subseteq Devs
  /\ Range(told) \subseteq Vals

\* gnhastd refuses a value of a device that it does not know.
RegisteredFirst == DOMAIN told \subseteq reg
=============================================================================
