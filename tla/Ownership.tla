----------------------------- MODULE Ownership -----------------------------
(***************************************************************************)
(* What gnhastd promises about who serves a device: a connection claims a  *)
(* device by registering it, keeps it until that connection ends or a live *)
(* newcomer claims it, and when a connection ends every device it served,  *)
(* and no other, is left without a collector.                              *)
(***************************************************************************)
CONSTANTS Clients, Plain, NoClient

VARIABLES
  live,    \* the connections gnhastd has
  server   \* for each device the connection it was last registered on

ownVars == <<live, server>>

OwnInit ==
  /\ live = {}
  /\ server = [d \in Plain |-> NoClient]

Connect(c) ==
  /\ c \notin live
  /\ live' = live \cup {c}
  /\ UNCHANGED server

Claim(c, d) ==
  /\ c \in live
  /\ server' = [server EXCEPT ![d] = c]
  /\ UNCHANGED live

\* One connection ends, or all of them when gnhastd stops.
Leave(gone) ==
  /\ live' = live \ gone
  /\ server' = [d \in Plain |-> IF server[d] \in gone THEN NoClient ELSE server[d]]

OwnNext ==
  \/ \E c \in Clients : Connect(c) \/ (\E d \in Plain : Claim(c, d)) \/ Leave({c})
  \/ Leave(live)

OwnSpec == OwnInit /\ [][OwnNext]_ownVars
=============================================================================
