------------------------------ MODULE Discovery ------------------------------
(***************************************************************************)
(* Discovery over UDP port 30303 (icaddycoll, balboacoll): a broadcast, a  *)
(* list of those who answer within five seconds, and the choice of one of  *)
(* them by its host name or address and the prefix of its MAC address.     *)
(***************************************************************************)
EXTENDS Integers, Sequences

CONSTANT MAX_D30303_DEVS  \* the list's length

VARIABLES
  hostname,       \* what is looked for: a name or an address, or "none"
  mac_prefix,     \* and a prefix, or "none"
  sent,           \* the broadcast has gone out
  replies,        \* the replies on their way
  d30303_count,   \* messages so far
  d30303_list,    \* the devices they were from, "hole" for one that was no reply
  url             \* the device found; "none" before and "stopped", "crashed" without one

vars == <<hostname, mac_prefix, sent, replies, d30303_count, d30303_list, url>>

\* Those on the network: of one maker, and one of another by a name that is in use.
Devices == {[ip |-> "ip1", name |-> "SPA", mac |-> "A"],
            [ip |-> "ip2", name |-> "CADDY", mac |-> "A"],
            [ip |-> "ip3", name |-> "SPA", mac |-> "B"]}
Hole == [ip |-> "none", name |-> "none", mac |-> "none"]

\* d30303_setup.
Init ==
  /\ hostname \in {"none", "SPA", "CADDY", "ip1", "ip2"}
  /\ mac_prefix \in {"none", "A", "B"}
  /\ sent = FALSE
  /\ replies = {}
  /\ d30303_count = 0
  /\ d30303_list = [i \in 1 .. MAX_D30303_DEVS |-> Hole]
  /\ url = "none"

Listening == url = "none"

\* Every device, or those that the broadcast reaches, will answer.
cb_d30303_send ==
  /\ Listening /\ ~sent
  /\ sent' = TRUE
  /\ replies' \in SUBSET Devices
  /\ UNCHANGED <<hostname, mac_prefix, d30303_count, d30303_list, url>>

\* A reply, or some other message, which is counted all the same.
cb_d30303_read ==
  /\ Listening
  /\ \E m \in replies \cup {Hole} :
       /\ d30303_count < MAX_D30303_DEVS
       /\ replies' = replies \ {m}
       /\ d30303_count' = d30303_count + 1
       /\ d30303_list' = IF d30303_count' >= MAX_D30303_DEVS THEN d30303_list
                         ELSE [d30303_list EXCEPT ![d30303_count'] = m]
  /\ UNCHANGED <<hostname, mac_prefix, sent, url>>

\* The first of the list that matches.  ip_match has no value before the loop and
\* is not set back in it: unset is what it happens to be.
Matches(i, name, prefix, unset) ==
  LET mp == prefix = "none" \/ prefix = d30303_list[i].mac
      hn == name # "none" /\ name = d30303_list[i].name
      ip == unset \/ name = "none" \/ \E j \in 1 .. i : name = d30303_list[j].ip
  IN <<hn /\ mp, ip /\ mp>>
First(name, prefix, unset) ==
  {i \in DOMAIN d30303_list :
     /\ TRUE \in {Matches(i, name, prefix, unset)[k] : k \in {1, 2}}
     /\ \A j \in 1 .. i - 1 : Matches(j, name, prefix, unset) = <<FALSE, FALSE>>}

\* cb_end_d30303: a URL of the name if that matched, else of the address.
cb_end_d30303 ==
  /\ Listening
  /\ \E unset \in BOOLEAN :
       IF hostname = "none" /\ mac_prefix = "none" /\ d30303_count # 1
         THEN url' = "stopped"
         ELSE LET name == IF hostname = "none" /\ mac_prefix = "none" THEN d30303_list[1].name
                          ELSE hostname
                  found == First(name, mac_prefix, unset)
              IN url' \in IF found = {} THEN {"stopped"}
                          ELSE {LET i == CHOOSE i \in found : TRUE
                                    byname == Matches(i, name, mac_prefix, unset)[1]
                                IN IF d30303_list[i] = Hole THEN "crashed"
                                   ELSE IF byname THEN d30303_list[i].name ELSE d30303_list[i].ip}
  /\ UNCHANGED <<hostname, mac_prefix, sent, replies, d30303_count, d30303_list>>

Next == cb_d30303_send \/ cb_d30303_read \/ cb_end_d30303

Spec == Init /\ [][Next]_vars

-----------------------------------------------------------------------------
\* Type invariant of the discovery.
TypeOK ==
  /\ replies \subseteq Devices
  /\ d30303_count \in 0 .. MAX_D30303_DEVS
  /\ \A i \in DOMAIN d30303_list : d30303_list[i] \in Devices \cup {Hole}
  /\ url \in {"none", "stopped", "crashed"} \cup {d.ip : d \in Devices} \cup {d.name : d \in Devices}

\* What is found has replied, is of the maker that was asked for, and there was no
\* choice when nothing was asked for.
Chosen ==
  url \notin {"none", "stopped", "crashed"} =>
    /\ \E i \in DOMAIN d30303_list :
         LET d == d30303_list[i]
         IN url \in {d.ip, d.name} /\ (mac_prefix = "none" \/ d.mac = mac_prefix)
    /\ hostname = "none" /\ mac_prefix = "none" => d30303_count = 1
=============================================================================
