----------------------------- MODULE MCDevices -----------------------------
(***************************************************************************)
(* The collectors and tools of Devices for TLC: one request or connection  *)
(* of each is lost (two of rrdcoll, which has two connections), and one to *)
(* three things change; two zones of a caddy and of an alarm panel;        *)
(* one device of owsrvcoll's two is configured, or none; one lamp, which   *)
(* leads a group that it belongs to.                                       *)
(***************************************************************************)
EXTENDS Devices

CONSTANT d1

\* Alarmcoll: a second row that is joined with the first, by and or by or.
MonitoringTypes == {<<"&", ">", "=">>, <<"|", "<">>}
\* InsteonDiscover: the model of a has two groups.
TwoGroupsOfA == [d \in {"a", "b"} |-> IF d = "a" THEN <<1, 2>> ELSE <<1>>]


\* The bounds of each.
Changed == [venstar |-> 2, icaddy |-> 3, balboa |-> 1, owsrv |-> 1, ad2usb |-> 2, alarmcoll |-> 1,
            rrd |-> 1, jsoncgi |-> 2]
Lost == [venstar |-> 1, icaddy |-> 1, balboa |-> 1, owsrv |-> 1, alarmcoll |-> 1, rrd |-> 2,
         jsoncgi |-> 1, hub |-> 1, aldb |-> 1, discover |-> 1]
Wired == [balboa |-> 2, alarmcoll |-> 2, rrd |-> 2, jsoncgi |-> 2]

\* Owsrv: the devices of the bus that may be configured.
NoneOrFirst == {{}, {1}}
\* InsteonQueue: the lamp's group.
Itself == [d \in {d1} |-> {d1}]
\* InsteonHub and InsteonDiscover: two devices.
TwoDevices == <<"a", "b">>
\* InsteonAldb: databases of up to as many records as there is room for.
SomeDatabases == {<<0>>, <<3, 0>>, <<3, 4, 0>>, <<3, 4, 5, 0>>}
OneFile == {<<5, 6, 0>>}
=============================================================================
