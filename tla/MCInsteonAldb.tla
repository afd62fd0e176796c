---------------------------- MODULE MCInsteonAldb ----------------------------
(* The instance of InsteonAldb for TLC in which a database is written and    *)
(* nothing is lost.                                                          *)
EXTENDS InsteonAldb

\* What the devices have before, and the file that is written to each of them.
SomeDatabases == {<<0>>, <<3, 0>>, <<3, 4, 0>>}
TwoRecords == {<<5, 6, 0>>}
=============================================================================
