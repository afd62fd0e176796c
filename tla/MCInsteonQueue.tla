--------------------------- MODULE MCInsteonQueue ---------------------------
(* The instance of InsteonQueue for TLC in which a command may be asked for *)
(* again while it is in the queue.                                          *)
EXTENDS InsteonQueue, TLC

CONSTANT d1

OneDevice == {d1}
GroupOfOne == d1 :> {d1}
=============================================================================
