--------------------------- MODULE MCImepRexmit ---------------------------
(* Instances of ImepRexmit: an agent with neighbours 0 and 1 and two       *)
(* packets at a time, or neighbours 0, 1 and 2 and one packet at a time.   *)
EXTENDS ImepRexmit

TwoPeers   == {0, 1}
ThreePeers == {0, 1, 2}
=============================================================================
