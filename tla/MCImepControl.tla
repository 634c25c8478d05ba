---------------------------- MODULE MCImepControl ----------------------------
(* Two possible neighbours, a beacon period of four ticks, objects sent    *)
(* within two and ACKs or hellos within six, so that the control timer may *)
(* outlast a beacon period.                                                *)
EXTENDS ImepControl, TLC

CONSTANTS n1, n2
TwoPeers == {n1, n2}
Delays == 1 .. 2
Slow == {1, 3, 6}
Swap == Permutations(TwoPeers)
=============================================================================
