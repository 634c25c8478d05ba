-------------------------------- MODULE MCTora --------------------------------
(* Three routers and the destination, 3.  The routers form a line with the *)
(* destination at its end, or two of them form a ring through it, and the  *)
(* third may come into range.                                              *)
EXTENDS Tora

LineAndRing == {{{3, 0}, {0, 1}, {1, 2}}, {{3, 0}, {3, 1}, {0, 1}}}
Mendable == {{3, 0}, {3, 1}, {1, 2}}
===============================================================================
