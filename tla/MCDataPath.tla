------------------------------ MODULE MCDataPath ------------------------------
(* Two sources and a node, 4, that nothing leaves.  From both sources a      *)
(* packet can take three hops, to node 4 or back to where it started.        *)
EXTENDS DataPath

Links == (0 :> {1, 3, 4}) @@ (1 :> {0, 2}) @@ (2 :> {0, 1}) @@ (3 :> {}) @@ (4 :> {})
Starts == (1 :> 1) @@ (7 :> 2)
Chatter ==
  {[node |-> 2, type |-> "AODV", to |-> NoHop], [node |-> 2, type |-> "ARP", to |-> 1]}
Limits == [n \in Nodes |-> IF n = 2 THEN 3 ELSE 2]
Statics == <<"tcp", "cbr", "AODV", "smac">>
Dynamic == <<"a", "b">>
Classes == <<"DATApkt", "ROUTING">>
Slots == Permutations(Packets)
=============================================================================
