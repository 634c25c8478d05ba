------------------------------- MODULE PriQueue -------------------------------
(***************************************************************************)
(* The interface queue of priqueue.cc.  An interface is the queue and the  *)
(* packet its MAC holds: blocked_ is set as long as there is one.  The     *)
(* operators that may drop give the interface and the packets dropped.     *)
(***************************************************************************)
EXTENDS Integers, Sequences, SequencesExt

CONSTANTS
  QLim,        \* QLim[n]: qlim_ of node n's queue
  Idle         \* what a MAC holds that has nothing to send

ASSUME QLimAssumption == \A n \in DOMAIN QLim : QLim[n] \in Nat /\ QLim[n] >= 2

(* The packet types recv puts first.                                       *)
Preferred == {"DSR", "message", "TORA", "AODV", "AOMDV", "MDART"}

Idling == [q |-> <<>>, mac |-> Idle]
Result(i, dropped) == [ifc |-> i, dropped |-> dropped]

(* Unless the queue is blocked its first packet goes to the MAC.           *)
Served(i) ==
  IF i.mac = Idle /\ i.q # <<>> THEN [q |-> Tail(i.q), mac |-> Head(i.q)] ELSE i

(* A routing packet goes to the front, and the last packet of a full queue *)
(* is dropped: it may be the packet that has just come in.                 *)
RecvHighPriorityTail(i, p, qlim) ==
  LET q == Append(i.q, p) IN
  IF Len(q) >= qlim
  THEN Result(Served([i EXCEPT !.q = Front(q)]), <<Last(q)>>)
  ELSE Result(Served([i EXCEPT !.q = q]), <<>>)
RecvHighPriority(i, p, qlim) ==
  LET q == <<p>> \o i.q IN
  IF Len(q) >= qlim
  THEN Result(Served([i EXCEPT !.q = Front(q)]), <<Last(q)>>)
  ELSE Result(Served([i EXCEPT !.q = q]), <<>>)

(* Queue::recv and DropTail::enque.                                        *)
RecvDropTail(i, p, qlim) ==
  IF Len(i.q) + 1 >= qlim
  THEN Result(Served(i), <<p>>)
  ELSE Result(Served([i EXCEPT !.q = Append(@, p)]), <<>>)

RecvIfq(i, p, ptype, qlim) ==
  IF ptype \in Preferred THEN RecvHighPriority(i, p, qlim) ELSE RecvDropTail(i, p, qlim)

(* The MAC is done with its packet.                                        *)
Resume(i) == Served([i EXCEPT !.mac = Idle])

(* filter(id): the first packet whose next hop is id leaves the queue.     *)
To(i, id, hop) == {k \in DOMAIN i.q : hop[i.q[k]] = id}
FirstTo(i, id, hop) == CHOOSE k \in To(i, id, hop) : \A j \in To(i, id, hop) : k <= j
Filter(i, id, hop) == [i EXCEPT !.q = RemoveAt(@, FirstTo(i, id, hop))]

Terminate(i) == Result([i EXCEPT !.q = <<>>], i.q)
=============================================================================
