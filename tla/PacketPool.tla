------------------------------ MODULE PacketPool ------------------------------
(***************************************************************************)
(* The packets of packet.h.  All nodes of a simulation share one pool; its *)
(* free list and reference counts decide who may write to a packet.  A     *)
(* pool is a record, and each method of class Packet an operator on it.    *)
(***************************************************************************)
EXTENDS Integers, Sequences, SequencesExt

CONSTANTS
  Packets,    \* the packets that may ever be created
  NoHop       \* -2, no next hop

(* The header of a packet fresh from alloc: bzero, and then the hops.  The *)
(* address 0 that bzero leaves in prev_hop is the address of a node, and   *)
(* the type 0 is that of a TCP packet.                                     *)
(* from is history, the node the packet was last received from.            *)
Blank ==
  [ptype |-> "tcp", uid |-> 0, saddr |-> 0, daddr |-> 0, ttl |-> 0, size |-> 0,
   num_forwards |-> 0, prev_hop |-> 0, next_hop |-> NoHop, from |-> NoHop]

(* free is the free list, used the packets whose fflag_ is set.            *)
NewPool ==
  [free |-> <<>>, used |-> {}, refs |-> [p \in Packets |-> 0],
   hdr |-> [p \in Packets |-> Blank]]

(* alloc takes the head of the free list, or creates a packet.             *)
Uncreated(m) == Packets \ (m.used \cup ToSet(m.free))
CanAlloc(m) == m.free # <<>> \/ Uncreated(m) # {}
Allocated(m) == IF m.free # <<>> THEN Head(m.free) ELSE CHOOSE p \in Uncreated(m) : TRUE
Alloc(m, h) ==
  [m EXCEPT !.free = IF @ = <<>> THEN @ ELSE Tail(@),
            !.used = @ \cup {Allocated(m)},
            !.hdr[Allocated(m)] = h]
Copy(m, p) == Alloc(m, m.hdr[p])

RefCopy(m, p) == [m EXCEPT !.refs[p] = @ + 1]

(* A packet that is free already is left alone.                            *)
FreeShared(m, p) ==
  IF p \notin m.used THEN m
  ELSE [m EXCEPT !.free = <<p>> \o @, !.used = @ \ {p}, !.hdr[p] = Blank]
Free(m, p) ==
  IF p \notin m.used THEN m
  ELSE IF m.refs[p] = 0
  THEN [m EXCEPT !.free = <<p>> \o @, !.used = @ \ {p}, !.hdr[p] = Blank]
  ELSE [m EXCEPT !.refs[p] = @ - 1]
=============================================================================
