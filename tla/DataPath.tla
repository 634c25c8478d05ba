------------------------------- MODULE DataPath -------------------------------
(***************************************************************************)
(* A data packet's way through the nodes: the agent's trace, toraAgent     *)
(* (recv, rt_resolve, forward and the flush of recvTORA), imepAgent, the   *)
(* router's trace, the interface queue, the MAC and the next node.  Every  *)
(* trace line is read by the awk script as it is written, and drawn by nam.*)
(*                                                                         *)
(* A handler passes the packet on by a call, so that an action runs to the *)
(* place where the packet rests.  The handlers are operators on World, the *)
(* record of all they may change.  The next hop TORA finds (module Tora)   *)
(* is any neighbour, or none.                                              *)
(***************************************************************************)
EXTENDS Integers, FiniteSets, Sequences, PacketPool, PriQueue, PacketTypes, CmuTrace,
        TraceAnalysis

CONSTANTS
  Nodes,        \* addresses
  Dest,         \* the address all data packets are sent to
  Neighbours,   \* Neighbours[n]: the nodes that may be n's next hop
  Uids,         \* the numbers of the data packets
  Source,       \* Source[u]: the node where packet u starts
  OtherUids,    \* the numbers of routing and ARP packets
  DefTTL,       \* IP_DEF_TTL
  Size,         \* of the agents' packets
  IpHdrLen,     \* IP_HDR_LEN
  MaxOthers,    \* bound: routing and ARP packets at a time
  Drained,      \* bound: the nodes whose energy runs down
  Talks,        \* bound: the other packets sent
  Tapped        \* bound: the nodes where others take a reference, one at a time

ASSUME DataPathAssumption ==
  /\ Nodes \subseteq Nat /\ Dest \in Nodes
  /\ Neighbours \in [Nodes -> SUBSET Nodes] /\ \A n \in Nodes : n \notin Neighbours[n]
  /\ Uids \subseteq Nat /\ OtherUids \subseteq Nat \ Uids
  /\ Source \in [Uids -> Nodes \ {Dest}]
  /\ Nodes \cup Uids \cup OtherUids = PacketIds
  /\ QLim \in [Nodes -> Nat] /\ DefTTL \in Nat \ {0} /\ Size \in Nat /\ IpHdrLen \in Nat
  /\ NoHop \notin Nodes /\ Idle \notin Packets
  /\ Talks \subseteq [node : Nodes, type : (Routed \cup {"ARP"}) \ DataPackets,
                      to : Nodes \cup {NoHop}]
  /\ \A t \in Talks : t.type = "ARP" => t.to \in Nodes
  /\ Drained \subseteq Nodes /\ Tapped \subseteq Nodes

VARIABLES
  types,    \* the table of packet types
  mem,      \* the pool of packets
  rqueue,   \* rqueue[n]: packets waiting for a route
  later,    \* later[n]: packets toraAgent has scheduled for target_
  ifc,      \* ifc[n]: the interface queue and what the MAC holds
  air,      \* <<p, n>>: packet p is on its way up at node n
  taps,     \* packets somebody else has a reference to
  energy,   \* energy[n], in percent
  awk,      \* what the script has read so far
  color,    \* color[n][t]: nodeColor of trace object t of n
  screen,   \* history: the colour nam shows of each node
  sent,     \* history: data packets started
  mute,     \* history: of these, those that started on a dead node
  got,      \* history: data packets an agent has received
  clashed,  \* history: numbers an ARP line had in the packets' column
  blamed    \* history: drops for a loop that was none

nodeVars == <<types, rqueue, later, ifc, air>>
traceVars == <<awk, color, screen>>
historyVars == <<sent, mute, got, clashed, blamed>>
vars == <<mem, nodeVars, taps, energy, traceVars, historyVars>>

World ==
  [mem |-> mem, rqueue |-> rqueue, later |-> later, ifc |-> ifc, air |-> air,
   awk |-> awk, color |-> color, screen |-> screen,
   got |-> got, clashed |-> clashed, blamed |-> blamed]
Loaded == LoadedTypes(types) = Len(Libraries)
Become(w) ==
  /\ Loaded /\ types' = types
  /\ mem' = w.mem /\ rqueue' = w.rqueue /\ later' = w.later /\ ifc' = w.ifc
  /\ air' = w.air /\ awk' = w.awk /\ color' = w.color /\ screen' = w.screen
  /\ got' = w.got /\ clashed' = w.clashed /\ blamed' = w.blamed

-----------------------------------------------------------------------------
(* The traces of a node.                                                   *)
Tracers == {<<"AGT", "s">>, <<"AGT", "r">>, <<"RTR", "s">>, <<"RTR", "D">>, <<"IFQ", "D">>}
Alive(n) == NodeEnergy(energy[n])

Layout == [kind \in Kinds |-> Format("new", "802_11", TRUE, "RTR", kind)]
ShowsIp(name, h) ==
  CASE name = "ptype" -> h.ptype
    [] name = "size"  -> h.size
    [] name = "uid"   -> h.uid
ShowsArp(h) == h.next_hop
Shows(name, n, level, op, h) ==
  CASE name = "op"    -> Op(level, op, h.saddr # n, "new")
    [] name = "level" -> level
    [] name \in {"ptype", "size", "uid"} -> ShowsIp(name, h)
    [] name = "arp_tpa" -> ShowsArp(h)
    [] OTHER -> name
Line(n, level, op, h) ==
  [k \in {1, 19, 35, 37, 41} |-> Shows(Layout[h.ptype][k][2], n, level, op, h)]

(* CMUTrace::recv on a node with energy: the line, and nam's colour if     *)
(* this trace object has not shown it yet.                                 *)
Printed(w, n, level, op, p) ==
  LET h == w.mem.hdr[p]
      line == Line(n, level, op, h)
      now == EnergyLevel(energy[n], 50, 20)
      Stays == NamSilent(level, op, h.daddr = NoHop) \/ w.color[n][<<level, op>>] = now
  IN  [w EXCEPT !.awk = Counted(@, line),
                !.clashed = IF h.ptype = "ARP" THEN @ \cup ({line[41]} \cap Uids) ELSE @,
                !.color[n][<<level, op>>] = IF Stays THEN @ ELSE now,
                !.screen[n] = IF Stays THEN @ ELSE now]

Freed(w, p) == [w EXCEPT !.mem = Free(@, p)]
TraceRecv(w, n, level, op, p) ==
  IF Alive(n) THEN Printed(w, n, level, op, p) ELSE Freed(w, p)
Dropped(w, n, level, p) ==
  Freed(IF Alive(n) THEN Printed(w, n, level, "D", p) ELSE w, p)
DroppedAll(w, n, level, s) ==
  LET after[k \in 0 .. Len(s)] == IF k = 0 THEN w ELSE Dropped(after[k - 1], n, level, s[k])
  IN  after[Len(s)]

-----------------------------------------------------------------------------
(* Down: the interface queue; the router's send trace; imepAgent::recv,    *)
(* which tells outgoing packets from incoming ones by prev_hop_.           *)
IfqRecv(w, n, p) ==
  LET r == RecvIfq(w.ifc[n], p, w.mem.hdr[p].ptype, QLim[n])
  IN  DroppedAll([w EXCEPT !.ifc[n] = r.ifc], n, "IFQ", r.dropped)
SendDown(w, n, p) ==
  LET v == TraceRecv(w, n, "RTR", "s", p) IN IF Alive(n) THEN IfqRecv(v, n, p) ELSE v
ImepRecv(w, n, p) ==
  IF w.mem.hdr[p].prev_hop = n THEN SendDown(w, n, p)
  ELSE [w EXCEPT !.air = @ \cup {<<p, n>>}]

(* toraAgent.                                                              *)
Blame(n, hop, h) ==
  IF hop = h.from THEN {} ELSE {[node |-> n, hop |-> hop, saddr |-> h.saddr]}
ForwardUnmarked(w, n, p, hop, delayed) ==
  LET h == w.mem.hdr[p]
      v == [w EXCEPT !.mem.hdr[p].next_hop = hop]
  IN  IF hop = h.prev_hop
      THEN Dropped([w EXCEPT !.blamed = @ \cup Blame(n, hop, h)], n, "RTR", p)
      ELSE IF delayed THEN [v EXCEPT !.later[n] = @ \cup {p}] ELSE ImepRecv(v, n, p)
ForwardAnywhere(w, n, p, hop, delayed) ==
  LET v == [w EXCEPT !.mem.hdr[p].next_hop = hop, !.mem.hdr[p].prev_hop = n]
  IN  IF delayed THEN [v EXCEPT !.later[n] = @ \cup {p}] ELSE ImepRecv(v, n, p)
Forward(w, n, p, hop, delayed) ==
  LET h == w.mem.hdr[p]
      v == [w EXCEPT !.mem.hdr[p].next_hop = hop, !.mem.hdr[p].prev_hop = n]
  IN  IF hop = h.prev_hop
      THEN Dropped([w EXCEPT !.blamed = @ \cup Blame(n, hop, h)], n, "RTR", p)
      ELSE IF delayed THEN [v EXCEPT !.later[n] = @ \cup {p}] ELSE ImepRecv(v, n, p)

RtResolve(w, n, p, hop) ==
  IF hop = NoHop THEN [w EXCEPT !.rqueue[n] = Append(@, p)] ELSE Forward(w, n, p, hop, FALSE)

(* recv: a packet that starts here, one that has come back, and others.    *)
ToraRecvTwice(w, n, p, hop) ==
  LET h == w.mem.hdr[p] IN
  IF h.saddr = n
  THEN RtResolve([w EXCEPT !.mem.hdr[p].size = @ + IpHdrLen, !.mem.hdr[p].ttl = DefTTL], n, p, hop)
  ELSE IF h.ttl = 1 THEN Dropped(w, n, "RTR", p)
  ELSE RtResolve([w EXCEPT !.mem.hdr[p].ttl = @ - 1], n, p, hop)
ToraRecvForever(w, n, p, hop) ==
  LET h == w.mem.hdr[p] IN
  IF h.saddr = n /\ h.num_forwards = 0
  THEN RtResolve([w EXCEPT !.mem.hdr[p].size = @ + IpHdrLen, !.mem.hdr[p].ttl = DefTTL], n, p, hop)
  ELSE IF h.saddr = n THEN Dropped(w, n, "RTR", p)
  ELSE RtResolve([w EXCEPT !.mem.hdr[p].ttl = @ - 1], n, p, hop)
ToraRecv(w, n, p, hop) ==
  LET h == w.mem.hdr[p] IN
  IF h.saddr = n /\ h.num_forwards = 0
  THEN RtResolve([w EXCEPT !.mem.hdr[p].size = @ + IpHdrLen, !.mem.hdr[p].ttl = DefTTL], n, p, hop)
  ELSE IF h.saddr = n \/ h.ttl = 1 THEN Dropped(w, n, "RTR", p)
  ELSE RtResolve([w EXCEPT !.mem.hdr[p].ttl = @ - 1], n, p, hop)

(* The loop of recvTORA: only the first packet leaves at once.             *)
FlushedAgain(w, n, hop) ==
  LET q == w.rqueue[n]
      after[k \in 0 .. Len(q)] ==
        IF k = 0 THEN w ELSE Forward(after[k - 1], n, q[k], hop, k > 1)
  IN  after[Len(q)]
Flushed(w, n, hop) ==
  LET q == w.rqueue[n]
      after[k \in 0 .. Len(q)] ==
        IF k = 0 THEN [w EXCEPT !.rqueue[n] = <<>>]
        ELSE Forward(after[k - 1], n, q[k], hop, k > 1)
  IN  after[Len(q)]

-----------------------------------------------------------------------------
Init ==
  /\ \E ours \in BOOLEAN : types = Started(ours)
  /\ mem = NewPool
  /\ rqueue = [n \in Nodes |-> <<>>]
  /\ later = [n \in Nodes |-> {}]
  /\ ifc = [n \in Nodes |-> Idling]
  /\ air = {} /\ taps = {}
  /\ energy = [n \in Nodes |-> 100]
  /\ awk = NoLines
  /\ color = [n \in Nodes |-> [t \in Tracers |-> 3]]
  /\ screen = [n \in Nodes |-> 3]
  /\ sent = {} /\ mute = {} /\ got = {} /\ clashed = {} /\ blamed = {}

(* Before the simulation starts the script loads its libraries, each with  *)
(* a type and a classifier that knows it.                                  *)
Load ==
  LET k == LoadedTypes(types) + 1 IN
  /\ ~ Loaded
  /\ types' = AddPacketClassifier(AddPacket(types, Libraries[k]),
                                  [type |-> NewId(types), class |-> LibraryClass[k]])
  /\ UNCHANGED <<mem, rqueue, later, ifc, air, taps, energy, traceVars, historyVars>>

Hops(n) == Neighbours[n] \cup {NoHop}

(* An agent's packet: the header it fills in, its trace, and toraAgent.    *)
Originate(u, hop) ==
  LET n == Source[u]
      p == Allocated(mem)
      h == [Blank EXCEPT !.ptype = "cbr", !.uid = u, !.saddr = n, !.daddr = Dest, !.size = Size]
      w == TraceRecv([World EXCEPT !.mem = Alloc(@, h)], n, "AGT", "s", p)
  IN
  /\ u \notin sent /\ CanAlloc(mem) /\ hop \in Hops(n)
  /\ sent' = sent \cup {u}
  /\ mute' = IF Alive(n) THEN mute ELSE mute \cup {u}
  /\ Become(IF Alive(n) THEN ToraRecv(w, n, p, hop) ELSE w)
  /\ UNCHANGED <<taps, energy>>

(* A packet from below: imepAgent, the node's entry, the agent's trace.    *)
Receive(p, n, hop) ==
  LET h == mem.hdr[p]
      w == [World EXCEPT !.air = @ \ {<<p, n>>}]
      v == TraceRecv(w, n, "AGT", "r", p)
      Delivered == IF Alive(n) THEN [Freed(v, p) EXCEPT !.got = @ \cup {h.uid}] ELSE v
  IN
  /\ <<p, n>> \in air /\ hop \in Hops(n)
  /\ Become(CASE h.prev_hop = n -> SendDown(w, n, p)
              [] h.prev_hop # n /\ h.daddr = n -> Delivered
              [] OTHER -> ToraRecv(w, n, p, hop))
  /\ UNCHANGED <<taps, energy, sent, mute>>

Flush(n, hop) ==
  /\ rqueue[n] # <<>> /\ hop \in Neighbours[n]
  /\ Become(Flushed(World, n, hop))
  /\ UNCHANGED <<taps, energy, sent, mute>>

(* The scheduler hands a delayed packet to target_, the IMEP agent.        *)
Release(n, p) ==
  /\ p \in later[n]
  /\ Become(ImepRecv([World EXCEPT !.later[n] = @ \ {p}], n, p))
  /\ UNCHANGED <<taps, energy, sent, mute>>

(* rqueue drops a packet it has kept too long.                             *)
Expire(n) ==
  /\ rqueue[n] # <<>>
  /\ Become(Dropped([World EXCEPT !.rqueue[n] = Tail(@)], n, "RTR", Head(rqueue[n])))
  /\ UNCHANGED <<taps, energy, sent, mute>>

(* A routing packet, or an ARP request for the address to, is given to the *)
(* link layer.  ARP is part of it and has no router's trace.               *)
Other(n, u, type, to) ==
  LET p == Allocated(mem)
      h == [Blank EXCEPT !.ptype = type, !.uid = IF type = "ARP" THEN 0 ELSE u, !.saddr = n,
                         !.daddr = NoHop, !.next_hop = to, !.prev_hop = n]
      w == [World EXCEPT !.mem = Alloc(@, h)]
  IN
  /\ CanAlloc(mem) /\ Cardinality({q \in mem.used : mem.hdr[q].ptype # "cbr"}) < MaxOthers
  /\ Become(IF type = "ARP" THEN IfqRecv(w, n, p) ELSE SendDown(w, n, p))
  /\ UNCHANGED <<taps, energy, sent, mute>>

(* The MAC is done with its packet: a copy has arrived, or nothing has.    *)
Transmit(n, arrives) ==
  LET p == ifc[n].mac
      h == mem.hdr[p]
      c == Allocated(mem)
      w == [World EXCEPT !.mem = Copy(@, p),
                         !.air = @ \cup {<<c, h.next_hop>>}]
      v == [w EXCEPT !.mem.hdr[c].num_forwards = @ + 1, !.mem.hdr[c].from = n]
  IN
  /\ p # Idle
  /\ arrives => CanAlloc(mem) /\ h.ptype \in DataPackets
  /\ Become(Freed([(IF arrives THEN v ELSE World) EXCEPT !.ifc[n] = Resume(@)], p))
  /\ UNCHANGED <<taps, energy, sent, mute>>

(* A protocol takes the packets to a lost neighbour out of the queue.      *)
LinkLost(n, hop) ==
  LET NextHop == [p \in Packets |-> mem.hdr[p].next_hop]
      first == ifc[n].q[FirstTo(ifc[n], hop, NextHop)]
  IN
  /\ To(ifc[n], hop, NextHop) # {}
  /\ Become(Dropped([World EXCEPT !.ifc[n] = Filter(@, hop, NextHop)], n, "RTR", first))
  /\ UNCHANGED <<taps, energy, sent, mute>>

(* The end of the simulation: toraAgent::reset and PriQueue's.             *)
Reset(n) ==
  LET w == DroppedAll([World EXCEPT !.rqueue[n] = <<>>], n, "RTR", rqueue[n])
      r == Terminate(ifc[n])
  IN
  /\ rqueue[n] # <<>> \/ ifc[n].q # <<>>
  /\ Become(DroppedAll([w EXCEPT !.ifc[n] = r.ifc], n, "IFQ", r.dropped))
  /\ UNCHANGED <<taps, energy, sent, mute>>

(* Somebody keeps a reference to the packet the MAC holds, and frees it.   *)
Tap(n) ==
  /\ ifc[n].mac # Idle /\ taps = {}
  /\ taps' = taps \cup {ifc[n].mac}
  /\ mem' = RefCopy(mem, ifc[n].mac)
  /\ UNCHANGED <<nodeVars, energy, traceVars, historyVars>>
Untap(p) ==
  /\ p \in taps
  /\ taps' = taps \ {p}
  /\ mem' = Free(mem, p)
  /\ UNCHANGED <<nodeVars, energy, traceVars, historyVars>>

Drain(n) ==
  /\ energy[n] > 0
  /\ energy' = [energy EXCEPT ![n] = IF @ > 50 THEN 10 ELSE 0]
  /\ UNCHANGED <<mem, nodeVars, taps, traceVars, historyVars>>

Next ==
  \/ Load
  \/ \E u \in Uids, hop \in Nodes \cup {NoHop} : Originate(u, hop)
  \/ \E p \in Packets, n \in Nodes, hop \in Nodes \cup {NoHop} : Receive(p, n, hop)
  \/ \E n, hop \in Nodes : Flush(n, hop)
  \/ \E n \in Nodes, p \in Packets : Release(n, p)
  \/ \E n \in Nodes : Expire(n)
  \/ \E u \in OtherUids, t \in Talks : Other(t.node, u, t.type, t.to)
  \/ \E n \in Nodes, arrives \in BOOLEAN : Transmit(n, arrives)
  \/ \E n, hop \in Nodes : LinkLost(n, hop)
  \/ \E n \in Nodes : Reset(n)
  \/ \E n \in Tapped : Tap(n)
  \/ \E p \in Packets : Untap(p)
  \/ \E n \in Drained : Drain(n)

Spec == Init /\ [][Next]_vars

-----------------------------------------------------------------------------
Headers ==
  [ptype : {"tcp", "cbr"} \cup {t.type : t \in Talks}, uid : Nat, saddr : Nodes \cup {0},
   daddr : Nodes \cup {0, NoHop}, ttl : 0 .. DefTTL, size : Nat, num_forwards : Nat,
   prev_hop : Nodes \cup {0}, next_hop : Nodes \cup {NoHop}, from : Nodes \cup {NoHop}]

TypeOK ==
  /\ mem.free \in Seq(Packets) /\ mem.used \subseteq Packets
  /\ mem.refs \in [Packets -> Nat] /\ mem.hdr \in [Packets -> Headers]
  /\ \A p \in mem.used : mem.hdr[p].ptype = "cbr" => mem.hdr[p].ttl > 0
  /\ rqueue \in [Nodes -> Seq(Packets)] /\ later \in [Nodes -> SUBSET Packets]
  /\ ifc \in [Nodes -> [q : Seq(Packets), mac : Packets \cup {Idle}]]
  /\ air \subseteq Packets \X Nodes /\ taps \subseteq Packets
  /\ energy \in [Nodes -> 0 .. 100]

(* The places of packet p: the references to it that somebody will free.   *)
PlacesAt(n, p) ==
  {<<"rqueue", n, k>> : k \in {j \in DOMAIN rqueue[n] : rqueue[n][j] = p}}
  \cup {<<"ifq", n, k>> : k \in {j \in DOMAIN ifc[n].q : ifc[n].q[j] = p}}
  \cup (IF ifc[n].mac = p THEN {<<"mac", n, 1>>} ELSE {})
  \cup (IF p \in later[n] THEN {<<"later", n, 1>>} ELSE {})
  \cup (IF <<p, n>> \in air THEN {<<"air", n, 1>>} ELSE {})
Taken(p) == IF p \in taps THEN {<<"tap", 0, 1>>} ELSE {}
Places(p) == Taken(p) \cup UNION {PlacesAt(n, p) : n \in Nodes}
Held(n) == later[n] \cup ToSet(ifc[n].q) \cup ({ifc[n].mac} \ {Idle})
Moving == {a[1] : a \in air} \cup UNION {ToSet(rqueue[n]) \cup Held(n) : n \in Nodes}

(* Each packet that is not free is referred to from ref_count + 1 places,  *)
(* no more and no less, and the free list holds each of the others once:   *)
(* no packet leaks, is freed twice or is changed by two owners (505,       *)
(* 743-789).                                                               *)
OnePlace ==
  /\ \A j, k \in DOMAIN mem.free : mem.free[j] = mem.free[k] => j = k
  /\ mem.used \cap ToSet(mem.free) = {}
  /\ \A p \in Packets :
       Cardinality(Places(p)) = IF p \in mem.used THEN mem.refs[p] + 1 ELSE 0

(* The queue stays below its limit, keeps what is routed first in front,   *)
(* and waits only for a MAC at work (priqueue.cc 104-127).                 *)
Rank(p) == mem.hdr[p].ptype \in Preferred
QueueSound ==
  \A n \in Nodes :
    /\ Len(ifc[n].q) < QLim[n]
    /\ \A j, k \in DOMAIN ifc[n].q : j < k /\ Rank(ifc[n].q[k]) => Rank(ifc[n].q[j])
    /\ ifc[n].mac = Idle => ifc[n].q = <<>>

Data(p) == mem.hdr[p].ptype = "cbr"

(* The IP header is added once, and the TTL and num_forwards tell the same *)
(* number of hops, wherever the packet is (tora.cc 280-309).               *)
HeadersTrue ==
  \A n \in Nodes :
    /\ \A p \in {q \in Held(n) \cup ToSet(rqueue[n]) : Data(q)} :
         /\ mem.hdr[p].size = Size + IpHdrLen
         /\ mem.hdr[p].ttl + mem.hdr[p].num_forwards = DefTTL
    /\ \A p \in Packets : <<p, n>> \in air =>
         /\ mem.hdr[p].size = Size + IpHdrLen
         /\ mem.hdr[p].ttl + mem.hdr[p].num_forwards = DefTTL + 1

(* imepAgent::recv (621) takes a packet for an outgoing one exactly if the *)
(* node itself is on its way to send it: what a node holds bears its own   *)
(* address in prev_hop_, and what comes up that of the node it came from.  *)
DirectionTrue ==
  \A n \in Nodes :
    /\ \A p \in Held(n) : mem.hdr[p].prev_hop = n
    /\ \A p \in Packets : <<p, n>> \in air =>
         mem.hdr[p].prev_hop = mem.hdr[p].from /\ mem.hdr[p].from # n

(* No packet is sent back to the node it came from, and none is dropped as *)
(* a loop that does not go back there, except where it starts, if its next *)
(* hop is node 0: prev_hop_ is 0 after alloc (tora.cc 206-212).            *)
LoopsOnly ==
  /\ \A n \in Nodes : \A p \in Held(n) :
       Data(p) => mem.hdr[p].next_hop # mem.hdr[p].from
  /\ \A b \in blamed : b.hop = 0 /\ b.node = b.saddr

(* The script's sums are those of the packets: what was started on nodes   *)
(* with energy, and what was received, header included (awk 31-39).        *)
CountsTrue ==
  /\ awk.udp_send = Cardinality(sent \ mute)
  /\ awk.udp_recv = Cardinality(got)
  /\ awk.packet_size = Cardinality(got) * (Size + IpHdrLen)

(* The delays in the average are those of packets received, and all of     *)
(* them: no line with the packet's number follows the reception, unless    *)
(* that of an ARP packet, whose target stands in column 41 (awk 46-51).    *)
DelaysTrue ==
  /\ Delayed(awk) \subseteq got
  /\ got \subseteq Delayed(awk) \cup clashed
  /\ \A u \in got : awk.start_time[u] = "sent"

(* What nam shows of a node is the lowest level any of its trace objects   *)
(* has seen, although each remembers its own; and no node ever turns black *)
(* (level 0), as a node without energy writes no line.                     *)
ScreenTrue ==
  \A n \in Nodes :
    /\ screen[n] # 0
    /\ \A t \in Tracers : screen[n] <= color[n][t]
    /\ \E t \in Tracers : screen[n] = color[n][t]

(* PT_NTYPE is a static variable of a header: each unit has its own        *)
(* (packet.h 203, packet.cc 47-57).  Libraries never touch the numbers and *)
(* classes of static types.  If initName reads the one addPacket writes,   *)
(* each library's type has a number of its own and the class its library   *)
(* says, whatever has been loaded since, and a unit that has the same      *)
(* PT_NTYPE takes a name nobody has added for undefined.  If not, all      *)
(* libraries share one number, which has the name of the last, and the     *)
(* class of the last that knows one (packet.h 213-292, 423-432).           *)
Number(name, here) == GetType(types, name, here)
OwnNumbers(n) ==
  /\ \A k \in 1 .. n, here \in {Static, types.ntype} :
       /\ Number(Libraries[k], here) = Static + k - 1
       /\ Classify(types, Static + k - 1) = LibraryClass[k]
  /\ \A k \in n + 1 .. Len(Libraries) :
       types.name[Number(Libraries[k], types.ntype) + 1] = "undefined"
OneNumber(n) ==
  /\ \A k \in 1 .. n, here \in {Static, types.ntype} :
       Number(Libraries[k], here) = IF k = n THEN Static ELSE here
  /\ \A k \in 1 .. n :
       /\ LibraryClass[k] # "UNCLASSIFIED"
       /\ \A j \in k + 1 .. n : LibraryClass[j] = "UNCLASSIFIED"
       => Classify(types, Static) = LibraryClass[k]
TypesSound ==
  /\ \A k \in 1 .. Static, here \in {Static, types.ntype} :
       /\ Number(StaticNames[k], here) = k - 1
       /\ Classify(types, k - 1) = StaticClass(StaticNames[k])
  /\ IF types.ours THEN OwnNumbers(LoadedTypes(types)) ELSE OneNumber(LoadedTypes(types))

(* The nodes keep the promise of Delivery: each data packet is in one      *)
(* place until it is received or dropped, and is received at most once.    *)
InTransit == {mem.hdr[p].uid : p \in {q \in Moving : Data(q)}}
Promise == INSTANCE Delivery
  WITH transit <- InTransit, delivered <- got, lost <- sent \ (InTransit \cup got)
Promised == Promise!Spec
=============================================================================
