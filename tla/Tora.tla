-------------------------------- MODULE Tora --------------------------------
(***************************************************************************)
(* The routes of TORA to one destination, as tora.cc computes them.  Each  *)
(* router keeps a height; a link leads downstream to the neighbour whose   *)
(* height, as far as it is known, is the lower one.  QRY asks for a route, *)
(* UPD tells a height, CLR erases the heights of a partition.              *)
(*                                                                         *)
(* IMEP carries a message to every neighbour, in the order sent, as        *)
(* OrderedLink promises; it reports links up and down at each end          *)
(* separately.  The tables of a destination (TORADest, TORANeighbor) are   *)
(* not in the repository: what they compute is marked external.            *)
(***************************************************************************)
EXTENDS Integers, FiniteSets, Sequences

CONSTANTS
  Routers,     \* addresses of the nodes that route
  Dest,        \* address of the destination
  Spots,       \* the pairs of nodes that may come into range of each other
  Airs,        \* sets of pairs in range to begin with
  MaxFlight,   \* bound: a channel this full is served before the others
  MaxMoves,    \* bound: links that break, appear or are given up alive
  MaxAsked     \* bound: queries sent for data packets

Nodes == Routers \cup {Dest}

ASSUME AddressAssumption ==
  /\ Routers \subseteq Nat /\ IsFiniteSet(Routers)
  /\ Dest \in Nat \ Routers
  /\ Spots \subseteq {{a, b} : a \in Routers, b \in Nodes}
  /\ Airs \subseteq SUBSET {{a, b} : a \in Routers, b \in Nodes}
  /\ MaxFlight \in Nat \ {0} /\ MaxMoves \in Nat /\ MaxAsked \in Nat

(* No node is its own neighbour.                                         *)
ASSUME NoSelfAssumption == \A i \in Routers : \A pairs \in Airs : {i} \notin pairs

VARIABLES
  air,      \* the pairs of nodes in range of each other
  links,    \* links[i]: the neighbours IMEP has reported to router i
  known,    \* the routers that have a table for Dest
  dst,      \* dst[i]: that table
  chan,     \* chan[k][i]: messages of k on their way to i
  waiting,  \* the routers whose rqueue holds packets for Dest
  clock,    \* the time of the last new reference level
  moves,    \* links that broke, appeared or were given up so far
  asked,    \* queries sent for data packets so far
  blurred,  \* history: routers whose counters a CLR has left behind
  missed    \* history: <<k, i>> where k's height has changed, i will not hear
            \* of it, and still goes by what k said before

historyVars == <<blurred, missed>>
vars == <<air, links, known, dst, chan, waiting, clock, moves, asked, historyVars>>

-----------------------------------------------------------------------------
(* Heights are (tau, oid, r, delta, id), compared in this order.           *)
Height == [1 .. 5 -> Int]
Null == <<-1, -1, -1, -1, -1>>
Zero == <<0, 0, 0, 0, Dest>>
Lower(g, h) == \E n \in 1 .. 5 : g[n] < h[n] /\ \A m \in 1 .. n - 1 : g[m] = h[m]
Level(h) == <<h[1], h[2], h[3]>>
WithDelta(h, delta, i) == <<h[1], h[2], h[3], delta, i>>
OfLevel(h, tau, oid) == h[1] = tau /\ h[2] = oid /\ h[3] = 1

(* The direction of a link, from our height and the neighbour's; the ids   *)
(* at the end of the heights break ties.                                   *)
LinkStatusTies(mine, his) ==
  IF his = Null THEN "UN"
  ELSE IF mine = Null \/ SubSeq(his, 1, 4) = SubSeq(mine, 1, 4) \/ Lower(his, mine)
  THEN "DN" ELSE "UP"
LinkStatus(mine, his) ==
  IF his = Null THEN "UN"
  ELSE IF mine = Null \/ Lower(his, mine) THEN "DN" ELSE "UP"

Count(lnk, status) == Cardinality({k \in DOMAIN lnk : lnk[k] = status})
One(b) == IF b THEN 1 ELSE 0

(* nb_add: what is taken of a new neighbour, and the table of a            *)
(* destination that has just been added.                                   *)
Fresh(k) == IF k = Dest THEN Zero ELSE Null
FreshLink(k) == IF k = Dest THEN "DN" ELSE "UN"
DstAdd(i) ==
  [height   |-> Null,
   rt_req   |-> FALSE,
   num_up   |-> 0,
   num_down |-> One(Dest \in links[i]),
   heard    |-> [k \in links[i] |-> Fresh(k)],      \* heights of neighbours
   lnk_stat |-> [k \in links[i] |-> FreshLink(k)],
   recent   |-> links[i]]                           \* time_act > time_upd
Td(i) == IF i \in known THEN dst[i] ELSE DstAdd(i)

UpdateHeight(d, h) ==
  LET lnk == [k \in DOMAIN d.heard |-> LinkStatus(h, d.heard[k])]
  IN  [d EXCEPT !.height = h, !.lnk_stat = lnk,
                !.num_up = Count(lnk, "UP"), !.num_down = Count(lnk, "DN")]

UpdateHeightNbAdds(d, k, h) ==
  LET now == LinkStatus(d.height, h)
  IN  [d EXCEPT !.heard[k] = h, !.lnk_stat[k] = now,
                !.num_up = @ + One(now = "UP"), !.num_down = @ + One(now = "DN")]
UpdateHeightNb(d, k, h) ==
  LET now == LinkStatus(d.height, h)
      was == d.lnk_stat[k]
  IN  [d EXCEPT !.heard[k] = h, !.lnk_stat[k] = now,
                !.num_up = @ + One(now = "UP") - One(was = "UP"),
                !.num_down = @ + One(now = "DN") - One(was = "DN")]

(* Searches through the neighbours.                                        *)
NonNull(d) == {k \in DOMAIN d.heard : d.heard[k] # Null}
WithR(d, r) == {k \in NonNull(d) : d.heard[k][3] = r}
SameRef(d) == \A j, k \in NonNull(d) : Level(d.heard[j]) = Level(d.heard[k])
Least(d, S) == CHOOSE k \in S : \A j \in S : ~ Lower(d.heard[j], d.heard[k])
Greatest(d, S) == CHOOSE k \in S : \A j \in S : ~ Lower(d.heard[k], d.heard[j])
MinHeight(d) == d.heard[Least(d, WithR(d, 0))]
MinOfMaxLevel(d) ==
  LET n == Greatest(d, NonNull(d))
  IN  d.heard[Least(d, {k \in NonNull(d) : Level(d.heard[k]) = Level(d.heard[n])})]
HasNextHop(d) == \E k \in DOMAIN d.lnk_stat : d.lnk_stat[k] = "DN"

-----------------------------------------------------------------------------
(* Messages.                                                               *)
QRY == [type |-> "QRY"]
UPD(h) == [type |-> "UPD", height |-> h]
CLR(tau, oid) == [type |-> "CLR", tau |-> tau, oid |-> oid]

(* Router i, whose height is now h, says out; c is what is left of the     *)
(* channels.  IMEP carries it to each neighbour it has reported; another   *)
(* node in range may overhear it.  The others miss what is told, everybody *)
(* misses what is not told, and the pairs in lost have lost what they were *)
(* told.  A pair is forgotten when nothing of the one is left that the     *)
(* other goes by.                                                          *)
Tells(out) == \E n \in DOMAIN out : out[n].type # "QRY"
GoesBy(i, k) ==
  Tells(chan[k][i]) \/ (i \in known /\ k \in links[i] /\ dst[i].heard[k] # Null)
Say(c, i, h, out, lost) ==
  \E over \in SUBSET {b \in Routers \ links'[i] : {i, b} \in air} :
    LET to == links'[i] \cup over
        pairs == IF Tells(out) THEN {p \in missed : p[1] # i} \cup ({i} \X (Routers \ to))
                 ELSE IF h = Td(i).height THEN missed ELSE missed \cup ({i} \X Routers)
    IN  /\ chan' = [c EXCEPT ![i] = [b \in Routers |-> IF b \in to THEN @[b] \o out ELSE @[b]]]
        /\ missed' = {p \in pairs \cup lost : GoesBy(p[2], p[1])'}

(* The common end of a handler: the new table, the answer, and (recvTORA)  *)
(* the packets that waited leave if there is a next hop now.               *)
Handled(i, k, d, out) ==
  /\ dst' = [dst EXCEPT ![i] = d]
  /\ known' = known \cup {i}
  /\ UNCHANGED <<air, links, moves, asked>>
  /\ Say([chan EXCEPT ![k][i] = Tail(@)], i, d.height, out, {})
FlushedRequested(i, d) ==
  waiting' = IF HasNextHop(d) /\ d.rt_req THEN waiting \ {i} ELSE waiting
Flushed(i, d) == waiting' = IF HasNextHop(d) THEN waiting \ {i} ELSE waiting

(* time_upd = now and sendUPD: every neighbour has our height now.         *)
Told(d) == [d EXCEPT !.recent = {}]

(* A router without a height has told so already.                          *)
ErasedBeforeNot(d) == FALSE
ErasedBefore(d) == d.height = Null
Nulled(d) == Told([d EXCEPT !.height = Null])
NewLevel(i, d, t) == [Told(UpdateHeight(d, <<t, i, 0, 0, i>>)) EXCEPT !.rt_req = FALSE]

(* Our height and all we know of our neighbours is erased.                 *)
ErasedHere(d) == [d EXCEPT !.height = Null, !.num_up = 0, !.num_down = 0,
                           !.lnk_stat = [k \in DOMAIN d.heard |-> FreshLink(k)]]
Erased(d) ==
  [d EXCEPT !.height = Null, !.num_up = 0, !.num_down = 0,
            !.heard = [k \in DOMAIN d.heard |-> Fresh(k)],
            !.lnk_stat = [k \in DOMAIN d.heard |-> FreshLink(k)]]

-----------------------------------------------------------------------------
Init ==
  /\ air \in Airs
  /\ links = [i \in Routers |-> {k \in Nodes \ {i} : {i, k} \in air}]
  /\ known = {}
  /\ dst = [i \in Routers |-> DstAdd(i)]
  /\ chan = [k \in Routers |-> [i \in Routers |-> <<>>]]
  /\ waiting = {}
  /\ clock = 0
  /\ moves = 0
  /\ asked = 0
  /\ blurred = {} /\ missed = {}

(* A data packet for Dest finds no next hop: it waits, and a query is sent *)
(* unless one is pending.                                                  *)
RtResolve(i) ==
  LET d == Td(i) IN
  /\ ~ HasNextHop(d)
  /\ d.rt_req \/ asked < MaxAsked
  /\ asked' = asked + One(~ d.rt_req)
  /\ waiting' = waiting \cup {i}
  /\ dst' = [dst EXCEPT ![i] = [d EXCEPT !.rt_req = TRUE]]
  /\ known' = known \cup {i}
  /\ UNCHANGED <<air, links, clock, moves, blurred>>
  /\ Say(chan, i, d.height, IF d.rt_req THEN <<>> ELSE <<QRY>>, {})

Prompt(k, i) == \/ Len(chan[k][i]) >= MaxFlight
                \/ \A a, b \in Routers : Len(chan[a][b]) < MaxFlight
Incoming(i, k, type) ==
  chan[k][i] # <<>> /\ Head(chan[k][i]).type = type /\ Prompt(k, i)

RecvQRY(i, k) ==
  LET d == Td(i) IN
  /\ Incoming(i, k, "QRY")
  /\ UNCHANGED <<waiting, clock, blurred>>
  /\ \/ /\ d.rt_req
        /\ Handled(i, k, d, <<>>)
     \/ /\ ~ d.rt_req /\ d.height[3] = 0
        /\ IF k \in d.recent
           THEN Handled(i, k, Told(d), <<UPD(d.height)>>)
           ELSE Handled(i, k, d, <<>>)
     \/ /\ ~ d.rt_req /\ d.height[3] # 0 /\ WithR(d, 0) # {}
        /\ LET h == MinHeight(d)
               mine == WithDelta(h, h[4] + 1, i)
           IN  Handled(i, k, Told(UpdateHeight(d, mine)), <<UPD(mine)>>)
     \/ /\ ~ d.rt_req /\ d.height[3] # 0 /\ WithR(d, 0) = {}
        /\ Handled(i, k, [d EXCEPT !.rt_req = TRUE],
                   IF Cardinality(DOMAIN d.heard) > 1 THEN <<QRY>> ELSE <<>>)

(* An UPD of a node that is no neighbour (delayed by IMEP) is ignored;     *)
(* otherwise the height it tells is noted, and then one of these applies.  *)
RecvUPD(i, k) ==
  LET h == Head(chan[k][i]).height
      t == clock + 1
      d == UpdateHeightNb(Td(i), k, h)
      Requested == d.rt_req /\ h[3] = 0                                \* I
      Cut == ~ Requested /\ d.num_down = 0                             \* II
      Reply(e, m) == Handled(i, k, e, m) /\ Flushed(i, e)
      Defined(e) == Reply(e, <<UPD(e.height)>>)
      Reflected == <<MinHeight(d)[1], MinHeight(d)[2], 1, 0, i>>
      Lowered == WithDelta(MinOfMaxLevel(d), MinOfMaxLevel(d)[4] - 1, i)
  IN
  /\ Incoming(i, k, "UPD")
  /\ UNCHANGED blurred
  /\ \/ /\ k \notin links[i]
        /\ Reply(Td(i), <<>>)
        /\ UNCHANGED clock
     \/ /\ k \in links[i] /\ Requested
        /\ Defined([Told(UpdateHeight(d, WithDelta(h, h[4] + 1, i))) EXCEPT !.rt_req = FALSE])
        /\ UNCHANGED clock
     \/ /\ k \in links[i] /\ ~ Requested /\ ~ Cut                      \* II, B
        /\ Reply(d, <<>>)
        /\ UNCHANGED clock
     \/ /\ k \in links[i] /\ Cut /\ d.num_up = 0                       \* II, A, 1
        /\ IF ErasedBefore(d) THEN Reply(d, <<>>) ELSE Defined(Nulled(d))
        /\ UNCHANGED clock
     \/ /\ k \in links[i] /\ Cut /\ d.num_up # 0 /\ SameRef(d) /\ WithR(d, 0) # {}
        /\ Defined(Told(UpdateHeight(d, Reflected)))
        /\ UNCHANGED clock
     \/ /\ k \in links[i] /\ Cut /\ d.num_up # 0 /\ SameRef(d) /\ WithR(d, 0) = {}
        /\ d.height[2] = i
        /\ Reply(Erased(d), <<CLR(d.height[1], i)>>)
        /\ UNCHANGED clock
     \/ /\ k \in links[i] /\ Cut /\ d.num_up # 0 /\ SameRef(d) /\ WithR(d, 0) = {}
        /\ d.height[2] # i
        /\ Defined(NewLevel(i, d, t))
        /\ clock' = t
     \/ /\ k \in links[i] /\ Cut /\ d.num_up # 0 /\ ~ SameRef(d)       \* II, A, 2, b
        /\ Defined(Told(UpdateHeight(d, Lowered)))
        /\ UNCHANGED clock

(* The heights a CLR erases at a router that is not part of its level.  It *)
(* leaves the counters as they are.                                        *)
ForgottenHalf(d, k, m) ==
  LET gone == {k} \cup {j \in DOMAIN d.heard : OfLevel(d.heard[j], m.tau, m.oid)}
  IN  [d EXCEPT !.heard = [j \in DOMAIN @ |-> IF j \in gone THEN Null ELSE @[j]],
                !.lnk_stat[k] = "UN"]
Forgotten(d, k, m) ==
  LET gone == {k} \cup {j \in DOMAIN d.heard : OfLevel(d.heard[j], m.tau, m.oid)}
  IN  [d EXCEPT !.heard = [j \in DOMAIN @ |-> IF j \in gone THEN Null ELSE @[j]],
                !.lnk_stat = [j \in DOMAIN @ |-> IF j \in gone THEN "UN" ELSE @[j]]]

RecvCLR(i, k) ==
  LET m == Head(chan[k][i])
      t == clock + 1
      d == Td(i)
      e == Forgotten(d, k, m)
      Mine == OfLevel(d.height, m.tau, m.oid)
      Alone == Cardinality(DOMAIN d.heard) <= 1
      Reply(f, out) == Handled(i, k, f, out) /\ Flushed(i, f)
  IN
  /\ Incoming(i, k, "CLR")
  /\ \/ /\ Mine                                                        \* I
        /\ Reply(Erased(d), IF Alone THEN <<>> ELSE <<m>>)
        /\ blurred' = IF Dest \in links[i] THEN blurred \cup {i} ELSE blurred
        /\ UNCHANGED clock
     \/ /\ ~ Mine /\ k \notin links[i]
        /\ Reply(d, <<>>)
        /\ UNCHANGED <<clock, blurred>>
     \/ /\ ~ Mine /\ k \in links[i] /\ d.num_down # 0                  \* II, B
        /\ Reply(e, <<>>)
        /\ blurred' = IF e.lnk_stat = d.lnk_stat THEN blurred ELSE blurred \cup {i}
        /\ UNCHANGED clock
     \/ /\ ~ Mine /\ k \in links[i] /\ d.num_down = 0                  \* II, A
        /\ IF d.num_up # 0
           THEN /\ Reply(NewLevel(i, e, t), <<UPD(<<t, i, 0, 0, i>>)>>)
                /\ clock' = t
           ELSE /\ IF ErasedBefore(d) THEN Reply(e, <<>>) ELSE Reply(Nulled(e), <<UPD(Null)>>)
                /\ UNCHANGED clock
        /\ UNCHANGED blurred

-----------------------------------------------------------------------------
(* The links.  A link breaks or appears in the air, and IMEP tells each    *)
(* router that has an end of it.                                           *)
Break ==
  /\ moves < MaxMoves
  /\ \E e \in air : air' = air \ {e}
  /\ moves' = moves + 1
  /\ UNCHANGED <<links, known, dst, chan, waiting, clock, asked, historyVars>>

Appear ==
  /\ moves < MaxMoves
  /\ \E a \in Routers, b \in Nodes :
       /\ a # b /\ {a, b} \in Spots \ air
       /\ air' = air \cup {{a, b}}
  /\ moves' = moves + 1
  /\ UNCHANGED <<links, known, dst, chan, waiting, clock, asked, historyVars>>

Added(d, k) ==
  [d EXCEPT !.heard = [j \in DOMAIN @ \cup {k} |-> IF j = k THEN Fresh(k) ELSE @[j]],
            !.lnk_stat = [j \in DOMAIN @ \cup {k} |-> IF j = k THEN FreshLink(k) ELSE @[j]],
            !.num_down = @ + One(k = Dest),
            !.recent = @ \cup {k}]

RtNotifyLinkUP(i, k) ==
  /\ {i, k} \in air /\ k \notin links[i]
  /\ links' = [links EXCEPT ![i] = @ \cup {k}]
  /\ dst' = IF i \in known THEN [dst EXCEPT ![i] = Added(@, k)] ELSE dst
  /\ UNCHANGED <<air, known, waiting, clock, moves, asked, blurred>>
  /\ Say(chan, i, Td(i).height, IF i \in known /\ dst[i].rt_req THEN <<QRY>> ELSE <<>>, {})

RemovedHalf(d, k) ==
  [d EXCEPT !.heard = [j \in DOMAIN @ \ {k} |-> @[j]],
            !.num_up = @ - One(d.lnk_stat[k] = "UP"),
            !.num_down = @ - One(d.lnk_stat[k] = "DN"),
            !.recent = @ \ {k}]
RemovedOnly(d, k) ==
  [d EXCEPT !.heard = [j \in DOMAIN @ \ {k} |-> @[j]],
            !.lnk_stat = [j \in DOMAIN @ \ {k} |-> @[j]],
            !.num_up = @ - One(d.lnk_stat[k] = "UP"),
            !.recent = @ \ {k}]
Removed(d, k) ==
  [d EXCEPT !.heard = [j \in DOMAIN @ \ {k} |-> @[j]],
            !.lnk_stat = [j \in DOMAIN @ \ {k} |-> @[j]],
            !.num_up = @ - One(d.lnk_stat[k] = "UP"),
            !.num_down = @ - One(d.lnk_stat[k] = "DN"),
            !.recent = @ \ {k}]

(* IMEP reports a link down when the neighbour falls silent, but also, at  *)
(* this end alone, when objects stay without an answer (imep.cc 467-472)   *)
(* or one of the neighbour's is missing for too long (536-554, which goes  *)
(* on to report the link up and to deliver what came after).  Of what the  *)
(* neighbour has sent the first may be lost or purged, the rest comes      *)
(* later; of what was on its way there the last may be given up.           *)
Suffixes(c) == {SubSeq(c, n, Len(c)) : n \in 1 .. Len(c) + 1}
Prefixes(c) == {SubSeq(c, 1, n) : n \in 0 .. Len(c)}
Left(i, k) ==
  IF k = Dest THEN {chan}
  ELSE {[chan EXCEPT ![k][i] = w[1], ![i][k] = w[2]] :
          w \in Suffixes(chan[k][i]) \X Prefixes(chan[i][k])}
Unheard(c, i, k) == IF k # Dest /\ c[i][k] # chan[i][k] THEN {<<i, k>>} ELSE {}
RtNotifyLinkDN(i, k) ==
  LET d == Removed(dst[i], k)
      t == clock + 1
      Lost == i \in known /\ dst[i].lnk_stat[k] = "DN" /\ d.num_down = 0
      Tell(e, out) == /\ dst' = [dst EXCEPT ![i] = e]
                      /\ \E c \in Left(i, k) : Say(c, i, e.height, out, Unheard(c, i, k))
  IN
  /\ k \in links[i]
  /\ IF {i, k} \in air THEN moves < MaxMoves /\ moves' = moves + 1 ELSE UNCHANGED moves
  /\ links' = [links EXCEPT ![i] = @ \ {k}]
  /\ UNCHANGED <<air, known, waiting, asked, blurred>>
  /\ \/ /\ ~ Lost
        /\ IF i \in known THEN Tell(d, <<>>)
           ELSE UNCHANGED dst /\ \E c \in Left(i, k) : Say(c, i, Td(i).height, <<>>, Unheard(c, i, k))
        /\ UNCHANGED clock
     \/ /\ Lost /\ d.num_up = 0
        /\ IF ErasedBefore(d) THEN Tell(d, <<>>) ELSE Tell(Nulled(d), <<UPD(Null)>>)
        /\ UNCHANGED clock
     \/ /\ Lost /\ d.num_up # 0
        /\ Tell(NewLevel(i, d, t), <<UPD(<<t, i, 0, 0, i>>)>>)
        /\ clock' = t

Receive(i, k) == RecvQRY(i, k) \/ RecvUPD(i, k) \/ RecvCLR(i, k)
Notice(i, k) == RtNotifyLinkUP(i, k) \/ RtNotifyLinkDN(i, k)

Handle ==
  \/ \E i, k \in Routers : Receive(i, k)
  \/ \E i \in Routers, k \in Nodes : Notice(i, k)

Next ==
  \/ \E i \in Routers : RtResolve(i)
  \/ Handle
  \/ Break
  \/ Appear

Spec == Init /\ [][Next]_vars

-----------------------------------------------------------------------------
TypeOK ==
  /\ links \in [Routers -> SUBSET Nodes]
  /\ known \subseteq Routers /\ waiting \subseteq Routers
  /\ clock \in Nat
  /\ \A i \in known :
       /\ dst[i].height \in Height /\ dst[i].rt_req \in BOOLEAN
       /\ dst[i].num_up \in Int /\ dst[i].num_down \in Int
       /\ DOMAIN dst[i].heard = links[i] /\ DOMAIN dst[i].lnk_stat = links[i]

(* The direction kept for each link is the one the two heights give: the   *)
(* handlers that write a height or a direction by hand (529-549, 629-642,  *)
(* 665-675) leave the two consistent.                                      *)
StatusAgrees ==
  \A i \in known : \A k \in links[i] :
    dst[i].lnk_stat[k] = LinkStatus(dst[i].height, dst[i].heard[k])

(* num_up and num_down count the links up and down, except where recvCLR   *)
(* has cleared links without recounting (629-642, 665-675).                *)
CountersExact ==
  \A i \in known \ blurred :
    /\ dst[i].num_up = Count(dst[i].lnk_stat, "UP")
    /\ dst[i].num_down = Count(dst[i].lnk_stat, "DN")

(* What a router holds of a neighbour that has nothing but queries on      *)
(* their way to it is that neighbour's height, or nothing (recvUPD 482,    *)
(* 546; recvCLR 665), unless it has missed the neighbour's last change:    *)
(* the neighbour had given up the link, or erased its height on a CLR      *)
(* while it had only one link, and told nobody (644-648).                  *)
KnownHeights ==
  \A i, k \in known :
    k \in links[i] /\ ~ Tells(chan[k][i]) /\ <<k, i>> \notin missed
      => dst[i].heard[k] \in {Null, dst[k].height}

Quiet == /\ \A i, k \in Routers : chan[k][i] = <<>>
         /\ \A i \in Routers : links[i] = {k \in Nodes \ {i} : {i, k} \in air}
Down(i) == {k \in known \cap links[i] : dst[i].lnk_stat[k] = "DN"}
Informed(i) == {k \in Down(i) : <<k, i>> \notin missed}

(* When all messages and link changes have been handled, any circle of     *)
(* downstream links (rt_resolve 240-257) passes from a router to one whose *)
(* last change of height it missed.                                        *)
NoCycle ==
  Quiet => \A S \in SUBSET known :
             S # {} => \E i \in S : Informed(i) \cap S = {}

(* A part of the network without a way to the destination, in which nobody *)
(* missed a neighbour's last change, has no routes left when it comes to   *)
(* rest: a partition is detected, and what its links led to is erased      *)
(* (recvUPD 484-552, recvCLR 606-701).  A router whose counters a CLR has  *)
(* left behind may keep an old route, or keep others from knowing.         *)
PartitionErased ==
  Quiet => \A S \in SUBSET Routers :
             /\ S \cap blurred = {} /\ (S \X S) \cap missed = {}
             /\ \A i \in S : links[i] \subseteq S
             => \A i \in S \cap known : dst[i].height = Null

(* At every moment, a router with a height has a next hop: whoever loses   *)
(* its last one reacts before it does anything else (484-600).             *)
Sink ==
  \A i \in known \ blurred :
    dst[i].height # Null => HasNextHop(dst[i])

(* Packets wait only where a next hop is known already or a query is       *)
(* pending (rt_resolve 248-253): rt_req is never reset without a route.    *)
WaitForRoute ==
  \A i \in waiting : HasNextHop(dst[i]) \/ dst[i].rt_req

(* The handlers come to an end: once nothing breaks, appears or is asked   *)
(* for, no routers answer each other for ever (379-701).                   *)
Handling == <<moves, asked>>' = <<moves, asked>> /\ <<chan, links>>' # <<chan, links>>
Settles == <>[][~ Handling]_vars
=============================================================================
