------------------------------ MODULE Tora_proofs ------------------------------
(***************************************************************************)
(* The tables of all routers stay consistent, and a router with a height   *)
(* has a next hop, for every finite set of routers, every topology and     *)
(* every interleaving.                                                     *)
(***************************************************************************)
EXTENDS ToraHeights_proofs, SequenceTheorems

(* Messages, and what they may tell at time t.                             *)
Messages == {QRY} \cup {UPD(h) : h \in Height} \cup {CLR(a, b) : a \in Int, b \in Int}
Sound(m, t) == m.type = "UPD" => Valid(m.height, t)
SoundSeq(s, t) == s \in Seq(Messages) /\ \A n \in 1 .. Len(s) : Sound(s[n], t)

(* A router with a height has a next hop, and counts its links rightly.    *)
Good(d) == Exact(d) /\ (d.height # Null => HasNextHop(d))

AnyTable == UNION {Tables(L) : L \in SUBSET Nodes}

TablesOK ==
  /\ links \in [Routers -> SUBSET Nodes]
  /\ known \subseteq Routers /\ waiting \subseteq Routers
  /\ clock \in Nat
  /\ dst \in [Routers -> AnyTable]
  /\ \A i \in known : TableOK(dst[i], links[i], clock)
  /\ \A i \in known \ blurred : Good(dst[i])

ChannelsOK ==
  /\ chan \in [Routers -> [Routers -> Seq(Messages)]]
  /\ \A k, i \in Routers : SoundSeq(chan[k][i], clock)

Inv == TablesOK /\ ChannelsOK

-----------------------------------------------------------------------------
(* What a handler has to say: nothing new, its height, or that it has none *)
(* any more; and the exception, a router that erases it and falls silent.   *)
Honest(h, e, out) ==
  \/ e.height = h /\ out \in {<<>>, <<QRY>>}
  \/ out = <<UPD(e.height)>>
  \/ e.height = Null /\ \E a, b \in Int : out = <<CLR(a, b)>>
  \/ e.height = Null /\ out = <<>>

(* A table made by a step of router i.                                     *)
Made(i, h, e, out) ==
  /\ TableOK(e, links'[i], clock')
  /\ i \notin blurred' => Good(e)
  /\ Honest(h, e, out)

(* What is noted of the sender of m, and of the other neighbours.          *)
Noted(d, m, e, j, k) ==
  IF j # k \/ m.type = "QRY" THEN e.heard[j] \in {d.heard[j], Fresh(j)}
  ELSE IF m.type = "UPD" THEN e.heard[j] \in {m.height, Fresh(j)}
  ELSE e.heard[j] = Null

(* The outcome of a message: a table, an answer, history that grows.       *)
Outcome(i, k, e, out) ==
  /\ Handled(i, k, e, out)
  /\ clock' \in Nat /\ clock <= clock'
  /\ waiting' \subseteq Routers /\ blurred \subseteq blurred'
  /\ Made(i, Td(i).height, e, out)
  /\ \A j \in links[i] : Noted(Td(i), Head(chan[k][i]), e, j, k)

(* The table a handler finds, made up if the router is new to Dest.        *)
LEMMA Found ==
  ASSUME TablesOK, NEW i \in Routers
  PROVE  /\ links[i] \in SUBSET Nodes
         /\ TableOK(Td(i), links[i], clock)
         /\ i \notin blurred => Good(Td(i))
<1>1. links[i] \in SUBSET Nodes /\ clock \in Nat
  BY DEF TablesOK
<1>2. CASE i \in known
  BY <1>1, <1>2 DEF TablesOK, Td
<1>3. CASE i \notin known
  BY <1>1, <1>3, DstAddOK DEF Td, Good
<1> QED BY <1>2, <1>3

LEMMA Addresses == \A i \in Routers : i \in Int /\ i # Dest
BY AddressAssumption

LEMMA MessageKinds ==
  ASSUME NEW m \in Messages
  PROVE  /\ m.type \in {"QRY", "UPD", "CLR"}
         /\ m.type = "QRY" => m = QRY
         /\ m.type = "UPD" => m.height \in Height /\ m = UPD(m.height)
         /\ m.type = "CLR" => m.tau \in Int /\ m.oid \in Int /\ m = CLR(m.tau, m.oid)
BY DEF Messages, QRY, UPD, CLR

LEMMA NextMessage ==
  ASSUME ChannelsOK, NEW i \in Routers, NEW k \in Routers, chan[k][i] # <<>>
  PROVE  /\ Head(chan[k][i]) \in Messages /\ Sound(Head(chan[k][i]), clock)
         /\ SoundSeq(Tail(chan[k][i]), clock)
<1> DEFINE c == chan[k][i]
<1>1. c \in Seq(Messages) /\ SoundSeq(c, clock) /\ c # <<>>
  BY DEF ChannelsOK
<1> HIDE DEF c
<1>2. Head(c) \in Messages /\ Head(c) = c[1] /\ 1 \in 1 .. Len(c)
  BY <1>1
<1>3. /\ Tail(c) \in Seq(Messages)
      /\ \A n \in 1 .. Len(Tail(c)) : n + 1 \in 1 .. Len(c) /\ Tail(c)[n] = c[n + 1]
  BY <1>1
<1>4. Sound(Head(c), clock) /\ SoundSeq(Tail(c), clock)
  BY <1>1, <1>2, <1>3 DEF SoundSeq
<1> QED BY <1>2, <1>4 DEF c

(* A query (379-438).                                                      *)
LEMMA QueryOutcome ==
  ASSUME Inv, NEW i \in Routers, NEW k \in Routers, RecvQRY(i, k)
  PROVE  \E e, out : Outcome(i, k, e, out)
<1> DEFINE d == Td(i)
           L == links[i]
<1>1. /\ L \in SUBSET Nodes /\ TableOK(d, L, clock) /\ (i \notin blurred => Good(d))
      /\ clock \in Nat
  BY Found DEF Inv, TablesOK
<1>2. /\ chan[k][i] # <<>> /\ Head(chan[k][i]).type = "QRY"
      /\ clock' = clock /\ waiting' = waiting /\ blurred' = blurred
      /\ waiting \subseteq Routers
  BY DEF RecvQRY, Incoming, Inv, TablesOK
<1>3. ASSUME NEW e, NEW out, Handled(i, k, e, out), TableOK(e, L, clock), i \notin blurred => Good(e),
             Honest(d.height, e, out), e.heard = d.heard
      PROVE  Outcome(i, k, e, out)
  <2>1. links' = links
    BY <1>3 DEF Handled
  <2> QED BY <1>1, <1>2, <1>3, <2>1 DEF Outcome, Made, Noted
<1>4. CASE d.rt_req /\ Handled(i, k, d, <<>>)
  BY <1>1, <1>3, <1>4 DEF Honest
<1>5. CASE /\ ~ d.rt_req /\ d.height[3] = 0
           /\ IF k \in d.recent
              THEN Handled(i, k, Told(d), <<UPD(d.height)>>)
              ELSE Handled(i, k, d, <<>>)
  <2>1. /\ TableOK(Told(d), L, clock) /\ (Exact(d) => Exact(Told(d)))
        /\ (HasNextHop(d) <=> HasNextHop(Told(d)))
        /\ Told(d).height = d.height /\ Told(d).heard = d.heard
    BY <1>1, ToldOK
  <2>2. CASE k \in d.recent
    <3>1. Handled(i, k, Told(d), <<UPD(d.height)>>)
      BY <1>5, <2>2
    <3>2. Honest(d.height, Told(d), <<UPD(d.height)>>)
      BY <2>1 DEF Honest
    <3>3. i \notin blurred => Good(Told(d))
      BY <1>1, <2>1 DEF Good
    <3> QED BY <1>3, <2>1, <3>1, <3>2, <3>3
  <2>3. CASE k \notin d.recent
    BY <1>1, <1>3, <1>5, <2>3 DEF Honest
  <2> QED BY <2>2, <2>3
<1>6. CASE /\ ~ d.rt_req /\ d.height[3] # 0 /\ WithR(d, 0) # {}
           /\ LET h == MinHeight(d)
                  mine == WithDelta(h, h[4] + 1, i)
              IN  Handled(i, k, Told(UpdateHeight(d, mine)), <<UPD(mine)>>)
  <2> DEFINE h == MinHeight(d)
             mine == WithDelta(h, h[4] + 1, i)
             f == UpdateHeight(d, mine)
             n == Least(d, WithR(d, 0))
  <2>1. n \in NonNull(d)
    <3>1. WithR(d, 0) \subseteq NonNull(d)
      BY DEF WithR
    <3> QED BY <1>1, <1>6, <3>1, Searched
  <2>2. h = d.heard[n]
    BY DEF MinHeight
  <2> HIDE DEF h, n
  <2>3. mine \in Height /\ Lower(h, mine) /\ mine[1] <= clock
    <3>1. h \in Height /\ h[1] <= clock
      BY <1>1, <2>1, <2>2, HeardHeights
    <3>2. i \in Int
      BY AddressAssumption
    <3> QED BY <3>1, <3>2, OneAbove
  <2> HIDE DEF mine
  <2>4. /\ TableOK(f, L, clock) /\ Exact(f) /\ HasNextHop(f) /\ f.height = mine /\ f.heard = d.heard
    <3>1. /\ L \in SUBSET Nodes /\ clock \in Nat /\ clock <= clock /\ TableOK(d, L, clock)
          /\ n \in NonNull(d) /\ Lower(d.heard[n], mine) /\ f = UpdateHeight(d, mine)
      BY <1>1, <2>1, <2>2, <2>3
    <3> HIDE DEF d, L, f
    <3>2. Raised(d, f, mine, L, clock)
      BY <2>3, <3>1, HeightAbove
    <3> QED BY <3>2 DEF Raised
  <2> HIDE DEF f
  <2>5. /\ TableOK(Told(f), L, clock) /\ Good(Told(f)) /\ Told(f).height = mine
        /\ Told(f).heard = d.heard
    BY <2>4, ToldOK DEF Good
  <2>6. Honest(d.height, Told(f), <<UPD(mine)>>)
    BY <2>5 DEF Honest
  <2>7. Handled(i, k, Told(f), <<UPD(mine)>>)
    BY <1>6 DEF f, mine, h
  <2> QED BY <1>3, <2>5, <2>6, <2>7
<1>7. CASE /\ ~ d.rt_req /\ d.height[3] # 0 /\ WithR(d, 0) = {}
           /\ Handled(i, k, [d EXCEPT !.rt_req = TRUE],
                      IF Cardinality(DOMAIN d.heard) > 1 THEN <<QRY>> ELSE <<>>)
  <2> DEFINE e == [d EXCEPT !.rt_req = TRUE]
             out == IF Cardinality(DOMAIN d.heard) > 1 THEN <<QRY>> ELSE <<>>
  <2>1. /\ TableOK(e, L, clock) /\ (Exact(d) => Exact(e)) /\ (HasNextHop(d) <=> HasNextHop(e))
        /\ e.height = d.height /\ e.heard = d.heard
    BY <1>1, RequestOK
  <2>2. i \notin blurred => Good(e)
    BY <1>1, <2>1 DEF Good
  <2>3. Honest(d.height, e, out)
    BY <2>1 DEF Honest
  <2>4. Handled(i, k, e, out)
    BY <1>7
  <2> HIDE DEF e, out
  <2> QED BY <1>3, <2>1, <2>2, <2>3, <2>4
<1> HIDE DEF d
<1> QED BY <1>4, <1>5, <1>6, <1>7 DEF RecvQRY, d

(* An UPD (444-600).                                                       *)
LEMMA UpdateOutcome ==
  ASSUME Inv, NEW i \in Routers, NEW k \in Routers, RecvUPD(i, k)
  PROVE  \E e, out : Outcome(i, k, e, out)
<1> DEFINE d0 == Td(i)
           L == links[i]
           m == Head(chan[k][i])
           h == m.height
           t == clock + 1
           d == UpdateHeightNb(d0, k, h)
           Requested == d.rt_req /\ h[3] = 0
           Cut == ~ Requested /\ d.num_down = 0
           Reply(e, s) == Handled(i, k, e, s) /\ Flushed(i, e)
           Defined(e) == Reply(e, <<UPD(e.height)>>)
           Reflected == <<MinHeight(d)[1], MinHeight(d)[2], 1, 0, i>>
           Lowered == WithDelta(MinOfMaxLevel(d), MinOfMaxLevel(d)[4] - 1, i)
<1>1. /\ L \in SUBSET Nodes /\ TableOK(d0, L, clock) /\ (i \notin blurred => Good(d0))
      /\ clock \in Nat /\ t \in Nat /\ clock <= t /\ clock <= clock /\ waiting \subseteq Routers
  <2>1. TablesOK
    BY DEF Inv
  <2>2. clock \in Nat /\ waiting \subseteq Routers
    BY <2>1 DEF TablesOK
  <2>3. t \in Nat /\ clock <= t /\ clock <= clock
    BY <2>2
  <2> HIDE DEF t
  <2> QED BY <2>1, <2>2, <2>3, Found, Zenon
<1>2. i \in Int /\ k # Dest
  BY Addresses, Zenon
<1>3. /\ chan[k][i] # <<>> /\ m.type = "UPD" /\ blurred' = blurred
  BY Zenon DEF RecvUPD, Incoming
<1>4. Valid(h, clock)
  BY <1>3, NextMessage DEF Inv, Sound
<1>5. ASSUME NEW e, NEW out, Reply(e, out), clock' \in {clock, t}, TableOK(e, L, clock'),
             i \notin blurred => Good(e), Honest(d0.height, e, out),
             \A j \in L : Noted(d0, m, e, j, k)
      PROVE  Outcome(i, k, e, out)
  <2>1. links' = links /\ Handled(i, k, e, out)
    BY <1>5 DEF Handled
  <2>2. waiting' \subseteq Routers
    BY <1>1, <1>5 DEF Flushed
  <2> QED BY <1>1, <1>3, <1>5, <2>1, <2>2 DEF Outcome, Made
<1>6. CASE k \notin links[i] /\ Reply(d0, <<>>) /\ UNCHANGED clock
  <2>1. Honest(d0.height, d0, <<>>)
    BY DEF Honest
  <2>2. \A j \in L : Noted(d0, m, d0, j, k)
    BY <1>6 DEF Noted
  <2> QED BY <1>1, <1>5, <1>6, <2>1, <2>2
<1>7. ASSUME k \in links[i]
      PROVE  /\ TableOK(d, L, clock) /\ (i \notin blurred => Exact(d))
             /\ d.height = d0.height /\ d.heard[k] = h
             /\ \A e : e.heard = d.heard => \A j \in L : Noted(d0, m, e, j, k)
  <2> HIDE DEF h, d0, L
  <2>1. /\ TableOK(d, L, clock) /\ (Exact(d0) => Exact(d)) /\ d.height = d0.height
        /\ \A j \in L : d.heard[j] = IF j = k THEN h ELSE d0.heard[j]
    <3>1. /\ L \in SUBSET Nodes /\ clock \in Nat /\ TableOK(d0, L, clock) /\ k \in L
          /\ k # Dest /\ Valid(h, clock)
      BY <1>1, <1>2, <1>4, <1>7 DEF L
    <3>2. /\ TableOK(UpdateHeightNb(d0, k, h), L, clock)
          /\ Exact(d0) => Exact(UpdateHeightNb(d0, k, h))
      BY <3>1, UpdateHeightNbOK
    <3>3. UpdateHeightNb(d0, k, h).height = d0.height
      BY <3>1, UpdateHeightNbOK
    <3>4. \A j \in L : UpdateHeightNb(d0, k, h).heard[j] = IF j = k THEN h ELSE d0.heard[j]
      <4>1. d0 \in Tables(L) /\ DOMAIN d0.heard = L
        BY <3>1 DEF TableOK, Tables
      <4>2. UpdateHeightNb(d0, k, h).heard = [d0.heard EXCEPT ![k] = h]
        BY <4>1 DEF UpdateHeightNb, Tables
      <4> QED BY <4>1, <4>2
    <3> QED BY <3>2, <3>3, <3>4
  <2> HIDE DEF d
  <2>2. \A e : e.heard = d.heard => \A j \in L : Noted(d0, m, e, j, k)
    BY <1>3, <2>1 DEF Noted, h
  <2> QED BY <1>1, <1>7, <2>1, <2>2 DEF Good, L
<1> HIDE DEF d
(* A new height above a neighbour's, of which all neighbours are told.     *)
<1>8. ASSUME k \in links[i], NEW n \in NonNull(d), NEW g \in Height, Lower(d.heard[n], g),
             g[1] <= clock
      PROVE  LET e == Told(UpdateHeight(d, g)) IN
             /\ TableOK(e, L, clock) /\ Good(e) /\ e.height = g /\ e.heard = d.heard
  <2> DEFINE f == UpdateHeight(d, g)
  <2>1. /\ TableOK(f, L, clock) /\ Exact(f) /\ HasNextHop(f) /\ f.height = g /\ f.heard = d.heard
    <3>1. /\ L \in SUBSET Nodes /\ clock \in Nat /\ clock <= clock /\ TableOK(d, L, clock)
          /\ f = UpdateHeight(d, g)
      BY <1>1, <1>7, <1>8
    <3> HIDE DEF f, L
    <3>2. Raised(d, f, g, L, clock)
      BY <1>8, <3>1, HeightAbove
    <3> QED BY <3>2 DEF Raised
  <2> HIDE DEF f
  <2>2. /\ TableOK(Told(f), L, clock) /\ Good(Told(f)) /\ Told(f).height = g
        /\ Told(f).heard = d.heard
    BY <2>1, ToldOK DEF Good
  <2> QED BY <2>2 DEF f
<1>9. ASSUME k \in links[i], WithR(d, 0) # {}
      PROVE  LET n == Least(d, WithR(d, 0)) IN
             /\ n \in NonNull(d) /\ d.heard[n][3] = 0 /\ MinHeight(d) = d.heard[n]
             /\ d.heard[n] \in Height /\ d.heard[n][1] <= clock
  <2>1. WithR(d, 0) \subseteq NonNull(d)
    BY DEF WithR
  <2>2. Least(d, WithR(d, 0)) \in WithR(d, 0)
    BY <1>1, <1>7, <1>9, <2>1, Searched
  <2>3. Least(d, WithR(d, 0)) \in NonNull(d)
    BY <2>1, <2>2
  <2> QED BY <1>1, <1>7, <1>9, <2>2, <2>3, HeardHeights DEF WithR, MinHeight
<1>10. CASE /\ k \in links[i] /\ Requested
            /\ Defined([Told(UpdateHeight(d, WithDelta(h, h[4] + 1, i))) EXCEPT !.rt_req = FALSE])
            /\ UNCHANGED clock
  <2> DEFINE g == WithDelta(h, h[4] + 1, i)
             f == Told(UpdateHeight(d, g))
             e == [f EXCEPT !.rt_req = FALSE]
  <2>1. k \in links[i] /\ h[3] = 0 /\ clock' = clock
    BY <1>10
  <2>2. h # Null /\ h \in Height /\ h[1] <= clock
    BY <1>4, <2>1, SpecialHeights DEF Valid
  <2>3. g \in Height /\ Lower(h, g) /\ g[1] <= clock
    BY <1>2, <2>2, OneAbove
  <2>4. k \in NonNull(d) /\ d.heard[k] = h
    <3>1. DOMAIN d.heard = L
      BY <1>7, <2>1 DEF TableOK, Tables
    <3>2. d.heard[k] = h
      BY <1>7, <2>1
    <3> QED BY <2>1, <2>2, <3>1, <3>2 DEF NonNull
  <2> HIDE DEF g
  <2>5. TableOK(f, L, clock) /\ Good(f) /\ f.height = g /\ f.heard = d.heard
    BY <1>8, <2>1, <2>3, <2>4
  <2> HIDE DEF f
  <2>6. /\ e \in Tables(L) /\ e.height = f.height /\ e.heard = f.heard
        /\ e.lnk_stat = f.lnk_stat /\ e.num_up = f.num_up /\ e.num_down = f.num_down
    BY <2>5 DEF TableOK, Tables
  <2>7. Defined(e)
    BY <1>10, Zenon DEF f, g
  <2> HIDE DEF e
  <2>8. TableOK(e, L, clock) /\ Good(e)
    BY <2>5, <2>6, SameTable DEF Good
  <2>9. Honest(d0.height, e, <<UPD(e.height)>>)
    BY DEF Honest
  <2>10. \A j \in L : Noted(d0, m, e, j, k)
    BY <1>7, <2>1, <2>5, <2>6
  <2> QED BY <1>5, <2>1, <2>7, <2>8, <2>9, <2>10
<1>11. CASE /\ k \in links[i] /\ ~ Requested /\ ~ Cut /\ Reply(d, <<>>) /\ UNCHANGED clock
  <2>1. ASSUME i \notin blurred PROVE Good(d)
    <3>1. Exact(d) /\ d.num_down # 0 /\ d \in Tables(L)
      BY <1>7, <1>11, <2>1 DEF TableOK
    <3>2. \E j \in L : d.lnk_stat[j] = "DN"
      BY <1>1, <3>1, CountType, NodesFinite DEF Exact, Tables
    <3> QED BY <3>1, <3>2 DEF Good, HasNextHop, Tables
  <2>2. Honest(d0.height, d, <<>>)
    BY <1>7, <1>11 DEF Honest
  <2> QED BY <1>5, <1>7, <1>11, <2>1, <2>2
<1>12. CASE /\ k \in links[i] /\ Cut /\ d.num_up = 0
            /\ IF ErasedBefore(d) THEN Reply(d, <<>>) ELSE Defined(Nulled(d))
            /\ UNCHANGED clock
  <2>1. CASE ErasedBefore(d)
    <3>1. Honest(d0.height, d, <<>>)
      BY <1>7, <1>12 DEF Honest
    <3>2. i \notin blurred => Good(d)
      BY <1>7, <1>12, <2>1 DEF ErasedBefore, Good
    <3> QED BY <1>5, <1>7, <1>12, <2>1, <3>1, <3>2
  <2>2. CASE ~ ErasedBefore(d)
    <3> DEFINE e == Nulled(d)
    <3>1. /\ TableOK(e, L, clock) /\ (Exact(d) => Exact(e)) /\ e.height = Null /\ e.heard = d.heard
      BY <1>1, <1>7, <1>12, <2>2, NulledOK DEF ErasedBefore
    <3>2. Defined(e)
      BY <1>12, <2>2
    <3> HIDE DEF e
    <3>3. Honest(d0.height, e, <<UPD(e.height)>>)
      BY DEF Honest
    <3>4. i \notin blurred => Good(e)
      BY <1>7, <1>12, <3>1 DEF Good
    <3> QED BY <1>5, <1>7, <1>12, <3>1, <3>2, <3>3, <3>4
  <2> QED BY <2>1, <2>2
<1>13. CASE /\ k \in links[i] /\ Cut /\ d.num_up # 0 /\ SameRef(d) /\ WithR(d, 0) # {}
            /\ Defined(Told(UpdateHeight(d, Reflected)))
            /\ UNCHANGED clock
  <2> DEFINE n == Least(d, WithR(d, 0))
             e == Told(UpdateHeight(d, Reflected))
  <2>1. /\ n \in NonNull(d) /\ d.heard[n][3] = 0 /\ MinHeight(d) = d.heard[n]
        /\ d.heard[n] \in Height /\ d.heard[n][1] <= clock
    BY <1>9, <1>13
  <2> HIDE DEF n
  <2>2. Reflected \in Height /\ Lower(d.heard[n], Reflected) /\ Reflected[1] <= clock
    BY <1>2, <2>1, ReflectedAbove
  <2> HIDE DEF Reflected
  <2>3. TableOK(e, L, clock) /\ Good(e) /\ e.heard = d.heard
    BY <1>8, <1>13, <2>1, <2>2
  <2>4. Defined(e)
    BY <1>13
  <2> HIDE DEF e
  <2>5. Honest(d0.height, e, <<UPD(e.height)>>)
    BY DEF Honest
  <2> QED BY <1>5, <1>7, <1>13, <2>3, <2>4, <2>5
<1>14. CASE /\ k \in links[i] /\ Cut /\ d.num_up # 0 /\ SameRef(d) /\ WithR(d, 0) = {}
            /\ d.height[2] = i
            /\ Reply(Erased(d), <<CLR(d.height[1], i)>>)
            /\ UNCHANGED clock
  <2> DEFINE e == Erased(d)
  <2>1. /\ TableOK(e, L, clock) /\ (Dest \notin L => Exact(e)) /\ e.height = Null
        /\ e.heard = [j \in L |-> Fresh(j)]
    BY <1>1, <1>7, <1>14, ErasedOK
  <2>2. Reply(e, <<CLR(d.height[1], i)>>)
    BY <1>14
  <2> HIDE DEF e
  <2>3. ASSUME i \notin blurred, Dest \in L PROVE FALSE
    <3>1. Exact(d) /\ d.num_down = 0 /\ d \in Tables(L)
      BY <1>7, <1>14, <2>3 DEF TableOK
    <3>2. \A j \in L : d.lnk_stat[j] # "DN"
      BY <1>1, <3>1, CountType, NodesFinite DEF Exact, Tables
    <3>3. /\ d.lnk_stat[Dest] = LinkStatus(d.height, Zero) /\ Valid(d.height, clock)
      BY <1>7, <1>14, <2>3, <3>1 DEF TableOK, Agree, Heard, Tables
    <3>4. d.lnk_stat[Dest] = "DN"
      BY <3>3, SpecialHeights DEF Valid, LinkStatus
    <3> QED BY <2>3, <3>2, <3>4
  <2>4. i \notin blurred => Good(e)
    BY <2>1, <2>3 DEF Good
  <2>5. Honest(d0.height, e, <<CLR(d.height[1], i)>>)
    <3>1. d.height[1] \in Int
      BY <1>7, <1>14 DEF TableOK, Tables, Height
    <3> QED BY <1>2, <2>1, <3>1 DEF Honest
  <2>6. \A j \in L : Noted(d0, m, e, j, k)
    BY <1>3, <2>1 DEF Noted
  <2> QED BY <1>5, <1>14, <2>1, <2>2, <2>4, <2>5, <2>6
<1>15. CASE /\ k \in links[i] /\ Cut /\ d.num_up # 0 /\ SameRef(d) /\ WithR(d, 0) = {}
            /\ d.height[2] # i
            /\ Defined(NewLevel(i, d, t))
            /\ clock' = t
  <2> DEFINE e == NewLevel(i, d, t)
  <2>1. /\ TableOK(e, L, t) /\ Exact(e) /\ e.heard = d.heard
        /\ NonNull(d) # {} => HasNextHop(e)
    <3>1. TableOK(d, L, clock) /\ e = NewLevel(i, d, clock + 1)
      BY <1>7, <1>15
    <3> HIDE DEF e, L
    <3> QED BY <1>1, <1>2, <3>1, NewLevelOK
  <2>2. Defined(e)
    BY <1>15
  <2> HIDE DEF e
  <2>3. ASSUME i \notin blurred PROVE Good(e)
    <3>1. Exact(d) /\ d.num_up # 0 /\ d \in Tables(L)
      BY <1>7, <1>15, <2>3 DEF TableOK
    <3>2. PICK j \in L : d.lnk_stat[j] = "UP"
      BY <1>1, <3>1, CountType, NodesFinite DEF Exact, Tables
    <3>3. d.heard[j] # Null /\ DOMAIN d.heard = L
      BY <1>7, <1>15, <3>1, <3>2, LinkStatusType DEF TableOK, Agree, Tables
    <3> QED BY <2>1, <3>2, <3>3 DEF Good, NonNull
  <2>4. Honest(d0.height, e, <<UPD(e.height)>>)
    BY DEF Honest
  <2>5. clock' \in {clock, t} /\ clock' = t
    BY <1>15
  <2> QED BY <1>5, <1>7, <1>15, <2>1, <2>2, <2>3, <2>4, <2>5
<1>16. CASE /\ k \in links[i] /\ Cut /\ d.num_up # 0 /\ ~ SameRef(d)
            /\ Defined(Told(UpdateHeight(d, Lowered)))
            /\ UNCHANGED clock
  <2> DEFINE e == Told(UpdateHeight(d, Lowered))
  <2>1. PICK n \in NonNull(d) :
          Lowered \in Height /\ Lower(d.heard[n], Lowered) /\ Lowered[1] <= clock
    BY <1>1, <1>2, <1>7, <1>16, LoweredAbove
  <2> HIDE DEF Lowered
  <2>2. TableOK(e, L, clock) /\ Good(e) /\ e.heard = d.heard
    BY <1>8, <1>16, <2>1
  <2>3. Defined(e)
    BY <1>16
  <2> HIDE DEF e
  <2>4. Honest(d0.height, e, <<UPD(e.height)>>)
    BY DEF Honest
  <2> QED BY <1>5, <1>7, <1>16, <2>2, <2>3, <2>4
<1> QED
  <2> HIDE DEF d0
  <2> QED BY <1>6, <1>10, <1>11, <1>12, <1>13, <1>14, <1>15, <1>16, Zenon DEF RecvUPD, d, d0

(* A CLR (606-701).                                                        *)
LEMMA ClearOutcome ==
  ASSUME Inv, NEW i \in Routers, NEW k \in Routers, RecvCLR(i, k)
  PROVE  \E e, out : Outcome(i, k, e, out)
<1> DEFINE d == Td(i)
           L == links[i]
           m == Head(chan[k][i])
           t == clock + 1
           f == Forgotten(d, k, m)
           Mine == OfLevel(d.height, m.tau, m.oid)
           Alone == Cardinality(DOMAIN d.heard) <= 1
           Reply(e, s) == Handled(i, k, e, s) /\ Flushed(i, e)
<1>1. /\ L \in SUBSET Nodes /\ TableOK(d, L, clock) /\ (i \notin blurred => Good(d))
      /\ clock \in Nat /\ t \in Nat /\ clock <= t /\ clock <= clock /\ waiting \subseteq Routers
  <2>1. TablesOK
    BY DEF Inv
  <2>2. clock \in Nat /\ waiting \subseteq Routers
    BY <2>1 DEF TablesOK
  <2>3. t \in Nat /\ clock <= t /\ clock <= clock
    BY <2>2
  <2> HIDE DEF t
  <2> QED BY <2>1, <2>2, <2>3, Found, Zenon
<1>2. i \in Int /\ k # Dest /\ Fresh(k) = Null
  BY Addresses DEF Fresh
<1>3. chan[k][i] # <<>> /\ m.type = "CLR"
  BY DEF RecvCLR, Incoming
<1>4. m.tau \in Int /\ m.oid \in Int /\ m = CLR(m.tau, m.oid)
  BY <1>3, NextMessage, MessageKinds DEF Inv
<1>5. d \in Tables(L) /\ DOMAIN d.heard = L /\ DOMAIN d.lnk_stat = L
      /\ d.lnk_stat \in [L -> Statuses]
  BY <1>1 DEF TableOK, Tables
<1>6. ASSUME NEW e, NEW out, Reply(e, out), clock' \in {clock, t}, TableOK(e, L, clock'),
             blurred \subseteq blurred',
             i \notin blurred' => Good(e), Honest(d.height, e, out),
             \A j \in L : Noted(d, m, e, j, k)
      PROVE  Outcome(i, k, e, out)
  <2>1. links' = links /\ Handled(i, k, e, out)
    BY <1>6 DEF Handled
  <2>2. waiting' \subseteq Routers
    BY <1>1, <1>6 DEF Flushed
  <2> QED BY <1>1, <1>6, <2>1, <2>2 DEF Outcome, Made
<1>7. CASE /\ Mine
           /\ Reply(Erased(d), IF Alone THEN <<>> ELSE <<m>>)
           /\ blurred' = IF Dest \in links[i] THEN blurred \cup {i} ELSE blurred
           /\ UNCHANGED clock
  <2> DEFINE e == Erased(d)
             out == IF Alone THEN <<>> ELSE <<m>>
  <2>1. /\ TableOK(e, L, clock) /\ (Dest \notin L => Exact(e)) /\ e.height = Null
        /\ e.heard = [j \in L |-> Fresh(j)]
    BY <1>1, ErasedOK
  <2>2. Reply(e, out)
    BY <1>7
  <2> HIDE DEF e
  <2>3. i \notin blurred' => Good(e)
    BY <1>7, <2>1 DEF Good
  <2>5. Honest(d.height, e, out)
    <3>1. CASE Alone
      BY <2>1, <3>1 DEF Honest
    <3>2. CASE ~ Alone
      BY <1>4, <2>1, <3>2 DEF Honest
    <3> QED BY <3>1, <3>2
  <2>6. \A j \in L : Noted(d, m, e, j, k)
    BY <1>2, <1>3, <2>1 DEF Noted
  <2>7. blurred \subseteq blurred' /\ clock' = clock
    BY <1>7
  <2> HIDE DEF out
  <2> QED BY <1>6, <2>1, <2>2, <2>3, <2>5, <2>6, <2>7
<1>8. CASE /\ ~ Mine /\ k \notin links[i]
           /\ Reply(d, <<>>)
           /\ UNCHANGED <<clock, blurred>>
  <2>1. Honest(d.height, d, <<>>)
    BY DEF Honest
  <2>2. \A j \in L : Noted(d, m, d, j, k)
    BY <1>8 DEF Noted
  <2>3. blurred' = blurred /\ clock' = clock
    BY <1>8
  <2> QED BY <1>1, <1>6, <1>8, <2>1, <2>2, <2>3
<1>9. ASSUME k \in links[i]
      PROVE  /\ TableOK(f, L, clock) /\ (Exact(d) /\ f.lnk_stat = d.lnk_stat => Exact(f))
             /\ f.height = d.height /\ f.num_up = d.num_up /\ f.num_down = d.num_down
             /\ \A e : e.heard = f.heard => \A j \in L : Noted(d, m, e, j, k)
  <2>1. /\ TableOK(f, L, clock) /\ (Exact(d) /\ f.lnk_stat = d.lnk_stat => Exact(f))
        /\ f.height = d.height /\ f.num_up = d.num_up /\ f.num_down = d.num_down
        /\ \A j \in L : f.heard[j] \in {Null, d.heard[j]}
        /\ f.heard[k] = Null
        /\ Dest \in L => f.heard[Dest] = Zero
    BY <1>1, <1>2, <1>9, ForgottenOK
  <2> HIDE DEF f
  <2>2. \A j \in L : f.heard[j] \in {d.heard[j], Fresh(j)}
    BY <2>1 DEF Fresh
  <2>3. \A e : e.heard = f.heard => \A j \in L : Noted(d, m, e, j, k)
    BY <1>3, <2>1, <2>2 DEF Noted
  <2> QED BY <2>1, <2>3
<1> HIDE DEF f
<1>10. CASE /\ ~ Mine /\ k \in links[i] /\ d.num_down # 0
            /\ Reply(f, <<>>)
            /\ blurred' = IF f.lnk_stat = d.lnk_stat THEN blurred ELSE blurred \cup {i}
            /\ UNCHANGED clock
  <2>1. Honest(d.height, f, <<>>)
    BY <1>9, <1>10 DEF Honest
  <2>2. i \notin blurred' => Good(f)
    BY <1>1, <1>9, <1>10 DEF Good, HasNextHop
  <2>3. blurred \subseteq blurred' /\ clock' = clock
    BY <1>10
  <2> QED BY <1>6, <1>9, <1>10, <2>1, <2>2, <2>3
(* Where the counters are exact, only a router without a height comes here. *)
<1>11. ASSUME i \notin blurred, d.num_down = 0
       PROVE  d.height = Null /\ d.num_up = 0 /\ \A j \in L : d.heard[j] = Null
  <2>1. Exact(d) /\ \A j \in L : d.lnk_stat[j] # "DN"
    BY <1>1, <1>5, <1>11, CountType, NodesFinite DEF Good, Exact
  <2>2. d.height = Null
    BY <1>1, <1>5, <1>11, <2>1 DEF Good, HasNextHop
  <2>3. \A j \in L : d.lnk_stat[j] = LinkStatus(Null, d.heard[j])
    BY <1>1, <1>5, <2>2 DEF TableOK, Agree
  <2>4. \A j \in L : d.lnk_stat[j] = "UN" /\ d.heard[j] = Null
    BY <2>1, <2>3 DEF LinkStatus
  <2>5. d.num_up = 0
    BY <1>1, <1>5, <2>1, <2>4, CountType, NodesFinite DEF Exact
  <2> QED BY <2>2, <2>4, <2>5
<1>12. CASE /\ ~ Mine /\ k \in links[i] /\ d.num_down = 0 /\ d.num_up # 0
            /\ Reply(NewLevel(i, f, t), <<UPD(<<t, i, 0, 0, i>>)>>)
            /\ clock' = t /\ UNCHANGED blurred
  <2> DEFINE e == NewLevel(i, f, t)
             g == <<t, i, 0, 0, i>>
  <2>1. TableOK(e, L, t) /\ Exact(e) /\ e.heard = f.heard /\ e.height = g
    <3>1. L \in SUBSET Nodes /\ clock \in Nat /\ i \in Int /\ TableOK(f, L, clock)
      BY <1>1, <1>2, <1>9, <1>12
    <3>2. e = NewLevel(i, f, clock + 1)
      OBVIOUS
    <3> HIDE DEF e, f, L, d
    <3> QED BY <3>1, <3>2, NewLevelOK
  <2>2. Reply(e, <<UPD(g)>>)
    BY <1>12
  <2> HIDE DEF e, g
  <2>3. blurred' = blurred /\ clock' = t
    BY <1>12
  <2>4. i \notin blurred' => Good(e)
    BY <1>11, <1>12, <2>3
  <2>5. Honest(d.height, e, <<UPD(g)>>)
    BY <2>1 DEF Honest
  <2>6. clock' \in {clock, t} /\ TableOK(e, L, clock')
    BY <2>1, <2>3
  <2>7. \A j \in L : Noted(d, m, e, j, k)
    BY <1>9, <1>12, <2>1
  <2> QED BY <1>6, <2>2, <2>3, <2>4, <2>5, <2>6, <2>7
<1>13. CASE /\ ~ Mine /\ k \in links[i] /\ d.num_down = 0 /\ d.num_up = 0
            /\ IF ErasedBefore(d) THEN Reply(f, <<>>) ELSE Reply(Nulled(f), <<UPD(Null)>>)
            /\ clock' = clock /\ UNCHANGED blurred
  <2>1. blurred' = blurred /\ clock' = clock
    BY <1>13
  <2>2. CASE ErasedBefore(d)
    <3>1. Honest(d.height, f, <<>>)
      BY <1>9, <1>13 DEF Honest
    <3>2. ASSUME i \notin blurred PROVE Good(f)
      <4>1. /\ f.lnk_stat \in [L -> Statuses] /\ f.height = Null /\ DOMAIN f.heard = L
            /\ f.num_up = 0 /\ f.num_down = 0 /\ TableOK(f, L, clock)
        BY <1>9, <1>13, <2>2 DEF TableOK, Tables, ErasedBefore
      <4>2. \A j \in L : f.heard[j] = Null
        <5>1. \A j \in L : f.heard[j] \in {Null, d.heard[j]}
          BY <1>1, <1>2, <1>13, ForgottenOK DEF f
        <5> QED BY <1>11, <1>13, <3>2, <5>1
      <4>3. \A j \in L : f.lnk_stat[j] = "UN"
        BY <4>1, <4>2 DEF TableOK, Agree, LinkStatus
      <4> QED BY <1>1, <4>1, <4>3, CountType, NodesFinite DEF Good, Exact
    <3> QED BY <1>6, <1>9, <1>13, <2>1, <2>2, <3>1, <3>2
  <2>3. CASE ~ ErasedBefore(d)
    <3> DEFINE e == Nulled(f)
    <3>1. TableOK(e, L, clock) /\ e.height = Null /\ e.heard = f.heard
      <4>1. TableOK(f, L, clock) /\ f.height # Null /\ f.num_up = 0 /\ f.num_down = 0
        BY <1>9, <1>13, <2>3 DEF ErasedBefore
      <4> QED BY <1>1, <4>1, NulledOK
    <3>2. Reply(e, <<UPD(Null)>>)
      BY <1>13, <2>3
    <3> HIDE DEF e
    <3>3. Honest(d.height, e, <<UPD(Null)>>)
      BY <3>1 DEF Honest
    <3>4. i \notin blurred => Good(e)
      BY <1>11, <1>13, <2>3 DEF ErasedBefore
    <3>5. \A j \in L : Noted(d, m, e, j, k)
      BY <1>9, <1>13, <3>1
    <3> QED BY <1>6, <2>1, <3>1, <3>2, <3>3, <3>4, <3>5
  <2> QED BY <2>2, <2>3
<1> QED
  <2> HIDE DEF d
  <2> QED BY <1>7, <1>8, <1>10, <1>12, <1>13 DEF RecvCLR, d, f

-----------------------------------------------------------------------------
(* Tables and channels after a step of router i.                           *)
Channels == [Routers -> [Routers -> Seq(Messages)]]

Carried(i, c, out) ==
  /\ chan' \in Channels
  /\ \A a, b \in Routers : /\ chan'[a][b] \in {c[a][b], c[a][b] \o out}
                           /\ a # i => chan'[a][b] = c[a][b]

LEMMA SaidCarried ==
  ASSUME NEW i \in Routers, NEW c \in Channels, NEW h, NEW out \in Seq(Messages), NEW lost,
         Say(c, i, h, out, lost)
  PROVE  Carried(i, c, out)
<1>1. PICK to : chan' = [c EXCEPT ![i] = [b \in Routers |-> IF b \in to THEN @[b] \o out ELSE @[b]]]
  BY DEF Say
<1> DEFINE r == [b \in Routers |-> IF b \in to THEN c[i][b] \o out ELSE c[i][b]]
<1>2. \A k, j \in Routers : c[k][j] \in Seq(Messages)
  BY DEF Channels
<1>3. r \in [Routers -> Seq(Messages)]
  <2>1. \A j \in Routers : c[i][j] \o out \in Seq(Messages)
    BY <1>2
  <2> QED BY <1>2, <2>1
<1>4. chan' = [c EXCEPT ![i] = r]
  BY <1>1 DEF Channels
<1>5. \A j \in Routers : r[j] \in {c[i][j], c[i][j] \o out}
  OBVIOUS
<1> HIDE DEF r
<1>6. chan' \in Channels
  BY <1>3, <1>4 DEF Channels
<1>7. \A k \in Routers : chan'[k] = IF k = i THEN r ELSE c[k]
  BY <1>4 DEF Channels
<1> QED BY <1>5, <1>6, <1>7 DEF Carried

LEMMA SoundLater ==
  ASSUME NEW t \in Nat, NEW u \in Nat, t <= u, NEW s, SoundSeq(s, t)
  PROVE  SoundSeq(s, u)
BY ValidLater DEF SoundSeq, Sound

LEMMA SoundAppend ==
  ASSUME NEW t, NEW s, SoundSeq(s, t), NEW out, SoundSeq(out, t)
  PROVE  SoundSeq(s \o out, t)
<1>1. s \in Seq(Messages) /\ out \in Seq(Messages) /\ s \o out \in Seq(Messages)
  BY DEF SoundSeq
<1>2. ASSUME NEW n \in 1 .. Len(s \o out) PROVE Sound((s \o out)[n], t)
  <2>1. CASE n <= Len(s)
    BY <1>1, <2>1 DEF SoundSeq
  <2>2. CASE ~ (n <= Len(s))
    <3>1. n - Len(s) \in 1 .. Len(out) /\ (s \o out)[n] = out[n - Len(s)]
      BY <1>1, <2>2
    <3> QED BY <3>1 DEF SoundSeq
  <2> QED BY <2>1, <2>2
<1> QED BY <1>1, <1>2 DEF SoundSeq

LEMMA HonestSound ==
  ASSUME NEW i, NEW h, NEW e, NEW out, NEW L, NEW t, TableOK(e, L, t), Honest(h, e, out)
  PROVE  SoundSeq(out, t)
<1>1. Valid(e.height, t) /\ e.height \in Height
  BY DEF TableOK, Valid
<1>2. QRY \in Messages /\ UPD(e.height) \in Messages
      /\ \A a, b \in Int : CLR(a, b) \in Messages
  BY <1>1 DEF Messages
<1>3. Sound(QRY, t) /\ Sound(UPD(e.height), t) /\ \A a, b : Sound(CLR(a, b), t)
  BY <1>1 DEF Sound, QRY, UPD, CLR
<1>4. CASE out = <<>>
  BY <1>4 DEF SoundSeq
<1>5. CASE out = <<QRY>>
  BY <1>2, <1>3, <1>5 DEF SoundSeq
<1>6. CASE out = <<UPD(e.height)>>
  BY <1>2, <1>3, <1>6 DEF SoundSeq
<1>7. CASE \E a, b \in Int : out = <<CLR(a, b)>>
  BY <1>2, <1>3, <1>7 DEF SoundSeq
<1> QED BY <1>4, <1>5, <1>6, <1>7 DEF Honest

LEMMA StepChannels ==
  ASSUME ChannelsOK, clock \in Nat, clock' \in Nat, clock <= clock', NEW i \in Routers,
         NEW c \in Channels, \A k, j \in Routers : SoundSeq(c[k][j], clock),
         NEW h, NEW out, SoundSeq(out, clock'), NEW lost, Say(c, i, h, out, lost)
  PROVE  ChannelsOK'
<1>1. out \in Seq(Messages)
  BY DEF SoundSeq
<1>2. /\ chan' \in Channels
      /\ \A k, j \in Routers : chan'[k][j] \in {c[k][j], c[k][j] \o out}
  BY <1>1, SaidCarried DEF Carried
<1>3. \A k, j \in Routers : SoundSeq(c[k][j], clock')
  BY SoundLater
<1>4. ASSUME NEW k \in Routers, NEW j \in Routers PROVE SoundSeq(chan'[k][j], clock')
  <2>1. SoundSeq(c[k][j], clock') /\ SoundSeq(c[k][j] \o out, clock')
    BY <1>3, SoundAppend
  <2> QED BY <1>2, <2>1
<1> QED BY <1>2, <1>4 DEF ChannelsOK, Channels

LEMMA StepTables ==
  ASSUME TablesOK, clock' \in Nat, clock <= clock', NEW i \in Routers, NEW e,
         links' \in [Routers -> SUBSET Nodes], \A j \in Routers : j # i => links'[j] = links[j],
         dst' = [dst EXCEPT ![i] = e], known' = known \cup {i}, waiting' \subseteq Routers,
         blurred \subseteq blurred', TableOK(e, links'[i], clock'), i \notin blurred' => Good(e)
  PROVE  TablesOK'
<1>1. e \in AnyTable
  BY DEF TableOK, AnyTable
<1>2. /\ dst' \in [Routers -> AnyTable]
      /\ \A j \in Routers : dst'[j] = IF j = i THEN e ELSE dst[j]
  BY <1>1 DEF TablesOK
<1>3. known' \subseteq Routers
  BY DEF TablesOK
<1>4. ASSUME NEW j \in known' PROVE TableOK(dst'[j], links'[j], clock')
  <2>1. CASE j = i
    BY <1>2, <2>1
  <2>2. CASE j # i
    <3>1. j \in known /\ j \in Routers
      BY <1>3, <1>4, <2>2
    <3>2. TableOK(dst[j], links[j], clock) /\ clock \in Nat
      BY <3>1 DEF TablesOK
    <3>3. TableOK(dst[j], links[j], clock')
      BY <3>2, TableLater
    <3> QED BY <1>2, <2>2, <3>1, <3>3
  <2> QED BY <2>1, <2>2
<1>5. \A j \in known' \ blurred' : Good(dst'[j])
  BY <1>2, <1>3 DEF TablesOK
<1> QED BY <1>2, <1>3, <1>4, <1>5 DEF TablesOK

(* What is left of the channels when a message has been taken.             *)
LEMMA TakenChannels ==
  ASSUME ChannelsOK, NEW i \in Routers, NEW k \in Routers, chan[k][i] # <<>>
  PROVE  LET c == [chan EXCEPT ![k][i] = Tail(@)] IN
         /\ c \in Channels
         /\ \A a, b \in Routers : c[a][b] = IF a = k /\ b = i THEN Tail(chan[k][i]) ELSE chan[a][b]
         /\ \A a, b \in Routers : SoundSeq(c[a][b], clock)
<1> DEFINE c == [chan EXCEPT ![k][i] = Tail(@)]
           r == [chan[k] EXCEPT ![i] = Tail(chan[k][i])]
<1>1. SoundSeq(Tail(chan[k][i]), clock)
  BY NextMessage
<1>2. chan \in Channels /\ chan[k] \in [Routers -> Seq(Messages)]
      /\ Tail(chan[k][i]) \in Seq(Messages)
  BY <1>1 DEF ChannelsOK, Channels, SoundSeq
<1>3. r \in [Routers -> Seq(Messages)]
      /\ \A b \in Routers : r[b] = IF b = i THEN Tail(chan[k][i]) ELSE chan[k][b]
  BY <1>2
<1>4. c = [chan EXCEPT ![k] = r]
  BY <1>2 DEF Channels
<1> HIDE DEF r
<1>5. c \in Channels /\ \A a \in Routers : c[a] = IF a = k THEN r ELSE chan[a]
  BY <1>2, <1>3, <1>4 DEF Channels
<1> HIDE DEF c
<1>6. \A a, b \in Routers : c[a][b] = IF a = k /\ b = i THEN Tail(chan[k][i]) ELSE chan[a][b]
  BY <1>3, <1>5
<1>7. \A a, b \in Routers : SoundSeq(c[a][b], clock)
  <2>1. \A a, b \in Routers : SoundSeq(chan[a][b], clock)
    BY DEF ChannelsOK
  <2> QED BY <1>1, <1>6, <2>1, Zenon
<1> QED BY <1>5, <1>6, <1>7, Zenon DEF c

LEMMA ReceiveOutcome ==
  ASSUME Inv, NEW i \in Routers, NEW k \in Routers, Receive(i, k)
  PROVE  chan[k][i] # <<>> /\ \E e, out : Outcome(i, k, e, out)
<1>1. chan[k][i] # <<>>
  BY Zenon DEF Receive, RecvQRY, RecvUPD, RecvCLR, Incoming
<1> QED BY <1>1, QueryOutcome, UpdateOutcome, ClearOutcome, Zenon DEF Receive

LEMMA ReceiveInv ==
  ASSUME Inv, NEW i \in Routers, NEW k \in Routers, Receive(i, k)
  PROVE  Inv'
<1>1. chan[k][i] # <<>>
  BY ReceiveOutcome
<1>2. PICK e, out : Outcome(i, k, e, out)
  BY ReceiveOutcome
<1> DEFINE c == [chan EXCEPT ![k][i] = Tail(@)]
<1>3. /\ dst' = [dst EXCEPT ![i] = e] /\ known' = known \cup {i} /\ links' = links
      /\ Say(c, i, e.height, out, {})
  BY <1>2 DEF Outcome, Handled
<1>4. /\ clock' \in Nat /\ clock <= clock' /\ waiting' \subseteq Routers /\ blurred \subseteq blurred'
      /\ TableOK(e, links'[i], clock') /\ (i \notin blurred' => Good(e))
      /\ Honest(Td(i).height, e, out)
  BY <1>2 DEF Outcome, Made
<1>5. TablesOK /\ ChannelsOK /\ clock \in Nat /\ links \in [Routers -> SUBSET Nodes]
  BY DEF Inv, TablesOK
<1>6. c \in Channels /\ \A a, b \in Routers : SoundSeq(c[a][b], clock)
  BY <1>1, <1>5, TakenChannels
<1> HIDE DEF c
<1>7. SoundSeq(out, clock')
  BY <1>4, HonestSound
<1>8. TablesOK'
  BY <1>3, <1>4, <1>5, StepTables
<1>9. ChannelsOK'
  BY <1>3, <1>4, <1>5, <1>6, <1>7, StepChannels
<1> QED BY <1>8, <1>9 DEF Inv

(* A query for a data packet (229-259).                                    *)
LEMMA ResolveInv ==
  ASSUME Inv, NEW i \in Routers, RtResolve(i)
  PROVE  Inv'
<1> DEFINE d == Td(i)
           e == [d EXCEPT !.rt_req = TRUE]
           out == IF d.rt_req THEN <<>> ELSE <<QRY>>
<1>1. TablesOK /\ ChannelsOK /\ clock \in Nat /\ links \in [Routers -> SUBSET Nodes]
      /\ waiting \subseteq Routers
  BY DEF Inv, TablesOK
<1>2. /\ dst' = [dst EXCEPT ![i] = e] /\ known' = known \cup {i} /\ links' = links
      /\ Say(chan, i, d.height, out, {}) /\ clock' = clock /\ blurred' = blurred
      /\ waiting' = waiting \cup {i}
  BY DEF RtResolve
<1>3. TableOK(d, links[i], clock) /\ (i \notin blurred => Good(d))
  BY <1>1, Found
<1>4. /\ TableOK(e, links[i], clock) /\ (i \notin blurred => Good(e)) /\ e.height = d.height
  <2>1. /\ TableOK(e, links[i], clock) /\ (Exact(d) => Exact(e))
        /\ (HasNextHop(d) <=> HasNextHop(e)) /\ e.height = d.height
    BY <1>3, RequestOK
  <2> QED BY <1>3, <2>1 DEF Good
<1>5. Honest(d.height, e, out)
  BY <1>4 DEF Honest
<1> HIDE DEF e, out
<1>6. clock <= clock' /\ clock' \in Nat
  BY <1>1, <1>2
<1>7. SoundSeq(out, clock')
  BY <1>2, <1>4, <1>5, HonestSound
<1>8. TablesOK'
  <2>1. waiting' \subseteq Routers /\ blurred \subseteq blurred'
    BY <1>1, <1>2
  <2> QED BY <1>1, <1>2, <1>4, <1>6, <2>1, StepTables
<1>9. ChannelsOK'
  <2>1. chan \in Channels /\ \A a, b \in Routers : SoundSeq(chan[a][b], clock)
    BY <1>1 DEF ChannelsOK, Channels
  <2> QED BY <1>1, <1>2, <1>6, <1>7, <2>1, StepChannels
<1> QED BY <1>8, <1>9 DEF Inv

(* Tables and channels when router i hears that a link has changed.        *)
LEMMA OtherLinks ==
  ASSUME TablesOK, clock' = clock, NEW i \in Routers, i \notin known,
         links' \in [Routers -> SUBSET Nodes], \A j \in Routers : j # i => links'[j] = links[j],
         dst' = dst, known' = known, waiting' = waiting, blurred' = blurred
  PROVE  TablesOK'
BY DEF TablesOK

(* rtNotifyLinkUP.                                                         *)
LEMMA LinkUpInv ==
  ASSUME Inv, NEW i \in Routers, NEW k \in Nodes, RtNotifyLinkUP(i, k)
  PROVE  Inv'
<1> DEFINE out == IF i \in known /\ dst[i].rt_req THEN <<QRY>> ELSE <<>>
<1>1. /\ TablesOK /\ ChannelsOK /\ clock \in Nat /\ links \in [Routers -> SUBSET Nodes]
      /\ waiting \subseteq Routers
  BY DEF Inv, TablesOK
<1>2. /\ k \notin links[i] /\ links' = [links EXCEPT ![i] = @ \cup {k}]
      /\ dst' = IF i \in known THEN [dst EXCEPT ![i] = Added(@, k)] ELSE dst
      /\ Say(chan, i, Td(i).height, out, {})
      /\ known' = known /\ waiting' = waiting /\ clock' = clock /\ blurred' = blurred
  BY DEF RtNotifyLinkUP
<1>3. /\ links' \in [Routers -> SUBSET Nodes] /\ links'[i] = links[i] \cup {k}
      /\ \A j \in Routers : j # i => links'[j] = links[j]
      /\ links[i] \in SUBSET Nodes
  BY <1>1, <1>2
<1>4. SoundSeq(out, clock')
  <2>1. QRY \in Messages /\ Sound(QRY, clock')
    BY DEF Messages, Sound, QRY
  <2>2. SoundSeq(<<QRY>>, clock') /\ SoundSeq(<<>>, clock')
    BY <2>1 DEF SoundSeq
  <2> QED BY <2>2
<1>5. clock <= clock' /\ clock' \in Nat
  BY <1>1, <1>2
<1> HIDE DEF out
<1>6. ChannelsOK'
  <2>1. chan \in Channels /\ \A a, b \in Routers : SoundSeq(chan[a][b], clock)
    BY <1>1 DEF ChannelsOK, Channels
  <2> QED BY <1>1, <1>2, <1>4, <1>5, <2>1, StepChannels
<1>7. CASE i \in known
  <2> DEFINE d == dst[i]
             e == Added(d, k)
  <2>1. TableOK(d, links[i], clock) /\ (i \notin blurred => Good(d))
    BY <1>1, <1>7 DEF TablesOK
  <2>2. /\ TableOK(e, links'[i], clock) /\ (Exact(d) => Exact(e))
        /\ (HasNextHop(d) => HasNextHop(e)) /\ e.height = d.height
    <3>1. /\ links[i] \in SUBSET Nodes /\ clock \in Nat /\ TableOK(d, links[i], clock)
          /\ k \in Nodes \ links[i]
      BY <1>1, <1>2, <1>3, <2>1
    <3> HIDE DEF d
    <3>2. TableOK(e, links[i] \cup {k}, clock)
      BY <3>1, AddedOK
    <3>3. Exact(d) => Exact(e)
      BY <3>1, AddedOK
    <3>4. HasNextHop(d) => HasNextHop(e)
      BY <3>1, AddedOK
    <3>5. e.height = d.height
      BY <3>1 DEF Added, TableOK, Tables
    <3> QED BY <1>3, <3>2, <3>3, <3>4, <3>5
  <2>3. dst' = [dst EXCEPT ![i] = e] /\ known' = known \cup {i}
    BY <1>2, <1>7
  <2>4. waiting' \subseteq Routers /\ blurred \subseteq blurred'
    BY <1>1, <1>2
  <2>5. i \notin blurred' => Good(e)
    BY <1>2, <2>1, <2>2 DEF Good
  <2> HIDE DEF e, d
  <2>6. TablesOK'
    BY <1>1, <1>2, <1>3, <1>5, <2>2, <2>3, <2>4, <2>5, StepTables
  <2> QED BY <1>6, <2>6 DEF Inv
<1>8. CASE i \notin known
  <2>1. TablesOK'
    BY <1>1, <1>2, <1>3, <1>8, OtherLinks
  <2> QED BY <1>6, <2>1 DEF Inv
<1> QED BY <1>7, <1>8

(* rtNotifyLinkDN, at a router that has a table.                           *)
DownOutcome(i, k, e, out) ==
  /\ clock' \in Nat /\ clock <= clock'
  /\ dst' = [dst EXCEPT ![i] = e]
  /\ \E c \in Left(i, k) : Say(c, i, e.height, out, Unheard(c, i, k))
  /\ Made(i, dst[i].height, e, out)
  /\ \A j \in links'[i] : e.heard[j] = dst[i].heard[j]

LEMMA LinkDownOutcome ==
  ASSUME Inv, NEW i \in Routers, NEW k \in Nodes, RtNotifyLinkDN(i, k), i \in known
  PROVE  \E e, out : DownOutcome(i, k, e, out)
<1> DEFINE d0 == dst[i]
           d == Removed(d0, k)
           t == clock + 1
           L == links'[i]
           Lost == i \in known /\ d0.lnk_stat[k] = "DN" /\ d.num_down = 0
           Tell(e, s) == /\ dst' = [dst EXCEPT ![i] = e]
                         /\ \E c \in Left(i, k) : Say(c, i, e.height, s, Unheard(c, i, k))
<1>1. /\ links[i] \in SUBSET Nodes /\ TableOK(d0, links[i], clock) /\ clock \in Nat /\ t \in Nat
      /\ clock <= t /\ clock <= clock /\ (i \notin blurred => Good(d0))
      /\ links \in [Routers -> SUBSET Nodes]
  <2>1. /\ links[i] \in SUBSET Nodes /\ TableOK(d0, links[i], clock) /\ clock \in Nat
        /\ (i \notin blurred => Good(d0)) /\ links \in [Routers -> SUBSET Nodes]
    BY DEF Inv, TablesOK
  <2> QED BY <2>1
<1>2. /\ k \in links[i] /\ L = links[i] \ {k} /\ L \in SUBSET Nodes
      /\ blurred' = blurred
  BY <1>1 DEF RtNotifyLinkDN
<1>3. /\ TableOK(d, L, clock) /\ (Exact(d0) => Exact(d)) /\ d.height = d0.height
      /\ (HasNextHop(d0) => HasNextHop(d) \/ d0.lnk_stat[k] = "DN")
      /\ \A j \in L : d.heard[j] = d0.heard[j]
  <2> DEFINE M == links[i]
  <2>1. M \in SUBSET Nodes /\ clock \in Nat /\ TableOK(d0, M, clock) /\ k \in M /\ L = M \ {k}
    BY <1>1, <1>2
  <2>2. d = Removed(d0, k)
    OBVIOUS
  <2> HIDE DEF L, M, d0, d
  <2>3. Shrunk(d0, d, k, M, clock)
    BY <2>1, <2>2, RemovedOK
  <2> QED BY <2>1, <2>3 DEF Shrunk
<1> HIDE DEF d
<1>4. /\ d \in Tables(L) /\ DOMAIN d.heard = L /\ DOMAIN d.lnk_stat = L
      /\ d.lnk_stat \in [L -> Statuses]
  BY <1>3 DEF TableOK, Tables
<1> HIDE DEF L
<1>5. i \notin blurred => /\ d.num_down = 0 <=> \A j \in L : d.lnk_stat[j] # "DN"
                          /\ d.num_up = 0 <=> \A j \in L : d.lnk_stat[j] # "UP"
  BY <1>1, <1>2, <1>3, <1>4, CountType, NodesFinite DEF Good, Exact
<1>6. ASSUME NEW e, NEW out, Tell(e, out), clock' \in {clock, t}, TableOK(e, L, clock'),
             i \notin blurred => Good(e), Honest(d0.height, e, out), e.heard = d.heard
      PROVE  DownOutcome(i, k, e, out)
  BY <1>1, <1>2, <1>3, <1>6 DEF DownOutcome, Made, L
<1>7. CASE ~ Lost /\ Tell(d, <<>>) /\ UNCHANGED clock
  <2>1. Honest(d0.height, d, <<>>)
    BY <1>3 DEF Honest
  <2>2. i \notin blurred => Good(d)
    BY <1>1, <1>3, <1>4, <1>5, <1>7 DEF Good, HasNextHop
  <2> QED BY <1>3, <1>6, <1>7, <2>1, <2>2
<1>8. CASE /\ Lost /\ d.num_up = 0
           /\ IF ErasedBefore(d) THEN Tell(d, <<>>) ELSE Tell(Nulled(d), <<UPD(Null)>>)
           /\ UNCHANGED clock
  <2>1. CASE ErasedBefore(d)
    <3>1. Honest(d0.height, d, <<>>)
      BY <1>3 DEF Honest
    <3>2. i \notin blurred => Good(d)
      BY <1>1, <1>3, <2>1 DEF Good, ErasedBefore
    <3> QED BY <1>3, <1>6, <1>8, <2>1, <3>1, <3>2
  <2>2. CASE ~ ErasedBefore(d)
    <3> DEFINE e == Nulled(d)
    <3>1. /\ TableOK(e, L, clock) /\ (Exact(d) => Exact(e)) /\ e.height = Null /\ e.heard = d.heard
      BY <1>1, <1>2, <1>3, <1>8, <2>2, NulledOK DEF ErasedBefore
    <3>2. Tell(e, <<UPD(Null)>>)
      BY <1>8, <2>2
    <3> HIDE DEF e
    <3>3. Honest(d0.height, e, <<UPD(Null)>>)
      BY <3>1 DEF Honest
    <3>4. i \notin blurred => Good(e)
      BY <1>1, <1>3, <3>1 DEF Good
    <3> QED BY <1>6, <1>8, <3>1, <3>2, <3>3, <3>4
  <2> QED BY <2>1, <2>2
<1>9. CASE /\ Lost /\ d.num_up # 0
           /\ Tell(NewLevel(i, d, t), <<UPD(<<t, i, 0, 0, i>>)>>)
           /\ clock' = t
  <2> DEFINE e == NewLevel(i, d, t)
             g == <<t, i, 0, 0, i>>
  <2>1. /\ TableOK(e, L, t) /\ Exact(e) /\ e.height = g /\ e.heard = d.heard
        /\ NonNull(d) # {} => HasNextHop(e)
    <3>1. i \in Int
      BY Addresses
    <3>2. L \in SUBSET Nodes /\ clock \in Nat /\ TableOK(d, L, clock)
      BY <1>1, <1>2, <1>3
    <3>3. e = NewLevel(i, d, clock + 1)
      OBVIOUS
    <3> HIDE DEF e, L
    <3> QED BY <3>1, <3>2, <3>3, NewLevelOK
  <2>2. Tell(e, <<UPD(g)>>)
    BY <1>9
  <2> HIDE DEF e, g
  <2>3. i \notin blurred => Good(e)
    <3>1. ASSUME i \notin blurred PROVE NonNull(d) # {}
      <4>1. PICK j \in L : d.lnk_stat[j] = "UP"
        BY <1>5, <1>9, <3>1
      <4>2. d.heard[j] # Null
        BY <1>3, <1>4, <4>1, LinkStatusType DEF TableOK, Agree
      <4> QED BY <1>4, <4>1, <4>2 DEF NonNull
    <3> QED BY <2>1, <3>1 DEF Good
  <2>4. Honest(d0.height, e, <<UPD(g)>>)
    BY <2>1 DEF Honest
  <2>5. clock' = t /\ clock' \in {clock, t}
    BY <1>9
  <2> QED BY <1>6, <2>1, <2>2, <2>3, <2>4, <2>5
<1> QED
  BY <1>7, <1>8, <1>9 DEF RtNotifyLinkDN, d, L

LEMMA SubSeqSound ==
  ASSUME NEW t, NEW s, SoundSeq(s, t), NEW m \in 1 .. Len(s) + 1, NEW n \in 0 .. Len(s)
  PROVE  SoundSeq(SubSeq(s, m, n), t)
<1>1. s \in Seq(Messages) /\ Len(s) \in Nat /\ \A p \in 1 .. Len(s) : s[p] \in Messages
  BY DEF SoundSeq
<1>2. m \in Int /\ n \in Int /\ \A p \in m .. n : s[p] \in Messages
  BY <1>1
<1> DEFINE r == SubSeq(s, m, n)
<1>3. /\ r \in Seq(Messages) /\ Len(r) = IF m <= n THEN n - m + 1 ELSE 0
      /\ \A p \in 1 .. n - m + 1 : r[p] = s[m + p - 1]
  BY <1>2, SubSeqProperties
<1> HIDE DEF r
<1>4. \A p \in 1 .. Len(r) : p \in 1 .. n - m + 1 /\ m + p - 1 \in 1 .. Len(s)
  BY <1>1, <1>3
<1> QED BY <1>3, <1>4 DEF SoundSeq, r

(* What is left of the channels when a link goes down.                     *)
LEMMA LeftChannels ==
  ASSUME ChannelsOK, NEW i \in Routers, NEW k \in Nodes, NEW c \in Left(i, k)
  PROVE  /\ c \in Channels
         /\ \A a, b \in Routers : SoundSeq(c[a][b], clock)
         /\ \A a, b \in Routers : b # i /\ ~ (a = i /\ b = k) => c[a][b] = chan[a][b]
         /\ k # i => \A a \in Routers : c[a][i] = chan[a][i] \/ c[a][i] \in Suffixes(chan[a][i])
<1>1. chan \in Channels /\ \A a, b \in Routers : SoundSeq(chan[a][b], clock)
  BY DEF ChannelsOK, Channels
<1>2. CASE k = Dest
  BY <1>1, <1>2 DEF Left
<1>3. CASE k # Dest
  <2>1. k \in Routers
    BY <1>3 DEF Nodes
  <2>2. PICK s \in Suffixes(chan[k][i]), p \in Prefixes(chan[i][k]) :
          c = [chan EXCEPT ![k][i] = s, ![i][k] = p]
    <3>1. PICK w \in Suffixes(chan[k][i]) \X Prefixes(chan[i][k]) :
            c = [chan EXCEPT ![k][i] = w[1], ![i][k] = w[2]]
      BY <1>3 DEF Left
    <3> QED BY <3>1
  <2>3. SoundSeq(s, clock)
    <3>1. PICK n \in 1 .. Len(chan[k][i]) + 1 : s = SubSeq(chan[k][i], n, Len(chan[k][i]))
      BY DEF Suffixes
    <3>2. Len(chan[k][i]) \in 0 .. Len(chan[k][i]) /\ SoundSeq(chan[k][i], clock)
      BY <1>1, <2>1 DEF SoundSeq
    <3> QED BY <3>1, <3>2, SubSeqSound
  <2>4. SoundSeq(p, clock)
    <3>1. PICK n \in 0 .. Len(chan[i][k]) : p = SubSeq(chan[i][k], 1, n)
      BY DEF Prefixes
    <3>2. 1 \in 1 .. Len(chan[i][k]) + 1 /\ SoundSeq(chan[i][k], clock)
      BY <1>1, <2>1 DEF SoundSeq
    <3> QED BY <3>1, <3>2, SubSeqSound
  <2>5. s \in Seq(Messages) /\ p \in Seq(Messages)
    BY <2>3, <2>4 DEF SoundSeq
  <2> DEFINE f == [chan EXCEPT ![k][i] = s]
  <2>6. /\ f \in Channels
        /\ \A a, b \in Routers : f[a][b] = IF a = k /\ b = i THEN s ELSE chan[a][b]
    BY <1>1, <2>1, <2>5 DEF Channels
  <2>7. c = [f EXCEPT ![i][k] = p]
    BY <2>2
  <2> HIDE DEF f
  <2>8. /\ c \in Channels
        /\ \A a, b \in Routers : c[a][b] = IF a = i /\ b = k THEN p ELSE f[a][b]
    BY <2>1, <2>5, <2>6, <2>7 DEF Channels
  <2>9. \A a, b \in Routers :
          c[a][b] = IF a = i /\ b = k THEN p ELSE IF a = k /\ b = i THEN s ELSE chan[a][b]
    BY <2>6, <2>8
  <2>10. \A a, b \in Routers : SoundSeq(c[a][b], clock)
    BY <1>1, <2>3, <2>4, <2>9
  <2> QED BY <2>8, <2>9, <2>10
<1> QED BY <1>2, <1>3

(* rtNotifyLinkDN.                                                         *)
LEMMA LinkDownInv ==
  ASSUME Inv, NEW i \in Routers, NEW k \in Nodes, RtNotifyLinkDN(i, k)
  PROVE  Inv'
<1>1. /\ TablesOK /\ ChannelsOK /\ clock \in Nat /\ links \in [Routers -> SUBSET Nodes]
      /\ waiting \subseteq Routers
  BY DEF Inv, TablesOK
<1>2. /\ links' = [links EXCEPT ![i] = @ \ {k}]
      /\ known' = known /\ waiting' = waiting /\ blurred' = blurred
  BY DEF RtNotifyLinkDN
<1>3. /\ links' \in [Routers -> SUBSET Nodes]
      /\ \A j \in Routers : j # i => links'[j] = links[j]
  BY <1>1, <1>2
<1>4. CASE i \in known
  <2>1. PICK e, out : DownOutcome(i, k, e, out)
    BY <1>4, LinkDownOutcome
  <2>2. PICK c \in Left(i, k) : Say(c, i, e.height, out, Unheard(c, i, k))
    BY <2>1 DEF DownOutcome
  <2>3. /\ clock' \in Nat /\ clock <= clock' /\ dst' = [dst EXCEPT ![i] = e]
        /\ TableOK(e, links'[i], clock') /\ (i \notin blurred' => Good(e))
        /\ Honest(dst[i].height, e, out)
    BY <2>1 DEF DownOutcome, Made
  <2>4. c \in Channels /\ \A a, b \in Routers : SoundSeq(c[a][b], clock)
    BY <1>1, LeftChannels
  <2>5. SoundSeq(out, clock')
    BY <2>3, HonestSound
  <2>6. known' = known \cup {i} /\ waiting' \subseteq Routers /\ blurred \subseteq blurred'
    BY <1>1, <1>2, <1>4
  <2>7. TablesOK'
    BY <1>1, <1>3, <2>3, <2>6, StepTables
  <2>8. ChannelsOK'
    BY <1>1, <2>2, <2>3, <2>4, <2>5, StepChannels
  <2> QED BY <2>7, <2>8 DEF Inv
<1>5. CASE i \notin known
  <2>1. PICK c \in Left(i, k) : Say(c, i, Td(i).height, <<>>, Unheard(c, i, k))
    BY <1>5 DEF RtNotifyLinkDN
  <2>2. dst' = dst /\ clock' = clock
    BY <1>5 DEF RtNotifyLinkDN
  <2>3. TablesOK'
    BY <1>1, <1>2, <1>3, <1>5, <2>2, OtherLinks
  <2>4. c \in Channels /\ \A a, b \in Routers : SoundSeq(c[a][b], clock)
    BY <1>1, LeftChannels
  <2>5. SoundSeq(<<>>, clock') /\ clock' \in Nat /\ clock <= clock'
    BY <1>1, <2>2 DEF SoundSeq
  <2>6. ChannelsOK'
    BY <1>1, <2>1, <2>4, <2>5, StepChannels
  <2> QED BY <2>3, <2>6 DEF Inv
<1> QED BY <1>4, <1>5

LEMMA Stutter ==
  ASSUME Inv, UNCHANGED <<links, known, dst, chan, waiting, clock, blurred>>
  PROVE  Inv'
BY DEF Inv, TablesOK, ChannelsOK

LEMMA InvInit == Init => Inv
<1> SUFFICES ASSUME Init PROVE Inv
  OBVIOUS
<1>1. links \in [Routers -> SUBSET Nodes]
  BY DEF Init
<1>2. \A i \in Routers : DstAdd(i) \in AnyTable
  <2>1. ASSUME NEW i \in Routers PROVE TableOK(DstAdd(i), links[i], 0)
    BY <1>1, DstAddOK
  <2> QED BY <1>1, <2>1 DEF TableOK, AnyTable
<1>3. dst \in [Routers -> AnyTable] /\ known = {} /\ waiting = {} /\ clock = 0
  BY <1>2 DEF Init
<1>4. TablesOK
  BY <1>1, <1>3 DEF TablesOK
<1>5. chan = [k \in Routers |-> [i \in Routers |-> <<>>]]
  BY DEF Init
<1>6. ChannelsOK
  BY <1>5 DEF ChannelsOK, SoundSeq
<1> QED BY <1>4, <1>6 DEF Inv

LEMMA InvNext == Inv /\ [Next]_vars => Inv'
<1> SUFFICES ASSUME Inv, [Next]_vars PROVE Inv'
  OBVIOUS
<1>1. ASSUME NEW i \in Routers, RtResolve(i) PROVE Inv'
  BY <1>1, ResolveInv
<1>2. ASSUME NEW i \in Routers, NEW k \in Routers, Receive(i, k) PROVE Inv'
  BY <1>2, ReceiveInv
<1>3. ASSUME NEW i \in Routers, NEW k \in Nodes, RtNotifyLinkUP(i, k) PROVE Inv'
  BY <1>3, LinkUpInv
<1>4. ASSUME NEW i \in Routers, NEW k \in Nodes, RtNotifyLinkDN(i, k) PROVE Inv'
  BY <1>4, LinkDownInv
<1>5. CASE Break
  BY <1>5, Stutter DEF Break, historyVars
<1>6. CASE Appear
  BY <1>6, Stutter DEF Appear, historyVars
<1>7. CASE UNCHANGED vars
  BY <1>7, Stutter DEF vars, historyVars
<1> QED BY <1>1, <1>2, <1>3, <1>4, <1>5, <1>6, <1>7 DEF Next, Handle, Notice

THEOREM Invariance == Spec => []Inv
BY InvInit, InvNext, PTL DEF Spec

-----------------------------------------------------------------------------
(* The tables are well-formed: what is known of the neighbours, and no     *)
(* more, is in the table.                                                  *)
THEOREM TypeCorrect == Spec => []TypeOK
<1>1. Inv => TypeOK
  <2> SUFFICES ASSUME Inv PROVE TypeOK
    OBVIOUS
  <2>1. ASSUME NEW i \in known PROVE dst[i] \in Tables(links[i])
    BY DEF Inv, TablesOK, TableOK
  <2> QED BY <2>1 DEF Inv, TablesOK, TypeOK, Tables
<1> QED BY <1>1, Invariance, PTL

(* Every direction is the one the two heights give (529-549, 629-642,      *)
(* 665-675).                                                               *)
THEOREM DirectionsAgree == Spec => []StatusAgrees
<1>1. Inv => StatusAgrees
  <2> SUFFICES ASSUME Inv, NEW i \in known, NEW k \in links[i]
               PROVE  dst[i].lnk_stat[k] = LinkStatus(dst[i].height, dst[i].heard[k])
    BY DEF StatusAgrees
  <2>1. TableOK(dst[i], links[i], clock)
    BY DEF Inv, TablesOK
  <2>2. DOMAIN dst[i].heard = links[i]
    BY <2>1 DEF TableOK, Tables
  <2> QED BY <2>1, <2>2 DEF TableOK, Agree
<1> QED BY <1>1, Invariance, PTL

(* The counters are right wherever no CLR has cleared links.               *)
THEOREM CountersRight == Spec => []CountersExact
<1>1. Inv => CountersExact
  BY DEF Inv, TablesOK, Good, Exact, CountersExact
<1> QED BY <1>1, Invariance, PTL

(* A router with a height has a next hop, while messages are on their way  *)
(* as well as at rest.                                                     *)
THEOREM NoDeadEnd == Spec => []Sink
<1>1. Inv => Sink
  BY DEF Inv, TablesOK, Good, Sink
<1> QED BY <1>1, Invariance, PTL

-----------------------------------------------------------------------------
(* Packets that wait.  What keeps a request pending while they do: a       *)
(* router that counts no link down counts none up either and has heard of  *)
(* no height, and the router of a waiting packet counts a link down that a *)
(* CLR has cleared, unless it counts none up.  No new level, which takes   *)
(* the request back, can be due then (545-553, 683, rtNotifyLinkDN).       *)
Counted(d) ==
  /\ d.height = Null => d.num_up = 0
  /\ d.height # Null /\ d.num_down = 0 => d.num_up = 0 /\ NonNull(d) = {}
Owed(d) ==
  /\ d.rt_req
  /\ d.height # Null => d.num_up = 0 \/ Count(d.lnk_stat, "DN") < d.num_down

WaitOK ==
  /\ waiting \subseteq known
  /\ \A i \in known : Counted(dst[i]) /\ (i \in waiting => Owed(dst[i]))

LEMMA CountedExact ==
  ASSUME NEW L \in SUBSET Nodes, NEW t, NEW d, TableOK(d, L, t), Exact(d),
         NonNull(d) # {} => HasNextHop(d)
  PROVE  Counted(d)
<1>1. /\ d \in Tables(L) /\ DOMAIN d.heard = L /\ DOMAIN d.lnk_stat = L
      /\ d.lnk_stat \in [L -> Statuses] /\ IsFiniteSet(L)
  BY NodesFinite DEF TableOK, Tables
<1>2. /\ d.num_up = 0 <=> \A j \in L : d.lnk_stat[j] # "UP"
      /\ d.num_down = 0 <=> \A j \in L : d.lnk_stat[j] # "DN"
  BY <1>1, CountType DEF Exact
<1>3. ASSUME d.height = Null PROVE d.num_up = 0
  BY <1>1, <1>2, <1>3 DEF TableOK, Agree, LinkStatus
<1>4. ASSUME d.num_down = 0 PROVE d.num_up = 0 /\ NonNull(d) = {}
  <2>1. NonNull(d) = {}
    BY <1>1, <1>2, <1>4 DEF HasNextHop
  <2>2. \A j \in L : d.lnk_stat[j] = "UN"
    BY <1>1, <2>1, LinkStatusType DEF NonNull, TableOK, Agree
  <2> QED BY <1>2, <2>1, <2>2
<1> QED BY <1>3, <1>4 DEF Counted

(* A router that counts a link down, but has none, may have packets wait.  *)
LEMMA OwedBlurred ==
  ASSUME NEW L \in SUBSET Nodes, NEW t, NEW d, TableOK(d, L, t), d.num_down # 0,
         ~ HasNextHop(d), d.rt_req
  PROVE  Owed(d)
<1>1. /\ DOMAIN d.lnk_stat = L /\ d.lnk_stat \in [L -> Statuses] /\ IsFiniteSet(L)
      /\ d.num_down \in Int
  BY NodesFinite DEF TableOK, Tables
<1>2. Count(d.lnk_stat, "DN") = 0
  BY <1>1, CountType DEF HasNextHop
<1>3. d.height # Null => 0 <= d.num_down
  BY <1>2 DEF TableOK, Over
<1> QED BY <1>1, <1>2, <1>3 DEF Owed

(* The counters after a neighbour's height has been noted, and after a     *)
(* neighbour has been added or removed.  Ahead(d) links too many are       *)
(* counted down.                                                           *)
Ahead(d) == d.num_down - Count(d.lnk_stat, "DN")

LEMMA NotedCounts ==
  ASSUME NEW L \in SUBSET Nodes, NEW t \in Nat, NEW d, TableOK(d, L, t),
         NEW k \in L, k # Dest, NEW h, Valid(h, t)
  PROVE  LET e == UpdateHeightNb(d, k, h) IN
         /\ Ahead(e) = Ahead(d)
         /\ d.height = Null => e.num_up = d.num_up
         /\ d.num_up = 0 /\ e.num_up # 0 => k \in NonNull(e)
<1> DEFINE e == UpdateHeightNb(d, k, h)
           now == LinkStatus(d.height, h)
           was == d.lnk_stat[k]
           lnk == [d.lnk_stat EXCEPT ![k] = now]
<1>1. /\ d \in Tables(L) /\ DOMAIN d.heard = L /\ IsFiniteSet(L) /\ now \in Statuses
      /\ d.lnk_stat \in [L -> Statuses] /\ d.num_up \in Int /\ d.num_down \in Int
  BY NodesFinite, LinkStatusType DEF TableOK, Tables
<1>2. /\ e.lnk_stat = lnk /\ e.heard = [d.heard EXCEPT ![k] = h]
      /\ e.num_up = d.num_up + One(now = "UP") - One(was = "UP")
      /\ e.num_down = d.num_down + One(now = "DN") - One(was = "DN")
  BY <1>1 DEF UpdateHeightNb, Tables
<1>3. lnk \in [L -> Statuses] /\ lnk[k] = now /\ \A j \in L \ {k} : d.lnk_stat[j] = lnk[j]
  BY <1>1
<1>4. was = LinkStatus(d.height, d.heard[k])
  BY <1>1 DEF TableOK, Agree
<1>5. e.heard[k] = h /\ DOMAIN e.heard = L
  BY <1>1, <1>2
<1> HIDE DEF e, lnk
<1>6. Count(lnk, "DN") = Count(d.lnk_stat, "DN") - One(was = "DN") + One(now = "DN")
  <2>1. L \ {k} = L \ {k} /\ k \in L
    OBVIOUS
  <2>2. Count(lnk, "DN") = Count(d.lnk_stat, "DN") - One(k \in L /\ d.lnk_stat[k] = "DN")
                           + One(k \in L /\ lnk[k] = "DN")
    BY <1>1, <1>3, <2>1, CountDiffers
  <2> QED BY <1>3, <2>1, <2>2 DEF One
<1>7. Count(d.lnk_stat, "DN") \in Nat /\ Count(d.lnk_stat, "UP") \in Nat
      /\ (Count(d.lnk_stat, "UP") = 0 <=> \A j \in L : d.lnk_stat[j] # "UP")
  BY <1>1, CountType
<1>8. Ahead(e) = Ahead(d)
  BY <1>1, <1>2, <1>6, <1>7 DEF Ahead, One
<1>9. ASSUME d.height = Null PROVE e.num_up = d.num_up
  <2>1. now # "UP" /\ was # "UP"
    BY <1>4, <1>9 DEF LinkStatus
  <2> QED BY <1>1, <1>2, <2>1 DEF One
<1>10. ASSUME d.num_up = 0, e.num_up # 0 PROVE k \in NonNull(e)
  <2>1. d.height # Null
    BY <1>9, <1>10
  <2>2. was # "UP"
    BY <1>7, <1>10, <2>1 DEF TableOK, Over
  <2>3. now = "UP"
    BY <1>1, <1>2, <1>10, <2>2 DEF One
  <2> QED BY <1>5, <2>3 DEF NonNull, LinkStatus
<1> QED BY <1>8, <1>9, <1>10 DEF e

LEMMA AddedCounts ==
  ASSUME NEW L \in SUBSET Nodes, NEW t \in Nat, NEW d, TableOK(d, L, t), NEW k \in Nodes \ L,
         Counted(d)
  PROVE  /\ Counted(Added(d, k))
         /\ Owed(d) => Owed(Added(d, k))
<1> DEFINE e == Added(d, k)
           M == L \cup {k}
           hrd == [j \in M |-> IF j = k THEN Fresh(k) ELSE d.heard[j]]
           lnk == [j \in M |-> IF j = k THEN FreshLink(k) ELSE d.lnk_stat[j]]
<1>1. /\ d \in Tables(L) /\ DOMAIN d.heard = L /\ DOMAIN d.lnk_stat = L /\ IsFiniteSet(L)
      /\ d.lnk_stat \in [L -> Statuses] /\ d.num_up \in Int /\ d.num_down \in Int
  BY NodesFinite DEF TableOK, Tables
<1>2. /\ e.height = d.height /\ e.rt_req = d.rt_req /\ e.heard = hrd /\ e.lnk_stat = lnk
      /\ e.num_up = d.num_up /\ e.num_down = d.num_down + One(k = Dest)
  BY <1>1 DEF Added, Tables
<1>3. /\ lnk \in [M -> Statuses] /\ k \in M /\ lnk[k] = FreshLink(k)
      /\ L \ {k} = M \ {k} /\ \A j \in L \ {k} : d.lnk_stat[j] = lnk[j]
  BY <1>1 DEF FreshLink, Statuses
<1>4. DOMAIN hrd = M /\ hrd[k] = Fresh(k) /\ \A j \in L : hrd[j] = d.heard[j]
  OBVIOUS
<1> HIDE DEF e, lnk, hrd
<1>5. Count(lnk, "DN") = Count(d.lnk_stat, "DN") + One(k = Dest)
  <2>1. Count(lnk, "DN") = Count(d.lnk_stat, "DN") - One(k \in L /\ d.lnk_stat[k] = "DN")
                           + One(k \in M /\ lnk[k] = "DN")
    BY <1>1, <1>3, CountDiffers
  <2>2. Count(d.lnk_stat, "DN") \in Nat
    BY <1>1, CountType
  <2> QED BY <1>3, <2>1, <2>2 DEF One, FreshLink
<1>6. Count(d.lnk_stat, "DN") \in Nat
  BY <1>1, CountType
<1>7. ASSUME e.height # Null, e.num_down = 0 PROVE e.num_up = 0 /\ NonNull(e) = {}
  <2>1. d.num_down >= 0
    BY <1>1, <1>2, <1>6, <1>7 DEF TableOK, Over
  <2>2. d.num_down = 0 /\ k # Dest
    BY <1>1, <1>2, <1>7, <2>1 DEF One
  <2>3. d.num_up = 0 /\ NonNull(d) = {}
    BY <1>2, <1>7, <2>2 DEF Counted
  <2> QED BY <1>1, <1>2, <1>4, <2>2, <2>3 DEF NonNull, Fresh
<1>8. Counted(e)
  BY <1>2, <1>7 DEF Counted
<1>9. Owed(d) => Owed(e)
  BY <1>1, <1>2, <1>5, <1>6 DEF Owed, One
<1> QED BY <1>8, <1>9 DEF e

LEMMA RemovedCounts ==
  ASSUME NEW L \in SUBSET Nodes, NEW t \in Nat, NEW d, TableOK(d, L, t), NEW k \in L
  PROVE  LET e == Removed(d, k) IN
         /\ e.height = d.height /\ e.rt_req = d.rt_req /\ Ahead(e) = Ahead(d)
         /\ d.height = Null => e.num_up = d.num_up
         /\ d.num_up = 0 => e.num_up = 0
         /\ d.lnk_stat[k] # "DN" => e.num_down = d.num_down
         /\ NonNull(e) \subseteq NonNull(d)
<1> DEFINE e == Removed(d, k)
           M == L \ {k}
           hrd == [j \in M |-> d.heard[j]]
           lnk == [j \in M |-> d.lnk_stat[j]]
<1>1. /\ d \in Tables(L) /\ DOMAIN d.heard = L /\ DOMAIN d.lnk_stat = L /\ IsFiniteSet(L)
      /\ d.lnk_stat \in [L -> Statuses] /\ d.num_up \in Int /\ d.num_down \in Int
  BY NodesFinite DEF TableOK, Tables
<1>2. /\ e.height = d.height /\ e.rt_req = d.rt_req /\ e.heard = hrd /\ e.lnk_stat = lnk
      /\ e.num_up = d.num_up - One(d.lnk_stat[k] = "UP")
      /\ e.num_down = d.num_down - One(d.lnk_stat[k] = "DN")
  BY <1>1 DEF Removed, Tables
<1>3. /\ lnk \in [M -> Statuses] /\ k \notin M
      /\ L \ {k} = M \ {k} /\ \A j \in L \ {k} : d.lnk_stat[j] = lnk[j]
  BY <1>1
<1>4. DOMAIN hrd = M /\ \A j \in M : hrd[j] = d.heard[j]
  OBVIOUS
<1>5. d.lnk_stat[k] = LinkStatus(d.height, d.heard[k])
  BY <1>1 DEF TableOK, Agree
<1> HIDE DEF e, lnk, hrd
<1>6. /\ Count(d.lnk_stat, "DN") \in Nat /\ Count(d.lnk_stat, "UP") \in Nat
      /\ (Count(d.lnk_stat, "UP") = 0 <=> \A j \in L : d.lnk_stat[j] # "UP")
  BY <1>1, CountType
<1>7. Count(lnk, "DN") = Count(d.lnk_stat, "DN") - One(d.lnk_stat[k] = "DN")
  <2>1. Count(lnk, "DN") = Count(d.lnk_stat, "DN") - One(k \in L /\ d.lnk_stat[k] = "DN")
                           + One(k \in M /\ lnk[k] = "DN")
    BY <1>1, <1>3, CountDiffers
  <2> QED BY <1>3, <1>6, <2>1 DEF One
<1>8. Ahead(e) = Ahead(d)
  BY <1>1, <1>2, <1>6, <1>7 DEF Ahead, One
<1>9. d.height = Null => d.lnk_stat[k] # "UP"
  BY <1>5 DEF LinkStatus
<1>10. d.num_up = 0 => d.lnk_stat[k] # "UP"
  BY <1>6, <1>9 DEF TableOK, Over
<1>11. NonNull(e) \subseteq NonNull(d)
  BY <1>1, <1>2, <1>4 DEF NonNull
<1>12. /\ d.height = Null => e.num_up = d.num_up
       /\ d.num_up = 0 => e.num_up = 0
       /\ d.lnk_stat[k] # "DN" => e.num_down = d.num_down
  BY <1>1, <1>2, <1>9, <1>10 DEF One
<1> QED BY <1>2, <1>8, <1>11, <1>12 DEF e

(* A new level: no request is pending any more, and no packet may wait     *)
(* unless there is a next hop.                                             *)
LEMMA NewLevelCounted ==
  ASSUME NEW L \in SUBSET Nodes, NEW t \in Nat, NEW d, TableOK(d, L, t), NEW i \in Int
  PROVE  LET e == NewLevel(i, d, t + 1) IN
         /\ Counted(e)
         /\ NonNull(d) # {} => HasNextHop(e)
<1> DEFINE e == NewLevel(i, d, t + 1)
<1>1. /\ TableOK(e, L, t + 1) /\ Exact(e) /\ e.heard = d.heard
      /\ NonNull(d) # {} => HasNextHop(e)
  BY NewLevelOK
<1> HIDE DEF e
<1>2. NonNull(e) = NonNull(d)
  BY <1>1 DEF NonNull
<1>3. Counted(e)
  BY <1>1, <1>2, CountedExact
<1> QED BY <1>1, <1>3 DEF e

(* A height taken above a neighbour's.                                     *)
LEMMA RaisedCounted ==
  ASSUME NEW L \in SUBSET Nodes, NEW t \in Nat, NEW d, TableOK(d, L, t),
         NEW k \in NonNull(d), NEW h \in Height, Lower(d.heard[k], h), h[1] <= t
  PROVE  LET e == Told(UpdateHeight(d, h)) IN
         TableOK(e, L, t) /\ Exact(e) /\ HasNextHop(e) /\ Counted(e)
<1> DEFINE f == UpdateHeight(d, h)
           e == Told(f)
<1>1. t <= t /\ f = UpdateHeight(d, h)
  OBVIOUS
<1> HIDE DEF f
<1>2. Raised(d, f, h, L, t)
  BY <1>1, HeightAbove
<1>3. TableOK(f, L, t) /\ Exact(f) /\ HasNextHop(f)
  BY <1>2 DEF Raised
<1>4. TableOK(e, L, t) /\ Exact(e) /\ HasNextHop(e)
  BY <1>3, ToldOK
<1> HIDE DEF e
<1>5. Counted(e)
  BY <1>4, CountedExact
<1> QED BY <1>4, <1>5 DEF e, f

(* The same counters, and the neighbours' heights: Told, Nulled, Erased.   *)
LEMMA CountedSame ==
  ASSUME NEW L, NEW d \in Tables(L), Counted(d)
  PROVE  /\ Counted(Told(d)) /\ (Owed(d) => Owed(Told(d)))
         /\ Told(d).rt_req = d.rt_req
         /\ \A b \in BOOLEAN : Counted([d EXCEPT !.rt_req = b])
BY DEF Counted, Owed, Told, NonNull, Tables

LEMMA CountedErased ==
  ASSUME NEW L, NEW d \in Tables(L)
  PROVE  /\ Counted(Erased(d)) /\ (d.rt_req => Owed(Erased(d)))
         /\ d.num_up = 0 => Counted(Nulled(d))
         /\ d.rt_req => Owed(Nulled(d))
<1>1. Erased(d).height = Null /\ Erased(d).num_up = 0 /\ Erased(d).rt_req = d.rt_req
  BY DEF Erased, Tables
<1>2. Nulled(d).height = Null /\ Nulled(d).num_up = d.num_up /\ Nulled(d).rt_req = d.rt_req
  BY DEF Nulled, Told, Tables
<1> QED BY <1>1, <1>2 DEF Counted, Owed

(* A step of router i.                                                     *)
LEMMA WaitStep ==
  ASSUME WaitOK, TablesOK, NEW i \in Routers, NEW e, dst' = [dst EXCEPT ![i] = e],
         known' = known \cup {i}, \A j \in waiting' : j = i \/ j \in waiting,
         Counted(e), i \in waiting' => Owed(e)
  PROVE  WaitOK'
<1>1. known \subseteq Routers /\ \A j \in Routers : dst'[j] = IF j = i THEN e ELSE dst[j]
  BY DEF TablesOK
<1>2. waiting' \subseteq known'
  BY DEF WaitOK
<1>3. \A j \in known' : Counted(dst'[j]) /\ (j \in waiting' => Owed(dst'[j]))
  BY <1>1, Zenon DEF WaitOK
<1> QED BY <1>2, <1>3 DEF WaitOK

(* The table a handler finds.                                              *)
LEMMA FoundCounted ==
  ASSUME WaitOK, TablesOK, NEW i \in Routers
  PROVE  Counted(Td(i)) /\ (i \in waiting => Owed(Td(i)))
<1>1. CASE i \in known
  BY <1>1 DEF WaitOK, Td
<1>2. CASE i \notin known
  <2>1. Td(i).height = Null /\ Td(i).num_up = 0
    BY <1>2 DEF Td, DstAdd
  <2> QED BY <1>2, <2>1 DEF WaitOK, Counted
<1> QED BY <1>1, <1>2

LEMMA ResolveWait ==
  ASSUME Inv, WaitOK, NEW i \in Routers, RtResolve(i)
  PROVE  WaitOK'
<1> DEFINE d == Td(i)
           e == [d EXCEPT !.rt_req = TRUE]
<1>1. TablesOK
  BY DEF Inv
<1>2. links[i] \in SUBSET Nodes /\ TableOK(d, links[i], clock) /\ Counted(d)
  BY <1>1, Found, FoundCounted
<1>3. /\ ~ HasNextHop(d) /\ dst' = [dst EXCEPT ![i] = e] /\ known' = known \cup {i}
      /\ waiting' = waiting \cup {i}
  BY DEF RtResolve
<1>4. /\ d \in Tables(links[i]) /\ DOMAIN d.lnk_stat = links[i] /\ IsFiniteSet(links[i])
      /\ d.lnk_stat \in [links[i] -> Statuses] /\ d.num_down \in Int
  BY <1>2, NodesFinite DEF TableOK, Tables
<1> HIDE DEF d
<1>5. /\ e.rt_req /\ e.height = d.height /\ e.num_up = d.num_up /\ e.num_down = d.num_down
      /\ e.lnk_stat = d.lnk_stat
  BY <1>4 DEF Tables
<1>6. Counted(e)
  BY <1>2, <1>4, CountedSame
<1> HIDE DEF e
<1>7. Owed(e)
  <2>1. Count(d.lnk_stat, "DN") = 0
    BY <1>3, <1>4, CountType DEF HasNextHop
  <2>2. ASSUME d.height # Null PROVE d.num_up = 0 \/ 0 < d.num_down
    BY <1>2, <1>4, <2>1, <2>2 DEF TableOK, Over, Counted
  <2> QED BY <1>5, <2>1, <2>2 DEF Owed
<1> QED BY <1>1, <1>3, <1>6, <1>7, WaitStep

LEMMA QueryWait ==
  ASSUME Inv, WaitOK, NEW i \in Routers, NEW k \in Routers, RecvQRY(i, k)
  PROVE  WaitOK'
<1> DEFINE d == Td(i)
           L == links[i]
<1>1. /\ TablesOK /\ L \in SUBSET Nodes /\ TableOK(d, L, clock) /\ clock \in Nat
      /\ d \in Tables(L) /\ Counted(d) /\ (i \in waiting => Owed(d))
  BY Found, FoundCounted DEF Inv, TablesOK, TableOK
<1>2. waiting' = waiting
  BY DEF RecvQRY
<1>3. ASSUME NEW e, NEW out, Handled(i, k, e, out), Counted(e), Owed(d) => Owed(e)
      PROVE  WaitOK'
  BY <1>1, <1>2, <1>3, WaitStep, Zenon DEF Handled
<1>4. CASE d.rt_req /\ Handled(i, k, d, <<>>)
  BY <1>1, <1>3, <1>4
<1>5. CASE /\ ~ d.rt_req /\ d.height[3] = 0
           /\ IF k \in d.recent
              THEN Handled(i, k, Told(d), <<UPD(d.height)>>)
              ELSE Handled(i, k, d, <<>>)
  <2>1. Counted(Told(d)) /\ (Owed(d) => Owed(Told(d)))
    BY <1>1, CountedSame
  <2>2. (\E out : Handled(i, k, Told(d), out)) \/ (\E out : Handled(i, k, d, out))
    BY <1>5
  <2> QED BY <1>1, <1>3, <2>1, <2>2
<1>6. CASE /\ ~ d.rt_req /\ d.height[3] # 0 /\ WithR(d, 0) # {}
           /\ LET h == MinHeight(d)
                  mine == WithDelta(h, h[4] + 1, i)
              IN  Handled(i, k, Told(UpdateHeight(d, mine)), <<UPD(mine)>>)
  <2> DEFINE h == MinHeight(d)
             mine == WithDelta(h, h[4] + 1, i)
             n == Least(d, WithR(d, 0))
             e == Told(UpdateHeight(d, mine))
  <2>1. n \in NonNull(d) /\ h = d.heard[n]
    <3>1. WithR(d, 0) \subseteq NonNull(d)
      BY DEF WithR
    <3> QED BY <1>1, <1>6, <3>1, Searched DEF MinHeight
  <2> HIDE DEF h, n
  <2>2. mine \in Height /\ Lower(h, mine) /\ mine[1] <= clock
    <3>1. h \in Height /\ h[1] <= clock
      BY <1>1, <2>1, HeardHeights
    <3> QED BY <3>1, OneAbove, Addresses
  <2> HIDE DEF mine
  <2>3. Counted(e)
    <3>1. L \in SUBSET Nodes /\ clock \in Nat /\ TableOK(d, L, clock) /\ Lower(d.heard[n], mine)
      BY <1>1, <2>1, <2>2
    <3> HIDE DEF d, L
    <3> QED BY <2>1, <2>2, <3>1, RaisedCounted
  <2>4. Handled(i, k, e, <<UPD(mine)>>) /\ ~ Owed(d)
    BY <1>6 DEF mine, h, Owed
  <2> HIDE DEF e
  <2> QED BY <1>3, <2>3, <2>4
<1>7. CASE /\ ~ d.rt_req /\ d.height[3] # 0 /\ WithR(d, 0) = {}
           /\ Handled(i, k, [d EXCEPT !.rt_req = TRUE],
                      IF Cardinality(DOMAIN d.heard) > 1 THEN <<QRY>> ELSE <<>>)
  <2>1. Counted([d EXCEPT !.rt_req = TRUE])
    BY <1>1, CountedSame
  <2>2. ~ Owed(d)
    BY <1>7 DEF Owed
  <2> QED BY <1>3, <1>7, <2>1, <2>2
<1> HIDE DEF d
<1> QED BY <1>4, <1>5, <1>6, <1>7 DEF RecvQRY, d

LEMMA UpdateWait ==
  ASSUME Inv, WaitOK, NEW i \in Routers, NEW k \in Routers, RecvUPD(i, k)
  PROVE  WaitOK'
<1> DEFINE d0 == Td(i)
           L == links[i]
           h == Head(chan[k][i]).height
           t == clock + 1
           d == UpdateHeightNb(d0, k, h)
           Requested == d.rt_req /\ h[3] = 0
           Cut == ~ Requested /\ d.num_down = 0
           Reply(e, s) == Handled(i, k, e, s) /\ Flushed(i, e)
           Defined(e) == Reply(e, <<UPD(e.height)>>)
           Reflected == <<MinHeight(d)[1], MinHeight(d)[2], 1, 0, i>>
           Lowered == WithDelta(MinOfMaxLevel(d), MinOfMaxLevel(d)[4] - 1, i)
<1>1. /\ TablesOK /\ L \in SUBSET Nodes /\ TableOK(d0, L, clock) /\ clock \in Nat
      /\ d0 \in Tables(L) /\ Counted(d0) /\ (i \in waiting => Owed(d0))
      /\ i \in Int /\ k # Dest
  BY Found, FoundCounted, Addresses DEF Inv, TablesOK, TableOK
<1>2. Valid(h, clock)
  <2>1. chan[k][i] # <<>> /\ Head(chan[k][i]).type = "UPD"
    BY Zenon DEF RecvUPD, Incoming
  <2> QED BY <2>1, NextMessage DEF Inv, Sound
<1>3. ASSUME NEW e, NEW s, Reply(e, s), Counted(e),
             i \in waiting /\ ~ HasNextHop(e) => Owed(e)
      PROVE  WaitOK'
  <2>1. /\ dst' = [dst EXCEPT ![i] = e] /\ known' = known \cup {i}
        /\ waiting' = IF HasNextHop(e) THEN waiting \ {i} ELSE waiting
    BY <1>3, Zenon DEF Handled, Flushed
  <2> HIDE DEF d0, L
  <2> QED BY <1>1, <1>3, <2>1, WaitStep
<1>4. CASE k \notin links[i] /\ Reply(d0, <<>>) /\ UNCHANGED clock
  BY <1>1, <1>3, <1>4
<1>5. ASSUME k \in links[i]
      PROVE  /\ TableOK(d, L, clock) /\ d \in Tables(L)
             /\ d.height = d0.height /\ d.rt_req = d0.rt_req
             /\ Ahead(d) = Ahead(d0)
             /\ d0.height = Null => d.num_up = d0.num_up
             /\ d0.num_up = 0 /\ d.num_up # 0 => k \in NonNull(d)
  <2>1. /\ L \in SUBSET Nodes /\ clock \in Nat /\ TableOK(d0, L, clock) /\ k \in L /\ k # Dest
        /\ Valid(h, clock) /\ d = UpdateHeightNb(d0, k, h)
    BY <1>1, <1>2, <1>5
  <2> HIDE DEF d, d0, L, h
  <2>2. TableOK(d, L, clock) /\ d.height = d0.height /\ d.rt_req = d0.rt_req
    BY <2>1, UpdateHeightNbOK
  <2> QED BY <2>1, <2>2, NotedCounts DEF TableOK
<1> HIDE DEF d
(* A height above a neighbour's gives a next hop.                          *)
<1>6. ASSUME k \in links[i], NEW n \in NonNull(d), NEW g \in Height, Lower(d.heard[n], g),
             g[1] <= clock
      PROVE  LET e == Told(UpdateHeight(d, g)) IN
             TableOK(e, L, clock) /\ HasNextHop(e) /\ Counted(e)
  <2>1. L \in SUBSET Nodes /\ clock \in Nat /\ TableOK(d, L, clock)
    BY <1>1, <1>5, <1>6
  <2> HIDE DEF L
  <2> QED BY <1>6, <2>1, RaisedCounted
<1>7. CASE /\ k \in links[i] /\ Requested
           /\ Defined([Told(UpdateHeight(d, WithDelta(h, h[4] + 1, i))) EXCEPT !.rt_req = FALSE])
           /\ UNCHANGED clock
  <2> DEFINE g == WithDelta(h, h[4] + 1, i)
             f == Told(UpdateHeight(d, g))
             e == [f EXCEPT !.rt_req = FALSE]
  <2>1. k \in links[i] /\ h[3] = 0
    BY <1>7
  <2>2. h # Null /\ h \in Height /\ h[1] <= clock
    BY <1>2, <2>1, SpecialHeights DEF Valid
  <2>3. g \in Height /\ Lower(h, g) /\ g[1] <= clock
    BY <1>1, <2>2, OneAbove
  <2>4. k \in NonNull(d) /\ d.heard[k] = h
    <3>1. d.heard = [d0.heard EXCEPT ![k] = h] /\ DOMAIN d0.heard = L
      BY <1>1 DEF d, UpdateHeightNb, Tables
    <3> QED BY <2>1, <2>2, <3>1 DEF NonNull
  <2> HIDE DEF g
  <2>5. TableOK(f, L, clock) /\ HasNextHop(f) /\ Counted(f)
    BY <1>6, <2>1, <2>3, <2>4
  <2>6. Defined(e)
    BY <1>7, Zenon DEF g
  <2> HIDE DEF f
  <2>7. HasNextHop(e) /\ Counted(e)
    BY <2>5, RequestOK, CountedSame DEF TableOK
  <2> HIDE DEF e
  <2> QED BY <1>3, <2>6, <2>7
<1>8. CASE k \in links[i] /\ ~ Requested /\ ~ Cut /\ Reply(d, <<>>) /\ UNCHANGED clock
  <2>1. d.num_down # 0 /\ TableOK(d, L, clock)
    BY <1>5, <1>8
  <2>2. Counted(d)
    BY <1>1, <1>5, <1>8, <2>1 DEF Counted
  <2>3. i \in waiting /\ ~ HasNextHop(d) => Owed(d)
    BY <1>1, <1>5, <1>8, <2>1, OwedBlurred DEF Owed
  <2> QED BY <1>3, <1>8, <2>2, <2>3
<1>9. CASE /\ k \in links[i] /\ Cut /\ d.num_up = 0
           /\ IF ErasedBefore(d) THEN Reply(d, <<>>) ELSE Defined(Nulled(d))
           /\ UNCHANGED clock
  <2>1. i \in waiting => d.rt_req
    BY <1>1, <1>5, <1>9 DEF Owed
  <2>2. CASE ErasedBefore(d)
    <3>1. Counted(d) /\ (i \in waiting => Owed(d))
      BY <1>9, <2>1, <2>2 DEF ErasedBefore, Counted, Owed
    <3> QED BY <1>3, <1>9, <2>2, <3>1
  <2>3. CASE ~ ErasedBefore(d)
    <3>1. Counted(Nulled(d)) /\ (i \in waiting => Owed(Nulled(d)))
      BY <1>5, <1>9, <2>1, CountedErased
    <3> QED BY <1>3, <1>9, <2>3, <3>1
  <2> QED BY <2>2, <2>3
<1>10. CASE /\ k \in links[i] /\ Cut /\ d.num_up # 0 /\ SameRef(d) /\ WithR(d, 0) # {}
            /\ Defined(Told(UpdateHeight(d, Reflected)))
            /\ UNCHANGED clock
  <2> DEFINE n == Least(d, WithR(d, 0))
  <2>1. n \in NonNull(d) /\ d.heard[n][3] = 0 /\ MinHeight(d) = d.heard[n]
    <3>1. WithR(d, 0) \subseteq NonNull(d) /\ WithR(d, 0) # {}
      BY <1>10 DEF WithR
    <3>2. n \in WithR(d, 0)
      BY <1>1, <1>5, <1>10, <3>1, Searched
    <3> QED BY <3>1, <3>2 DEF WithR, MinHeight
  <2>2. d.heard[n] \in Height /\ d.heard[n][1] <= clock
    BY <1>1, <1>5, <1>10, <2>1, HeardHeights
  <2> HIDE DEF n
  <2>3. Reflected \in Height /\ Lower(d.heard[n], Reflected) /\ Reflected[1] <= clock
    BY <1>1, <2>1, <2>2, ReflectedAbove
  <2> HIDE DEF Reflected
  <2> QED BY <1>3, <1>6, <1>10, <2>1, <2>3
<1>11. CASE /\ k \in links[i] /\ Cut /\ d.num_up # 0 /\ SameRef(d) /\ WithR(d, 0) = {}
            /\ d.height[2] = i
            /\ Reply(Erased(d), <<CLR(d.height[1], i)>>)
            /\ UNCHANGED clock
  <2>1. i \in waiting => d.rt_req
    BY <1>1, <1>5, <1>11 DEF Owed
  <2>2. Counted(Erased(d)) /\ (i \in waiting => Owed(Erased(d)))
    BY <1>5, <1>11, <2>1, CountedErased
  <2> QED BY <1>3, <1>11, <2>2
(* A new level is due only where no packet waits, or a next hop is found.  *)
<1>12. CASE /\ k \in links[i] /\ Cut /\ d.num_up # 0 /\ SameRef(d) /\ WithR(d, 0) = {}
            /\ d.height[2] # i
            /\ Defined(NewLevel(i, d, t))
            /\ clock' = t
  <2> DEFINE e == NewLevel(i, d, t)
  <2>1. k \in links[i] /\ d.num_up # 0 /\ d.num_down = 0 /\ Defined(e)
    BY <1>12
  <2>2. Counted(e) /\ (NonNull(d) # {} => HasNextHop(e))
    <3>1. TableOK(d, L, clock) /\ e = NewLevel(i, d, clock + 1)
      BY <1>5, <2>1
    <3> HIDE DEF e, L
    <3> QED BY <1>1, <3>1, NewLevelCounted
  <2> HIDE DEF e
  <2>3. ASSUME i \in waiting PROVE NonNull(d) # {}
    <3>1. Owed(d0) /\ d0.height # Null
      BY <1>1, <1>5, <2>1, <2>3 DEF Counted
    <3>2. CASE d0.num_up = 0
      BY <1>5, <2>1, <3>2
    <3>3. CASE Count(d0.lnk_stat, "DN") < d0.num_down
      <4>1. /\ d0.lnk_stat \in [L -> Statuses] /\ d.lnk_stat \in [L -> Statuses] /\ IsFiniteSet(L)
            /\ d0.num_down \in Int
        BY <1>1, <1>5, <2>1, NodesFinite DEF Tables
      <4>2. Count(d.lnk_stat, "DN") \in Nat /\ Count(d0.lnk_stat, "DN") \in Nat
        BY <4>1, CountType
      <4> QED BY <1>5, <2>1, <3>3, <4>1, <4>2 DEF Ahead
    <3> QED BY <3>1, <3>2, <3>3 DEF Owed
  <2> QED BY <1>3, <2>1, <2>2, <2>3
<1>13. CASE /\ k \in links[i] /\ Cut /\ d.num_up # 0 /\ ~ SameRef(d)
            /\ Defined(Told(UpdateHeight(d, Lowered)))
            /\ UNCHANGED clock
  <2>1. PICK n \in NonNull(d) :
          Lowered \in Height /\ Lower(d.heard[n], Lowered) /\ Lowered[1] <= clock
    BY <1>1, <1>5, <1>13, LoweredAbove
  <2> HIDE DEF Lowered
  <2> QED BY <1>3, <1>6, <1>13, <2>1
<1> QED
  <2> HIDE DEF d0
  <2> QED BY <1>4, <1>7, <1>8, <1>9, <1>10, <1>11, <1>12, <1>13, Zenon DEF RecvUPD, d, d0

(* A CLR.  Its new level (683) is never taken: a router that counts no     *)
(* link down counts none up.                                               *)
LEMMA ClearWait ==
  ASSUME Inv, WaitOK, NEW i \in Routers, NEW k \in Routers, RecvCLR(i, k)
  PROVE  WaitOK'
<1> DEFINE d == Td(i)
           L == links[i]
           m == Head(chan[k][i])
           t == clock + 1
           f == Forgotten(d, k, m)
           Mine == OfLevel(d.height, m.tau, m.oid)
           Alone == Cardinality(DOMAIN d.heard) <= 1
           Reply(e, s) == Handled(i, k, e, s) /\ Flushed(i, e)
<1>1. /\ TablesOK /\ L \in SUBSET Nodes /\ TableOK(d, L, clock) /\ clock \in Nat
      /\ d \in Tables(L) /\ Counted(d) /\ (i \in waiting => Owed(d)) /\ k # Dest
  BY Found, FoundCounted, Addresses DEF Inv, TablesOK, TableOK
<1>2. ASSUME NEW e, NEW s, Reply(e, s), Counted(e),
             i \in waiting /\ ~ HasNextHop(e) => Owed(e)
      PROVE  WaitOK'
  <2>1. /\ dst' = [dst EXCEPT ![i] = e] /\ known' = known \cup {i}
        /\ waiting' = IF HasNextHop(e) THEN waiting \ {i} ELSE waiting
    BY <1>2, Zenon DEF Handled, Flushed
  <2> HIDE DEF d, L
  <2> QED BY <1>1, <1>2, <2>1, WaitStep
<1>3. i \in waiting => d.rt_req
  BY <1>1 DEF Owed
<1>4. CASE Mine /\ Reply(Erased(d), IF Alone THEN <<>> ELSE <<m>>)
  <2>1. Counted(Erased(d)) /\ (i \in waiting => Owed(Erased(d)))
    BY <1>1, <1>3, CountedErased
  <2> QED BY <1>2, <1>4, <2>1
<1>5. CASE ~ Mine /\ k \notin links[i] /\ Reply(d, <<>>)
  BY <1>1, <1>2, <1>5
<1>6. ASSUME k \in links[i]
      PROVE  /\ TableOK(f, L, clock) /\ f \in Tables(L) /\ f.height = d.height
             /\ f.rt_req = d.rt_req /\ f.num_up = d.num_up /\ f.num_down = d.num_down
  <2>1. TableOK(d, L, clock) /\ L \in SUBSET Nodes /\ clock \in Nat /\ k \in L /\ k # Dest
    BY <1>1, <1>6
  <2> HIDE DEF L, d
  <2> QED BY <2>1, ForgottenOK DEF TableOK
<1> HIDE DEF f
<1>7. CASE ~ Mine /\ k \in links[i] /\ d.num_down # 0 /\ Reply(f, <<>>)
  <2>1. Counted(f)
    BY <1>1, <1>6, <1>7 DEF Counted
  <2>2. i \in waiting /\ ~ HasNextHop(f) => Owed(f)
    BY <1>1, <1>3, <1>6, <1>7, OwedBlurred
  <2> QED BY <1>2, <1>7, <2>1, <2>2
<1>8. CASE /\ ~ Mine /\ k \in links[i] /\ d.num_down = 0 /\ d.num_up # 0
  BY <1>1, <1>8 DEF Counted
<1>9. CASE /\ ~ Mine /\ k \in links[i] /\ d.num_down = 0 /\ d.num_up = 0
           /\ IF ErasedBefore(d) THEN Reply(f, <<>>) ELSE Reply(Nulled(f), <<UPD(Null)>>)
  <2>1. CASE ErasedBefore(d)
    <3>1. Counted(f) /\ (i \in waiting => Owed(f))
      BY <1>3, <1>6, <1>9, <2>1 DEF ErasedBefore, Counted, Owed
    <3> QED BY <1>2, <1>9, <2>1, <3>1
  <2>2. CASE ~ ErasedBefore(d)
    <3>1. Counted(Nulled(f)) /\ (i \in waiting => Owed(Nulled(f)))
      BY <1>3, <1>6, <1>9, CountedErased
    <3> QED BY <1>2, <1>9, <2>2, <3>1
  <2> QED BY <2>1, <2>2
<1> QED
  <2> HIDE DEF d
  <2> QED BY <1>4, <1>5, <1>7, <1>8, <1>9 DEF RecvCLR, d, f

LEMMA LinkUpWait ==
  ASSUME Inv, WaitOK, NEW i \in Routers, NEW k \in Nodes, RtNotifyLinkUP(i, k)
  PROVE  WaitOK'
<1>1. /\ dst' = IF i \in known THEN [dst EXCEPT ![i] = Added(@, k)] ELSE dst
      /\ known' = known /\ waiting' = waiting /\ k \notin links[i] /\ TablesOK
  BY DEF RtNotifyLinkUP, Inv
<1>2. CASE i \in known
  <2> DEFINE d == dst[i]
             L == links[i]
             e == Added(d, k)
  <2>1. /\ L \in SUBSET Nodes /\ clock \in Nat /\ TableOK(d, L, clock) /\ k \in Nodes \ L
        /\ Counted(d) /\ (i \in waiting => Owed(d))
    BY <1>1, <1>2 DEF TablesOK, WaitOK
  <2>2. dst' = [dst EXCEPT ![i] = e] /\ known' = known \cup {i}
    BY <1>1, <1>2
  <2> HIDE DEF d, L
  <2>3. Counted(e) /\ (Owed(d) => Owed(e))
    BY <2>1, AddedCounts
  <2> HIDE DEF e
  <2> QED BY <1>1, <2>1, <2>2, <2>3, WaitStep
<1>3. CASE i \notin known
  BY <1>1, <1>3 DEF WaitOK
<1> QED BY <1>2, <1>3

(* Nor is one due when a link goes down on which packets waited.           *)
LEMMA LinkDownWait ==
  ASSUME Inv, WaitOK, NEW i \in Routers, NEW k \in Nodes, RtNotifyLinkDN(i, k)
  PROVE  WaitOK'
<1> DEFINE d0 == dst[i]
           d == Removed(d0, k)
           t == clock + 1
           L == links[i]
           M == L \ {k}
           Lost == i \in known /\ d0.lnk_stat[k] = "DN" /\ d.num_down = 0
           Made0(e) == dst' = [dst EXCEPT ![i] = e]
<1>1. known' = known /\ waiting' = waiting /\ k \in links[i] /\ TablesOK
  BY DEF RtNotifyLinkDN, Inv
<1>2. CASE i \notin known
  <2>1. dst' = dst
    BY <1>2 DEF RtNotifyLinkDN
  <2> QED BY <1>1, <2>1 DEF WaitOK
<1>3. ASSUME i \in known
      PROVE  /\ L \in SUBSET Nodes /\ clock \in Nat /\ TableOK(d0, L, clock) /\ k \in L
             /\ Counted(d0) /\ (i \in waiting => Owed(d0)) /\ i \in Int /\ M \in SUBSET Nodes
             /\ TableOK(d, M, clock) /\ d \in Tables(M)
  <2>1. /\ L \in SUBSET Nodes /\ clock \in Nat /\ TableOK(d0, L, clock) /\ k \in L
        /\ Counted(d0) /\ (i \in waiting => Owed(d0)) /\ i \in Int /\ M \in SUBSET Nodes
    BY <1>1, <1>3, Addresses DEF TablesOK, WaitOK
  <2> HIDE DEF L, d0
  <2>2. TableOK(d, M, clock)
    BY <2>1, RemovedOK DEF Shrunk
  <2> QED BY <2>1, <2>2 DEF TableOK
<1>4. ASSUME i \in known
      PROVE  /\ d.height = d0.height /\ d.rt_req = d0.rt_req /\ Ahead(d) = Ahead(d0)
             /\ d0.height = Null => d.num_up = d0.num_up
             /\ d0.num_up = 0 => d.num_up = 0
             /\ d0.lnk_stat[k] # "DN" => d.num_down = d0.num_down
             /\ NonNull(d) \subseteq NonNull(d0)
  <2>1. L \in SUBSET Nodes /\ clock \in Nat /\ TableOK(d0, L, clock) /\ k \in L
    BY <1>3, <1>4
  <2> HIDE DEF L, d0
  <2> QED BY <2>1, RemovedCounts
<1>5. ASSUME i \in known
      PROVE  /\ d0.num_down \in Int /\ d.num_down \in Int
             /\ Count(d0.lnk_stat, "DN") \in Nat /\ Count(d.lnk_stat, "DN") \in Nat
  <2>1. /\ d0.lnk_stat \in [L -> Statuses] /\ d.lnk_stat \in [M -> Statuses]
        /\ IsFiniteSet(L) /\ IsFiniteSet(M) /\ d0.num_down \in Int /\ d.num_down \in Int
    <3> HIDE DEF d, d0, L, M
    <3> QED BY <1>3, <1>5, NodesFinite DEF TableOK, Tables
  <2> QED BY <2>1, CountType
<1>6. ASSUME i \in known, NEW e, Made0(e), Counted(e), i \in waiting => Owed(e)
      PROVE  WaitOK'
  <2>1. known' = known \cup {i}
    BY <1>1, <1>6
  <2> QED BY <1>1, <1>6, <2>1, WaitStep
<1> HIDE DEF d, d0, L, M
<1>7. CASE i \in known /\ ~ Lost /\ Made0(d)
  <2>1. i \in waiting => Owed(d)
    BY <1>3, <1>4, <1>5, <1>7 DEF Owed, Ahead
  <2>2. Counted(d)
    BY <1>3, <1>4, <1>7 DEF Counted
  <2> QED BY <1>6, <1>7, <2>1, <2>2
<1>8. CASE /\ Lost /\ d.num_up = 0
           /\ IF ErasedBefore(d) THEN Made0(d) ELSE Made0(Nulled(d))
  <2>1. i \in waiting => d.rt_req
    BY <1>3, <1>4, <1>8 DEF Owed
  <2>2. CASE ErasedBefore(d)
    <3>1. Counted(d) /\ (i \in waiting => Owed(d))
      BY <1>8, <2>1, <2>2 DEF ErasedBefore, Counted, Owed
    <3> QED BY <1>6, <1>8, <2>2, <3>1
  <2>3. CASE ~ ErasedBefore(d)
    <3>1. Counted(Nulled(d)) /\ (i \in waiting => Owed(Nulled(d)))
      BY <1>3, <1>8, <2>1, CountedErased
    <3> QED BY <1>6, <1>8, <2>3, <3>1
  <2> QED BY <2>2, <2>3
<1>9. CASE Lost /\ d.num_up # 0 /\ Made0(NewLevel(i, d, t))
  <2>1. Counted(NewLevel(i, d, t))
    BY <1>3, <1>9, NewLevelCounted
  <2>2. ASSUME i \in waiting PROVE FALSE
    <3>1. Owed(d0) /\ d0.height # Null /\ d0.num_up # 0
      BY <1>3, <1>4, <1>9, <2>2 DEF Counted
    <3>2. Count(d0.lnk_stat, "DN") < d0.num_down
      BY <3>1 DEF Owed
    <3> QED BY <1>4, <1>5, <1>9, <3>2 DEF Ahead
  <2> QED BY <1>6, <1>9, <2>1, <2>2
<1> QED
  BY <1>2, <1>7, <1>8, <1>9 DEF RtNotifyLinkDN, d, d0

LEMMA WaitInit == Init => WaitOK
BY DEF Init, WaitOK

LEMMA WaitNext == Inv /\ WaitOK /\ [Next]_vars => WaitOK'
<1> SUFFICES ASSUME Inv, WaitOK, [Next]_vars PROVE WaitOK'
  OBVIOUS
<1>1. ASSUME NEW i \in Routers, NEW k \in Routers, Receive(i, k) PROVE WaitOK'
  BY <1>1, QueryWait, UpdateWait, ClearWait DEF Receive
<1>2. ASSUME NEW i \in Routers, NEW k \in Nodes, Notice(i, k) PROVE WaitOK'
  BY <1>2, LinkUpWait, LinkDownWait DEF Notice
<1>3. ASSUME UNCHANGED <<known, dst, waiting>> PROVE WaitOK'
  BY <1>3 DEF WaitOK
<1> QED BY <1>1, <1>2, <1>3, ResolveWait DEF Next, Handle, Break, Appear, vars

(* Packets wait only while a route is asked for (rt_resolve 248-253): no   *)
(* handler takes the request back and leaves them (512, 548, 683).         *)
THEOREM PacketsAskForRoute == Spec => []WaitForRoute
<1>1. WaitOK => WaitForRoute
  BY DEF WaitOK, Owed, WaitForRoute
<1>2. Spec => []WaitOK
  BY Invariance, WaitInit, WaitNext, PTL DEF Spec
<1> QED BY <1>1, <1>2, PTL

(* No CLR makes a router define a new reference level: the branch for it   *)
(* (683-692) is dead, since the counters a CLR leaves behind are never     *)
(* such that a link is counted up and none down when the next CLR comes.   *)
THEOREM ClearsTakeNoLevel ==
  Spec => [][\A i, k \in Routers : RecvCLR(i, k) => clock' = clock]_vars
<1>1. ASSUME Inv, WaitOK, NEW i \in Routers, NEW k \in Routers, RecvCLR(i, k)
      PROVE  clock' = clock
  <2>1. Counted(Td(i)) /\ TableOK(Td(i), links[i], clock)
    BY <1>1, Found, FoundCounted DEF Inv
  <2>2. Td(i).num_up # 0 => Td(i).num_down # 0
    BY <2>1 DEF Counted
  <2> QED BY <1>1, <2>2, Zenon DEF RecvCLR
<1>2. Inv /\ WaitOK => \A i, k \in Routers : RecvCLR(i, k) => clock' = clock
  BY <1>1
<1>3. Spec => []WaitOK
  BY Invariance, WaitInit, WaitNext, PTL DEF Spec
<1> QED BY <1>2, <1>3, Invariance, PTL DEF Spec

================================================================================
