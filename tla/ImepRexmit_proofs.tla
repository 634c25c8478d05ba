------------------------- MODULE ImepRexmit_proofs -------------------------
(***************************************************************************)
(* Proofs about ImepRexmit for every set of neighbours and all values of   *)
(* the other constants.                                                    *)
(***************************************************************************)
EXTENDS ImepRexmit, InductionLemmas

K == Cardinality(Peers)

LEMMA KType == K \in Nat
BY ConstantsAssumption, FS_CardinalityType DEF K

-----------------------------------------------------------------------------
(* What is true of a queued packet whose responders are among up: its list *)
(* is sound, and the ticks it has waited follow from its retransmissions.  *)
Lifetime(p) == p.age = (MAX_REXMITS - p.left) * RETRANS_PERIOD
                         + (RETRANS_PERIOD - p.at)

QueuedOK(p, up) ==
  /\ p \in Packet
  /\ p.num > 0
  /\ \A i, j \in 1 .. p.num : p.resp[i] = p.resp[j] => i = j
  /\ Listed(p) \subseteq up
  /\ Lifetime(p)

Memory == [q : SUBSET Seqs, p : [Seqs -> Packet]]

MemOK(m, up) == m \in Memory /\ \A s \in m.q : QueuedOK(m.p[s], up)

LEMMA FreedType == Freed \in Packet /\ Freed.num = 0
BY KType, ConstantsAssumption DEF Freed, Packet, Addr, Slots, K

(* What one removal leaves of a packet: nothing, or a sound list that no   *)
(* longer names n and names nobody new.                                    *)
LEMMA WithoutOK ==
  ASSUME NEW up, NEW n, NEW p, QueuedOK(p, up)
  PROVE  /\ Without(p, n) \in Packet
         /\ Without(p, n).num > 0 => /\ QueuedOK(Without(p, n), up \ {n})
                                     /\ Without(p, n).at = p.at
         /\ Listed(Without(p, n)) \subseteq Listed(p)
<1> DEFINE i == SlotOf(p, n)
           r == Without(p, n)
<1>1. p \in Packet /\ p.num \in 1 .. K /\ K \in Nat
  BY KType DEF QueuedOK, Packet, K
<1>2. i \in 1 .. K + 1
  BY <1>1 DEF SlotOf, Listed
<1>3. n \in Listed(p) => i \in 1 .. p.num /\ p.resp[i] = n
  BY DEF SlotOf, Listed
<1>4. n \notin Listed(p) => i = p.num + 1
  BY DEF SlotOf
<1> HIDE DEF i
<1>5. CASE p.resp[i] # n
  <2>1. r = p
    BY <1>5 DEF Without, i
  <2>2. n \notin Listed(p)
    BY <1>3, <1>5
  <2> QED BY <1>1, <2>1, <2>2 DEF QueuedOK, Lifetime
<1>6. CASE p.resp[i] = n /\ p.num = 1
  <2>1. r = Freed
    BY <1>6 DEF Without, i
  <2>2. Listed(Freed) = {}
    BY DEF Freed, Listed
  <2> QED BY <2>1, <2>2, FreedType
<1>7. CASE p.resp[i] = n /\ p.num # 1
  <2>1. r = [p EXCEPT !.resp[i] = p.resp[p.num], !.num = p.num - 1]
    BY <1>7 DEF Without, i
  <2>2. /\ r.num = p.num - 1 /\ r.left = p.left /\ r.at = p.at /\ r.age = p.age
        /\ r.resp = [p.resp EXCEPT ![i] = p.resp[p.num]]
    BY <1>1, <2>1 DEF Packet
  <2>3. r \in Packet
    <3>1. r.num \in 0 .. K
      BY <1>1, <2>2
    <3>2. r.resp \in [Slots -> Addr]
      BY <1>1, <1>2, <2>2 DEF Packet, Slots, K
    <3>3. r = [p EXCEPT !.resp = r.resp, !.num = r.num]
      BY <1>1, <2>1, <2>2 DEF Packet
    <3> HIDE DEF r
    <3> QED BY <1>1, <3>1, <3>2, <3>3 DEF Packet, K
  <2>4. p.resp \in [Slots -> Addr] /\ Slots = 1 .. K + 1
    BY <1>1 DEF Packet, Slots, K
  <2>5. \A j \in 1 .. p.num - 1 : r.resp[j] = IF j = i THEN p.resp[p.num] ELSE p.resp[j]
    BY <1>1, <1>2, <2>2, <2>4
  <2>6. Listed(r) \subseteq Listed(p) \ {n}
    <3>1. ASSUME NEW j \in 1 .. p.num - 1 PROVE r.resp[j] \in Listed(p) \ {n}
      <4>1. CASE j = i
        BY <1>1, <1>3, <1>4, <1>7, <2>5, <4>1 DEF Listed, QueuedOK
      <4>2. CASE j # i
        BY <1>1, <1>3, <1>4, <1>7, <2>5, <4>2 DEF Listed, QueuedOK
      <4> QED BY <4>1, <4>2
    <3> QED BY <2>2, <3>1 DEF Listed
  <2>7. ASSUME NEW j \in 1 .. r.num, NEW k \in 1 .. r.num, r.resp[j] = r.resp[k]
        PROVE  j = k
    BY <1>1, <2>2, <2>5, <2>7 DEF QueuedOK
  <2> QED BY <1>1, <1>7, <2>2, <2>3, <2>6, <2>7 DEF QueuedOK, Lifetime
<1> QED BY <1>5, <1>6, <1>7

(* b can come of a by removals: nothing is queued anew, no list grows.     *)
Shrunk(a, b) ==
  /\ b.q \subseteq a.q
  /\ \A s \in b.q : Listed(b.p[s]) \subseteq Listed(a.p[s]) /\ b.p[s].at = a.p[s].at

LEMMA RemoveOK ==
  ASSUME NEW up, NEW m, MemOK(m, up), NEW s \in m.q, NEW n
  PROVE  MemOK(RemoveResponse(m, s, n), up) /\ Shrunk(m, RemoveResponse(m, s, n))
<1> DEFINE w == Without(m.p[s], n)
           p == [m.p EXCEPT ![s] = w]
           r == RemoveResponse(m, s, n)
<1>1. m.q \subseteq Seqs /\ m.p \in [Seqs -> Packet] /\ QueuedOK(m.p[s], up)
  BY DEF MemOK, Memory
<1>2. /\ w \in Packet
      /\ w.num > 0 => QueuedOK(w, up \ {n}) /\ w.at = m.p[s].at
      /\ Listed(w) \subseteq Listed(m.p[s])
  BY <1>1, WithoutOK
<1>3. r = [q |-> IF p[s].num = 0 THEN m.q \ {s} ELSE m.q, p |-> p] /\ p[s] = w
  BY <1>1 DEF RemoveResponse
<1>4. p \in [Seqs -> Packet] /\ \A t \in Seqs : t # s => p[t] = m.p[t]
  BY <1>1, <1>2
<1>5. w.num = 0 \/ w.num > 0
  BY <1>2, KType DEF Packet, K
<1> HIDE DEF w, p, r
<1>6. r \in Memory
  BY <1>1, <1>3, <1>4 DEF Memory
<1>7. ASSUME NEW t \in r.q
      PROVE  /\ QueuedOK(r.p[t], up) /\ t \in m.q
             /\ Listed(r.p[t]) \subseteq Listed(m.p[t]) /\ r.p[t].at = m.p[t].at
  <2>1. t \in m.q /\ t \in Seqs
    BY <1>1, <1>3
  <2>2. CASE t = s
    <3>1. w.num > 0
      BY <1>3, <1>5, <2>2
    <3>2. QueuedOK(w, up) /\ w.at = m.p[s].at
      BY <1>2, <3>1 DEF QueuedOK
    <3> QED BY <1>2, <1>3, <2>1, <2>2, <3>2
  <2>3. CASE t # s
    BY <1>3, <1>4, <2>1, <2>3 DEF MemOK
  <2> QED BY <2>1, <2>2, <2>3
<1> QED BY <1>6, <1>7 DEF MemOK, Shrunk, r

LEMMA PurgeOK ==
  ASSUME NEW up, NEW m, MemOK(m, up), NEW n
  PROVE  MemOK(PurgeReXmitQ(m, n), up \ {n}) /\ Shrunk(m, PurgeReXmitQ(m, n))
<1> DEFINE r == PurgeReXmitQ(m, n)
<1>1. m.q \subseteq Seqs /\ m.p \in [Seqs -> Packet]
  BY DEF MemOK, Memory
<1>2. ASSUME NEW s \in m.q
      PROVE  /\ Without(m.p[s], n) \in Packet
             /\ Without(m.p[s], n).num > 0 => /\ QueuedOK(Without(m.p[s], n), up \ {n})
                                              /\ Without(m.p[s], n).at = m.p[s].at
             /\ Listed(Without(m.p[s], n)) \subseteq Listed(m.p[s])
  BY WithoutOK DEF MemOK
<1>3. /\ r.p = [s \in Seqs |-> IF s \in m.q THEN Without(m.p[s], n) ELSE m.p[s]]
      /\ r.q = {s \in m.q : r.p[s].num > 0}
      /\ r = [q |-> r.q, p |-> r.p]
  BY DEF PurgeReXmitQ
<1> HIDE DEF r
<1>4. \A s \in m.q : r.p[s] = Without(m.p[s], n)
  BY <1>1, <1>3
<1>5. r \in Memory
  <2>1. r.p \in [Seqs -> Packet]
    BY <1>1, <1>2, <1>3
  <2>2. r.q \subseteq Seqs
    BY <1>1, <1>3
  <2> QED BY <1>3, <2>1, <2>2 DEF Memory
<1> QED BY <1>2, <1>3, <1>4, <1>5 DEF MemOK, Shrunk, r

(* The loop of the timeout, turn by turn: what it has left of the memory,  *)
(* and the neighbours it has downed.                                       *)
PuntTurn(b, s, i) ==
  IF i > b.mem.p[s].num THEN b
  ELSE [mem  |-> PurgeReXmitQ(b.mem, b.mem.p[s].resp[i]),
        down |-> b.down \cup {b.mem.p[s].resp[i]}]

Turns(g, m, s) ==
  /\ g[0] = [mem |-> m, down |-> {}]
  /\ \A i \in 1 .. K : g[i] = PuntTurn(g[i - 1], s, i)
  /\ PuntResponders(m, s) = g[K]

(* Whatever the loop visits, it leaves sound lists that no longer name a   *)
(* neighbour it downed.                                                    *)
TurnOK(b, m, up) ==
  /\ b \in [mem : Memory, down : SUBSET Addr]
  /\ MemOK(b.mem, up \ b.down) /\ Shrunk(m, b.mem)

LEMMA PuntRuns ==
  ASSUME NEW up, NEW m, MemOK(m, up), NEW s \in Seqs
  PROVE  \E g : Turns(g, m, s) /\ \A i \in 0 .. K : TurnOK(g[i], m, up)
<1> DEFINE V == {v \in [mem : Memory, down : SUBSET Addr] : TurnOK(v, m, up)}
           v0 == [mem |-> m, down |-> {}]
           Good(g) == g = [i \in 0 .. K |-> IF i = 0 THEN v0 ELSE PuntTurn(g[i - 1], s, i)]
<1>1. v0 \in V
  BY DEF MemOK, Shrunk, TurnOK
<1>2. ASSUME NEW b \in V, NEW i \in Nat, i > 0 PROVE PuntTurn(b, s, i) \in V
  <2> DEFINE n == b.mem.p[s].resp[i]
             c == PurgeReXmitQ(b.mem, n)
  <2>0. b \in [mem : Memory, down : SUBSET Addr] /\ MemOK(b.mem, up \ b.down) /\ Shrunk(m, b.mem)
    BY DEF TurnOK
  <2>1. CASE i > b.mem.p[s].num
    BY <2>1 DEF PuntTurn
  <2>2. CASE ~(i > b.mem.p[s].num)
    <3>1. b.mem.p[s] \in Packet
      BY <2>0 DEF Memory
    <3>2. i \in Slots
      BY <1>2, <2>2, <3>1, KType DEF Packet, Slots, K
    <3>3. n \in Addr
      BY <3>1, <3>2 DEF Packet
    <3>4. MemOK(c, (up \ b.down) \ {n}) /\ Shrunk(b.mem, c)
      BY <2>0, PurgeOK
    <3>5. (up \ b.down) \ {n} = up \ (b.down \cup {n})
      BY Zenon
    <3>6. Shrunk(m, c)
      BY <2>0, <3>4, Zenon DEF Shrunk
    <3>7. PuntTurn(b, s, i) = [mem |-> c, down |-> b.down \cup {n}]
      BY <2>2 DEF PuntTurn
    <3> HIDE DEF c, n
    <3>8. c \in Memory
      BY <3>4 DEF MemOK
    <3>9. [mem |-> c, down |-> b.down \cup {n}] \in V
      BY <2>0, <3>3, <3>4, <3>5, <3>6, <3>8 DEF TurnOK
    <3> QED BY <3>7, <3>9
  <2> QED BY <2>1, <2>2
<1> HIDE DEF V, v0
<1>3. \E g : Good(g)
  <2> DEFINE F == [x \in V \X Nat |-> IF x[2] > 0 THEN PuntTurn(x[1], s, x[2]) ELSE x[1]]
  <2>1. F \in [V \X Nat -> V]
    BY <1>2
  <2>2. \A b \in V, i \in Nat : i > 0 => F[<<b, i>>] = PuntTurn(b, s, i)
    OBVIOUS
  <2> HIDE DEF F
  <2>3. PICK g \in [0 .. K -> V] : Iterates(g, v0, F, K)
    BY <1>1, <2>1, KType, IterationExists
  <2>4. ASSUME NEW i \in 1 .. K PROVE g[i] = PuntTurn(g[i - 1], s, i)
    <3>1. i \in Nat /\ i > 0 /\ i - 1 \in 0 .. K
      BY KType
    <3>2. g[i - 1] \in V
      BY <2>3, <3>1
    <3> QED BY <2>2, <2>3, <3>1, <3>2 DEF Iterates
  <2>5. g = [i \in 0 .. K |-> IF i = 0 THEN v0 ELSE PuntTurn(g[i - 1], s, i)]
    BY <2>3, <2>4, KType DEF Iterates
  <2> QED BY <2>5
<1> DEFINE after == CHOOSE g : Good(g)
<1>4. Good(after)
  BY <1>3
<1>5. PuntResponders(m, s) = after[K]
  BY DEF PuntResponders, K, v0, PuntTurn
<1> HIDE DEF after
<1>6. \A i \in Nat : i <= K => after[i] \in V
  <2> DEFINE S == {i \in Nat : i <= K => after[i] \in V}
  <2>1. 0 \in S
    BY <1>1, <1>4, KType
  <2>2. ASSUME NEW i \in Nat, i \in S PROVE i + 1 \in S
    <3>1. CASE i + 1 <= K
      <4>1. after[i + 1] = PuntTurn(after[i], s, i + 1)
        BY <1>4, <3>1, KType
      <4>2. after[i] \in V
        BY <2>2, <3>1, KType
      <4> QED BY <1>2, <4>1, <4>2
    <3>2. CASE ~(i + 1 <= K)
      BY <3>2
    <3> QED BY <3>1, <3>2
  <2> HIDE DEF S
  <2>3. Nat \subseteq S
    BY <2>1, <2>2, SetInduction
  <2> QED BY <2>3, KType DEF S
<1>7. Turns(after, m, s)
  <2>1. after[0] = v0
    BY <1>4, KType
  <2>2. \A i \in 1 .. K : after[i] = PuntTurn(after[i - 1], s, i)
    BY <1>4, KType
  <2> QED BY <1>5, <2>1, <2>2, Zenon DEF Turns, v0
<1>8. \A i \in 0 .. K : TurnOK(after[i], m, up)
  BY <1>6, KType DEF V
<1> QED BY <1>7, <1>8

LEMMA PuntOK ==
  ASSUME NEW up, NEW m, MemOK(m, up), NEW s \in Seqs
  PROVE  LET a == PuntResponders(m, s)
         IN  MemOK(a.mem, up \ a.down) /\ Shrunk(m, a.mem)
<1>1. PICK g : Turns(g, m, s) /\ \A i \in 0 .. K : TurnOK(g[i], m, up)
  BY PuntRuns
<1>2. PuntResponders(m, s) = g[K] /\ TurnOK(g[K], m, up)
  BY <1>1, KType DEF Turns
<1> QED BY <1>2, Zenon DEF TurnOK

(* The timer is restarted for the earliest packet, so for none too late.   *)
Covers(t, m) == \A s \in m.q : t # Idle /\ t <= m.p[s].at

LEMMA RescheduledOK ==
  ASSUME NEW up, NEW m, MemOK(m, up)
  PROVE  /\ Rescheduled(m) \in {Idle} \cup 0 .. RETRANS_PERIOD
         /\ Covers(Rescheduled(m), m)
<1>1. \A s \in m.q : m.p[s].at \in 0 .. RETRANS_PERIOD
  BY DEF MemOK, QueuedOK, Packet
<1>2. CASE m.q = {}
  BY <1>2 DEF Rescheduled, Covers
<1>3. CASE m.q # {}
  <2> DEFINE T == {m.p[s].at : s \in m.q}
  <2>1. T \subseteq Nat /\ T # {}
    BY <1>1, <1>3, ConstantsAssumption
  <2>2. PICK x \in T : \A y \in T : x <= y
    BY <2>1, LeastNatural
  <2>3. \E s \in m.q : IsHead(m, s)
    BY <2>2 DEF IsHead
  <2> DEFINE h == CHOOSE s \in m.q : IsHead(m, s)
  <2>4. h \in m.q /\ IsHead(m, h)
    BY <2>3
  <2>5. Rescheduled(m) = m.p[h].at
    BY <1>3 DEF Rescheduled
  <2> HIDE DEF h
  <2> QED BY <1>1, <2>4, <2>5, ConstantsAssumption DEF IsHead, Covers, Idle
<1> QED BY <1>2, <1>3

-----------------------------------------------------------------------------
(* The inductive invariant: the types, and of the queue's memory that its  *)
(* lists are sound and name neighbours, and that the timer covers it.      *)
IInv ==
  /\ link \in [Peers -> {"NONE", "IN", "BI"}]
  /\ controlSequence \in Seqs
  /\ rexmitTimer \in {Idle} \cup 0 .. RETRANS_PERIOD
  /\ acks \in [Peers -> [Seqs -> 0 .. MaxAcks]]
  /\ MemOK(Mem, Neighbours)
  /\ Covers(rexmitTimer, Mem)

LEMMA InitOK == Init => IInv
<1> SUFFICES ASSUME Init PROVE IInv
  OBVIOUS
<1>1. 0 \in Seqs /\ 0 \in 0 .. MaxAcks
  BY ConstantsAssumption DEF Seqs
<1>2. MemOK(Mem, Neighbours)
  BY FreedType DEF Init, MemOK, Memory, Mem
<1> QED BY <1>1, <1>2 DEF Init, IInv, Covers, Mem

(* Responders that are neighbours stay so while links only come up.        *)
LEMMA MemOKMonotone ==
  ASSUME NEW up, NEW more, up \subseteq more, NEW m, MemOK(m, up)
  PROVE  MemOK(m, more)
BY DEF MemOK, QueuedOK

LEMMA CoversShrunk ==
  ASSUME NEW t, NEW m, NEW r, Covers(t, m), Shrunk(m, r)
  PROVE  Covers(t, r)
BY DEF Covers, Shrunk

LEMMA BroadcastType ==
  ASSUME NEW s \in Seqs, NEW list, Broadcast(s, list),
         acks \in [Peers -> [Seqs -> 0 .. MaxAcks]]
  PROVE  acks' \in [Peers -> [Seqs -> 0 .. MaxAcks]]
<1>1. PICK heard \in SUBSET list :
        /\ \A n \in heard : acks[n][s] < MaxAcks
        /\ acks' = [n \in Peers |-> [acks[n] EXCEPT ![s] =
                                      IF n \in heard THEN @ + 1 ELSE @]]
  BY DEF Broadcast
<1>2. ASSUME NEW n \in Peers
      PROVE  [acks[n] EXCEPT ![s] = IF n \in heard THEN @ + 1 ELSE @]
               \in [Seqs -> 0 .. MaxAcks]
  <2>1. acks[n] \in [Seqs -> 0 .. MaxAcks]
    OBVIOUS
  <2>2. (IF n \in heard THEN acks[n][s] + 1 ELSE acks[n][s]) \in 0 .. MaxAcks
    BY <1>1, <2>1, ConstantsAssumption
  <2> QED BY <2>1, <2>2
<1> QED BY <1>1, <1>2

LEMMA NeighboursUp ==
  ASSUME IInv, NEW n \in Peers,
         link' = [link EXCEPT ![n] = "BI"]
           \/ link' = [link EXCEPT ![n] = IF @ = "NONE" THEN "IN" ELSE @]
  PROVE  Neighbours \subseteq Neighbours' /\ link' \in [Peers -> {"NONE", "IN", "BI"}]
BY DEF IInv, Neighbours

LEMMA SendObjectStep == IInv /\ SendObject => IInv'
<1> SUFFICES ASSUME IInv, SendObject PROVE IInv'
  OBVIOUS
<1> DEFINE s == controlSequence
           k == Cardinality(Neighbours)
<1>1. PICK list \in SetToSeqs(Neighbours) :
        packet' = [packet EXCEPT ![s] =
          [num |-> k, resp |-> [i \in Slots |-> IF i <= k THEN list[i] ELSE 0],
           left |-> MAX_REXMITS, at |-> RETRANS_PERIOD, age |-> 0]]
  BY DEF SendObject, ScheduleReXmit
<1>2. /\ Neighbours # {} /\ s \notin rexmitq /\ rexmitq' = rexmitq \cup {s}
      /\ controlSequence' = (s + 1) % SeqSpace
      /\ rexmitTimer' = IF rexmitTimer = Idle THEN RETRANS_PERIOD ELSE rexmitTimer
      /\ Broadcast(s, Neighbours) /\ UNCHANGED link
  BY DEF SendObject, ScheduleReXmit
<1>3. s \in Seqs /\ rexmitq \subseteq Seqs /\ packet \in [Seqs -> Packet]
  BY DEF IInv, MemOK, Memory, Mem
<1>4. k \in 1 .. K /\ K \in Nat
  <2>1. Neighbours \in SUBSET Peers
    BY DEF Neighbours
  <2>2. IsFiniteSet(Neighbours) /\ Cardinality(Neighbours) <= Cardinality(Peers)
    BY <2>1, ConstantsAssumption, FS_Subset
  <2>3. Cardinality(Neighbours) # 0 /\ Cardinality(Neighbours) \in Nat
    BY <1>2, <2>2, FS_EmptySet, FS_CardinalityType
  <2> QED BY <2>2, <2>3, KType DEF K
<1>5. /\ list \in [1 .. k -> Neighbours]
      /\ \A i, j \in 1 .. k : list[i] = list[j] => i = j
  BY DEF SetToSeqs
<1> HIDE DEF k
<1> DEFINE p == packet'[s]
<1>6. p = [num |-> k, resp |-> [i \in Slots |-> IF i <= k THEN list[i] ELSE 0],
           left |-> MAX_REXMITS, at |-> RETRANS_PERIOD, age |-> 0]
  BY <1>1, <1>3
<1>7. \A i \in 1 .. k : p.resp[i] = list[i]
  BY <1>4, <1>6 DEF Slots, K
<1>8. p \in Packet
  <2>1. p.resp \in [Slots -> Addr]
    BY <1>4, <1>5, <1>6 DEF Slots, Addr, Neighbours
  <2> QED BY <1>4, <1>6, <2>1, ConstantsAssumption DEF Packet, K
<1>9. QueuedOK(p, Neighbours)
  <2>1. Listed(p) \subseteq Neighbours
    BY <1>5, <1>6, <1>7 DEF Listed
  <2>2. Lifetime(p)
    BY <1>6, ConstantsAssumption DEF Lifetime
  <2> QED BY <1>4, <1>5, <1>6, <1>7, <1>8, <2>1, <2>2 DEF QueuedOK
<1> HIDE DEF p
<1>10. packet' \in [Seqs -> Packet] /\ \A t \in rexmitq : packet'[t] = packet[t]
  BY <1>1, <1>2, <1>3, <1>8 DEF p
<1>11. MemOK(Mem', Neighbours)
  BY <1>2, <1>3, <1>9, <1>10 DEF MemOK, Memory, Mem, IInv, p
<1>12. Neighbours' = Neighbours
  BY <1>2 DEF Neighbours
<1>13. Covers(rexmitTimer', Mem')
  <2>1. ASSUME NEW t \in rexmitq'
        PROVE  rexmitTimer' # Idle /\ rexmitTimer' <= packet'[t].at
    <3>1. CASE t = s
      BY <1>2, <1>6, <3>1, ConstantsAssumption DEF IInv, Idle, p
    <3>2. CASE t # s
      BY <1>2, <1>10, <2>1, <3>2 DEF IInv, Covers, Mem
    <3> QED BY <3>1, <3>2
  <2> QED BY <2>1 DEF Covers, Mem
<1>14. controlSequence' \in Seqs
  BY <1>2, <1>3, ConstantsAssumption DEF Seqs
<1>15. acks' \in [Peers -> [Seqs -> 0 .. MaxAcks]]
  BY <1>2, <1>3, BroadcastType DEF IInv
<1>16. rexmitTimer' \in {Idle} \cup 0 .. RETRANS_PERIOD
  BY <1>2, ConstantsAssumption DEF IInv
<1> QED BY <1>2, <1>11, <1>12, <1>13, <1>14, <1>15, <1>16 DEF IInv

LEMMA AckInputStep ==
  ASSUME NEW n \in Peers, NEW s \in Seqs PROVE IInv /\ AckInput(n, s) => IInv'
<1> SUFFICES ASSUME IInv, AckInput(n, s) PROVE IInv'
  OBVIOUS
<1>1. acks' \in [Peers -> [Seqs -> 0 .. MaxAcks]]
  BY ConstantsAssumption DEF IInv, AckInput
<1>2. Neighbours \subseteq Neighbours' /\ link' \in [Peers -> {"NONE", "IN", "BI"}]
  BY NeighboursUp DEF AckInput
<1>3. MemOK(Mem', Neighbours) /\ Shrunk(Mem, Mem')
  <2>1. CASE s \in rexmitq
    <3> DEFINE m == RemoveResponse(Mem, s, n)
    <3>1. s \in Mem.q
      BY <2>1 DEF Mem
    <3>2. MemOK(m, Neighbours) /\ Shrunk(Mem, m)
      BY <3>1, RemoveOK DEF IInv
    <3>3. Mem' = m
      BY <2>1 DEF AckInput, Mem, RemoveResponse
    <3> QED BY <3>2, <3>3
  <2>2. CASE s \notin rexmitq
    BY <2>2 DEF AckInput, Mem, IInv, Shrunk
  <2> QED BY <2>1, <2>2
<1>4. MemOK(Mem', Neighbours')
  BY <1>2, <1>3, MemOKMonotone
<1>5. Covers(rexmitTimer', Mem')
  BY <1>3, CoversShrunk DEF IInv, AckInput
<1> QED BY <1>1, <1>2, <1>4, <1>5 DEF IInv, AckInput

LEMMA HelloInputStep ==
  ASSUME NEW n \in Peers, NEW namesUs \in BOOLEAN
  PROVE  IInv /\ HelloInput(n, namesUs) => IInv'
<1> SUFFICES ASSUME IInv, HelloInput(n, namesUs) PROVE IInv'
  OBVIOUS
<1>1. Neighbours \subseteq Neighbours' /\ link' \in [Peers -> {"NONE", "IN", "BI"}]
  BY NeighboursUp DEF HelloInput
<1>2. Mem' = Mem
  BY DEF HelloInput, Mem
<1>3. MemOK(Mem', Neighbours')
  BY <1>1, <1>2, MemOKMonotone DEF IInv
<1> QED BY <1>1, <1>2, <1>3 DEF IInv, HelloInput

LEMMA LinkDownStep ==
  ASSUME NEW n \in Peers PROVE IInv /\ LinkDown(n) => IInv'
<1> SUFFICES ASSUME IInv, LinkDown(n) PROVE IInv'
  OBVIOUS
<1> DEFINE m == PurgeReXmitQ(Mem, n)
<1>1. MemOK(m, Neighbours \ {n}) /\ Shrunk(Mem, m)
  BY PurgeOK DEF IInv
<1>2. Mem' = m
  BY DEF LinkDown, Mem, PurgeReXmitQ
<1>3. Neighbours' = Neighbours \ {n} /\ link' \in [Peers -> {"NONE", "IN", "BI"}]
  BY DEF LinkDown, Neighbours, IInv
<1>4. Covers(rexmitTimer', Mem')
  BY <1>1, <1>2, CoversShrunk DEF IInv, LinkDown
<1> HIDE DEF m
<1> QED BY <1>1, <1>2, <1>3, <1>4 DEF IInv, LinkDown

LEMMA RexmitTimeoutStep ==
  ASSUME NEW s \in Seqs PROVE IInv /\ RexmitTimeout(s) => IInv'
<1> SUFFICES ASSUME IInv, RexmitTimeout(s) PROVE IInv'
  OBVIOUS
<1> DEFINE a == PuntResponders(Mem, s)
<1>1. MemOK(a.mem, Neighbours \ a.down) /\ Shrunk(Mem, a.mem)
  BY PuntOK DEF IInv
<1> HIDE DEF a
<1>2. /\ rexmitq' = a.mem.q /\ packet' = a.mem.p
      /\ link' = [n \in Peers |-> IF n \in a.down THEN "NONE" ELSE link[n]]
      /\ rexmitTimer' = Rescheduled(a.mem)
      /\ UNCHANGED <<controlSequence, acks>>
  BY DEF RexmitTimeout, a
<1>3. Mem' = a.mem
  BY <1>1, <1>2 DEF Mem, MemOK, Memory
<1>4. Neighbours' = Neighbours \ a.down /\ link' \in [Peers -> {"NONE", "IN", "BI"}]
  BY <1>2 DEF Neighbours, IInv
<1>5. rexmitTimer' \in {Idle} \cup 0 .. RETRANS_PERIOD /\ Covers(rexmitTimer', Mem')
  BY <1>1, <1>2, <1>3, RescheduledOK
<1> QED BY <1>1, <1>2, <1>3, <1>4, <1>5 DEF IInv

LEMMA RexmitSendStep ==
  ASSUME NEW s \in Seqs PROVE IInv /\ RexmitSend(s) => IInv'
<1> SUFFICES ASSUME IInv, RexmitSend(s) PROVE IInv'
  OBVIOUS
<1> DEFINE p == packet[s]
           r == Retransmitted(p)
           m == [Mem EXCEPT !.p = packet']
<1>1. /\ s \in rexmitq /\ p.left # 0 /\ p.at = 0
      /\ packet' = [packet EXCEPT ![s] = r]
      /\ rexmitTimer' = Rescheduled(m) /\ Broadcast(s, Listed(p))
      /\ UNCHANGED <<link, controlSequence, rexmitq>>
  BY DEF RexmitSend, IsHead, Mem, TimedOut, Due
<1>2. rexmitq \subseteq Seqs /\ packet \in [Seqs -> Packet] /\ QueuedOK(p, Neighbours)
  BY <1>1 DEF IInv, MemOK, Memory, Mem
<1>3. m = [q |-> rexmitq, p |-> packet'] /\ Mem' = m
  BY <1>1 DEF Mem
<1> HIDE DEF m
<1>4. p \in Packet
  BY <1>2
<1>5. r = [p EXCEPT !.left = p.left - 1, !.at = RETRANS_PERIOD]
  BY DEF Retransmitted
<1>6. /\ r.num = p.num /\ r.resp = p.resp /\ r.age = p.age
      /\ r.left = p.left - 1 /\ r.at = RETRANS_PERIOD
  BY <1>4, <1>5 DEF Packet
<1>7. r \in Packet
  <2>1. p.left - 1 \in 0 .. MAX_REXMITS /\ RETRANS_PERIOD \in 0 .. RETRANS_PERIOD
    BY <1>1, <1>4, ConstantsAssumption DEF Packet
  <2> QED BY <1>4, <1>5, <2>1 DEF Packet
<1>8. Lifetime(r)
  <2>1. p.age = (MAX_REXMITS - p.left) * RETRANS_PERIOD + (RETRANS_PERIOD - p.at)
    BY <1>2 DEF QueuedOK, Lifetime
  <2>2. (MAX_REXMITS - (p.left - 1)) * RETRANS_PERIOD
          = (MAX_REXMITS - p.left) * RETRANS_PERIOD + RETRANS_PERIOD
    BY <1>4, ConstantsAssumption DEF Packet
  <2> QED BY <1>1, <1>4, <1>6, <2>1, <2>2, ConstantsAssumption DEF Lifetime, Packet
<1> HIDE DEF r
<1>9. QueuedOK(r, Neighbours)
  BY <1>2, <1>6, <1>7, <1>8 DEF QueuedOK, Listed
<1>10. MemOK(m, Neighbours)
  BY <1>1, <1>2, <1>3, <1>7, <1>9 DEF IInv, MemOK, Memory, Mem
<1>11. rexmitTimer' \in {Idle} \cup 0 .. RETRANS_PERIOD /\ Covers(rexmitTimer', Mem')
  BY <1>1, <1>3, <1>10, RescheduledOK
<1>12. acks' \in [Peers -> [Seqs -> 0 .. MaxAcks]]
  BY <1>1, BroadcastType DEF IInv
<1>13. Neighbours' = Neighbours
  BY <1>1 DEF Neighbours
<1> QED BY <1>1, <1>3, <1>10, <1>11, <1>12, <1>13 DEF IInv

LEMMA RexmitIdleStep == IInv /\ RexmitIdle => IInv'
<1> SUFFICES ASSUME IInv, RexmitIdle PROVE IInv'
  OBVIOUS
<1>1. Mem' = Mem /\ Neighbours' = Neighbours /\ rexmitTimer' = Rescheduled(Mem)
  BY DEF RexmitIdle, Mem, Neighbours
<1>2. rexmitTimer' \in {Idle} \cup 0 .. RETRANS_PERIOD /\ Covers(rexmitTimer', Mem')
  BY <1>1, RescheduledOK DEF IInv
<1> QED BY <1>1, <1>2 DEF IInv, RexmitIdle

LEMMA TickStep == IInv /\ Tick => IInv'
<1> SUFFICES ASSUME IInv, Tick PROVE IInv'
  OBVIOUS
<1> DEFINE Later(p) == [p EXCEPT !.at = @ - 1, !.age = @ + 1]
<1>0. rexmitTimer \in 1 .. RETRANS_PERIOD
  <2>1. rexmitTimer > 0
    BY DEF Tick
  <2>2. rexmitTimer = -1 \/ rexmitTimer \in 0 .. RETRANS_PERIOD
    BY DEF IInv, Idle
  <2>3. ~(-1 > 0)
    OBVIOUS
  <2> QED BY <2>1, <2>2, <2>3, ConstantsAssumption
<1>1. /\ rexmitTimer' = rexmitTimer - 1
      /\ packet' = [s \in Seqs |-> IF s \in rexmitq THEN Later(packet[s]) ELSE packet[s]]
      /\ UNCHANGED <<link, controlSequence, rexmitq, acks>>
  BY DEF Tick
<1>2. rexmitq \subseteq Seqs /\ packet \in [Seqs -> Packet]
  BY DEF IInv, MemOK, Memory, Mem
<1>3. ASSUME NEW s \in rexmitq
      PROVE  QueuedOK(Later(packet[s]), Neighbours) /\ rexmitTimer' <= Later(packet[s]).at
  <2> DEFINE p == packet[s]
             r == Later(p)
  <2>1. QueuedOK(p, Neighbours) /\ rexmitTimer <= p.at /\ p \in Packet
    BY <1>2 DEF IInv, MemOK, Covers, Mem
  <2>2. /\ r.num = p.num /\ r.resp = p.resp /\ r.left = p.left
        /\ r.at = p.at - 1 /\ r.age = p.age + 1
    BY <2>1 DEF Packet
  <2>6. p.at \in 1 .. RETRANS_PERIOD /\ p.age \in Nat
    <3>1. p.at \in 0 .. RETRANS_PERIOD /\ p.age \in Nat
      BY <2>1 DEF Packet
    <3> HIDE DEF p
    <3> QED BY <1>0, <2>1, <3>1, ConstantsAssumption
  <2>3. r \in Packet
    <3>1. p.at - 1 \in 0 .. RETRANS_PERIOD /\ p.age + 1 \in Nat
      BY <2>6, ConstantsAssumption
    <3> QED BY <2>1, <3>1 DEF Packet
  <2>4. Lifetime(r)
    <3>1. (MAX_REXMITS - p.left) * RETRANS_PERIOD \in Int
      BY <2>1, ConstantsAssumption DEF Packet
    <3> HIDE DEF r
    <3> QED BY <2>1, <2>2, <3>1, ConstantsAssumption DEF QueuedOK, Lifetime, Packet
  <2>5. rexmitTimer' <= r.at
    <3>1. rexmitTimer' = rexmitTimer - 1 /\ r.at = p.at - 1 /\ rexmitTimer <= p.at
      BY <1>1, <2>1, <2>2
    <3>2. rexmitTimer \in Int /\ p.at \in Int
      BY <1>0, <2>6
    <3> HIDE DEF p, r
    <3> QED BY <3>1, <3>2
  <2> HIDE DEF r
  <2> QED BY <2>1, <2>2, <2>3, <2>4, <2>5 DEF QueuedOK, Listed, r
<1> HIDE DEF Later
<1>4. packet' \in [Seqs -> Packet]
  BY <1>1, <1>2, <1>3 DEF QueuedOK
<1>5. MemOK(Mem', Neighbours) /\ Neighbours' = Neighbours
  BY <1>1, <1>2, <1>3, <1>4 DEF MemOK, Memory, Mem, Neighbours
<1>6. Covers(rexmitTimer', Mem')
  BY <1>0, <1>1, <1>2, <1>3 DEF Covers, Mem, Idle
<1> QED BY <1>0, <1>1, <1>5, <1>6, ConstantsAssumption DEF IInv

LEMMA NextOK == IInv /\ [Next]_vars => IInv'
<1> SUFFICES ASSUME IInv, [Next]_vars PROVE IInv'
  OBVIOUS
<1>1. CASE SendObject
  BY <1>1, SendObjectStep
<1>2. CASE \E n \in Peers, s \in Seqs : AckInput(n, s)
  BY <1>2, AckInputStep
<1>3. CASE \E n \in Peers, namesUs \in BOOLEAN : HelloInput(n, namesUs)
  BY <1>3, HelloInputStep
<1>4. CASE \E n \in Peers : LinkDown(n)
  BY <1>4, LinkDownStep
<1>5. CASE RexmitIdle
  BY <1>5, RexmitIdleStep
<1>6. CASE \E s \in Seqs : RexmitTimeout(s)
  BY <1>6, RexmitTimeoutStep
<1>7. CASE \E s \in Seqs : RexmitSend(s)
  BY <1>7, RexmitSendStep
<1>8. CASE Tick
  BY <1>8, TickStep
<1>9. CASE UNCHANGED vars
  BY <1>9 DEF IInv, vars, Mem, Neighbours
<1> QED BY <1>1, <1>2, <1>3, <1>4, <1>5, <1>6, <1>7, <1>8, <1>9
      DEF Next, HandlerReXmitTimer

LEMMA InductiveInvariant == Spec => []IInv
BY InitOK, NextOK, PTL DEF Spec

-----------------------------------------------------------------------------
(* What one removal, one ACK and one timeout take off a list.              *)

(* A neighbour that is on the list is taken off it, and nobody else is;    *)
(* the slots behind its own keep what they hold.                           *)
Removed(p, n, r) ==
  /\ r.num = p.num - 1
  /\ Listed(r) = Listed(p) \ {n}
  /\ \A i \in 1 .. p.num : p.resp[i] = n => \A j \in i + 1 .. p.num - 1 : r.resp[j] = p.resp[j]

LEMMA WithoutListed ==
  ASSUME NEW up, NEW n, NEW p, QueuedOK(p, up), n \in Listed(p)
  PROVE  Removed(p, n, Without(p, n))
<1> DEFINE i == SlotOf(p, n)
           r == Without(p, n)
<1>1. p \in Packet /\ p.num \in 1 .. K /\ K \in Nat
  BY KType DEF QueuedOK, Packet, K
<1>2. i \in 1 .. p.num /\ p.resp[i] = n
  BY DEF SlotOf, Listed
<1>3. \A j \in 1 .. p.num : p.resp[j] = n => j = i
  BY <1>2 DEF QueuedOK
<1> HIDE DEF i
<1>4. CASE p.num = 1
  <2>1. r = Freed
    BY <1>2, <1>4 DEF Without, i
  <2>2. Listed(Freed) = {} /\ Freed.num = 0
    BY DEF Freed, Listed
  <2>3. Listed(p) = {n}
    BY <1>2, <1>4 DEF Listed
  <2>4. \A j \in 1 .. p.num : j + 1 .. p.num - 1 = {}
    BY <1>4
  <2> QED BY <1>4, <2>1, <2>2, <2>3, <2>4 DEF Removed
<1>5. CASE p.num # 1
  <2>1. r = [p EXCEPT !.resp[i] = p.resp[p.num], !.num = p.num - 1]
    BY <1>2, <1>5 DEF Without, i
  <2>2. r.num = p.num - 1 /\ r.resp = [p.resp EXCEPT ![i] = p.resp[p.num]]
    BY <1>1, <2>1 DEF Packet
  <2>3. DOMAIN p.resp = 1 .. K + 1
    BY <1>1 DEF Packet, Slots, K
  <2> HIDE DEF r
  <2>4. \A j \in 1 .. p.num - 1 : r.resp[j] = IF j = i THEN p.resp[p.num] ELSE p.resp[j]
    BY <1>1, <1>2, <2>2, <2>3
  <2>5. Listed(r) = {r.resp[j] : j \in 1 .. p.num - 1}
    BY <2>2 DEF Listed
  <2>6. ASSUME NEW j \in 1 .. p.num - 1 PROVE r.resp[j] \in Listed(p) \ {n}
    <3>1. CASE j = i
      BY <1>1, <1>3, <2>4, <3>1 DEF Listed
    <3>2. CASE j # i
      BY <1>1, <1>3, <2>4, <3>2 DEF Listed
    <3> QED BY <3>1, <3>2
  <2>7. ASSUME NEW x \in Listed(p) \ {n} PROVE x \in Listed(r)
    <3>1. PICK j \in 1 .. p.num : p.resp[j] = x
      BY DEF Listed
    <3>2. CASE j = p.num
      <4>1. i \in 1 .. p.num - 1 /\ r.resp[i] = x
        BY <1>1, <1>2, <2>4, <3>1, <3>2
      <4> QED BY <2>5, <4>1
    <3>3. CASE j # p.num
      <4>1. j \in 1 .. p.num - 1 /\ r.resp[j] = x
        BY <1>1, <1>2, <2>4, <3>1, <3>3
      <4> QED BY <2>5, <4>1
    <3> QED BY <3>2, <3>3
  <2>8. Listed(r) = Listed(p) \ {n}
    BY <2>5, <2>6, <2>7
  <2>9. ASSUME NEW h \in 1 .. p.num, p.resp[h] = n, NEW j \in h + 1 .. p.num - 1
        PROVE  r.resp[j] = p.resp[j]
    BY <1>1, <1>3, <2>4, <2>9
  <2> QED BY <2>2, <2>8, <2>9 DEF Removed, r
<1> QED BY <1>4, <1>5

(* A packet is out of the queue when nobody is left on its list.           *)
LEMMA PurgeListed ==
  ASSUME NEW up, NEW m, MemOK(m, up), NEW s \in m.q, NEW n \in Listed(m.p[s])
  PROVE  LET r == PurgeReXmitQ(m, n)
         IN  /\ Removed(m.p[s], n, r.p[s])
             /\ s \in r.q <=> r.p[s].num > 0
<1>1. QueuedOK(m.p[s], up) /\ m.q \subseteq Seqs
  BY DEF MemOK, Memory
<1>2. Removed(m.p[s], n, Without(m.p[s], n))
  BY <1>1, WithoutListed
<1>3. /\ PurgeReXmitQ(m, n).p = [t \in Seqs |-> IF t \in m.q THEN Without(m.p[t], n) ELSE m.p[t]]
      /\ PurgeReXmitQ(m, n).q = {t \in m.q : PurgeReXmitQ(m, n).p[t].num > 0}
  BY DEF PurgeReXmitQ
<1>4. PurgeReXmitQ(m, n).p[s] = Without(m.p[s], n)
  BY <1>1, <1>3
<1> QED BY <1>2, <1>3, <1>4

(* The neighbours a timeout downs: those in the first half of the slots,   *)
(* rounded up.                                                             *)
FirstHalf(p) == {p.resp[i] : i \in 1 .. (p.num + 1) \div 2}

(* The loop after turn i, for a packet p that waits for C neighbours: it   *)
(* has visited one slot for each turn until the counter passes the count,  *)
(* which each turn lowers.                                                 *)
Halfway(b, s, p, i) ==
  LET C == p.num
      num == b.mem.p[s].num
  IN  /\ num = IF 2 * i <= C + 1 THEN C - i ELSE C \div 2
      /\ num > 0 <=> s \in b.mem.q
      /\ Listed(b.mem.p[s]) = Listed(p) \ b.down
      /\ \A j \in i + 1 .. num : b.mem.p[s].resp[j] = p.resp[j]
      /\ b.down = {p.resp[j] : j \in {k \in 1 .. i : 2 * k <= C + 1}}

LEMMA HalvesStep ==
  ASSUME NEW up, NEW m, NEW s \in Seqs, NEW b, TurnOK(b, m, up),
         NEW p \in Packet, NEW i \in Nat, i > 0, Halfway(b, s, p, i - 1)
  PROVE  Halfway(PuntTurn(b, s, i), s, p, i)
<1> DEFINE C == p.num
           num == b.mem.p[s].num
           q == b.mem.p[s]
           n == q.resp[i]
           c == PurgeReXmitQ(b.mem, n)
           D(k) == {p.resp[j] : j \in {h \in 1 .. k : 2 * h <= C + 1}}
<1>1. C \in Nat /\ num \in Nat
  BY KType DEF TurnOK, Memory, Packet, K
<1>2. /\ num = IF 2 * (i - 1) <= C + 1 THEN C - (i - 1) ELSE C \div 2
      /\ num > 0 <=> s \in b.mem.q
      /\ Listed(q) = Listed(p) \ b.down
      /\ \A j \in i .. num : q.resp[j] = p.resp[j]
      /\ b.down = D(i - 1)
  BY DEF Halfway
<1>3. CASE i > num
  <2>1. PuntTurn(b, s, i) = b
    BY <1>3 DEF PuntTurn
  <2> HIDE DEF num
  <2>2. 2 * i > C + 1
    BY <1>1, <1>2, <1>3
  <2>3. num = C \div 2
    <3>1. 2 * (C \div 2) <= C /\ C <= 2 * (C \div 2) + 1 /\ C \div 2 \in Int
      BY <1>1
    <3>2. CASE 2 * (i - 1) <= C + 1
      <4>1. num = C - (i - 1)
        BY <1>2, <3>2
      <4> HIDE DEF C
      <4> QED BY <1>1, <1>3, <2>2, <3>1, <3>2, <4>1
    <3>3. CASE ~(2 * (i - 1) <= C + 1)
      BY <1>2, <3>3
    <3> QED BY <3>2, <3>3
  <2>4. {h \in 1 .. i : 2 * h <= C + 1} = {h \in 1 .. i - 1 : 2 * h <= C + 1}
    BY <1>1, <2>2
  <2>5. D(i) = D(i - 1)
    BY <2>4
  <2>6. i + 1 .. num = {}
    BY <1>1, <1>3
  <2> HIDE DEF q
  <2>7. /\ num = IF 2 * i <= C + 1 THEN C - i ELSE C \div 2
        /\ \A j \in i + 1 .. num : q.resp[j] = p.resp[j]
        /\ b.down = D(i)
    BY <1>1, <1>2, <2>2, <2>3, <2>5, <2>6
  <2> HIDE DEF D, C
  <2> QED BY <1>2, <2>1, <2>7, Zenon DEF Halfway, q, num, D, C
<1>4. CASE ~(i > num)
  <2>1. PuntTurn(b, s, i) = [mem |-> c, down |-> b.down \cup {n}]
    BY <1>4 DEF PuntTurn
  <2>2. i \in 1 .. num /\ 2 * i <= C + 1 /\ num = C - i + 1
    <3> HIDE DEF num
    <3> QED BY <1>1, <1>2, <1>4
  <2>3. n \in Listed(q) /\ s \in b.mem.q /\ MemOK(b.mem, up \ b.down)
    BY <1>1, <1>2, <2>2 DEF Listed, TurnOK
  <2>4. Removed(q, n, c.p[s]) /\ (s \in c.q <=> c.p[s].num > 0)
    BY <2>3, PurgeListed
  <2> DEFINE r == c.p[s]
  <2>5. /\ r.num = C - i
        /\ Listed(r) = Listed(p) \ (b.down \cup {n})
        /\ \A j \in i + 1 .. num - 1 : r.resp[j] = q.resp[j]
    <3> HIDE DEF c, n
    <3>1. r.num = q.num - 1 /\ Listed(r) = Listed(q) \ {n}
      BY <2>4 DEF Removed
    <3>2. \A j \in i + 1 .. num - 1 : r.resp[j] = q.resp[j]
      BY <2>2, <2>4 DEF Removed, n
    <3> HIDE DEF r, q
    <3>3. r.num = C - i
      BY <1>1, <2>2, <3>1 DEF q
    <3> QED BY <1>2, <3>1, <3>2, <3>3
  <2>6. n = p.resp[i]
    BY <1>1, <1>2, <2>2
  <2> HIDE DEF n, c
  <2>7. \A j \in i + 1 .. r.num : r.resp[j] = p.resp[j]
    <3>1. \A j \in i + 1 .. C - i : j \in i + 1 .. num - 1 /\ j \in i .. num
      BY <1>1, <2>2
    <3> HIDE DEF r, q, num
    <3> QED BY <1>2, <2>5, <3>1
  <2>8. {h \in 1 .. i : 2 * h <= C + 1} = {h \in 1 .. i - 1 : 2 * h <= C + 1} \cup {i}
    BY <1>1, <2>2
  <2>9. b.down \cup {n} = D(i)
    BY <1>2, <2>6, <2>8
  <2>10. r.num = IF 2 * i <= C + 1 THEN C - i ELSE C \div 2
    BY <2>2, <2>5
  <2> HIDE DEF D, C
  <2>11. /\ PuntTurn(b, s, i).mem = c
         /\ PuntTurn(b, s, i).down = b.down \cup {n}
    BY <2>1
  <2> QED BY <2>4, <2>5, <2>7, <2>9, <2>10, <2>11, Zenon DEF Halfway, D, C
<1> QED BY <1>3, <1>4

LEMMA PuntHalves ==
  ASSUME NEW up, NEW m, MemOK(m, up), NEW s \in m.q
  PROVE  LET a == PuntResponders(m, s)
         IN  /\ a.down = FirstHalf(m.p[s])
             /\ Listed(a.mem.p[s]) = Listed(m.p[s]) \ FirstHalf(m.p[s])
             /\ a.mem.p[s].num = m.p[s].num \div 2
             /\ s \in a.mem.q <=> m.p[s].num > 1
<1> DEFINE p == m.p[s]
           C == p.num
<1>1. s \in Seqs /\ p \in Packet /\ C \in 1 .. K /\ K \in Nat
  BY KType DEF MemOK, Memory, QueuedOK, Packet, K
<1>2. PICK g : Turns(g, m, s) /\ \A i \in 0 .. K : TurnOK(g[i], m, up)
  BY <1>1, PuntRuns
<1>3. \A i \in Nat : i <= K => Halfway(g[i], s, p, i)
  <2> DEFINE S == {i \in Nat : i <= K => Halfway(g[i], s, p, i)}
  <2>1. 0 \in S
    <3>1. g[0].mem = m /\ g[0].down = {}
      BY <1>2 DEF Turns
    <3>2. {k \in 1 .. 0 : 2 * k <= C + 1} = {}
      OBVIOUS
    <3>3. {p.resp[j] : j \in {k \in 1 .. 0 : 2 * k <= C + 1}} = {}
      BY <3>2
    <3>4. Listed(p) = Listed(p) \ {}
      OBVIOUS
    <3>5. 2 * 0 <= C + 1 /\ C - 0 = C /\ C > 0
      BY <1>1
    <3> QED BY <3>1, <3>3, <3>4, <3>5 DEF Halfway
  <2>2. ASSUME NEW i \in Nat, i \in S PROVE i + 1 \in S
    <3>1. CASE i + 1 <= K
      <4>1. g[i + 1] = PuntTurn(g[i], s, i + 1) /\ i \in 0 .. K /\ i <= K
        <5>1. i + 1 \in 1 .. K /\ (i + 1) - 1 = i /\ i \in 0 .. K /\ i <= K
          BY <1>1, <3>1
        <5> QED BY <1>2, <5>1 DEF Turns
      <4>2. TurnOK(g[i], m, up) /\ Halfway(g[i], s, p, i)
        BY <1>2, <2>2, <4>1
      <4>3. i + 1 \in Nat /\ i + 1 > 0 /\ (i + 1) - 1 = i
        OBVIOUS
      <4>4. Halfway(g[i], s, p, (i + 1) - 1)
        BY <4>2, <4>3
      <4>5. Halfway(PuntTurn(g[i], s, i + 1), s, p, i + 1)
        BY <1>1, <4>2, <4>3, <4>4, HalvesStep
      <4> QED BY <4>1, <4>3, <4>5
    <3>2. CASE ~(i + 1 <= K)
      BY <3>2
    <3> QED BY <3>1, <3>2
  <2> HIDE DEF S
  <2>3. Nat \subseteq S
    BY <2>1, <2>2, SetInduction
  <2> QED BY <2>3 DEF S
<1> DEFINE a == g[K]
<1>4. PuntResponders(m, s) = a /\ Halfway(a, s, p, K)
  BY <1>1, <1>2, <1>3 DEF Turns
<1> HIDE DEF a
<1>5. a.mem.p[s].num = C \div 2
  <2>1. a.mem.p[s].num = IF 2 * K <= C + 1 THEN C - K ELSE C \div 2
    BY <1>4 DEF Halfway
  <2> HIDE DEF p
  <2>2. 2 * K <= C + 1 => C - K = C \div 2
    BY <1>1
  <2> QED BY <2>1, <2>2
<1>6. a.down = FirstHalf(p)
  <2>1. a.down = {p.resp[j] : j \in {k \in 1 .. K : 2 * k <= C + 1}}
    BY <1>4 DEF Halfway
  <2>2. {k \in 1 .. K : 2 * k <= C + 1} = 1 .. (C + 1) \div 2
    <3> HIDE DEF p
    <3> QED BY <1>1
  <2> QED BY <2>1, <2>2 DEF FirstHalf
<1>7. Listed(a.mem.p[s]) = Listed(p) \ a.down /\ (a.mem.p[s].num > 0 <=> s \in a.mem.q)
  BY <1>4 DEF Halfway
<1>8. C \div 2 > 0 <=> C > 1
  <2> HIDE DEF p
  <2> QED BY <1>1
<1> QED BY <1>4, <1>5, <1>6, <1>7, <1>8

(* What a timeout does to packet s and to the links, against the comment   *)
(* that the packet will have been dropped (478): the first half of the     *)
(* neighbours it waits for are downed, the others stay up and on its list, *)
(* and it is dropped only if it had one.                                   *)
PuntsFirstHalf ==
  [][\A s \in Seqs : RexmitTimeout(s) =>
       /\ link' = [n \in Peers |-> IF n \in FirstHalf(packet[s]) THEN "NONE" ELSE link[n]]
       /\ Listed(packet'[s]) = Listed(packet[s]) \ FirstHalf(packet[s])
       /\ packet'[s].num = packet[s].num \div 2
       /\ s \in rexmitq' <=> packet[s].num > 1]_vars

(* An ACK or the loss of the link of a neighbour that is on the list takes *)
(* just that neighbour off it, and the packet is dropped if it was the     *)
(* last: what goes wrong does so for neighbours not on the list only.      *)
ResponderRemoved ==
  [][\A n \in Peers, s \in Seqs :
       s \in rexmitq /\ n \in Listed(packet[s]) /\ (AckInput(n, s) \/ LinkDown(n)) =>
         /\ Listed(packet'[s]) = Listed(packet[s]) \ {n}
         /\ s \in rexmitq' <=> Listed(packet[s]) # {n}]_vars

-----------------------------------------------------------------------------
(* The types hold: in particular no removal makes a count of responses     *)
(* negative or writes a slot beyond the list, and no packet in the queue   *)
(* is sent more often than MAX_REXMITS allows.                             *)
THEOREM TypeCorrect == Spec => []TypeOK
<1>1. IInv => TypeOK
  BY DEF IInv, TypeOK, MemOK, Memory, Mem
<1> QED BY <1>1, InductiveInvariant, PTL

(* Every queued packet lists at least one neighbour and none twice, so the *)
(* abort of findObjectSequence is never reached.                           *)
THEOREM ListsAreSound == Spec => []ResponseListsSound
<1>1. IInv => ResponseListsSound
  BY DEF IInv, ResponseListsSound, MemOK, QueuedOK, Mem
<1> QED BY <1>1, InductiveInvariant, PTL

(* No packet waits for a neighbour whose link is down.                     *)
THEOREM RespondersStayNeighbours == Spec => []RespondersAreNeighbours
<1>1. IInv => RespondersAreNeighbours
  BY DEF IInv, RespondersAreNeighbours, MemOK, QueuedOK, Mem
<1> QED BY <1>1, InductiveInvariant, PTL

(* The retransmission timer is never lost and never late.                  *)
THEOREM TimerNeverLost == Spec => []TimerCovers
<1>1. IInv => TimerCovers
  BY DEF IInv, TimerCovers, Covers, Mem
<1> QED BY <1>1, InductiveInvariant, PTL

(* The time a packet has waited follows from its retransmissions.          *)
LEMMA LifetimeRange ==
  ASSUME NEW p \in Packet, Lifetime(p)
  PROVE  /\ p.age <= (MAX_REXMITS + 1) * RETRANS_PERIOD
         /\ p.left = 0 => p.age >= MAX_REXMITS * RETRANS_PERIOD
<1>1. /\ p.left \in 0 .. MAX_REXMITS /\ p.at \in 0 .. RETRANS_PERIOD
      /\ MAX_REXMITS \in Nat /\ RETRANS_PERIOD \in Nat
  BY ConstantsAssumption DEF Packet
<1>2. (MAX_REXMITS - p.left) * RETRANS_PERIOD <= MAX_REXMITS * RETRANS_PERIOD
  <2>1. \A a, b, c \in Nat : a <= b => a * c <= b * c
    BY SMT
  <2> QED BY <1>1, <2>1
<1>3. (MAX_REXMITS + 1) * RETRANS_PERIOD = MAX_REXMITS * RETRANS_PERIOD + RETRANS_PERIOD
  BY <1>1
<1>4. /\ (MAX_REXMITS - p.left) * RETRANS_PERIOD \in Int
      /\ MAX_REXMITS * RETRANS_PERIOD \in Int
      /\ p.left = 0 => (MAX_REXMITS - p.left) * RETRANS_PERIOD = MAX_REXMITS * RETRANS_PERIOD
  BY <1>1
<1> QED BY <1>1, <1>2, <1>3, <1>4 DEF Lifetime

(* No packet outlives its retransmissions.                                 *)
THEOREM LifetimeIsBounded == Spec => []LifetimeBounded
<1>1. IInv => LifetimeBounded
  BY LifetimeRange DEF IInv, LifetimeBounded, MemOK, QueuedOK, Mem
<1> QED BY <1>1, InductiveInvariant, PTL

(* No link is downed by a timeout before the packet had all its            *)
(* retransmissions.                                                        *)
THEOREM PuntsAreLate == Spec => PuntsAfterAllRexmits
<1>1. ASSUME IInv, NEW s \in Seqs, RexmitTimeout(s)
      PROVE  packet[s].age >= MAX_REXMITS * RETRANS_PERIOD
  <2>1. s \in rexmitq /\ packet[s].left = 0
    BY <1>1 DEF RexmitTimeout, IsHead, Mem, TimedOut
  <2>2. packet[s] \in Packet /\ Lifetime(packet[s])
    BY <1>1, <2>1 DEF IInv, MemOK, QueuedOK, Mem
  <2> QED BY <2>1, <2>2, LifetimeRange
<1>2. IInv /\ [Next]_vars =>
        [\A s \in Seqs : RexmitTimeout(s) =>
           packet[s].age >= MAX_REXMITS * RETRANS_PERIOD]_vars
  BY <1>1
<1> QED BY <1>2, InductiveInvariant, PTL DEF Spec, PuntsAfterAllRexmits

(* A neighbour off a packet's response list never comes back to it while   *)
(* the packet is queued.                                                   *)
THEOREM ListsOnlyShrink == Spec => ResponsesOnlyShrink
<1> DEFINE Shrinks == \A s \in rexmitq \cap rexmitq' :
                        Listed(packet'[s]) \subseteq Listed(packet[s])
<1>1. ASSUME IInv, Next PROVE Shrinks
  <2>1. CASE SendObject
    <3>1. \A t \in rexmitq : packet'[t] = packet[t]
      BY <1>1, <2>1 DEF SendObject, ScheduleReXmit, IInv, MemOK, Memory, Mem
    <3> QED BY <3>1
  <2>2. ASSUME NEW n \in Peers, NEW s \in Seqs, AckInput(n, s) PROVE Shrinks
    <3>1. CASE s \in rexmitq
      <4> DEFINE m == RemoveResponse(Mem, s, n)
      <4>1. Shrunk(Mem, m)
        BY <1>1, <3>1, RemoveOK DEF IInv, Mem
      <4>2. rexmitq' = m.q /\ packet' = m.p
        BY <2>2, <3>1 DEF AckInput
      <4> QED BY <4>1, <4>2 DEF Shrunk, Mem
    <3>2. CASE s \notin rexmitq
      BY <2>2, <3>2 DEF AckInput
    <3> QED BY <3>1, <3>2
  <2>3. ASSUME NEW n \in Peers, LinkDown(n) PROVE Shrinks
    <3> DEFINE m == PurgeReXmitQ(Mem, n)
    <3>1. Shrunk(Mem, m)
      BY <1>1, PurgeOK DEF IInv
    <3>2. rexmitq' = m.q /\ packet' = m.p
      BY <2>3 DEF LinkDown
    <3> HIDE DEF m
    <3> QED BY <3>1, <3>2 DEF Shrunk, Mem
  <2>4. ASSUME NEW s \in Seqs, RexmitTimeout(s) PROVE Shrinks
    <3> DEFINE m == PuntResponders(Mem, s).mem
    <3>1. Shrunk(Mem, m)
      BY <1>1, PuntOK DEF IInv
    <3>2. rexmitq' = m.q /\ packet' = m.p
      BY <2>4 DEF RexmitTimeout
    <3> HIDE DEF m
    <3> QED BY <3>1, <3>2 DEF Shrunk, Mem
  <2>5. ASSUME NEW s \in Seqs, RexmitSend(s) PROVE Shrinks
    <3>1. packet' = [packet EXCEPT ![s] = Retransmitted(packet[s])] /\ packet \in [Seqs -> Packet]
      BY <1>1, <2>5 DEF RexmitSend, IInv, MemOK, Memory, Mem
    <3>2. /\ Retransmitted(packet[s]).num = packet[s].num
          /\ Retransmitted(packet[s]).resp = packet[s].resp
      BY <3>1 DEF Retransmitted, Packet
    <3>3. \A t \in Seqs : Listed(packet'[t]) = Listed(packet[t])
      BY <3>1, <3>2 DEF Listed
    <3> QED BY <1>1, <3>3 DEF IInv, MemOK, Memory, Mem
  <2>6. CASE Tick
    <3>1. packet \in [Seqs -> Packet] /\ rexmitq \subseteq Seqs
      BY <1>1 DEF IInv, MemOK, Memory, Mem
    <3>2. ASSUME NEW t \in rexmitq
          PROVE  packet'[t].num = packet[t].num /\ packet'[t].resp = packet[t].resp
      BY <2>6, <3>1 DEF Tick, Packet
    <3> QED BY <3>2 DEF Listed
  <2>7. CASE RexmitIdle \/ \E n \in Peers, namesUs \in BOOLEAN : HelloInput(n, namesUs)
    BY <2>7 DEF RexmitIdle, HelloInput
  <2> QED BY <1>1, <2>1, <2>2, <2>3, <2>4, <2>5, <2>6, <2>7 DEF Next, HandlerReXmitTimer
<1>2. IInv /\ [Next]_vars => [Shrinks]_vars
  BY <1>1
<1> QED BY <1>2, InductiveInvariant, PTL DEF Spec, ResponsesOnlyShrink

(* A timeout downs the first half of the packet's neighbours and no other, *)
(* and halves its list: the last of k neighbours is downed by the timeout  *)
(* number 1 + log2 k, rounded down (imep.cc 455-491).                      *)
THEOREM TimeoutsHalve == Spec => PuntsFirstHalf
<1> DEFINE Halves(s) ==
      /\ link' = [n \in Peers |-> IF n \in FirstHalf(packet[s]) THEN "NONE" ELSE link[n]]
      /\ Listed(packet'[s]) = Listed(packet[s]) \ FirstHalf(packet[s])
      /\ packet'[s].num = packet[s].num \div 2
      /\ s \in rexmitq' <=> packet[s].num > 1
<1>1. ASSUME IInv, NEW s \in Seqs, RexmitTimeout(s) PROVE Halves(s)
  <2> DEFINE a == PuntResponders(Mem, s)
  <2>1. s \in Mem.q /\ MemOK(Mem, Neighbours) /\ Mem.p = packet
    BY <1>1 DEF RexmitTimeout, IsHead, IInv, Mem
  <2>2. /\ rexmitq' = a.mem.q /\ packet' = a.mem.p
        /\ link' = [n \in Peers |-> IF n \in a.down THEN "NONE" ELSE link[n]]
    BY <1>1 DEF RexmitTimeout
  <2>3. /\ a.down = FirstHalf(Mem.p[s])
        /\ Listed(a.mem.p[s]) = Listed(Mem.p[s]) \ FirstHalf(Mem.p[s])
        /\ a.mem.p[s].num = Mem.p[s].num \div 2
        /\ s \in a.mem.q <=> Mem.p[s].num > 1
    BY <2>1, PuntHalves
  <2> HIDE DEF a
  <2> QED BY <2>1, <2>2, <2>3
<1>2. IInv /\ [Next]_vars => [\A s \in Seqs : RexmitTimeout(s) => Halves(s)]_vars
  BY <1>1
<1> QED BY <1>2, InductiveInvariant, PTL DEF Spec, PuntsFirstHalf

(* An ACK or a lost link of a neighbour on the list takes it off the list, *)
(* nobody else, and ends the packet if it was the last (imep.cc 206-219,   *)
(* 270-289).                                                               *)
THEOREM RespondersAreRemoved == Spec => ResponderRemoved
<1> DEFINE Gone(s, n) ==
      /\ Listed(packet'[s]) = Listed(packet[s]) \ {n}
      /\ s \in rexmitq' <=> Listed(packet[s]) # {n}
<1>1. ASSUME IInv, NEW n \in Peers, NEW s \in rexmitq, n \in Listed(packet[s]),
             AckInput(n, s) \/ LinkDown(n)
      PROVE  Gone(s, n)
  <2> DEFINE p == packet[s]
             r == packet'[s]
  <2>1. /\ MemOK(Mem, Neighbours) /\ s \in Mem.q /\ Mem.p = packet /\ Mem.q = rexmitq
        /\ s \in Seqs /\ packet \in [Seqs -> Packet] /\ QueuedOK(p, Neighbours)
    BY <1>1 DEF IInv, MemOK, Memory, Mem
  <2>2. Removed(p, n, r) /\ (s \in rexmitq' <=> r.num > 0)
    <3>1. CASE AckInput(n, s)
      <4>1. r = Without(p, n) /\ rexmitq' = IF r.num = 0 THEN rexmitq \ {s} ELSE rexmitq
        BY <1>1, <2>1, <3>1 DEF AckInput, RemoveResponse
      <4>2. Removed(p, n, Without(p, n)) /\ Without(p, n) \in Packet
        BY <1>1, <2>1, WithoutListed, WithoutOK
      <4>3. r.num = 0 \/ r.num > 0
        BY <4>1, <4>2, KType DEF Packet, K
      <4> QED BY <1>1, <4>1, <4>2, <4>3
    <3>2. CASE LinkDown(n)
      <4>1. rexmitq' = PurgeReXmitQ(Mem, n).q /\ packet' = PurgeReXmitQ(Mem, n).p
        BY <3>2 DEF LinkDown
      <4>2. /\ Removed(Mem.p[s], n, PurgeReXmitQ(Mem, n).p[s])
            /\ s \in PurgeReXmitQ(Mem, n).q <=> PurgeReXmitQ(Mem, n).p[s].num > 0
        BY <1>1, <2>1, PurgeListed
      <4> QED BY <2>1, <4>1, <4>2
    <3> QED BY <1>1, <3>1, <3>2
  <2> HIDE DEF p, r
  <2>3. r.num = p.num - 1 /\ Listed(r) = Listed(p) \ {n} /\ p.num \in Nat
    <3>1. p \in Packet
      BY <2>1 DEF QueuedOK
    <3> QED BY <2>2, <3>1, KType DEF Removed, Packet, K
  <2>4. Listed(p) = {n} => p.num = 1
    <3>1. ASSUME Listed(p) = {n}, p.num # 1 PROVE FALSE
      <4>1. p.num > 1
        BY <2>1, <2>3, <3>1 DEF QueuedOK
      <4>2. 1 \in 1 .. p.num /\ 2 \in 1 .. p.num
        BY <2>3, <4>1
      <4>3. p.resp[1] \in Listed(p) /\ p.resp[2] \in Listed(p)
        BY <4>2 DEF Listed
      <4>4. p.resp[1] = p.resp[2]
        BY <3>1, <4>3
      <4> QED BY <2>1, <4>2, <4>4 DEF QueuedOK
    <3> QED BY <3>1
  <2>5. p.num = 1 => Listed(p) = {n}
    BY <1>1 DEF Listed, p
  <2>6. QueuedOK(p, Neighbours) /\ p.num > 0
    BY <2>1 DEF QueuedOK
  <2> QED BY <2>2, <2>3, <2>4, <2>5, <2>6 DEF p, r
<1>2. IInv /\ [Next]_vars =>
        [\A n \in Peers, s \in Seqs :
           s \in rexmitq /\ n \in Listed(packet[s]) /\ (AckInput(n, s) \/ LinkDown(n))
             => Gone(s, n)]_vars
  BY <1>1
<1> QED BY <1>2, InductiveInvariant, PTL DEF Spec, ResponderRemoved

=============================================================================
