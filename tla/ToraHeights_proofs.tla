-------------------------- MODULE ToraHeights_proofs --------------------------
(***************************************************************************)
(* Facts about heights and about the table a router keeps, for all sets of *)
(* routers: the order of heights is strict, total and has least elements;  *)
(* each operator on a table keeps what a table promises.                   *)
(***************************************************************************)
EXTENDS Tora, InductionLemmas

LEMMA HeightTuple ==
  ASSUME NEW a \in Int, NEW b \in Int, NEW c \in Int, NEW d \in Int, NEW e \in Int
  PROVE  <<a, b, c, d, e>> \in Height
BY DEF Height

(* Lower, spelled out. *)
LEMMA LowerCases ==
  ASSUME NEW g \in Height, NEW h \in Height
  PROVE  Lower(g, h) <=>
           \/ g[1] < h[1]
           \/ g[1] = h[1] /\ g[2] < h[2]
           \/ g[1] = h[1] /\ g[2] = h[2] /\ g[3] < h[3]
           \/ g[1] = h[1] /\ g[2] = h[2] /\ g[3] = h[3] /\ g[4] < h[4]
           \/ g[1] = h[1] /\ g[2] = h[2] /\ g[3] = h[3] /\ g[4] = h[4] /\ g[5] < h[5]
<1> USE DEF Height
<1>1. \A n \in 1 .. 5 : n = 1 \/ n = 2 \/ n = 3 \/ n = 4 \/ n = 5
  OBVIOUS
<1>2. ASSUME NEW n \in 1 .. 5, g[n] < h[n], \A m \in 1 .. n - 1 : g[m] = h[m]
      PROVE  \/ g[1] < h[1]
             \/ g[1] = h[1] /\ g[2] < h[2]
             \/ g[1] = h[1] /\ g[2] = h[2] /\ g[3] < h[3]
             \/ g[1] = h[1] /\ g[2] = h[2] /\ g[3] = h[3] /\ g[4] < h[4]
             \/ g[1] = h[1] /\ g[2] = h[2] /\ g[3] = h[3] /\ g[4] = h[4] /\ g[5] < h[5]
  BY <1>2, <1>1
<1>3. ASSUME g[1] < h[1] PROVE Lower(g, h)
  BY <1>3, 1 \in 1 .. 5 DEF Lower
<1>4. ASSUME g[1] = h[1], g[2] < h[2] PROVE Lower(g, h)
  BY <1>4, 2 \in 1 .. 5, \A m \in 1 .. 2 - 1 : m = 1 DEF Lower
<1>5. ASSUME g[1] = h[1], g[2] = h[2], g[3] < h[3] PROVE Lower(g, h)
  BY <1>5, 3 \in 1 .. 5, \A m \in 1 .. 3 - 1 : m = 1 \/ m = 2 DEF Lower
<1>6. ASSUME g[1] = h[1], g[2] = h[2], g[3] = h[3], g[4] < h[4] PROVE Lower(g, h)
  BY <1>6, 4 \in 1 .. 5, \A m \in 1 .. 4 - 1 : m = 1 \/ m = 2 \/ m = 3 DEF Lower
<1>7. ASSUME g[1] = h[1], g[2] = h[2], g[3] = h[3], g[4] = h[4], g[5] < h[5] PROVE Lower(g, h)
  BY <1>7, 5 \in 1 .. 5, \A m \in 1 .. 5 - 1 : m = 1 \/ m = 2 \/ m = 3 \/ m = 4 DEF Lower
<1> QED BY <1>2, <1>3, <1>4, <1>5, <1>6, <1>7 DEF Lower

LEMMA LowerOrder ==
  /\ \A g \in Height : ~ Lower(g, g)
  /\ \A g, h, k \in Height : Lower(g, h) /\ Lower(h, k) => Lower(g, k)
<1>1. ASSUME NEW g \in Height PROVE ~ Lower(g, g)
  BY LowerCases DEF Height
<1>2. ASSUME NEW g \in Height, NEW h \in Height, NEW k \in Height, Lower(g, h), Lower(h, k)
      PROVE  Lower(g, k)
  <2>1. \A n \in 1 .. 5 : g[n] \in Int /\ h[n] \in Int /\ k[n] \in Int
    BY DEF Height
  <2> QED BY <1>2, <2>1, LowerCases
<1> QED BY <1>1, <1>2

(* A finite nonempty set has a least element in every strict order: one    *)
(* nothing in the set is below.  R is the order as a set of pairs.         *)
LEMMA FiniteMinimal ==
  ASSUME NEW S, IsFiniteSet(S), S # {}, NEW R,
         \A x \in S : ~(<<x, x>> \in R),
         \A x, y, z \in S : <<x, y>> \in R /\ <<y, z>> \in R => <<x, z>> \in R
  PROVE  \E x \in S : \A y \in S : ~(<<y, x>> \in R)
<1> DEFINE Has(T) == \E x \in T : \A y \in T : ~(<<y, x>> \in R)
           N == {n \in Nat : \A T \in SUBSET S : Cardinality(T) = n + 1 => Has(T)}
<1>1. \A T \in SUBSET S : IsFiniteSet(T) /\ Cardinality(T) \in Nat
  BY FS_Subset, FS_CardinalityType
<1>2. 0 \in N
  <2> SUFFICES ASSUME NEW T \in SUBSET S, Cardinality(T) = 0 + 1 PROVE Has(T)
    OBVIOUS
  <2>1. PICK x : T = {x}
    BY <1>1, FS_Singleton, 0 + 1 = 1
  <2> QED BY <2>1
<1>3. ASSUME NEW n \in Nat, n \in N PROVE n + 1 \in N
  <2> SUFFICES ASSUME NEW T \in SUBSET S, Cardinality(T) = n + 1 + 1 PROVE Has(T)
    OBVIOUS
  <2>1. PICK z \in T : TRUE
    BY <1>1, FS_EmptySet
  <2>2. Cardinality(T \ {z}) = n + 1
    BY <1>1, FS_RemoveElement
  <2>3. PICK x \in T \ {z} : \A y \in T \ {z} : ~(<<y, x>> \in R)
    BY <1>3, <2>2
  <2>4. CASE ~(<<z, x>> \in R)
    BY <2>3, <2>4
  <2>5. CASE <<z, x>> \in R
    <3>1. \A y \in T : ~(<<y, z>> \in R)
      BY <2>1, <2>3, <2>5
    <3> QED BY <2>1, <3>1
  <2> QED BY <2>4, <2>5
<1>4. Nat \subseteq N
  <2> HIDE DEF N
  <2> QED BY <1>2, <1>3, SetInduction
<1>5. Cardinality(S) \in Nat /\ Cardinality(S) # 0
  BY FS_CardinalityType, FS_EmptySet
<1>6. Cardinality(S) - 1 \in Nat /\ (Cardinality(S) - 1) + 1 = Cardinality(S)
  BY <1>5
<1> QED BY <1>4, <1>6

-----------------------------------------------------------------------------
(* Counts of directions.                                                   *)
Statuses == {"UP", "DN", "UN"}

LEMMA CountType ==
  ASSUME NEW L, IsFiniteSet(L), NEW f \in [L -> Statuses], NEW s
  PROVE  /\ Count(f, s) \in Nat
         /\ Count(f, s) = 0 <=> \A k \in L : f[k] # s
<1>1. {k \in L : f[k] = s} \in SUBSET L /\ DOMAIN f = L
  OBVIOUS
<1>2. IsFiniteSet({k \in L : f[k] = s})
  BY <1>1, FS_Subset
<1> QED BY <1>1, <1>2, FS_CardinalityType, FS_EmptySet DEF Count

(* Two functions that differ at k only.                                    *)
LEMMA CountDiffers ==
  ASSUME NEW L, IsFiniteSet(L), NEW M, NEW k, L \ {k} = M \ {k},
         NEW f \in [L -> Statuses], NEW g \in [M -> Statuses],
         \A j \in L \ {k} : f[j] = g[j], NEW s
  PROVE  Count(g, s) = Count(f, s) - One(k \in L /\ f[k] = s) + One(k \in M /\ g[k] = s)
<1> DEFINE F == {j \in L : f[j] = s}
           G == {j \in M : g[j] = s}
           C == F \ {k}
<1>1. F \in SUBSET L /\ C = G \ {k}
  OBVIOUS
<1>2. IsFiniteSet(F) /\ IsFiniteSet(C)
  BY <1>1, FS_Subset, FS_RemoveElement
<1>3. F = IF k \in L /\ f[k] = s THEN C \cup {k} ELSE C
  OBVIOUS
<1>4. G = IF k \in M /\ g[k] = s THEN C \cup {k} ELSE C
  BY <1>1
<1>5. k \notin C /\ Cardinality(C) \in Nat
  BY <1>2, FS_CardinalityType
<1>6. Cardinality(C \cup {k}) = Cardinality(C) + 1
  BY <1>2, <1>5, FS_AddElement
<1>7. Count(f, s) = Cardinality(F) /\ Count(g, s) = Cardinality(G)
  BY DEF Count
<1> HIDE DEF F, G, C
<1>8. Count(f, s) = Cardinality(C) + One(k \in L /\ f[k] = s)
  BY <1>3, <1>5, <1>6, <1>7 DEF One
<1>9. Count(g, s) = Cardinality(C) + One(k \in M /\ g[k] = s)
  BY <1>4, <1>5, <1>6, <1>7 DEF One
<1> QED BY <1>5, <1>8, <1>9 DEF One

(* A count does not grow where directions are only given up.               *)
LEMMA CountShrinks ==
  ASSUME NEW L, IsFiniteSet(L), NEW f \in [L -> Statuses], NEW g \in [L -> Statuses],
         NEW s, \A j \in L : g[j] = s => f[j] = s
  PROVE  Count(g, s) <= Count(f, s)
<1>1. {k \in L : f[k] = s} \in SUBSET L
      /\ {k \in L : g[k] = s} \in SUBSET {k \in L : f[k] = s}
  OBVIOUS
<1>2. IsFiniteSet({k \in L : f[k] = s})
  BY <1>1, FS_Subset
<1>3. Cardinality({k \in L : g[k] = s}) <= Cardinality({k \in L : f[k] = s})
  BY <1>1, <1>2, FS_Subset
<1> QED BY <1>3 DEF Count

-----------------------------------------------------------------------------
(* What a table promises at time t, if the neighbours are L.  All heights  *)
(* but the destination's are above its own, and no level is of the future. *)
Valid(h, t) == h \in Height /\ (h = Null \/ (Lower(Zero, h) /\ h[1] <= t))

Tables(L) ==
  [height : Height, rt_req : BOOLEAN, num_up : Int, num_down : Int,
   heard : [L -> Height], lnk_stat : [L -> Statuses], recent : SUBSET Nodes]

Heard(d, t) ==
  \A k \in DOMAIN d.heard : IF k = Dest THEN d.heard[k] = Zero ELSE Valid(d.heard[k], t)
Agree(d) ==
  \A k \in DOMAIN d.heard : d.lnk_stat[k] = LinkStatus(d.height, d.heard[k])

(* A router with a height counts no link too few: all it may do is count   *)
(* links a CLR has cleared.                                                *)
Over(d) ==
  d.height # Null => /\ Count(d.lnk_stat, "UP") <= d.num_up
                     /\ Count(d.lnk_stat, "DN") <= d.num_down
Exact(d) ==
  /\ d.num_up = Count(d.lnk_stat, "UP")
  /\ d.num_down = Count(d.lnk_stat, "DN")

TableOK(d, L, t) ==
  d \in Tables(L) /\ Valid(d.height, t) /\ Heard(d, t) /\ Agree(d) /\ Over(d)

LEMMA NodesFinite == IsFiniteSet(Nodes) /\ \A L \in SUBSET Nodes : IsFiniteSet(L)
<1>1. IsFiniteSet(Nodes)
  BY AddressAssumption, FS_AddElement DEF Nodes
<1> QED BY <1>1, FS_Subset

LEMMA SpecialHeights ==
  /\ Null \in Height /\ Zero \in Height /\ Null # Zero
  /\ Null[1] = -1 /\ Null[3] = -1
  /\ \A n \in 1 .. 4 : Zero[n] = 0
  /\ \A t \in Nat : Valid(Null, t)
<1>1. -1 \in Int /\ 0 \in Int /\ Dest \in Int
  BY AddressAssumption
<1>2. Null \in Height /\ Zero \in Height
  BY <1>1, HeightTuple DEF Null, Zero
<1>3. Null[1] = -1 /\ Null[3] = -1 /\ Zero[1] = 0
  BY DEF Null, Zero
<1>4. \A n \in 1 .. 4 : Zero[n] = 0
  BY DEF Zero
<1> QED BY <1>2, <1>3, <1>4 DEF Valid

LEMMA ValidLater ==
  ASSUME NEW t \in Nat, NEW u \in Nat, t <= u, NEW h, Valid(h, t)
  PROVE  Valid(h, u)
BY DEF Valid, Height

LEMMA TableLater ==
  ASSUME NEW t \in Nat, NEW u \in Nat, t <= u, NEW L, NEW d, TableOK(d, L, t)
  PROVE  TableOK(d, L, u)
BY ValidLater DEF TableOK, Heard

(* A level that is not below the destination's.                            *)
LEMMA ValidLevel ==
  ASSUME NEW t \in Nat, NEW h, Valid(h, t), h # Null
  PROVE  /\ h[1] \in 0 .. t
         /\ \A n \in 1 .. 5 : h[n] \in Int
         /\ \/ h[1] > 0
            \/ h[1] = 0 /\ h[2] > 0
            \/ h[1] = 0 /\ h[2] = 0 /\ h[3] > 0
            \/ h[1] = 0 /\ h[2] = 0 /\ h[3] = 0 /\ h[4] >= 0
<1>1. h \in Height /\ Lower(Zero, h) /\ h[1] <= t
  BY DEF Valid
<1>2. \A n \in 1 .. 5 : h[n] \in Int
  BY <1>1 DEF Height
<1> QED BY <1>1, <1>2, LowerCases, SpecialHeights

-----------------------------------------------------------------------------
(* The operators on tables.                                                *)
LEMMA LinkStatusType ==
  \A g, h : LinkStatus(g, h) \in Statuses /\ (LinkStatus(g, h) = "UN" <=> h = Null)
BY DEF LinkStatus, Statuses

(* A new height: directions and counters are made anew.                    *)
LEMMA UpdateHeightOK ==
  ASSUME NEW L \in SUBSET Nodes, NEW t \in Nat, NEW u \in Nat, t <= u,
         NEW d, TableOK(d, L, t), NEW h, Valid(h, u)
  PROVE  LET e == UpdateHeight(d, h) IN
         /\ TableOK(e, L, u) /\ Exact(e)
         /\ e.height = h /\ e.heard = d.heard /\ e.rt_req = d.rt_req
<1> DEFINE e == UpdateHeight(d, h)
           lnk == [k \in DOMAIN d.heard |-> LinkStatus(h, d.heard[k])]
<1>1. d \in Tables(L) /\ DOMAIN d.heard = L
  BY DEF TableOK, Tables
<1>2. lnk \in [L -> Statuses]
  BY <1>1, LinkStatusType
<1>3. Count(lnk, "UP") \in Nat /\ Count(lnk, "DN") \in Nat
  BY <1>2, CountType, NodesFinite
<1>4. /\ e.height = h /\ e.lnk_stat = lnk /\ e.heard = d.heard
      /\ e.num_up = Count(lnk, "UP") /\ e.num_down = Count(lnk, "DN")
      /\ e.rt_req = d.rt_req
  BY <1>1 DEF UpdateHeight, Tables
<1>5. e \in Tables(L)
  <2>1. e = [d EXCEPT !.height = h, !.lnk_stat = lnk,
                      !.num_up = Count(lnk, "UP"), !.num_down = Count(lnk, "DN")]
    BY DEF UpdateHeight
  <2>2. h \in Height /\ Count(lnk, "UP") \in Int /\ Count(lnk, "DN") \in Int
    BY <1>3 DEF Valid
  <2> HIDE DEF e, lnk
  <2> DEFINE up == Count(lnk, "UP")
             down == Count(lnk, "DN")
  <2>3. up \in Int /\ down \in Int /\ e = [d EXCEPT !.height = h, !.lnk_stat = lnk, !.num_up = up, !.num_down = down]
    BY <2>1, <2>2
  <2> HIDE DEF up, down
  <2> QED BY <1>1, <1>2, <2>2, <2>3 DEF Tables
<1>6. Heard(e, u)
  BY <1>4, TableLater DEF TableOK, Heard
<1>7. Agree(e) /\ Exact(e)
  BY <1>4 DEF Agree, Exact
<1>8. Over(e)
  BY <1>3, <1>4 DEF Over
<1> QED BY <1>4, <1>5, <1>6, <1>7, <1>8 DEF TableOK

(* One neighbour's height: its direction changes, and so do the counters.  *)
LEMMA UpdateHeightNbOK ==
  ASSUME NEW L \in SUBSET Nodes, NEW t \in Nat, NEW d, TableOK(d, L, t),
         NEW k \in L, k # Dest, NEW h, Valid(h, t)
  PROVE  LET e == UpdateHeightNb(d, k, h) IN
         /\ TableOK(e, L, t) /\ (Exact(d) => Exact(e))
         /\ e.height = d.height /\ e.rt_req = d.rt_req
<1> DEFINE e == UpdateHeightNb(d, k, h)
           now == LinkStatus(d.height, h)
           lnk == [d.lnk_stat EXCEPT ![k] = now]
           hrd == [d.heard EXCEPT ![k] = h]
           up == d.num_up + One(now = "UP") - One(d.lnk_stat[k] = "UP")
           down == d.num_down + One(now = "DN") - One(d.lnk_stat[k] = "DN")
<1>1. d \in Tables(L) /\ DOMAIN d.heard = L /\ h \in Height
  BY DEF TableOK, Tables, Valid
<1>2. now \in Statuses
  BY LinkStatusType
<1>3. lnk \in [L -> Statuses] /\ hrd \in [L -> Height] /\ up \in Int /\ down \in Int
  BY <1>1, <1>2 DEF Tables, One
<1>4. e = [d EXCEPT !.heard = hrd, !.lnk_stat = lnk, !.num_up = up, !.num_down = down]
  BY <1>1 DEF UpdateHeightNb, Tables
<1>5. /\ e.height = d.height /\ e.lnk_stat = lnk /\ e.heard = hrd
      /\ e.num_up = up /\ e.num_down = down /\ e.rt_req = d.rt_req
  <2> HIDE DEF e, lnk, hrd, up, down
  <2> QED BY <1>1, <1>4 DEF Tables
<1>6. e \in Tables(L)
  <2> HIDE DEF e, lnk, hrd, up, down
  <2> QED BY <1>1, <1>3, <1>4 DEF Tables
<1>7. \A j \in L : hrd[j] = (IF j = k THEN h ELSE d.heard[j])
                  /\ lnk[j] = (IF j = k THEN now ELSE d.lnk_stat[j])
  BY <1>1 DEF Tables
<1>8. DOMAIN hrd = L
  BY <1>3
<1>9. Heard(e, t)
  <2> HIDE DEF e, lnk, hrd
  <2> QED BY <1>1, <1>5, <1>7, <1>8 DEF TableOK, Heard
<1>10. Agree(e)
  <2> HIDE DEF e, lnk, hrd
  <2> QED BY <1>1, <1>5, <1>7, <1>8 DEF TableOK, Agree
<1>11. ASSUME NEW s
       PROVE  Count(lnk, s) = Count(d.lnk_stat, s) - One(d.lnk_stat[k] = s) + One(now = s)
  <2>1. d.lnk_stat \in [L -> Statuses]
    BY <1>1 DEF Tables
  <2>2. IsFiniteSet(L) /\ L \ {k} = L \ {k} /\ \A j \in L \ {k} : d.lnk_stat[j] = lnk[j]
    BY NodesFinite, <1>7
  <2> HIDE DEF lnk
  <2>3. Count(lnk, s) = Count(d.lnk_stat, s) - One(k \in L /\ d.lnk_stat[k] = s)
                        + One(k \in L /\ lnk[k] = s)
    BY <1>3, <2>1, <2>2, CountDiffers
  <2> QED BY <2>3, <1>7 DEF One
<1>12. Count(d.lnk_stat, "UP") \in Nat /\ Count(d.lnk_stat, "DN") \in Nat
  BY <1>1, CountType, NodesFinite DEF Tables
<1>13. d.num_up \in Int /\ d.num_down \in Int
  BY <1>1 DEF Tables
<1>14. Over(e)
  <2> HIDE DEF e, lnk, hrd
  <2> QED BY <1>5, <1>11, <1>12, <1>13 DEF TableOK, Over, One
<1>15. Exact(d) => Exact(e)
  <2> HIDE DEF e, lnk, hrd
  <2> QED BY <1>5, <1>11, <1>12, <1>13 DEF Exact, One
<1>16. /\ e.height = d.height /\ e.rt_req = d.rt_req /\ TableOK(e, L, t)
  <2> HIDE DEF e
  <2> QED BY <1>5, <1>6, <1>9, <1>10, <1>14 DEF TableOK
<1> QED BY <1>15, <1>16

(* Nothing else matters than the heights, the directions and the counters. *)
LEMMA SameTable ==
  ASSUME NEW L, NEW t, NEW d, TableOK(d, L, t), NEW e \in Tables(L),
         e.height = d.height, e.heard = d.heard, e.lnk_stat = d.lnk_stat,
         e.num_up = d.num_up, e.num_down = d.num_down
  PROVE  TableOK(e, L, t) /\ (Exact(d) => Exact(e)) /\ (HasNextHop(d) <=> HasNextHop(e))
BY DEF TableOK, Heard, Agree, Over, Exact, HasNextHop

LEMMA ToldOK ==
  ASSUME NEW L, NEW t, NEW d, TableOK(d, L, t)
  PROVE  LET e == Told(d) IN
         /\ TableOK(e, L, t) /\ (Exact(d) => Exact(e)) /\ (HasNextHop(d) <=> HasNextHop(e))
         /\ e.height = d.height /\ e.heard = d.heard /\ e.rt_req = d.rt_req
<1> DEFINE e == Told(d)
<1>1. d \in Tables(L)
  BY DEF TableOK
<1>2. /\ e \in Tables(L) /\ e.height = d.height /\ e.heard = d.heard
      /\ e.lnk_stat = d.lnk_stat /\ e.num_up = d.num_up /\ e.num_down = d.num_down
      /\ e.rt_req = d.rt_req
  BY <1>1 DEF Told, Tables
<1> HIDE DEF e
<1>3. TableOK(e, L, t) /\ (Exact(d) => Exact(e)) /\ (HasNextHop(d) <=> HasNextHop(e))
  BY <1>2, SameTable
<1> QED BY <1>2, <1>3 DEF e

LEMMA RequestOK ==
  ASSUME NEW L, NEW t, NEW d, TableOK(d, L, t), NEW b \in BOOLEAN
  PROVE  LET e == [d EXCEPT !.rt_req = b] IN
         /\ TableOK(e, L, t) /\ (Exact(d) => Exact(e)) /\ (HasNextHop(d) <=> HasNextHop(e))
         /\ e.height = d.height /\ e.heard = d.heard
<1> DEFINE e == [d EXCEPT !.rt_req = b]
<1>1. d \in Tables(L)
  BY DEF TableOK
<1>2. /\ e \in Tables(L) /\ e.height = d.height /\ e.heard = d.heard
      /\ e.lnk_stat = d.lnk_stat /\ e.num_up = d.num_up /\ e.num_down = d.num_down
  BY <1>1 DEF Tables
<1> HIDE DEF e
<1>3. TableOK(e, L, t) /\ (Exact(d) => Exact(e)) /\ (HasNextHop(d) <=> HasNextHop(e))
  BY <1>2, SameTable
<1> QED BY <1>2, <1>3 DEF e

(* A height is erased when no link is up or down: the neighbours are       *)
(* undirected then, and remain so.                                         *)
LEMMA NulledOK ==
  ASSUME NEW L \in SUBSET Nodes, NEW t \in Nat, NEW d, TableOK(d, L, t),
         d.height # Null, d.num_up = 0, d.num_down = 0
  PROVE  LET e == Nulled(d) IN
         /\ TableOK(e, L, t) /\ (Exact(d) => Exact(e))
         /\ e.height = Null /\ e.heard = d.heard
<1> DEFINE e == Nulled(d)
<1>1. d \in Tables(L) /\ Null \in Height /\ Valid(Null, t) /\ IsFiniteSet(L)
  BY SpecialHeights, NodesFinite DEF TableOK
<1>2. /\ e \in Tables(L) /\ e.height = Null /\ e.heard = d.heard
      /\ e.lnk_stat = d.lnk_stat /\ e.num_up = d.num_up /\ e.num_down = d.num_down
  BY <1>1 DEF Nulled, Told, Tables
<1>3. d.lnk_stat \in [L -> Statuses] /\ DOMAIN d.heard = L
  BY <1>1 DEF Tables
<1>4. \A k \in L : d.lnk_stat[k] # "UP" /\ d.lnk_stat[k] # "DN"
  <2>1. Count(d.lnk_stat, "UP") <= 0 /\ Count(d.lnk_stat, "DN") <= 0
    BY DEF TableOK, Over
  <2>2. /\ Count(d.lnk_stat, "UP") \in Nat /\ Count(d.lnk_stat, "DN") \in Nat
        /\ Count(d.lnk_stat, "UP") = 0 <=> \A k \in L : d.lnk_stat[k] # "UP"
        /\ Count(d.lnk_stat, "DN") = 0 <=> \A k \in L : d.lnk_stat[k] # "DN"
    BY <1>1, <1>3, CountType
  <2> QED BY <2>1, <2>2
<1>5. \A k \in L : d.lnk_stat[k] = "UN" /\ d.heard[k] = Null
  BY <1>3, <1>4, LinkStatusType DEF TableOK, Agree, Statuses
<1> HIDE DEF e
<1>6. Agree(e)
  BY <1>2, <1>3, <1>5 DEF Agree, LinkStatus
<1>7. Heard(e, t) /\ Over(e) /\ (Exact(d) => Exact(e))
  BY <1>2 DEF TableOK, Heard, Over, Exact
<1> QED BY <1>1, <1>2, <1>6, <1>7 DEF TableOK, e

(* Everything is erased: what is left is the link to the destination.      *)
LEMMA ErasedOK ==
  ASSUME NEW L \in SUBSET Nodes, NEW t \in Nat, NEW d, TableOK(d, L, t)
  PROVE  LET e == Erased(d) IN
         /\ TableOK(e, L, t) /\ (Dest \notin L => Exact(e))
         /\ e.height = Null /\ e.heard = [k \in L |-> Fresh(k)]
<1> DEFINE e == Erased(d)
           hrd == [k \in L |-> Fresh(k)]
           lnk == [k \in L |-> FreshLink(k)]
<1>1. d \in Tables(L) /\ DOMAIN d.heard = L /\ Null \in Height /\ Zero \in Height /\ Null # Zero
  BY SpecialHeights DEF TableOK, Tables
<1>2. hrd \in [L -> Height] /\ lnk \in [L -> Statuses]
  BY <1>1 DEF Fresh, FreshLink, Statuses
<1>3. e = [d EXCEPT !.height = Null, !.num_up = 0, !.num_down = 0, !.heard = hrd, !.lnk_stat = lnk]
  BY <1>1 DEF Erased
<1>4. /\ e \in Tables(L) /\ e.height = Null /\ e.heard = hrd /\ e.lnk_stat = lnk
      /\ e.num_up = 0 /\ e.num_down = 0
  <2> DEFINE up == 0
             down == 0
  <2>1. /\ up \in Int /\ down \in Int
        /\ e = [d EXCEPT !.height = Null, !.num_up = up, !.num_down = down, !.heard = hrd,
                          !.lnk_stat = lnk]
    BY <1>3
  <2>2. up = 0 /\ down = 0
    OBVIOUS
  <2> HIDE DEF e, hrd, lnk, up, down
  <2>3. e \in Tables(L)
    BY <1>1, <1>2, <2>1 DEF Tables
  <2>4. /\ e.height = Null /\ e.heard = hrd /\ e.lnk_stat = lnk
        /\ e.num_up = up /\ e.num_down = down
    BY <1>1, <1>2, <2>1 DEF Tables
  <2> QED BY <2>2, <2>3, <2>4
<1>5. \A k \in L : hrd[k] = Fresh(k) /\ lnk[k] = FreshLink(k)
  OBVIOUS
<1>6. Heard(e, t) /\ Agree(e) /\ Over(e)
  <2> HIDE DEF e, hrd, lnk
  <2>1. DOMAIN hrd = L
    BY <1>2
  <2> QED BY <1>1, <1>4, <1>5, <2>1, SpecialHeights
          DEF Heard, Agree, Over, Fresh, FreshLink, LinkStatus
<1>7. ASSUME Dest \notin L PROVE Exact(e)
  <2> HIDE DEF e, hrd, lnk
  <2>1. \A k \in L : lnk[k] = "UN"
    BY <1>5, <1>7 DEF FreshLink
  <2>2. Count(lnk, "UP") = 0 /\ Count(lnk, "DN") = 0
    BY <1>2, <2>1, CountType, NodesFinite
  <2> QED BY <1>4, <2>2 DEF Exact
<1>8. Valid(Null, t)
  BY SpecialHeights
<1> QED BY <1>4, <1>6, <1>7, <1>8 DEF TableOK

(* A CLR of a neighbour: directions are only given up.                     *)
LEMMA ForgottenOK ==
  ASSUME NEW L \in SUBSET Nodes, NEW t \in Nat, NEW d, TableOK(d, L, t),
         NEW k \in L, k # Dest, NEW m
  PROVE  LET e == Forgotten(d, k, m) IN
         /\ TableOK(e, L, t)
         /\ Exact(d) /\ e.lnk_stat = d.lnk_stat => Exact(e)
         /\ e.height = d.height /\ e.rt_req = d.rt_req
         /\ e.num_up = d.num_up /\ e.num_down = d.num_down
         /\ \A j \in L : e.heard[j] \in {Null, d.heard[j]}
         /\ e.heard[k] = Null
         /\ Dest \in L => e.heard[Dest] = Zero
<1> DEFINE e == Forgotten(d, k, m)
           gone == {k} \cup {j \in DOMAIN d.heard : OfLevel(d.heard[j], m.tau, m.oid)}
           hrd == [j \in L |-> IF j \in gone THEN Null ELSE d.heard[j]]
           lnk == [j \in L |-> IF j \in gone THEN "UN" ELSE d.lnk_stat[j]]
<1>1. /\ d \in Tables(L) /\ DOMAIN d.heard = L /\ DOMAIN d.lnk_stat = L
      /\ d.heard \in [L -> Height] /\ d.lnk_stat \in [L -> Statuses]
  BY DEF TableOK, Tables
<1>2. e = [d EXCEPT !.heard = hrd, !.lnk_stat = lnk]
  BY <1>1 DEF Forgotten
<1>3. hrd \in [L -> Height] /\ lnk \in [L -> Statuses]
  <2> HIDE DEF gone
  <2> QED BY <1>1, SpecialHeights DEF Statuses
<1>4. /\ e \in Tables(L) /\ e.height = d.height /\ e.heard = hrd /\ e.lnk_stat = lnk
      /\ e.num_up = d.num_up /\ e.num_down = d.num_down /\ e.rt_req = d.rt_req
  <2> HIDE DEF e, hrd, lnk
  <2> QED BY <1>1, <1>2, <1>3 DEF Tables
<1>5. Dest \notin gone
  <2>1. Zero[3] = 0 /\ Zero[3] # 1
    BY DEF Zero
  <2>2. Dest \in L => d.heard[Dest] = Zero
    BY <1>1 DEF TableOK, Heard
  <2> QED BY <1>1, <2>1, <2>2 DEF OfLevel
<1>6. k \in gone
  OBVIOUS
<1>7. \A j \in L : /\ hrd[j] = (IF j \in gone THEN Null ELSE d.heard[j])
                   /\ lnk[j] = (IF j \in gone THEN "UN" ELSE d.lnk_stat[j])
  OBVIOUS
<1>8. DOMAIN hrd = L
  OBVIOUS
<1> HIDE DEF hrd, lnk, gone
<1>9. Heard(e, t) /\ Agree(e)
  <2> HIDE DEF e
  <2> QED BY <1>1, <1>4, <1>5, <1>7, <1>8, SpecialHeights
          DEF TableOK, Heard, Agree, LinkStatus
<1>10. Over(e)
  <2>1. Count(lnk, "UP") <= Count(d.lnk_stat, "UP") /\ Count(lnk, "DN") <= Count(d.lnk_stat, "DN")
    BY <1>1, <1>3, <1>7, CountShrinks, NodesFinite
  <2>2. /\ Count(lnk, "UP") \in Nat /\ Count(lnk, "DN") \in Nat
        /\ Count(d.lnk_stat, "UP") \in Nat /\ Count(d.lnk_stat, "DN") \in Nat
    BY <1>1, <1>3, CountType, NodesFinite
  <2>3. d.num_up \in Int /\ d.num_down \in Int
    BY <1>1 DEF Tables
  <2> HIDE DEF e
  <2> QED BY <1>4, <2>1, <2>2, <2>3 DEF TableOK, Over
<1>11. Exact(d) /\ e.lnk_stat = d.lnk_stat => Exact(e)
  <2> HIDE DEF e
  <2> QED BY <1>4 DEF Exact
<1>12. /\ \A j \in L : e.heard[j] \in {Null, d.heard[j]}
       /\ e.heard[k] = Null
       /\ Dest \in L => e.heard[Dest] = Zero
  <2> HIDE DEF e
  <2> QED BY <1>1, <1>4, <1>5, <1>6, <1>7 DEF TableOK, Heard
<1> QED BY <1>4, <1>9, <1>10, <1>11, <1>12 DEF TableOK

(* A neighbour is added with the height Fresh takes of it.                 *)
LEMMA FreshStatus ==
  ASSUME NEW t, NEW h, Valid(h, t), NEW k
  PROVE  FreshLink(k) = LinkStatus(h, Fresh(k))
BY SpecialHeights DEF FreshLink, Fresh, LinkStatus, Valid

LEMMA AddedOK ==
  ASSUME NEW L \in SUBSET Nodes, NEW t \in Nat, NEW d, TableOK(d, L, t),
         NEW k \in Nodes \ L
  PROVE  LET e == Added(d, k) IN
         /\ TableOK(e, L \cup {k}, t) /\ (Exact(d) => Exact(e))
         /\ (HasNextHop(d) => HasNextHop(e))
         /\ e.height = d.height /\ e.rt_req = d.rt_req
         /\ e.heard[k] = Fresh(k) /\ \A j \in L : e.heard[j] = d.heard[j]
<1> DEFINE e == Added(d, k)
           M == L \cup {k}
           hrd == [j \in M |-> IF j = k THEN Fresh(k) ELSE d.heard[j]]
           lnk == [j \in M |-> IF j = k THEN FreshLink(k) ELSE d.lnk_stat[j]]
           down == d.num_down + One(k = Dest)
           rec == d.recent \cup {k}
<1>1. /\ d \in Tables(L) /\ DOMAIN d.heard = L /\ DOMAIN d.lnk_stat = L
      /\ d.heard \in [L -> Height] /\ d.lnk_stat \in [L -> Statuses]
      /\ d.num_up \in Int /\ d.num_down \in Int
  BY DEF TableOK, Tables
<1>2. e = [d EXCEPT !.heard = hrd, !.lnk_stat = lnk, !.num_down = down, !.recent = rec]
  BY <1>1 DEF Added
<1>3. /\ hrd \in [M -> Height] /\ lnk \in [M -> Statuses] /\ down \in Int
      /\ rec \in SUBSET Nodes /\ FreshLink(k) \in {"UN", "DN"}
  BY <1>1, SpecialHeights DEF Statuses, Fresh, FreshLink, One, Tables
<1>4. /\ e \in Tables(M) /\ e.height = d.height /\ e.heard = hrd /\ e.lnk_stat = lnk
      /\ e.num_up = d.num_up /\ e.num_down = down /\ e.rt_req = d.rt_req
  <2> HIDE DEF e, hrd, lnk, down, rec, M
  <2> QED BY <1>1, <1>2, <1>3 DEF Tables
<1>5. \A j \in M : /\ hrd[j] = (IF j = k THEN Fresh(k) ELSE d.heard[j])
                   /\ lnk[j] = (IF j = k THEN FreshLink(k) ELSE d.lnk_stat[j])
  OBVIOUS
<1>6. DOMAIN hrd = M /\ k \notin L /\ DOMAIN lnk = M
  OBVIOUS
<1> HIDE DEF hrd, lnk
<1>7. Heard(e, t)
  <2> HIDE DEF e
  <2> QED BY <1>1, <1>4, <1>5, <1>6, SpecialHeights DEF TableOK, Heard, Fresh
<1>8. Agree(e)
  <2> HIDE DEF e
  <2>1. FreshLink(k) = LinkStatus(d.height, Fresh(k))
    BY FreshStatus DEF TableOK
  <2> QED BY <1>1, <1>4, <1>5, <1>6, <2>1 DEF TableOK, Agree
<1>9. ASSUME NEW s
      PROVE  Count(lnk, s) = Count(d.lnk_stat, s) + One(FreshLink(k) = s)
  <2>1. IsFiniteSet(L) /\ L \ {k} = M \ {k} /\ k \in M
        /\ \A j \in L \ {k} : d.lnk_stat[j] = lnk[j]
    BY NodesFinite, <1>5
  <2>2. Count(lnk, s) = Count(d.lnk_stat, s) - One(k \in L /\ d.lnk_stat[k] = s)
                        + One(k \in M /\ lnk[k] = s)
    BY <1>1, <1>3, <2>1, CountDiffers
  <2>3. Count(d.lnk_stat, s) \in Nat
    BY <1>1, NodesFinite, CountType
  <2> QED BY <2>1, <2>2, <2>3, <1>5, <1>6 DEF One
<1>10. /\ Count(d.lnk_stat, "UP") \in Nat /\ Count(d.lnk_stat, "DN") \in Nat
       /\ Count(lnk, "UP") = Count(d.lnk_stat, "UP")
       /\ Count(lnk, "DN") = Count(d.lnk_stat, "DN") + One(k = Dest)
  BY <1>1, <1>9, NodesFinite, CountType DEF FreshLink, One
<1>11. Over(e)
  <2> HIDE DEF e
  <2> QED BY <1>1, <1>4, <1>10 DEF TableOK, Over, One
<1>12. Exact(d) => Exact(e)
  <2> HIDE DEF e
  <2> QED BY <1>1, <1>4, <1>10 DEF Exact, One
<1>13. HasNextHop(d) => HasNextHop(e)
  <2> HIDE DEF e
  <2> QED BY <1>1, <1>4, <1>5, <1>6 DEF HasNextHop
<1>14. e.heard[k] = Fresh(k) /\ \A j \in L : e.heard[j] = d.heard[j]
  <2> HIDE DEF e
  <2> QED BY <1>4, <1>5, <1>6
<1> QED BY <1>4, <1>7, <1>8, <1>11, <1>12, <1>13, <1>14 DEF TableOK

(* A neighbour is removed, and its link is no longer counted.              *)
Shrunk(d, e, k, L, t) ==
  /\ TableOK(e, L \ {k}, t) /\ (Exact(d) => Exact(e)) /\ e.height = d.height
  /\ HasNextHop(d) => HasNextHop(e) \/ d.lnk_stat[k] = "DN"
  /\ \A j \in L \ {k} : e.heard[j] = d.heard[j]

LEMMA RemovedOK ==
  ASSUME NEW L \in SUBSET Nodes, NEW t \in Nat, NEW d, TableOK(d, L, t), NEW k \in L
  PROVE  Shrunk(d, Removed(d, k), k, L, t)
<1> DEFINE e == Removed(d, k)
           M == L \ {k}
           hrd == [j \in M |-> d.heard[j]]
           lnk == [j \in M |-> d.lnk_stat[j]]
           up == d.num_up - One(d.lnk_stat[k] = "UP")
           down == d.num_down - One(d.lnk_stat[k] = "DN")
           rec == d.recent \ {k}
<1>1. /\ d \in Tables(L) /\ DOMAIN d.heard = L /\ DOMAIN d.lnk_stat = L
      /\ d.heard \in [L -> Height] /\ d.lnk_stat \in [L -> Statuses]
      /\ d.num_up \in Int /\ d.num_down \in Int
  BY DEF TableOK, Tables
<1>2. e = [d EXCEPT !.heard = hrd, !.lnk_stat = lnk, !.num_up = up, !.num_down = down,
                    !.recent = rec]
  BY <1>1 DEF Removed
<1> HIDE DEF e
<1>3. /\ hrd \in [M -> Height] /\ lnk \in [M -> Statuses] /\ up \in Int /\ down \in Int
      /\ rec \in SUBSET Nodes
  BY <1>1 DEF One, Tables
<1>4. /\ e \in Tables(M) /\ e.height = d.height /\ e.heard = hrd /\ e.lnk_stat = lnk
      /\ e.num_up = up /\ e.num_down = down /\ e.rt_req = d.rt_req
  <2> HIDE DEF hrd, lnk, up, down, rec, M
  <2> QED BY <1>1, <1>2, <1>3 DEF Tables
<1>5. \A j \in M : hrd[j] = d.heard[j] /\ lnk[j] = d.lnk_stat[j]
  OBVIOUS
<1>6. DOMAIN hrd = M /\ k \notin M /\ DOMAIN lnk = M
  OBVIOUS
<1> HIDE DEF hrd, lnk
<1>7. Heard(e, t) /\ Agree(e)
  BY <1>1, <1>4, <1>5, <1>6 DEF TableOK, Heard, Agree
<1>8. ASSUME NEW s
      PROVE  Count(lnk, s) = Count(d.lnk_stat, s) - One(d.lnk_stat[k] = s)
  <2>1. IsFiniteSet(L) /\ L \ {k} = M \ {k} /\ \A j \in L \ {k} : d.lnk_stat[j] = lnk[j]
    BY NodesFinite, <1>5
  <2>2. Count(lnk, s) = Count(d.lnk_stat, s) - One(k \in L /\ d.lnk_stat[k] = s)
                        + One(k \in M /\ lnk[k] = s)
    BY <1>1, <1>3, <2>1, CountDiffers
  <2>3. Count(d.lnk_stat, s) \in Nat
    BY <1>1, NodesFinite, CountType
  <2> QED BY <2>1, <2>2, <2>3, <1>6 DEF One
<1>9. /\ Count(d.lnk_stat, "UP") \in Nat /\ Count(d.lnk_stat, "DN") \in Nat
  BY <1>1, NodesFinite, CountType
<1>10. Over(e)
  BY <1>1, <1>4, <1>8, <1>9 DEF TableOK, Over, One
<1>11. Exact(d) => Exact(e)
  BY <1>1, <1>4, <1>8, <1>9 DEF Exact, One
<1>12. HasNextHop(d) => HasNextHop(e) \/ d.lnk_stat[k] = "DN"
  BY <1>1, <1>4, <1>5, <1>6 DEF HasNextHop
<1>13. \A j \in M : e.heard[j] = d.heard[j]
  BY <1>4, <1>5
<1>14. TableOK(e, M, t)
  BY <1>4, <1>7, <1>10 DEF TableOK
<1> QED BY <1>4, <1>11, <1>12, <1>13, <1>14 DEF Shrunk, e

(* The table of a destination that has just been added.                    *)
LEMMA DstAddOK ==
  ASSUME NEW i, links[i] \in SUBSET Nodes, NEW t \in Nat
  PROVE  LET e == DstAdd(i) IN
         /\ TableOK(e, links[i], t) /\ Exact(e)
         /\ e.height = Null /\ ~ e.rt_req
         /\ e.heard = [k \in links[i] |-> Fresh(k)]
<1> DEFINE e == DstAdd(i)
           L == links[i]
           hrd == [k \in L |-> Fresh(k)]
           lnk == [k \in L |-> FreshLink(k)]
<1>1. Null \in Height /\ Zero \in Height /\ Null # Zero /\ Valid(Null, t)
  BY SpecialHeights
<1>2. /\ e.height = Null /\ e.heard = hrd /\ e.lnk_stat = lnk /\ ~ e.rt_req
      /\ e.num_up = 0 /\ e.num_down = One(Dest \in L)
  BY DEF DstAdd
<1>3. hrd \in [L -> Height] /\ lnk \in [L -> Statuses]
  BY <1>1 DEF Fresh, FreshLink, Statuses
<1>4. e \in Tables(L)
  BY <1>1, <1>3 DEF DstAdd, Tables, One
<1>5. \A k \in L : hrd[k] = Fresh(k) /\ lnk[k] = FreshLink(k)
  OBVIOUS
<1>6. DOMAIN hrd = L /\ DOMAIN lnk = L
  OBVIOUS
<1>7. Count(lnk, "UP") = 0 /\ Count(lnk, "DN") = One(Dest \in L)
  <2>1. \A k \in L : lnk[k] # "UP"
    BY DEF FreshLink
  <2>2. Count(lnk, "UP") = 0
    BY <1>3, <2>1, CountType, NodesFinite
  <2>3. {k \in L : lnk[k] = "DN"} = IF Dest \in L THEN {Dest} ELSE {}
    BY DEF FreshLink
  <2>4. Cardinality({Dest}) = 1 /\ Cardinality({}) = 0
    BY FS_Singleton, FS_EmptySet
  <2>5. Count(lnk, "DN") = Cardinality({k \in L : lnk[k] = "DN"})
    BY DEF Count
  <2> QED BY <2>2, <2>3, <2>4, <2>5 DEF One
<1> HIDE DEF e, hrd, lnk
<1>8. Heard(e, t) /\ Agree(e)
  BY <1>1, <1>2, <1>5, <1>6 DEF Heard, Agree, Fresh, FreshLink, LinkStatus
<1>9. Over(e) /\ Exact(e)
  BY <1>2, <1>7 DEF Over, Exact
<1>10. TableOK(e, L, t)
  BY <1>1, <1>2, <1>4, <1>8, <1>9 DEF TableOK
<1> QED BY <1>2, <1>9, <1>10 DEF e, hrd

-----------------------------------------------------------------------------
(* Heights a router takes.  Each lies above the height of a neighbour,     *)
(* which is then a next hop.                                               *)
Raised(d, e, h, L, u) ==
  /\ TableOK(e, L, u) /\ Exact(e) /\ HasNextHop(e)
  /\ e.height = h /\ e.heard = d.heard

LEMMA HeightAbove ==
  ASSUME NEW L \in SUBSET Nodes, NEW t \in Nat, NEW u \in Nat, t <= u,
         NEW d, TableOK(d, L, t), NEW k \in NonNull(d),
         NEW h \in Height, Lower(d.heard[k], h), h[1] <= u
  PROVE  Raised(d, UpdateHeight(d, h), h, L, u)
<1> DEFINE e == UpdateHeight(d, h)
<1>1. d \in Tables(L) /\ DOMAIN d.heard = L /\ k \in L /\ d.heard[k] # Null
  BY DEF TableOK, Tables, NonNull
<1>2. d.heard[k] \in Height /\ (d.heard[k] = Zero \/ Lower(Zero, d.heard[k]))
  BY <1>1, SpecialHeights DEF TableOK, Heard, Valid
<1>3. Lower(Zero, h)
  BY <1>2, LowerOrder, SpecialHeights
<1>4. Valid(h, u)
  BY <1>3 DEF Valid
<1>5. TableOK(e, L, u) /\ Exact(e) /\ e.height = h /\ e.heard = d.heard /\ e.rt_req = d.rt_req
  BY <1>4, UpdateHeightOK
<1> HIDE DEF e
<1>6. e.lnk_stat[k] = "DN" /\ DOMAIN e.lnk_stat = L
  BY <1>1, <1>5 DEF TableOK, Agree, Tables, LinkStatus
<1>7. HasNextHop(e)
  BY <1>1, <1>6 DEF HasNextHop
<1> QED BY <1>5, <1>7 DEF Raised, e

(* The neighbours the searches find.                                       *)
LEMMA Searched ==
  ASSUME NEW L \in SUBSET Nodes, NEW t \in Nat, NEW d, TableOK(d, L, t),
         NEW S, S \subseteq NonNull(d), S # {}
  PROVE  /\ Least(d, S) \in S /\ \A j \in S : ~ Lower(d.heard[j], d.heard[Least(d, S)])
         /\ Greatest(d, S) \in S /\ \A j \in S : ~ Lower(d.heard[Greatest(d, S)], d.heard[j])
<1>1. /\ S \subseteq L /\ IsFiniteSet(S)
      /\ \A j \in S : d.heard[j] \in Height
  <2>1. S \subseteq L /\ \A j \in S : d.heard[j] \in Height
    BY DEF NonNull, TableOK, Tables
  <2> QED BY <2>1, NodesFinite, FS_Subset
<1> DEFINE R == {p \in S \X S : Lower(d.heard[p[1]], d.heard[p[2]])}
           Q == {p \in S \X S : Lower(d.heard[p[2]], d.heard[p[1]])}
<1>2. \A x, y \in S : /\ <<x, y>> \in R <=> Lower(d.heard[x], d.heard[y])
                      /\ <<x, y>> \in Q <=> Lower(d.heard[y], d.heard[x])
  OBVIOUS
<1> HIDE DEF R, Q
<1>3. /\ \A x \in S : ~ (<<x, x>> \in R) /\ ~ (<<x, x>> \in Q)
      /\ \A x, y, z \in S : <<x, y>> \in R /\ <<y, z>> \in R => <<x, z>> \in R
      /\ \A x, y, z \in S : <<x, y>> \in Q /\ <<y, z>> \in Q => <<x, z>> \in Q
  BY <1>1, <1>2, LowerOrder
<1>4. \E x \in S : \A y \in S : ~ (<<y, x>> \in R)
  BY <1>1, <1>3, FiniteMinimal
<1>5. \E x \in S : \A y \in S : ~ (<<y, x>> \in Q)
  BY <1>1, <1>3, FiniteMinimal
<1>6. \E x \in S : \A y \in S : ~ Lower(d.heard[y], d.heard[x])
  BY <1>2, <1>4
<1>7. \E x \in S : \A y \in S : ~ Lower(d.heard[x], d.heard[y])
  BY <1>2, <1>5
<1> QED BY <1>6, <1>7 DEF Least, Greatest

(* One more than a neighbour's height (recvQRY 402-413, recvUPD 505-518).  *)
LEMMA OneAbove ==
  ASSUME NEW h \in Height, NEW i \in Int
  PROVE  LET g == WithDelta(h, h[4] + 1, i) IN
         g \in Height /\ Lower(h, g) /\ g[1] = h[1]
<1> DEFINE g == WithDelta(h, h[4] + 1, i)
<1>1. \A n \in 1 .. 5 : h[n] \in Int
  BY DEF Height
<1>2. g = <<h[1], h[2], h[3], h[4] + 1, i>>
  BY DEF WithDelta
<1> HIDE DEF g
<1>3. g \in Height /\ g[1] = h[1] /\ g[2] = h[2] /\ g[3] = h[3] /\ g[4] = h[4] + 1
  <2>1. h[1] \in Int /\ h[2] \in Int /\ h[3] \in Int /\ h[4] + 1 \in Int
    BY <1>1
  <2> QED BY <1>2, <2>1, HeightTuple
<1>4. h[4] < g[4]
  <2>1. h[4] \in Int
    BY <1>1
  <2> QED BY <1>3, <2>1
<1>5. Lower(h, g)
  <2>1. \A n \in 1 .. 5 : g[n] \in Int
    BY <1>3 DEF Height
  <2> QED BY <1>1, <1>3, <1>4, <2>1, LowerCases
<1> QED BY <1>3, <1>5 DEF g

(* A reflected level lies above the one it reflects.                       *)
LEMMA ReflectedAbove ==
  ASSUME NEW h \in Height, h[3] = 0, NEW i \in Int
  PROVE  LET g == <<h[1], h[2], 1, 0, i>> IN
         g \in Height /\ Lower(h, g) /\ g[1] = h[1]
<1> DEFINE g == <<h[1], h[2], 1, 0, i>>
<1>1. \A n \in 1 .. 5 : h[n] \in Int
  BY DEF Height
<1>2. g \in Height /\ g[1] = h[1] /\ g[2] = h[2] /\ g[3] = 1
  <2> DEFINE a == h[1]
             b == h[2]
  <2>1. a \in Int /\ b \in Int /\ 0 \in Int /\ 1 \in Int
    BY <1>1
  <2> HIDE DEF a, b
  <2>2. <<a, b, 1, 0, i>> \in Height
    BY <2>1, HeightTuple, Zenon
  <2> QED BY <2>2 DEF a, b
<1> HIDE DEF g
<1>3. Lower(h, g)
  BY <1>1, <1>2, LowerCases
<1> QED BY <1>2, <1>3 DEF g

(* A new reference level lies above all others.                            *)
LEMMA NewestAbove ==
  ASSUME NEW t \in Nat, NEW h, Valid(h, t) \/ h = Zero, NEW i \in Int
  PROVE  LET g == <<t + 1, i, 0, 0, i>> IN
         g \in Height /\ Lower(h, g) /\ g[1] = t + 1
<1> DEFINE g == <<t + 1, i, 0, 0, i>>
<1>1. h \in Height /\ h[1] <= t
  BY SpecialHeights DEF Valid
<1>2. \A n \in 1 .. 5 : h[n] \in Int
  BY <1>1 DEF Height
<1>3. g \in Height /\ g[1] = t + 1
  BY HeightTuple
<1> HIDE DEF g
<1>4. Lower(h, g)
  BY <1>1, <1>2, <1>3, LowerCases
<1> QED BY <1>3, <1>4 DEF g

(* recvUPD 545-553, recvCLR 683, rtNotifyLinkDN: a router whose neighbours *)
(* are not all erased has a next hop at its new level.                     *)
LEMMA NewLevelOK ==
  ASSUME NEW L \in SUBSET Nodes, NEW t \in Nat, NEW d, TableOK(d, L, t), NEW i \in Int
  PROVE  /\ TableOK(NewLevel(i, d, t + 1), L, t + 1) /\ Exact(NewLevel(i, d, t + 1))
         /\ NewLevel(i, d, t + 1).height = <<t + 1, i, 0, 0, i>>
         /\ NewLevel(i, d, t + 1).height # Null /\ NewLevel(i, d, t + 1).heard = d.heard
         /\ NonNull(d) # {} => HasNextHop(NewLevel(i, d, t + 1))
<1> DEFINE e == NewLevel(i, d, t + 1)
           h == <<t + 1, i, 0, 0, i>>
           f == UpdateHeight(d, h)
           g == Told(f)
<1>1. h \in Height /\ Lower(Zero, h) /\ h[1] = t + 1
  BY NewestAbove
<1>2. Valid(h, t + 1) /\ t + 1 \in Nat /\ t <= t + 1
  BY <1>1 DEF Valid
<1>3. h # Null
  BY <1>1, SpecialHeights
<1> HIDE DEF h
<1>4. /\ TableOK(f, L, t + 1) /\ Exact(f) /\ f.height = h /\ f.heard = d.heard
  BY <1>2, UpdateHeightOK
<1>5. ASSUME NonNull(d) # {} PROVE HasNextHop(f)
  <2>1. PICK k \in NonNull(d) : TRUE
    BY <1>5
  <2>2. k \in DOMAIN d.heard
    BY <2>1 DEF NonNull
  <2>3. Valid(d.heard[k], t) \/ d.heard[k] = Zero
    BY <2>2 DEF TableOK, Heard
  <2>4. Lower(d.heard[k], h) /\ h[1] <= t + 1
    BY <1>1, <2>3, NewestAbove DEF h
  <2>5. f = UpdateHeight(d, h)
    OBVIOUS
  <2> HIDE DEF f
  <2> QED BY <1>1, <1>2, <2>1, <2>4, <2>5, HeightAbove DEF Raised
<1> HIDE DEF f
<1>6. /\ TableOK(g, L, t + 1) /\ Exact(g) /\ (HasNextHop(f) <=> HasNextHop(g))
      /\ g.height = h /\ g.heard = d.heard
  BY <1>4, ToldOK
<1>7. e = [g EXCEPT !.rt_req = FALSE]
  BY DEF NewLevel, f, h
<1> HIDE DEF g, e
<1>8. /\ TableOK(e, L, t + 1) /\ (Exact(g) => Exact(e)) /\ (HasNextHop(g) <=> HasNextHop(e))
      /\ e.height = g.height /\ e.heard = g.heard
  <2>1. /\ e \in Tables(L) /\ e.height = g.height /\ e.heard = g.heard
        /\ e.lnk_stat = g.lnk_stat /\ e.num_up = g.num_up /\ e.num_down = g.num_down
    BY <1>6, <1>7 DEF TableOK, Tables
  <2> QED BY <1>6, <2>1, SameTable
<1> QED BY <1>3, <1>5, <1>6, <1>8 DEF e, h

(* The heights of the neighbours are at hand.                              *)
LEMMA HeardHeights ==
  ASSUME NEW L, NEW t \in Nat, NEW d, TableOK(d, L, t), NEW k \in NonNull(d)
  PROVE  /\ k \in L /\ d.heard[k] \in Height /\ d.heard[k][1] <= t
         /\ Valid(d.heard[k], t) \/ d.heard[k] = Zero
<1>1. DOMAIN d.heard = L /\ k \in L /\ d.heard[k] # Null
  BY DEF TableOK, Tables, NonNull
<1>2. Valid(d.heard[k], t) \/ d.heard[k] = Zero
  BY <1>1 DEF TableOK, Heard
<1> QED BY <1>1, <1>2, SpecialHeights DEF Valid

(* recvUPD 581-597: neighbours of different levels; the router goes below  *)
(* the lowest of the highest level, and so above the other levels.         *)
LEMMA LoweredAbove ==
  ASSUME NEW L \in SUBSET Nodes, NEW t \in Nat, NEW d, TableOK(d, L, t),
         ~ SameRef(d), NEW i \in Int
  PROVE  LET g == WithDelta(MinOfMaxLevel(d), MinOfMaxLevel(d)[4] - 1, i)
         IN  \E k \in NonNull(d) : g \in Height /\ Lower(d.heard[k], g) /\ g[1] <= t
<1> DEFINE n == Greatest(d, NonNull(d))
           S == {k \in NonNull(d) : Level(d.heard[k]) = Level(d.heard[n])}
           m == Least(d, S)
           h == MinOfMaxLevel(d)
           g == WithDelta(h, h[4] - 1, i)
<1>1. PICK a \in NonNull(d), b \in NonNull(d) : Level(d.heard[a]) # Level(d.heard[b])
  BY DEF SameRef
<1>2. n \in NonNull(d) /\ \A j \in NonNull(d) : ~ Lower(d.heard[n], d.heard[j])
  BY <1>1, Searched
<1>3. m \in S
  <2>1. S \subseteq NonNull(d) /\ S # {}
    BY <1>2
  <2> HIDE DEF S
  <2> QED BY <2>1, Searched
<1>4. h = d.heard[m]
  BY DEF MinOfMaxLevel
<1>5. PICK j \in NonNull(d) : Level(d.heard[j]) # Level(d.heard[n])
  BY <1>1
<1>6. m \in NonNull(d) /\ Level(d.heard[m]) = Level(d.heard[n])
  BY <1>3
<1> HIDE DEF m, n, h, S
<1>7. /\ \A p \in 1 .. 5 : /\ d.heard[m][p] \in Int /\ d.heard[n][p] \in Int
                           /\ d.heard[j][p] \in Int
      /\ d.heard[n] \in Height /\ d.heard[j] \in Height /\ d.heard[m][1] <= t
  <2>1. /\ d.heard[n] \in Height /\ d.heard[j] \in Height /\ d.heard[m] \in Height
        /\ d.heard[m][1] <= t
    BY <1>2, <1>5, <1>6, HeardHeights
  <2>2. \A x \in Height, p \in 1 .. 5 : x[p] \in Int
    BY DEF Height
  <2> QED BY <2>1, <2>2
<1>8. d.heard[m][1] = d.heard[n][1] /\ d.heard[m][2] = d.heard[n][2] /\ d.heard[m][3] = d.heard[n][3]
  BY <1>6 DEF Level
<1>9. ~ (/\ d.heard[j][1] = d.heard[n][1] /\ d.heard[j][2] = d.heard[n][2]
         /\ d.heard[j][3] = d.heard[n][3])
  BY <1>5 DEF Level
<1>10. /\ g = <<d.heard[m][1], d.heard[m][2], d.heard[m][3], d.heard[m][4] - 1, i>>
  BY <1>4 DEF WithDelta
<1>11. g \in Height /\ g[1] = d.heard[m][1] /\ g[2] = d.heard[m][2] /\ g[3] = d.heard[m][3]
  <2> HIDE DEF g
  <2>1. d.heard[m][4] - 1 \in Int
    BY <1>7
  <2>2. /\ d.heard[m][1] \in Int /\ d.heard[m][2] \in Int /\ d.heard[m][3] \in Int
    BY <1>7
  <2>3. <<d.heard[m][1], d.heard[m][2], d.heard[m][3], d.heard[m][4] - 1, i>> \in Height
    BY <2>1, <2>2, HeightTuple
  <2> QED BY <1>10, <2>3
<1> HIDE DEF g
<1>12. ~ Lower(d.heard[n], d.heard[j])
  BY <1>2, <1>5
<1>13. Lower(d.heard[j], g)
  <2> DEFINE x == d.heard[j]
             y == d.heard[n]
  <2>1. \/ x[1] < y[1]
        \/ x[1] = y[1] /\ x[2] < y[2]
        \/ x[1] = y[1] /\ x[2] = y[2] /\ x[3] < y[3]
    BY <1>7, <1>9, <1>12, LowerCases
  <2> QED BY <1>7, <1>8, <1>11, <2>1, LowerCases
<1> QED BY <1>5, <1>7, <1>11, <1>13 DEF g, h

=============================================================================
