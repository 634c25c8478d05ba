---------------------------- MODULE ImepReseq_proofs ----------------------------
(***************************************************************************)
(* Resequencing: types, the incoming timer, and, if the queue looks up the *)
(* next number as the sequence space wraps, that objects are passed up in  *)
(* order, as OrderedLink promises, and none that was acknowledged is left  *)
(* out.                                                                    *)
(***************************************************************************)
EXTENDS ImepReseq, InductionLemmas

(* Remainders.                                                             *)
LEMMA DivMod ==
  ASSUME NEW S \in Nat \ {0}, NEW x \in Int
  PROVE  /\ x \div S \in Int /\ x % S \in 0 .. S - 1
         /\ x = S * (x \div S) + (x % S)
OBVIOUS

LEMMA SmallMultiple ==
  ASSUME NEW S \in Nat \ {0}, NEW k \in Int, -S < S * k, S * k < S
  PROVE  k = 0
<1>1. CASE k >= 1
  <2>1. S * (k - 1) >= 0
    BY <1>1
  <2> QED BY <1>1, <2>1
<1>2. CASE k <= -1
  <2>1. S * (-1 - k) >= 0
    BY <1>2
  <2>2. S * (-1 - k) = -S - S * k
    OBVIOUS
  <2> QED BY <1>2, <2>1, <2>2
<1> QED BY <1>1, <1>2

LEMMA Remainder ==
  ASSUME NEW S \in Nat \ {0}, NEW k \in Int, NEW r \in 0 .. S - 1
  PROVE  (S * k + r) % S = r
<1> DEFINE x == S * k + r
           j == x \div S
           y == x % S
<1>1. x \in Int
  OBVIOUS
<1>2. x = S * j + y /\ j \in Int /\ y \in 0 .. S - 1
  BY <1>1, DivMod
<1> HIDE DEF j, y
<1>3. S * (k - j) = y - r
  BY <1>2
<1>4. k - j = 0
  BY <1>2, <1>3, SmallMultiple
<1> QED BY <1>3, <1>4, <1>2 DEF j, y

(* Two numbers close to each other have the same 8 bits only if they are   *)
(* the same; and the signed difference of their 8 bits is their difference. *)
LEMMA SeqEqual ==
  ASSUME NEW n \in Int, NEW t \in Int, Seq8(n) = Seq8(t), -SeqSpace < n - t, n - t < SeqSpace
  PROVE  n = t
<1> DEFINE a == n \div SeqSpace
           b == t \div SeqSpace
           x == n % SeqSpace
           y == t % SeqSpace
<1>1. /\ n = SeqSpace * a + x /\ t = SeqSpace * b + y /\ a \in Int /\ b \in Int
      /\ x \in Int /\ y \in Int
  BY ConstantsAssumption, DivMod
<1>2. x = y
  BY DEF Seq8
<1> HIDE DEF a, b, x, y
<1>3. SeqSpace * (a - b) = n - t
  BY <1>1, <1>2, ConstantsAssumption
<1>4. a - b = 0
  BY <1>1, <1>3, ConstantsAssumption, SmallMultiple
<1> QED BY <1>1, <1>3, <1>4, ConstantsAssumption

LEMMA SeqNext ==
  ASSUME NEW t \in Int
  PROVE  Seq8(Seq8(t) + 1) = Seq8(t + 1) /\ Seq8(t) \in 0 .. SeqSpace - 1
<1> DEFINE b == t \div SeqSpace
           x == t % SeqSpace
           j == (t + 1) \div SeqSpace
           y == (t + 1) % SeqSpace
<1>1. /\ t = SeqSpace * b + x /\ b \in Int /\ x \in 0 .. SeqSpace - 1
  BY ConstantsAssumption, DivMod
<1>2. /\ t + 1 = SeqSpace * j + y /\ j \in Int /\ y \in 0 .. SeqSpace - 1
  <2>1. t + 1 \in Int
    OBVIOUS
  <2> QED BY <2>1, ConstantsAssumption, DivMod
<1>3. Seq8(t) = x /\ Seq8(t + 1) = y /\ Seq8(x + 1) = (x + 1) % SeqSpace
  BY DEF Seq8
<1> HIDE DEF b, x, j, y
<1>4. x + 1 = SeqSpace * (j - b) + y
  BY <1>1, <1>2, ConstantsAssumption
<1>5. (SeqSpace * (j - b) + y) % SeqSpace = y
  <2>1. j - b \in Int
    BY <1>1, <1>2
  <2> QED BY <1>2, <2>1, ConstantsAssumption, Remainder
<1> QED BY <1>1, <1>3, <1>4, <1>5

LEMMA RegIs ==
  ASSUME NEW n \in Int, NEW t \in Int, -Window <= n - t, n - t <= Window
  PROVE  Reg(Seq8(n), Seq8(t)) = n - t
<1> DEFINE a == n \div SeqSpace
           b == t \div SeqSpace
           x == n % SeqSpace
           y == t % SeqSpace
           h == SeqSpace \div 2
           d == (x - y) % SeqSpace
<1>1. /\ n = SeqSpace * a + x /\ t = SeqSpace * b + y /\ a \in Int /\ b \in Int
      /\ x \in Int /\ y \in Int
  BY ConstantsAssumption, DivMod
<1>2. h \in Int /\ 2 * h = SeqSpace
  <2>1. SeqSpace \in Int /\ SeqSpace % 2 = 0
    BY ConstantsAssumption
  <2> QED BY <2>1
<1>3. Reg(Seq8(n), Seq8(t)) = IF d < h THEN d ELSE d - SeqSpace
  BY DEF Reg, Seq8
<1> HIDE DEF a, b, x, y, h
<1>4. -h < n - t /\ n - t < h
  BY <1>2, ConstantsAssumption
<1>5. CASE n - t >= 0
  <2>1. x - y = SeqSpace * (b - a) + (n - t)
    BY <1>1, ConstantsAssumption
  <2>2. d = n - t
    <3>1. n - t \in 0 .. SeqSpace - 1 /\ b - a \in Int
      BY <1>1, <1>2, <1>4, <1>5, ConstantsAssumption
    <3> QED BY <2>1, <3>1, ConstantsAssumption, Remainder
  <2> QED BY <1>3, <1>4, <2>2
<1>6. CASE n - t < 0
  <2>1. x - y = SeqSpace * (b - a - 1) + (SeqSpace + (n - t))
    BY <1>1, ConstantsAssumption
  <2>2. SeqSpace + (n - t) \in 0 .. SeqSpace - 1 /\ b - a - 1 \in Int
    BY <1>1, <1>2, <1>4, <1>6, ConstantsAssumption
  <2>3. d = SeqSpace + (n - t)
    BY <2>1, <2>2, ConstantsAssumption, Remainder
  <2> HIDE DEF d
  <2> QED BY <1>2, <1>3, <1>4, <2>2, <2>3, ConstantsAssumption
<1> QED BY <1>5, <1>6

-----------------------------------------------------------------------------
(* Each turn of a loop leads from a state of W[i] to one of W[i + 1].      *)
LEMMA LoopFamily ==
  ASSUME NEW step, NEW W, NEW r, r \in W[0], Cardinality(r.q) \in Nat,
         \A i \in Nat : \A b \in W[i] : step[b] \in W[i + 1]
  PROVE  Loop(r, step) \in W[Cardinality(r.q)]
<1> DEFINE K == Cardinality(r.q)
           V == UNION {W[i] : i \in Nat}
           F == [x \in V \X Nat |-> step[x[1]]]
           Good(g) == g = [i \in 0 .. K |-> IF i = 0 THEN r ELSE step[g[i - 1]]]
           after == CHOOSE g : Good(g)
<1>1. F \in [V \X Nat -> V] /\ r \in V
  OBVIOUS
<1>2. \A b \in V, i \in Nat : F[<<b, i>>] = step[b]
  OBVIOUS
<1> HIDE DEF F
<1>3. \E g : Good(g)
  <2> HIDE DEF V
  <2>1. PICK g \in [0 .. K -> V] : Iterates(g, r, F, K)
    <3> HIDE DEF K
    <3>1. K \in Nat
      BY DEF K
    <3> QED BY <1>1, <3>1, IterationExists
  <2>2. ASSUME NEW i \in 1 .. K PROVE g[i] = step[g[i - 1]]
    <3>1. i \in Nat /\ i - 1 \in 0 .. K
      OBVIOUS
    <3>2. g[i - 1] \in V
      BY <2>1, <3>1
    <3> QED BY <1>2, <2>1, <3>1, <3>2 DEF Iterates
  <2>3. g = [i \in 0 .. K |-> IF i = 0 THEN r ELSE step[g[i - 1]]]
    BY <2>1, <2>2 DEF Iterates
  <2> QED BY <2>3
<1>4. Good(after)
  BY <1>3
<1>5. Loop(r, step) = after[K]
  BY DEF Loop
<1> HIDE DEF after
<1> DEFINE T == {i \in Nat : i <= K => after[i] \in W[i]}
<1>6. 0 \in T
  BY <1>4
<1>7. ASSUME NEW i \in Nat, i \in T PROVE i + 1 \in T
  <2>1. CASE i + 1 <= K
    <3>1. after[i + 1] = step[after[i]]
      BY <1>4, <2>1
    <3>2. after[i] \in W[i]
      BY <1>7, <2>1
    <3> QED BY <3>1, <3>2
  <2>2. CASE ~ (i + 1 <= K)
    BY <2>2
  <2> QED BY <2>1, <2>2
<1>8. Nat \subseteq T
  <2> HIDE DEF T
  <2> QED BY <1>6, <1>7, SetInduction
<1> QED BY <1>5, <1>8

LEMMA LoopKeeps ==
  ASSUME NEW step, NEW V, NEW r \in V, Cardinality(r.q) \in Nat,
         \A b \in V : step[b] \in V
  PROVE  Loop(r, step) \in V
<1> DEFINE W == [i \in Nat |-> V]
<1>1. /\ r \in W[0] /\ W[Cardinality(r.q)] = V
      /\ \A i \in Nat : \A b \in W[i] : step[b] \in W[i + 1]
  OBVIOUS
<1> HIDE DEF W
<1> QED BY <1>1, LoopFamily

-----------------------------------------------------------------------------
(* The types, wherever the lookup stops: a loop takes objects out of the   *)
(* queue and adds none.                                                    *)
Typed(q0) ==
  {b \in Link : b.last \in 0 .. SeqSpace - 1 /\ b.q \subseteq q0 /\ b.top \in NoTop .. MaxObjects - 1}

LEMMA QueueFinite ==
  ASSUME NEW q0 \in SUBSET Numbers, NEW b \in Typed(q0)
  PROVE  IsFiniteSet(b.q) /\ Cardinality(b.q) \in Nat
<1>1. IsFiniteSet(Numbers)
  BY ConstantsAssumption, FS_Interval DEF Numbers
<1>2. b.q \subseteq Numbers
  BY DEF Typed
<1> QED BY <1>1, <1>2, FS_Subset, FS_CardinalityType

LEMMA PassUpTyped ==
  ASSUME NEW q0 \in SUBSET Numbers, NEW b \in Typed(q0), NEW n \in Numbers
  PROVE  /\ PassUp(b, n) \in Typed(q0) /\ Dequeued(b, n) \in Typed(q0)
         /\ [b EXCEPT !.up = Append(@, Break)] \in Typed(q0)
<1>1. Seq8(n) \in 0 .. SeqSpace - 1
  BY SeqNext DEF Numbers
<1>2. n \in Int /\ n \in NoTop .. MaxObjects - 1 /\ Break \in Int
  BY ConstantsAssumption DEF Numbers, NoTop, Break
<1> HIDE DEF Numbers, Seq8, NoTop, Break
<1>3. ASSUME NEW c \in Typed(q0) PROVE PassUp(c, n) \in Typed(q0)
  <2>1. c \in Link /\ Append(c.up, n) \in Seq(Int) /\ Seq8(n) \in Int
    BY <1>1, <1>2 DEF Typed, Link
  <2>2. PassUp(c, n) \in Link
    BY <1>2, <2>1 DEF Link, PassUp
  <2>3. PassUp(c, n).last = Seq8(n) /\ PassUp(c, n).q = c.q /\ PassUp(c, n).top = n
    BY <2>1 DEF Link, PassUp
  <2> QED BY <1>1, <1>2, <2>2, <2>3 DEF Typed
<1>4. [b EXCEPT !.q = @ \ {n}] \in Typed(q0)
  BY DEF Typed, Link
<1>5. [b EXCEPT !.up = Append(@, Break)] \in Typed(q0)
  <2> DEFINE e == [b EXCEPT !.up = Append(b.up, Break)]
  <2>1. b \in Link /\ Append(b.up, Break) \in Seq(Int)
    BY <1>2 DEF Typed, Link
  <2>2. e \in Link /\ e.last = b.last /\ e.q = b.q /\ e.top = b.top
    BY <2>1 DEF Link
  <2> HIDE DEF e
  <2>3. e \in Typed(q0)
    BY <2>2 DEF Typed
  <2> QED BY <2>3 DEF e
<1> QED BY <1>3, <1>4, <1>5 DEF Dequeued

LEMMA ChainedTyped ==
  ASSUME NEW q0 \in SUBSET Numbers, NEW b \in Typed(q0)
  PROVE  Chained(b) \in Typed(q0)
<1>1. ASSUME NEW c \in Typed(q0) PROVE InSequence[c] \in Typed(q0)
  <2> DEFINE next == {n \in c.q : Seq8(n) = NextKey(c.last)}
  <2>1. InSequence[c] = IF next = {} THEN c ELSE Dequeued(c, CHOOSE n \in next : TRUE)
    BY DEF InSequence, Typed
  <2>2. next \subseteq Numbers
    BY DEF Typed
  <2> HIDE DEF next
  <2>3. CASE next = {}
    BY <2>1, <2>3
  <2>4. CASE next # {}
    <3>1. PICK n \in Numbers : InSequence[c] = Dequeued(c, n)
      BY <2>1, <2>2, <2>4
    <3> QED BY <3>1, PassUpTyped
  <2> QED BY <2>3, <2>4
<1>2. Cardinality(b.q) \in Nat
  BY QueueFinite
<1> QED BY <1>1, <1>2, LoopKeeps DEF Chained

LEMMA LowestIs ==
  ASSUME NEW q \in SUBSET Numbers, q # {}
  PROVE  Lowest(q) \in q /\ \A k \in q : Lowest(q) <= k
<1>1. q \subseteq Nat
  BY DEF Numbers
<1>2. \E n \in q : \A k \in q : n <= k
  BY <1>1, LeastNatural
<1> QED BY <1>2 DEF Lowest

(* What handlerIncomingTimer does to a source in one turn.                 *)
Turn(due) ==
  [b \in Link |->
    IF b.q \cap due = {} THEN b
    ELSE Chained(Dequeued([b EXCEPT !.up = Append(@, Break)], Lowest(b.q)))]

LEMMA RetiredTyped ==
  ASSUME NEW q0 \in SUBSET Numbers, NEW b \in Typed(q0), NEW due
  PROVE  Retired(b, due) \in Typed(q0)
<1>1. ASSUME NEW c \in Typed(q0) PROVE Turn(due)[c] \in Typed(q0)
  <2> DEFINE e == [c EXCEPT !.up = Append(@, Break)]
             n == Lowest(c.q)
  <2>1. Turn(due)[c] = IF c.q \cap due = {} THEN c ELSE Chained(Dequeued(e, n))
    BY DEF Turn, Typed
  <2>2. CASE c.q \cap due = {}
    BY <2>1, <2>2
  <2>3. CASE c.q \cap due # {}
    <3>1. n \in Numbers
      BY <2>3, LowestIs DEF Typed
    <3> HIDE DEF n
    <3>2. e \in Typed(q0)
      BY <3>1, PassUpTyped
    <3> HIDE DEF e
    <3>3. Dequeued(e, n) \in Typed(q0)
      BY <3>1, <3>2, PassUpTyped
    <3> QED BY <2>1, <2>3, <3>3, ChainedTyped
  <2> QED BY <2>2, <2>3
<1>2. Cardinality(b.q) \in Nat
  BY QueueFinite
<1>3. Retired(b, due) = Loop(b, Turn(due))
  BY DEF Retired, Turn
<1> QED BY <1>1, <1>2, <1>3, LoopKeeps

-----------------------------------------------------------------------------
(* What the handlers start from and what they store.                       *)
LEMMA OfTyped ==
  ASSUME TypeOK, NEW m \in Sources
  PROVE  /\ incomingQ[m] \in SUBSET Numbers
         /\ Of(m) \in Typed(incomingQ[m])
         /\ \A n \in Numbers : FirstHeard(m, n) \in Typed(incomingQ[m])
<1>1. /\ lastSeq[m] \in 0 .. SeqSpace - 1 /\ incomingQ[m] \in SUBSET Numbers
      /\ top[m] \in NoTop .. MaxObjects - 1
  BY DEF TypeOK
<1>2. lastSeq[m] \in Int /\ top[m] \in Int /\ incomingQ[m] \subseteq Nat
  BY <1>1, ConstantsAssumption DEF NoTop, Numbers
<1>3. Of(m) \in Link
  BY <1>2 DEF Of, Link
<1>4. Of(m) \in Typed(incomingQ[m])
  BY <1>1, <1>3 DEF Of, Typed
<1>5. ASSUME NEW n \in Numbers PROVE FirstHeard(m, n) \in Typed(incomingQ[m])
  <2> DEFINE e == [Of(m) EXCEPT !.last = Seq8(n - 1), !.top = n - 1]
  <2>1. n - 1 \in Int /\ n - 1 \in NoTop .. MaxObjects - 1
    BY ConstantsAssumption DEF Numbers, NoTop
  <2>2. Seq8(n - 1) \in 0 .. SeqSpace - 1
    BY <2>1, SeqNext
  <2>3. Seq8(n - 1) \in Int
    BY <2>2
  <2>4. Of(m).q = incomingQ[m]
    BY DEF Of
  <2>5. e \in Link /\ e.last = Seq8(n - 1) /\ e.q = incomingQ[m] /\ e.top = n - 1
    BY <1>3, <2>1, <2>3, <2>4 DEF Link
  <2> HIDE DEF e
  <2>6. e \in Typed(incomingQ[m])
    BY <1>1, <2>1, <2>2, <2>5 DEF Typed
  <2> QED BY <1>4, <2>6 DEF FirstHeard, e
<1> QED BY <1>1, <1>4, <1>5

LEMMA Stored ==
  ASSUME TypeOK, NEW m \in Sources, NEW r \in Typed(Numbers), Store(m, r)
  PROVE  /\ lastSeq' \in [Sources -> 0 .. SeqSpace - 1]
         /\ incomingQ' \in [Sources -> SUBSET Numbers]
         /\ top' \in [Sources -> NoTop .. MaxObjects - 1]
         /\ lastSeq'[m] = r.last /\ incomingQ'[m] = r.q /\ top'[m] = r.top /\ upcalls'[m] = r.up
         /\ \A k \in Sources : k # m =>
              /\ lastSeq'[k] = lastSeq[k] /\ incomingQ'[k] = incomingQ[k] /\ top'[k] = top[k]
              /\ upcalls'[k] = <<>>
<1>1. r.last \in 0 .. SeqSpace - 1 /\ r.q \in SUBSET Numbers /\ r.top \in NoTop .. MaxObjects - 1
  BY DEF Typed
<1>2. /\ lastSeq \in [Sources -> 0 .. SeqSpace - 1] /\ incomingQ \in [Sources -> SUBSET Numbers]
      /\ top \in [Sources -> NoTop .. MaxObjects - 1]
  BY DEF TypeOK
<1>3. lastSeq' = [lastSeq EXCEPT ![m] = r.last] /\ incomingQ' = [incomingQ EXCEPT ![m] = r.q]
      /\ top' = [top EXCEPT ![m] = r.top] /\ upcalls' = [[k \in Sources |-> <<>>] EXCEPT ![m] = r.up]
  BY DEF Store
<1>4. /\ lastSeq' \in [Sources -> 0 .. SeqSpace - 1] /\ lastSeq'[m] = r.last
      /\ \A k \in Sources : k # m => lastSeq'[k] = lastSeq[k]
  BY <1>1, <1>2, <1>3
<1>5. /\ incomingQ' \in [Sources -> SUBSET Numbers] /\ incomingQ'[m] = r.q
      /\ \A k \in Sources : k # m => incomingQ'[k] = incomingQ[k]
  BY <1>1, <1>2, <1>3
<1>6. /\ top' \in [Sources -> NoTop .. MaxObjects - 1] /\ top'[m] = r.top
      /\ \A k \in Sources : k # m => top'[k] = top[k]
  BY <1>1, <1>2, <1>3
<1>7. upcalls'[m] = r.up /\ \A k \in Sources : k # m => upcalls'[k] = <<>>
  BY <1>3
<1> QED BY <1>4, <1>5, <1>6, <1>7

(* What an object packet leaves behind, by the signed difference.          *)
Accepted(m, n) ==
  LET r   == FirstHeard(m, n)
      reg == Reg(Seq8(n), r.last)
  IN  CASE reg <= 0 -> r
        [] reg = 1  -> Chained(PassUp(r, n))
        [] reg > 1  -> Chained([r EXCEPT !.q = @ \cup {n}])

LEMMA RegType ==
  ASSUME NEW s \in Int, NEW l \in Int
  PROVE  Reg(s, l) \in Int
<1>1. (s - l) % SeqSpace \in Int
  BY ConstantsAssumption, DivMod
<1> QED BY <1>1, ConstantsAssumption DEF Reg

LEMMA AcceptedCases ==
  ASSUME TypeOK, NEW m \in Sources, NEW n \in Numbers
  PROVE  LET r   == FirstHeard(m, n)
             reg == Reg(Seq8(n), r.last)
             a   == Accepted(m, n)
         IN  /\ reg \in Int
             /\ reg <= 0 => a = r
             /\ reg = 1  => a = Chained(PassUp(r, n))
             /\ reg > 1  => a = Chained([r EXCEPT !.q = @ \cup {n}])
<1> DEFINE r == FirstHeard(m, n)
           reg == Reg(Seq8(n), r.last)
           a == Accepted(m, n)
           e == [r EXCEPT !.q = @ \cup {n}]
<1>1. r \in Typed(incomingQ[m])
  BY OfTyped
<1>2. reg \in Int
  <2>1. Seq8(n) \in 0 .. SeqSpace - 1
    BY SeqNext DEF Numbers
  <2>2. r.last \in 0 .. SeqSpace - 1
    BY <1>1 DEF Typed
  <2>3. Seq8(n) \in Int /\ r.last \in Int
    BY <2>1, <2>2
  <2> HIDE DEF r
  <2> QED BY <2>3, RegType
<1>3. /\ reg <= 0 => a = r
      /\ reg = 1  => a = Chained(PassUp(r, n))
      /\ reg > 1  => a = Chained(e)
  <2>1. a = CASE reg <= 0 -> r
              [] reg = 1  -> Chained(PassUp(r, n))
              [] reg > 1  -> Chained(e)
    BY DEF Accepted
  <2> HIDE DEF a, r, reg, e
  <2> QED BY <1>2, <2>1
<1> QED BY <1>2, <1>3

LEMMA InputAccepted ==
  ASSUME TypeOK, NEW m \in Sources, NEW n \in Numbers, ObjectInput(m, n)
  PROVE  /\ Store(m, Accepted(m, n)) /\ Accepted(m, n) \in Typed(Numbers)
         /\ ~ incomingTimer' => ~ incomingTimer /\ Accepted(m, n).q \subseteq incomingQ[m]
<1> DEFINE r == FirstHeard(m, n)
           reg == Reg(Seq8(n), r.last)
           Q == incomingQ[m]
           a == Accepted(m, n)
           e == [r EXCEPT !.q = @ \cup {n}]
<1>1. r \in Typed(Q) /\ r \in Typed(Numbers) /\ Q \in SUBSET Numbers
  <2>1. r \in Typed(Q) /\ Q \in SUBSET Numbers
    BY OfTyped
  <2> HIDE DEF r, Q
  <2> QED BY <2>1 DEF Typed
<1>2. reg \in Int
  BY AcceptedCases
<1>3. Store(m, a) /\ incomingTimer' = (incomingTimer \/ reg > 1)
  BY Zenon DEF ObjectInput, Accepted, TimerStarted
<1>4. /\ reg <= 0 => a = r
      /\ reg = 1  => a = Chained(PassUp(r, n))
      /\ reg > 1  => a = Chained(e)
  BY AcceptedCases
<1>5. e \in Typed(Numbers)
  BY <1>1 DEF Typed, Link, Numbers
<1> HIDE DEF r, reg, Q, a, e
<1>6. reg <= 0 \/ reg = 1 \/ reg > 1
  BY <1>2
<1>7. CASE reg <= 0
  <2>1. a = r
    BY <1>4, <1>7
  <2>2. r.q \subseteq Q
    BY <1>1 DEF Typed
  <2> QED BY <1>1, <1>3, <2>1, <2>2 DEF a, Q
<1>8. CASE reg = 1
  <2>1. a = Chained(PassUp(r, n))
    BY <1>4, <1>8
  <2>2. Chained(PassUp(r, n)) \in Typed(Q)
    BY <1>1, PassUpTyped, ChainedTyped
  <2>3. a \in Typed(Numbers) /\ a.q \subseteq Q
    BY <1>1, <2>1, <2>2 DEF Typed
  <2> QED BY <1>3, <2>1, <2>3 DEF a, Q
<1>9. CASE reg > 1
  <2>1. a = Chained(e)
    BY <1>4, <1>9
  <2>2. a \in Typed(Numbers)
    BY <1>5, <2>1, ChainedTyped
  <2> QED BY <1>3, <1>9, <2>1, <2>2 DEF a
<1> QED BY <1>6, <1>7, <1>8, <1>9

(* handlerIncomingTimer.                                                   *)
Due(m, due) == {n \in incomingQ[m] : <<m, n>> \in due}

LEMMA Handled ==
  ASSUME TypeOK, NEW due, HandlerIncomingTimer(due), NEW m \in Sources
  PROVE  LET r == Retired(Of(m), Due(m, due)) IN
         /\ r \in Typed(incomingQ[m])
         /\ lastSeq'[m] = r.last /\ incomingQ'[m] = r.q /\ top'[m] = r.top /\ upcalls'[m] = r.up
<1>1. Retired(Of(m), Due(m, due)) \in Typed(incomingQ[m])
  BY OfTyped, RetiredTyped
<1> QED BY <1>1 DEF HandlerIncomingTimer, Due

-----------------------------------------------------------------------------
(* Types, and the incoming timer, which runs as long as an object waits in *)
(* incomingQ (scheduleIncoming, handlerIncomingTimer).                     *)
Timed == TypeOK /\ HoleTimed

LEMMA InitTimed == Init => Timed
<1> SUFFICES ASSUME Init PROVE Timed
  OBVIOUS
<1>1. /\ sent \in [Sources -> 0 .. MaxObjects] /\ lastSeqValid \in [Sources -> BOOLEAN]
      /\ incomingTimer \in BOOLEAN
  BY ConstantsAssumption DEF Init
<1>2. listed \in [Sources -> SUBSET Numbers] /\ incomingQ \in [Sources -> SUBSET Numbers]
      /\ answered \in [Sources -> SUBSET Numbers]
  BY DEF Init
<1>3. 0 \in 0 .. SeqSpace - 1 /\ NoTop \in NoTop .. MaxObjects - 1
  BY ConstantsAssumption DEF NoTop
<1>4. /\ lastSeq \in [Sources -> 0 .. SeqSpace - 1]
      /\ top \in [Sources -> NoTop .. MaxObjects - 1]
      /\ first \in [Sources -> NoTop .. MaxObjects - 1]
  BY <1>3 DEF Init
<1>5. HoleTimed
  BY DEF Init, HoleTimed
<1> QED BY <1>1, <1>2, <1>4, <1>5 DEF Timed, TypeOK

LEMMA StepTimed == Timed /\ [Next]_vars => Timed'
<1> SUFFICES ASSUME Timed, [Next]_vars PROVE Timed'
  OBVIOUS
<1>0. TypeOK /\ HoleTimed
  BY DEF Timed
<1>1. /\ sent \in [Sources -> 0 .. MaxObjects] /\ listed \in [Sources -> SUBSET Numbers]
      /\ incomingQ \in [Sources -> SUBSET Numbers] /\ answered \in [Sources -> SUBSET Numbers]
      /\ lastSeqValid \in [Sources -> BOOLEAN] /\ lastSeq \in [Sources -> 0 .. SeqSpace - 1]
      /\ incomingTimer \in BOOLEAN /\ top \in [Sources -> NoTop .. MaxObjects - 1]
      /\ first \in [Sources -> NoTop .. MaxObjects - 1]
  BY <1>0 DEF TypeOK
<1>2. ASSUME NEW m \in Sources, Send(m) PROVE Timed'
  <2> DEFINE n == sent[m]
  <2>1. n \in Numbers /\ n + 1 \in 0 .. MaxObjects
    BY <1>1, <1>2, ConstantsAssumption DEF Send, Numbers
  <2>2. sent' = [sent EXCEPT ![m] = n + 1] /\ listed' \in {listed, [listed EXCEPT ![m] = @ \cup {n}]}
    BY <1>2 DEF Send
  <2> HIDE DEF n
  <2>3. sent' \in [Sources -> 0 .. MaxObjects] /\ listed' \in [Sources -> SUBSET Numbers]
    BY <1>1, <2>1, <2>2
  <2>4. UNCHANGED <<receiverVars, top, heardVars>>
    BY <1>2 DEF Send
  <2> QED BY <1>0, <1>1, <2>3, <2>4 DEF Timed, TypeOK, HoleTimed, receiverVars, heardVars
<1>3. ASSUME NEW m \in Sources, NEW n \in Numbers, ObjectInput(m, n) PROVE Timed'
  <2> DEFINE a == Accepted(m, n)
  <2>1. /\ Store(m, a) /\ a \in Typed(Numbers)
        /\ ~ incomingTimer' => ~ incomingTimer /\ a.q \subseteq incomingQ[m]
    BY <1>0, <1>3, InputAccepted
  <2> HIDE DEF a
  <2>2. /\ lastSeq' \in [Sources -> 0 .. SeqSpace - 1] /\ incomingQ' \in [Sources -> SUBSET Numbers]
        /\ top' \in [Sources -> NoTop .. MaxObjects - 1] /\ incomingQ'[m] = a.q
        /\ \A k \in Sources : k # m => incomingQ'[k] = incomingQ[k]
    BY <1>0, <2>1, Stored
  <2>3. /\ answered' = [answered EXCEPT ![m] = IF n \in listed[m] THEN @ \cup {n} ELSE @]
        /\ lastSeqValid' = [lastSeqValid EXCEPT ![m] = TRUE]
        /\ first' = [first EXCEPT ![m] = IF lastSeqValid[m] THEN @ ELSE n]
        /\ sent' = sent /\ listed' = listed
    BY <1>3 DEF ObjectInput, Answer
  <2>4. incomingTimer' \in BOOLEAN
    BY <1>3 DEF ObjectInput, TimerStarted
  <2>5. n \in NoTop .. MaxObjects - 1
    BY ConstantsAssumption DEF Numbers, NoTop
  <2>6. /\ answered' \in [Sources -> SUBSET Numbers] /\ lastSeqValid' \in [Sources -> BOOLEAN]
        /\ first' \in [Sources -> NoTop .. MaxObjects - 1]
    BY <1>1, <2>3, <2>5
  <2>7. TypeOK'
    BY <1>1, <2>2, <2>3, <2>4, <2>6 DEF TypeOK
  <2>8. ASSUME NEW k \in Sources, incomingQ'[k] # {}, ~ incomingTimer' PROVE FALSE
    <3>1. incomingQ[k] = {}
      BY <1>0, <2>1, <2>8 DEF HoleTimed
    <3>2. incomingQ'[k] \subseteq incomingQ[k]
      BY <2>1, <2>2, <2>8
    <3> QED BY <2>8, <3>1, <3>2
  <2> QED BY <2>7, <2>8 DEF Timed, HoleTimed
<1>4. ASSUME NEW due, HandlerIncomingTimer(due) PROVE Timed'
  <2> DEFINE r(m) == Retired(Of(m), Due(m, due))
  <2>1. \A m \in Sources : /\ incomingQ[m] \in SUBSET Numbers /\ r(m) \in Typed(incomingQ[m])
                           /\ lastSeq'[m] = r(m).last /\ incomingQ'[m] = r(m).q
                           /\ top'[m] = r(m).top
    BY <1>0, <1>1, <1>4, Handled
  <2>2. incomingTimer' = \E m \in Sources : r(m).q # {}
    BY <1>4 DEF HandlerIncomingTimer, Restarted, Due
  <2>3. /\ lastSeq' = [m \in Sources |-> lastSeq'[m]]
        /\ incomingQ' = [m \in Sources |-> incomingQ'[m]]
        /\ top' = [m \in Sources |-> top'[m]]
        /\ UNCHANGED <<sent, listed, lastSeqValid, first, answered>>
    BY <1>4 DEF HandlerIncomingTimer, heardVars
  <2> HIDE DEF r
  <2>4. \A m \in Sources : /\ lastSeq'[m] \in 0 .. SeqSpace - 1 /\ incomingQ'[m] \in SUBSET Numbers
                           /\ top'[m] \in NoTop .. MaxObjects - 1
    BY <2>1 DEF Typed
  <2>5. TypeOK'
    BY <1>1, <2>2, <2>3, <2>4 DEF TypeOK
  <2>6. HoleTimed'
    BY <2>1, <2>2 DEF HoleTimed
  <2> QED BY <2>5, <2>6 DEF Timed
<1>5. ASSUME NEW m \in Sources, LinkDown(m) PROVE Timed'
  <2>1. 0 \in 0 .. SeqSpace - 1 /\ NoTop \in NoTop .. MaxObjects - 1
    BY ConstantsAssumption DEF NoTop
  <2>2. /\ lastSeqValid' = [lastSeqValid EXCEPT ![m] = FALSE] /\ lastSeq' = [lastSeq EXCEPT ![m] = 0]
        /\ incomingQ' = [incomingQ EXCEPT ![m] = {}] /\ top' = [top EXCEPT ![m] = NoTop]
        /\ first' = [first EXCEPT ![m] = NoTop] /\ answered' = [answered EXCEPT ![m] = {}]
        /\ UNCHANGED <<sent, listed, incomingTimer>>
    BY <1>5 DEF LinkDown
  <2>3. TypeOK'
    BY <1>1, <2>1, <2>2 DEF TypeOK
  <2>4. \A k \in Sources : incomingQ'[k] \subseteq incomingQ[k]
    BY <1>1, <2>2
  <2>5. HoleTimed'
    BY <1>0, <2>2, <2>4 DEF HoleTimed
  <2> QED BY <2>3, <2>5 DEF Timed
<1>6. CASE UNCHANGED vars
  BY <1>0, <1>6 DEF Timed, TypeOK, HoleTimed, vars, receiverVars, historyVars, heardVars
<1> QED BY <1>2, <1>3, <1>4, <1>5, <1>6 DEF Next, IncomingTimeout, Numbers

(* Every step of the agent keeps the types.                                *)
THEOREM TypeCorrect == Spec => []TypeOK
<1>1. Timed => TypeOK
  BY DEF Timed
<1> QED BY <1>1, InitTimed, StepTimed, PTL DEF Spec

(* No hole blocks a link for good: the timer runs while an early object    *)
(* waits (scheduleIncoming 593-607, handlerIncomingTimer 511-579).         *)
THEOREM HolesTimed == Spec => []HoleTimed
<1>1. Timed => HoleTimed
  BY DEF Timed
<1> QED BY <1>1, InitTimed, StepTimed, PTL DEF Spec

-----------------------------------------------------------------------------
(* What is passed up, one object or report after the other.                *)
Objects(up, i) == {j \in 1 .. i : up[j] # Break}
Newest(S) == CHOOSE j \in S : \A k \in S : k <= j
Named(up) == {up[i] : i \in 1 .. Len(up)}

LEMMA NewestIs ==
  ASSUME NEW i \in Nat, NEW S \in SUBSET (1 .. i), S # {}
  PROVE  Newest(S) \in S /\ \A k \in S : k <= Newest(S)
<1> DEFINE T == {i - j : j \in S}
<1>1. T \subseteq Nat /\ T # {}
  <2>1. \A j \in S : i - j \in Nat
    <3>1. \A j \in 1 .. i : i - j \in Nat
      OBVIOUS
    <3> QED BY <3>1
  <2> QED BY <2>1
<1>2. PICK x \in T : \A y \in T : x <= y
  <2> HIDE DEF T
  <2> QED BY <1>1, LeastNatural
<1>3. PICK j \in S : x = i - j
  BY <1>2
<1>4. ASSUME NEW k \in S PROVE k <= j
  <2>1. i - k \in T /\ k \in Int /\ j \in Int
    OBVIOUS
  <2>2. i - j <= i - k
    BY <1>2, <1>3, <2>1
  <2> QED BY <2>1, <2>2
<1> QED BY <1>4 DEF Newest

LEMMA LastIs ==
  ASSUME NEW t, NEW up, NEW i
  PROVE  Abstract!LastOf(t, up, i)
           = IF Objects(up, i) = {} THEN t ELSE up[Newest(Objects(up, i))]
BY DEF Abstract!LastOf, Objects, Newest, Break, Abstract!Break

LEMMA LastAppended ==
  ASSUME NEW t, NEW up \in Seq(Int), NEW x \in Int
  PROVE  /\ \A i \in 0 .. Len(up) :
              Abstract!LastOf(t, Append(up, x), i) = Abstract!LastOf(t, up, i)
         /\ Abstract!LastOf(t, Append(up, x), Len(up) + 1)
              = IF x = Break THEN Abstract!LastOf(t, up, Len(up)) ELSE x
<1> DEFINE w == Append(up, x)
           l == Len(up)
<1>1. l \in Nat /\ w[l + 1] = x /\ \A j \in 1 .. l : w[j] = up[j]
  OBVIOUS
<1> HIDE DEF w, l
<1>2. ASSUME NEW i \in 0 .. l
      PROVE  /\ Objects(w, i) = Objects(up, i)
             /\ Objects(up, i) # {} => w[Newest(Objects(up, i))] = up[Newest(Objects(up, i))]
  <2>1. i \in Nat /\ \A j \in 1 .. i : w[j] = up[j]
    BY <1>1
  <2>2. Objects(w, i) = Objects(up, i)
    BY <2>1 DEF Objects
  <2>3. Objects(up, i) \in SUBSET (1 .. i)
    BY DEF Objects
  <2>4. Objects(up, i) # {} => Newest(Objects(up, i)) \in 1 .. i
    BY <2>1, <2>3, NewestIs
  <2> QED BY <2>1, <2>2, <2>4
<1>3. \A i \in 0 .. l : Abstract!LastOf(t, w, i) = Abstract!LastOf(t, up, i)
  BY <1>2, LastIs
<1>4. CASE x = Break
  <2>1. Objects(w, l + 1) = Objects(w, l)
    BY <1>1, <1>4 DEF Objects
  <2>2. l \in 0 .. l
    BY <1>1
  <2>3. Abstract!LastOf(t, w, l + 1) = Abstract!LastOf(t, w, l)
    BY <2>1, LastIs
  <2> QED BY <1>3, <1>4, <2>2, <2>3 DEF w, l
<1>5. CASE x # Break
  <2> DEFINE S == Objects(w, l + 1)
  <2>1. l + 1 \in S /\ S \in SUBSET (1 .. l + 1) /\ l + 1 \in Nat
    BY <1>1, <1>5 DEF Objects
  <2> HIDE DEF S
  <2>2. Newest(S) \in 1 .. l + 1 /\ l + 1 <= Newest(S) /\ S # {}
    BY <2>1, NewestIs
  <2>3. Newest(S) = l + 1
    BY <1>1, <2>2
  <2>4. Abstract!LastOf(t, w, l + 1) = w[l + 1]
    BY <2>2, <2>3, LastIs DEF S
  <2> QED BY <1>1, <1>3, <1>5, <2>4 DEF w, l
<1> QED BY <1>4, <1>5

(* x may be passed up when up has been, and the last object was l.         *)
Follows(up, l, x) ==
  \/ x = Break \/ l = NoTop \/ x = l + 1
  \/ Len(up) > 0 /\ up[Len(up)] = Break /\ x > l + 1

LEMMA OrderAppended ==
  ASSUME NEW t, NEW up \in Seq(Int), NEW x \in Int, Abstract!InOrder(t, up),
         Follows(up, Abstract!LastOf(t, up, Len(up)), x)
  PROVE  Abstract!InOrder(t, Append(up, x))
<1> DEFINE w == Append(up, x)
           l == Len(up)
           Ordered1(u, i) == u[i] # Break =>
             LET before == Abstract!LastOf(t, u, i - 1)
             IN  \/ before = NoTop
                 \/ u[i] = before + 1
                 \/ i > 1 /\ u[i - 1] = Break /\ u[i] > before + 1
<1>1. l \in Nat /\ w[l + 1] = x /\ Len(w) = l + 1 /\ \A j \in 1 .. l : w[j] = up[j]
  OBVIOUS
<1>2. \A i \in 0 .. l : Abstract!LastOf(t, w, i) = Abstract!LastOf(t, up, i)
  BY LastAppended
<1>3. \A i \in 1 .. l : Ordered1(up, i)
  BY DEF Abstract!InOrder, Break, NoTop, Abstract!Break, Abstract!NoTop
<1> HIDE DEF w, l
<1>4. ASSUME NEW i \in 1 .. l PROVE Ordered1(w, i)
  <2>1. i - 1 \in 0 .. l /\ (i > 1 => i - 1 \in 1 .. l)
    BY <1>1
  <2>2. w[i] = up[i] /\ (i > 1 => w[i - 1] = up[i - 1])
    BY <1>1, <2>1
  <2>3. Abstract!LastOf(t, w, i - 1) = Abstract!LastOf(t, up, i - 1)
    BY <1>2, <2>1
  <2> QED BY <1>3, <2>2, <2>3
<1>5. Ordered1(w, l + 1)
  <2>1. (l + 1) - 1 = l /\ l \in 0 .. l /\ (l + 1 > 1 <=> l > 0) /\ (l > 0 => l \in 1 .. l)
    BY <1>1
  <2>2. Follows(up, Abstract!LastOf(t, w, l), x)
    BY <1>2, <2>1 DEF l
  <2>3. Len(up) = l
    BY DEF l
  <2> QED BY <1>1, <2>1, <2>2, <2>3 DEF Follows
<1>6. \A i \in 1 .. Len(w) : Ordered1(w, i)
  <2>1. \A i \in 1 .. Len(w) : i \in 1 .. l \/ i = l + 1
    BY <1>1
  <2> HIDE DEF Ordered1
  <2> QED BY <1>4, <1>5, <2>1
<1> HIDE DEF w
<1>7. Abstract!InOrder(t, w)
  BY <1>6 DEF Abstract!InOrder, Break, NoTop, Abstract!Break, Abstract!NoTop
<1> QED BY <1>7 DEF w

LEMMA NothingSaid ==
  ASSUME NEW t
  PROVE  Abstract!InOrder(t, <<>>) /\ Abstract!LastOf(t, <<>>, 0) = t /\ Named(<<>>) = {}
<1>1. Objects(<<>>, 0) = {}
  BY DEF Objects
<1> QED BY <1>1, LastIs DEF Abstract!InOrder, Named

LEMMA NamedAppended ==
  ASSUME NEW up \in Seq(Int), NEW x \in Int
  PROVE  Named(Append(up, x)) = Named(up) \cup {x}
<1> DEFINE w == Append(up, x)
           l == Len(up)
<1>1. l \in Nat /\ w[l + 1] = x /\ Len(w) = l + 1 /\ \A j \in 1 .. l : w[j] = up[j]
  OBVIOUS
<1>2. Len(up) = l
  OBVIOUS
<1> HIDE DEF w, l
<1> QED BY <1>1, <1>2 DEF Named, w

-----------------------------------------------------------------------------
(* A source's end of the link while a handler works: s objects have been   *)
(* sent, the handler found t on top and q0 in the queue.                   *)
Placed(b, s) ==
  /\ b.last = Seq8(b.top) /\ -1 <= b.top /\ b.top < s /\ s - b.top <= Window + 1
  /\ \A n \in b.q : b.top < n /\ n < s

Reported(b, t, q0) ==
  /\ Abstract!InOrder(t, b.up) /\ Abstract!LastOf(t, b.up, Len(b.up)) = b.top /\ t <= b.top
  /\ \A x \in Named(b.up) : x <= b.top
  /\ q0 \subseteq b.q \cup Named(b.up)

Ordered(s, t, q0) == {b \in Typed(Numbers) : Placed(b, s) /\ Reported(b, t, q0)}
Closed(b) == b.top + 1 \notin b.q

(* Passing up an object that is next, or that comes behind a report.       *)
LEMMA PassUpOrdered ==
  ASSUME NEW s \in Nat, NEW t \in Int, NEW q0, NEW b \in Typed(Numbers), NEW n \in Numbers,
         n < s, s - n <= Window + 1, \A k \in b.q : n < k /\ k < s,
         t <= n, Abstract!InOrder(t, b.up), Follows(b.up, Abstract!LastOf(t, b.up, Len(b.up)), n),
         \A x \in Named(b.up) : x <= n, q0 \subseteq b.q \cup Named(b.up) \cup {n}
  PROVE  PassUp(b, n) \in Ordered(s, t, q0)
<1> DEFINE r == PassUp(b, n)
<1>1. n \in Int /\ n >= 0 /\ n # Break
  BY DEF Numbers, Break
<1>2. r \in Typed(Numbers)
  BY PassUpTyped
<1>3. b \in Link /\ b.up \in Seq(Int)
  BY DEF Typed, Link
<1>4. r.last = Seq8(n) /\ r.q = b.q /\ r.top = n /\ r.up = Append(b.up, n)
  BY <1>3 DEF PassUp, Link
<1> HIDE DEF r
<1>5. Placed(r, s)
  BY <1>1, <1>4 DEF Placed
<1>6. Abstract!InOrder(t, r.up)
  BY <1>1, <1>3, <1>4, OrderAppended
<1>7. Abstract!LastOf(t, r.up, Len(r.up)) = n
  <2>1. Len(r.up) = Len(b.up) + 1
    BY <1>1, <1>3, <1>4
  <2>2. Abstract!LastOf(t, Append(b.up, n), Len(b.up) + 1) = n
    BY <1>1, <1>3, LastAppended
  <2> QED BY <1>4, <2>1, <2>2
<1>8. Named(r.up) = Named(b.up) \cup {n}
  BY <1>1, <1>3, <1>4, NamedAppended
<1>9. Reported(r, t, q0)
  BY <1>1, <1>4, <1>6, <1>7, <1>8 DEF Reported
<1> QED BY <1>2, <1>5, <1>9 DEF Ordered, r

(* A report that the link broke.                                           *)
LEMMA BreakOrdered ==
  ASSUME NEW s \in Nat, NEW t \in Int, NEW q0, NEW b \in Ordered(s, t, q0)
  PROVE  LET e == [b EXCEPT !.up = Append(@, Break)] IN
         /\ e \in Ordered(s, t, q0) /\ e.q = b.q /\ e.top = b.top
         /\ Len(e.up) > 0 /\ e.up[Len(e.up)] = Break
<1> DEFINE e == [b EXCEPT !.up = Append(@, Break)]
           w == Append(b.up, Break)
<1>1. b \in Typed(Numbers) /\ b \in Link /\ b.up \in Seq(Int) /\ Break \in Int
  BY DEF Ordered, Typed, Link, Break
<1>2. e \in Typed(Numbers)
  <2>1. b \in Link /\ w \in Seq(Int)
    BY <1>1
  <2>2. e \in Link /\ e.last = b.last /\ e.q = b.q /\ e.top = b.top
    BY <2>1 DEF Link
  <2> HIDE DEF e
  <2> QED BY <1>1, <2>2 DEF Typed
<1>3. e.last = b.last /\ e.q = b.q /\ e.top = b.top /\ e.up = w
  BY <1>1 DEF Link
<1>4. Len(w) = Len(b.up) + 1 /\ w[Len(b.up) + 1] = Break /\ Len(b.up) \in Nat
  BY <1>1
<1>5. Abstract!InOrder(t, w)
  BY <1>1, OrderAppended DEF Ordered, Reported, Follows
<1>6. Abstract!LastOf(t, w, Len(b.up) + 1) = Abstract!LastOf(t, b.up, Len(b.up))
  BY <1>1, LastAppended
<1>7. Named(w) = Named(b.up) \cup {Break}
  BY <1>1, NamedAppended
<1> HIDE DEF e, w
<1>8. b.top \in Int /\ Break <= b.top
  BY <1>1 DEF Ordered, Placed, Break, Link
<1>9. Placed(e, s)
  BY <1>3 DEF Ordered, Placed
<1>10. Reported(e, t, q0)
  BY <1>3, <1>4, <1>5, <1>6, <1>7, <1>8 DEF Ordered, Reported
<1> QED BY <1>2, <1>3, <1>4, <1>9, <1>10 DEF Ordered, e

(* Passing up the lowest object that waits.                                *)
LEMMA DequeuedOrdered ==
  ASSUME NEW s \in Nat, NEW t \in Int, NEW q0, NEW b \in Ordered(s, t, q0), NEW n \in b.q,
         \A k \in b.q : n <= k, Follows(b.up, b.top, n)
  PROVE  Dequeued(b, n) \in Ordered(s, t, q0) /\ Dequeued(b, n).q = b.q \ {n}
<1> DEFINE c == [b EXCEPT !.q = @ \ {n}]
<1>1. b \in Typed(Numbers) /\ b \in Link /\ Placed(b, s) /\ Reported(b, t, q0)
      /\ n \in Numbers /\ b.q \subseteq Numbers
  BY DEF Ordered, Typed
<1>2. c \in Typed(Numbers) /\ c.q = b.q \ {n} /\ c.top = b.top /\ c.up = b.up
  BY <1>1 DEF Typed, Link
<1>3. Dequeued(b, n) = PassUp(c, n)
  BY DEF Dequeued
<1> HIDE DEF c
<1>4. b.top \in Int /\ b.top < n /\ n < s /\ s - b.top <= Window + 1 /\ n \in Int
  BY <1>1 DEF Placed, Link, Numbers
<1>5. s - n <= Window + 1
  BY <1>4, ConstantsAssumption
<1>6. \A k \in c.q : n < k /\ k < s
  <2>1. \A k \in b.q : k \in Int /\ n <= k /\ k < s
    BY <1>1 DEF Placed, Numbers
  <2> QED BY <1>2, <1>4, <2>1
<1>7. t <= n /\ \A x \in Named(c.up) : x <= n
  <2>1. \A x \in Named(b.up) : x \in Int
    <3>1. b.up \in Seq(Int)
      BY <1>1 DEF Link
    <3> QED BY <3>1 DEF Named
  <2> QED BY <1>1, <1>2, <1>4, <2>1 DEF Reported
<1>8. q0 \subseteq c.q \cup Named(c.up) \cup {n}
  BY <1>1, <1>2 DEF Reported
<1>9. /\ Abstract!InOrder(t, c.up)
      /\ Follows(c.up, Abstract!LastOf(t, c.up, Len(c.up)), n)
  BY <1>1, <1>2 DEF Reported
<1>10. PassUp(c, n) \in Ordered(s, t, q0)
  BY <1>1, <1>2, <1>4, <1>5, <1>6, <1>7, <1>8, <1>9, PassUpOrdered
<1>11. PassUp(c, n).q = c.q
  BY <1>2 DEF PassUp, Typed, Link
<1> QED BY <1>2, <1>3, <1>10, <1>11

(* One turn of the chain (incomingQ.getPacket(src, lastSeq + 1)): if the   *)
(* lookup wraps it finds the object after the last one and no other.       *)
LEMMA SequenceStep ==
  ASSUME LookupWraps, NEW s \in Nat, NEW t \in Int, NEW q0, NEW b \in Ordered(s, t, q0)
  PROVE  /\ InSequence[b] \in Ordered(s, t, q0)
         /\ Closed(b) => InSequence[b] = b
         /\ ~ Closed(b) => InSequence[b].q = b.q \ {b.top + 1}
<1> DEFINE next == {n \in b.q : Seq8(n) = NextKey(b.last)}
<1>1. /\ b \in Link /\ b.q \subseteq Int /\ b.top \in Int /\ b.last = Seq8(b.top)
      /\ s - b.top <= Window + 1
      /\ \A n \in b.q : b.top < n /\ n < s
  BY DEF Ordered, Typed, Link, Placed
<1>2. InSequence[b] = IF next = {} THEN b ELSE Dequeued(b, CHOOSE n \in next : TRUE)
  BY <1>1 DEF InSequence
<1>3. NextKey(b.last) = Seq8(b.top + 1)
  BY <1>1, SeqNext DEF NextKey
<1>4. ASSUME NEW n \in b.q, Seq8(n) = Seq8(b.top + 1) PROVE n = b.top + 1
  <2>1. n \in Int /\ b.top + 1 \in Int /\ -SeqSpace < n - (b.top + 1) /\ n - (b.top + 1) < SeqSpace
    <3>1. n \in Int /\ b.top < n /\ n < s
      BY <1>1
    <3> QED BY <1>1, <3>1, ConstantsAssumption
  <2> QED BY <1>4, <2>1, SeqEqual
<1>5. next = {n \in b.q : n = b.top + 1}
  BY <1>3, <1>4
<1> HIDE DEF next
<1>6. CASE Closed(b)
  BY <1>2, <1>5, <1>6 DEF Closed
<1>7. CASE ~ Closed(b)
  <2> DEFINE n == b.top + 1
  <2>1. n \in b.q /\ next = {n}
    BY <1>5, <1>7 DEF Closed
  <2>2. InSequence[b] = Dequeued(b, n)
    BY <1>2, <2>1
  <2>3. \A k \in b.q : n <= k
    <3>1. \A k \in b.q : k \in Int /\ b.top < k
      BY <1>1
    <3> QED BY <1>1, <3>1
  <2>4. Follows(b.up, b.top, n)
    BY DEF Follows
  <2> HIDE DEF n
  <2>5. Dequeued(b, n) \in Ordered(s, t, q0) /\ Dequeued(b, n).q = b.q \ {n}
    BY <2>1, <2>3, <2>4, DequeuedOrdered
  <2> QED BY <1>7, <2>2, <2>5 DEF n
<1> QED BY <1>6, <1>7

(* The chain ends when the next object is not there.                       *)
LEMMA ChainedOrdered ==
  ASSUME LookupWraps, NEW s \in Nat, NEW t \in Int, NEW q0, NEW r \in Ordered(s, t, q0)
  PROVE  Chained(r) \in Ordered(s, t, q0) /\ Closed(Chained(r))
<1> DEFINE K == Cardinality(r.q)
           O == Ordered(s, t, q0)
           W == [i \in Nat |-> {b \in O : Closed(b) \/ Cardinality(b.q) + i <= K}]
<1>1. \A b \in O : IsFiniteSet(b.q) /\ Cardinality(b.q) \in Nat
  BY QueueFinite DEF Ordered
<1>2. K \in Nat /\ r \in O
  BY <1>1
<1> HIDE DEF K
<1>3. /\ \A i \in Nat : W[i] = {b \in O : Closed(b) \/ Cardinality(b.q) + i <= K}
  OBVIOUS
<1> HIDE DEF W
<1>4. r \in W[0]
  BY <1>1, <1>2, <1>3 DEF K
<1>5. ASSUME NEW i \in Nat, NEW b \in W[i] PROVE InSequence[b] \in W[i + 1]
  <2>1. b \in O /\ (Closed(b) \/ Cardinality(b.q) + i <= K)
    BY <1>3
  <2>2. InSequence[b] \in O
    BY <2>1, SequenceStep
  <2>3. CASE Closed(b)
    <3>1. InSequence[b] = b
      BY <2>1, <2>3, SequenceStep
    <3> QED BY <1>3, <2>1, <2>3, <3>1
  <2>4. CASE ~ Closed(b)
    <3>1. InSequence[b].q = b.q \ {b.top + 1} /\ b.top + 1 \in b.q
      BY <2>1, <2>4, SequenceStep DEF Closed
    <3>2. Cardinality(b.q \ {b.top + 1}) = Cardinality(b.q) - 1
      BY <1>1, <2>1, <3>1, FS_RemoveElement
    <3>3. Cardinality(b.q) \in Nat
      BY <1>1, <2>1
    <3>4. Cardinality(InSequence[b].q) + (i + 1) <= K
      BY <1>2, <2>1, <2>4, <3>1, <3>2, <3>3
    <3> QED BY <1>3, <2>2, <3>4
  <2> QED BY <2>3, <2>4
<1>6. Chained(r) \in W[K]
  BY <1>2, <1>4, <1>5, LoopFamily DEF Chained, K
<1> DEFINE c == Chained(r)
<1>7. c \in O /\ (Closed(c) \/ Cardinality(c.q) + K <= K)
  BY <1>2, <1>3, <1>6
<1> HIDE DEF c, O
<1>8. Closed(c)
  <2>1. CASE Cardinality(c.q) + K <= K
    <3>1. Cardinality(c.q) = 0
      BY <1>1, <1>2, <1>7, <2>1
    <3>2. c.q = {}
      BY <1>1, <1>7, <3>1, FS_EmptySet
    <3> QED BY <3>2 DEF Closed
  <2> QED BY <1>7, <2>1
<1> QED BY <1>7, <1>8 DEF c, O

(* handlerIncomingTimer: a hole is retired behind a report, and what       *)
(* follows the hole is passed up as far as it goes.                        *)
LEMMA RetiredOrdered ==
  ASSUME LookupWraps, NEW s \in Nat, NEW t \in Int, NEW q0, NEW r \in Ordered(s, t, q0),
         Closed(r), NEW due
  PROVE  Retired(r, due) \in Ordered(s, t, q0) /\ Closed(Retired(r, due))
<1> DEFINE V == {b \in Ordered(s, t, q0) : Closed(b)}
<1>1. ASSUME NEW c \in V PROVE Turn(due)[c] \in V
  <2> DEFINE e == [c EXCEPT !.up = Append(@, Break)]
             n == Lowest(c.q)
  <2>1. c \in Ordered(s, t, q0) /\ Closed(c) /\ c \in Typed(Numbers)
    BY DEF Ordered
  <2>2. Turn(due)[c] = IF c.q \cap due = {} THEN c ELSE Chained(Dequeued(e, n))
    BY <2>1 DEF Turn, Typed
  <2>3. CASE c.q \cap due = {}
    BY <2>2, <2>3
  <2>4. CASE c.q \cap due # {}
    <3>1. n \in c.q /\ \A k \in c.q : n <= k
      BY <2>1, <2>4, LowestIs DEF Typed
    <3>2. /\ e \in Ordered(s, t, q0) /\ e.q = c.q /\ e.top = c.top
          /\ Len(e.up) > 0 /\ e.up[Len(e.up)] = Break
      BY <2>1, BreakOrdered
    <3> HIDE DEF n, e
    <3>3. n \in Int /\ c.top \in Int /\ c.top < n
      BY <2>1, <3>1 DEF Ordered, Placed, Typed, Link
    <3>4. Follows(e.up, e.top, n)
      BY <3>2, <3>3 DEF Follows
    <3>5. Dequeued(e, n) \in Ordered(s, t, q0)
      BY <3>1, <3>2, <3>4, DequeuedOrdered
    <3> DEFINE f == Chained(Dequeued(e, n))
    <3>6. f \in Ordered(s, t, q0) /\ Closed(f)
      BY <3>5, ChainedOrdered
    <3> HIDE DEF f
    <3>7. f \in V
      BY <3>6
    <3> QED BY <2>2, <2>4, <3>7 DEF f
  <2> QED BY <2>3, <2>4
<1>2. Cardinality(r.q) \in Nat /\ r \in V
  BY QueueFinite DEF Ordered
<1>3. Retired(r, due) = Loop(r, Turn(due))
  BY DEF Retired, Turn
<1> HIDE DEF V
<1>4. Retired(r, due) \in V
  BY <1>1, <1>2, <1>3, LoopKeeps
<1> QED BY <1>4 DEF V

-----------------------------------------------------------------------------
(* Between handlers: what is known of a source's end of the link.          *)
LinkOK(m) ==
  IF lastSeqValid[m]
  THEN /\ Placed(Of(m), sent[m]) /\ Closed(Of(m))
       /\ \A n \in answered[m] : n <= top[m] \/ n \in incomingQ[m]
  ELSE incomingQ[m] = {} /\ top[m] = NoTop /\ answered[m] = {}

LEMMA OfOrdered ==
  ASSUME TypeOK, NEW m \in Sources, LinkOK(m), lastSeqValid[m]
  PROVE  Of(m) \in Ordered(sent[m], top[m], incomingQ[m]) /\ Closed(Of(m))
<1>1. Of(m) \in Typed(Numbers)
  BY OfTyped DEF Typed
<1>2. Of(m).up = <<>> /\ Of(m).q = incomingQ[m] /\ Of(m).top = top[m] /\ Len(<<>>) = 0
  BY DEF Of
<1>3. Placed(Of(m), sent[m]) /\ Closed(Of(m))
  BY DEF LinkOK
<1>4. top[m] \in Int
  BY DEF TypeOK, NoTop
<1>5. Reported(Of(m), top[m], incomingQ[m])
  BY <1>2, <1>4, NothingSaid DEF Reported
<1> QED BY <1>1, <1>3, <1>5 DEF Ordered

LEMMA AcceptedOrdered ==
  ASSUME LookupWraps, TypeOK, NEW m \in Sources, LinkOK(m), NEW n \in Numbers, n \in InAir(m)
  PROVE  LET a == Accepted(m, n) IN
         /\ a \in Ordered(sent[m], top[m], incomingQ[m]) /\ Closed(a)
         /\ n <= a.top \/ n \in a.q
<1> DEFINE r == FirstHeard(m, n)
           reg == Reg(Seq8(n), r.last)
           a == Accepted(m, n)
           e == [r EXCEPT !.q = @ \cup {n}]
           s == sent[m]
           t == top[m]
           Q == incomingQ[m]
           O == Ordered(s, t, Q \cup {n})
           Fine(c) == c \in Ordered(s, t, Q) /\ Closed(c) /\ (n <= c.top \/ n \in c.q)
<1>1. /\ s \in Nat /\ t \in Int /\ Q \in SUBSET Numbers /\ n \in Int /\ n >= 0
      /\ n < s /\ s - n <= Window
  BY ConstantsAssumption DEF TypeOK, InAir, Numbers, NoTop
<1>2. /\ reg \in Int
      /\ reg <= 0 => a = r
      /\ reg = 1  => a = Chained(PassUp(r, n))
      /\ reg > 1  => a = Chained(e)
  BY AcceptedCases
<1>3. r \in Typed(Numbers)
  BY OfTyped DEF Typed
<1>4. ASSUME NEW b \in O, a = Chained(b) PROVE Fine(a)
  <2> DEFINE c == Chained(b)
  <2> HIDE DEF a
  <2>1. c \in O /\ Closed(c)
    <3> HIDE DEF s, t, Q
    <3> QED BY <1>1, <1>4, ChainedOrdered
  <2> HIDE DEF c
  <2>2. c \in Ordered(s, t, Q) /\ (n <= c.top \/ n \in c.q)
    BY <2>1 DEF Ordered, Reported
  <2> QED BY <1>4, <2>1, <2>2 DEF c
<1>5. ASSUME lastSeqValid[m] PROVE Fine(a)
  <2>1. r = Of(m) /\ r \in Ordered(s, t, Q) /\ Closed(r)
    BY <1>5, OfOrdered DEF FirstHeard
  <2>2. r.up = <<>> /\ r.q = Q /\ r.top = t /\ Len(<<>>) = 0
    BY <2>1 DEF Of
  <2> HIDE DEF r, a, s, t, Q, e
  <2>3. /\ r.last = Seq8(t) /\ -1 <= t /\ t < s /\ s - t <= Window + 1
        /\ \A k \in Q : t < k /\ k < s
    BY <2>1, <2>2 DEF Ordered, Placed
  <2>4. reg = n - t
    BY <1>1, <2>3, ConstantsAssumption, RegIs
  <2> HIDE DEF reg
  <2>5. CASE reg <= 0
    <3>1. a = r /\ n <= t
      BY <1>1, <1>2, <2>4, <2>5
    <3> QED BY <2>1, <2>2, <3>1
  <2>6. CASE reg = 1
    <3>1. n = t + 1
      BY <1>1, <2>4, <2>6
    <3>2. \A k \in r.q : n < k /\ k < s
      <4>1. ASSUME NEW k \in Q PROVE n < k /\ k < s
        <5>1. k # n
          BY <2>1, <2>2, <3>1 DEF Closed
        <5>2. k \in Int
          BY <1>1 DEF Numbers
        <5> QED BY <1>1, <2>3, <3>1, <5>1, <5>2
      <4> QED BY <2>2, <4>1
    <3>3. /\ Abstract!InOrder(t, r.up) /\ Abstract!LastOf(t, r.up, Len(r.up)) = t
          /\ Named(r.up) = {}
      BY <2>2, NothingSaid
    <3>4. Follows(r.up, t, n)
      BY <3>1 DEF Follows
    <3>5. s - n <= Window + 1 /\ t <= n
      BY <1>1, <3>1, ConstantsAssumption
    <3>6. Q \cup {n} \subseteq r.q \cup Named(r.up) \cup {n}
      BY <2>2
    <3>7. PassUp(r, n) \in O
      BY <1>1, <1>3, <3>2, <3>3, <3>4, <3>5, <3>6, PassUpOrdered
    <3> QED BY <1>2, <1>4, <2>6, <3>7
  <2>7. CASE reg > 1
    <3>1. e \in Typed(Numbers)
      BY <1>3 DEF Typed, Link, Numbers, e
    <3>2. r \in Link
      BY <1>3 DEF Typed
    <3>3. e.q = Q \cup {n} /\ e.top = t /\ e.last = r.last /\ e.up = <<>>
      BY <2>2, <3>2 DEF Link, e
    <3>4. t < n
      BY <1>1, <2>4, <2>7
    <3>5. Placed(e, s)
      BY <1>1, <2>3, <3>3, <3>4 DEF Placed
    <3>6. Reported(e, t, Q \cup {n})
      BY <1>1, <2>2, <3>3, NothingSaid DEF Reported
    <3> QED BY <1>2, <1>4, <2>7, <3>1, <3>5, <3>6 DEF Ordered
  <2> QED BY <1>2, <2>5, <2>6, <2>7
<1>6. ASSUME ~ lastSeqValid[m] PROVE Fine(a)
  <2>1. r = [Of(m) EXCEPT !.last = Seq8(n - 1), !.top = n - 1] /\ Q = {} /\ t = NoTop
    BY <1>6 DEF FirstHeard, LinkOK
  <2>2. Of(m).up = <<>> /\ Of(m).q = Q /\ Len(<<>>) = 0 /\ Of(m) \in Link
    BY OfTyped DEF Of, Typed
  <2> HIDE DEF r, a, s, t, Q, e
  <2>3. r.last = Seq8(n - 1) /\ r.q = {} /\ r.up = <<>>
    BY <2>1, <2>2 DEF Link
  <2>4. reg = 1
    <3>1. n - 1 \in Int /\ n - (n - 1) = 1 /\ -Window <= 1 /\ 1 <= Window
      BY <1>1, ConstantsAssumption
    <3> QED BY <2>3, <3>1, <1>1, RegIs
  <2>5. /\ Abstract!InOrder(t, r.up) /\ Abstract!LastOf(t, r.up, Len(r.up)) = t
        /\ Named(r.up) = {}
    BY <2>3, <2>2, NothingSaid
  <2>6. Follows(r.up, t, n)
    BY <2>1 DEF Follows
  <2>7. s - n <= Window + 1 /\ t <= n
    BY <1>1, <2>1, ConstantsAssumption DEF NoTop
  <2>8. Q \cup {n} \subseteq r.q \cup Named(r.up) \cup {n}
    BY <2>1
  <2>9. PassUp(r, n) \in O
    BY <1>1, <1>3, <2>3, <2>5, <2>6, <2>7, <2>8, PassUpOrdered
  <2> QED BY <1>2, <1>4, <2>4, <2>9
<1> QED BY <1>5, <1>6

(* What a step does to one source: as OrderedLink says, skipping nothing   *)
(* that was answered, and passing up nothing beyond the new top.           *)
Below(up, t) == up \in Seq(Int) /\ \A x \in Named(up) : x <= t

StepOK(m) ==
  /\ \/ top'[m] = NoTop /\ upcalls'[m] = <<>>
     \/ /\ Abstract!InOrder(top[m], upcalls'[m])
        /\ top'[m] = Abstract!LastOf(top[m], upcalls'[m], Len(upcalls'[m]))
  /\ Skipped(m) \cap answered[m] = {}
  /\ Below(upcalls'[m], top'[m])

LEMMA Unmoved ==
  ASSUME TypeOK, NEW m \in Sources, top'[m] = top[m], upcalls'[m] = <<>>
  PROVE  StepOK(m)
<1>1. top[m] \in Int /\ Len(<<>>) = 0
  BY DEF TypeOK, NoTop
<1>2. Skipped(m) = {}
  BY <1>1 DEF Skipped, Numbers
<1>3. Below(<<>>, top'[m])
  BY NothingSaid DEF Below
<1> QED BY <1>1, <1>2, <1>3, NothingSaid DEF StepOK

LEMMA SameLink ==
  ASSUME NEW m \in Sources, LinkOK(m), sent'[m] = sent[m], lastSeqValid'[m] = lastSeqValid[m],
         lastSeq'[m] = lastSeq[m], incomingQ'[m] = incomingQ[m], top'[m] = top[m],
         answered'[m] = answered[m]
  PROVE  LinkOK(m)'
<1>1. Of(m)' = Of(m)
  BY DEF Of
<1> QED BY <1>1 DEF LinkOK, Placed, Closed

LEMMA Advanced ==
  ASSUME TypeOK, NEW m \in Sources, LinkOK(m),
         NEW b \in Ordered(sent[m], top[m], incomingQ[m]), Closed(b),
         sent'[m] = sent[m], lastSeqValid'[m], lastSeq'[m] = b.last, incomingQ'[m] = b.q,
         top'[m] = b.top, upcalls'[m] = b.up,
         \A n \in answered'[m] : n \in answered[m] \/ n <= b.top \/ n \in b.q
  PROVE  LinkOK(m)' /\ StepOK(m)
<1>1. /\ Placed(b, sent[m]) /\ Reported(b, top[m], incomingQ[m])
      /\ b.top \in Int /\ b.q \subseteq Int /\ top[m] \in Int /\ answered[m] \subseteq Int
  BY DEF Ordered, Typed, Link, TypeOK, NoTop, Numbers
<1>2. ASSUME NEW n \in answered[m]
      PROVE  (n <= top[m] \/ n \in b.q \/ n \in Named(b.up)) /\ (n <= b.top \/ n \in b.q)
  <2>1. n \in Int /\ (n <= top[m] \/ n \in incomingQ[m])
    BY <1>1, <1>2 DEF LinkOK
  <2>2. CASE n <= top[m]
    BY <1>1, <2>1, <2>2 DEF Reported
  <2>3. CASE n \in incomingQ[m]
    BY <1>1, <2>3 DEF Reported
  <2> QED BY <2>1, <2>2, <2>3
<1>3. LinkOK(m)'
  <2>1. Of(m)' = [last |-> b.last, q |-> b.q, top |-> b.top, up |-> <<>>]
    BY DEF Of
  <2>2. Placed(Of(m)', sent'[m]) /\ Closed(Of(m)')
    BY <1>1, <2>1 DEF Placed, Closed
  <2>3. \A n \in answered'[m] : n <= top'[m] \/ n \in incomingQ'[m]
    BY <1>2
  <2> QED BY <2>2, <2>3 DEF LinkOK
<1>4. Skipped(m) \cap answered[m] = {}
  <2>1. ASSUME NEW n \in Skipped(m), n \in answered[m] PROVE FALSE
    <3>1. n \in Int /\ top[m] < n /\ n < b.top /\ n \notin Named(b.up)
      BY DEF Skipped, Numbers, Named
    <3>2. n \in b.q
      BY <1>1, <1>2, <2>1, <3>1
    <3>3. b.top < n
      BY <1>1, <3>2 DEF Placed
    <3> QED BY <1>1, <3>1, <3>3
  <2> QED BY <2>1
<1>5. /\ Abstract!InOrder(top[m], upcalls'[m])
      /\ top'[m] = Abstract!LastOf(top[m], upcalls'[m], Len(upcalls'[m]))
  BY <1>1 DEF Reported
<1>6. Below(upcalls'[m], top'[m])
  BY <1>1 DEF Reported, Below, Ordered, Typed, Link
<1> QED BY <1>3, <1>4, <1>5, <1>6 DEF StepOK

(* A source without a link has nothing that could expire.                  *)
LEMMA RetiredNothing ==
  ASSUME TypeOK, NEW m \in Sources, incomingQ[m] = {}, NEW due
  PROVE  Retired(Of(m), due) = Of(m)
<1> DEFINE r == Of(m)
<1>1. r \in Link /\ r.q = {}
  BY OfTyped DEF Typed, Of
<1>2. Turn(due)[r] = r /\ Cardinality(r.q) \in Nat
  BY <1>1, FS_EmptySet DEF Turn
<1>3. Retired(r, due) = Loop(r, Turn(due))
  BY DEF Retired, Turn
<1> HIDE DEF r
<1>4. Loop(r, Turn(due)) \in {r}
  BY <1>2, LoopKeeps
<1> QED BY <1>3, <1>4 DEF r

-----------------------------------------------------------------------------
Aligned == TypeOK /\ \A m \in Sources : LinkOK(m)

LEMMA InitAligned == Init => Aligned
BY InitTimed DEF Init, Aligned, LinkOK, Timed

LEMMA StepAligned ==
  ASSUME LookupWraps, Aligned, TypeOK', Next
  PROVE  \A m \in Sources : LinkOK(m)' /\ StepOK(m)
<1>1. TypeOK /\ \A m \in Sources : LinkOK(m)
  BY DEF Aligned
<1>2. /\ sent \in [Sources -> 0 .. MaxObjects] /\ listed \in [Sources -> SUBSET Numbers]
      /\ incomingQ \in [Sources -> SUBSET Numbers] /\ answered \in [Sources -> SUBSET Numbers]
      /\ lastSeqValid \in [Sources -> BOOLEAN] /\ lastSeq \in [Sources -> 0 .. SeqSpace - 1]
      /\ top \in [Sources -> NoTop .. MaxObjects - 1]
  BY <1>1 DEF TypeOK
<1>3. ASSUME NEW k \in Sources, Send(k), NEW m \in Sources PROVE LinkOK(m)' /\ StepOK(m)
  <2>1. /\ lastSeqValid' = lastSeqValid /\ lastSeq' = lastSeq /\ incomingQ' = incomingQ
        /\ top' = top /\ answered' = answered /\ upcalls' = [j \in Sources |-> <<>>]
        /\ sent' = [sent EXCEPT ![k] = sent[k] + 1]
        /\ lastSeqValid[k] => sent[k] - top[k] <= Window
    BY <1>3 DEF Send, Silent, receiverVars, heardVars
  <2>2. StepOK(m)
    BY <1>1, <2>1, Unmoved
  <2>3. CASE m # k
    BY <1>1, <1>2, <2>1, <2>2, <2>3, SameLink
  <2>4. CASE m = k /\ lastSeqValid[m]
    <3>1. Placed(Of(m), sent[m]) /\ Closed(Of(m)) /\ Of(m).top = top[m] /\ Of(m).q = incomingQ[m]
      BY <1>1, <2>4 DEF LinkOK, Of
    <3>2. sent'[m] = sent[m] + 1 /\ sent[m] \in Int /\ top[m] \in Int /\ sent[m] - top[m] <= Window
      BY <1>2, <2>1, <2>4 DEF NoTop
    <3>3. Placed(Of(m), sent'[m])
      <4>1. \A n \in incomingQ[m] : n \in Int
        BY <1>2 DEF Numbers
      <4> QED BY <3>1, <3>2, <4>1, ConstantsAssumption DEF Placed
    <3>4. Of(m)' = Of(m)
      BY <2>1 DEF Of
    <3>5. LinkOK(m)'
      BY <1>1, <2>1, <2>4, <3>1, <3>3, <3>4 DEF LinkOK
    <3> QED BY <2>2, <3>5
  <2>5. CASE m = k /\ ~ lastSeqValid[m]
    BY <1>1, <2>1, <2>2, <2>5 DEF LinkOK
  <2> QED BY <2>3, <2>4, <2>5
<1>4. ASSUME NEW k \in Sources, NEW n \in Numbers, ObjectInput(k, n), NEW m \in Sources
      PROVE  LinkOK(m)' /\ StepOK(m)
  <2> DEFINE a == Accepted(k, n)
  <2>1. Store(k, a) /\ a \in Typed(Numbers)
    BY <1>1, <1>4, InputAccepted
  <2>2. /\ lastSeq'[k] = a.last /\ incomingQ'[k] = a.q /\ top'[k] = a.top /\ upcalls'[k] = a.up
        /\ \A j \in Sources : j # k =>
             /\ lastSeq'[j] = lastSeq[j] /\ incomingQ'[j] = incomingQ[j] /\ top'[j] = top[j]
             /\ upcalls'[j] = <<>>
    <3> HIDE DEF a
    <3> QED BY <1>1, <2>1, Stored
  <2>3. /\ answered' = [answered EXCEPT ![k] = IF n \in listed[k] THEN @ \cup {n} ELSE @]
        /\ lastSeqValid' = [lastSeqValid EXCEPT ![k] = TRUE]
        /\ sent' = sent /\ n \in InAir(k)
    BY <1>4 DEF ObjectInput, Answer
  <2>4. CASE m # k
    <3>1. answered'[m] = answered[m] /\ lastSeqValid'[m] = lastSeqValid[m] /\ sent'[m] = sent[m]
      BY <1>2, <2>3, <2>4
    <3> HIDE DEF a
    <3> QED BY <1>1, <2>2, <2>4, <3>1, Unmoved, SameLink
  <2>5. CASE m = k
    <3>1. /\ a \in Ordered(sent[m], top[m], incomingQ[m]) /\ Closed(a)
          /\ n <= a.top \/ n \in a.q
      BY <1>1, <2>3, <2>5, AcceptedOrdered
    <3>2. answered'[m] \subseteq answered[m] \cup {n} /\ lastSeqValid'[m] /\ sent'[m] = sent[m]
      BY <1>2, <2>3, <2>5
    <3>3. \A x \in answered'[m] : x \in answered[m] \/ x <= a.top \/ x \in a.q
      BY <3>1, <3>2
    <3> HIDE DEF a
    <3> QED BY <1>1, <2>2, <2>5, <3>1, <3>2, <3>3, Advanced
  <2> QED BY <2>4, <2>5
<1>5. ASSUME NEW due, HandlerIncomingTimer(due), NEW m \in Sources PROVE LinkOK(m)' /\ StepOK(m)
  <2> DEFINE r == Retired(Of(m), Due(m, due))
  <2>1. /\ lastSeq'[m] = r.last /\ incomingQ'[m] = r.q /\ top'[m] = r.top /\ upcalls'[m] = r.up
    BY <1>1, <1>5, Handled
  <2>2. lastSeqValid' = lastSeqValid /\ answered' = answered /\ sent' = sent
    BY <1>5 DEF HandlerIncomingTimer, heardVars
  <2>3. CASE lastSeqValid[m]
    <3>1. sent[m] \in Nat /\ top[m] \in Int
      BY <1>2 DEF NoTop
    <3>2. r \in Ordered(sent[m], top[m], incomingQ[m]) /\ Closed(r)
      BY <1>1, <2>3, <3>1, OfOrdered, RetiredOrdered
    <3> HIDE DEF r
    <3>3. \A x \in answered'[m] : x \in answered[m] \/ x <= r.top \/ x \in r.q
      BY <2>2
    <3> QED BY <1>1, <2>1, <2>2, <2>3, <3>2, <3>3, Advanced
  <2>4. CASE ~ lastSeqValid[m]
    <3>1. r = Of(m)
      BY <1>1, <2>4, RetiredNothing DEF LinkOK
    <3>2. lastSeq'[m] = lastSeq[m] /\ incomingQ'[m] = incomingQ[m] /\ top'[m] = top[m]
          /\ upcalls'[m] = <<>>
      BY <2>1, <3>1 DEF Of
    <3> QED BY <1>1, <2>2, <3>2, SameLink, Unmoved
  <2> QED BY <2>3, <2>4
<1>6. ASSUME NEW k \in Sources, LinkDown(k), NEW m \in Sources PROVE LinkOK(m)' /\ StepOK(m)
  <2>1. /\ lastSeqValid' = [lastSeqValid EXCEPT ![k] = FALSE]
        /\ lastSeq' = [lastSeq EXCEPT ![k] = 0]
        /\ incomingQ' = [incomingQ EXCEPT ![k] = {}] /\ top' = [top EXCEPT ![k] = NoTop]
        /\ answered' = [answered EXCEPT ![k] = {}] /\ upcalls' = [j \in Sources |-> <<>>]
        /\ sent' = sent
    BY <1>6 DEF LinkDown, Silent
  <2>2. CASE m # k
    <3>1. /\ lastSeqValid'[m] = lastSeqValid[m] /\ lastSeq'[m] = lastSeq[m]
          /\ incomingQ'[m] = incomingQ[m] /\ top'[m] = top[m] /\ answered'[m] = answered[m]
          /\ upcalls'[m] = <<>> /\ sent'[m] = sent[m]
      BY <1>2, <2>1, <2>2
    <3> QED BY <1>1, <3>1, SameLink, Unmoved
  <2>3. CASE m = k
    <3>1. /\ ~ lastSeqValid'[m] /\ incomingQ'[m] = {} /\ top'[m] = NoTop /\ answered'[m] = {}
          /\ upcalls'[m] = <<>>
      BY <1>2, <2>1, <2>3
    <3>2. Skipped(m) = {}
      BY <3>1 DEF Skipped
    <3>3. Below(upcalls'[m], top'[m])
      BY <3>1, NothingSaid DEF Below
    <3> QED BY <3>1, <3>2, <3>3 DEF LinkOK, StepOK
  <2> QED BY <2>2, <2>3
<1> QED BY <1>3, <1>4, <1>5, <1>6 DEF Next, IncomingTimeout, Numbers

LEMMA NextAligned == ASSUME LookupWraps PROVE Aligned /\ TypeOK' /\ [Next]_vars => Aligned'
<1> SUFFICES ASSUME Aligned, TypeOK', [Next]_vars PROVE Aligned'
  OBVIOUS
<1>1. CASE Next
  BY <1>1, StepAligned DEF Aligned
<1>2. CASE UNCHANGED vars
  <2>1. \A m \in Sources : LinkOK(m)'
    BY <1>2, SameLink DEF Aligned, vars, receiverVars, historyVars, heardVars
  <2> QED BY <2>1 DEF Aligned
<1> QED BY <1>1, <1>2

LEMMA AlwaysAligned == ASSUME LookupWraps PROVE Spec => []Aligned
BY InitAligned, NextAligned, TypeCorrect, PTL DEF Spec

(* Every object that waits is ahead of the one passed up last: none is     *)
(* passed over and left in the queue (recv_incoming, imep_object_input,    *)
(* handlerIncomingTimer, imepSetLinkDownStatus).                           *)
THEOREM NoneLeftBehind == ASSUME LookupWraps PROVE Spec => []QueueAhead
<1>1. Aligned => QueueAhead
  <2> SUFFICES ASSUME Aligned, NEW m \in Sources
               PROVE  /\ lastSeqValid[m] => lastSeq[m] = Seq8(top[m])
                      /\ incomingQ[m] # {} => lastSeqValid[m]
                      /\ \A n \in incomingQ[m] : top[m] < n /\ n <= top[m] + Window
    BY DEF QueueAhead
  <2>1. TypeOK /\ LinkOK(m)
    BY DEF Aligned
  <2>2. sent[m] \in Int /\ top[m] \in Int /\ incomingQ[m] \subseteq Int
    BY <2>1 DEF TypeOK, NoTop, Numbers
  <2>3. CASE lastSeqValid[m]
    <3>1. Placed(Of(m), sent[m])
      BY <2>1, <2>3 DEF LinkOK
    <3>2. /\ lastSeq[m] = Seq8(top[m]) /\ sent[m] - top[m] <= Window + 1
          /\ \A n \in incomingQ[m] : top[m] < n /\ n < sent[m]
      BY <3>1 DEF Placed, Of
    <3>3. ASSUME NEW n \in incomingQ[m] PROVE n <= top[m] + Window
      BY <2>2, <3>2, ConstantsAssumption
    <3> QED BY <2>3, <3>2, <3>3
  <2>4. CASE ~ lastSeqValid[m]
    BY <2>1, <2>4 DEF LinkOK
  <2> QED BY <2>3, <2>4
<1> QED BY <1>1, AlwaysAligned, PTL

(* The agent implements the ordered link: objects are passed up in order,  *)
(* and left out only directly behind a report that the link broke.         *)
THEOREM PassedUpInOrder == ASSUME LookupWraps PROVE Spec => InOrderDelivery
<1>1. Init => Abstract!Init
  BY DEF Init, Abstract!Init, NoTop, Abstract!NoTop
<1>2. Aligned /\ TypeOK' /\ [Next]_vars => [Abstract!Handle]_<<top, upcalls>>
  <2>1. ASSUME Aligned, TypeOK', Next PROVE Abstract!Handle
    BY <2>1, StepAligned DEF StepOK, Abstract!Handle, NoTop, Abstract!NoTop
  <2>2. UNCHANGED vars => UNCHANGED <<top, upcalls>>
    BY DEF vars, historyVars
  <2> QED BY <2>1, <2>2
<1> QED BY <1>1, <1>2, AlwaysAligned, TypeCorrect, PTL DEF Spec, InOrderDelivery, Abstract!Spec

(* What was answered (imep_ack_object) is not skipped while the link       *)
(* lives, whichever objects overtook it or timed out.                      *)
THEOREM AnsweredArePassedUp == ASSUME LookupWraps PROVE Spec => AnsweredNotSkipped
<1> DEFINE Whole == \A m \in Sources : Skipped(m) \cap answered[m] = {}
<1>1. Aligned /\ TypeOK' /\ [Next]_vars => [Whole]_vars
  BY StepAligned DEF StepOK
<1> QED BY <1>1, AlwaysAligned, TypeCorrect, PTL DEF Spec, AnsweredNotSkipped

-----------------------------------------------------------------------------
(* Objects that are passed up in order rise.                               *)
Rises(t, up) ==
  /\ \A i \in 1 .. Len(up) : up[i] # Break => t < up[i]
  /\ \A i, j \in 1 .. Len(up) : i < j /\ up[i] # Break /\ up[j] # Break => up[i] < up[j]

LEMMA LastStep ==
  ASSUME NEW t, NEW up \in Seq(Int), NEW i \in 1 .. Len(up)
  PROVE  Abstract!LastOf(t, up, i)
           = IF up[i] = Break THEN Abstract!LastOf(t, up, i - 1) ELSE up[i]
<1>1. CASE up[i] = Break
  <2>1. Objects(up, i) = Objects(up, i - 1)
    BY <1>1 DEF Objects
  <2> QED BY <1>1, <2>1, LastIs
<1>2. CASE up[i] # Break
  <2> DEFINE S == Objects(up, i)
  <2>1. i \in S /\ S \in SUBSET (1 .. i) /\ i \in Nat
    BY <1>2 DEF Objects
  <2> HIDE DEF S
  <2>2. Newest(S) \in 1 .. i /\ i <= Newest(S) /\ S # {}
    BY <2>1, NewestIs
  <2>3. Newest(S) = i
    BY <2>1, <2>2
  <2> QED BY <1>2, <2>2, <2>3, LastIs DEF S
<1> QED BY <1>1, <1>2

LEMMA OrderRises ==
  ASSUME NEW t \in Int, t > NoTop, NEW up \in Seq(Int), Abstract!InOrder(t, up)
  PROVE  Rises(t, up)
<1> DEFINE l == Len(up)
           L(i) == Abstract!LastOf(t, up, i)
           Up(i) == /\ L(i) \in Int /\ t <= L(i)
                    /\ \A j \in 1 .. i : up[j] # Break => t < up[j] /\ up[j] <= L(i)
                    /\ \A j, k \in 1 .. i :
                         j < k /\ up[j] # Break /\ up[k] # Break => up[j] < up[k]
           S == {i \in Nat : i <= l => Up(i)}
<1>1. l \in Nat
  OBVIOUS
<1>2. ASSUME NEW i \in 1 .. l, up[i] # Break
      PROVE  \/ L(i - 1) = NoTop
             \/ up[i] = L(i - 1) + 1
             \/ up[i] > L(i - 1) + 1
  BY <1>2 DEF Abstract!InOrder, Break, NoTop, Abstract!Break, Abstract!NoTop
<1>3. \A i \in 1 .. l : L(i) = IF up[i] = Break THEN L(i - 1) ELSE up[i]
  BY LastStep
<1>4. 0 \in S
  <2>1. Objects(up, 0) = {}
    BY DEF Objects
  <2>2. L(0) = t
    BY <2>1, LastIs
  <2> HIDE DEF L
  <2> QED BY <2>2
<1>5. \A i \in 1 .. l : up[i] \in Int
  OBVIOUS
<1> HIDE DEF L, l
<1>6. ASSUME NEW i \in Nat, i \in S PROVE i + 1 \in S
  <2> SUFFICES ASSUME i + 1 <= l PROVE Up(i + 1)
    OBVIOUS
  <2>1. i + 1 \in 1 .. l /\ (i + 1) - 1 = i /\ Up(i)
    BY <1>1, <1>6
  <2>2. \A j \in 1 .. i + 1 : j \in 1 .. i \/ j = i + 1
    OBVIOUS
  <2>3. CASE up[i + 1] = Break
    <3>1. L(i + 1) = L(i)
      BY <1>3, <2>1, <2>3
    <3> QED BY <2>1, <2>2, <2>3, <3>1
  <2>4. CASE up[i + 1] # Break
    <3>1. L(i + 1) = up[i + 1] /\ up[i + 1] \in Int
      BY <1>3, <1>5, <2>1, <2>4
    <3>2. L(i) < up[i + 1]
      BY <1>2, <2>1, <2>4, <3>1 DEF NoTop
    <3>3. \A j \in 1 .. i : up[j] \in Int
      BY <1>1, <1>5, <2>1
    <3>4. \A j \in 1 .. i : up[j] # Break => t < up[j] /\ up[j] < up[i + 1]
      BY <2>1, <3>1, <3>2, <3>3
    <3>5. t < up[i + 1]
      BY <2>1, <3>1, <3>2
    <3>6. \A j \in 1 .. i + 1 : up[j] # Break => t < up[j] /\ up[j] <= L(i + 1)
      BY <2>2, <3>1, <3>3, <3>4, <3>5
    <3>7. ASSUME NEW j \in 1 .. i + 1, NEW k \in 1 .. i + 1, j < k,
                 up[j] # Break, up[k] # Break
          PROVE  up[j] < up[k]
      <4>1. j \in 1 .. i
        BY <3>7
      <4>2. CASE k = i + 1
        BY <3>4, <3>7, <4>1, <4>2
      <4>3. CASE k \in 1 .. i
        BY <2>1, <3>7, <4>1, <4>3
      <4> QED BY <2>2, <4>2, <4>3
    <3> QED BY <3>1, <3>5, <3>6, <3>7
  <2> QED BY <2>3, <2>4
<1> HIDE DEF S
<1>7. Nat \subseteq S
  BY <1>4, <1>6, SetInduction
<1>8. Up(l)
  BY <1>1, <1>7 DEF S
<1> QED BY <1>8 DEF Rises, l

(* No object is passed up twice while its link lives: what a handler       *)
(* passes up rises above the last object of the handler before, and stays  *)
(* at or below the one the next handler starts from.                       *)
NonePassedUpTwice ==
  [][\A m \in Sources :
       /\ \A i \in 1 .. Len(upcalls'[m]) : upcalls'[m][i] <= top'[m]
       /\ lastSeqValid[m] => Rises(top[m], upcalls'[m])]_vars

(* If the lookup wraps, the retransmissions of an object that has been     *)
(* passed up are ignored (imep.cc 816-870); if not, the object after a     *)
(* wrap stays in the queue and is passed up a second time.                 *)
THEOREM PassedUpOnce == ASSUME LookupWraps PROVE Spec => NonePassedUpTwice
<1> DEFINE Once == \A m \in Sources :
                     /\ \A i \in 1 .. Len(upcalls'[m]) : upcalls'[m][i] <= top'[m]
                     /\ lastSeqValid[m] => Rises(top[m], upcalls'[m])
<1>1. ASSUME Aligned, TypeOK', Next, NEW m \in Sources
      PROVE  /\ \A i \in 1 .. Len(upcalls'[m]) : upcalls'[m][i] <= top'[m]
             /\ lastSeqValid[m] => Rises(top[m], upcalls'[m])
  <2> DEFINE up == upcalls'[m]
  <2>1. StepOK(m) /\ TypeOK /\ LinkOK(m)
    BY <1>1, StepAligned DEF Aligned
  <2>2. up \in Seq(Int) /\ \A i \in 1 .. Len(up) : up[i] <= top'[m]
    BY <2>1 DEF StepOK, Below, Named
  <2>3. ASSUME lastSeqValid[m] PROVE Rises(top[m], up)
    <3>1. top[m] \in Int /\ top[m] > NoTop
      BY <2>1, <2>3 DEF LinkOK, Placed, Of, TypeOK, NoTop
    <3>2. CASE up = <<>>
      BY <3>2 DEF Rises
    <3>3. CASE Abstract!InOrder(top[m], up)
      BY <2>2, <3>1, <3>3, OrderRises
    <3> QED BY <2>1, <3>2, <3>3 DEF StepOK
  <2> QED BY <2>2, <2>3
<1>2. Aligned /\ TypeOK' /\ [Next]_vars => [Once]_vars
  BY <1>1
<1> QED BY <1>2, AlwaysAligned, TypeCorrect, PTL DEF Spec, NonePassedUpTwice

================================================================================
