---------------------------- MODULE ToraLoops_proofs ----------------------------
(***************************************************************************)
(* What a router knows of a neighbour's height, as long as it has not      *)
(* missed its last change, whatever IMEP reports of the links; and from    *)
(* it, where routing loops are absent.                                     *)
(***************************************************************************)
EXTENDS Tora_proofs

(* A message that tells the height h.                                      *)
Says(m, h) == (m.type = "UPD" /\ m.height = h) \/ (m.type = "CLR" /\ h = Null)

(* The receiver holds x, the sender's height is h, c is on its way: the    *)
(* last message but queries tells h; if there is none, x is it or erased.  *)
Current(c, h, x) ==
  /\ \A n \in 1 .. Len(c) :
       c[n].type # "QRY" /\ (\A p \in n + 1 .. Len(c) : c[p].type = "QRY") => Says(c[n], h)
  /\ (\A n \in 1 .. Len(c) : c[n].type = "QRY") => x \in {Null, h}

HeightOf(k) == IF k \in known THEN dst[k].height ELSE Null
HeardOf(i, k) == IF i \in known /\ k \in links[i] THEN dst[i].heard[k] ELSE Null

(* From sender k to receiver i.                                            *)
Pair(k, i) == <<k, i>> \notin missed => Current(chan[k][i], HeightOf(k), HeardOf(i, k))

Pairs ==
  /\ \A i \in Routers : i \notin links[i] /\ {i} \notin air
  /\ \A k, i \in Routers : k # i => Pair(k, i)

-----------------------------------------------------------------------------
LEMMA CurrentEmpty ==
  ASSUME NEW h, NEW x \in {Null, h}
  PROVE  Current(<<>>, h, x)
BY DEF Current

LEMMA CurrentErased ==
  ASSUME NEW c, NEW h, NEW x, Current(c, h, x), NEW y \in {x, Null}
  PROVE  Current(c, h, y)
BY DEF Current

LEMMA CurrentAsked ==
  ASSUME NEW c \in Seq(Messages), NEW h, NEW x, Current(c, h, x)
  PROVE  Current(c \o <<QRY>>, h, x)
<1> DEFINE b == c \o <<QRY>>
<1>1. /\ Len(b) = Len(c) + 1 /\ Len(c) \in Nat
      /\ \A n \in 1 .. Len(c) : b[n] = c[n]
      /\ b[Len(c) + 1] = QRY
  OBVIOUS
<1>2. b[Len(c) + 1].type = "QRY"
  BY <1>1 DEF QRY
<1> HIDE DEF b
<1>3. ASSUME NEW n \in 1 .. Len(b), b[n].type # "QRY", \A p \in n + 1 .. Len(b) : b[p].type = "QRY"
      PROVE  Says(b[n], h)
  <2>1. n \in 1 .. Len(c) /\ \A p \in n + 1 .. Len(c) : c[p].type = "QRY"
    <3>1. n \in 1 .. Len(c)
      BY <1>1, <1>2, <1>3
    <3>2. \A p \in n + 1 .. Len(c) : p \in n + 1 .. Len(b) /\ p \in 1 .. Len(c)
      BY <1>1
    <3> QED BY <1>1, <1>3, <3>1, <3>2
  <2> QED BY <1>1, <1>3, <2>1 DEF Current
<1>4. ASSUME \A n \in 1 .. Len(b) : b[n].type = "QRY" PROVE x \in {Null, h}
  <2>1. \A n \in 1 .. Len(c) : c[n].type = "QRY"
    BY <1>1, <1>4
  <2> QED BY <2>1 DEF Current
<1>5. Current(b, h, x)
  BY <1>3, <1>4 DEF Current
<1> QED BY <1>5 DEF b

LEMMA CurrentTold ==
  ASSUME NEW c \in Seq(Messages), NEW h, NEW x, NEW m \in Messages, Says(m, h)
  PROVE  Current(c \o <<m>>, h, x)
<1> DEFINE b == c \o <<m>>
<1>1. /\ Len(b) = Len(c) + 1 /\ Len(c) \in Nat /\ b[Len(c) + 1] = m
  OBVIOUS
<1>2. m.type # "QRY"
  BY DEF Says
<1> HIDE DEF b
<1>3. ASSUME NEW n \in 1 .. Len(b), \A p \in n + 1 .. Len(b) : b[p].type = "QRY"
      PROVE  b[n] = m
  <2>1. CASE n = Len(b)
    BY <1>1, <2>1
  <2>2. CASE n # Len(b)
    <3>1. Len(b) \in n + 1 .. Len(b)
      BY <1>1, <2>2
    <3> QED BY <1>1, <1>2, <1>3, <3>1
  <2> QED BY <2>1, <2>2
<1>4. ~ \A n \in 1 .. Len(b) : b[n].type = "QRY"
  <2>1. Len(b) \in 1 .. Len(b)
    BY <1>1
  <2> QED BY <1>1, <1>2, <2>1
<1>5. Current(b, h, x)
  BY <1>3, <1>4 DEF Current
<1> QED BY <1>5 DEF b

(* The receiver takes the first message and holds y afterwards.            *)
LEMMA CurrentTaken ==
  ASSUME NEW c \in Seq(Messages), c # <<>>, NEW h, NEW x, Current(c, h, x), NEW y,
         Head(c).type = "QRY" => y \in {x, Null},
         Head(c).type = "UPD" => y \in {Head(c).height, Null},
         Head(c).type = "CLR" => y = Null
  PROVE  Current(Tail(c), h, y)
<1> DEFINE b == Tail(c)
<1>1. /\ Len(c) = Len(b) + 1 /\ Len(b) \in Nat /\ Head(c) = c[1] /\ Head(c) \in Messages
      /\ \A n \in 1 .. Len(b) : b[n] = c[n + 1]
  OBVIOUS
<1> HIDE DEF b
<1>2. ASSUME NEW n \in 1 .. Len(b), b[n].type # "QRY", \A p \in n + 1 .. Len(b) : b[p].type = "QRY"
      PROVE  Says(b[n], h)
  <2>1. n + 1 \in 1 .. Len(c) /\ c[n + 1].type # "QRY"
    BY <1>1, <1>2
  <2>2. ASSUME NEW p \in n + 1 + 1 .. Len(c) PROVE c[p].type = "QRY"
    <3>1. p - 1 \in n + 1 .. Len(b) /\ p - 1 \in 1 .. Len(b) /\ (p - 1) + 1 = p
      BY <1>1
    <3> QED BY <1>1, <1>2, <3>1
  <2>3. Says(c[n + 1], h)
    BY <2>1, <2>2 DEF Current
  <2> QED BY <1>1, <2>3
<1>3. ASSUME \A n \in 1 .. Len(b) : b[n].type = "QRY" PROVE y \in {Null, h}
  <2>1. \A p \in 1 + 1 .. Len(c) : c[p].type = "QRY"
    <3>1. ASSUME NEW p \in 1 + 1 .. Len(c) PROVE c[p].type = "QRY"
      <4>1. p - 1 \in 1 .. Len(b) /\ (p - 1) + 1 = p
        BY <1>1
      <4> QED BY <1>1, <1>3, <4>1
    <3> QED BY <3>1
  <2>2. CASE Head(c).type = "QRY"
    <3>1. \A n \in 1 .. Len(c) : c[n].type = "QRY"
      <4>1. \A n \in 1 .. Len(c) : n = 1 \/ n \in 1 + 1 .. Len(c)
        BY <1>1
      <4> QED BY <1>1, <2>1, <2>2, <4>1
    <3> QED BY <2>2, <3>1 DEF Current
  <2>3. CASE Head(c).type # "QRY"
    <3>1. 1 \in 1 .. Len(c)
      BY <1>1
    <3>2. Says(Head(c), h)
      BY <1>1, <2>1, <2>3, <3>1 DEF Current
    <3> QED BY <2>3, <3>2 DEF Says
  <2> QED BY <2>2, <2>3
<1>4. Current(b, h, y)
  BY <1>2, <1>3 DEF Current
<1> QED BY <1>4 DEF b

(* The receiver loses the first messages and holds nothing.                *)
LEMMA CurrentSuffix ==
  ASSUME NEW c \in Seq(Messages), NEW h, NEW x, Current(c, h, x), NEW b \in Suffixes(c)
  PROVE  Current(b, h, Null)
<1>1. PICK n \in 1 .. Len(c) + 1 : b = SubSeq(c, n, Len(c))
  BY DEF Suffixes
<1>2. Len(c) \in Nat /\ n \in Int /\ Len(c) \in Int /\ \A p \in n .. Len(c) : c[p] \in Messages
  OBVIOUS
<1>3. /\ Len(b) = IF n <= Len(c) THEN Len(c) - n + 1 ELSE 0
      /\ \A p \in 1 .. Len(c) - n + 1 : b[p] = c[n + p - 1]
  BY <1>1, <1>2, SubSeqProperties
<1>4. Len(b) = Len(c) - n + 1
  BY <1>2, <1>3
<1>5. ASSUME NEW q \in 1 .. Len(b), b[q].type # "QRY", \A p \in q + 1 .. Len(b) : b[p].type = "QRY"
      PROVE  Says(b[q], h)
  <2> DEFINE m == n + q - 1
  <2>1. m \in 1 .. Len(c) /\ b[q] = c[m]
    BY <1>2, <1>3, <1>4
  <2>2. ASSUME NEW p \in m + 1 .. Len(c) PROVE c[p].type = "QRY"
    <3> DEFINE a == p - n + 1
    <3>1. a \in q + 1 .. Len(b) /\ a \in 1 .. Len(c) - n + 1 /\ n + a - 1 = p
      BY <1>2, <1>4
    <3> HIDE DEF a
    <3>2. b[a].type = "QRY" /\ b[a] = c[n + a - 1]
      BY <1>3, <1>5, <3>1
    <3> QED BY <3>1, <3>2
  <2> HIDE DEF m
  <2> QED BY <1>5, <2>1, <2>2 DEF Current
<1> QED BY <1>5 DEF Current

(* What an honest router tells is its height, or that it has none.         *)
LEMMA HonestTells ==
  ASSUME NEW h, NEW e, NEW out, Honest(h, e, out), e.height \in Height
  PROVE  /\ Tells(out) => \E m \in Messages : out = <<m>> /\ Says(m, e.height)
         /\ ~ Tells(out) => out \in {<<>>, <<QRY>>}
<1>1. CASE out \in {<<>>, <<QRY>>}
  <2>1. ~ Tells(out)
    BY <1>1 DEF Tells, QRY
  <2> QED BY <1>1, <2>1
<1>2. CASE out = <<UPD(e.height)>>
  <2>1. UPD(e.height) \in Messages /\ Says(UPD(e.height), e.height) /\ UPD(e.height).type # "QRY"
    BY DEF Messages, Says, UPD
  <2>2. Tells(out)
    BY <1>2, <2>1 DEF Tells
  <2> QED BY <1>2, <2>1, <2>2
<1>3. CASE e.height = Null /\ \E a, b \in Int : out = <<CLR(a, b)>>
  <2>1. PICK a \in Int, b \in Int : out = <<CLR(a, b)>>
    BY <1>3
  <2>2. CLR(a, b) \in Messages /\ Says(CLR(a, b), e.height) /\ CLR(a, b).type # "QRY"
    BY <1>3 DEF Messages, Says, CLR
  <2>3. Tells(out)
    BY <2>1, <2>2 DEF Tells
  <2> QED BY <2>1, <2>2, <2>3
<1> QED BY <1>1, <1>2, <1>3 DEF Honest

(* A router with nothing of the sender's to go by is up to date.           *)
LEMMA NothingLeft ==
  ASSUME NEW c \in Seq(Messages), ~ Tells(c), NEW h
  PROVE  Current(c, h, Null)
BY DEF Tells, Current

-----------------------------------------------------------------------------
(* A step of router i: it takes at most one message (c is what is left of  *)
(* the channels) and says out; the tables of the others stay.              *)
Passed(i, c, out) ==
  /\ c \in Channels /\ out \in Seq(Messages)
  /\ \A a, b \in Routers : b # i /\ a # i => c[a][b] = chan[a][b]
  /\ Carried(i, c, out)
Others(i) ==
  \A j \in Routers : j # i =>
    /\ HeightOf(j)' = HeightOf(j)
    /\ \A k \in Routers : HeardOf(j, k)' = HeardOf(j, k)
Unread(i, c, k) ==
  \/ c[k][i] = chan[k][i] /\ HeardOf(i, k)' \in {HeardOf(i, k), Null}
  \/ c[k][i] \in Suffixes(chan[k][i]) /\ HeardOf(i, k)' = Null
Read(i, c, k) ==
  /\ chan[k][i] # <<>> /\ c[k][i] = Tail(chan[k][i])
  /\ Head(chan[k][i]).type = "QRY" => HeardOf(i, k)' \in {HeardOf(i, k), Null}
  /\ Head(chan[k][i]).type = "UPD" => HeardOf(i, k)' \in {Head(chan[k][i]).height, Null}
  /\ Head(chan[k][i]).type = "CLR" => HeardOf(i, k)' = Null

(* Who has not missed a height: whoever has nothing to go by, whom router  *)
(* i tells now, and whoever had not missed one before while router i has   *)
(* not changed its own, and nothing of what it said is lost.               *)
Recorded(i, c, h, out) ==
  \A a, b \in Routers : a # b /\ <<a, b>> \notin missed' =>
    \/ ~ GoesBy(b, a)'
    \/ a = i /\ Tells(out) /\ chan'[a][b] = c[a][b] \o out
    \/ /\ <<a, b>> \notin missed
       /\ a = i => ~ Tells(out) /\ h = HeightOf(i) /\ c[a][b] = chan[a][b]

LEMMA SaidRecorded ==
  ASSUME NEW i \in Routers, NEW c \in Channels, NEW h, NEW out \in Seq(Messages), NEW lost,
         Say(c, i, h, out, lost), Td(i).height = HeightOf(i),
         \A b \in Routers : b # i /\ c[i][b] # chan[i][b] => <<i, b>> \in lost
  PROVE  Recorded(i, c, h, out)
<1> SUFFICES ASSUME NEW a \in Routers, NEW b \in Routers, a # b, <<a, b>> \notin missed',
                    GoesBy(b, a)'
             PROVE  \/ a = i /\ Tells(out) /\ chan'[a][b] = c[a][b] \o out
                    \/ /\ <<a, b>> \notin missed
                       /\ a = i => ~ Tells(out) /\ h = HeightOf(i) /\ c[a][b] = chan[a][b]
  BY DEF Recorded
<1> DEFINE
      p == <<a, b>>
      To(over) == links'[i] \cup over
      Which(to) == IF Tells(out) THEN {q \in missed : q[1] # i} \cup ({i} \X (Routers \ to))
                   ELSE IF h = Td(i).height THEN missed ELSE missed \cup ({i} \X Routers)
<1>1. PICK over :
        /\ chan' = [c EXCEPT ![i] = [j \in Routers |-> IF j \in To(over) THEN @[j] \o out ELSE @[j]]]
        /\ missed' = {q \in Which(To(over)) \cup lost : GoesBy(q[2], q[1])'}
  BY DEF Say
<1> DEFINE to == To(over)
<1>2. p[1] = a /\ p[2] = b
  OBVIOUS
<1>3. p \notin Which(to) /\ p \notin lost
  <2> HIDE DEF Which, To
  <2>1. \A q : q \in Which(to) \cup lost /\ q \notin missed' => ~ GoesBy(q[2], q[1])'
    BY <1>1
  <2>2. GoesBy(p[2], p[1])' /\ p \notin missed'
    BY <1>2
  <2> QED BY <2>1, <2>2
<1> HIDE DEF To
<1>4. CASE Tells(out)
  <2>1. CASE a = i
    <3>1. p \in {i} \X Routers
      BY <2>1
    <3>2. b \in to
      BY <1>3, <1>4, <2>1
    <3>3. chan'[a][b] = c[a][b] \o out
      <4> DEFINE r == [j \in Routers |-> IF j \in to THEN c[i][j] \o out ELSE c[i][j]]
      <4>1. chan' = [c EXCEPT ![i] = r]
        BY <1>1 DEF Channels
      <4>2. r[b] = c[i][b] \o out
        BY <3>2
      <4> HIDE DEF r
      <4> QED BY <2>1, <4>1, <4>2 DEF Channels
    <3> QED BY <1>4, <2>1, <3>3
  <2>2. CASE a # i
    BY <1>2, <1>3, <1>4, <2>2
  <2> QED BY <2>1, <2>2
<1>5. CASE ~ Tells(out)
  <2>1. p \notin missed
    BY <1>3, <1>5
  <2>2. CASE a = i
    <3>1. h = Td(i).height
      BY <1>3, <1>5, <2>2
    <3>2. c[a][b] = chan[a][b]
      BY <1>3, <2>2
    <3> QED BY <1>5, <2>1, <3>1, <3>2
  <2> QED BY <2>1, <2>2
<1> QED BY <1>4, <1>5

LEMMA StepPairs ==
  ASSUME Inv, Pairs, NEW i \in Routers, NEW e, e.height \in Height, NEW out, NEW c,
         Passed(i, c, out), Honest(HeightOf(i), e, out), Recorded(i, c, e.height, out),
         \A j \in Routers : j \notin links'[j] /\ {j} \notin air',
         HeightOf(i)' = e.height, Others(i),
         \A k \in Routers : k # i => Unread(i, c, k) \/ Read(i, c, k)
  PROVE  Pairs'
<1> USE DEF Passed, Carried, Others
<1>1. \A a, b \in Routers : /\ c[a][b] \in Seq(Messages) /\ chan[a][b] \in Seq(Messages)
                            /\ chan'[a][b] \in Seq(Messages)
  BY DEF Channels, Inv, ChannelsOK
<1>2. ASSUME NEW a \in Routers, NEW b \in Routers, a # b, <<a, b>> \notin missed', ~ GoesBy(b, a)'
      PROVE  Current(chan[a][b], HeightOf(a), HeardOf(b, a))'
  <2>1. ~ Tells(chan'[a][b]) /\ HeardOf(b, a)' = Null
    BY <1>2 DEF GoesBy, HeardOf
  <2>2. Current(chan'[a][b], HeightOf(a)', Null)
    BY <1>1, <2>1, NothingLeft
  <2> QED BY <2>1, <2>2
<1>3. ASSUME NEW j \in Routers, j # i, <<i, j>> \notin missed', GoesBy(j, i)'
      PROVE  Current(chan'[i][j], e.height, HeardOf(j, i))
  <2>1. Pair(i, j)
    BY <1>3 DEF Pairs
  <2>2. CASE Tells(out) /\ chan'[i][j] = c[i][j] \o out
    <3>1. PICK m \in Messages : out = <<m>> /\ Says(m, e.height)
      BY <2>2, HonestTells
    <3> QED BY <1>1, <2>2, <3>1, CurrentTold
  <2>3. CASE <<i, j>> \notin missed /\ ~ Tells(out) /\ e.height = HeightOf(i) /\ c[i][j] = chan[i][j]
    <3>1. Current(c[i][j], e.height, HeardOf(j, i))
      BY <2>1, <2>3 DEF Pair
    <3>2. out \in {<<>>, <<QRY>>}
      BY <2>3, HonestTells
    <3>3. c[i][j] \o <<>> = c[i][j] /\ c[i][j] \in Seq(Messages)
      BY <1>1
    <3>4. Current(c[i][j] \o <<QRY>>, e.height, HeardOf(j, i))
      BY <3>1, <3>3, CurrentAsked
    <3> QED BY <3>1, <3>2, <3>3, <3>4
  <2> QED BY <1>3, <2>2, <2>3 DEF Recorded
<1>4. ASSUME NEW k \in Routers, k # i, <<k, i>> \notin missed', GoesBy(i, k)'
      PROVE  Current(c[k][i], HeightOf(k), HeardOf(i, k)')
  <2>1. <<k, i>> \notin missed
    BY <1>4 DEF Recorded
  <2>2. Current(chan[k][i], HeightOf(k), HeardOf(i, k))
    BY <1>4, <2>1 DEF Pairs, Pair
  <2>3. CASE c[k][i] = chan[k][i] /\ HeardOf(i, k)' \in {HeardOf(i, k), Null}
    BY <2>2, <2>3, CurrentErased
  <2>4. CASE c[k][i] \in Suffixes(chan[k][i]) /\ HeardOf(i, k)' = Null
    BY <1>1, <2>2, <2>4, CurrentSuffix
  <2>5. CASE Read(i, c, k)
    <3> DEFINE s == chan[k][i]
               x == HeardOf(i, k)
               y == HeardOf(i, k)'
    <3>1. /\ s \in Seq(Messages) /\ s # <<>> /\ c[k][i] = Tail(s)
          /\ Head(s).type = "QRY" => y \in {x, Null}
          /\ Head(s).type = "UPD" => y \in {Head(s).height, Null}
          /\ Head(s).type = "CLR" => y = Null
      BY <1>1, <2>5 DEF Read
    <3>2. Current(s, HeightOf(k), x)
      BY <2>2
    <3> HIDE DEF s, x, y
    <3>3. Current(Tail(s), HeightOf(k), y)
      BY <3>1, <3>2, CurrentTaken
    <3> QED BY <3>1, <3>3 DEF y
  <2> QED BY <1>4, <2>3, <2>4, <2>5 DEF Unread
<1>5. ASSUME NEW k \in Routers, NEW j \in Routers, k # i, j # i, k # j,
             <<k, j>> \notin missed', GoesBy(j, k)'
      PROVE  Current(chan'[k][j], HeightOf(k), HeardOf(j, k))
  <2>1. <<k, j>> \notin missed
    BY <1>5 DEF Recorded
  <2>2. Current(chan[k][j], HeightOf(k), HeardOf(j, k))
    BY <1>5, <2>1 DEF Pairs, Pair
  <2> QED BY <1>5, <2>2
<1>6. ASSUME NEW k \in Routers, NEW j \in Routers, k # j, <<k, j>> \notin missed'
      PROVE  Current(chan[k][j], HeightOf(k), HeardOf(j, k))'
  <2>1. CASE ~ GoesBy(j, k)'
    BY <1>2, <1>6, <2>1
  <2>2. CASE GoesBy(j, k)' /\ k = i
    <3>1. HeardOf(j, i)' = HeardOf(j, i) /\ Current(chan'[i][j], e.height, HeardOf(j, i))
      BY <1>3, <1>6, <2>2
    <3> QED BY <2>2, <3>1
  <2>3. CASE GoesBy(j, k)' /\ k # i /\ j = i
    <3>1. HeightOf(k)' = HeightOf(k) /\ chan'[k][i] = c[k][i]
      BY <2>3
    <3> QED BY <1>4, <1>6, <2>3, <3>1
  <2>4. CASE GoesBy(j, k)' /\ k # i /\ j # i
    <3>1. HeightOf(k)' = HeightOf(k) /\ HeardOf(j, k)' = HeardOf(j, k)
      BY <2>4
    <3> QED BY <1>5, <1>6, <2>4, <3>1
  <2> QED BY <2>1, <2>2, <2>3, <2>4
<1> HIDE DEF Passed, Carried, Others
<1> QED BY <1>6 DEF Pairs, Pair

(* What a router starts from is what its table holds, or nothing.          *)
LEMMA StartsFrom ==
  ASSUME Inv, NEW i \in Routers
  PROVE  /\ Td(i).height = HeightOf(i)
         /\ \A k \in Routers : k \in links[i] => Td(i).heard[k] = HeardOf(i, k)
<1>1. \A k \in Routers : Fresh(k) = Null
  BY AddressAssumption DEF Fresh
<1>2. CASE i \in known
  BY <1>2 DEF Td, HeightOf, HeardOf
<1>3. CASE i \notin known
  <2>1. Td(i) = DstAdd(i)
    BY <1>3 DEF Td
  <2>2. DstAdd(i).height = Null /\ DstAdd(i).heard = [k \in links[i] |-> Fresh(k)]
    BY DEF DstAdd
  <2> QED BY <1>1, <1>3, <2>1, <2>2 DEF HeightOf, HeardOf
<1> QED BY <1>2, <1>3

(* What a step of router i that makes e its table leaves of the heights.   *)
LEMMA HeightsAfter ==
  ASSUME Inv, NEW i \in Routers, NEW e, dst' = [dst EXCEPT ![i] = e], known' = known \cup {i},
         \A j \in Routers : j # i => links'[j] = links[j]
  PROVE  /\ HeightOf(i)' = e.height
         /\ \A k : HeardOf(i, k)' = IF k \in links'[i] THEN e.heard[k] ELSE Null
         /\ \A j \in Routers : j # i =>
              /\ HeightOf(j)' = HeightOf(j)
              /\ \A k \in Routers : HeardOf(j, k)' = HeardOf(j, k)
<1>1. dst'[i] = e /\ i \in known' /\ \A j \in Routers : j # i => dst'[j] = dst[j]
  BY DEF Inv, TablesOK
<1> QED BY <1>1 DEF HeightOf, HeardOf

LEMMA ReceivePairs ==
  ASSUME Inv, Pairs, NEW i \in Routers, NEW k \in Routers, Receive(i, k)
  PROVE  Pairs'
<1>1. chan[k][i] # <<>>
  BY ReceiveOutcome
<1>2. PICK e, out : Outcome(i, k, e, out)
  BY ReceiveOutcome
<1> DEFINE c == [chan EXCEPT ![k][i] = Tail(@)]
           m == Head(chan[k][i])
<1>3. /\ dst' = [dst EXCEPT ![i] = e] /\ known' = known \cup {i} /\ links' = links /\ air' = air
      /\ Say(c, i, e.height, out, {})
  BY <1>2 DEF Outcome, Handled
<1>4. /\ TableOK(e, links[i], clock') /\ Honest(Td(i).height, e, out)
      /\ \A j \in links[i] : Noted(Td(i), m, e, j, k)
  BY <1>2, <1>3 DEF Outcome, Made
<1>5. /\ links \in [Routers -> SUBSET Nodes] /\ links[i] \subseteq Nodes /\ ChannelsOK
      /\ i \notin links[i]
  BY DEF Inv, TablesOK, Pairs
<1>6. /\ c \in Channels
      /\ \A a, b \in Routers : c[a][b] = IF a = k /\ b = i THEN Tail(chan[k][i]) ELSE chan[a][b]
  BY <1>1, <1>5, TakenChannels
<1> HIDE DEF c
<1>7. out \in Seq(Messages) /\ e.height \in Height
  BY <1>4, HonestSound DEF SoundSeq, TableOK, Valid
<1>8. Carried(i, c, out)
  BY <1>3, <1>6, <1>7, SaidCarried
<1>9. /\ Honest(HeightOf(i), e, out) /\ Td(i).height = HeightOf(i)
      /\ \A a \in Routers : a \in links[i] => Td(i).heard[a] = HeardOf(i, a)
      /\ \A a \in Routers : Fresh(a) = Null
  BY <1>4, StartsFrom, AddressAssumption DEF Fresh
<1>10. /\ HeightOf(i)' = e.height
       /\ \A a : HeardOf(i, a)' = IF a \in links[i] THEN e.heard[a] ELSE Null
       /\ \A j \in Routers : j # i =>
            /\ links'[j] = links[j] /\ HeightOf(j)' = HeightOf(j)
            /\ \A a \in Routers : HeardOf(j, a)' = HeardOf(j, a)
  BY <1>3, HeightsAfter
<1>11. m.type \in {"QRY", "UPD", "CLR"}
  BY <1>1, NextMessage, MessageKinds DEF Inv
<1>12. ASSUME NEW a \in Routers, a # i
       PROVE  Unread(i, c, a) \/ Read(i, c, a)
  <2>1. CASE a # k
    <3>1. c[a][i] = chan[a][i]
      BY <1>6, <2>1
    <3>2. HeardOf(i, a)' \in {HeardOf(i, a), Null}
      BY <1>4, <1>9, <1>10, <2>1 DEF Noted
    <3> QED BY <3>1, <3>2 DEF Unread
  <2>2. CASE a = k
    <3>1. chan[a][i] # <<>> /\ c[a][i] = Tail(chan[a][i])
      BY <1>1, <1>6, <2>2
    <3>2. CASE a \notin links[i]
      BY <1>10, <3>1, <3>2 DEF Read
    <3>3. CASE a \in links[i]
      <4>1. Noted(Td(i), m, e, k, k) /\ HeardOf(i, k)' = e.heard[k]
            /\ Td(i).heard[k] = HeardOf(i, k) /\ Fresh(k) = Null
        BY <1>4, <1>9, <1>10, <2>2, <3>3
      <4>2. /\ m.type = "QRY" => HeardOf(i, k)' \in {HeardOf(i, k), Null}
            /\ m.type = "UPD" => HeardOf(i, k)' \in {m.height, Null}
            /\ m.type = "CLR" => HeardOf(i, k)' = Null
        BY <4>1 DEF Noted
      <4> QED BY <2>2, <3>1, <4>2 DEF Read
    <3> QED BY <3>2, <3>3
  <2> QED BY <2>1, <2>2
<1>13. Passed(i, c, out)
  BY <1>6, <1>7, <1>8 DEF Passed
<1>14. Recorded(i, c, e.height, out)
  <2>1. \A b \in Routers : b # i => c[i][b] = chan[i][b]
    BY <1>6
  <2> QED BY <1>3, <1>6, <1>7, <1>9, <2>1, SaidRecorded
<1>15. Others(i) /\ \A j \in Routers : j \notin links'[j] /\ {j} \notin air'
  BY <1>3, <1>10 DEF Others, Pairs
<1> HIDE DEF m
<1> QED BY <1>7, <1>9, <1>10, <1>12, <1>13, <1>14, <1>15, StepPairs

LEMMA ResolvePairs ==
  ASSUME Inv, Pairs, NEW i \in Routers, RtResolve(i)
  PROVE  Pairs'
<1> DEFINE d == Td(i)
           e == [d EXCEPT !.rt_req = TRUE]
           out == IF d.rt_req THEN <<>> ELSE <<QRY>>
<1>1. /\ dst' = [dst EXCEPT ![i] = e] /\ known' = known \cup {i} /\ links' = links /\ air' = air
      /\ Say(chan, i, d.height, out, {})
  BY DEF RtResolve
<1>2. /\ TablesOK /\ links \in [Routers -> SUBSET Nodes] /\ links[i] \subseteq Nodes
      /\ chan \in Channels
  BY DEF Inv, TablesOK, ChannelsOK, Channels
<1>3. TableOK(d, links[i], clock)
  BY <1>2, Found
<1>4. e.height = d.height /\ e.heard = d.heard /\ d.height \in Height
  BY <1>3 DEF TableOK, Tables
<1>5. out \in Seq(Messages)
  <2>1. QRY \in Messages
    BY DEF Messages
  <2> QED BY <2>1
<1>6. d.height = HeightOf(i) /\ \A a \in Routers : a \in links[i] => d.heard[a] = HeardOf(i, a)
  BY StartsFrom
<1> HIDE DEF d
<1>7. Honest(HeightOf(i), e, out)
  BY <1>4, <1>6 DEF Honest
<1> HIDE DEF e, out
<1>8. Carried(i, chan, out)
  BY <1>1, <1>2, <1>5, SaidCarried
<1>9. /\ HeightOf(i)' = e.height
      /\ \A a : HeardOf(i, a)' = IF a \in links[i] THEN e.heard[a] ELSE Null
      /\ \A j \in Routers : j # i =>
           /\ links'[j] = links[j] /\ HeightOf(j)' = HeightOf(j)
           /\ \A a \in Routers : HeardOf(j, a)' = HeardOf(j, a)
  BY <1>1, HeightsAfter
<1>10. \A a \in Routers : Unread(i, chan, a)
  BY <1>4, <1>6, <1>9 DEF Unread
<1>11. Passed(i, chan, out)
  BY <1>2, <1>5, <1>8 DEF Passed
<1>12. Recorded(i, chan, e.height, out)
  BY <1>1, <1>2, <1>4, <1>5, <1>6, SaidRecorded DEF d
<1>13. Others(i) /\ \A j \in Routers : j \notin links'[j] /\ {j} \notin air'
  BY <1>1, <1>9 DEF Others, Pairs
<1>14. e.height \in Height
  BY <1>4
<1> QED BY <1>7, <1>9, <1>10, <1>11, <1>12, <1>13, <1>14, StepPairs

LEMMA LinkDownPairs ==
  ASSUME Inv, Pairs, NEW i \in Routers, NEW k \in Nodes, RtNotifyLinkDN(i, k)
  PROVE  Pairs'
<1>1. /\ links \in [Routers -> SUBSET Nodes] /\ ChannelsOK /\ known \subseteq Routers
      /\ i \notin links[i]
  BY DEF Inv, TablesOK, Pairs
<1>2. /\ links' = [links EXCEPT ![i] = @ \ {k}] /\ air' = air /\ k \in links[i]
      /\ known' = known
  BY DEF RtNotifyLinkDN
<1>3. /\ links'[i] = links[i] \ {k} /\ k # i
      /\ \A j \in Routers : j # i => links'[j] = links[j]
      /\ \A j \in Routers : j \notin links'[j] /\ {j} \notin air'
  <2>1. /\ links'[i] = links[i] \ {k} /\ k # i
        /\ \A j \in Routers : j # i => links'[j] = links[j]
    BY <1>1, <1>2
  <2> QED BY <1>2, <2>1 DEF Pairs
(* The channels keep their messages, or lose some of those between the two. *)
<1>4. ASSUME NEW c \in Left(i, k),
             \A a \in Routers : HeardOf(i, a)' = IF a \in links'[i] THEN HeardOf(i, a) ELSE Null
      PROVE  /\ c \in Channels
             /\ \A a, b \in Routers : b # i /\ a # i => c[a][b] = chan[a][b]
             /\ \A a \in Routers : a # i => Unread(i, c, a)
             /\ \A b \in Routers : b # i /\ c[i][b] # chan[i][b] => <<i, b>> \in Unheard(c, i, k)
  <2>1. /\ c \in Channels
        /\ \A a, b \in Routers : b # i /\ ~ (a = i /\ b = k) => c[a][b] = chan[a][b]
        /\ \A a \in Routers : c[a][i] = chan[a][i] \/ c[a][i] \in Suffixes(chan[a][i])
    BY <1>1, <1>3, LeftChannels
  <2>2. ASSUME NEW a \in Routers, a # i PROVE Unread(i, c, a)
    <3>1. CASE c[a][i] = chan[a][i]
      BY <1>4, <3>1 DEF Unread
    <3>2. CASE c[a][i] # chan[a][i]
      <4>1. a = k
        <5> SUFFICES ASSUME a # k PROVE c[a][i] = chan[a][i]
          BY <3>2
        <5>1. CASE k = Dest
          BY <5>1 DEF Left
        <5>2. CASE k # Dest
          <6>1. k \in Routers /\ chan \in Channels
            BY <1>1, <5>2 DEF Nodes, ChannelsOK, Channels
          <6>2. PICK w \in Suffixes(chan[k][i]) \X Prefixes(chan[i][k]) :
                  c = [chan EXCEPT ![k][i] = w[1], ![i][k] = w[2]]
            BY <5>2 DEF Left
          <6>3. c[a] = chan[a]
            BY <2>2, <6>1, <6>2 DEF Channels
          <6> QED BY <6>3
        <5> QED BY <5>1, <5>2
      <4>2. HeardOf(i, a)' = Null
        BY <1>3, <1>4, <4>1
      <4> QED BY <2>1, <3>2, <4>2 DEF Unread
    <3> QED BY <3>1, <3>2
  <2>3. ASSUME NEW b \in Routers, b # i, c[i][b] # chan[i][b] PROVE <<i, b>> \in Unheard(c, i, k)
    <3>1. b = k
      BY <2>1, <2>3
    <3>2. k # Dest
      BY <2>3, <3>1, AddressAssumption
    <3> QED BY <2>3, <3>1, <3>2 DEF Unheard
  <2> QED BY <2>1, <2>2, <2>3
<1>5. Td(i).height = HeightOf(i)
  BY StartsFrom
<1>6. CASE i \in known
  <2>1. PICK e, out : DownOutcome(i, k, e, out)
    BY <1>6, LinkDownOutcome
  <2>2. PICK c \in Left(i, k) : Say(c, i, e.height, out, Unheard(c, i, k))
    BY <2>1 DEF DownOutcome
  <2>3. /\ dst' = [dst EXCEPT ![i] = e] /\ known' = known \cup {i}
        /\ TableOK(e, links'[i], clock') /\ Honest(dst[i].height, e, out)
        /\ \A j \in links'[i] : e.heard[j] = dst[i].heard[j]
    BY <1>2, <1>6, <2>1 DEF DownOutcome, Made
  <2>4. out \in Seq(Messages) /\ e.height \in Height /\ Honest(HeightOf(i), e, out)
    <3>1. out \in Seq(Messages)
      BY <2>3, HonestSound DEF SoundSeq
    <3>2. dst[i].height = HeightOf(i)
      BY <1>6 DEF HeightOf
    <3> QED BY <2>3, <3>1, <3>2 DEF TableOK, Valid
  <2>5. /\ HeightOf(i)' = e.height
        /\ \A a : HeardOf(i, a)' = IF a \in links'[i] THEN e.heard[a] ELSE Null
        /\ \A j \in Routers : j # i =>
             /\ HeightOf(j)' = HeightOf(j)
             /\ \A a \in Routers : HeardOf(j, a)' = HeardOf(j, a)
    BY <1>3, <2>3, HeightsAfter
  <2>6. \A a \in Routers : HeardOf(i, a)' = IF a \in links'[i] THEN HeardOf(i, a) ELSE Null
    BY <1>3, <1>6, <2>3, <2>5 DEF HeardOf
  <2>7. /\ c \in Channels
        /\ \A a, b \in Routers : b # i /\ a # i => c[a][b] = chan[a][b]
        /\ \A a \in Routers : a # i => Unread(i, c, a)
        /\ \A b \in Routers : b # i /\ c[i][b] # chan[i][b] => <<i, b>> \in Unheard(c, i, k)
    BY <1>4, <2>6
  <2>8. Passed(i, c, out)
    <3>1. Carried(i, c, out)
      BY <2>2, <2>4, <2>7, SaidCarried
    <3> QED BY <2>4, <2>7, <3>1 DEF Passed
  <2>9. Recorded(i, c, e.height, out)
    BY <1>5, <2>2, <2>4, <2>7, SaidRecorded
  <2>10. Others(i)
    BY <2>5 DEF Others
  <2> QED BY <1>3, <2>4, <2>5, <2>7, <2>8, <2>9, <2>10, StepPairs
<1>7. CASE i \notin known
  <2> DEFINE e == [height |-> Null]
  <2>1. PICK c \in Left(i, k) : Say(c, i, Td(i).height, <<>>, Unheard(c, i, k))
    BY <1>7 DEF RtNotifyLinkDN
  <2>2. dst' = dst
    BY <1>7 DEF RtNotifyLinkDN
  <2>3. /\ HeightOf(i)' = Null /\ HeightOf(i) = Null /\ \A a : HeardOf(i, a)' = Null /\ HeardOf(i, a) = Null
        /\ \A j \in Routers : j # i =>
             /\ HeightOf(j)' = HeightOf(j)
             /\ \A a \in Routers : HeardOf(j, a)' = HeardOf(j, a)
    BY <1>2, <1>3, <1>7, <2>2 DEF HeightOf, HeardOf
  <2>4. e.height = Null /\ e.height \in Height /\ <<>> \in Seq(Messages) /\ Td(i).height = e.height
    BY <1>5, <2>3, SpecialHeights
  <2> HIDE DEF e
  <2>5. Honest(HeightOf(i), e, <<>>)
    BY <2>3, <2>4 DEF Honest
  <2>6. /\ c \in Channels
        /\ \A a, b \in Routers : b # i /\ a # i => c[a][b] = chan[a][b]
        /\ \A a \in Routers : a # i => Unread(i, c, a)
        /\ \A b \in Routers : b # i /\ c[i][b] # chan[i][b] => <<i, b>> \in Unheard(c, i, k)
    BY <1>4, <2>3
  <2>7. Passed(i, c, <<>>)
    <3>1. Carried(i, c, <<>>)
      BY <2>1, <2>4, <2>6, SaidCarried
    <3> QED BY <2>4, <2>6, <3>1 DEF Passed
  <2>8. Recorded(i, c, e.height, <<>>)
    BY <1>5, <2>1, <2>4, <2>6, SaidRecorded
  <2>9. Others(i)
    BY <2>3 DEF Others
  <2> QED BY <1>3, <2>3, <2>4, <2>5, <2>6, <2>7, <2>8, <2>9, StepPairs
<1> QED BY <1>6, <1>7

LEMMA LinkUpPairs ==
  ASSUME Inv, Pairs, NEW i \in Routers, NEW k \in Nodes, RtNotifyLinkUP(i, k)
  PROVE  Pairs'
<1> DEFINE out == IF i \in known /\ dst[i].rt_req THEN <<QRY>> ELSE <<>>
<1>1. /\ links \in [Routers -> SUBSET Nodes] /\ chan \in Channels /\ known \subseteq Routers
      /\ dst \in [Routers -> AnyTable]
  BY DEF Inv, TablesOK, ChannelsOK, Channels
<1>2. /\ {i, k} \in air /\ k \notin links[i] /\ links' = [links EXCEPT ![i] = @ \cup {k}]
      /\ dst' = IF i \in known THEN [dst EXCEPT ![i] = Added(@, k)] ELSE dst
      /\ Say(chan, i, Td(i).height, out, {})
      /\ known' = known /\ air' = air
  BY DEF RtNotifyLinkUP
<1>3. /\ links'[i] = links[i] \cup {k} /\ \A j \in Routers : j # i => links'[j] = links[j]
  BY <1>1, <1>2
<1>4. k # i
  <2>1. {i} \notin air
    BY DEF Pairs
  <2> QED BY <1>2, <2>1
<1>5. out \in Seq(Messages) /\ out \in {<<>>, <<QRY>>}
  <2>1. QRY \in Messages
    BY DEF Messages
  <2> QED BY <2>1
<1> HIDE DEF out
<1>6. Carried(i, chan, out)
  BY <1>1, <1>2, <1>5, SaidCarried
<1>7. ASSUME i \in known
      PROVE  /\ dst'[i].height = dst[i].height
             /\ \A a \in links[i] : dst'[i].heard[a] = dst[i].heard[a]
             /\ dst'[i].heard[k] = Fresh(k)
  <2> DEFINE d == dst[i]
  <2>1. d \in Tables(links[i]) /\ DOMAIN d.heard = links[i]
    BY <1>7 DEF Inv, TablesOK, TableOK, Tables
  <2>2. dst'[i] = Added(d, k)
    BY <1>1, <1>2, <1>7
  <2> HIDE DEF d
  <2>3. /\ Added(d, k).height = d.height
        /\ \A a \in links[i] : Added(d, k).heard[a] = d.heard[a]
        /\ Added(d, k).heard[k] = Fresh(k)
    BY <1>2, <2>1 DEF Added, Tables
  <2> QED BY <2>2, <2>3 DEF d
<1>8. /\ \A j \in Routers : HeightOf(j)' = HeightOf(j)
      /\ \A j, a \in Routers : HeardOf(j, a)' \in {HeardOf(j, a), Null}
      /\ \A j, a \in Routers : j # i => HeardOf(j, a)' = HeardOf(j, a)
  <2>1. \A j \in Routers : j # i => dst'[j] = dst[j]
    BY <1>1, <1>2
  <2>2. \A j \in Routers : HeightOf(j)' = HeightOf(j)
    BY <1>2, <1>7, <2>1 DEF HeightOf
  <2>3. \A j, a \in Routers : j # i => HeardOf(j, a)' = HeardOf(j, a)
    BY <1>2, <1>3, <2>1 DEF HeardOf
  <2>4. \A a \in Routers : HeardOf(i, a)' \in {HeardOf(i, a), Null}
    <3>1. \A a \in Routers : Fresh(a) = Null
      BY AddressAssumption DEF Fresh
    <3> QED BY <1>2, <1>3, <1>7, <3>1 DEF HeardOf
  <2> QED BY <2>2, <2>3, <2>4
<1>9. \A a \in Routers : a # i => Unread(i, chan, a)
  BY <1>8 DEF Unread
<1>10. \A j \in Routers : j \notin links'[j] /\ {j} \notin air'
  <2>1. ASSUME NEW j \in Routers PROVE j \notin links'[j] /\ {j} \notin air'
    <3>1. j \notin links[j] /\ {j} \notin air
      BY DEF Pairs
    <3> QED BY <1>2, <1>3, <1>4, <3>1
  <2> QED BY <2>1
<1> DEFINE e == [height |-> HeightOf(i)]
<1>11. e.height = HeightOf(i) /\ Td(i).height = HeightOf(i) /\ e.height \in Height
  <2>1. TableOK(Td(i), links[i], clock) /\ Td(i).height = HeightOf(i)
    BY Found, StartsFrom DEF Inv
  <2> QED BY <2>1 DEF TableOK, Valid
<1> HIDE DEF e
<1>12. Honest(HeightOf(i), e, out)
  BY <1>5, <1>11 DEF Honest
<1>13. Passed(i, chan, out)
  BY <1>1, <1>5, <1>6 DEF Passed
<1>14. Recorded(i, chan, e.height, out)
  BY <1>1, <1>2, <1>5, <1>11, SaidRecorded
<1>15. Others(i) /\ HeightOf(i)' = e.height
  BY <1>8, <1>11 DEF Others
<1> QED BY <1>9, <1>10, <1>11, <1>12, <1>13, <1>14, <1>15, StepPairs

(* In the air, a link breaks or appears: nobody knows yet.                 *)
LEMMA AirPairs ==
  ASSUME Pairs, UNCHANGED <<links, known, dst, chan, missed>>, \A j \in Routers : {j} \notin air'
  PROVE  Pairs'
<1>1. \A k, i \in Routers : HeightOf(k)' = HeightOf(k) /\ HeardOf(i, k)' = HeardOf(i, k)
  BY DEF HeightOf, HeardOf
<1>2. ASSUME NEW k \in Routers, NEW i \in Routers, k # i PROVE Pair(k, i)'
  <2>1. Pair(k, i)
    BY <1>2 DEF Pairs
  <2> QED BY <1>1, <2>1 DEF Pair
<1> QED BY <1>2 DEF Pairs

LEMMA BreakPairs ==
  ASSUME Pairs, Break
  PROVE  Pairs'
<1>1. air' \subseteq air /\ UNCHANGED <<links, known, dst, chan, missed>>
  BY DEF Break, historyVars
<1>2. \A j \in Routers : {j} \notin air'
  BY <1>1 DEF Pairs
<1> QED BY <1>1, <1>2, AirPairs

LEMMA AppearPairs ==
  ASSUME Pairs, Appear
  PROVE  Pairs'
<1>1. PICK a \in Routers, b \in Nodes : a # b /\ air' = air \cup {{a, b}}
  BY DEF Appear
<1>2. UNCHANGED <<links, known, dst, chan, missed>>
  BY DEF Appear, historyVars
<1>3. ASSUME NEW j \in Routers PROVE {j} \notin air'
  <2>1. {j} \notin air
    BY DEF Pairs
  <2>2. {j} # {a, b}
    BY <1>1
  <2> QED BY <1>1, <2>1, <2>2
<1> QED BY <1>2, <1>3, AirPairs

LEMMA PairsStay ==
  ASSUME Pairs, UNCHANGED vars
  PROVE  Pairs'
<1>1. air' = air /\ UNCHANGED <<links, known, dst, chan, missed>>
  BY DEF vars, historyVars
<1>2. \A j \in Routers : {j} \notin air'
  BY <1>1 DEF Pairs
<1> QED BY <1>1, <1>2, AirPairs

LEMMA PairsInit == Init => Pairs
<1> SUFFICES ASSUME Init PROVE Pairs
  OBVIOUS
<1>1. /\ air \in Airs /\ known = {} /\ links = [i \in Routers |-> {k \in Nodes \ {i} : {i, k} \in air}]
      /\ chan = [k \in Routers |-> [i \in Routers |-> <<>>]]
  BY DEF Init
<1>2. ASSUME NEW k \in Routers, NEW i \in Routers PROVE Pair(k, i)
  <2>1. chan[k][i] = <<>> /\ HeightOf(k) = Null /\ HeardOf(i, k) = Null
    BY <1>1 DEF HeightOf, HeardOf
  <2>2. Current(<<>>, Null, Null)
    BY CurrentEmpty
  <2> QED BY <2>1, <2>2 DEF Pair
<1>3. \A i \in Routers : i \notin links[i] /\ {i} \notin air
  <2>1. \A i \in Routers : links[i] = {k \in Nodes \ {i} : {i, k} \in air}
    BY <1>1
  <2>2. \A i \in Routers : {i} \notin air
    BY <1>1, NoSelfAssumption
  <2> QED BY <2>1, <2>2
<1> QED BY <1>2, <1>3 DEF Pairs

LEMMA PairsNext == Inv /\ Pairs /\ [Next]_vars => Pairs'
<1> SUFFICES ASSUME Inv, Pairs, [Next]_vars PROVE Pairs'
  OBVIOUS
<1>1. ASSUME NEW i \in Routers, RtResolve(i) PROVE Pairs'
  BY <1>1, ResolvePairs
<1>2. ASSUME NEW i \in Routers, NEW k \in Routers, Receive(i, k) PROVE Pairs'
  BY <1>2, ReceivePairs
<1>3. ASSUME NEW i \in Routers, NEW k \in Nodes, RtNotifyLinkUP(i, k) PROVE Pairs'
  BY <1>3, LinkUpPairs
<1>4. ASSUME NEW i \in Routers, NEW k \in Nodes, RtNotifyLinkDN(i, k) PROVE Pairs'
  BY <1>4, LinkDownPairs
<1>5. CASE Break
  BY <1>5, BreakPairs
<1>6. CASE Appear
  BY <1>6, AppearPairs
<1>7. CASE UNCHANGED vars
  BY <1>7, PairsStay
<1> QED BY <1>1, <1>2, <1>3, <1>4, <1>5, <1>6, <1>7 DEF Next, Handle, Notice

LEMMA AllPairs == Spec => []Pairs
<1>1. Inv /\ Pairs /\ [Next]_vars => Pairs'
  BY PairsNext
<1> QED BY <1>1, PairsInit, Invariance, PTL DEF Spec

-----------------------------------------------------------------------------
(* What is known of a neighbour that is on its way to say nothing else is  *)
(* its height, or nothing, unless its last change was missed (recvUPD 482, *)
(* 546; recvCLR 665).                                                      *)
THEOREM HeightsTold == Spec => []KnownHeights
<1>1. Inv /\ Pairs => KnownHeights
  <2> SUFFICES ASSUME Inv, Pairs, NEW i \in known, NEW k \in known,
                      k \in links[i], ~ Tells(chan[k][i]), <<k, i>> \notin missed
               PROVE  dst[i].heard[k] \in {Null, dst[k].height}
    BY DEF KnownHeights
  <2>1. i \in Routers /\ k \in Routers /\ i # k
    BY DEF Inv, TablesOK, Pairs
  <2>2. Current(chan[k][i], HeightOf(k), HeardOf(i, k))
    BY <2>1 DEF Pairs, Pair
  <2>3. DOMAIN chan[k][i] = 1 .. Len(chan[k][i])
    BY <2>1 DEF Inv, ChannelsOK
  <2>4. HeardOf(i, k) \in {Null, HeightOf(k)}
    BY <2>2, <2>3 DEF Tells, Current
  <2> QED BY <2>4 DEF HeightOf, HeardOf
<1> QED BY <1>1, Invariance, AllPairs, PTL

(* At rest a router holds the height of each neighbour, or nothing.        *)
LEMMA HeardAtRest ==
  ASSUME Inv, Pairs, Quiet, NEW i \in known, NEW k \in links[i], k \in Routers, <<k, i>> \notin missed
  PROVE  /\ dst[i].heard[k] \in {Null, HeightOf(k)}
         /\ dst[i].lnk_stat[k] = LinkStatus(dst[i].height, dst[i].heard[k])
<1>1. i \in Routers /\ i # k
  BY DEF Inv, TablesOK, Pairs
<1>2. chan[k][i] = <<>> /\ Current(chan[k][i], HeightOf(k), HeardOf(i, k))
  BY <1>1 DEF Quiet, Pairs, Pair
<1>3. dst[i].heard[k] \in {Null, HeightOf(k)}
  BY <1>2 DEF Current, HeardOf
<1>4. TableOK(dst[i], links[i], clock)
  BY DEF Inv, TablesOK
<1>5. dst[i].lnk_stat[k] = LinkStatus(dst[i].height, dst[i].heard[k])
  BY <1>4 DEF TableOK, Tables, Agree
<1> QED BY <1>3, <1>5

(* A router that is a next hop has a height, and at rest a lower one.      *)
LEMMA NextHopKnown ==
  ASSUME Inv, Pairs, Quiet, NEW i \in known, NEW k \in links[i], k \in Routers,
         <<k, i>> \notin missed, dst[i].lnk_stat[k] = "DN"
  PROVE  k \in Informed(i) /\ dst[k].height # Null
BY HeardAtRest DEF HeightOf, Down, Informed, LinkStatus

LEMMA DownIsLower ==
  ASSUME Inv, Pairs, Quiet, NEW i \in known, NEW k \in Informed(i)
  PROVE  /\ dst[k].height # Null
         /\ dst[i].height # Null => Lower(dst[k].height, dst[i].height)
<1>1. k \in links[i] /\ k \in Routers /\ k \in known /\ dst[i].lnk_stat[k] = "DN"
      /\ <<k, i>> \notin missed
  BY DEF Inv, TablesOK, Down, Informed
<1> QED BY <1>1, HeardAtRest DEF HeightOf, LinkStatus

(* Of any set of routers with heights one has the least.                   *)
LEMMA LeastHeight ==
  ASSUME Inv, NEW T \in SUBSET known, T # {}
  PROVE  \E i \in T : \A k \in T : ~ Lower(dst[k].height, dst[i].height)
<1> DEFINE R == {r \in T \X T : Lower(dst[r[1]].height, dst[r[2]].height)}
<1>1. IsFiniteSet(T)
  <2>1. T \subseteq Routers /\ IsFiniteSet(Routers)
    BY AddressAssumption DEF Inv, TablesOK
  <2> QED BY <2>1, FS_Subset
<1>2. \A i \in T : dst[i].height \in Height
  <2>1. \A i \in T : TableOK(dst[i], links[i], clock)
    BY DEF Inv, TablesOK
  <2> QED BY <2>1 DEF TableOK, Valid
<1>3. \A x, y \in T : <<x, y>> \in R <=> Lower(dst[x].height, dst[y].height)
  OBVIOUS
<1>4. \A x \in T : ~ (<<x, x>> \in R)
  BY <1>2, <1>3, LowerOrder
<1>5. \A x, y, z \in T : <<x, y>> \in R /\ <<y, z>> \in R => <<x, z>> \in R
  <2>1. ASSUME NEW x \in T, NEW y \in T, NEW z \in T, <<x, y>> \in R, <<y, z>> \in R
        PROVE  <<x, z>> \in R
    <3>1. Lower(dst[x].height, dst[y].height) /\ Lower(dst[y].height, dst[z].height)
      BY <1>3, <2>1
    <3>2. Lower(dst[x].height, dst[z].height)
      BY <1>2, <3>1, LowerOrder
    <3> QED BY <1>3, <3>2
  <2> QED BY <2>1
<1> HIDE DEF R
<1>6. PICK i \in T : \A k \in T : ~ (<<k, i>> \in R)
  BY <1>1, <1>4, <1>5, FiniteMinimal
<1> QED BY <1>3, <1>6

LEMMA LowestLeadsOut ==
  ASSUME Inv, Pairs, Quiet, NEW S \in SUBSET known, S # {}
  PROVE  \E i \in S : Informed(i) \cap S = {}
<1> DEFINE T == {i \in S : dst[i].height # Null}
<1>1. \A i, k \in S : k \in Informed(i) => k \in T
  BY DownIsLower
<1>2. CASE T = {}
  BY <1>1, <1>2
<1>3. CASE T # {}
  <2>1. PICK i \in T : \A k \in T : ~ Lower(dst[k].height, dst[i].height)
    BY <1>3, LeastHeight
  <2>2. ASSUME NEW k \in Informed(i) \cap S PROVE FALSE
    <3>1. k \in T
      BY <1>1, <2>2
    <3>2. Lower(dst[k].height, dst[i].height)
      BY <2>2, DownIsLower
    <3> QED BY <2>1, <3>1, <3>2
  <2> QED BY <2>2
<1> QED BY <1>2, <1>3

(* Once all messages and link changes have been handled, packets follow    *)
(* downstream links in a circle only where a router missed the last change *)
(* of the next hop's height (rt_resolve 240-257).                          *)
THEOREM LoopFree == Spec => []NoCycle
<1>1. Inv /\ Pairs => NoCycle
  BY LowestLeadsOut DEF NoCycle
<1> QED BY <1>1, Invariance, AllPairs, PTL

(* A part of the network that is cut off from the destination keeps no     *)
(* route: of its routers with heights the lowest would have a next hop,    *)
(* which is lower and belongs to the same part (recvUPD 484-552).          *)
THEOREM PartitionsErased == Spec => []PartitionErased
<1>1. ASSUME Inv, Pairs, Quiet, NEW S \in SUBSET Routers,
             S \cap blurred = {}, (S \X S) \cap missed = {}, \A i \in S : links[i] \subseteq S
      PROVE  \A i \in S \cap known : dst[i].height = Null
  <2> DEFINE T == {i \in S \cap known : dst[i].height # Null}
  <2> SUFFICES ASSUME T # {} PROVE FALSE
    OBVIOUS
  <2>1. PICK i \in T : \A k \in T : ~ Lower(dst[k].height, dst[i].height)
    <3>1. T \in SUBSET known /\ T # {}
      OBVIOUS
    <3> HIDE DEF T
    <3> QED BY <1>1, <3>1, LeastHeight, Zenon
  <2>2. PICK k \in links[i] : dst[i].lnk_stat[k] = "DN"
    <3>1. TableOK(dst[i], links[i], clock) /\ HasNextHop(dst[i])
      BY <1>1 DEF Inv, TablesOK, Good
    <3> QED BY <3>1 DEF TableOK, Tables, HasNextHop
  <2>3. k \in S /\ k \in Routers /\ <<k, i>> \notin missed
    <3>1. k \in S /\ <<k, i>> \in S \X S
      BY <1>1
    <3> QED BY <1>1, <3>1
  <2>4. k \in Informed(i) /\ dst[k].height # Null
    BY <1>1, <2>2, <2>3, NextHopKnown
  <2>5. Lower(dst[k].height, dst[i].height)
    BY <1>1, <2>3, <2>4, DownIsLower
  <2>6. k \in T
    BY <2>3, <2>4 DEF Down, Informed
  <2> QED BY <2>1, <2>5, <2>6
<1>2. Inv /\ Pairs => PartitionErased
  BY <1>1 DEF PartitionErased
<1> QED BY <1>2, Invariance, AllPairs, PTL

-----------------------------------------------------------------------------
(* The way of a packet, whichever next hops are chosen (rt_resolve         *)
(* 240-257), as long as each router it meets has exact counters and has    *)
(* not missed the next one's last change.                                  *)
NextHop(i, k) == i \in known /\ k \in links[i] /\ dst[i].lnk_stat[k] = "DN"
Walk(p) ==
  /\ p \in Seq(Routers \ blurred) /\ p # <<>>
  /\ p[1] \in known /\ dst[p[1]].height # Null
  /\ \A n \in 1 .. Len(p) - 1 : NextHop(p[n], p[n + 1]) /\ <<p[n + 1], p[n]>> \notin missed
Arrives ==
  Quiet => \A p \in Seq(Routers \ blurred) :
             Walk(p) => /\ Len(p) <= Cardinality(Routers)
                        /\ \E k \in Nodes : NextHop(p[Len(p)], k)

LEMMA WalkRouted ==
  ASSUME Inv, Pairs, Quiet, NEW p, Walk(p)
  PROVE  \A n \in 1 .. Len(p) :
           /\ p[n] \in known \ blurred /\ dst[p[n]].height # Null
           /\ n < Len(p) => p[n + 1] \in Informed(p[n])
<1>1. /\ Len(p) \in Nat \ {0} /\ \A n \in 1 .. Len(p) : p[n] \in Routers \ blurred
  BY DEF Walk
<1>2. ASSUME NEW n \in 1 .. Len(p), n < Len(p)
      PROVE  p[n + 1] \in Informed(p[n]) /\ dst[p[n + 1]].height # Null /\ p[n + 1] \in known
  <2>1. n \in 1 .. Len(p) - 1 /\ n + 1 \in 1 .. Len(p)
    BY <1>1, <1>2
  <2>2. NextHop(p[n], p[n + 1]) /\ p[n + 1] \in Routers /\ <<p[n + 1], p[n]>> \notin missed
    BY <1>1, <2>1 DEF Walk
  <2>3. p[n + 1] \in Informed(p[n]) /\ dst[p[n + 1]].height # Null
    BY <2>2, NextHopKnown DEF NextHop
  <2> QED BY <2>3 DEF Down, Informed
<1>3. ASSUME NEW n \in 1 .. Len(p) PROVE p[n] \in known /\ dst[p[n]].height # Null
  <2>1. CASE n = 1
    BY <2>1 DEF Walk
  <2>2. CASE n # 1
    <3>1. n - 1 \in 1 .. Len(p) /\ n - 1 < Len(p) /\ (n - 1) + 1 = n
      BY <1>1, <2>2
    <3>2. p[(n - 1) + 1] \in known /\ dst[p[(n - 1) + 1]].height # Null
      BY <1>2, <3>1
    <3> QED BY <3>1, <3>2
  <2> QED BY <2>1, <2>2
<1> QED BY <1>1, <1>2, <1>3

(* A walk that came back would be a cycle.                                 *)
LEMMA WalkForward ==
  ASSUME Inv, Pairs, Quiet, NEW p, Walk(p), NEW m \in 1 .. Len(p), NEW n \in 1 .. Len(p), m < n
  PROVE  p[m] # p[n]
<1> SUFFICES ASSUME p[m] = p[n] PROVE FALSE
  OBVIOUS
<1> DEFINE S == {p[j] : j \in m .. n - 1}
<1>1. Len(p) \in Nat
  BY DEF Walk
<1>2. m .. n - 1 \subseteq 1 .. Len(p) /\ m \in m .. n - 1
  BY <1>1
<1>3. S \in SUBSET known /\ S # {}
  BY <1>2, WalkRouted
<1>4. PICK j \in m .. n - 1 : Informed(p[j]) \cap S = {}
  BY <1>3, LowestLeadsOut
<1>5. p[j + 1] \in Informed(p[j])
  <2>1. j \in 1 .. Len(p) /\ j < Len(p)
    BY <1>1, <1>2
  <2> QED BY <2>1, WalkRouted
<1>6. p[j + 1] \in S
  <2>1. CASE j + 1 = n
    BY <1>2, <2>1
  <2>2. CASE j + 1 # n
    <3>1. j + 1 \in m .. n - 1
      BY <2>2
    <3> QED BY <3>1
  <2> QED BY <2>1, <2>2
<1> QED BY <1>4, <1>5, <1>6

(* At rest every route arrives: a packet that follows next hops, whichever *)
(* the tables hold, visits no router twice and never finds itself without  *)
(* a next hop.  So it comes to the destination after at most as many hops  *)
(* as there are routers, or to one that missed its next hop's last change  *)
(* or whose counters a CLR has left behind.                                *)
THEOREM RoutesArrive == Spec => []Arrives
<1>1. ASSUME Inv, Pairs, Quiet, NEW p, Walk(p)
      PROVE  Len(p) <= Cardinality(Routers) /\ \E k \in Nodes : NextHop(p[Len(p)], k)
  <2>1. /\ Len(p) \in Nat \ {0} /\ p \in [1 .. Len(p) -> Routers]
        /\ IsFiniteSet(Routers) /\ Cardinality(Routers) \in Nat
    BY <1>1, AddressAssumption, FS_CardinalityType DEF Walk
  <2>2. \A m, n \in 1 .. Len(p) : p[m] = p[n] => m = n
    <3>1. \A m, n \in 1 .. Len(p) : m < n => p[m] # p[n]
      BY <1>1, WalkForward
    <3>2. \A m, n \in 1 .. Len(p) : m # n => m < n \/ n < m
      BY <2>1
    <3> QED BY <3>1, <3>2
  <2>3. Len(p) <= Cardinality(Routers)
    <3>1. IsFiniteSet(1 .. Len(p)) /\ Cardinality(1 .. Len(p)) = Len(p)
      BY <2>1, FS_Interval
    <3>2. p \in Injection(1 .. Len(p), Routers)
      BY <2>1, <2>2 DEF Injection, IsInjective
    <3>3. Cardinality(1 .. Len(p)) <= Cardinality(Routers)
      BY <2>1, <3>1, <3>2, FS_Injection DEF ExistsInjection
    <3> QED BY <3>1, <3>3
  <2>4. Len(p) \in 1 .. Len(p)
    BY <2>1
  <2>5. p[Len(p)] \in known \ blurred /\ dst[p[Len(p)]].height # Null
    BY <1>1, <2>4, WalkRouted
  <2> DEFINE i == p[Len(p)]
  <2>6. TableOK(dst[i], links[i], clock) /\ HasNextHop(dst[i]) /\ links[i] \subseteq Nodes
    BY <1>1, <2>5 DEF Inv, TablesOK, Good
  <2>7. \E k \in links[i] : dst[i].lnk_stat[k] = "DN"
    <3> HIDE DEF i
    <3> QED BY <2>6 DEF TableOK, Tables, HasNextHop
  <2>8. \E k \in Nodes : NextHop(i, k)
    BY <2>5, <2>6, <2>7 DEF NextHop
  <2> QED BY <2>3, <2>8
<1>2. Inv /\ Pairs => Arrives
  BY <1>1 DEF Arrives
<1> QED BY <1>2, Invariance, AllPairs, PTL

================================================================================
