---------------------------- MODULE DataPath_proofs ----------------------------
(***************************************************************************)
(* Theorems about DataPath, for any nodes, packets, routes and libraries.  *)
(***************************************************************************)
EXTENDS DataPath, InductionLemmas

-----------------------------------------------------------------------------
(* The table of packet types.                                              *)

(* The types k may name: static ones, those of the first n libraries, and  *)
(* then "undefined".                                                       *)
NameOf(n, k) ==
  IF k <= Static THEN StaticNames[k]
  ELSE IF k <= Static + n THEN Libraries[k - Static] ELSE "undefined"

Classifier == [type : Nat, class : {"UNCLASSIFIED", "ROUTING", "DATApkt"}]
Tables ==
  [name : Seq(STRING \cup {"undefined"}), chain : Seq(Classifier), ntype : Nat, ours : BOOLEAN]

(* What the table is once n libraries have been loaded: if there is one    *)
(* PT_NTYPE it grows with each, and if there are two it does not.          *)
Table(t, n) ==
  /\ n \in 0 .. Len(Libraries) /\ t \in Tables /\ t.ours
  /\ Len(t.name) = Static + n + 1 /\ t.ntype = Static + n
  /\ \A k \in 1 .. Static + n + 1 : t.name[k] = NameOf(n, k)
  /\ Len(t.chain) = n
  /\ \A j \in 1 .. n : t.chain[j] = [type |-> Static + n - j, class |-> LibraryClass[n - j + 1]]
Shared(t, n) ==
  /\ n \in 0 .. Len(Libraries) /\ t \in Tables /\ ~ t.ours
  /\ Len(t.name) = Static + 1
  /\ \A k \in 1 .. Static : t.name[k] = StaticNames[k]
  /\ t.name[Static + 1] = IF n = 0 THEN "undefined" ELSE Libraries[n]
  /\ Len(t.chain) = n
  /\ \A j \in 1 .. n : t.chain[j] = [type |-> Static, class |-> LibraryClass[n - j + 1]]

TypesInv == \E n \in Nat : Table(types, n) \/ Shared(types, n)

LEMMA StaticType == Static \in Nat /\ Len(Libraries) \in Nat
BY LibraryAssumption DEF Static

(* All names are different.                                                *)
LEMMA NamesDiffer ==
  /\ DOMAIN StaticNames = 1 .. Static /\ DOMAIN Libraries = 1 .. Len(Libraries)
  /\ \A i, k \in 1 .. Static : StaticNames[i] = StaticNames[k] => i = k
  /\ \A i, k \in 1 .. Len(Libraries) : Libraries[i] = Libraries[k] => i = k
  /\ \A i \in 1 .. Static, k \in 1 .. Len(Libraries) : StaticNames[i] # Libraries[k]
  /\ \A i \in 1 .. Static : StaticNames[i] # "undefined"
  /\ \A i \in 1 .. Len(Libraries) : Libraries[i] # "undefined"
<1>1. /\ Static \in Nat /\ Len(Libraries) \in Nat
      /\ DOMAIN StaticNames = 1 .. Static /\ DOMAIN Libraries = 1 .. Len(Libraries)
  BY LibraryAssumption DEF Static
<1>2. \A i, k \in 1 .. Static : StaticNames[i] = StaticNames[k] => i = k
  BY <1>1, LibraryAssumption DEF IsInjective
<1>3. \A i, k \in 1 .. Len(Libraries) : Libraries[i] = Libraries[k] => i = k
  BY <1>1, LibraryAssumption DEF IsInjective
<1>4. \A i \in 1 .. Static, k \in 1 .. Len(Libraries) : StaticNames[i] # Libraries[k]
  BY <1>1, LibraryAssumption DEF ToSet
<1>5. /\ \A i \in 1 .. Static : StaticNames[i] # "undefined"
      /\ \A i \in 1 .. Len(Libraries) : Libraries[i] # "undefined"
  BY <1>1, LibraryAssumption DEF ToSet
<1> QED BY <1>1, <1>2, <1>3, <1>4, <1>5

(* No two types of the table have one name, and none has that of a library *)
(* not loaded.                                                             *)
LEMMA NamesApart ==
  ASSUME NEW n \in 0 .. Len(Libraries), NEW j \in 1 .. Static + n + 1
  PROVE  /\ \A k \in 1 .. Static + n + 1 : NameOf(n, j) = NameOf(n, k) => j = k
         /\ \A k \in n + 1 .. Len(Libraries) : NameOf(n, j) # Libraries[k]
BY StaticType, NamesDiffer DEF NameOf

LEMMA NumberIs ==
  ASSUME NEW t, NEW name, NEW k \in Nat, Named(t, name) = {k}, NEW here
  PROVE  GetType(t, name, here) = k - 1
<1> DEFINE N == Named(t, name)
<1> HIDE DEF N
<1>1. N = {k}
  BY DEF N
<1>2. (CHOOSE i \in N : \A j \in N : i <= j) = k
  BY <1>1
<1> QED BY <1>1, <1>2 DEF GetType, N

LEMMA NumberOf ==
  ASSUME NEW t, NEW n, Table(t, n), NEW k \in 1 .. Static + n + 1, NEW here
  PROVE  GetType(t, NameOf(n, k), here) = k - 1
<1>1. Named(t, NameOf(n, k)) = {k}
  BY NamesApart, StaticType DEF Named, Table, Tables
<1>2. k \in Nat
  BY StaticType DEF Table
<1> QED BY <1>1, <1>2, NumberIs

(* What the first classifier of a chain says that knows the number asked.  *)
LEMMA FirstAnswers ==
  ASSUME NEW chain, NEW number, NEW n \in Nat, DOMAIN chain = 1 .. n, NEW k \in 1 .. n,
         GetClass(chain[k], number) # "UNCLASSIFIED",
         \A j \in 1 .. k - 1 : GetClass(chain[j], number) = "UNCLASSIFIED"
  PROVE  Asked(chain, number) = GetClass(chain[k], number)
<1> DEFINE knows == {j \in DOMAIN chain : GetClass(chain[j], number) # "UNCLASSIFIED"}
<1>1. k \in knows /\ \A j \in knows : k <= j /\ j \in Nat
  <2>1. \A j \in 1 .. n : j < k => j \in 1 .. k - 1
    OBVIOUS
  <2> QED BY <2>1
<1> HIDE DEF knows
<1>2. (CHOOSE j \in knows : \A i \in knows : j <= i) = k
  <2>1. k \in Nat
    OBVIOUS
  <2>2. \A j \in knows : (\A i \in knows : j <= i) <=> j = k
    BY <1>1, <2>1
  <2> QED BY <1>1, <2>2
<1>3. Asked(chain, number) = GetClass(chain[CHOOSE j \in knows : \A i \in knows : j <= i], number)
  BY <1>1 DEF Asked, knows
<1> QED BY <1>2, <1>3

LEMMA NoneAnswers ==
  ASSUME NEW chain, NEW number,
         \A j \in DOMAIN chain : GetClass(chain[j], number) = "UNCLASSIFIED"
  PROVE  Asked(chain, number) = "UNCLASSIFIED"
BY DEF Asked

(* Of a static type only the static part of classify decides.              *)
LEMMA StaticClassOf ==
  ASSUME NEW t, NEW n \in Nat, DOMAIN t.chain = 1 .. n, NEW k \in 1 .. Static,
         \A j \in 1 .. n : t.chain[j].type \in Nat /\ t.chain[j].type >= Static
  PROVE  Classify(t, k - 1) = StaticClass(StaticNames[k])
<1>1. Static \in Nat /\ k - 1 < Static /\ k - 1 + 1 = k
  BY StaticType
<1>2. \A j \in DOMAIN t.chain : GetClass(t.chain[j], k - 1) = "UNCLASSIFIED"
  BY <1>1 DEF GetClass
<1>3. Asked(t.chain, k - 1) = "UNCLASSIFIED"
  BY <1>2, NoneAnswers
<1>4. Classify(t, k - 1) = IF StaticClass(StaticNames[k]) # "UNCLASSIFIED"
                           THEN StaticClass(StaticNames[k]) ELSE Asked(t.chain, k - 1)
  BY <1>1 DEF Classify
<1> QED BY <1>3, <1>4

LEMMA ClassOf ==
  ASSUME NEW t, NEW n, Table(t, n), NEW k \in 1 .. n
  PROVE  Classify(t, Static + k - 1) = LibraryClass[k]
<1> DEFINE number == Static + k - 1
<1>1. n \in Nat /\ n <= Len(Libraries) /\ Static \in Nat
  BY StaticType DEF Table
<1>2. DOMAIN t.chain = 1 .. n
  BY <1>1 DEF Table, Tables
<1>3. \A j \in 1 .. n : GetClass(t.chain[j], number) =
        IF j = n - k + 1 THEN LibraryClass[k] ELSE "UNCLASSIFIED"
  <2> SUFFICES ASSUME NEW j \in 1 .. n
               PROVE  GetClass(t.chain[j], number) =
                        IF j = n - k + 1 THEN LibraryClass[k] ELSE "UNCLASSIFIED"
    OBVIOUS
  <2>1. t.chain[j] = [type |-> Static + n - j, class |-> LibraryClass[n - j + 1]]
    BY DEF Table
  <2>2. Static + n - j = number <=> j = n - k + 1
    BY <1>1
  <2>3. j = n - k + 1 => n - j + 1 = k
    BY <1>1
  <2> QED BY <2>1, <2>2, <2>3 DEF GetClass
<1>4. Classify(t, number) = Asked(t.chain, number)
  BY <1>1 DEF Classify
<1>5. n - k + 1 \in 1 .. n
  BY <1>1
<1> HIDE DEF number
<1>6. CASE LibraryClass[k] = "UNCLASSIFIED"
  BY <1>2, <1>3, <1>4, <1>6, NoneAnswers DEF number
<1>7. CASE LibraryClass[k] # "UNCLASSIFIED"
  <2> DEFINE m == n - k + 1
  <2>1. m \in 1 .. n /\ GetClass(t.chain[m], number) = LibraryClass[k]
        /\ \A j \in 1 .. m - 1 : GetClass(t.chain[j], number) = "UNCLASSIFIED"
    <3>1. \A j \in 1 .. m - 1 : j \in 1 .. n /\ j # m
      BY <1>1
    <3> QED BY <1>3, <1>5, <3>1
  <2> HIDE DEF m
  <2>2. Asked(t.chain, number) = GetClass(t.chain[m], number)
    BY <1>1, <1>2, <1>7, <2>1, FirstAnswers
  <2> QED BY <1>4, <2>1, <2>2 DEF number
<1> QED BY <1>6, <1>7

LEMMA SharedClass ==
  ASSUME NEW t, NEW n, Shared(t, n), NEW k \in 1 .. n, LibraryClass[k] # "UNCLASSIFIED",
         \A j \in k + 1 .. n : LibraryClass[j] = "UNCLASSIFIED"
  PROVE  Classify(t, Static) = LibraryClass[k]
<1>1. n \in Nat /\ Static \in Nat /\ DOMAIN t.chain = 1 .. n
  BY StaticType DEF Shared, Tables
<1>2. ASSUME NEW j \in 1 .. n PROVE GetClass(t.chain[j], Static) = LibraryClass[n - j + 1]
  <2>1. t.chain[j] = [type |-> Static, class |-> LibraryClass[n - j + 1]]
    BY DEF Shared
  <2> QED BY <2>1 DEF GetClass
<1> DEFINE m == n - k + 1
<1>3. /\ m \in 1 .. n /\ n - m + 1 = k
      /\ \A j \in 1 .. m - 1 : j \in 1 .. n /\ n - j + 1 \in k + 1 .. n
  BY <1>1
<1> HIDE DEF m
<1>4. Asked(t.chain, Static) = GetClass(t.chain[m], Static)
  <2>1. GetClass(t.chain[m], Static) # "UNCLASSIFIED"
    BY <1>2, <1>3
  <2>2. \A j \in 1 .. m - 1 : GetClass(t.chain[j], Static) = "UNCLASSIFIED"
    BY <1>2, <1>3
  <2> QED BY <1>1, <1>3, <2>1, <2>2, FirstAnswers
<1>5. Classify(t, Static) = Asked(t.chain, Static)
  BY <1>1 DEF Classify
<1> QED BY <1>2, <1>3, <1>4, <1>5

LEMMA NameTyped ==
  ASSUME NEW n \in 0 .. Len(Libraries), NEW k \in 1 .. Static + n + 1
  PROVE  NameOf(n, k) \in STRING \cup {"undefined"}
BY LibraryAssumption DEF NameOf, Static

(* The names initName gives to the types when it makes the table longer.   *)
Grown(t) ==
  LET n == NTypeRead(t) IN
  [k \in 1 .. n + 1 |-> CASE k <= Static -> StaticNames[k]
                               [] k = n + 1 -> "undefined"
                               [] OTHER -> IF k <= Len(t.name) THEN t.name[k] ELSE "garbage"]

LEMMA InitNameIs ==
  ASSUME NEW t
  PROVE  InitName(t) = IF Len(t.name) >= NTypeRead(t) + 1 THEN t ELSE [t EXCEPT !.name = Grown(t)]
BY Zenon DEF InitName, Grown

LEMMA TypesInit == Init => TypesInv
<1> SUFFICES ASSUME NEW ours \in BOOLEAN, types = Started(ours)
             PROVE  Table(types, 0) \/ Shared(types, 0)
  BY DEF Init, TypesInv
<1> DEFINE t == [name |-> <<>>, chain |-> <<>>, ntype |-> Static, ours |-> ours]
           b == [k \in 1 .. Static + 1 |-> NameOf(0, k)]
<1>1. t.ntype = Static /\ t.name = <<>> /\ t.chain = <<>> /\ t.ours = ours /\ Len(t.name) = 0
  OBVIOUS
<1>2. types = InitName(t)
  BY DEF Started
<1>3. types = [t EXCEPT !.name = b]
  <2> HIDE DEF t
  <2>1. NTypeRead(t) = Static
    BY <1>1 DEF NTypeRead
  <2>2. Grown(t) = b
    BY <1>1, <2>1, StaticType DEF Grown, NameOf
  <2>3. ~ (Len(t.name) >= NTypeRead(t) + 1)
    BY <1>1, <2>1, StaticType
  <2> HIDE DEF b
  <2> QED BY <1>2, <2>2, <2>3, InitNameIs
<1>4. b \in Seq(STRING \cup {"undefined"}) /\ Len(b) = Static + 1
      /\ \A k \in 1 .. Static + 1 : b[k] = NameOf(0, k)
  <2>1. \A k \in 1 .. Static + 1 : NameOf(0, k) \in STRING \cup {"undefined"}
    BY NameTyped, StaticType
  <2> QED BY <2>1, StaticType
<1> HIDE DEF b
<1>5. types = [name |-> b, chain |-> <<>>, ntype |-> Static, ours |-> ours]
  BY <1>3
<1>6. types \in Tables
  <2>1. <<>> \in Seq(Classifier)
    OBVIOUS
  <2> QED BY <1>4, <1>5, <2>1, StaticType DEF Tables
<1>7. types.name = b /\ types.chain = <<>> /\ types.ntype = Static /\ types.ours = ours
  BY <1>5
<1>8. CASE ours
  <2>1. Static + 0 + 1 = Static + 1 /\ Static + 0 = Static /\ Len(<<>>) = 0 /\ 0 \in 0 .. Len(Libraries)
        /\ 1 .. 0 = {}
    BY StaticType
  <2> QED BY <1>4, <1>6, <1>7, <1>8, <2>1 DEF Table
<1>9. CASE ~ ours
  BY <1>4, <1>6, <1>7, <1>9, StaticType DEF Shared, NameOf
<1> QED BY <1>8, <1>9

LEMMA Pushed ==
  ASSUME NEW T, NEW s \in Seq(T), NEW c \in T, NEW r, r = <<c>> \o s
  PROVE  /\ r \in Seq(T) /\ Len(r) = Len(s) + 1
         /\ r[1] = c /\ \A j \in 2 .. Len(s) + 1 : r[j] = s[j - 1]
OBVIOUS

(* addPacket's names: those initName leaves or gives, and the new one.     *)
Renamed(t, m) == IF t.ours THEN Grown([t EXCEPT !.ntype = m]) ELSE t.name

LEMMA AddPacketIs ==
  ASSUME NEW t \in Tables, NEW m \in Nat, m = Len(t.name), m >= Static + 1, NEW name
  PROVE  AddPacket(t, name)
           = [name |-> [Renamed(t, m) EXCEPT ![m] = name], chain |-> t.chain, ntype |-> m,
              ours |-> t.ours]
<1> DEFINE u == [t EXCEPT !.ntype = m]
           v == [u EXCEPT !.name = Renamed(t, m)]
<1>1. u.ntype = m /\ u.name = t.name /\ u.chain = t.chain /\ u.ours = t.ours /\ u \in Tables
  BY DEF Tables
<1>2. InitName(u) = v
  <2>1. CASE t.ours
    <3>1. NTypeRead(u) = m /\ Renamed(t, m) = Grown(u)
      BY <1>1, <2>1 DEF NTypeRead, Renamed
    <3> HIDE DEF u
    <3>2. ~ (Len(u.name) >= NTypeRead(u) + 1)
      BY <1>1, <3>1
    <3> QED BY <3>1, <3>2, InitNameIs
  <2>2. CASE ~ t.ours
    <3>1. NTypeRead(u) = Static /\ Renamed(t, m) = u.name
      BY <1>1, <2>2 DEF NTypeRead, Renamed
    <3> HIDE DEF u
    <3>2. Len(u.name) >= NTypeRead(u) + 1
      BY <1>1, <3>1
    <3>3. InitName(u) = u
      BY <3>2, InitNameIs
    <3>4. v = u
      BY <1>1, <3>1 DEF Tables
    <3> QED BY <3>3, <3>4
  <2> QED BY <2>1, <2>2
<1>3. AddPacket(t, name) = [InitName(u) EXCEPT !.name[m] = name]
  BY DEF AddPacket
<1> DEFINE d == Renamed(t, m)
<1>4. v = [name |-> d, chain |-> t.chain, ntype |-> m, ours |-> t.ours]
  <2> HIDE DEF u, d
  <2> QED BY <1>1 DEF Tables, d
<1> HIDE DEF u, v, d
<1>5. AddPacket(t, name) = [v EXCEPT !.name = [v.name EXCEPT ![m] = name]]
  BY <1>2, <1>3
<1>6. v.name = d
  BY <1>4
<1> DEFINE e == [d EXCEPT ![m] = name]
<1> HIDE DEF e
<1>7. AddPacket(t, name) = [v EXCEPT !.name = e]
  BY <1>5, <1>6 DEF e
<1>8. [v EXCEPT !.name = e] = [name |-> e, chain |-> t.chain, ntype |-> m, ours |-> t.ours]
  BY <1>4
<1> QED BY <1>7, <1>8 DEF e, d

(* The table after one more library.                                       *)
LEMMA LoadIs ==
  ASSUME Load, NEW t \in Tables, types = t, NEW m \in Nat, m = Len(t.name), m >= Static + 1,
         NEW n \in Nat, n = Len(t.chain), n <= Len(Libraries)
  PROVE  /\ n < Len(Libraries)
         /\ types' \in [name : {[Renamed(t, m) EXCEPT ![m] = Libraries[n + 1]]},
                        chain : Seq(Classifier), ntype : {m}, ours : {t.ours}]
         /\ Len(types'.chain) = n + 1
         /\ types'.chain[1] = [type |-> m - 1, class |-> LibraryClass[n + 1]]
         /\ \A j \in 2 .. n + 1 : types'.chain[j] = t.chain[j - 1]
<1> DEFINE c == [type |-> m - 1, class |-> LibraryClass[n + 1]]
           e == [Renamed(t, m) EXCEPT ![m] = Libraries[n + 1]]
           a == AddPacket(t, Libraries[n + 1])
           r == <<c>> \o t.chain
<1>1. LoadedTypes(t) = n /\ NewId(t) = m - 1
  BY DEF LoadedTypes, NewId
<1>2. n < Len(Libraries)
  BY <1>1, StaticType DEF Load, Loaded
<1>3. types' = AddPacketClassifier(a, c)
  BY <1>1 DEF Load
<1>4. a = [name |-> e, chain |-> t.chain, ntype |-> m, ours |-> t.ours]
  BY AddPacketIs, Zenon
<1>5. c \in Classifier
  <2>1. m - 1 \in Nat /\ n + 1 \in DOMAIN Libraries
    BY <1>2, StaticType, LibraryAssumption
  <2> QED BY <2>1, LibraryAssumption DEF Classifier
<1> HIDE DEF a, c, e
<1>7. types' = [a EXCEPT !.chain = <<c>> \o a.chain]
  BY <1>3 DEF AddPacketClassifier
<1>8. types' = [name |-> e, chain |-> r, ntype |-> m, ours |-> t.ours]
  <2>1. a.chain = t.chain
    BY <1>4
  <2>2. types' = [a EXCEPT !.chain = r]
    BY <1>7, <2>1
  <2> HIDE DEF r
  <2> QED BY <1>4, <2>2
<1>9. /\ r \in Seq(Classifier) /\ Len(r) = n + 1
      /\ r[1] = c /\ \A j \in 2 .. n + 1 : r[j] = t.chain[j - 1]
  <2> DEFINE s == t.chain
  <2>1. s \in Seq(Classifier) /\ Len(s) = n /\ r = <<c>> \o s
    BY DEF Tables
  <2> HIDE DEF r, s
  <2>2. /\ r \in Seq(Classifier) /\ Len(r) = Len(s) + 1
        /\ r[1] = c /\ \A j \in 2 .. Len(s) + 1 : r[j] = s[j - 1]
    BY <1>5, <2>1, Pushed
  <2> QED BY <2>1, <2>2 DEF s
<1> HIDE DEF r
<1>10. types'.chain = r
  BY <1>8
<1> QED BY <1>2, <1>8, <1>9, <1>10 DEF c, e

LEMMA TableGrows ==
  ASSUME NEW n \in Nat, Table(types, n), Load
  PROVE  Table(types', n + 1)
<1> DEFINE t == types
           m == Static + n + 1
           b == [k \in 1 .. m + 1 |-> NameOf(n + 1, k)]
<1>1. /\ t \in Tables /\ t.ours /\ Len(t.name) = m /\ m \in Nat /\ m >= Static + 1
      /\ \A k \in 1 .. m : t.name[k] = NameOf(n, k)
      /\ Len(t.chain) = n /\ n <= Len(Libraries) /\ Static \in Nat /\ Len(Libraries) \in Nat
  BY StaticType DEF Table
<1>2. \A j \in 1 .. n : t.chain[j] = [type |-> Static + n - j, class |-> LibraryClass[n - j + 1]]
  BY DEF Table
<1>3. [Renamed(t, m) EXCEPT ![m] = Libraries[n + 1]] = b
  <2> DEFINE d == Renamed(t, m)
             u == [t EXCEPT !.ntype = m]
  <2>1. u.ntype = m /\ u.name = t.name /\ u.ours = t.ours
    BY <1>1 DEF Tables
  <2>2. d = Grown(u)
    BY <1>1 DEF Renamed
  <2> HIDE DEF u, d
  <2>3. d = [k \in 1 .. m + 1 |-> CASE k <= Static -> StaticNames[k]
                                    [] k = m + 1 -> "undefined"
                                    [] OTHER -> IF k <= m THEN t.name[k] ELSE "garbage"]
    BY <1>1, <2>1, <2>2 DEF Grown, NTypeRead
  <2> SUFFICES ASSUME NEW k \in 1 .. m + 1
               PROVE  (IF k = m THEN Libraries[n + 1] ELSE d[k]) = NameOf(n + 1, k)
    BY <1>1, <2>3 DEF d
  <2>4. CASE k <= Static
    BY <1>1, <2>3, <2>4 DEF NameOf
  <2>5. CASE k = m + 1
    BY <1>1, <2>3, <2>5 DEF NameOf
  <2>6. CASE k = m
    BY <1>1, <2>6 DEF NameOf
  <2>7. CASE k > Static /\ k < m
    <3>1. d[k] = t.name[k] /\ k # m /\ k \in 1 .. m
      BY <1>1, <2>3, <2>7
    <3> QED BY <1>1, <2>7, <3>1 DEF NameOf
  <2> QED BY <1>1, <2>4, <2>5, <2>6, <2>7
<1> HIDE DEF b
<1>4. /\ n < Len(Libraries)
      /\ types' \in [name : {b}, chain : Seq(Classifier), ntype : {m}, ours : {t.ours}]
      /\ Len(types'.chain) = n + 1
      /\ types'.chain[1] = [type |-> m - 1, class |-> LibraryClass[n + 1]]
      /\ \A j \in 2 .. n + 1 : types'.chain[j] = t.chain[j - 1]
  <2>1. /\ t \in Tables /\ types = t /\ m \in Nat /\ m = Len(t.name) /\ m >= Static + 1
        /\ n = Len(t.chain) /\ n <= Len(Libraries)
    BY <1>1
  <2> HIDE DEF t, m
  <2>2. /\ n < Len(Libraries)
        /\ types' \in [name : {[Renamed(t, m) EXCEPT ![m] = Libraries[n + 1]]},
                       chain : Seq(Classifier), ntype : {m}, ours : {t.ours}]
        /\ Len(types'.chain) = n + 1
        /\ types'.chain[1] = [type |-> m - 1, class |-> LibraryClass[n + 1]]
        /\ \A j \in 2 .. n + 1 : types'.chain[j] = t.chain[j - 1]
    BY <2>1, LoadIs, ZenonT(40)
  <2> QED BY <1>3, <2>2, Zenon
<1>5. b \in Seq(STRING \cup {"undefined"}) /\ Len(b) = m + 1
      /\ \A k \in 1 .. m + 1 : b[k] = NameOf(n + 1, k)
  <2>1. \A k \in 1 .. m + 1 : NameOf(n + 1, k) \in STRING \cup {"undefined"}
    <3> DEFINE L == Len(Libraries)
    <3>0. n < L /\ L \in Nat /\ Static \in Nat
      BY <1>1, <1>4, Zenon
    <3> HIDE DEF L
    <3>4. n + 1 \in 0 .. L /\ m + 1 = Static + (n + 1) + 1
      BY <3>0
    <3>1. n + 1 \in 0 .. Len(Libraries) /\ m + 1 = Static + (n + 1) + 1
      BY <3>4, Zenon DEF L
    <3>2. 1 .. m + 1 = 1 .. Static + (n + 1) + 1
      BY <3>1
    <3> HIDE DEF m
    <3>3. ASSUME NEW k \in 1 .. m + 1
          PROVE  NameOf(n + 1, k) \in STRING \cup {"undefined"}
      <4>1. k \in 1 .. Static + (n + 1) + 1
        BY <3>2, Zenon
      <4> DEFINE i == n + 1
      <4>2. i \in 0 .. Len(Libraries) /\ k \in 1 .. Static + i + 1
        BY <3>1, <4>1
      <4> HIDE DEF i
      <4>3. NameOf(i, k) \in STRING \cup {"undefined"}
        BY <4>2, NameTyped
      <4> QED BY <4>3 DEF i
    <3> QED BY <3>3, Zenon
  <2>2. m \in Nat
    BY <1>1
  <2> HIDE DEF m, t
  <2> DEFINE M == m + 1
  <2>3. M \in Nat
    BY <2>2
  <2>4. b = [k \in 1 .. M |-> NameOf(n + 1, k)]
    BY Zenon DEF b
  <2>5. \A k \in 1 .. M : NameOf(n + 1, k) \in STRING \cup {"undefined"}
    BY <2>1
  <2> HIDE DEF M
  <2>6. b \in Seq(STRING \cup {"undefined"}) /\ Len(b) = M
        /\ \A k \in 1 .. M : b[k] = NameOf(n + 1, k)
    BY <2>3, <2>4, <2>5
  <2> QED BY <2>6 DEF M
<1>6. types' \in Tables /\ types'.name = b /\ types'.ntype = m /\ types'.ours
  BY <1>1, <1>4, <1>5 DEF Tables
<1>7. \A j \in 1 .. n + 1 :
        types'.chain[j] = [type |-> Static + (n + 1) - j, class |-> LibraryClass[(n + 1) - j + 1]]
  <2> SUFFICES ASSUME NEW j \in 1 .. n + 1
               PROVE  types'.chain[j] = [type |-> Static + (n + 1) - j,
                                         class |-> LibraryClass[(n + 1) - j + 1]]
    OBVIOUS
  <2>1. CASE j = 1
    <3>1. Static + (n + 1) - j = m - 1 /\ (n + 1) - j + 1 = n + 1
      BY <1>1, <2>1
    <3> QED BY <1>4, <2>1, <3>1
  <2>2. CASE j # 1
    <3>1. /\ j - 1 \in 1 .. n /\ j \in 2 .. n + 1 /\ n - (j - 1) = (n + 1) - j
          /\ Static + n - (j - 1) = Static + (n + 1) - j
      BY <1>1, <2>2
    <3>2. t.chain[j - 1] = [type |-> Static + n - (j - 1), class |-> LibraryClass[n - (j - 1) + 1]]
      BY <1>2, <3>1
    <3> QED BY <1>4, <3>1, <3>2
  <2> QED BY <2>1, <2>2
<1>8. m + 1 = Static + (n + 1) + 1 /\ m = Static + (n + 1) /\ n + 1 \in 0 .. Len(Libraries)
  BY <1>1, <1>4
<1> QED BY <1>4, <1>5, <1>6, <1>7, <1>8 DEF Table

LEMMA SharedStays ==
  ASSUME NEW n \in Nat, Shared(types, n), Load
  PROVE  Shared(types', n + 1)
<1> DEFINE t == types
           m == Static + 1
           b == [t.name EXCEPT ![m] = Libraries[n + 1]]
<1>1. /\ t \in Tables /\ ~ t.ours /\ Len(t.name) = m /\ m \in Nat /\ m >= Static + 1
      /\ \A k \in 1 .. Static : t.name[k] = StaticNames[k]
      /\ Len(t.chain) = n /\ n <= Len(Libraries) /\ Static \in Nat /\ Len(Libraries) \in Nat
  BY StaticType DEF Shared
<1>2. \A j \in 1 .. n : t.chain[j] = [type |-> Static, class |-> LibraryClass[n - j + 1]]
  BY DEF Shared
<1>3. [Renamed(t, m) EXCEPT ![m] = Libraries[n + 1]] = b
  BY <1>1 DEF Renamed
<1> HIDE DEF b
<1>4. /\ n < Len(Libraries)
      /\ types' \in [name : {b}, chain : Seq(Classifier), ntype : {m}, ours : {t.ours}]
      /\ Len(types'.chain) = n + 1
      /\ types'.chain[1] = [type |-> m - 1, class |-> LibraryClass[n + 1]]
      /\ \A j \in 2 .. n + 1 : types'.chain[j] = t.chain[j - 1]
  <2> HIDE DEF t, m
  <2> QED BY <1>1, <1>3, LoadIs DEF t
<1>5. /\ b \in Seq(STRING \cup {"undefined"}) /\ Len(b) = m /\ b[m] = Libraries[n + 1]
      /\ \A k \in 1 .. Static : b[k] = StaticNames[k]
  <2>1. Libraries[n + 1] \in STRING
    BY <1>1, <1>4, LibraryAssumption
  <2>2. t.name \in Seq(STRING \cup {"undefined"})
    BY <1>1 DEF Tables
  <2> QED BY <1>1, <2>1, <2>2 DEF b
<1>6. types' \in Tables /\ types'.name = b /\ ~ types'.ours
  BY <1>1, <1>4, <1>5 DEF Tables
<1>7. \A j \in 1 .. n + 1 :
        types'.chain[j] = [type |-> Static, class |-> LibraryClass[(n + 1) - j + 1]]
  <2> SUFFICES ASSUME NEW j \in 1 .. n + 1
               PROVE  types'.chain[j] = [type |-> Static, class |-> LibraryClass[(n + 1) - j + 1]]
    OBVIOUS
  <2>1. CASE j = 1
    <3>1. m - 1 = Static /\ (n + 1) - j + 1 = n + 1
      BY <1>1, <2>1
    <3> QED BY <1>4, <2>1, <3>1
  <2>2. CASE j # 1
    <3>1. j - 1 \in 1 .. n /\ j \in 2 .. n + 1 /\ n - (j - 1) + 1 = (n + 1) - j + 1
      BY <1>1, <2>2
    <3> QED BY <1>2, <1>4, <3>1
  <2> QED BY <2>1, <2>2
<1>8. n + 1 # 0 /\ n + 1 \in 0 .. Len(Libraries)
  BY <1>1, <1>4
<1> QED BY <1>4, <1>5, <1>6, <1>7, <1>8 DEF Shared

LEMMA TypesNext == TypesInv /\ [Next]_vars => TypesInv'
<1> SUFFICES ASSUME TypesInv, [Next]_vars PROVE TypesInv'
  OBVIOUS
<1>1. PICK n \in Nat : Table(types, n) \/ Shared(types, n)
  BY DEF TypesInv
<1>2. CASE types' = types
  BY <1>1, <1>2 DEF TypesInv
<1>3. CASE Load
  BY <1>1, <1>3, TableGrows, SharedStays DEF TypesInv
<1>4. types' = types \/ Load
  <2>1. CASE UNCHANGED vars
    BY <2>1 DEF vars, nodeVars
  <2>2. ASSUME NEW w, Become(w) PROVE types' = types
    BY <2>2 DEF Become
  <2>3. ASSUME Next, ~ Load PROVE types' = types
    <3>1. ASSUME NEW u \in Uids, NEW hop, Originate(u, hop) PROVE types' = types
      BY <2>2, <3>1 DEF Originate
    <3>2. ASSUME NEW p, NEW n1, NEW hop, Receive(p, n1, hop) PROVE types' = types
      BY <2>2, <3>2 DEF Receive
    <3>3. ASSUME NEW n1, NEW hop, Flush(n1, hop) \/ LinkLost(n1, hop) PROVE types' = types
      BY <2>2, <3>3 DEF Flush, LinkLost
    <3>4. ASSUME NEW n1, NEW p, Release(n1, p) \/ Expire(n1) \/ Reset(n1) PROVE types' = types
      BY <2>2, <3>4 DEF Release, Expire, Reset
    <3>5. ASSUME NEW n1, NEW u, NEW type, NEW to, Other(n1, u, type, to) PROVE types' = types
      BY Zenon, <2>2, <3>5 DEF Other
    <3>6. ASSUME NEW n1, NEW arrives, Transmit(n1, arrives) PROVE types' = types
      BY <2>2, <3>6 DEF Transmit
    <3>7. ASSUME NEW n1, Tap(n1) \/ Untap(n1) \/ Drain(n1) PROVE types' = types
      BY <3>7 DEF Tap, Untap, Drain, nodeVars
    <3> QED BY <2>3, <3>1, <3>2, <3>3, <3>4, <3>5, <3>6, <3>7 DEF Next
  <2> QED BY <2>1, <2>3
<1> QED BY <1>2, <1>3, <1>4

(* One number for each library.                                            *)
LEMMA OwnFollows == ASSUME NEW n \in Nat, Table(types, n) PROVE OwnNumbers(n)
<1>1. n \in 0 .. Len(Libraries) /\ Len(types.name) = Static + n + 1
  BY DEF Table
<1>2. ASSUME NEW k \in 1 .. n, NEW here PROVE Number(Libraries[k], here) = Static + k - 1
  <2> DEFINE j == Static + k
  <2>1. j \in 1 .. Static + n + 1 /\ NameOf(n, j) = Libraries[k]
    BY <1>1, StaticType DEF NameOf
  <2> HIDE DEF j
  <2>2. Number(Libraries[k], here) = j - 1
    BY <2>1, NumberOf DEF Number
  <2> QED BY <2>2, StaticType DEF j
<1>3. ASSUME NEW k \in n + 1 .. Len(Libraries)
      PROVE  types.name[Number(Libraries[k], types.ntype) + 1] = "undefined"
  <2>1. \A j \in 1 .. Static + n + 1 : types.name[j] # Libraries[k]
    BY <1>1, NamesApart DEF Table
  <2>2. Named(types, Libraries[k]) = {}
    <3>1. DOMAIN types.name = 1 .. Static + n + 1
      BY <1>1 DEF Table, Tables
    <3> QED BY <2>1, <3>1 DEF Named
  <2>3. Number(Libraries[k], types.ntype) = Static + n
    BY <2>2 DEF Number, GetType, Table
  <2> QED BY <1>1, <2>3, StaticType DEF Table, NameOf
<1> QED BY <1>2, <1>3, ClassOf DEF OwnNumbers

(* One number for all of them.                                             *)
LEMMA OneFollows == ASSUME NEW n \in Nat, Shared(types, n) PROVE OneNumber(n)
<1>1. /\ n \in 0 .. Len(Libraries) /\ DOMAIN types.name = 1 .. Static + 1
      /\ Static \in Nat /\ Len(Libraries) \in Nat
  BY StaticType DEF Shared, Tables
<1>2. ASSUME NEW k \in 1 .. n, NEW here
      PROVE  Number(Libraries[k], here) = IF k = n THEN Static ELSE here
  <2>1. \A j \in 1 .. Static + 1 : types.name[j] = Libraries[k] <=> j = Static + 1 /\ k = n
    <3>1. \A j \in 1 .. Static : types.name[j] # Libraries[k]
      BY <1>1, NamesDiffer DEF Shared
    <3>2. types.name[Static + 1] = Libraries[n]
      BY <1>1 DEF Shared
    <3>3. Libraries[n] = Libraries[k] <=> k = n
      BY <1>1, NamesDiffer
    <3> QED BY <1>1, <3>1, <3>2, <3>3
  <2>2. CASE k = n
    <3> DEFINE m == Static + 1
    <3>1. Named(types, Libraries[k]) = {m} /\ m \in Nat
      BY <1>1, <2>1, <2>2 DEF Named
    <3> HIDE DEF m
    <3>2. GetType(types, Libraries[k], here) = m - 1
      BY <3>1, NumberIs
    <3> QED BY <1>1, <2>2, <3>2 DEF Number, m
  <2>3. CASE k # n
    <3>1. Named(types, Libraries[k]) = {}
      BY <1>1, <2>1, <2>3 DEF Named
    <3> QED BY <2>3, <3>1 DEF Number, GetType
  <2> QED BY <2>2, <2>3
<1> QED BY <1>2, SharedClass DEF OneNumber

LEMMA TypesFollow == TypesInv => TypesSound
<1> SUFFICES ASSUME NEW n \in Nat, Table(types, n) \/ Shared(types, n) PROVE TypesSound
  BY DEF TypesInv
<1>1. /\ n \in 0 .. Len(Libraries) /\ LoadedTypes(types) = n /\ DOMAIN types.chain = 1 .. n
      /\ Static \in Nat
  BY StaticType DEF Table, Shared, Tables, LoadedTypes
<1>2. ASSUME NEW k \in 1 .. Static, NEW here PROVE Number(StaticNames[k], here) = k - 1
  <2>1. CASE Table(types, n)
    <3>1. k \in 1 .. Static + n + 1 /\ NameOf(n, k) = StaticNames[k]
      BY <1>1 DEF NameOf
    <3> QED BY <2>1, <3>1, NumberOf DEF Number
  <2>2. CASE Shared(types, n)
    <3>1. DOMAIN types.name = 1 .. Static + 1
      BY <1>1, <2>2 DEF Shared, Tables
    <3>2. \A j \in 1 .. Static : types.name[j] = StaticNames[k] <=> j = k
      BY <2>2, NamesDiffer DEF Shared
    <3>3. types.name[Static + 1] # StaticNames[k]
      BY <1>1, <2>2, NamesDiffer DEF Shared
    <3>4. k \in Nat /\ \A j \in 1 .. Static + 1 : j \in 1 .. Static \/ j = Static + 1
      BY <1>1
    <3>5. \A j \in 1 .. Static + 1 : types.name[j] = StaticNames[k] <=> j = k
      BY <1>1, <3>2, <3>3, <3>4
    <3>6. k \in 1 .. Static + 1
      BY <1>1
    <3>7. Named(types, StaticNames[k]) = {k}
      BY <3>1, <3>5, <3>6 DEF Named
    <3> QED BY <3>4, <3>7, NumberIs DEF Number
  <2> QED BY <2>1, <2>2
<1>3. ASSUME NEW k \in 1 .. Static PROVE Classify(types, k - 1) = StaticClass(StaticNames[k])
  <2>1. ASSUME NEW j \in 1 .. n
        PROVE  types.chain[j].type \in Nat /\ types.chain[j].type >= Static
    <3>1. CASE Table(types, n)
      <4>1. types.chain[j] = [type |-> Static + n - j, class |-> LibraryClass[n - j + 1]]
        BY <3>1 DEF Table
      <4> QED BY <1>1, <4>1
    <3>2. CASE Shared(types, n)
      <4>1. types.chain[j] = [type |-> Static, class |-> LibraryClass[n - j + 1]]
        BY <3>2 DEF Shared
      <4> QED BY <1>1, <4>1
    <3> QED BY <3>1, <3>2
  <2> QED BY <1>1, <2>1, StaticClassOf
<1>4. IF types.ours THEN OwnNumbers(n) ELSE OneNumber(n)
  BY OwnFollows, OneFollows DEF Table, Shared
<1> QED BY <1>1, <1>2, <1>3, <1>4 DEF TypesSound
-----------------------------------------------------------------------------
(* The inductive invariant.  A handler is an operator on worlds, so that   *)
(* it is stated for a world w, for the packets H in the handler's hands,   *)
(* and for the packets S whose start is in the trace.                      *)

Others == {t.type : t \in Talks}

Pools ==
  [free : Seq(Packets), used : SUBSET Packets, refs : [Packets -> Nat], hdr : [Packets -> Headers]]
Interfaces == [q : Seq(Packets), mac : Packets \cup {Idle}]
Scripts ==
  [udp_send : Nat, udp_recv : Nat, packet_size : Nat, started : BOOLEAN,
   start_time : [PacketIds -> {"unset", "sent"}],
   end_time : [PacketIds -> {"unset", "lost", "received"}]]
Faults == {b \in [node : Nodes, hop : Nodes, saddr : Nodes] : b.hop = 0 /\ b.node = b.saddr}
Worlds ==
  [mem : Pools, rqueue : [Nodes -> Seq(Packets)], later : [Nodes -> SUBSET Packets],
   ifc : [Nodes -> Interfaces], air : SUBSET (Packets \X Nodes),
   awk : Scripts, color : [Nodes -> [Tracers -> 0 .. 3]], screen : [Nodes -> 0 .. 3],
   got : SUBSET Uids, clashed : SUBSET Uids, blamed : SUBSET Faults]

(* A cell is a place of a node where packets rest, and what it holds.      *)
Cells == {"rqueue", "ifc", "later", "air"} \X Nodes
KeptBy(i) == ToSet(i.q) \cup ({i.mac} \ {Idle})
Contents(w) ==
  [x \in Cells |->
     IF x[1] = "rqueue" THEN ToSet(w.rqueue[x[2]])
     ELSE IF x[1] = "ifc" THEN KeptBy(w.ifc[x[2]])
     ELSE IF x[1] = "later" THEN w.later[x[2]]
     ELSE {p \in Packets : <<p, x[2]>> \in w.air}]
Stored(C) == {p \in Packets : \E x \in Cells : p \in C[x]}

(* The header of a data packet that waits at n for a route, that n is      *)
(* about to send, that comes up at n; and that of any packet in a cell.    *)
Sized(h, hops) ==
  /\ h.ptype = "cbr" /\ h.size = Size + IpHdrLen
  /\ h.ttl + h.num_forwards = hops /\ h.ttl > 0
Waits(n, h) ==
  /\ Sized(h, DefTTL)
  /\ IF h.from \in Nodes THEN h.prev_hop = h.from ELSE h.prev_hop = 0 /\ h.saddr = n
Goes(n, h) ==
  /\ h.prev_hop = n
  /\ h.ptype = "cbr" =>
       Sized(h, DefTTL) /\ h.next_hop \in Neighbours[n] /\ h.next_hop # h.from
Comes(n, h) ==
  /\ Sized(h, DefTTL + 1) /\ h.num_forwards > 0
  /\ h.from \in Nodes \ {n} /\ h.prev_hop = h.from
Fits(x, h) ==
  IF x[1] = "rqueue" THEN Waits(x[2], h)
  ELSE IF x[1] = "air" THEN Comes(x[2], h)
  ELSE Goes(x[2], h)

(* The number of a packet whose line is still to be written: that of a     *)
(* data packet in the trace (S) that nobody has received (G), or one that  *)
(* is no data packet's, unless an ARP line shows an address in its place.  *)
Logged(h, S, G) ==
  \/ h.ptype = "cbr" /\ h.uid \in S \ G
  \/ h.ptype \in Others \ {"ARP"} /\ h.uid \in OtherUids
  \/ h.ptype = "ARP" /\ h.ptype \in Others /\ h.next_hop \in Nodes

(* Ownership: the packets in use are those in hand, those in a cell, and   *)
(* those of which somebody has a reference; the cells share none.          *)
Owned(m, C, H, S, G) ==
  /\ m \in Pools /\ C \in [Cells -> SUBSET Packets] /\ H \subseteq Packets
  /\ \A x, y \in Cells : \A p \in C[x] : p \in C[y] => x = y
  /\ \A p \in H : p \notin Stored(C)
  /\ m.used = taps \cup H \cup Stored(C)
  /\ \A p \in Packets : m.refs[p] = IF p \in taps /\ p \in H \cup Stored(C) THEN 1 ELSE 0
  /\ \A j, k \in DOMAIN m.free : m.free[j] = m.free[k] => j = k
  /\ \A k \in DOMAIN m.free : m.free[k] \notin m.used
  /\ \A p \in H \cup Stored(C) : Logged(m.hdr[p], S, G)
  /\ \A x \in Cells : \A p \in C[x] : Fits(x, m.hdr[p])
  /\ \A p \in taps : m.hdr[p].ptype = "cbr" => m.hdr[p].ttl > 0

(* The interface queue i: its order, its limit, and each packet once.      *)
Prefers(h, p) == h[p].ptype \in Preferred
Lined(i, h, qlim) ==
  /\ \A j, k \in DOMAIN i.q : i.q[j] = i.q[k] => j = k
  /\ \A k \in DOMAIN i.q : i.q[k] # i.mac
  /\ Len(i.q) < qlim
  /\ \A j, k \in DOMAIN i.q : j < k /\ Prefers(h, i.q[k]) => Prefers(h, i.q[j])
Queued(i, h, qlim) == Lined(i, h, qlim) /\ (i.mac = Idle => i.q = <<>>)
Ordered(w) ==
  \A n \in Nodes :
    /\ \A j, k \in DOMAIN w.rqueue[n] : w.rqueue[n][j] = w.rqueue[n][k] => j = k
    /\ Queued(w.ifc[n], w.mem.hdr, QLim[n])

(* The trace: what the script and nam have made of it so far.              *)
Level(n) == EnergyLevel(energy[n], 50, 20)
Summed(a, S, G, clashes) ==
  /\ a.udp_send = Cardinality(S)
  /\ a.udp_recv = Cardinality(G) /\ a.packet_size = Cardinality(G) * (Size + IpHdrLen)
  /\ Delayed(a) \subseteq G /\ G \subseteq Delayed(a) \cup clashes
  /\ \A u \in S : a.start_time[u] = "sent"
Painted(c, s) ==
  \A n \in Nodes :
    /\ s[n] # 0
    /\ \A t \in Tracers : s[n] <= c[n][t] /\ Level(n) <= c[n][t]
    /\ \E t \in Tracers : s[n] = c[n][t]

WOK(w, H, S) ==
  /\ w \in Worlds /\ energy \in [Nodes -> 0 .. 100]
  /\ S \subseteq Uids /\ IsFiniteSet(S) /\ w.got \subseteq S
  /\ Owned(w.mem, Contents(w), H, S, w.got)
  /\ Ordered(w)
  /\ Summed(w.awk, S, w.got, w.clashed)
  /\ Painted(w.color, w.screen)

(* No two packets are copies of one data packet.                           *)
Once(w) ==
  \A p, q \in Stored(Contents(w)) :
    /\ w.mem.hdr[p].ptype = "cbr" /\ w.mem.hdr[q].ptype = "cbr"
    /\ w.mem.hdr[p].uid = w.mem.hdr[q].uid
    => p = q

IInv ==
  /\ WOK(World, {}, sent \ mute) /\ Once(World)
  /\ sent \subseteq Uids /\ IsFiniteSet(sent) /\ mute \subseteq sent

-----------------------------------------------------------------------------
(* The pool, and who owns what.                                            *)
LEMMA BlankTyped == Blank \in Headers
BY DataPathAssumption DEF Blank, Headers

LEMMA StoredIn ==
  ASSUME NEW C \in [Cells -> SUBSET Packets], NEW x \in Cells
  PROVE  C[x] \subseteq Stored(C) /\ Stored(C) \subseteq Packets
BY DEF Stored

LEMMA FreeShared1 ==
  ASSUME NEW m \in Pools, NEW p \in m.used, m.refs[p] # 0
  PROVE  /\ Free(m, p) \in Pools
         /\ Free(m, p).free = m.free /\ Free(m, p).used = m.used /\ Free(m, p).hdr = m.hdr
         /\ Free(m, p).refs = [m.refs EXCEPT ![p] = @ - 1]
<1>1. Free(m, p) = [m EXCEPT !.refs = [m.refs EXCEPT ![p] = @ - 1]]
  BY DEF Free, Pools
<1>2. [m.refs EXCEPT ![p] = @ - 1] \in [Packets -> Nat]
  BY DEF Pools
<1> QED BY <1>1, <1>2 DEF Pools

LEMMA FreeLast ==
  ASSUME NEW m \in Pools, NEW p \in m.used, m.refs[p] = 0
  PROVE  /\ Free(m, p) \in Pools
         /\ Free(m, p).used = m.used \ {p}
         /\ Free(m, p).hdr = [m.hdr EXCEPT ![p] = Blank] /\ Free(m, p).refs = m.refs
         /\ Len(Free(m, p).free) = Len(m.free) + 1 /\ Free(m, p).free[1] = p
         /\ \A k \in 2 .. Len(m.free) + 1 : Free(m, p).free[k] = m.free[k - 1]
<1> DEFINE f == <<p>> \o m.free
           h == [m.hdr EXCEPT ![p] = Blank]
<1>1. p \in Packets
  BY DEF Pools
<1>2. /\ f \in Seq(Packets) /\ Len(f) = Len(m.free) + 1 /\ f[1] = p
      /\ \A k \in 2 .. Len(m.free) + 1 : f[k] = m.free[k - 1]
  BY <1>1 DEF Pools
<1>3. h \in [Packets -> Headers]
  BY BlankTyped DEF Pools
<1>4. Free(m, p) = [m EXCEPT !.free = f, !.used = m.used \ {p}, !.hdr = h]
  BY DEF Free, Pools
<1> HIDE DEF f, h
<1>5. /\ Free(m, p) \in Pools
      /\ Free(m, p).free = f /\ Free(m, p).used = m.used \ {p}
      /\ Free(m, p).hdr = h /\ Free(m, p).refs = m.refs
  BY <1>2, <1>3, <1>4 DEF Pools
<1> QED BY <1>2, <1>5 DEF f, h

(* A packet in hand is freed: it leaves the pool, or its reference does.   *)
LEMMA FreedOwned ==
  ASSUME NEW m, NEW C, NEW H, NEW S, NEW G, Owned(m, C, H, S, G), NEW p \in H
  PROVE  /\ Owned(Free(m, p), C, H \ {p}, S, G)
         /\ \A q \in Packets \ {p} : Free(m, p).hdr[q] = m.hdr[q]
<1>1. /\ m \in Pools /\ p \in m.used /\ p \in Packets
      /\ p \notin Stored(C) /\ C \in [Cells -> SUBSET Packets]
  BY DEF Owned
<1>2. CASE p \in taps
  <2>1. m.refs[p] = 1
    BY <1>1, <1>2 DEF Owned
  <2> DEFINE r == Free(m, p)
  <2>2. /\ r \in Pools /\ r.free = m.free /\ r.used = m.used /\ r.hdr = m.hdr
        /\ r.refs = [m.refs EXCEPT ![p] = @ - 1]
    BY <1>1, <2>1, FreeShared1
  <2> HIDE DEF r
  <2>3. \A q \in Packets :
          r.refs[q] = IF q \in taps /\ q \in (H \ {p}) \cup Stored(C) THEN 1 ELSE 0
    <3> SUFFICES ASSUME NEW q \in Packets
                 PROVE  r.refs[q] = IF q \in taps /\ q \in (H \ {p}) \cup Stored(C) THEN 1 ELSE 0
      OBVIOUS
    <3>1. CASE q = p
      BY <1>1, <2>1, <2>2, <3>1 DEF Pools
    <3>2. CASE q # p
      <4>1. r.refs[q] = m.refs[q]
        BY <1>1, <2>2, <3>2 DEF Pools
      <4> QED BY <3>2, <4>1 DEF Owned
    <3> QED BY <3>1, <3>2
  <2>4. m.used = taps \cup (H \ {p}) \cup Stored(C)
    BY <1>2 DEF Owned
  <2>5. Owned(r, C, H \ {p}, S, G)
    BY <2>2, <2>3, <2>4 DEF Owned
  <2> QED BY <2>2, <2>5 DEF r
<1>3. CASE p \notin taps
  <2>1. m.refs[p] = 0
    BY <1>1, <1>3 DEF Owned
  <2> DEFINE r == Free(m, p)
  <2>2. /\ r \in Pools /\ r.used = m.used \ {p} /\ r.hdr = [m.hdr EXCEPT ![p] = Blank]
        /\ r.refs = m.refs /\ Len(r.free) = Len(m.free) + 1 /\ r.free[1] = p
        /\ \A k \in 2 .. Len(m.free) + 1 : r.free[k] = m.free[k - 1]
    BY <1>1, <2>1, FreeLast
  <2> HIDE DEF r
  <2>3. /\ m.free \in Seq(Packets) /\ r.free \in Seq(Packets)
        /\ \A j, k \in 1 .. Len(m.free) : m.free[j] = m.free[k] => j = k
        /\ \A k \in 1 .. Len(m.free) : m.free[k] \notin m.used
    <3>1. m.free \in Seq(Packets) /\ r.free \in Seq(Packets)
      BY <1>1, <2>2 DEF Pools
    <3>2. /\ \A j, k \in DOMAIN m.free : m.free[j] = m.free[k] => j = k
          /\ \A k \in DOMAIN m.free : m.free[k] \notin m.used
      BY Zenon DEF Owned
    <3>3. DOMAIN m.free = 1 .. Len(m.free)
      BY <3>1
    <3> QED BY <3>1, <3>2, <3>3
  <2>4. /\ \A j, k \in DOMAIN r.free : r.free[j] = r.free[k] => j = k
        /\ \A k \in DOMAIN r.free : r.free[k] \notin r.used
    <3>1. \A k \in DOMAIN r.free : k = 1 \/ (k \in 2 .. Len(m.free) + 1 /\ k - 1 \in 1 .. Len(m.free))
      BY <2>2, <2>3
    <3>2. \A k \in DOMAIN r.free : k # 1 => r.free[k] = m.free[k - 1] /\ r.free[k] # p
      BY <1>1, <2>2, <2>3, <3>1
    <3>3. \A j, k \in DOMAIN r.free : r.free[j] = r.free[k] => j = k
      <4> SUFFICES ASSUME NEW j \in DOMAIN r.free, NEW k \in DOMAIN r.free, r.free[j] = r.free[k]
                   PROVE  j = k
        OBVIOUS
      <4>1. CASE j = 1 \/ k = 1
        BY <2>2, <3>2, <4>1
      <4>2. CASE j # 1 /\ k # 1
        <5>1. j - 1 = k - 1
          BY <2>3, <3>1, <3>2, <4>2
        <5> QED BY <2>3, <5>1
      <4> QED BY <4>1, <4>2
    <3>4. \A k \in DOMAIN r.free : r.free[k] \notin r.used
      <4> SUFFICES ASSUME NEW k \in DOMAIN r.free PROVE r.free[k] \notin m.used \ {p}
        BY <2>2
      <4>1. k # 1 => r.free[k] \notin m.used
        BY <2>3, <3>1, <3>2
      <4> QED BY <2>2, <4>1
    <3> QED BY <3>3, <3>4
  <2>5. \A q \in Packets \ {p} : r.hdr[q] = m.hdr[q]
    BY <1>1, <2>2 DEF Pools
  <2>6. r.used = taps \cup (H \ {p}) \cup Stored(C)
    BY <1>1, <1>3, <2>2 DEF Owned
  <2>7. \A q \in Packets :
          r.refs[q] = IF q \in taps /\ q \in (H \ {p}) \cup Stored(C) THEN 1 ELSE 0
    BY <1>1, <1>3, <2>1, <2>2 DEF Owned
  <2>8. H \ {p} \subseteq Packets \ {p} /\ Stored(C) \subseteq Packets \ {p}
        /\ taps \subseteq Packets \ {p}
    BY <1>1, <1>3 DEF Owned, Stored, Pools
  <2>9. /\ \A q \in (H \ {p}) \cup Stored(C) : Logged(r.hdr[q], S, G)
        /\ \A x \in Cells : \A q \in C[x] : Fits(x, r.hdr[q])
        /\ \A q \in taps : r.hdr[q].ptype = "cbr" => r.hdr[q].ttl > 0
    BY <1>1, <2>5, <2>8, StoredIn DEF Owned
  <2>10. Owned(r, C, H \ {p}, S, G)
    BY <1>1, <2>2, <2>4, <2>6, <2>7, <2>9 DEF Owned
  <2> QED BY <2>5, <2>10 DEF r
<1> QED BY <1>2, <1>3

(* A new packet is one nobody had, and comes into the handler's hands.     *)
LEMMA AllocOwned ==
  ASSUME NEW m, NEW C, NEW H, NEW S, NEW G, Owned(m, C, H, S, G), CanAlloc(m),
         NEW h \in Headers, Logged(h, S, G)
  PROVE  /\ Allocated(m) \in Packets /\ Allocated(m) \notin m.used
         /\ Owned(Alloc(m, h), C, H \cup {Allocated(m)}, S, G)
         /\ Alloc(m, h).hdr = [m.hdr EXCEPT ![Allocated(m)] = h]
<1> DEFINE p == Allocated(m)
           r == Alloc(m, h)
           f == IF m.free = <<>> THEN m.free ELSE Tail(m.free)
<1>1. m \in Pools /\ m.free \in Seq(Packets) /\ m.used \subseteq Packets
  BY DEF Owned, Pools
<1>2. /\ f \in Seq(Packets)
      /\ \A k \in DOMAIN f : k + 1 \in DOMAIN m.free /\ f[k] = m.free[k + 1] /\ k # 0
      /\ p \in Packets /\ p \notin m.used /\ \A k \in DOMAIN f : f[k] # p
  <2>1. CASE m.free = <<>>
    <3>1. p \in Uncreated(m)
      BY <2>1 DEF CanAlloc, Allocated
    <3>2. f = <<>> /\ DOMAIN f = {}
      BY <2>1
    <3> QED BY <1>1, <3>1, <3>2 DEF Uncreated
  <2>2. CASE m.free # <<>>
    <3>1. 1 \in DOMAIN m.free /\ p = m.free[1]
      BY <1>1, <2>2 DEF Allocated
    <3>2. /\ f \in Seq(Packets)
          /\ \A k \in DOMAIN f : k + 1 \in DOMAIN m.free /\ f[k] = m.free[k + 1] /\ k # 0 /\ k \in Nat
      BY <1>1, <2>2
    <3>3. p \in Packets /\ p \notin m.used
      BY <1>1, <3>1 DEF Owned
    <3>4. \A k \in DOMAIN f : f[k] # p
      <4> SUFFICES ASSUME NEW k \in DOMAIN f, f[k] = p PROVE FALSE
        OBVIOUS
      <4> HIDE DEF f, p
      <4>1. k + 1 = 1
        BY <3>1, <3>2 DEF Owned
      <4> QED BY <3>2, <4>1
    <3> QED BY <3>2, <3>3, <3>4
  <2> QED BY <2>1, <2>2
<1>3. r = [m EXCEPT !.free = f, !.used = m.used \cup {p}, !.hdr = [m.hdr EXCEPT ![p] = h]]
  BY <1>1 DEF Alloc, Pools
<1> HIDE DEF f, p, r
<1>4. [m.hdr EXCEPT ![p] = h] \in [Packets -> Headers]
  BY <1>1 DEF Pools
<1>5. /\ r \in Pools /\ r.free = f /\ r.used = m.used \cup {p} /\ r.refs = m.refs
      /\ r.hdr = [m.hdr EXCEPT ![p] = h]
  BY <1>1, <1>2, <1>3, <1>4 DEF Pools
<1>6. r.hdr[p] = h /\ \A q \in Packets \ {p} : r.hdr[q] = m.hdr[q]
  BY <1>1, <1>2, <1>5 DEF Pools
<1>7. p \notin taps /\ p \notin H /\ p \notin Stored(C) /\ C \in [Cells -> SUBSET Packets]
  BY <1>2 DEF Owned
<1>8. /\ \A j, k \in DOMAIN f : f[j] = f[k] => j = k
      /\ \A k \in DOMAIN f : f[k] \notin r.used
  <2>1. DOMAIN f = 1 .. Len(f) /\ Len(f) \in Nat
    BY <1>2
  <2>2. \A j, k \in DOMAIN f : f[j] = f[k] => j = k
    <3> SUFFICES ASSUME NEW j \in DOMAIN f, NEW k \in DOMAIN f, f[j] = f[k] PROVE j = k
      OBVIOUS
    <3>1. j + 1 = k + 1
      BY <1>2 DEF Owned
    <3> QED BY <2>1, <3>1
  <2>3. \A k \in DOMAIN f : f[k] \notin m.used
    BY <1>2 DEF Owned
  <2> QED BY <1>2, <1>5, <2>2, <2>3
<1>9. \A q \in Packets :
        r.refs[q] = IF q \in taps /\ q \in (H \cup {p}) \cup Stored(C) THEN 1 ELSE 0
  BY <1>5, <1>7 DEF Owned
<1>10. r.used = taps \cup (H \cup {p}) \cup Stored(C)
  BY <1>5 DEF Owned
<1>11. /\ H \subseteq Packets \ {p} /\ Stored(C) \subseteq Packets \ {p}
       /\ taps \subseteq Packets \ {p}
  BY <1>1, <1>7 DEF Owned, Stored, Pools
<1>12. /\ \A q \in (H \cup {p}) \cup Stored(C) : Logged(r.hdr[q], S, G)
       /\ \A x \in Cells : \A q \in C[x] : Fits(x, r.hdr[q])
       /\ \A q \in taps : r.hdr[q].ptype = "cbr" => r.hdr[q].ttl > 0
  BY <1>6, <1>7, <1>11, StoredIn DEF Owned
<1>13. Owned(r, C, H \cup {p}, S, G)
  BY <1>2, <1>5, <1>7, <1>8, <1>9, <1>10, <1>12 DEF Owned
<1> QED BY <1>2, <1>5, <1>13 DEF p, r

(* The handler may write to a packet in its hands, and to no other.        *)
LEMMA WrittenOwned ==
  ASSUME NEW m, NEW C, NEW H, NEW S, NEW G, Owned(m, C, H, S, G), NEW p \in H,
         NEW h \in Headers, Logged(h, S, G), h.ptype = "cbr" => h.ttl > 0
  PROVE  LET r == [m EXCEPT !.hdr = [m.hdr EXCEPT ![p] = h]] IN
         /\ Owned(r, C, H, S, G) /\ r.hdr[p] = h
         /\ \A q \in Packets \ {p} : r.hdr[q] = m.hdr[q]
<1> DEFINE r == [m EXCEPT !.hdr = [m.hdr EXCEPT ![p] = h]]
<1>1. m \in Pools /\ p \in Packets /\ p \notin Stored(C) /\ C \in [Cells -> SUBSET Packets]
  BY DEF Owned
<1>2. [m.hdr EXCEPT ![p] = h] \in [Packets -> Headers]
  BY <1>1 DEF Pools
<1>3. /\ r \in Pools /\ r.free = m.free /\ r.used = m.used /\ r.refs = m.refs
      /\ r.hdr = [m.hdr EXCEPT ![p] = h]
  BY <1>1, <1>2 DEF Pools
<1> HIDE DEF r
<1>4. r.hdr[p] = h /\ \A q \in Packets \ {p} : r.hdr[q] = m.hdr[q]
  BY <1>1, <1>3 DEF Pools
<1>5. H \subseteq Packets /\ Stored(C) \subseteq Packets \ {p} /\ taps \subseteq Packets
  BY <1>1 DEF Owned, Stored, Pools
<1>6. /\ \A q \in H \cup Stored(C) : Logged(r.hdr[q], S, G)
      /\ \A x \in Cells : \A q \in C[x] : Fits(x, r.hdr[q])
      /\ \A q \in taps : r.hdr[q].ptype = "cbr" => r.hdr[q].ttl > 0
  BY <1>1, <1>4, <1>5, StoredIn DEF Owned
<1>7. Owned(r, C, H, S, G)
  BY <1>3, <1>6 DEF Owned
<1> QED BY <1>4, <1>7 DEF r

(* Packets change hands: cell x holds D afterwards, and the handler what   *)
(* it had and what was there, without D.                                   *)
LEMMA MovedOwned ==
  ASSUME NEW m, NEW C, NEW H, NEW S, NEW G, Owned(m, C, H, S, G), NEW x \in Cells,
         NEW D, D \subseteq C[x] \cup H, \A p \in D : Fits(x, m.hdr[p])
  PROVE  Owned(m, [C EXCEPT ![x] = D], (H \cup C[x]) \ D, S, G)
<1> DEFINE E == [C EXCEPT ![x] = D]
           K == (H \cup C[x]) \ D
<1>1. C \in [Cells -> SUBSET Packets] /\ H \subseteq Packets /\ m \in Pools
  BY DEF Owned
<1>2. E \in [Cells -> SUBSET Packets] /\ \A y \in Cells : E[y] = IF y = x THEN D ELSE C[y]
  BY <1>1
<1> HIDE DEF E
<1>3. /\ \A y, z \in Cells : \A p \in C[y] : p \in C[z] => y = z
      /\ \A p \in H : \A y \in Cells : p \notin C[y]
  BY <1>1 DEF Owned, Stored
<1>4. Stored(C) = UNION {C[y] : y \in Cells} /\ Stored(E) = UNION {E[y] : y \in Cells}
  BY <1>1, <1>2 DEF Stored
<1>5. K \cup Stored(E) = H \cup Stored(C)
  BY <1>2, <1>4
<1>6. \A p \in K : p \notin Stored(E)
  BY <1>2, <1>3, <1>4
<1>7. \A y, z \in Cells : \A p \in E[y] : p \in E[z] => y = z
  BY <1>2, <1>3
<1>8. \A y \in Cells : \A p \in E[y] : Fits(y, m.hdr[p])
  BY <1>2 DEF Owned
<1>9. K \subseteq Packets
  BY <1>1
<1> HIDE DEF K
<1> QED BY <1>2, <1>5, <1>6, <1>7, <1>8, <1>9 DEF Owned, E, K

-----------------------------------------------------------------------------
(* The columns of the lines the nodes write.                               *)
IsSequence(s) == \E T : s \in Seq(T)

LEMMA Joined ==
  ASSUME NEW s, NEW t, IsSequence(s), IsSequence(t)
  PROVE  /\ IsSequence(s \o t) /\ Len(s) \in Nat /\ Len(t) \in Nat
         /\ Len(s \o t) = Len(s) + Len(t)
         /\ \A k \in 1 .. Len(s) : (s \o t)[k] = s[k]
         /\ \A k \in Len(s) + 1 .. Len(s) + Len(t) : (s \o t)[k] = t[k - Len(s)]
<1>1. PICK T : s \in Seq(T)
  BY DEF IsSequence
<1>2. PICK U : t \in Seq(U)
  BY DEF IsSequence
<1>3. s \in Seq(T \cup U) /\ t \in Seq(T \cup U)
  BY <1>1, <1>2
<1> QED BY <1>3 DEF IsSequence

(* Sequences written out, of the lengths the formats have.                 *)
LEMMA WrittenOut ==
  ASSUME NEW a, NEW b, NEW c, NEW d, NEW e, NEW f, NEW g, NEW h, NEW i, NEW j, NEW k
  PROVE  /\ IsSequence(<<>>) /\ IsSequence(<<a>>) /\ IsSequence(<<a, b>>) /\ IsSequence(<<a, b, c>>)
         /\ IsSequence(<<a, b, c, d>>) /\ IsSequence(<<a, b, c, d, e>>)
         /\ IsSequence(<<a, b, c, d, e, f>>) /\ IsSequence(<<a, b, c, d, e, f, g>>)
         /\ IsSequence(<<a, b, c, d, e, f, g, h>>) /\ IsSequence(<<a, b, c, d, e, f, g, h, i>>)
         /\ IsSequence(<<a, b, c, d, e, f, g, h, i, j>>)
         /\ IsSequence(<<a, b, c, d, e, f, g, h, i, j, k>>)
<1> DEFINE T == {a, b, c, d, e, f, g, h, i, j, k}
<1>1. /\ <<>> \in Seq(T) /\ <<a>> \in Seq(T) /\ <<a, b>> \in Seq(T) /\ <<a, b, c>> \in Seq(T)
      /\ <<a, b, c, d>> \in Seq(T) /\ <<a, b, c, d, e>> \in Seq(T)
      /\ <<a, b, c, d, e, f>> \in Seq(T) /\ <<a, b, c, d, e, f, g>> \in Seq(T)
      /\ <<a, b, c, d, e, f, g, h>> \in Seq(T) /\ <<a, b, c, d, e, f, g, h, i>> \in Seq(T)
      /\ <<a, b, c, d, e, f, g, h, i, j>> \in Seq(T)
      /\ <<a, b, c, d, e, f, g, h, i, j, k>> \in Seq(T)
  OBVIOUS
<1> HIDE DEF T
<1> QED BY <1>1 DEF IsSequence

LEMMA Paired ==
  ASSUME NEW names, IsSequence(names)
  PROVE  /\ IsSequence(Pairs(names)) /\ Len(Pairs(names)) = 2 * Len(names) /\ Len(names) \in Nat
         /\ \A k \in 1 .. 2 * Len(names) : k % 2 = 0 => Pairs(names)[k] = Val(names[k \div 2])
<1>1. PICK T : names \in Seq(T)
  BY DEF IsSequence
<1>2. Pairs(names) \in Seq({"tag", "val"} \X T) /\ Len(Pairs(names)) = 2 * Len(names)
  BY <1>1 DEF Pairs, Tag, Val
<1>3. \A k \in 1 .. 2 * Len(names) : k % 2 = 0 => Pairs(names)[k] = Val(names[k \div 2])
  BY <1>1 DEF Pairs
<1> QED BY <1>1, <1>2, <1>3 DEF IsSequence

LEMMA Valued ==
  ASSUME NEW names, IsSequence(names)
  PROVE  /\ IsSequence(Vals(names)) /\ Len(Vals(names)) = Len(names)
         /\ \A k \in 1 .. Len(names) : Vals(names)[k] = Val(names[k])
<1>1. PICK T : names \in Seq(T)
  BY DEF IsSequence
<1>2. Vals(names) \in Seq({"val"} \X T) /\ Len(Vals(names)) = Len(names)
  BY <1>1 DEF Vals, Val
<1>3. \A k \in 1 .. Len(names) : Vals(names)[k] = Val(names[k])
  BY <1>1 DEF Vals
<1> QED BY <1>2, <1>3 DEF IsSequence

LEMMA ToraFieldsIs ==
  ASSUME NEW kind \in {"QRY", "UPD", "CLR"}
  PROVE  IsSequence(ToraFields[kind])
<1>1. /\ ToraFields["QRY"] = <<"t", "dst">>
      /\ ToraFields["UPD"] = <<"t", "dst", "tau", "oid", "r", "delta", "id">>
      /\ ToraFields["CLR"] = <<"t", "dst", "tau", "oid">>
  BY DEF ToraFields
<1>2. CASE kind = "QRY"
  BY <1>1, <1>2, WrittenOut
<1>3. CASE kind = "UPD"
  BY <1>1, <1>3, WrittenOut
<1>4. CASE kind = "CLR"
  BY <1>1, <1>4, WrittenOut
<1> QED BY <1>2, <1>3, <1>4

LEMMA BodySequence == \A kind \in Routed : IsSequence(Body[kind]["new"])
<1>1. IsSequence(FormatDsr["new"])
  <2>1. IsSequence(<<"DSR">>) /\ IsSequence(DsrFields)
    BY WrittenOut DEF DsrFields
  <2> QED BY <2>1, Joined, Paired DEF FormatDsr
<1>2. IsSequence(FormatMsg["new"])
  <2>1. FormatMsg["new"] = <<>>
    BY DEF FormatMsg, Modes
  <2> QED BY <2>1, WrittenOut
<1>3. IsSequence(FormatTcp["new"])
  <2>1. IsSequence(<<"tcp", "seqno", "ackno">>) /\ IsSequence(Forwards)
    BY WrittenOut DEF Forwards
  <2> QED BY <2>1, Joined, Paired DEF FormatTcp
<1>4. IsSequence(FormatSctp(0)["new"]) /\ IsSequence(FormatSctp(2)["new"])
  <2>1. /\ IsSequence(<<"sctp">>) /\ IsSequence(Forwards)
        /\ IsSequence(<<"num_chunks", "type", "tsn", "stream_id", "stream_seq">>)
    BY WrittenOut DEF Forwards
  <2>2. IsSequence(ChunkFields)
    BY <2>1, Joined DEF ChunkFields
  <2>3. IsSequence(Chunk["new"])
    BY <2>1, <2>2, Joined, Paired DEF Chunk
  <2>5. FormatSctp(0)["new"] = <<>> /\ FormatSctp(2)["new"] = Chunk["new"]
    BY DEF FormatSctp, Modes
  <2> QED BY <2>3, <2>5, WrittenOut
<1>5. IsSequence(FormatRtp["new"])
  <2>1. IsSequence(<<"cbr", "seqno">>) /\ IsSequence(Forwards)
    BY WrittenOut DEF Forwards
  <2> QED BY <2>1, Joined, Paired DEF FormatRtp
<1>6. IsSequence(FormatImep["new"])
  <2>1. IsSequence(<<"IMEP">>) /\ IsSequence(ImepFields) /\ IsSequence(<<Val("]")>>)
    BY WrittenOut DEF ImepFields, Val
  <2>2. IsSequence(Pairs(<<"IMEP">> \o ImepFields))
    BY <2>1, Joined, Paired
  <2>3. FormatImep["new"] = Pairs(<<"IMEP">> \o ImepFields) \o <<Val("]")>>
    BY DEF FormatImep
  <2> QED BY <2>1, <2>2, <2>3, Joined
<1>7. ASSUME NEW kind \in {"QRY", "UPD", "CLR"} PROVE IsSequence(FormatTora(kind)["new"])
  <2>1. /\ IsSequence(<<"TORA", "t", "dst">>) /\ IsSequence(<<"kind">>) /\ IsSequence(<<"TORA">>)
        /\ IsSequence(<<"tau", "oid", "r", "delta", "id">>)
    BY WrittenOut
  <2>2. IsSequence(ToraFields[kind])
    BY ToraFieldsIs
  <2>3. IsSequence(Pairs(<<"TORA">> \o ToraFields[kind] \o <<"kind">>))
    BY <2>1, <2>2, Joined, Paired
  <2>4. IsSequence(Pairs(<<"TORA", "t", "dst">>) \o Vals(<<"tau", "oid", "r", "delta", "id">>)
                   \o Pairs(<<"kind">>))
    BY <2>1, Joined, Paired, Valued
  <2> QED BY <2>3, <2>4 DEF FormatTora
<1>8. ASSUME NEW kind PROVE /\ IsSequence(FormatAodv(kind)["new"])
                            /\ IsSequence(FormatAomdv(kind)["new"])
  <2>1. /\ IsSequence(<<"AODV">>) /\ IsSequence(<<"AOMDV">>)
        /\ IsSequence(RequestFields) /\ IsSequence(ReplyFields)
    BY WrittenOut DEF RequestFields, ReplyFields
  <2> QED BY <2>1, Joined, Paired DEF FormatAodv, FormatAomdv
<1>9. ASSUME NEW kind \in {"HELLO", "DARQ", "DARP", "DAUP", "DABR"}
      PROVE  IsSequence(FormatMdart(kind)["new"])
  <2>1. IsSequence(MdartBefore[kind])
    <3>1. IsSequence(<<"type", "srcId", "srcAdd">>)
      BY WrittenOut
    <3>2. IsSequence(<<"type", "srcId", "srcAdd", "forId", "forAdd", "dstId">>)
      BY WrittenOut
    <3> QED BY <3>1, <3>2 DEF MdartBefore
  <2>2. IsSequence(MdartAfter[kind])
    <3>1. /\ IsSequence(<<"seqNum">>) /\ IsSequence(<<"reqId", "seqNum">>)
          /\ IsSequence(<<"reqId", "reqAdd", "seqNum">>) /\ IsSequence(<<>>)
      BY WrittenOut
    <3> QED BY <3>1 DEF MdartAfter
  <2>3. IsSequence(<<"tag", "dstAdd">>)
    BY WrittenOut
  <2> QED BY <2>1, <2>2, <2>3, Joined, Paired, Valued DEF FormatMdart
<1> QED BY <1>1, <1>2, <1>3, <1>4, <1>5, <1>6, <1>7, <1>8, <1>9 DEF Body, Routed

(* What Joined and Paired say of two sequences and of one.                 *)
Concatenated(s, t) ==
  /\ IsSequence(s \o t) /\ Len(s) \in Nat /\ Len(t) \in Nat
  /\ Len(s \o t) = Len(s) + Len(t)
  /\ \A k \in 1 .. Len(s) : (s \o t)[k] = s[k]
  /\ \A k \in Len(s) + 1 .. Len(s) + Len(t) : (s \o t)[k] = t[k - Len(s)]
Tagged(names) ==
  /\ IsSequence(Pairs(names)) /\ Len(Pairs(names)) = 2 * Len(names) /\ Len(names) \in Nat
  /\ \A k \in 1 .. 2 * Len(names) : k % 2 = 0 => Pairs(names)[k] = Val(names[k \div 2])

LEMMA JoinedIs ==
  ASSUME NEW s, NEW t, IsSequence(s), IsSequence(t)
  PROVE  Concatenated(s, t)
BY Joined, Zenon DEF Concatenated

LEMMA PairedIs ==
  ASSUME NEW names, IsSequence(names)
  PROVE  Tagged(names)
BY Paired, Zenon DEF Tagged

(* A line's columns, numbered from 1, and what each of them shows.         *)
Stands(L, columns) == \A c \in columns : L[c[1]] = Val(c[2])

(* The head of a new line, whatever the trace and the model of energy.     *)
Head29(L) ==
  /\ IsSequence(L) /\ Len(L) = 29
  /\ Stands(L, {<<1, "op">>, <<3, "time">>, <<9, "node">>, <<17, "energy">>, <<19, "level">>})

LEMMA HeadColumns ==
  ASSUME NEW model, NEW level
  PROVE  Head29(FormatMacCommon("new", "802_11", model, level))
<1> DEFINE L == FormatMacCommon("new", "802_11", model, level)
           N == <<"time", "node", "next_hop", "node", "x", "y", "z", "energy", "level", "why">>
           A == Vals(<<"op">>)
           M == <<"dur", "ra", "ta", "ether">>
           P == Pairs(N)
           Q == Pairs(M)
           R == A \o P
           T == R \o Q
<1>1. L = TraceHead["new"] \o MacTokens["new"] \o EnergyTokens["new"]
  <2>1. EnergyTokens["new"] = <<>>
    BY DEF EnergyTokens
  <2>2. (IF model THEN EnergyTokens["new"] ELSE <<>>) = EnergyTokens["new"]
    BY <2>1, Zenon
  <2>3. "new" # "old" /\ "802_11" # "SMAC"
    OBVIOUS
  <2> QED BY <2>2, <2>3, Zenon DEF FormatMacCommon
<1>2. EnergyTokens["new"] = <<>> /\ MacTokens["new"] = Q /\ TraceHead["new"] = R
  BY DEF EnergyTokens, MacTokens, TraceHead
<1>3. /\ IsSequence(N) /\ Len(N) = 10
      /\ N[1] = "time" /\ N[4] = "node" /\ N[8] = "energy" /\ N[9] = "level"
      /\ IsSequence(M) /\ Len(M) = 4
  BY WrittenOut
<1>4. IsSequence(A) /\ Len(A) = 1 /\ A[1] = Val("op")
  <2>1. IsSequence(<<"op">>) /\ Len(<<"op">>) = 1 /\ <<"op">>[1] = "op"
    BY WrittenOut
  <2> QED BY <2>1, Valued
<1>5. L = T \o <<>>
  BY <1>1, <1>2
<1> HIDE DEF L, N, A, M
<1>6. Tagged(N) /\ Tagged(M)
  BY <1>3, PairedIs
<1>7. /\ IsSequence(P) /\ Len(P) = 20
      /\ P[2] = Val("time") /\ P[8] = Val("node") /\ P[16] = Val("energy") /\ P[18] = Val("level")
      /\ IsSequence(Q) /\ Len(Q) = 8
  BY <1>3, <1>6 DEF Tagged
<1> HIDE DEF P, Q
<1>8. Concatenated(A, P)
  BY <1>4, <1>7, JoinedIs
<1>9. /\ IsSequence(R) /\ Len(R) = 21 /\ R[1] = Val("op") /\ R[3] = Val("time")
      /\ R[9] = Val("node") /\ R[17] = Val("energy") /\ R[19] = Val("level")
  <2>1. /\ IsSequence(R) /\ Len(R) = Len(A) + Len(P)
        /\ \A k \in 1 .. Len(A) : R[k] = A[k]
        /\ \A k \in Len(A) + 1 .. Len(A) + Len(P) : R[k] = P[k - Len(A)]
    BY <1>8, Zenon DEF Concatenated
  <2> HIDE DEF R
  <2> QED BY <1>4, <1>7, <2>1
<1> HIDE DEF R
<1>10. Concatenated(R, Q)
  BY <1>7, <1>9, JoinedIs
<1>11. /\ IsSequence(T) /\ Len(T) = 29 /\ T[1] = Val("op") /\ T[3] = Val("time")
       /\ T[9] = Val("node") /\ T[17] = Val("energy") /\ T[19] = Val("level")
  <2>1. /\ IsSequence(T) /\ Len(T) = Len(R) + Len(Q)
        /\ \A k \in 1 .. Len(R) : T[k] = R[k]
    BY <1>10, Zenon DEF Concatenated
  <2> HIDE DEF T
  <2> QED BY <1>7, <1>9, <2>1
<1> HIDE DEF T
<1>12. PICK U : T \in Seq(U)
  BY <1>11 DEF IsSequence
<1>13. T \o <<>> = T
  BY <1>12
<1>14. Stands(T, {<<1, "op">>, <<3, "time">>, <<9, "node">>, <<17, "energy">>, <<19, "level">>})
  BY <1>11 DEF Stands
<1> QED BY <1>5, <1>10, <1>11, <1>13, <1>14 DEF L, Head29

(* The columns the scripts read: performance_analysis.awk those of new     *)
(* traces, pdf.awk of new ones of CBR packets, e2edelay.awk of old ones.   *)
NewColumns ==
  {<<1, "op">>, <<3, "time">>, <<9, "node">>, <<17, "energy">>, <<19, "level">>,
   <<35, "ptype">>, <<37, "size">>, <<41, "uid">>}

(* What the columns of a routed packet's line hold.                        *)
LEMMA RoutedColumns ==
  ASSUME NEW L, Head29(L), NEW kind \in Routed
  PROVE  Stands(L \o Rest("new", kind), NewColumns)
<1> DEFINE N == <<"src.sport", "dst.dport", "ptype", "size", "flow", "uid", "ttl">>
           P == Pairs(N)
           B == Body[kind]["new"]
           R == P \o B
           X == L \o R
<1>1. Rest("new", kind) = R
  <2>1. kind \notin {"MAC", "smac", "ARP"}
    BY DEF Routed, Body
  <2>2. Rest("new", kind) = FormatIp["new"] \o Body[kind]["new"]
    BY <2>1, Zenon DEF Rest
  <2>3. FormatIp["new"] = P
    BY DEF FormatIp
  <2> QED BY <2>2, <2>3
<1>2. IsSequence(N) /\ Len(N) = 7 /\ N[3] = "ptype" /\ N[4] = "size" /\ N[6] = "uid"
  BY WrittenOut
<1>3. IsSequence(B)
  BY BodySequence
<1> HIDE DEF N, B
<1>4. Tagged(N)
  BY <1>2, PairedIs
<1>5. /\ IsSequence(P) /\ Len(P) = 14
      /\ P[6] = Val("ptype") /\ P[8] = Val("size") /\ P[12] = Val("uid")
  BY <1>2, <1>4 DEF Tagged
<1> HIDE DEF P
<1>6. Concatenated(P, B)
  BY <1>3, <1>5, JoinedIs
<1>7. /\ IsSequence(R) /\ Len(R) \in Nat /\ Len(R) >= 14
      /\ R[6] = Val("ptype") /\ R[8] = Val("size") /\ R[12] = Val("uid")
  BY <1>5, <1>6 DEF Concatenated
<1> HIDE DEF R
<1>8. IsSequence(L) /\ Len(L) = 29
  BY DEF Head29
<1>9. Concatenated(L, R)
  BY <1>7, <1>8, JoinedIs
<1>10. /\ \A k \in 1 .. 29 : X[k] = L[k]
       /\ \A k \in 30 .. 43 : X[k] = R[k - 29]
  <2>1. \A k \in 30 .. 43 : k \in Len(L) + 1 .. Len(L) + Len(R) /\ k - Len(L) = k - 29
    BY <1>7, <1>8
  <2>2. \A k \in 30 .. 43 : X[k] = R[k - Len(L)]
    BY <2>1, <1>9, Zenon DEF Concatenated
  <2>3. \A k \in 1 .. 29 : X[k] = L[k]
    BY <1>8, <1>9, Zenon DEF Concatenated
  <2> HIDE DEF X
  <2> QED BY <2>1, <2>2, <2>3, Zenon
<1> HIDE DEF X
<1>11. X[35] = R[6] /\ X[37] = R[8] /\ X[41] = R[12]
  BY <1>10
<1>12. X[1] = Val("op") /\ X[3] = Val("time") /\ X[9] = Val("node") /\ X[17] = Val("energy")
       /\ X[19] = Val("level")
  <2>1. L[1] = Val("op") /\ L[3] = Val("time") /\ L[9] = Val("node") /\ L[17] = Val("energy")
        /\ L[19] = Val("level")
    BY DEF Head29, Stands
  <2> QED BY <2>1, <1>10
<1>13. Stands(X, NewColumns)
  BY <1>7, <1>11, <1>12 DEF Stands, NewColumns
<1> QED BY <1>1, <1>13 DEF X

(* What the columns of a line hold that the awk script reads.              *)
LEMMA Columns ==
  /\ \A kind \in Routed :
       /\ Layout[kind][1] = Val("op") /\ Layout[kind][19] = Val("level")
       /\ Layout[kind][35] = Val("ptype") /\ Layout[kind][37] = Val("size")
       /\ Layout[kind][41] = Val("uid")
  /\ Layout["ARP"][1] = Val("op") /\ Layout["ARP"][19] = Val("level")
  /\ Layout["ARP"][35] = Val("arp_sha") /\ Layout["ARP"][37] = Val("arp_spa")
  /\ Layout["ARP"][41] = Val("arp_tpa")
<1> DEFINE L == FormatMacCommon("new", "802_11", TRUE, "RTR")
<1>0. Head29(L)
  BY HeadColumns, Zenon
<1> HIDE DEF L
<1>1. IsSequence(L) /\ Len(L) = 29 /\ L[1] = Val("op") /\ L[19] = Val("level")
  BY <1>0 DEF Head29, Stands
<1>2. \A kind \in Kinds : Layout[kind] = L \o Rest("new", kind)
  BY Zenon DEF Layout, Format, L
<1>3. ASSUME NEW kind \in Routed
      PROVE  /\ Layout[kind][1] = Val("op") /\ Layout[kind][19] = Val("level")
             /\ Layout[kind][35] = Val("ptype") /\ Layout[kind][37] = Val("size")
             /\ Layout[kind][41] = Val("uid")
  <2>1. Layout[kind] = L \o Rest("new", kind)
    BY <1>2 DEF Kinds
  <2>2. Stands(Layout[kind], NewColumns)
    BY <1>0, <2>1, RoutedColumns
  <2> QED BY <2>2 DEF Stands, NewColumns
<1>4. /\ Layout["ARP"][1] = Val("op") /\ Layout["ARP"][19] = Val("level")
      /\ Layout["ARP"][35] = Val("arp_sha") /\ Layout["ARP"][37] = Val("arp_spa")
      /\ Layout["ARP"][41] = Val("arp_tpa")
  <2> DEFINE A == <<"ARP">>
             F == ArpFields
             N == A \o F
             P == Pairs(N)
  <2>1. Rest("new", "ARP") = P
    <3>1. Rest("new", "ARP") = FormatArp["new"]
      BY Zenon DEF Rest
    <3>2. FormatArp["new"] = P
      BY DEF FormatArp
    <3> QED BY <3>1, <3>2
  <2>2. IsSequence(A) /\ Len(A) = 1
    BY WrittenOut
  <2>3. /\ IsSequence(F) /\ Len(F) = 5
        /\ F[2] = "arp_sha" /\ F[3] = "arp_spa" /\ F[5] = "arp_tpa"
    BY WrittenOut DEF ArpFields
  <2>4. Layout["ARP"] = L \o P
    BY <1>2, <2>1 DEF Kinds
  <2> HIDE DEF A, F
  <2>5. Concatenated(A, F)
    BY <2>2, <2>3, JoinedIs
  <2>6. /\ IsSequence(N) /\ Len(N) = 6
        /\ N[3] = "arp_sha" /\ N[4] = "arp_spa" /\ N[6] = "arp_tpa"
    BY <2>2, <2>3, <2>5 DEF Concatenated
  <2> HIDE DEF N
  <2>7. Tagged(N)
    BY <2>6, PairedIs
  <2>8. /\ IsSequence(P) /\ Len(P) = 12
        /\ P[6] = Val("arp_sha") /\ P[8] = Val("arp_spa") /\ P[12] = Val("arp_tpa")
    BY <2>6, <2>7 DEF Tagged
  <2> HIDE DEF P
  <2>9. Concatenated(L, P)
    BY <1>1, <2>8, JoinedIs
  <2> DEFINE X == L \o P
  <2>10. /\ \A k \in 1 .. 29 : X[k] = L[k]
         /\ \A k \in 30 .. 41 : X[k] = P[k - 29]
    <3>1. \A k \in 30 .. 41 : k \in Len(L) + 1 .. Len(L) + Len(P) /\ k - Len(L) = k - 29
      BY <1>1, <2>8
    <3>2. \A k \in 30 .. 41 : X[k] = P[k - Len(L)]
      BY <3>1, <2>9, Zenon DEF Concatenated
    <3>3. \A k \in 1 .. 29 : X[k] = L[k]
      BY <1>1, <2>9, Zenon DEF Concatenated
    <3> HIDE DEF X
    <3> QED BY <3>1, <3>2, <3>3, Zenon
  <2>11. X[35] = P[6] /\ X[37] = P[8] /\ X[41] = P[12] /\ X[1] = L[1] /\ X[19] = L[19]
    <3> HIDE DEF X
    <3> QED BY <2>10
  <2> QED BY <1>1, <2>4, <2>8, <2>11
<1> QED BY <1>3, <1>4

-----------------------------------------------------------------------------
(* The columns of old lines, and of the other lines scripts read.          *)
OldColumns == {<<2, "time">>, <<4, "level">>, <<6, "uid">>, <<7, "ptype">>}
Misplaced ==
  {kind \in Kinds :
     \E model \in BOOLEAN, mac \in {"802_11", "SMAC"} :
       LET new == Format("new", "802_11", model, "AGT", kind)
           old == Format("old", mac, model, "AGT", kind)
       IN  \/ kind \in Routed /\ ~ Stands(new, NewColumns)
           \/ kind = "cbr" /\ new[47] # Val("seqno")
           \/ ~ Stands(old, OldColumns)}

LEMMA MdartFieldsIs ==
  ASSUME NEW kind \in {"HELLO", "DARQ", "DARP", "DAUP", "DABR"}
  PROVE  IsSequence(MdartFields[kind])
<1>1. IsSequence(<<"dAdd", "sAdd", "sId">>)
  BY WrittenOut
<1>2. IsSequence(<<"dAdd", "sAdd", "dId", "sId", "fAdd", "fId", "rId", "pId">>)
  BY WrittenOut
<1>3. IsSequence(<<"dAdd", "sAdd", "dId", "sId", "fAdd", "fId", "rAdd", "rId", "pId">>)
  BY WrittenOut
<1>4. IsSequence(<<"dAdd", "sAdd", "dId", "sId", "fAdd", "fId", "pId">>)
  BY WrittenOut
<1> QED BY <1>1, <1>2, <1>3, <1>4 DEF MdartFields

LEMMA OldBodies == \A kind \in Routed : IsSequence(Body[kind]["old"])
<1>1. IsSequence(FormatDsr["old"])
  <2>1. IsSequence(DsrFields)
    BY WrittenOut DEF DsrFields
  <2> QED BY <2>1, Valued DEF FormatDsr
<1>2. IsSequence(FormatMsg["old"])
  <2>1. FormatMsg["old"] = <<>>
    BY DEF FormatMsg, Modes
  <2> QED BY <2>1, WrittenOut
<1>3. IsSequence(FormatTcp["old"]) /\ IsSequence(FormatRtp["old"])
  <2>1. IsSequence(<<"seqno", "ackno">>) /\ IsSequence(<<"seqno">>) /\ IsSequence(Forwards)
    BY WrittenOut DEF Forwards
  <2>2. IsSequence(<<"seqno", "ackno">> \o Forwards) /\ IsSequence(<<"seqno">> \o Forwards)
    BY <2>1, Joined
  <2> QED BY <2>2, Valued DEF FormatTcp, FormatRtp
<1>4. IsSequence(FormatSctp(0)["old"]) /\ IsSequence(FormatSctp(2)["old"])
  <2>1. /\ IsSequence(Forwards)
        /\ IsSequence(<<"num_chunks", "type", "tsn", "stream_id", "stream_seq">>)
    BY WrittenOut DEF Forwards
  <2>2. IsSequence(ChunkFields)
    BY <2>1, Joined DEF ChunkFields
  <2>3. IsSequence(Chunk["old"])
    BY <2>2, Valued DEF Chunk
  <2>4. FormatSctp(0)["old"] = <<>> /\ FormatSctp(2)["old"] = Chunk["old"]
    BY DEF FormatSctp, Modes
  <2> QED BY <2>3, <2>4, WrittenOut
<1>5. IsSequence(FormatImep["old"])
  <2>1. IsSequence(ImepFields)
    BY WrittenOut DEF ImepFields
  <2> QED BY <2>1, Valued DEF FormatImep
<1>6. ASSUME NEW kind \in {"QRY", "UPD", "CLR"} PROVE IsSequence(FormatTora(kind)["old"])
  <2>1. IsSequence(<<"kind">>) /\ IsSequence(ToraFields[kind])
    BY WrittenOut, ToraFieldsIs
  <2>2. IsSequence(ToraFields[kind] \o <<"kind">>)
    BY <2>1, Joined
  <2>3. /\ IsSequence(Pairs(ToraFields[kind] \o <<"kind">>))
        /\ IsSequence(Vals(ToraFields[kind] \o <<"kind">>))
    BY <2>2, Paired, Valued
  <2> QED BY <2>3 DEF FormatTora
<1>7. ASSUME NEW kind PROVE /\ IsSequence(FormatAodv(kind)["old"])
                            /\ IsSequence(FormatAomdv(kind)["old"])
  <2> DEFINE F == IF kind = "REQUEST" THEN RequestFields ELSE ReplyFields
             G == IF kind = "REQUEST" THEN F ELSE F \o <<"bcast_id", "first_hop">>
  <2>1. IsSequence(F) /\ IsSequence(<<"bcast_id", "first_hop">>)
    BY WrittenOut DEF RequestFields, ReplyFields
  <2>2. FormatAodv(kind)["old"] = Vals(F) /\ FormatAomdv(kind)["old"] = Vals(G)
    BY DEF FormatAodv, FormatAomdv
  <2> HIDE DEF F
  <2>3. IsSequence(G)
    BY <2>1, Joined
  <2> HIDE DEF G
  <2> QED BY <2>1, <2>2, <2>3, Valued
<1>8. ASSUME NEW kind \in {"HELLO", "DARQ", "DARP", "DAUP", "DABR"}
      PROVE  IsSequence(FormatMdart(kind)["old"])
  <2> DEFINE E == IF kind = "HELLO" THEN <<>> ELSE <<"kind">>
  <2>1. IsSequence(<<"t">>) /\ IsSequence(MdartFields[kind]) /\ IsSequence(E)
    BY WrittenOut, MdartFieldsIs
  <2>2. FormatMdart(kind)["old"] = Vals(<<"t">> \o MdartFields[kind] \o E)
    BY DEF FormatMdart
  <2> HIDE DEF E
  <2>3. IsSequence(<<"t">> \o MdartFields[kind] \o E)
    BY <2>1, Joined
  <2> QED BY <2>2, <2>3, Valued
<1> QED BY <1>1, <1>2, <1>3, <1>4, <1>5, <1>6, <1>7, <1>8 DEF Body, Routed

LEMMA OldRests == \A kind \in Kinds : IsSequence(Rest("old", kind))
<1>1. ASSUME NEW kind \in Routed PROVE IsSequence(Rest("old", kind))
  <2>1. kind \notin {"MAC", "smac", "ARP"}
    BY DEF Routed, Body
  <2>2. Rest("old", kind) = FormatIp["old"] \o Body[kind]["old"]
    BY <2>1, Zenon DEF Rest
  <2>3. /\ IsSequence(<<Tag("-------")>>)
        /\ IsSequence(<<"src:sport", "dst:dport", "ttl", "next_hop">>)
    BY WrittenOut
  <2>4. FormatIp["old"] = <<Tag("-------")>> \o Vals(<<"src:sport", "dst:dport", "ttl", "next_hop">>)
    BY DEF FormatIp
  <2>5. IsSequence(FormatIp["old"])
    BY <2>3, <2>4, Joined, Valued
  <2>6. IsSequence(Body[kind]["old"])
    BY OldBodies
  <2>7. IsSequence(FormatIp["old"] \o Body[kind]["old"])
    BY <2>5, <2>6, Joined, Zenon
  <2> QED BY <2>2, <2>7, Zenon
<1>2. IsSequence(Rest("old", "ARP"))
  <2>1. Rest("old", "ARP") = FormatArp["old"]
    BY Zenon DEF Rest
  <2>2. /\ IsSequence(<<Tag("-------")>>)
        /\ IsSequence(<<"arp_op", "arp_sha/spa", "arp_tha/tpa">>)
    BY WrittenOut
  <2>3. FormatArp["old"] = <<Tag("-------")>> \o Vals(<<"arp_op", "arp_sha/spa", "arp_tha/tpa">>)
    BY DEF FormatArp
  <2>4. IsSequence(FormatArp["old"])
    BY <2>2, <2>3, Joined, Valued
  <2> QED BY <2>1, <2>4, Zenon
<1>3. Rest("old", "MAC") = <<>> /\ Rest("old", "smac") = <<>>
  BY Zenon DEF Rest
<1> QED BY <1>1, <1>2, <1>3, WrittenOut DEF Kinds

(* An old line, and what more may be written behind it.                    *)
OldLine(s) == IsSequence(s) /\ Len(s) >= 8 /\ Stands(s, OldColumns)

LEMMA OldGrows ==
  ASSUME NEW s, NEW t, OldLine(s), IsSequence(t)
  PROVE  OldLine(s \o t)
<1>1. Concatenated(s, t) /\ IsSequence(s) /\ Len(s) >= 8
  BY JoinedIs DEF OldLine
<1>2. \A k \in 1 .. 8 : (s \o t)[k] = s[k]
  BY <1>1 DEF Concatenated
<1>3. IsSequence(s \o t) /\ Len(s \o t) >= 8
  BY <1>1 DEF Concatenated
<1>4. Stands(s \o t, OldColumns)
  BY <1>2 DEF OldLine, Stands, OldColumns
<1> QED BY <1>3, <1>4 DEF OldLine

LEMMA OldLines ==
  ASSUME NEW mac, NEW model, NEW kind \in Kinds
  PROVE  OldLine(Format("old", mac, model, "AGT", kind))
<1> DEFINE H == TraceHead["old"]
           X == IF mac = "SMAC" THEN SmacTokens ELSE MacTokens["old"]
           Y == IF model THEN EnergyTokens["old"] ELSE <<>>
<1>1. Format("old", mac, model, "AGT", kind) = H \o X \o Y \o Rest("old", kind)
  <2>1. "AGT" # "PHY"
    OBVIOUS
  <2> QED BY <2>1, Zenon DEF Format, FormatMacCommon
<1>2. OldLine(H)
  <2> DEFINE N == <<"op", "time", "node", "level", "why", "uid", "ptype", "size">>
  <2>1. IsSequence(N) /\ Len(N) = 8
        /\ N[2] = "time" /\ N[4] = "level" /\ N[6] = "uid" /\ N[7] = "ptype"
    BY WrittenOut
  <2>2. H = Vals(N)
    BY DEF TraceHead
  <2> HIDE DEF N
  <2>3. IsSequence(H) /\ Len(H) = 8
        /\ H[2] = Val("time") /\ H[4] = Val("level") /\ H[6] = Val("uid") /\ H[7] = Val("ptype")
    BY <2>1, <2>2, Valued
  <2> HIDE DEF H
  <2>4. Stands(H, OldColumns)
    BY <2>3 DEF Stands, OldColumns
  <2> QED BY <2>3, <2>4 DEF OldLine
<1>3. IsSequence(X)
  <2>1. IsSequence(<<"duration", "dst", "src">>) /\ IsSequence(<<"dur", "ra", "ta", "ether">>)
    BY WrittenOut
  <2>2. MacTokens["old"] = Vals(<<"dur", "ra", "ta", "ether">>)
    BY DEF MacTokens
  <2>3. IsSequence(SmacTokens) /\ IsSequence(MacTokens["old"])
    BY <2>1, <2>2, Valued DEF SmacTokens
  <2> QED BY <2>3
<1>4. IsSequence(Y)
  <2>1. IsSequence(<<"energy", "ei", "es", "et", "er">>) /\ IsSequence(<<>>)
    BY WrittenOut
  <2>2. EnergyTokens["old"] = Pairs(<<"energy", "ei", "es", "et", "er">>)
    BY DEF EnergyTokens
  <2>3. IsSequence(EnergyTokens["old"])
    BY <2>1, <2>2, Paired
  <2> QED BY <2>1, <2>3
<1> HIDE DEF H, X, Y
<1>5. OldLine(H \o X \o Y)
  BY <1>2, <1>3, <1>4, OldGrows
<1>6. IsSequence(Rest("old", kind))
  BY OldRests
<1> QED BY <1>1, <1>5, <1>6, OldGrows

(* The sequence number of a CBR packet follows the IP header and its tag.  *)
LEMMA CbrColumn ==
  ASSUME NEW L, Head29(L)
  PROVE  (L \o Rest("new", "cbr"))[47] = Val("seqno")
<1> DEFINE N == <<"src.sport", "dst.dport", "ptype", "size", "flow", "uid", "ttl">>
           C == <<"cbr", "seqno">>
           P == Pairs(N)
           F == C \o Forwards
           B == Pairs(F)
           R == P \o B
           X == L \o R
<1>1. Rest("new", "cbr") = R
  <2>1. Rest("new", "cbr") = FormatIp["new"] \o Body["cbr"]["new"]
    BY Zenon DEF Rest
  <2>2. FormatIp["new"] = P
    BY DEF FormatIp
  <2>3. Body["cbr"] = FormatRtp
    BY DEF Body
  <2>4. FormatRtp["new"] = B
    BY DEF FormatRtp
  <2> QED BY <2>1, <2>2, <2>3, <2>4
<1>2. /\ IsSequence(N) /\ Len(N) = 7 /\ IsSequence(C) /\ Len(C) = 2 /\ C[2] = "seqno"
      /\ IsSequence(Forwards) /\ Len(Forwards) = 2
  BY WrittenOut DEF Forwards
<1> HIDE DEF N, C
<1>3. Concatenated(C, Forwards)
  BY <1>2, JoinedIs
<1>4. IsSequence(F) /\ Len(F) = 4 /\ F[2] = "seqno"
  BY <1>2, <1>3 DEF Concatenated
<1> HIDE DEF F
<1>5. Tagged(N) /\ Tagged(F)
  BY <1>2, <1>4, PairedIs
<1>6. IsSequence(P) /\ Len(P) = 14
  BY <1>2, <1>5 DEF Tagged
<1>7. IsSequence(B) /\ Len(B) = 8 /\ B[4] = Val("seqno")
  BY <1>4, <1>5 DEF Tagged
<1> HIDE DEF P, B
<1>8. Concatenated(P, B)
  BY <1>6, <1>7, JoinedIs
<1>9. IsSequence(R) /\ Len(R) = 22 /\ R[18] = Val("seqno")
  BY <1>6, <1>7, <1>8 DEF Concatenated
<1> HIDE DEF R
<1>10. IsSequence(L) /\ Len(L) = 29
  BY DEF Head29
<1>11. Concatenated(L, R)
  BY <1>9, <1>10, JoinedIs
<1>12. X[47] = R[47 - 29]
  <2>1. \A k \in Len(L) + 1 .. Len(L) + Len(R) : X[k] = R[k - Len(L)]
    BY <1>11, Zenon DEF Concatenated
  <2> HIDE DEF X
  <2> QED BY <1>9, <1>10, <2>1
<1> HIDE DEF X
<1>13. X[47] = Val("seqno")
  BY <1>9, <1>12
<1> QED BY <1>1, <1>13 DEF X

(* In every line of a node, whatever its packet, the MAC and the model of  *)
(* energy, the columns are those the scripts take them for (cmu-trace.cc   *)
(* 162-474, 1398-1472).                                                    *)
LEMMA NoneMisplaced == Misplaced = {}
<1> SUFFICES ASSUME NEW kind \in Kinds PROVE kind \notin Misplaced
  BY DEF Misplaced
<1> DEFINE New(model) == Format("new", "802_11", model, "AGT", kind)
           Old(model, mac) == Format("old", mac, model, "AGT", kind)
           Lead(model) == FormatMacCommon("new", "802_11", model, "AGT")
           R == Rest("new", kind)
<1>1. ASSUME NEW model PROVE New(model) = Lead(model) \o R /\ Head29(Lead(model))
  BY HeadColumns, Zenon DEF Format
<1>2. ASSUME NEW model, kind \in Routed PROVE Stands(New(model), NewColumns)
  BY <1>1, <1>2, RoutedColumns, Zenon
<1>3. ASSUME NEW model, kind = "cbr" PROVE New(model)[47] = Val("seqno")
  BY <1>1, <1>3, CbrColumn, Zenon
<1>4. ASSUME NEW model, NEW mac PROVE Stands(Old(model, mac), OldColumns)
  BY OldLines, Zenon DEF OldLine
<1> QED BY <1>2, <1>3, <1>4, Zenon DEF Misplaced

-----------------------------------------------------------------------------
(* What a line shows, and what the script and nam make of it.              *)
Marks == {"s", "r", "D"}

LEMMA Marked ==
  ASSUME NEW level \in {"AGT", "RTR", "IFQ"}, NEW op \in Marks, NEW elsewhere
  PROVE  LET o == Op(level, op, elsewhere, "new") IN
         /\ o = "s" => op = "s" /\ (level = "AGT" => op = "s")
         /\ o = "r" <=> op = "r"
         /\ level = "AGT" /\ op = "s" => o = "s"
<1> DEFINE T == [s |-> "s", r |-> "r", f |-> "f", D |-> "d", x |-> "x"]
           e == IF level \in {"RTR", "TRP"} /\ op = "s" /\ elsewhere THEN "f" ELSE op
<1>1. Op(level, op, elsewhere, "new") = T[e]
  BY Zenon DEF Op
<1>2. T["s"] = "s" /\ T["r"] = "r" /\ T["f"] = "f" /\ T["D"] = "d"
  OBVIOUS
<1>3. /\ e \in {"s", "r", "f", "D"} /\ (e = "s" => op = "s") /\ (e = "r" <=> op = "r")
      /\ (level = "AGT" => e = op)
  BY DEF Marks
<1> HIDE DEF T, e
<1> QED BY <1>1, <1>2, <1>3

LEMMA LineRouted ==
  ASSUME NEW n, NEW level, NEW op, NEW h, h.ptype \in Routed
  PROVE  LET line == Line(n, level, op, h) IN
         /\ line[1] = Op(level, op, h.saddr # n, "new") /\ line[19] = level
         /\ line[35] = h.ptype /\ line[37] = h.size /\ line[41] = h.uid
<1> DEFINE L == Layout[h.ptype]
<1>1. /\ L[1][2] = "op" /\ L[19][2] = "level" /\ L[35][2] = "ptype"
      /\ L[37][2] = "size" /\ L[41][2] = "uid"
  BY Columns DEF Val
<1> HIDE DEF L
<1>2. \A k \in {1, 19, 35, 37, 41} : Line(n, level, op, h)[k] = Shows(L[k][2], n, level, op, h)
  BY DEF Line, L
<1>3. /\ Shows("op", n, level, op, h) = Op(level, op, h.saddr # n, "new")
      /\ Shows("level", n, level, op, h) = level
      /\ Shows("ptype", n, level, op, h) = h.ptype /\ Shows("size", n, level, op, h) = h.size
      /\ Shows("uid", n, level, op, h) = h.uid
  BY Zenon DEF Shows, ShowsIp, ShowsArp
<1> QED BY <1>1, <1>2, <1>3

LEMMA LineArp ==
  ASSUME NEW n, NEW level, NEW op, NEW h, h.ptype = "ARP"
  PROVE  LET line == Line(n, level, op, h) IN
         /\ line[1] = Op(level, op, h.saddr # n, "new") /\ line[19] = level
         /\ line[35] = "arp_sha" /\ line[41] = h.next_hop
<1> DEFINE L == Layout[h.ptype]
<1>1. /\ L[1][2] = "op" /\ L[19][2] = "level" /\ L[35][2] = "arp_sha" /\ L[41][2] = "arp_tpa"
  BY Columns DEF Val
<1> HIDE DEF L
<1>2. \A k \in {1, 19, 35, 37, 41} : Line(n, level, op, h)[k] = Shows(L[k][2], n, level, op, h)
  BY DEF Line, L
<1>3. /\ Shows("op", n, level, op, h) = Op(level, op, h.saddr # n, "new")
      /\ Shows("level", n, level, op, h) = level
      /\ Shows("arp_sha", n, level, op, h) = "arp_sha"
      /\ Shows("arp_tpa", n, level, op, h) = h.next_hop
  BY Zenon DEF Shows, ShowsIp, ShowsArp
<1> QED BY <1>1, <1>2, <1>3

(* Of a line the script makes a send of an agent, a reception by one, or   *)
(* the loss of the packet whose number stands in column 41.                *)
LEMMA CountedAs ==
  ASSUME NEW a \in Scripts, NEW line, line[41] \in PacketIds,
         RecvByAgent(line) => line[37] \in Nat
  PROVE  LET b == Counted(a, line) IN
         /\ b \in Scripts
         /\ b.udp_send = IF SentByAgent(line) THEN a.udp_send + 1 ELSE a.udp_send
         /\ b.udp_recv = IF RecvByAgent(line) THEN a.udp_recv + 1 ELSE a.udp_recv
         /\ b.packet_size = IF RecvByAgent(line) THEN a.packet_size + line[37] ELSE a.packet_size
         /\ b.start_time = [a.start_time EXCEPT ![line[41]] = IF SentByAgent(line) THEN "sent" ELSE @]
         /\ Delayed(b) = IF RecvByAgent(line) THEN Delayed(a) \cup {line[41]}
                                              ELSE Delayed(a) \ {line[41]}
<1> DEFINE u == line[41]
           s == SentByAgent(line)
           r == RecvByAgent(line)
           st == [a.start_time EXCEPT ![u] = IF s THEN "sent" ELSE @]
           et == [a.end_time EXCEPT ![u] = IF r THEN "received" ELSE "lost"]
           us == IF s THEN a.udp_send + 1 ELSE a.udp_send
           ur == IF r THEN a.udp_recv + 1 ELSE a.udp_recv
           ps == IF r THEN a.packet_size + line[37] ELSE a.packet_size
           sd == a.started \/ s
           b == [a EXCEPT !.udp_send = us, !.udp_recv = ur, !.packet_size = ps,
                          !.started = sd, !.start_time = st, !.end_time = et]
<1>1. Counted(a, line) = b
  BY DEF Counted, EndTime
<1>2. s \in BOOLEAN /\ r \in BOOLEAN
  BY DEF SentByAgent, RecvByAgent
<1> HIDE DEF u, s, r
<1>3. u \in PacketIds /\ (r => line[37] \in Nat)
  BY DEF u, r
<1>4. st \in [PacketIds -> {"unset", "sent"}] /\ et \in [PacketIds -> {"unset", "lost", "received"}]
  BY <1>3 DEF Scripts
<1>5. \A v \in PacketIds : et[v] = IF v = u THEN (IF r THEN "received" ELSE "lost") ELSE a.end_time[v]
  BY <1>3 DEF Scripts
<1>8. us \in Nat /\ ur \in Nat /\ ps \in Nat
  BY <1>3 DEF Scripts
<1>9. sd \in BOOLEAN
  BY <1>2, Zenon DEF Scripts
<1> HIDE DEF st, et, us, ur, ps, sd
<1>6. /\ b \in Scripts /\ b.udp_send = us /\ b.udp_recv = ur /\ b.packet_size = ps
      /\ b.start_time = st /\ b.end_time = et
  BY <1>4, <1>8, <1>9 DEF Scripts
<1> HIDE DEF b
<1>7. Delayed(b) = IF r THEN Delayed(a) \cup {u} ELSE Delayed(a) \ {u}
  BY <1>3, <1>5, <1>6 DEF Delayed
<1> QED BY <1>1, <1>6, <1>7, Zenon DEF st, us, ur, ps, u, s, r

LEMMA OtherTypes == \A type \in Others : /\ type \in Routed \cup {"ARP"} /\ type # "cbr"
                                         /\ (type # "ARP" => type \in Routed)
BY DataPathAssumption DEF Others, DataPackets

LEMMA OtherPackets == \A type \in Others \cup {"ARP"} : type \notin DataPackets
BY DataPathAssumption DEF Others, DataPackets

LEMMA RoutedCbr == "cbr" \in Routed /\ "ARP" \notin Routed
BY DEF Routed, Body

(* A line of the router or of the queue marks its packet as lost, which is *)
(* true of the packets whose line is still to be written.                  *)
Clashed(c, h, line) == IF h.ptype = "ARP" THEN c \cup ({line[41]} \cap Uids) ELSE c

LEMMA LineSummed ==
  ASSUME NEW a \in Scripts, NEW S, S \subseteq Uids, NEW G, G \subseteq S,
         NEW c, c \subseteq Uids, Summed(a, S, G, c), NEW h, Logged(h, S, G),
         NEW n, NEW level \in {"RTR", "IFQ"}, NEW op \in Marks
  PROVE  LET line == Line(n, level, op, h) IN
         /\ Counted(a, line) \in Scripts /\ Clashed(c, h, line) \subseteq Uids
         /\ Summed(Counted(a, line), S, G, Clashed(c, h, line))
<1> DEFINE line == Line(n, level, op, h)
           u == line[41]
           d == Clashed(c, h, line)
<1>1. ~ SentByAgent(line) /\ ~ RecvByAgent(line)
  <2>1. line[19] = level
    <3>1. CASE h.ptype = "ARP"
      BY <3>1, LineArp
    <3>2. CASE h.ptype # "ARP"
      BY <3>2, LineRouted, OtherTypes, RoutedCbr DEF Logged
    <3> QED BY <3>1, <3>2
  <2> HIDE DEF line
  <2> QED BY <2>1 DEF SentByAgent, RecvByAgent
<1>2. u \in PacketIds /\ (u \in G => u \in d) /\ c \subseteq d /\ d \subseteq Uids
  <2>1. CASE h.ptype = "ARP"
    <3>1. u = h.next_hop
      BY <2>1, LineArp
    <3>2. h.next_hop \in Nodes
      BY <2>1, OtherTypes DEF Logged
    <3> HIDE DEF line
    <3> QED BY <2>1, <3>1, <3>2, DataPathAssumption DEF Clashed
  <2>2. CASE h.ptype # "ARP"
    <3>1. u = h.uid
      BY <2>2, LineRouted, OtherTypes, RoutedCbr DEF Logged
    <3>2. h.uid \in PacketIds /\ h.uid \notin G
      BY <2>2, DataPathAssumption DEF Logged
    <3> HIDE DEF line
    <3> QED BY <2>2, <3>1, <3>2 DEF Clashed
  <2> QED BY <2>1, <2>2
<1> HIDE DEF line, d
<1> DEFINE b == Counted(a, line)
<1>3. /\ b \in Scripts /\ b.udp_send = a.udp_send /\ b.udp_recv = a.udp_recv
      /\ b.packet_size = a.packet_size /\ b.start_time = [a.start_time EXCEPT ![u] = @]
      /\ Delayed(b) = Delayed(a) \ {u}
  BY <1>1, <1>2, CountedAs
<1> HIDE DEF b
<1>4. b.start_time = a.start_time
  BY <1>2, <1>3 DEF Scripts
<1>5. Summed(b, S, G, d)
  BY <1>2, <1>3, <1>4 DEF Summed
<1> QED BY <1>2, <1>3, <1>5 DEF line, d, b

(* The line of an agent that sends counts the packet as sent.              *)
LEMMA SentSummed ==
  ASSUME NEW a \in Scripts, NEW S, S \subseteq Uids, IsFiniteSet(S), NEW G, G \subseteq S,
         NEW c, Summed(a, S, G, c),
         NEW h, h.ptype = "cbr", NEW u \in Uids \ S, h.uid = u, NEW n
  PROVE  LET b == Counted(a, Line(n, "AGT", "s", h)) IN b \in Scripts /\ Summed(b, S \cup {u}, G, c)
<1> DEFINE line == Line(n, "AGT", "s", h)
           b == Counted(a, line)
<1>1. SentByAgent(line) /\ ~ RecvByAgent(line) /\ line[41] = u
  <2>1. /\ line[1] = Op("AGT", "s", h.saddr # n, "new") /\ line[19] = "AGT"
        /\ line[35] = "cbr" /\ line[41] = u
    BY LineRouted, RoutedCbr
  <2>2. Op("AGT", "s", h.saddr # n, "new") = "s"
    BY Marked DEF Marks
  <2> HIDE DEF line
  <2> QED BY <2>1, <2>2 DEF SentByAgent, RecvByAgent
<1> HIDE DEF line
<1>2. u \in PacketIds
  BY DataPathAssumption
<1>3. /\ b \in Scripts /\ b.udp_send = a.udp_send + 1 /\ b.udp_recv = a.udp_recv
      /\ b.packet_size = a.packet_size /\ b.start_time = [a.start_time EXCEPT ![u] = "sent"]
      /\ Delayed(b) = Delayed(a) \ {u}
  BY <1>1, <1>2, CountedAs
<1> HIDE DEF b
<1>4. \A v \in S \cup {u} : b.start_time[v] = "sent"
  BY <1>2, <1>3, DataPathAssumption DEF Scripts, Summed
<1>5. Cardinality(S \cup {u}) = Cardinality(S) + 1
  BY FS_AddElement
<1>6. Delayed(b) \subseteq G /\ G \subseteq Delayed(b) \cup c
  BY <1>3 DEF Summed
<1> QED BY <1>3, <1>4, <1>5, <1>6 DEF Summed, b, line

(* That of an agent that receives counts it as received, header and all.   *)
LEMMA ReceivedSummed ==
  ASSUME NEW a \in Scripts, NEW S, S \subseteq Uids, IsFiniteSet(S), NEW G, G \subseteq S,
         NEW c, Summed(a, S, G, c),
         NEW h, h.ptype = "cbr", h.uid \in S \ G, h.size = Size + IpHdrLen, NEW n
  PROVE  LET b == Counted(a, Line(n, "AGT", "r", h)) IN
         b \in Scripts /\ Summed(b, S, G \cup {h.uid}, c)
<1> DEFINE line == Line(n, "AGT", "r", h)
           b == Counted(a, line)
           u == h.uid
           z == Size + IpHdrLen
<1>1. ~ SentByAgent(line) /\ RecvByAgent(line) /\ line[41] = u /\ line[37] = z
  <2>1. /\ line[1] = Op("AGT", "r", h.saddr # n, "new") /\ line[19] = "AGT"
        /\ line[35] = "cbr" /\ line[41] = u /\ line[37] = z
    BY LineRouted, RoutedCbr
  <2>2. Op("AGT", "r", h.saddr # n, "new") = "r"
    BY Marked DEF Marks
  <2> HIDE DEF line
  <2> QED BY <2>1, <2>2 DEF SentByAgent, RecvByAgent
<1> HIDE DEF line
<1>2. u \in PacketIds /\ z \in Nat
  <2>1. u \in Uids /\ Uids \subseteq PacketIds
    BY DataPathAssumption
  <2>2. z \in Nat
    BY DataPathAssumption
  <2> QED BY <2>1, <2>2
<1>3. /\ b \in Scripts /\ b.udp_send = a.udp_send /\ b.udp_recv = a.udp_recv + 1
      /\ b.packet_size = a.packet_size + z /\ b.start_time = [a.start_time EXCEPT ![u] = @]
      /\ Delayed(b) = Delayed(a) \cup {u}
  BY <1>1, <1>2, CountedAs
<1> HIDE DEF b, z
<1>4. b.start_time = a.start_time
  BY <1>2, <1>3 DEF Scripts
<1>5. Cardinality(G \cup {u}) = Cardinality(G) + 1 /\ Cardinality(G) \in Nat
  BY FS_AddElement, FS_Subset, FS_CardinalityType
<1>6. Delayed(b) \subseteq G \cup {u} /\ G \cup {u} \subseteq Delayed(b) \cup c
  BY <1>3 DEF Summed
<1>7. Cardinality(G) * z + z = (Cardinality(G) + 1) * z
  <2> DEFINE k == Cardinality(G)
  <2>1. k \in Nat
    BY <1>5
  <2> HIDE DEF k
  <2>2. k * z + z = (k + 1) * z
    BY <1>2, <2>1
  <2> QED BY <2>2 DEF k
<1>8. b.packet_size = Cardinality(G \cup {u}) * z
  BY <1>3, <1>5, <1>7 DEF Summed, z
<1> QED BY <1>3, <1>4, <1>5, <1>6, <1>8 DEF Summed, b, line, z

(* nam's colour follows the node's level, which never rises.               *)
LEMMA Painting ==
  ASSUME NEW c \in [Nodes -> [Tracers -> 0 .. 3]], NEW s \in [Nodes -> 0 .. 3], Painted(c, s),
         NEW n \in Nodes, NEW t \in Tracers, energy \in [Nodes -> 0 .. 100], Alive(n),
         NEW stays \in BOOLEAN
  PROVE  LET d == [c EXCEPT ![n][t] = IF stays THEN @ ELSE Level(n)]
             r == [s EXCEPT ![n] = IF stays THEN @ ELSE Level(n)] IN
         d \in [Nodes -> [Tracers -> 0 .. 3]] /\ r \in [Nodes -> 0 .. 3] /\ Painted(d, r)
<1> DEFINE now == Level(n)
           d == [c EXCEPT ![n][t] = IF stays THEN @ ELSE now]
           r == [s EXCEPT ![n] = IF stays THEN @ ELSE now]
<1>1. now \in 1 .. 3
  BY DEF Level, EnergyLevel, Alive, NodeEnergy
<1>2. CASE stays
  <2>1. d = c /\ r = s
    BY <1>2
  <2> HIDE DEF d, r
  <2>2. d \in [Nodes -> [Tracers -> 0 .. 3]] /\ r \in [Nodes -> 0 .. 3] /\ Painted(d, r)
    BY <2>1
  <2> QED BY Zenon, <2>2 DEF d, r, now
<1>3. CASE ~ stays
  <2> HIDE DEF now
  <2>1. /\ d = [c EXCEPT ![n] = [c[n] EXCEPT ![t] = now]] /\ r = [s EXCEPT ![n] = now]
    BY <1>3
  <2> DEFINE e == [c[n] EXCEPT ![t] = now]
  <2>2. e \in [Tracers -> 0 .. 3] /\ e[t] = now /\ \A x \in Tracers : x # t => e[x] = c[n][x]
    BY <1>1
  <2> HIDE DEF e
  <2>3. /\ d \in [Nodes -> [Tracers -> 0 .. 3]] /\ r \in [Nodes -> 0 .. 3]
        /\ d[n] = e /\ r[n] = now /\ \A m \in Nodes : m # n => d[m] = c[m] /\ r[m] = s[m]
    BY <1>1, <2>1, <2>2 DEF e
  <2> HIDE DEF d, r
  <2>4. \A m \in Nodes : m # n =>
          /\ r[m] # 0
          /\ \A x \in Tracers : r[m] <= d[m][x] /\ Level(m) <= d[m][x]
          /\ \E x \in Tracers : r[m] = d[m][x]
    BY <2>3 DEF Painted
  <2>5. /\ r[n] # 0 /\ \A x \in Tracers : r[n] <= d[n][x] /\ now <= d[n][x]
        /\ r[n] = d[n][t]
    BY <1>1, <2>2, <2>3 DEF Painted, now
  <2>6. Painted(d, r)
    BY <2>4, <2>5 DEF Painted, now
  <2> QED BY <2>3, <2>6 DEF d, r, now
<1> QED BY <1>2, <1>3

-----------------------------------------------------------------------------
(* The handlers.                                                           *)
Same(w, v) ==
  /\ v.mem = w.mem /\ v.rqueue = w.rqueue /\ v.later = w.later /\ v.ifc = w.ifc /\ v.air = w.air
  /\ v.got = w.got /\ v.blamed = w.blamed

LEMMA SameContents ==
  ASSUME NEW w, NEW v, Same(w, v)
  PROVE  Contents(v) = Contents(w) /\ (Ordered(w) => Ordered(v))
BY DEF Same, Contents, Ordered

LEMMA PrintedFields ==
  ASSUME NEW w \in Worlds, NEW n, NEW level, NEW op, NEW p,
         <<level, op>> \in Tracers, n \in Nodes, Alive(n), energy \in [Nodes -> 0 .. 100],
         Painted(w.color, w.screen),
         Counted(w.awk, Line(n, level, op, w.mem.hdr[p])) \in Scripts,
         Clashed(w.clashed, w.mem.hdr[p], Line(n, level, op, w.mem.hdr[p])) \subseteq Uids
  PROVE  LET v == Printed(w, n, level, op, p)
             line == Line(n, level, op, w.mem.hdr[p]) IN
         /\ v \in Worlds /\ Same(w, v)
         /\ v.awk = Counted(w.awk, line) /\ v.clashed = Clashed(w.clashed, w.mem.hdr[p], line)
         /\ Painted(v.color, v.screen)
<1> DEFINE h == w.mem.hdr[p]
           line == Line(n, level, op, h)
           t == <<level, op>>
           stays == NamSilent(level, op, h.daddr = NoHop) \/ w.color[n][t] = Level(n)
           a == Counted(w.awk, line)
           c == Clashed(w.clashed, h, line)
           d == [w.color EXCEPT ![n][t] = IF stays THEN @ ELSE Level(n)]
           r == [w.screen EXCEPT ![n] = IF stays THEN @ ELSE Level(n)]
           v == Printed(w, n, level, op, p)
<1>1. v = [w EXCEPT !.awk = a, !.clashed = c, !.color = d, !.screen = r]
  BY DEF Printed, Clashed, Level
<1>2. d \in [Nodes -> [Tracers -> 0 .. 3]] /\ r \in [Nodes -> 0 .. 3] /\ Painted(d, r)
  <2>1. stays \in BOOLEAN
    BY DEF NamSilent
  <2>2. w.color \in [Nodes -> [Tracers -> 0 .. 3]] /\ w.screen \in [Nodes -> 0 .. 3]
    BY DEF Worlds
  <2> HIDE DEF stays, t
  <2>3. t \in Tracers
    BY DEF t
  <2> QED BY <2>1, <2>2, <2>3, Painting
<1>3. a \in Scripts /\ c \subseteq Uids
  OBVIOUS
<1> HIDE DEF v, a, c, d, r
<1>4. /\ v \in Worlds /\ Same(w, v)
      /\ v.awk = a /\ v.clashed = c /\ v.color = d /\ v.screen = r
  BY <1>1, <1>2, <1>3 DEF Worlds, Same
<1> QED BY <1>2, <1>4 DEF v, a, c

(* A line of the router or of the queue about a packet in hand.            *)
LEMMA PrintedOK ==
  ASSUME NEW w, NEW H, NEW S, WOK(w, H, S), NEW p \in H, NEW n \in Nodes, Alive(n),
         NEW level \in {"RTR", "IFQ"}, NEW op, <<level, op>> \in Tracers
  PROVE  LET v == Printed(w, n, level, op, p) IN WOK(v, H, S) /\ Same(w, v)
<1> DEFINE v == Printed(w, n, level, op, p)
           h == w.mem.hdr[p]
           line == Line(n, level, op, h)
<1>1. Logged(h, S, w.got)
  BY DEF WOK, Owned
<1>2. op \in Marks
  BY DEF Marks, Tracers
<1>3. /\ Counted(w.awk, line) \in Scripts /\ Clashed(w.clashed, h, line) \subseteq Uids
      /\ Summed(Counted(w.awk, line), S, w.got, Clashed(w.clashed, h, line))
  <2>1. w.awk \in Scripts /\ w.clashed \subseteq Uids /\ w.got \subseteq S /\ S \subseteq Uids
        /\ Summed(w.awk, S, w.got, w.clashed)
    BY DEF WOK, Worlds
  <2> HIDE DEF h
  <2> QED BY <1>1, <1>2, <2>1, LineSummed
<1>4. /\ v \in Worlds /\ Same(w, v) /\ v.awk = Counted(w.awk, line)
      /\ v.clashed = Clashed(w.clashed, h, line) /\ Painted(v.color, v.screen)
  BY <1>3, PrintedFields DEF WOK
<1> HIDE DEF v, line, h
<1>5. Contents(v) = Contents(w) /\ Ordered(v)
  BY <1>4, SameContents DEF WOK
<1>6. WOK(v, H, S)
  BY <1>3, <1>4, <1>5 DEF WOK, Same
<1> QED BY <1>4, <1>6 DEF v

(* A handler that changes the pool only.                                   *)
LEMMA MemOnly ==
  ASSUME NEW w \in Worlds, Ordered(w), NEW m \in Pools,
         \A q \in Stored(Contents(w)) : m.hdr[q].ptype = w.mem.hdr[q].ptype
  PROVE  LET v == [w EXCEPT !.mem = m] IN
         /\ v \in Worlds /\ v.mem = m /\ Contents(v) = Contents(w) /\ Ordered(v)
         /\ v.rqueue = w.rqueue /\ v.later = w.later /\ v.ifc = w.ifc /\ v.air = w.air
         /\ v.got = w.got /\ v.blamed = w.blamed /\ v.awk = w.awk /\ v.clashed = w.clashed
         /\ v.color = w.color /\ v.screen = w.screen
<1> DEFINE v == [w EXCEPT !.mem = m]
<1>2. /\ v \in Worlds /\ v.mem = m
      /\ v.rqueue = w.rqueue /\ v.later = w.later /\ v.ifc = w.ifc /\ v.air = w.air
      /\ v.got = w.got /\ v.blamed = w.blamed /\ v.awk = w.awk /\ v.clashed = w.clashed
      /\ v.color = w.color /\ v.screen = w.screen
  BY DEF Worlds
<1> HIDE DEF v
<1>3. Contents(v) = Contents(w)
  BY <1>2 DEF Contents
<1>4. Ordered(v)
  <2>1. ASSUME NEW n \in Nodes, NEW k \in DOMAIN w.ifc[n].q
        PROVE  Prefers(m.hdr, w.ifc[n].q[k]) = Prefers(w.mem.hdr, w.ifc[n].q[k])
    <3> DEFINE q == w.ifc[n].q[k]
               x == <<"ifc", n>>
    <3>1. q \in Packets /\ q \in KeptBy(w.ifc[n])
      BY DEF Worlds, Interfaces, KeptBy, ToSet
    <3>2. x \in Cells /\ Contents(w)[x] = KeptBy(w.ifc[n])
      BY DEF Cells, Contents
    <3>3. q \in Stored(Contents(w))
      <4> HIDE DEF x, q
      <4> QED BY <3>1, <3>2 DEF Stored
    <3> QED BY <3>3 DEF Prefers
  <2> QED BY <1>2, <2>1 DEF Ordered, Queued, Lined
<1> QED BY <1>2, <1>3, <1>4 DEF v

LEMMA MemFrame ==
  ASSUME NEW w, NEW H, NEW S, WOK(w, H, S), NEW m, NEW K, Owned(m, Contents(w), K, S, w.got),
         \A q \in Stored(Contents(w)) : m.hdr[q].ptype = w.mem.hdr[q].ptype
  PROVE  LET v == [w EXCEPT !.mem = m] IN
         /\ WOK(v, K, S) /\ Contents(v) = Contents(w) /\ v.mem = m
         /\ v.rqueue = w.rqueue /\ v.later = w.later /\ v.ifc = w.ifc /\ v.air = w.air
         /\ v.got = w.got /\ v.blamed = w.blamed
<1> DEFINE v == [w EXCEPT !.mem = m]
<1>1. m \in Pools /\ w \in Worlds /\ Ordered(w)
  BY DEF WOK, Owned
<1>2. /\ v \in Worlds /\ v.mem = m /\ Contents(v) = Contents(w) /\ Ordered(v)
      /\ v.rqueue = w.rqueue /\ v.later = w.later /\ v.ifc = w.ifc /\ v.air = w.air
      /\ v.got = w.got /\ v.blamed = w.blamed /\ v.awk = w.awk /\ v.clashed = w.clashed
      /\ v.color = w.color /\ v.screen = w.screen
  BY <1>1, MemOnly
<1> HIDE DEF v
<1>3. WOK(v, K, S)
  BY <1>2 DEF WOK
<1> QED BY <1>2, <1>3 DEF v

(* Packets D have left the hands of the handler, and nothing else.         *)
Gone(w, v, D) ==
  /\ Contents(v) = Contents(w) /\ v.rqueue = w.rqueue /\ v.later = w.later /\ v.ifc = w.ifc
  /\ v.air = w.air /\ v.got = w.got /\ v.blamed = w.blamed
  /\ \A q \in Packets \ D : v.mem.hdr[q] = w.mem.hdr[q]

LEMMA FreedOK ==
  ASSUME NEW w, NEW H, NEW S, WOK(w, H, S), NEW p \in H
  PROVE  LET v == Freed(w, p) IN WOK(v, H \ {p}, S) /\ Gone(w, v, {p})
<1> DEFINE m == Free(w.mem, p)
<1>1. Owned(w.mem, Contents(w), H, S, w.got)
  BY DEF WOK
<1>2. Owned(m, Contents(w), H \ {p}, S, w.got) /\ \A q \in Packets \ {p} : m.hdr[q] = w.mem.hdr[q]
  BY <1>1, FreedOwned
<1>3. \A q \in Stored(Contents(w)) : q \in Packets \ {p}
  BY <1>1 DEF Owned, Stored
<1>4. Freed(w, p) = [w EXCEPT !.mem = m]
  BY DEF Freed
<1> HIDE DEF m
<1> DEFINE v == [w EXCEPT !.mem = m]
<1>5. /\ WOK(v, H \ {p}, S) /\ Contents(v) = Contents(w) /\ v.mem = m
      /\ v.rqueue = w.rqueue /\ v.later = w.later /\ v.ifc = w.ifc /\ v.air = w.air
      /\ v.got = w.got /\ v.blamed = w.blamed
  BY <1>2, <1>3, MemFrame
<1> HIDE DEF v
<1> QED BY <1>2, <1>4, <1>5 DEF Gone, v

LEMMA DroppedOK ==
  ASSUME NEW w, NEW H, NEW S, WOK(w, H, S), NEW p \in H, NEW n \in Nodes, NEW level \in {"RTR", "IFQ"}
  PROVE  LET v == Dropped(w, n, level, p) IN WOK(v, H \ {p}, S) /\ Gone(w, v, {p})
<1>1. CASE ~ Alive(n)
  BY <1>1, FreedOK DEF Dropped
<1>2. CASE Alive(n)
  <2> DEFINE u == Printed(w, n, level, "D", p)
  <2>1. <<level, "D">> \in Tracers
    BY DEF Tracers
  <2>2. WOK(u, H, S) /\ Same(w, u)
    BY <1>2, <2>1, PrintedOK
  <2>3. Dropped(w, n, level, p) = Freed(u, p)
    BY <1>2 DEF Dropped
  <2> HIDE DEF u
  <2>4. WOK(Freed(u, p), H \ {p}, S) /\ Gone(u, Freed(u, p), {p})
    BY <2>2, FreedOK
  <2>5. Contents(u) = Contents(w)
    BY <2>2, SameContents
  <2> QED BY <2>2, <2>3, <2>4, <2>5 DEF Gone, Same
<1> QED BY <1>1, <1>2

(* The loop that drops the packets of a queue, each of them once.          *)
LEMMA DroppedAllOK ==
  ASSUME NEW w, NEW H, NEW S, WOK(w, H, S), NEW n \in Nodes, NEW level \in {"RTR", "IFQ"},
         NEW s \in Seq(Packets), ToSet(s) \subseteq H, \A j, k \in DOMAIN s : s[j] = s[k] => j = k
  PROVE  LET v == DroppedAll(w, n, level, s) IN WOK(v, H \ ToSet(s), S) /\ Gone(w, v, ToSet(s))
<1> DEFINE K == Len(s)
           D(i) == {s[j] : j \in 1 .. i}
           W == [i \in Nat |-> {v \in Worlds : WOK(v, H \ D(i), S) /\ Gone(w, v, D(i))}]
           turn(v, i) == Dropped(v, n, level, s[i])
           Good(g) == g = [k \in 0 .. K |-> IF k = 0 THEN w ELSE turn(g[k - 1], k)]
           after == CHOOSE g : Good(g)
           V == UNION {W[i] : i \in 0 .. K}
           F == [z \in V \X Nat |-> IF z[2] \in 1 .. K /\ turn(z[1], z[2]) \in V
                                    THEN turn(z[1], z[2]) ELSE z[1]]
<1>1. K \in Nat /\ DOMAIN s = 1 .. K
  OBVIOUS
<1>2. w \in W[0] /\ w \in V
  <2>1. D(0) = {}
    OBVIOUS
  <2> HIDE DEF D
  <2>2. w \in Worlds /\ Gone(w, w, D(0))
    BY DEF WOK, Gone
  <2>3. H \ D(0) = H
    BY <2>1
  <2>4. w \in W[0]
    BY <2>2, <2>3
  <2> HIDE DEF W, K
  <2>5. 0 \in 0 .. K
    BY <1>1
  <2> QED BY <2>4, <2>5
<1>3. ASSUME NEW i \in 1 .. K, NEW v \in W[i - 1] PROVE turn(v, i) \in W[i]
  <2>1. i - 1 \in Nat /\ i \in Nat /\ s[i] \in Packets /\ s[i] \in H
    BY DEF ToSet
  <2>2. s[i] \notin D(i - 1) /\ D(i) = D(i - 1) \cup {s[i]}
    BY <1>1, <2>1
  <2>3. WOK(v, H \ D(i - 1), S) /\ Gone(w, v, D(i - 1))
    BY <2>1
  <2> HIDE DEF D, W
  <2>4. WOK(turn(v, i), (H \ D(i - 1)) \ {s[i]}, S) /\ Gone(v, turn(v, i), {s[i]})
    <3> DEFINE p == s[i]
               E == H \ D(i - 1)
    <3>1. WOK(v, E, S) /\ p \in E
      BY <2>1, <2>2, <2>3
    <3> HIDE DEF p, E
    <3>2. LET u == Dropped(v, n, level, p) IN WOK(u, E \ {p}, S) /\ Gone(v, u, {p})
      BY <3>1, DroppedOK
    <3> QED BY <3>2 DEF p, E
  <2>5. (H \ D(i - 1)) \ {s[i]} = H \ D(i)
    BY <2>2
  <2> HIDE DEF turn
  <2>6. WOK(turn(v, i), H \ D(i), S) /\ turn(v, i) \in Worlds
    BY <2>4, <2>5 DEF WOK
  <2>7. Gone(w, turn(v, i), D(i))
    BY <2>2, <2>3, <2>4 DEF Gone
  <2> QED BY <2>1, <2>6, <2>7 DEF W
<1>4. F \in [V \X Nat -> V]
  <2> HIDE DEF V, turn
  <2> QED OBVIOUS
<1>5. PICK g \in [0 .. K -> V] : Iterates(g, w, F, K)
  <2> HIDE DEF F, V, K
  <2> QED BY <1>1, <1>2, <1>4, IterationExists
<1>6. Good(g)
  <2>1. g[0] = w /\ \A i \in 1 .. K : g[i] = F[<<g[i - 1], i>>]
    BY <1>5 DEF Iterates
  <2>2. ASSUME NEW i \in 1 .. K, g[i - 1] \in W[i - 1] PROVE g[i] = turn(g[i - 1], i) /\ g[i] \in W[i]
    <3>1. turn(g[i - 1], i) \in W[i]
      BY <1>3, <2>2
    <3>2. turn(g[i - 1], i) \in V /\ g[i - 1] \in V /\ i \in Nat
      <4> HIDE DEF turn, W
      <4>1. i \in 0 .. K /\ i - 1 \in 0 .. K /\ i \in Nat
        BY <1>1
      <4> QED BY <2>2, <3>1, <4>1
    <3>3. F[<<g[i - 1], i>>] = turn(g[i - 1], i)
      <4> HIDE DEF turn, V, W
      <4> QED BY <3>2
    <3> HIDE DEF turn, W, F
    <3> QED BY <2>1, <3>1, <3>3
  <2>3. \A k \in 0 .. K : g[k] \in W[k]
    <3> HIDE DEF turn, W, F, V, K
    <3> SUFFICES ASSUME NEW k \in 0 .. K PROVE g[k] \in W[k]
      OBVIOUS
    <3>1. k \in Nat /\ \A i \in 1 .. k : i \in 1 .. K
      BY <1>1
    <3> QED BY <1>2, <2>1, <2>2, <3>1, Reached
  <2>4. \A k \in 1 .. K : k - 1 \in 0 .. K
    BY <1>1
  <2> HIDE DEF turn, W, F, V, K
  <2>5. \A k \in 0 .. K : g[k] = IF k = 0 THEN w ELSE turn(g[k - 1], k)
    BY <1>1, <2>1, <2>2, <2>3, <2>4
  <2> QED BY <2>5
<1>7. Good(after)
  <2> HIDE DEF Good
  <2> QED BY <1>6
<1>8. after[K] \in W[K]
  <2>1. after[0] = w /\ \A i \in 1 .. K : after[i] = turn(after[i - 1], i)
    <3> HIDE DEF after, turn, K
    <3> QED BY <1>1, <1>7
  <2> HIDE DEF after, turn, W, K
  <2>2. \A i \in 1 .. K : after[i - 1] \in W[i - 1] => after[i] \in W[i]
    BY <1>3, <2>1
  <2> QED BY <1>1, <1>2, <2>1, <2>2, Reached
<1>9. DroppedAll(w, n, level, s) = after[K]
  BY DEF DroppedAll
<1>10. D(K) = ToSet(s)
  BY <1>1 DEF ToSet
<1> HIDE DEF after, D
<1> QED BY <1>1, <1>8, <1>9, <1>10

-----------------------------------------------------------------------------
(* The interface queue.                                                    *)

LEMMA LimitOf == ASSUME NEW n \in Nodes PROVE QLim[n] \in Nat /\ QLim[n] >= 2
<1>1. QLim[n] \in Nat /\ DOMAIN QLim = Nodes
  BY DataPathAssumption
<1> QED BY <1>1, QLimAssumption

(* An interface as the set of its packets and the properties of its queue. *)
Lines(i, h, qlim) == i \in Interfaces /\ Lined(i, h, qlim)

LEMMA ServedOK ==
  ASSUME NEW qlim \in Nat, qlim >= 2,
         NEW h, NEW i, Lines(i, h, qlim)
  PROVE  /\ Served(i) \in Interfaces /\ Queued(Served(i), h, qlim)
         /\ KeptBy(Served(i)) = KeptBy(i)
<1>1. i \in Interfaces /\ i.q \in Seq(Packets) /\ i.mac \in Packets \cup {Idle} /\ Idle \notin Packets
  BY DataPathAssumption DEF Lines, Interfaces
<1>2. CASE ~ (i.mac = Idle /\ i.q # <<>>)
  BY <1>2 DEF Served, Queued, Lines
<1>3. CASE i.mac = Idle /\ i.q # <<>>
  <2> DEFINE t == Tail(i.q)
             a == Head(i.q)
             r == [q |-> t, mac |-> a]
  <2>1. Served(i) = r
    BY <1>3 DEF Served
  <2>2. /\ a = i.q[1] /\ a \in Packets /\ t \in Seq(Packets) /\ Len(t) = Len(i.q) - 1
        /\ \A k \in DOMAIN t : t[k] = i.q[k + 1] /\ k + 1 \in DOMAIN i.q
        /\ DOMAIN t = 1 .. Len(t) /\ Len(t) \in Nat /\ DOMAIN i.q = 1 .. Len(i.q)
    BY <1>1, <1>3
  <2> HIDE DEF t, a
  <2>3. r \in Interfaces /\ r.q = t /\ r.mac = a
    BY <2>2 DEF Interfaces
  <2>4. Lined(r, h, qlim)
    <3>1. /\ \A j, k \in DOMAIN i.q : i.q[j] = i.q[k] => j = k
          /\ Len(i.q) < qlim
          /\ \A j, k \in DOMAIN i.q : j < k /\ Prefers(h, i.q[k]) => Prefers(h, i.q[j])
      BY DEF Lines, Lined
    <3>2. \A j, k \in DOMAIN t : t[j] = t[k] => j = k
      BY <2>2, <3>1
    <3>3. \A k \in DOMAIN t : t[k] # a
      <4> SUFFICES ASSUME NEW k \in DOMAIN t, t[k] = a PROVE FALSE
        OBVIOUS
      <4>1. k + 1 = 1
        BY <2>2, <3>1
      <4> QED BY <2>2, <4>1
    <3>4. Len(t) < qlim
      BY <2>2, <3>1
    <3>5. \A j, k \in DOMAIN t : j < k /\ Prefers(h, t[k]) => Prefers(h, t[j])
      <4> SUFFICES ASSUME NEW j \in DOMAIN t, NEW k \in DOMAIN t, j < k, Prefers(h, t[k])
                   PROVE  Prefers(h, t[j])
        OBVIOUS
      <4>1. j + 1 < k + 1 /\ j + 1 \in DOMAIN i.q /\ k + 1 \in DOMAIN i.q
        BY <2>2
      <4> QED BY <2>2, <3>1, <4>1
    <3> QED BY <2>3, <3>2, <3>3, <3>4, <3>5 DEF Lined
  <2>5. Queued(r, h, qlim)
    BY <1>1, <2>2, <2>3, <2>4 DEF Queued
  <2>6. ToSet(i.q) = ToSet(t) \cup {a}
    <3>1. \A k \in DOMAIN i.q : k = 1 \/ (k - 1 \in DOMAIN t /\ t[k - 1] = i.q[k])
      BY <2>2
    <3> QED BY <2>2, <3>1 DEF ToSet
  <2>7. KeptBy(r) = KeptBy(i)
    BY <1>1, <1>3, <2>2, <2>3, <2>6 DEF KeptBy
  <2> HIDE DEF r
  <2> QED BY <2>1, <2>3, <2>5, <2>7 DEF r
<1> QED BY <1>2, <1>3

(* q is the queue with p in front.                                         *)
Fronted(i, p, q, h) ==
  /\ q \in Seq(Packets) /\ Len(q) = Len(i.q) + 1 /\ q[1] = p
  /\ \A j, k \in DOMAIN q : q[j] = q[k] => j = k
  /\ \A k \in DOMAIN q : q[k] # i.mac
  /\ \A j, k \in DOMAIN q : j < k /\ Prefers(h, q[k]) => Prefers(h, q[j])
  /\ ToSet(q) = ToSet(i.q) \cup {p}

LEMMA FirstIn ==
  ASSUME NEW qlim \in Nat, qlim >= 2,
         NEW h, NEW i, Lines(i, h, qlim), NEW p \in Packets \ KeptBy(i), Prefers(h, p),
         NEW q, q = <<p>> \o i.q
  PROVE  Fronted(i, p, q, h)
<1>1. i.q \in Seq(Packets) /\ i.mac \in Packets \cup {Idle} /\ Idle \notin Packets
  BY DataPathAssumption DEF Lines, Interfaces
<1>2. /\ q \in Seq(Packets) /\ Len(q) = Len(i.q) + 1 /\ q[1] = p
      /\ \A k \in 2 .. Len(i.q) + 1 : q[k] = i.q[k - 1]
      /\ Len(i.q) \in Nat /\ DOMAIN q = 1 .. Len(i.q) + 1 /\ DOMAIN i.q = 1 .. Len(i.q)
  BY <1>1
<1>3. \A k \in DOMAIN q : k = 1 \/ (k - 1 \in DOMAIN i.q /\ q[k] = i.q[k - 1] /\ q[k] # p)
  <2> SUFFICES ASSUME NEW k \in DOMAIN q, k # 1
               PROVE  k - 1 \in DOMAIN i.q /\ q[k] = i.q[k - 1] /\ q[k] # p
    OBVIOUS
  <2>1. k - 1 \in DOMAIN i.q /\ q[k] = i.q[k - 1]
    BY <1>2
  <2>2. i.q[k - 1] \in KeptBy(i)
    BY <2>1 DEF KeptBy, ToSet
  <2> QED BY <2>1, <2>2
<1>4. \A j, k \in DOMAIN q : q[j] = q[k] => j = k
  <2> SUFFICES ASSUME NEW j \in DOMAIN q, NEW k \in DOMAIN q, q[j] = q[k] PROVE j = k
    OBVIOUS
  <2>1. CASE j = 1 \/ k = 1
    BY <1>2, <1>3, <2>1
  <2>2. CASE j # 1 /\ k # 1
    <3>1. j - 1 = k - 1
      BY <1>3, <2>2 DEF Lines, Lined
    <3> QED BY <1>2, <3>1
  <2> QED BY <2>1, <2>2
<1>5. \A k \in DOMAIN q : q[k] # i.mac
  <2>1. p # i.mac
    BY <1>1 DEF KeptBy
  <2> QED BY <1>2, <1>3, <2>1 DEF Lines, Lined
<1>6. \A j, k \in DOMAIN q : j < k /\ Prefers(h, q[k]) => Prefers(h, q[j])
  <2> SUFFICES ASSUME NEW j \in DOMAIN q, NEW k \in DOMAIN q, j < k, Prefers(h, q[k])
               PROVE  Prefers(h, q[j])
    OBVIOUS
  <2>1. CASE j = 1
    BY <1>2, <2>1
  <2>2. CASE j # 1
    <3>1. k # 1 /\ j - 1 < k - 1
      BY <1>2, <2>2
    <3> QED BY <1>3, <2>2, <3>1 DEF Lines, Lined
  <2> QED BY <2>1, <2>2
<1>7. ToSet(q) = ToSet(i.q) \cup {p}
  <2>1. 1 \in DOMAIN q /\ \A k \in DOMAIN i.q : k + 1 \in DOMAIN q /\ q[k + 1] = i.q[k]
    BY <1>2
  <2>2. ASSUME NEW k \in DOMAIN q PROVE q[k] \in ToSet(i.q) \cup {p}
    <3>1. CASE k = 1
      BY <1>2, <3>1
    <3>2. CASE k # 1
      BY <1>3, <3>2, Zenon DEF ToSet
    <3> QED BY <3>1, <3>2
  <2>3. \A x \in ToSet(i.q) : x \in ToSet(q)
    BY <2>1, Zenon DEF ToSet
  <2>4. p \in ToSet(q)
    BY <1>2, <2>1, Zenon DEF ToSet
  <2>5. \A x \in ToSet(q) : x \in ToSet(i.q) \cup {p}
    BY <2>2, Zenon DEF ToSet
  <2> QED BY <2>3, <2>4, <2>5
<1> QED BY <1>2, <1>4, <1>5, <1>6, <1>7 DEF Fronted

(* What the queue does with a packet p: it takes it or drops a packet.     *)
Took(i, p, r, h, qlim) ==
  /\ r.ifc \in Interfaces /\ Queued(r.ifc, h, qlim)
  /\ r.dropped \in Seq(Packets)
  /\ \A j, k \in DOMAIN r.dropped : r.dropped[j] = r.dropped[k] => j = k
  /\ ToSet(r.dropped) \subseteq KeptBy(i) \cup {p}
  /\ KeptBy(r.ifc) = (KeptBy(i) \cup {p}) \ ToSet(r.dropped)

LEMMA HighPriorityOK ==
  ASSUME NEW qlim \in Nat, qlim >= 2,
         NEW h, NEW i, Lines(i, h, qlim), NEW p \in Packets \ KeptBy(i), Prefers(h, p)
  PROVE  Took(i, p, RecvHighPriority(i, p, qlim), h, qlim)
<1> DEFINE q == <<p>> \o i.q
           N == Len(q)
<1>1. /\ i \in Interfaces /\ i.q \in Seq(Packets) /\ i.mac \in Packets \cup {Idle}
      /\ Idle \notin Packets /\ Len(i.q) < qlim
  BY DataPathAssumption DEF Lines, Lined, Interfaces
<1>6. q = <<p>> \o i.q
  OBVIOUS
<1>3. RecvHighPriority(i, p, qlim) = IF N >= qlim
                               THEN Result(Served([i EXCEPT !.q = Front(q)]), <<Last(q)>>)
                               ELSE Result(Served([i EXCEPT !.q = q]), <<>>)
  BY DEF RecvHighPriority
<1> HIDE DEF q
<1>2. /\ q \in Seq(Packets) /\ Len(q) = Len(i.q) + 1 /\ q[1] = p
      /\ \A j, k \in DOMAIN q : q[j] = q[k] => j = k
      /\ \A k \in DOMAIN q : q[k] # i.mac
      /\ \A j, k \in DOMAIN q : j < k /\ Prefers(h, q[k]) => Prefers(h, q[j])
      /\ ToSet(q) = ToSet(i.q) \cup {p}
  <2>1. Fronted(i, p, q, h)
    BY <1>6, FirstIn
  <2> QED BY <2>1 DEF Fronted
<1>4. CASE N >= qlim
  <2> DEFINE f == Front(q)
             z == Last(q)
             e == [i EXCEPT !.q = f]
             d == <<z>>
  <2>1. /\ f \in Seq(Packets) /\ Len(f) = N - 1 /\ \A k \in 1 .. N - 1 : f[k] = q[k]
        /\ z = q[N] /\ N \in Nat /\ N >= 1 /\ DOMAIN f = 1 .. N - 1 /\ DOMAIN q = 1 .. N
    BY <1>1, <1>2 DEF Front, Last
  <2> HIDE DEF f, z
  <2>2. e \in Interfaces /\ e.q = f /\ e.mac = i.mac
    BY <1>1, <2>1 DEF Interfaces
  <2>3. Lined(e, h, qlim)
    BY <1>1, <1>2, <2>1, <2>2 DEF Lined
  <2> HIDE DEF e
  <2>4. /\ Served(e) \in Interfaces /\ Queued(Served(e), h, qlim) /\ KeptBy(Served(e)) = KeptBy(e)
    BY <2>2, <2>3, ServedOK DEF Lines
  <2>5. ToSet(q) = ToSet(f) \cup {z} /\ z \notin ToSet(f) /\ z \in Packets /\ z # i.mac
    <3>1. \A k \in DOMAIN q : k = N \/ k \in DOMAIN f
      BY <2>1
    <3>2. \A k \in DOMAIN f : k \in DOMAIN q /\ f[k] = q[k] /\ k # N
      BY <2>1
    <3>3. N \in DOMAIN q
      BY <2>1
    <3>4. \A k \in DOMAIN f : f[k] # q[N]
      BY <1>2, <3>2, <3>3
    <3>5. \A k \in DOMAIN q : q[k] \in Packets
      BY <1>2
    <3> QED BY <1>2, <2>1, <3>1, <3>2, <3>3, <3>4, <3>5 DEF ToSet
  <2>6. d \in Seq(Packets) /\ ToSet(d) = {z} /\ \A j, k \in DOMAIN d : j = k
    BY <2>5 DEF ToSet
  <2> HIDE DEF d
  <2>7. KeptBy(e) = (KeptBy(i) \cup {p}) \ {z}
    BY <1>1, <1>2, <2>2, <2>5 DEF KeptBy
  <2>8. z \in KeptBy(i) \cup {p}
    BY <1>2, <2>5 DEF KeptBy
  <2> DEFINE r == Result(Served(e), d)
  <2>9. r.ifc = Served(e) /\ r.dropped = d
    BY DEF Result
  <2>10. RecvHighPriority(i, p, qlim) = r
    BY <1>3, <1>4 DEF e, f, z, d
  <2> HIDE DEF r
  <2> QED BY <2>4, <2>6, <2>7, <2>8, <2>9, <2>10 DEF Took
<1>5. CASE ~ (N >= qlim)
  <2> DEFINE e == [i EXCEPT !.q = q]
             d == <<>>
  <2>2. e \in Interfaces /\ e.q = q /\ e.mac = i.mac
    BY <1>1, <1>2 DEF Interfaces
  <2>3. Lined(e, h, qlim)
    BY <1>1, <1>2, <1>5, <2>2 DEF Lined
  <2> HIDE DEF e
  <2>4. /\ Served(e) \in Interfaces /\ Queued(Served(e), h, qlim) /\ KeptBy(Served(e)) = KeptBy(e)
    BY <2>2, <2>3, ServedOK DEF Lines
  <2>6. d \in Seq(Packets) /\ ToSet(d) = {} /\ \A j, k \in DOMAIN d : j = k
    BY DEF ToSet
  <2> HIDE DEF d
  <2>7. KeptBy(e) = KeptBy(i) \cup {p}
    BY <1>1, <1>2, <2>2 DEF KeptBy
  <2> DEFINE r == Result(Served(e), d)
  <2>9. r.ifc = Served(e) /\ r.dropped = d
    BY DEF Result
  <2>10. RecvHighPriority(i, p, qlim) = r
    BY <1>3, <1>5 DEF e, d
  <2> HIDE DEF r
  <2> QED BY <2>4, <2>6, <2>7, <2>9, <2>10 DEF Took
<1> QED BY <1>4, <1>5

LEMMA DropTailOK ==
  ASSUME NEW qlim \in Nat, qlim >= 2,
         NEW h, NEW i, Lines(i, h, qlim), NEW p \in Packets \ KeptBy(i), ~ Prefers(h, p)
  PROVE  Took(i, p, RecvDropTail(i, p, qlim), h, qlim) /\ ToSet(RecvDropTail(i, p, qlim).dropped) \subseteq {p}
<1>1. /\ i \in Interfaces /\ i.q \in Seq(Packets) /\ i.mac \in Packets \cup {Idle}
      /\ Idle \notin Packets /\ Len(i.q) < qlim
  BY DataPathAssumption DEF Lines, Lined, Interfaces
<1>2. CASE Len(i.q) + 1 >= qlim
  <2> DEFINE d == <<p>>
             r == Result(Served(i), d)
  <2>1. RecvDropTail(i, p, qlim) = r
    BY <1>2 DEF RecvDropTail
  <2>2. d \in Seq(Packets) /\ ToSet(d) = {p} /\ \A j, k \in DOMAIN d : j = k
    BY DEF ToSet
  <2> HIDE DEF d
  <2>3. r.ifc = Served(i) /\ r.dropped = d
    BY DEF Result
  <2>4. /\ Served(i) \in Interfaces /\ Queued(Served(i), h, qlim) /\ KeptBy(Served(i)) = KeptBy(i)
    BY ServedOK
  <2> HIDE DEF r
  <2> QED BY <2>1, <2>2, <2>3, <2>4 DEF Took
<1>3. CASE ~ (Len(i.q) + 1 >= qlim)
  <2> DEFINE q == Append(i.q, p)
             e == [i EXCEPT !.q = q]
             d == <<>>
             r == Result(Served(e), d)
             N == Len(i.q)
  <2>1. RecvDropTail(i, p, qlim) = r
    BY <1>3 DEF RecvDropTail
  <2>2. /\ q \in Seq(Packets) /\ Len(q) = N + 1 /\ q[N + 1] = p /\ \A k \in 1 .. N : q[k] = i.q[k]
        /\ DOMAIN q = 1 .. N + 1 /\ DOMAIN i.q = 1 .. N /\ N \in Nat
    BY <1>1
  <2> HIDE DEF q, d
  <2>3. e \in Interfaces /\ e.q = q /\ e.mac = i.mac
    BY <1>1, <2>2 DEF Interfaces
  <2>4. \A k \in DOMAIN q : (k = N + 1 /\ q[k] = p)
                            \/ (k \in DOMAIN i.q /\ q[k] = i.q[k] /\ q[k] # p /\ k < N + 1)
    <3> SUFFICES ASSUME NEW k \in DOMAIN q, k # N + 1
                 PROVE  k \in DOMAIN i.q /\ q[k] = i.q[k] /\ q[k] # p /\ k < N + 1
      BY <2>2
    <3>1. k \in DOMAIN i.q /\ q[k] = i.q[k] /\ k < N + 1
      BY <2>2
    <3>2. i.q[k] \in KeptBy(i)
      BY <3>1 DEF KeptBy, ToSet
    <3> QED BY <3>1, <3>2
  <2>5. p # i.mac
    BY <1>1 DEF KeptBy
  <2>6. Lined(e, h, qlim)
    <3>1. \A j, k \in DOMAIN q : q[j] = q[k] => j = k
      BY <2>4 DEF Lines, Lined
    <3>2. \A k \in DOMAIN q : q[k] # i.mac
      BY <2>4, <2>5 DEF Lines, Lined
    <3>3. \A j, k \in DOMAIN q : j < k /\ Prefers(h, q[k]) => Prefers(h, q[j])
      <4> SUFFICES ASSUME NEW j \in DOMAIN q, NEW k \in DOMAIN q, j < k, Prefers(h, q[k])
                   PROVE  Prefers(h, q[j])
        OBVIOUS
      <4>1. k \in DOMAIN i.q /\ q[k] = i.q[k] /\ j # N + 1
        BY <2>2, <2>4
      <4> QED BY <2>4, <4>1 DEF Lines, Lined
    <3>4. Len(q) < qlim
      BY <1>3, <2>2
    <3> QED BY <2>3, <3>1, <3>2, <3>3, <3>4 DEF Lined
  <2>7. ToSet(q) = ToSet(i.q) \cup {p}
    <3>1. N + 1 \in DOMAIN q /\ \A k \in DOMAIN i.q : k \in DOMAIN q /\ q[k] = i.q[k]
      BY <2>2
    <3> QED BY <2>4, <3>1 DEF ToSet
  <2> HIDE DEF e
  <2>8. /\ Served(e) \in Interfaces /\ Queued(Served(e), h, qlim) /\ KeptBy(Served(e)) = KeptBy(e)
    BY <2>3, <2>6, ServedOK DEF Lines
  <2>9. KeptBy(e) = KeptBy(i) \cup {p}
    BY <1>1, <2>3, <2>7 DEF KeptBy
  <2>10. d \in Seq(Packets) /\ ToSet(d) = {} /\ \A j, k \in DOMAIN d : j = k
    BY DEF d, ToSet
  <2>11. r.ifc = Served(e) /\ r.dropped = d
    BY DEF Result
  <2> HIDE DEF r
  <2> QED BY <2>1, <2>8, <2>9, <2>10, <2>11 DEF Took
<1> QED BY <1>2, <1>3

LEMMA RecvIfqOK ==
  ASSUME NEW qlim \in Nat, qlim >= 2,
         NEW h, NEW i \in Interfaces, Queued(i, h, qlim), NEW p \in Packets \ KeptBy(i)
  PROVE  LET r == RecvIfq(i, p, h[p].ptype, qlim) IN
         Took(i, p, r, h, qlim) /\ (h[p].ptype = "cbr" => ToSet(r.dropped) \subseteq {p})
<1>1. Lines(i, h, qlim)
  BY DEF Lines, Queued
<1>2. "cbr" \notin Preferred
  BY DEF Preferred
<1>3. CASE Prefers(h, p)
  <2>1. Took(i, p, RecvHighPriority(i, p, qlim), h, qlim)
    BY <1>1, <1>3, HighPriorityOK
  <2> QED BY <1>2, <1>3, <2>1 DEF RecvIfq, Prefers
<1>4. CASE ~ Prefers(h, p)
  <2>1. Took(i, p, RecvDropTail(i, p, qlim), h, qlim) /\ ToSet(RecvDropTail(i, p, qlim).dropped) \subseteq {p}
    BY <1>1, <1>4, DropTailOK
  <2> QED BY <1>4, <2>1 DEF RecvIfq, Prefers
<1> QED BY <1>3, <1>4

(* The MAC is done, and the next packet follows the one it had.            *)
LEMMA ResumeOK ==
  ASSUME NEW qlim \in Nat, qlim >= 2,
         NEW h, NEW i \in Interfaces, Queued(i, h, qlim), i.mac # Idle
  PROVE  /\ Resume(i) \in Interfaces /\ Queued(Resume(i), h, qlim)
         /\ KeptBy(Resume(i)) = KeptBy(i) \ {i.mac} /\ i.mac \in KeptBy(i)
<1> DEFINE e == [i EXCEPT !.mac = Idle]
<1>1. /\ e \in Interfaces /\ e.q = i.q /\ e.mac = Idle /\ i.q \in Seq(Packets)
      /\ Idle \notin Packets
  BY DataPathAssumption DEF Interfaces
<1>2. Resume(i) = Served(e)
  BY DEF Resume
<1> HIDE DEF e
<1>3. Lined(e, h, qlim)
  <2>1. \A k \in DOMAIN i.q : i.q[k] # Idle
    BY <1>1
  <2> QED BY <1>1, <2>1 DEF Queued, Lined
<1>4. /\ Served(e) \in Interfaces /\ Queued(Served(e), h, qlim) /\ KeptBy(Served(e)) = KeptBy(e)
  BY <1>1, <1>3, ServedOK DEF Lines
<1>5. i.mac \notin ToSet(i.q)
  BY DEF Queued, Lined, ToSet
<1>6. KeptBy(e) = KeptBy(i) \ {i.mac}
  BY <1>1, <1>5 DEF KeptBy, ToSet
<1> QED BY <1>2, <1>4, <1>6 DEF KeptBy

(* A packet is taken out of the queue.                                     *)
LEMMA RemovedAt ==
  ASSUME NEW s \in Seq(Packets), NEW k \in DOMAIN s
  PROVE  LET r == RemoveAt(s, k) IN
         /\ r \in Seq(Packets) /\ Len(r) = Len(s) - 1
         /\ \A j \in 1 .. Len(s) - 1 : r[j] = IF j < k THEN s[j] ELSE s[j + 1]
<1> DEFINE a == SubSeq(s, 1, k - 1)
           b == SubSeq(s, k + 1, Len(s))
           N == Len(s)
<1>1. k \in 1 .. N /\ N \in Nat
  OBVIOUS
<1>2. a \in Seq(Packets) /\ Len(a) = k - 1 /\ \A j \in 1 .. k - 1 : a[j] = s[j]
  BY <1>1
<1>3. b \in Seq(Packets) /\ Len(b) = N - k /\ \A j \in 1 .. N - k : b[j] = s[k + j]
  BY <1>1
<1>4. RemoveAt(s, k) = a \o b
  BY DEF RemoveAt
<1> HIDE DEF a, b, N
<1>5. /\ a \o b \in Seq(Packets) /\ Len(a \o b) = N - 1
      /\ \A j \in 1 .. k - 1 : (a \o b)[j] = s[j]
      /\ \A j \in k .. N - 1 : (a \o b)[j] = b[j - (k - 1)]
  <2> DEFINE c == a \o b
  <2>1. /\ c \in Seq(Packets) /\ Len(c) = Len(a) + Len(b)
        /\ \A j \in 1 .. Len(a) : c[j] = a[j]
        /\ \A j \in Len(a) + 1 .. Len(a) + Len(b) : c[j] = b[j - Len(a)]
    <3>1. a \in Seq(Packets) /\ b \in Seq(Packets)
      BY <1>2, <1>3
    <3> QED BY <3>1
  <2>2. Len(a) + Len(b) = N - 1 /\ Len(a) + 1 = k
    BY <1>1, <1>2, <1>3
  <2> HIDE DEF c
  <2> QED BY <1>1, <1>2, <1>3, <2>1, <2>2 DEF c
<1>6. \A j \in k .. N - 1 : b[j - (k - 1)] = s[j + 1]
  <2> SUFFICES ASSUME NEW j \in k .. N - 1 PROVE b[j - (k - 1)] = s[j + 1]
    OBVIOUS
  <2>1. j - (k - 1) \in 1 .. N - k /\ k + (j - (k - 1)) = j + 1
    BY <1>1
  <2> QED BY <1>3, <2>1
<1> HIDE DEF a, b
<1> DEFINE r == a \o b
<1>7. \A j \in 1 .. N - 1 : r[j] = IF j < k THEN s[j] ELSE s[j + 1]
  <2> SUFFICES ASSUME NEW j \in 1 .. N - 1 PROVE r[j] = IF j < k THEN s[j] ELSE s[j + 1]
    OBVIOUS
  <2>1. CASE j < k
    <3>1. j \in 1 .. k - 1
      BY <1>1, <2>1
    <3> QED BY <1>5, <2>1, <3>1
  <2>2. CASE ~ (j < k)
    <3>1. j \in k .. N - 1
      BY <1>1, <2>2
    <3> QED BY <1>5, <1>6, <2>2, <3>1
  <2> QED BY <2>1, <2>2
<1> QED BY <1>4, <1>5, <1>7 DEF N

LEMMA FilterOK ==
  ASSUME NEW qlim \in Nat, qlim >= 2,
         NEW h, NEW i \in Interfaces, Queued(i, h, qlim), NEW hop, NEW next, To(i, hop, next) # {}
  PROVE  LET p == i.q[FirstTo(i, hop, next)]
             r == Filter(i, hop, next) IN
         /\ r \in Interfaces /\ Queued(r, h, qlim) /\ KeptBy(r) = KeptBy(i) \ {p} /\ p \in KeptBy(i)
<1> DEFINE k == FirstTo(i, hop, next)
           T == To(i, hop, next)
           q == RemoveAt(i.q, k)
           p == i.q[k]
           r == [i EXCEPT !.q = q]
           N == Len(i.q)
<1>1. i.q \in Seq(Packets) /\ i.mac \in Packets \cup {Idle} /\ DOMAIN i.q = 1 .. N /\ N \in Nat
  BY DEF Interfaces
<1>2. k \in T /\ k \in 1 .. N
  <2>1. T \subseteq Nat /\ T \subseteq 1 .. N
    BY <1>1 DEF To
  <2>2. \E x \in T : \A y \in T : x <= y
    BY <2>1, LeastNatural
  <2>3. k = CHOOSE x \in T : \A y \in T : x <= y
    BY DEF FirstTo
  <2> HIDE DEF T, k
  <2> QED BY <2>1, <2>2, <2>3
<1>3. Filter(i, hop, next) = r
  BY DEF Filter
<1> HIDE DEF k, T
<1>4. /\ q \in Seq(Packets) /\ Len(q) = N - 1
      /\ \A j \in 1 .. N - 1 : q[j] = IF j < k THEN i.q[j] ELSE i.q[j + 1]
  <2> DEFINE s == i.q
  <2>1. s \in Seq(Packets) /\ k \in DOMAIN s
    BY <1>1, <1>2
  <2> HIDE DEF s
  <2>2. LET x == RemoveAt(s, k) IN
        /\ x \in Seq(Packets) /\ Len(x) = Len(s) - 1
        /\ \A j \in 1 .. Len(s) - 1 : x[j] = IF j < k THEN s[j] ELSE s[j + 1]
    BY <2>1, RemovedAt
  <2> QED BY <2>2 DEF s
<1> DEFINE at == [j \in 1 .. N - 1 |-> IF j < k THEN j ELSE j + 1]
<1> HIDE DEF q
<1>5. /\ DOMAIN q = 1 .. N - 1
      /\ \A j \in DOMAIN q : at[j] \in 1 .. N /\ at[j] # k /\ q[j] = i.q[at[j]]
      /\ \A j, l \in DOMAIN q : (j < l <=> at[j] < at[l]) /\ (at[j] = at[l] => j = l)
  <2>1. DOMAIN q = 1 .. N - 1
    <3>1. DOMAIN q = 1 .. Len(q)
      BY <1>4
    <3> QED BY <1>4, <3>1
  <2>2. ASSUME NEW j \in 1 .. N - 1
        PROVE  /\ at[j] = IF j < k THEN j ELSE j + 1
               /\ at[j] \in 1 .. N /\ at[j] # k
    BY <1>1, <1>2
  <2> HIDE DEF at
  <2>3. \A j \in 1 .. N - 1 : q[j] = i.q[at[j]]
    BY <1>4, <2>2
  <2>4. \A j, l \in 1 .. N - 1 : (j < l <=> at[j] < at[l]) /\ (at[j] = at[l] => j = l)
    BY <1>1, <1>2, <2>2
  <2> QED BY <2>1, <2>2, <2>3, <2>4
<1>6. \A l \in 1 .. N : l = k \/ \E j \in DOMAIN q : at[j] = l
  <2> SUFFICES ASSUME NEW l \in 1 .. N, l # k PROVE \E j \in DOMAIN q : at[j] = l
    OBVIOUS
  <2>1. CASE l < k
    <3>1. l \in 1 .. N - 1 /\ at[l] = l
      BY <1>1, <1>2, <2>1
    <3> QED BY <1>5, <3>1
  <2>2. CASE l > k
    <3>1. l - 1 \in 1 .. N - 1 /\ at[l - 1] = l
      BY <1>1, <1>2, <2>2
    <3> QED BY <1>5, <3>1
  <2> HIDE DEF at
  <2> QED BY <1>1, <1>2, <2>1, <2>2
<1> HIDE DEF at
<1>7. r \in Interfaces /\ r.q = q /\ r.mac = i.mac
  BY <1>4 DEF Interfaces
<1>8. /\ \A j, l \in 1 .. N : i.q[j] = i.q[l] => j = l
      /\ \A l \in 1 .. N : i.q[l] # i.mac
      /\ N < qlim
      /\ \A j, l \in 1 .. N : j < l /\ Prefers(h, i.q[l]) => Prefers(h, i.q[j])
      /\ i.mac = Idle => i.q = <<>>
  BY <1>1 DEF Queued, Lined
<1> DEFINE s == i.q
<1> HIDE DEF s, r, N
<1>9. Lined(r, h, qlim)
  <2>1. \A j, l \in DOMAIN q : q[j] = q[l] => j = l
    BY <1>5, <1>8
  <2>2. \A l \in DOMAIN q : q[l] # i.mac
    BY <1>5, <1>8
  <2>3. Len(q) < qlim
    BY <1>1, <1>4, <1>8
  <2>4. \A j, l \in DOMAIN q : j < l /\ Prefers(h, q[l]) => Prefers(h, q[j])
    <3> SUFFICES ASSUME NEW j \in DOMAIN q, NEW l \in DOMAIN q, j < l, Prefers(h, q[l])
                 PROVE  Prefers(h, q[j])
      OBVIOUS
    <3>1. at[j] < at[l] /\ q[l] = i.q[at[l]] /\ q[j] = i.q[at[j]]
      BY <1>5
    <3> QED BY <1>5, <1>8, <3>1
  <2> QED BY <1>7, <2>1, <2>2, <2>3, <2>4 DEF Lined
<1>10. Queued(r, h, qlim)
  <2>1. i.mac # Idle
    <3> SUFFICES ASSUME i.mac = Idle PROVE FALSE
      OBVIOUS
    <3>1. N = 0
      BY <1>8 DEF N
    <3> QED BY <1>2, <3>1
  <2> QED BY <1>7, <1>9, <2>1 DEF Queued
<1>11. ToSet(q) = ToSet(i.q) \ {p} /\ p \in ToSet(i.q) /\ p # i.mac
  <2>1. p \in ToSet(i.q) /\ p # i.mac
    BY <1>1, <1>2, <1>8 DEF ToSet
  <2>2. ASSUME NEW x \in ToSet(q) PROVE x \in ToSet(i.q) \ {p}
    <3>1. PICK j \in DOMAIN q : x = q[j]
      BY DEF ToSet
    <3>2. at[j] \in 1 .. N /\ x = i.q[at[j]] /\ at[j] # k
      BY <1>5, <3>1
    <3> QED BY <1>1, <1>2, <1>8, <3>2 DEF ToSet
  <2>3. ASSUME NEW x \in ToSet(i.q), x # p PROVE x \in ToSet(q)
    <3>1. PICK l \in 1 .. N : x = i.q[l]
      BY <1>1 DEF ToSet
    <3>2. PICK j \in DOMAIN q : at[j] = l
      BY <1>6, <2>3, <3>1
    <3> QED BY <1>5, <3>1, <3>2 DEF ToSet
  <2> QED BY <2>1, <2>2, <2>3
<1>12. KeptBy(r) = KeptBy(i) \ {p} /\ p \in KeptBy(i)
  BY <1>7, <1>11 DEF KeptBy
<1> QED BY <1>3, <1>7, <1>10, <1>12 DEF r, k

LEMMA TerminateOK ==
  ASSUME NEW qlim \in Nat, qlim >= 2,
         NEW h, NEW i \in Interfaces, Queued(i, h, qlim)
  PROVE  LET r == Terminate(i) IN
         /\ r.ifc \in Interfaces /\ Queued(r.ifc, h, qlim) /\ r.dropped = i.q
         /\ KeptBy(r.ifc) = KeptBy(i) \ ToSet(i.q) /\ ToSet(i.q) \subseteq KeptBy(i)
<1> DEFINE e == [i EXCEPT !.q = <<>>]
           d == i.q
           r == Result(e, d)
<1>1. e \in Interfaces /\ e.q = <<>> /\ e.mac = i.mac
  <2> DEFINE z == <<>>
  <2>1. z \in Seq(Packets)
    OBVIOUS
  <2> HIDE DEF z
  <2>2. /\ [i EXCEPT !.q = z] \in Interfaces /\ [i EXCEPT !.q = z].q = z
        /\ [i EXCEPT !.q = z].mac = i.mac
    BY <2>1 DEF Interfaces
  <2> QED BY <2>2 DEF z
<1>2. Terminate(i) = r
  BY DEF Terminate
<1> HIDE DEF e, d
<1>3. r.ifc = e /\ r.dropped = d
  BY DEF Result
<1>4. Queued(e, h, qlim)
  BY <1>1 DEF Queued, Lined
<1>5. KeptBy(e) = KeptBy(i) \ ToSet(i.q)
  <2>1. i.mac \notin ToSet(i.q)
    BY DEF Queued, Lined, ToSet
  <2>2. ToSet(e.q) = {}
    BY <1>1 DEF ToSet
  <2> QED BY <1>1, <2>1, <2>2 DEF KeptBy
<1> HIDE DEF r
<1> QED BY <1>1, <1>2, <1>3, <1>4, <1>5 DEF d, KeptBy

-----------------------------------------------------------------------------
(* Where packets come to rest.                                             *)

(* The handler has changed cell x, which holds D now, and nothing else     *)
(* that the invariant is about.                                            *)
Rested(w, v, x, D) ==
  /\ v \in Worlds /\ Contents(v) = [Contents(w) EXCEPT ![x] = D] /\ Ordered(v)
  /\ v.mem = w.mem /\ v.got = w.got /\ v.awk = w.awk /\ v.clashed = w.clashed
  /\ v.color = w.color /\ v.screen = w.screen

LEMMA RestedOK ==
  ASSUME NEW w, NEW H, NEW S, WOK(w, H, S), NEW x \in Cells, NEW D, NEW v, Rested(w, v, x, D),
         D \subseteq Contents(w)[x] \cup H, \A p \in D \ Contents(w)[x] : Fits(x, w.mem.hdr[p])
  PROVE  WOK(v, (H \cup Contents(w)[x]) \ D, S)
<1> DEFINE C == Contents(w)
<1>1. Owned(w.mem, C, H, S, w.got)
  BY DEF WOK
<1> HIDE DEF C
<1>2. \A p \in D : Fits(x, w.mem.hdr[p])
  BY <1>1 DEF Owned, C
<1>3. Owned(w.mem, [C EXCEPT ![x] = D], (H \cup C[x]) \ D, S, w.got)
  BY <1>1, <1>2, MovedOwned DEF C
<1> QED BY <1>3 DEF WOK, Rested, C

(* What the cells of node n hold.                                          *)
CellsAre(w, n) ==
  /\ <<"rqueue", n>> \in Cells /\ Contents(w)[<<"rqueue", n>>] = ToSet(w.rqueue[n])
  /\ <<"ifc", n>> \in Cells /\ Contents(w)[<<"ifc", n>>] = KeptBy(w.ifc[n])
  /\ <<"later", n>> \in Cells /\ Contents(w)[<<"later", n>>] = w.later[n]
  /\ <<"air", n>> \in Cells /\ Contents(w)[<<"air", n>>] = {p \in Packets : <<p, n>> \in w.air}

LEMMA CellsOf == \A w : \A n \in Nodes : CellsAre(w, n)
BY DEF CellsAre, Cells, Contents

Differ(w, v, x, D) ==
  /\ x \in Cells /\ Contents(v)[x] = D
  /\ \A y \in Cells : y # x => Contents(v)[y] = Contents(w)[y]

LEMMA OneCell ==
  ASSUME NEW w, NEW v, NEW x, NEW D, Differ(w, v, x, D)
  PROVE  Contents(v) = [Contents(w) EXCEPT ![x] = D]
<1> DEFINE A == Contents(v)
           B == Contents(w)
<1>1. A = [y \in Cells |-> A[y]] /\ B = [y \in Cells |-> B[y]]
  BY DEF Contents
<1>3. x \in Cells /\ A[x] = D /\ \A y \in Cells : y # x => A[y] = B[y]
  BY DEF Differ
<1> HIDE DEF A, B
<1>2. A = [B EXCEPT ![x] = D]
  BY <1>1, <1>3
<1> QED BY <1>2 DEF A, B

LEMMA EachCell == \A y \in Cells : \E m \in Nodes :
  y \in {<<"rqueue", m>>, <<"ifc", m>>, <<"later", m>>, <<"air", m>>}
BY DEF Cells

LEMMA IfcRests ==
  ASSUME NEW w \in Worlds, Ordered(w), NEW n \in Nodes, NEW i \in Interfaces, Queued(i, w.mem.hdr, QLim[n])
  PROVE  LET v == [w EXCEPT !.ifc[n] = i] IN Rested(w, v, <<"ifc", n>>, KeptBy(i))
<1> DEFINE f == [w.ifc EXCEPT ![n] = i]
           v == [w EXCEPT !.ifc = f]
<1>1. f \in [Nodes -> Interfaces] /\ f[n] = i /\ \A m \in Nodes : m # n => f[m] = w.ifc[m]
  BY DEF Worlds
<1> HIDE DEF f
<1>2. /\ v \in Worlds /\ v.ifc = f /\ v.mem = w.mem /\ v.got = w.got /\ v.awk = w.awk
      /\ v.clashed = w.clashed /\ v.color = w.color /\ v.screen = w.screen
      /\ v.rqueue = w.rqueue /\ v.later = w.later /\ v.air = w.air
  BY <1>1 DEF Worlds
<1>3. v = [w EXCEPT !.ifc[n] = i]
  BY DEF f
<1> HIDE DEF v
<1>4. Ordered(v)
  BY <1>1, <1>2 DEF Ordered
<1>5. Contents(v) = [Contents(w) EXCEPT ![<<"ifc", n>>] = KeptBy(i)]
  <2> DEFINE x == <<"ifc", n>>
             A == Contents(v)
             B == Contents(w)
             D == KeptBy(i)
  <2>1. ASSUME NEW m \in Nodes
        PROVE  /\ A[<<"rqueue", m>>] = B[<<"rqueue", m>>]
               /\ A[<<"later", m>>] = B[<<"later", m>>]
               /\ A[<<"air", m>>] = B[<<"air", m>>]
               /\ m # n => A[<<"ifc", m>>] = B[<<"ifc", m>>]
    <3>1. CellsAre(v, m) /\ CellsAre(w, m)
      BY CellsOf
    <3> QED BY <1>1, <1>2, <3>1 DEF CellsAre
  <2>2. x \in Cells /\ A[x] = D
    <3>1. CellsAre(v, n)
      BY CellsOf
    <3> QED BY <1>1, <1>2, <3>1 DEF CellsAre
  <2> HIDE DEF A, B, D
  <2>3. \A y \in Cells : y # x => A[y] = B[y]
    <3> SUFFICES ASSUME NEW y \in Cells, y # x PROVE A[y] = B[y]
      OBVIOUS
    <3>1. PICK m \in Nodes : y \in {<<"rqueue", m>>, <<"ifc", m>>, <<"later", m>>, <<"air", m>>}
      BY EachCell
    <3> QED BY Zenon, <2>1, <3>1
  <2> HIDE DEF x
  <2>4. A = [B EXCEPT ![x] = D]
    <3>1. Differ(w, v, x, D)
      BY <2>2, <2>3 DEF Differ, A, B
    <3> QED BY <3>1, OneCell DEF A, B
  <2> QED BY <2>4 DEF x, A, B, D
<1> QED BY <1>2, <1>3, <1>4, <1>5 DEF Rested

LEMMA RqueueRests ==
  ASSUME NEW w \in Worlds, Ordered(w), NEW n \in Nodes, NEW s \in Seq(Packets),
         \A j, k \in DOMAIN s : s[j] = s[k] => j = k
  PROVE  LET v == [w EXCEPT !.rqueue[n] = s] IN Rested(w, v, <<"rqueue", n>>, ToSet(s))
<1> DEFINE f == [w.rqueue EXCEPT ![n] = s]
           v == [w EXCEPT !.rqueue = f]
<1>1. f \in [Nodes -> Seq(Packets)] /\ f[n] = s /\ \A m \in Nodes : m # n => f[m] = w.rqueue[m]
  BY DEF Worlds
<1> HIDE DEF f
<1>2. /\ v \in Worlds /\ v.rqueue = f /\ v.mem = w.mem /\ v.got = w.got /\ v.awk = w.awk
      /\ v.clashed = w.clashed /\ v.color = w.color /\ v.screen = w.screen
      /\ v.ifc = w.ifc /\ v.later = w.later /\ v.air = w.air
  BY <1>1 DEF Worlds
<1>3. v = [w EXCEPT !.rqueue[n] = s]
  BY DEF f
<1> HIDE DEF v
<1>4. Ordered(v)
  BY <1>1, <1>2 DEF Ordered
<1>5. Contents(v) = [Contents(w) EXCEPT ![<<"rqueue", n>>] = ToSet(s)]
  <2> DEFINE x == <<"rqueue", n>>
             A == Contents(v)
             B == Contents(w)
             D == ToSet(s)
  <2>1. ASSUME NEW m \in Nodes
        PROVE  /\ A[<<"ifc", m>>] = B[<<"ifc", m>>]
               /\ A[<<"later", m>>] = B[<<"later", m>>]
               /\ A[<<"air", m>>] = B[<<"air", m>>]
               /\ m # n => A[<<"rqueue", m>>] = B[<<"rqueue", m>>]
    <3>1. CellsAre(v, m) /\ CellsAre(w, m)
      BY CellsOf
    <3> QED BY <1>1, <1>2, <3>1 DEF CellsAre
  <2>2. x \in Cells /\ A[x] = D
    <3>1. CellsAre(v, n)
      BY CellsOf
    <3> QED BY <1>1, <1>2, <3>1 DEF CellsAre
  <2> HIDE DEF A, B, D
  <2>3. \A y \in Cells : y # x => A[y] = B[y]
    <3> SUFFICES ASSUME NEW y \in Cells, y # x PROVE A[y] = B[y]
      OBVIOUS
    <3>1. PICK m \in Nodes : y \in {<<"rqueue", m>>, <<"ifc", m>>, <<"later", m>>, <<"air", m>>}
      BY EachCell
    <3> QED BY Zenon, <2>1, <3>1
  <2> HIDE DEF x
  <2>4. A = [B EXCEPT ![x] = D]
    <3>1. Differ(w, v, x, D)
      BY <2>2, <2>3 DEF Differ, A, B
    <3> QED BY <3>1, OneCell DEF A, B
  <2> QED BY <2>4 DEF x, A, B, D
<1> QED BY <1>2, <1>3, <1>4, <1>5 DEF Rested

LEMMA LaterRests ==
  ASSUME NEW w \in Worlds, Ordered(w), NEW n \in Nodes, NEW D, D \subseteq Packets
  PROVE  LET v == [w EXCEPT !.later[n] = D] IN Rested(w, v, <<"later", n>>, D)
<1> DEFINE f == [w.later EXCEPT ![n] = D]
           v == [w EXCEPT !.later = f]
<1>1. f \in [Nodes -> SUBSET Packets] /\ f[n] = D /\ \A m \in Nodes : m # n => f[m] = w.later[m]
  BY DEF Worlds
<1> HIDE DEF f
<1>2. /\ v \in Worlds /\ v.later = f /\ v.mem = w.mem /\ v.got = w.got /\ v.awk = w.awk
      /\ v.clashed = w.clashed /\ v.color = w.color /\ v.screen = w.screen
      /\ v.ifc = w.ifc /\ v.rqueue = w.rqueue /\ v.air = w.air
  BY <1>1 DEF Worlds
<1>3. v = [w EXCEPT !.later[n] = D]
  BY DEF f
<1> HIDE DEF v
<1>4. Ordered(v)
  BY <1>1, <1>2 DEF Ordered
<1>5. Contents(v) = [Contents(w) EXCEPT ![<<"later", n>>] = D]
  <2> DEFINE x == <<"later", n>>
             A == Contents(v)
             B == Contents(w)
  <2>1. ASSUME NEW m \in Nodes
        PROVE  /\ A[<<"rqueue", m>>] = B[<<"rqueue", m>>]
               /\ A[<<"ifc", m>>] = B[<<"ifc", m>>]
               /\ A[<<"air", m>>] = B[<<"air", m>>]
               /\ m # n => A[<<"later", m>>] = B[<<"later", m>>]
    <3>1. CellsAre(v, m) /\ CellsAre(w, m)
      BY CellsOf
    <3> QED BY <1>1, <1>2, <3>1 DEF CellsAre
  <2>2. x \in Cells /\ A[x] = D
    <3>1. CellsAre(v, n)
      BY CellsOf
    <3> QED BY <1>1, <1>2, <3>1 DEF CellsAre
  <2> HIDE DEF A, B
  <2>3. \A y \in Cells : y # x => A[y] = B[y]
    <3> SUFFICES ASSUME NEW y \in Cells, y # x PROVE A[y] = B[y]
      OBVIOUS
    <3>1. PICK m \in Nodes : y \in {<<"rqueue", m>>, <<"ifc", m>>, <<"later", m>>, <<"air", m>>}
      BY EachCell
    <3> QED BY Zenon, <2>1, <3>1
  <2> HIDE DEF x
  <2>4. A = [B EXCEPT ![x] = D]
    <3>1. Differ(w, v, x, D)
      BY <2>2, <2>3 DEF Differ, A, B
    <3> QED BY <3>1, OneCell DEF A, B
  <2> QED BY <2>4 DEF x, A, B
<1> QED BY <1>2, <1>3, <1>4, <1>5 DEF Rested

LEMMA AirRests ==
  ASSUME NEW w \in Worlds, Ordered(w), NEW n \in Nodes, NEW A, A \subseteq Packets \X Nodes,
         \A p \in Packets, m \in Nodes : m # n => (<<p, m>> \in A <=> <<p, m>> \in w.air)
  PROVE  LET v == [w EXCEPT !.air = A] IN Rested(w, v, <<"air", n>>, {p \in Packets : <<p, n>> \in A})
<1> DEFINE v == [w EXCEPT !.air = A]
<1>2. /\ v \in Worlds /\ v.air = A /\ v.mem = w.mem /\ v.got = w.got /\ v.awk = w.awk
      /\ v.clashed = w.clashed /\ v.color = w.color /\ v.screen = w.screen
      /\ v.ifc = w.ifc /\ v.rqueue = w.rqueue /\ v.later = w.later
  BY DEF Worlds
<1> HIDE DEF v
<1>4. Ordered(v)
  BY <1>2 DEF Ordered
<1>5. Contents(v) = [Contents(w) EXCEPT ![<<"air", n>>] = {p \in Packets : <<p, n>> \in A}]
  <2> DEFINE x == <<"air", n>>
             E == Contents(v)
             B == Contents(w)
             D == {p \in Packets : <<p, n>> \in A}
  <2>1. ASSUME NEW m \in Nodes
        PROVE  /\ E[<<"rqueue", m>>] = B[<<"rqueue", m>>]
               /\ E[<<"ifc", m>>] = B[<<"ifc", m>>]
               /\ E[<<"later", m>>] = B[<<"later", m>>]
               /\ m # n => E[<<"air", m>>] = B[<<"air", m>>]
    <3>1. CellsAre(v, m) /\ CellsAre(w, m)
      BY CellsOf
    <3> QED BY <1>2, <3>1 DEF CellsAre
  <2>2. x \in Cells /\ E[x] = D
    <3>1. CellsAre(v, n)
      BY CellsOf
    <3> QED BY <1>2, <3>1 DEF CellsAre
  <2> HIDE DEF E, B, D
  <2>3. \A y \in Cells : y # x => E[y] = B[y]
    BY Zenon, <2>1, EachCell
  <2> HIDE DEF x
  <2>4. E = [B EXCEPT ![x] = D]
    <3>1. Differ(w, v, x, D)
      BY <2>2, <2>3 DEF Differ, E, B
    <3> QED BY <3>1, OneCell DEF E, B
  <2> QED BY <2>4 DEF x, E, B, D
<1> QED BY <1>2, <1>4, <1>5 DEF Rested, v

-----------------------------------------------------------------------------
(* What a handler has done with packet p, the others being left alone,     *)
(* but for what has been dropped to make room for a packet without data.   *)
Did(w, v, H, p) ==
  /\ v.got = w.got
  /\ Stored(Contents(v)) \subseteq Stored(Contents(w)) \cup {p}
  /\ \A q \in (H \ {p}) \cup Stored(Contents(v)) : q # p => v.mem.hdr[q] = w.mem.hdr[q]
  /\ p \in Stored(Contents(v)) => /\ v.mem.hdr[p].ptype = w.mem.hdr[p].ptype
                                  /\ v.mem.hdr[p].uid = w.mem.hdr[p].uid
  /\ w.mem.hdr[p].ptype = "cbr" => Stored(Contents(w)) \subseteq Stored(Contents(v))

(* u differs from w in no packet but p, of which type and number are kept. *)
Near(w, u, p) ==
  /\ u.got = w.got /\ Stored(Contents(u)) = Stored(Contents(w))
  /\ \A q \in Packets \ {p} : u.mem.hdr[q] = w.mem.hdr[q]
  /\ u.mem.hdr[p].ptype = w.mem.hdr[p].ptype /\ u.mem.hdr[p].uid = w.mem.hdr[p].uid

LEMMA DidAfter ==
  ASSUME NEW w, NEW u, NEW v, NEW H, NEW p, Near(w, u, p), Did(u, v, H, p), H \subseteq Packets
  PROVE  Did(w, v, H, p)
<1>1. Stored(Contents(v)) \subseteq Packets
  BY DEF Stored
<1> QED BY <1>1 DEF Did, Near

LEMMA SameNear == ASSUME NEW w, NEW v, NEW p, Same(w, v) PROVE Near(w, v, p)
BY SameContents DEF Same, Near

LEMMA HandsFree ==
  ASSUME NEW w, NEW H, NEW S, WOK(w, H, S)
  PROVE  /\ H \subseteq Packets /\ \A q \in H : q \notin Stored(Contents(w))
         /\ w.mem \in Pools /\ w \in Worlds
BY DEF WOK, Owned

LEMMA GoneDid ==
  ASSUME NEW w, NEW v, NEW H, NEW S, WOK(w, H, S), NEW p \in H, Gone(w, v, {p})
  PROVE  Did(w, v, H, p)
<1>1. H \subseteq Packets /\ p \notin Stored(Contents(w)) /\ Stored(Contents(w)) \subseteq Packets
  BY HandsFree DEF Stored
<1> QED BY <1>1 DEF Did, Gone

LEMMA RestedDid ==
  ASSUME NEW w, NEW v, NEW H, NEW S, WOK(w, H, S), NEW p \in H, NEW x \in Cells,
         Rested(w, v, x, Contents(w)[x] \cup {p})
  PROVE  Did(w, v, H, p)
<1>1. Contents(v) = [Contents(w) EXCEPT ![x] = Contents(w)[x] \cup {p}] /\ p \in Packets
  BY HandsFree DEF Rested
<1>2. Contents(w) \in [Cells -> SUBSET Packets]
  BY DEF WOK, Owned
<1>3. Stored(Contents(v)) = Stored(Contents(w)) \cup {p}
  <2> DEFINE C == Contents(w)
             D == Contents(v)
  <2> HIDE DEF C, D
  <2>1. C \in [Cells -> SUBSET Packets] /\ D = [C EXCEPT ![x] = C[x] \cup {p}]
    BY <1>1, <1>2 DEF C, D
  <2>2. \A y \in Cells : D[y] = IF y = x THEN C[x] \cup {p} ELSE C[y]
    BY <2>1
  <2>3. Stored(D) = Stored(C) \cup {p}
    BY <1>1, <2>2 DEF Stored
  <2> QED BY <2>3 DEF C, D
<1> QED BY <1>3 DEF Did, Rested

(* The queue takes p; what it drops leaves the hands of the handler.       *)
LEMMA IfqRecvOK ==
  ASSUME NEW w, NEW H, NEW S, WOK(w, H, S), NEW p \in H, NEW n \in Nodes, Goes(n, w.mem.hdr[p])
  PROVE  LET v == IfqRecv(w, n, p) IN WOK(v, H \ {p}, S) /\ Did(w, v, H, p)
<1> DEFINE i == w.ifc[n]
           h == w.mem.hdr
           r == RecvIfq(i, p, h[p].ptype, QLim[n])
           u == [w EXCEPT !.ifc[n] = r.ifc]
           d == r.dropped
           x == <<"ifc", n>>
           C == Contents(w)
           D == KeptBy(r.ifc)
           K == (H \cup C[x]) \ D
           v == DroppedAll(u, n, "IFQ", d)
<1>1. /\ w \in Worlds /\ Ordered(w) /\ i \in Interfaces /\ Queued(i, h, QLim[n])
      /\ H \subseteq Packets /\ \A q \in H : q \notin Stored(C)
  BY HandsFree DEF WOK, Worlds, Ordered
<1>2. x \in Cells /\ C[x] = KeptBy(i)
  BY CellsOf DEF CellsAre
<1>3. p \in Packets \ KeptBy(i)
  BY <1>1, <1>2 DEF Stored
<1>4. Took(i, p, r, h, QLim[n]) /\ (h[p].ptype = "cbr" => ToSet(d) \subseteq {p})
  <2> HIDE DEF i, h
  <2> QED BY <1>1, <1>3, LimitOf, RecvIfqOK
<1>5. IfqRecv(w, n, p) = v
  BY DEF IfqRecv
<1> HIDE DEF r
<1>6. Rested(w, u, x, D)
  BY <1>1, <1>4, IfcRests DEF Took
<1> HIDE DEF u, C, x, i, v
<1>7. D = (C[x] \cup {p}) \ ToSet(d) /\ ToSet(d) \subseteq C[x] \cup {p}
  BY <1>2, <1>4 DEF Took
<1>8. WOK(u, K, S)
  <2>1. D \subseteq C[x] \cup H /\ \A q \in D \ C[x] : Fits(x, h[q])
    BY <1>7 DEF Fits, x
  <2> QED BY <1>2, <1>6, <2>1, RestedOK DEF C
<1>9. C[x] \subseteq Stored(C) /\ Stored(C) \subseteq Packets
  <2>1. C \in [Cells -> SUBSET Packets]
    BY DEF WOK, Owned, C
  <2> QED BY <1>2, <2>1, StoredIn
<1>10. ToSet(d) \subseteq K /\ K \ ToSet(d) = H \ {p}
  BY <1>1, <1>7, <1>9
<1>11. WOK(v, K \ ToSet(d), S) /\ Gone(u, v, ToSet(d))
  <2>1. d \in Seq(Packets) /\ \A j, k \in DOMAIN d : d[j] = d[k] => j = k
    BY <1>4 DEF Took
  <2> HIDE DEF d, K
  <2> QED BY <1>8, <1>10, <2>1, DroppedAllOK DEF v
<1>12. Did(w, v, H, p)
  <2>1. Contents(v) = [C EXCEPT ![x] = D] /\ C \in [Cells -> SUBSET Packets]
    BY <1>6, <1>11 DEF Gone, Rested, C, WOK, Owned
  <2>2. \A y \in Cells : Contents(v)[y] = IF y = x THEN D ELSE C[y]
    BY <1>2, <2>1
  <2>3. Stored(Contents(v)) \subseteq Stored(C) \cup {p}
    BY <1>7, <1>9, <2>2 DEF Stored
  <2>4. \A q \in Stored(Contents(v)) : q \notin ToSet(d)
    <3> SUFFICES ASSUME NEW q \in ToSet(d), q \in Stored(Contents(v)) PROVE FALSE
      OBVIOUS
    <3>1. PICK y \in Cells : q \in Contents(v)[y]
      BY DEF Stored
    <3>2. y # x /\ q \in C[y]
      BY <1>7, <2>2, <3>1
    <3>3. q \in C[x] \/ q = p
      BY <1>7
    <3>4. \A y1, y2 \in Cells : \A q1 \in C[y1] : q1 \in C[y2] => y1 = y2
      BY DEF WOK, Owned, C
    <3> QED BY <1>1, <1>2, <1>9, <2>1, <3>2, <3>3, <3>4, StoredIn
  <2>5. u.got = w.got /\ u.mem = w.mem
    BY <1>6 DEF Rested
  <2>6. \A q \in (H \ {p}) \cup Stored(Contents(v)) : q \notin ToSet(d) /\ q \in Packets
    BY <1>1, <1>7, <1>9, <2>3, <2>4
  <2>7. h[p].ptype = "cbr" => Stored(C) \subseteq Stored(Contents(v))
    <3> SUFFICES ASSUME h[p].ptype = "cbr", NEW q \in Stored(C) PROVE q \in Stored(Contents(v))
      OBVIOUS
    <3>1. PICK y \in Cells : q \in C[y]
      BY DEF Stored
    <3>2. q # p
      BY <1>1
    <3>3. q \in Contents(v)[y]
      BY <1>4, <1>7, <2>2, <3>1, <3>2
    <3> QED BY <1>9, <3>3 DEF Stored
  <2> QED BY <1>11, <2>3, <2>5, <2>6, <2>7 DEF Did, Gone, C
<1> HIDE DEF K, d
<1> QED BY <1>5, <1>10, <1>11, <1>12

LEMMA SendDownOK ==
  ASSUME NEW w, NEW H, NEW S, WOK(w, H, S), NEW p \in H, NEW n \in Nodes, Goes(n, w.mem.hdr[p])
  PROVE  LET v == SendDown(w, n, p) IN WOK(v, H \ {p}, S) /\ Did(w, v, H, p)
<1>1. CASE ~ Alive(n)
  <2>1. SendDown(w, n, p) = Freed(w, p)
    BY <1>1 DEF SendDown, TraceRecv
  <2>2. WOK(Freed(w, p), H \ {p}, S) /\ Gone(w, Freed(w, p), {p})
    BY FreedOK
  <2> QED BY <2>1, <2>2, GoneDid
<1>2. CASE Alive(n)
  <2> DEFINE u == Printed(w, n, "RTR", "s", p)
             v == IfqRecv(u, n, p)
  <2>1. SendDown(w, n, p) = v
    BY <1>2 DEF SendDown, TraceRecv
  <2>2. WOK(u, H, S) /\ Same(w, u)
    <3>1. <<"RTR", "s">> \in Tracers
      BY DEF Tracers
    <3> QED BY <1>2, <3>1, PrintedOK
  <2> HIDE DEF u
  <2>3. u.mem = w.mem
    BY <2>2 DEF Same
  <2>4. WOK(v, H \ {p}, S) /\ Did(u, v, H, p)
    BY <2>2, <2>3, IfqRecvOK
  <2> HIDE DEF v
  <2> QED BY <2>1, <2>2, <2>4, SameNear, DidAfter, HandsFree
<1> QED BY <1>1, <1>2

LEMMA ImepRecvOK ==
  ASSUME NEW w, NEW H, NEW S, WOK(w, H, S), NEW p \in H, NEW n \in Nodes, Goes(n, w.mem.hdr[p])
  PROVE  LET v == ImepRecv(w, n, p) IN WOK(v, H \ {p}, S) /\ Did(w, v, H, p)
<1>1. ImepRecv(w, n, p) = SendDown(w, n, p)
  BY DEF ImepRecv, Goes
<1> QED BY <1>1, SendDownOK

(* The handler writes to the header of a data packet in its hands.         *)
Written(w, p, h) == [w EXCEPT !.mem = [w.mem EXCEPT !.hdr = [w.mem.hdr EXCEPT ![p] = h]]]

LEMMA WrittenOK ==
  ASSUME NEW w, NEW H, NEW S, WOK(w, H, S), NEW p \in H, w.mem.hdr[p].ptype = "cbr",
         NEW h \in Headers, h.ptype = "cbr", h.uid = w.mem.hdr[p].uid, h.ttl > 0
  PROVE  LET v == Written(w, p, h) IN
         /\ WOK(v, H, S) /\ Near(w, v, p) /\ v.mem.hdr[p] = h
         /\ v.rqueue = w.rqueue /\ v.later = w.later /\ Contents(v) = Contents(w)
<1> DEFINE m == [w.mem EXCEPT !.hdr = [w.mem.hdr EXCEPT ![p] = h]]
           v == [w EXCEPT !.mem = m]
<1>1. Owned(w.mem, Contents(w), H, S, w.got)
  BY DEF WOK
<1>2. Logged(w.mem.hdr[p], S, w.got)
  BY <1>1 DEF Owned
<1>3. Logged(h, S, w.got)
  BY <1>2, OtherTypes DEF Logged
<1>4. /\ Owned(m, Contents(w), H, S, w.got) /\ m.hdr[p] = h
      /\ \A q \in Packets \ {p} : m.hdr[q] = w.mem.hdr[q]
  BY <1>1, <1>3, WrittenOwned
<1> HIDE DEF m
<1>5. \A q \in Stored(Contents(w)) : q \in Packets \ {p}
  BY <1>1 DEF Owned, Stored
<1>6. /\ WOK(v, H, S) /\ Contents(v) = Contents(w) /\ v.mem = m
      /\ v.rqueue = w.rqueue /\ v.later = w.later /\ v.got = w.got
  BY <1>4, <1>5, MemFrame
<1> HIDE DEF v
<1>7. Near(w, v, p)
  BY <1>4, <1>6 DEF Near
<1> QED BY <1>4, <1>6, <1>7 DEF Written, v, m

LEMMA WrittenTwice ==
  ASSUME NEW w \in Worlds, NEW p \in Packets, NEW a, NEW b
  PROVE  /\ Written(Written(w, p, a), p, b) = Written(w, p, b)
         /\ Written(w, p, a).mem.hdr[p] = a
<1> DEFINE m == w.mem
           f == m.hdr
           g == [f EXCEPT ![p] = a]
           k == [m EXCEPT !.hdr = g]
           u == Written(w, p, a)
<1>1. m \in Pools /\ f \in [Packets -> Headers]
  BY DEF Worlds, Pools
<1>2. u.mem = k
  BY DEF Written, Worlds
<1>3. k.hdr = g
  BY <1>1 DEF Pools
<1>4. g[p] = a /\ [g EXCEPT ![p] = b] = [f EXCEPT ![p] = b]
  BY <1>1
<1> DEFINE c == [f EXCEPT ![p] = b]
<1>5. [k EXCEPT !.hdr = c] = [m EXCEPT !.hdr = c]
  <2> HIDE DEF c, g
  <2> QED BY <1>1 DEF Pools
<1> DEFINE d == [m EXCEPT !.hdr = c]
<1>6. [u EXCEPT !.mem = d] = [w EXCEPT !.mem = d]
  <2> HIDE DEF d, k
  <2>1. u = [w EXCEPT !.mem = k]
    BY DEF Written, k
  <2> QED BY <2>1 DEF Worlds
<1>7. Written(u, p, b) = [u EXCEPT !.mem = d]
  <2>1. Written(u, p, b) = [u EXCEPT !.mem = [u.mem EXCEPT !.hdr = [u.mem.hdr EXCEPT ![p] = b]]]
    BY DEF Written
  <2> HIDE DEF u, k
  <2> QED BY <1>2, <1>3, <1>4, <1>5, <2>1
<1>8. Written(w, p, b) = [w EXCEPT !.mem = d]
  BY DEF Written
<1> HIDE DEF u, k, g, d
<1> QED BY <1>2, <1>3, <1>4, <1>6, <1>7, <1>8 DEF u

LEMMA BlamedOK ==
  ASSUME NEW w, NEW H, NEW S, WOK(w, H, S), NEW B, B \subseteq Faults
  PROVE  LET v == [w EXCEPT !.blamed = @ \cup B] IN
         WOK(v, H, S) /\ Contents(v) = Contents(w) /\ v.mem = w.mem /\ v.got = w.got
<1> DEFINE b == w.blamed \cup B
           v == [w EXCEPT !.blamed = b]
<1>1. w \in Worlds /\ b \subseteq Faults
  BY DEF WOK, Worlds
<1> HIDE DEF b
<1>2. /\ v \in Worlds /\ v.mem = w.mem
      /\ v.rqueue = w.rqueue /\ v.later = w.later /\ v.ifc = w.ifc /\ v.air = w.air
      /\ v.got = w.got /\ v.awk = w.awk /\ v.clashed = w.clashed
      /\ v.color = w.color /\ v.screen = w.screen
  BY <1>1 DEF Worlds
<1> HIDE DEF v
<1>3. Contents(v) = Contents(w)
  BY <1>2 DEF Contents
<1>4. Ordered(v)
  BY <1>2 DEF WOK, Ordered
<1>5. WOK(v, H, S)
  BY <1>2, <1>3, <1>4 DEF WOK
<1> QED BY <1>2, <1>3, <1>5 DEF v, b

LEMMA HeaderOf ==
  ASSUME NEW w, NEW H, NEW S, WOK(w, H, S), NEW p \in H
  PROVE  w.mem.hdr[p] \in Headers /\ p \in Packets
BY HandsFree DEF Pools

(* forward sends a packet on that waits at n: down, or to the scheduler.   *)
LEMMA ForwardOK ==
  ASSUME NEW w, NEW H, NEW S, WOK(w, H, S), NEW p \in H, NEW n \in Nodes,
         Waits(n, w.mem.hdr[p]), NEW hop \in Neighbours[n], NEW delayed \in BOOLEAN
  PROVE  LET v == Forward(w, n, p, hop, delayed) IN WOK(v, H \ {p}, S) /\ Did(w, v, H, p)
<1> DEFINE h == w.mem.hdr[p]
           g == [h EXCEPT !.next_hop = hop, !.prev_hop = n]
           u == Written(w, p, g)
           d == [w EXCEPT !.blamed = @ \cup Blame(n, hop, h)]
<1>1. h \in Headers /\ p \in Packets /\ hop \in Nodes /\ NoHop \notin Nodes
  BY HeaderOf, DataPathAssumption
<1>2. h.ptype = "cbr" /\ h.ttl > 0 /\ Sized(h, DefTTL)
  BY DEF Waits, Sized
<1>3. CASE hop = h.prev_hop
  <2> DEFINE v == Dropped(d, n, "RTR", p)
  <2>1. Forward(w, n, p, hop, delayed) = v
    BY <1>3 DEF Forward
  <2>2. Blame(n, hop, h) \subseteq Faults
    <3>1. CASE hop = h.from
      BY <3>1 DEF Blame
    <3>2. CASE hop # h.from
      <4>1. hop = 0 /\ h.saddr = n
        BY <1>3, <3>2 DEF Waits
      <4> QED BY <1>1, <4>1 DEF Blame, Faults
    <3> QED BY <3>1, <3>2
  <2>3. WOK(d, H, S) /\ Contents(d) = Contents(w) /\ d.mem = w.mem /\ d.got = w.got
    BY <2>2, BlamedOK
  <2> HIDE DEF d
  <2>4. WOK(v, H \ {p}, S) /\ Gone(d, v, {p})
    BY <2>3, DroppedOK
  <2> HIDE DEF v
  <2>5. Did(d, v, H, p)
    BY <2>3, <2>4, GoneDid
  <2>6. Near(w, d, p)
    BY <2>3 DEF Near
  <2> QED BY <2>1, <2>4, <2>5, <2>6, DidAfter, HandsFree
<1>4. CASE hop # h.prev_hop
  <2>1. g \in Headers /\ g.ptype = "cbr" /\ g.uid = h.uid /\ g.ttl = h.ttl
        /\ g.next_hop = hop /\ g.prev_hop = n /\ g.from = h.from
        /\ g.size = h.size /\ g.num_forwards = h.num_forwards
    BY <1>1, <1>2 DEF Headers
  <2>2. Forward(w, n, p, hop, delayed)
          = IF delayed THEN [u EXCEPT !.later[n] = @ \cup {p}] ELSE ImepRecv(u, n, p)
    <3>1. [w EXCEPT !.mem.hdr[p].next_hop = hop, !.mem.hdr[p].prev_hop = n] = u
      <4> DEFINE a == [h EXCEPT !.next_hop = hop]
                 b == Written(w, p, a)
                 c == [a EXCEPT !.prev_hop = n]
      <4>1. w \in Worlds
        BY HandsFree
      <4>2. [w EXCEPT !.mem.hdr[p].next_hop = hop, !.mem.hdr[p].prev_hop = n]
              = Written(b, p, [b.mem.hdr[p] EXCEPT !.prev_hop = n])
        BY DEF Written
      <4> HIDE DEF a
      <4>3. b.mem.hdr[p] = a /\ Written(b, p, c) = Written(w, p, c)
        BY <1>1, <4>1, WrittenTwice
      <4>4. c = g
        BY DEF a
      <4> HIDE DEF b, g
      <4>5. [b.mem.hdr[p] EXCEPT !.prev_hop = n] = g
        BY <4>3, <4>4
      <4> HIDE DEF c
      <4> QED BY <4>2, <4>3, <4>4, <4>5
    <3> HIDE DEF u
    <3> DEFINE uu == [w EXCEPT !.mem.hdr[p].next_hop = hop, !.mem.hdr[p].prev_hop = n]
    <3>2. Forward(w, n, p, hop, delayed)
            = IF delayed THEN [uu EXCEPT !.later[n] = @ \cup {p}] ELSE ImepRecv(uu, n, p)
      <4> DEFINE dd == Dropped(d, n, "RTR", p)
                 l == [uu EXCEPT !.later[n] = @ \cup {p}]
                 i == ImepRecv(uu, n, p)
      <4>1. Forward(w, n, p, hop, delayed) = IF hop = h.prev_hop THEN dd ELSE IF delayed THEN l ELSE i
        BY Zenon DEF Forward
      <4>2. hop # h.prev_hop
        BY <1>4
      <4> HIDE DEF dd, l, i, h
      <4>3. Forward(w, n, p, hop, delayed) = IF delayed THEN l ELSE i
        BY <4>1, <4>2
      <4> QED BY <4>3, Zenon DEF l, i
    <3>3. uu = u
      BY <3>1
    <3> HIDE DEF uu
    <3> QED BY <3>2, <3>3
  <2> HIDE DEF g
  <2>3. /\ WOK(u, H, S) /\ Near(w, u, p) /\ u.mem.hdr[p] = g
        /\ u.later = w.later
    BY <1>2, <2>1, WrittenOK
  <2> HIDE DEF u
  <2>4. Goes(n, g)
    <3>1. g.next_hop # g.from
      BY <1>1, <1>4, <2>1 DEF Waits
    <3> QED BY <1>2, <2>1, <3>1 DEF Goes, Sized
  <2>5. CASE ~ delayed
    <3> DEFINE v == ImepRecv(u, n, p)
    <3>1. WOK(v, H \ {p}, S) /\ Did(u, v, H, p)
      BY <2>3, <2>4, ImepRecvOK
    <3> HIDE DEF v
    <3> QED BY <2>2, <2>3, <2>5, <3>1, DidAfter, HandsFree DEF v
  <2>6. CASE delayed
    <3> DEFINE x == <<"later", n>>
               C == Contents(u)
               D == u.later[n] \cup {p}
               v == [u EXCEPT !.later[n] = D]
    <3>1. x \in Cells /\ C[x] = u.later[n]
      BY CellsOf DEF CellsAre
    <3>2. u \in Worlds /\ Ordered(u) /\ D \subseteq Packets
      BY <1>1, <2>3 DEF WOK, Worlds
    <3> HIDE DEF D, C
    <3>3. Rested(u, v, x, D)
      BY <3>2, LaterRests
    <3> HIDE DEF v, x
    <3>4. D = C[x] \cup {p} /\ p \notin C[x] /\ \A q \in C[x] : q \notin H
      BY <2>3, <3>1, HandsFree, HeaderOf DEF D, C, Stored, WOK, Owned
    <3>5. Fits(x, u.mem.hdr[p])
      BY <2>3, <2>4 DEF Fits, x
    <3>6. WOK(v, (H \cup C[x]) \ D, S)
      <4>1. D \subseteq C[x] \cup H /\ \A q \in D \ C[x] : Fits(x, u.mem.hdr[q])
        BY <3>4, <3>5
      <4> QED BY <2>3, <3>1, <3>3, <4>1, RestedOK DEF C
    <3>7. (H \cup C[x]) \ D = H \ {p}
      BY <3>4
    <3>8. Did(u, v, H, p)
      BY <2>3, <3>1, <3>3, <3>4, RestedDid DEF C
    <3>9. Forward(w, n, p, hop, delayed) = v
      BY <2>2, <2>6 DEF v, D
    <3> QED BY <2>3, <3>6, <3>7, <3>8, <3>9, DidAfter, HandsFree
  <2> QED BY <2>5, <2>6
<1> QED BY <1>3, <1>4

LEMMA RtResolveOK ==
  ASSUME NEW w, NEW H, NEW S, WOK(w, H, S), NEW p \in H, NEW n \in Nodes,
         Waits(n, w.mem.hdr[p]), NEW hop \in Hops(n)
  PROVE  LET v == RtResolve(w, n, p, hop) IN WOK(v, H \ {p}, S) /\ Did(w, v, H, p)
<1>1. CASE hop # NoHop
  <2>1. hop \in Neighbours[n] /\ FALSE \in BOOLEAN
    BY <1>1 DEF Hops
  <2> DEFINE no == FALSE
             v == Forward(w, n, p, hop, no)
  <2>2. RtResolve(w, n, p, hop) = v
    BY <1>1 DEF RtResolve
  <2> HIDE DEF no
  <2>3. WOK(v, H \ {p}, S) /\ Did(w, v, H, p)
    BY <2>1, ForwardOK DEF no
  <2> HIDE DEF v
  <2> QED BY <2>2, <2>3
<1>2. CASE hop = NoHop
  <2> DEFINE s == w.rqueue[n]
             z == Append(s, p)
             v == [w EXCEPT !.rqueue[n] = z]
             x == <<"rqueue", n>>
             C == Contents(w)
             D == ToSet(z)
  <2>1. RtResolve(w, n, p, hop) = v
    BY <1>2 DEF RtResolve
  <2>2. /\ x \in Cells /\ C[x] = ToSet(s)
    BY CellsOf DEF CellsAre
  <2>3. /\ w \in Worlds /\ Ordered(w) /\ p \in Packets /\ s \in Seq(Packets)
        /\ \A j, k \in DOMAIN s : s[j] = s[k] => j = k
    BY HeaderOf DEF WOK, Worlds, Ordered
  <2>4. C \in [Cells -> SUBSET Packets] /\ C[x] \subseteq Stored(C) /\ Stored(C) \subseteq Packets
        /\ p \notin Stored(C) /\ H \subseteq Packets /\ \A q \in H : q \notin Stored(C)
    <3>1. C \in [Cells -> SUBSET Packets]
      BY DEF WOK, Owned
    <3> QED BY <2>2, <3>1, StoredIn, HandsFree
  <2> HIDE DEF C, x, v
  <2>5. /\ z \in Seq(Packets) /\ Len(z) = Len(s) + 1 /\ z[Len(s) + 1] = p
        /\ \A k \in 1 .. Len(s) : z[k] = s[k]
    BY <2>3
  <2>6. p \notin ToSet(s)
    BY <2>2, <2>4
  <2> HIDE DEF z
  <2> HIDE DEF s
  <2>7. D = C[x] \cup {p} /\ \A j, k \in DOMAIN z : z[j] = z[k] => j = k
    <3>1. DOMAIN z = 1 .. Len(s) + 1 /\ DOMAIN s = 1 .. Len(s) /\ Len(s) \in Nat
      BY <2>3, <2>5
    <3>2. \A k \in 1 .. Len(s) : s[k] # p
      BY <2>6, <3>1 DEF ToSet
    <3>3. \A j, k \in DOMAIN z : z[j] = z[k] => j = k
      BY <2>3, <2>5, <3>1, <3>2
    <3>4. D = ToSet(s) \cup {p}
      <4>1. ASSUME NEW q \in D PROVE q \in ToSet(s) \cup {p}
        <5>1. PICK k \in DOMAIN z : z[k] = q
          BY <4>1 DEF ToSet
        <5> QED BY <2>5, <3>1, <5>1 DEF ToSet
      <4>2. ASSUME NEW q \in ToSet(s) PROVE q \in D
        <5>1. PICK k \in DOMAIN s : s[k] = q
          BY <4>2 DEF ToSet
        <5>2. k \in DOMAIN z /\ z[k] = q
          BY <2>5, <3>1, <5>1
        <5> QED BY <5>2 DEF ToSet
      <4>3. p \in D
        <5>1. Len(s) + 1 \in DOMAIN z
          BY <3>1
        <5> QED BY <2>5, <5>1 DEF ToSet
      <4> QED BY <4>1, <4>2, <4>3
    <3> QED BY <2>2, <3>3, <3>4
  <2>8. Rested(w, v, x, D)
    BY <2>3, <2>5, <2>7, RqueueRests DEF v, x
  <2> HIDE DEF D
  <2>9. Fits(x, w.mem.hdr[p])
    BY DEF Fits, x
  <2>10. WOK(v, (H \cup C[x]) \ D, S)
    <3>1. D \subseteq C[x] \cup H /\ \A q \in D \ C[x] : Fits(x, w.mem.hdr[q])
      BY <2>7, <2>9
    <3> QED BY <2>2, <2>8, <3>1, RestedOK DEF C
  <2>11. (H \cup C[x]) \ D = H \ {p}
    BY <2>4, <2>7
  <2>12. Did(w, v, H, p)
    BY <2>2, <2>7, <2>8, RestedDid DEF C
  <2> QED BY <2>1, <2>10, <2>11, <2>12
<1> QED BY <1>1, <1>2

(* The header the agent has filled in, which no node has touched yet.      *)
Starts(n, h) ==
  /\ h.ptype = "cbr" /\ h.size = Size /\ h.num_forwards = 0 /\ h.saddr = n /\ h.prev_hop = 0
  /\ h.from = NoHop

LEMMA ToraRecvOK ==
  ASSUME NEW w, NEW H, NEW S, WOK(w, H, S), NEW p \in H, NEW n \in Nodes,
         Starts(n, w.mem.hdr[p]) \/ Comes(n, w.mem.hdr[p]), NEW hop \in Hops(n)
  PROVE  LET v == ToraRecv(w, n, p, hop) IN WOK(v, H \ {p}, S) /\ Did(w, v, H, p)
<1> DEFINE h == w.mem.hdr[p]
<1>1. h \in Headers /\ p \in Packets /\ w \in Worlds /\ DefTTL \in Nat \ {0} /\ NoHop \notin Nodes
      /\ IpHdrLen \in Nat /\ Size \in Nat
  BY HeaderOf, HandsFree, DataPathAssumption
<1>2. CASE Starts(n, h)
  <2> DEFINE a == [h EXCEPT !.size = @ + IpHdrLen]
             g == [a EXCEPT !.ttl = DefTTL]
             b == Written(w, p, a)
             u == Written(w, p, g)
             v == RtResolve(u, n, p, hop)
  <2>1. /\ g \in Headers /\ g.ptype = "cbr" /\ g.uid = h.uid /\ g.ttl = DefTTL
        /\ g.size = Size + IpHdrLen /\ g.num_forwards = 0 /\ g.saddr = n /\ g.prev_hop = 0
        /\ g.from = NoHop
    <3>1. /\ a \in Headers /\ a.ptype = "cbr" /\ a.uid = h.uid /\ a.size = Size + IpHdrLen
          /\ a.num_forwards = 0 /\ a.saddr = n /\ a.prev_hop = 0 /\ a.from = NoHop
      BY <1>1, <1>2 DEF Headers, Starts
    <3> HIDE DEF a
    <3> QED BY <1>1, <3>1 DEF Headers
  <2>2. [w EXCEPT !.mem.hdr[p].size = @ + IpHdrLen, !.mem.hdr[p].ttl = DefTTL] = u
    <3>1. [w EXCEPT !.mem.hdr[p].size = @ + IpHdrLen, !.mem.hdr[p].ttl = DefTTL]
            = Written(b, p, [b.mem.hdr[p] EXCEPT !.ttl = DefTTL])
      BY DEF Written
    <3> HIDE DEF a
    <3>2. b.mem.hdr[p] = a /\ Written(b, p, g) = u
      <4>1. w \in Worlds /\ p \in Packets
        BY <1>1
      <4> HIDE DEF g, h
      <4> QED BY <4>1, WrittenTwice
    <3> HIDE DEF b, u
    <3> QED BY <3>1, <3>2
  <2>3. ToraRecv(w, n, p, hop) = v
    <3> DEFINE z == [w EXCEPT !.mem.hdr[p].size = @ + IpHdrLen, !.mem.hdr[p].ttl = DefTTL]
    <3>1. h.saddr = n /\ h.num_forwards = 0
      BY <1>2 DEF Starts
    <3>2. ToraRecv(w, n, p, hop) = RtResolve(z, n, p, hop)
      BY <3>1, Zenon DEF ToraRecv
    <3>3. z = u
      BY Zenon, <2>2
    <3> HIDE DEF z, u
    <3> QED BY <3>2, <3>3
  <2> HIDE DEF g
  <2>4. WOK(u, H, S) /\ Near(w, u, p) /\ u.mem.hdr[p] = g
    BY <1>1, <1>2, <2>1, WrittenOK DEF Starts
  <2>5. Waits(n, g)
    BY <1>1, <2>1 DEF Waits, Sized
  <2> HIDE DEF u
  <2>6. WOK(v, H \ {p}, S) /\ Did(u, v, H, p)
    BY <2>4, <2>5, RtResolveOK
  <2> HIDE DEF v
  <2> QED BY <2>3, <2>4, <2>6, DidAfter, HandsFree
<1>3. CASE Comes(n, h)
  <2>1. /\ h.num_forwards > 0 /\ h.num_forwards \in Nat /\ h.ttl \in 0 .. DefTTL /\ h.ttl > 0
        /\ h.ttl + h.num_forwards = DefTTL + 1 /\ h.ptype = "cbr" /\ h.size = Size + IpHdrLen
        /\ h.from \in Nodes /\ h.prev_hop = h.from
    BY <1>1, <1>3 DEF Comes, Sized, Headers
  <2>2. CASE h.saddr = n \/ h.ttl = 1
    <3> DEFINE v == Dropped(w, n, "RTR", p)
    <3>1. ToraRecv(w, n, p, hop) = v
      <4>1. h.num_forwards # 0
        BY <2>1
      <4> QED BY <2>2, <4>1, Zenon DEF ToraRecv
    <3>2. WOK(v, H \ {p}, S) /\ Gone(w, v, {p})
      BY DroppedOK
    <3> HIDE DEF v
    <3> QED BY <3>1, <3>2, GoneDid
  <2>3. CASE ~ (h.saddr = n \/ h.ttl = 1)
    <3> DEFINE g == [h EXCEPT !.ttl = @ - 1]
               u == Written(w, p, g)
               v == RtResolve(u, n, p, hop)
    <3>1. /\ g \in Headers /\ g.ptype = "cbr" /\ g.uid = h.uid /\ g.ttl = h.ttl - 1 /\ g.ttl > 0
          /\ g.size = Size + IpHdrLen /\ g.num_forwards = h.num_forwards
          /\ g.from = h.from /\ g.prev_hop = h.prev_hop
      BY <1>1, <2>1, <2>3 DEF Headers
    <3>2. ToraRecv(w, n, p, hop) = v
      <4> DEFINE z == [w EXCEPT !.mem.hdr[p].ttl = @ - 1]
      <4>1. z = u
        BY DEF Written
      <4> DEFINE c == h.saddr = n /\ h.num_forwards = 0
                 e == h.saddr = n \/ h.ttl = 1
                 x == RtResolve([w EXCEPT !.mem.hdr[p].size = @ + IpHdrLen,
                                          !.mem.hdr[p].ttl = DefTTL], n, p, hop)
                 y == Dropped(w, n, "RTR", p)
                 r == RtResolve(z, n, p, hop)
      <4>2. ToraRecv(w, n, p, hop) = IF c THEN x ELSE IF e THEN y ELSE r
        BY Zenon DEF ToraRecv
      <4>3. ~ c /\ ~ e
        BY <2>3
      <4> HIDE DEF c, e, x, y, r
      <4>4. ToraRecv(w, n, p, hop) = r
        BY <4>2, <4>3
      <4> HIDE DEF z, u
      <4> QED BY <4>1, <4>4 DEF r
    <3> HIDE DEF g
    <3>3. WOK(u, H, S) /\ Near(w, u, p) /\ u.mem.hdr[p] = g
      BY <2>1, <3>1, WrittenOK
    <3>4. Waits(n, g)
      BY <1>1, <2>1, <3>1 DEF Waits, Sized
    <3> HIDE DEF u
    <3>5. WOK(v, H \ {p}, S) /\ Did(u, v, H, p)
      BY <3>3, <3>4, RtResolveOK
    <3> HIDE DEF v
    <3> QED BY <3>2, <3>3, <3>5, DidAfter, HandsFree
  <2> QED BY <2>2, <2>3
<1> QED BY <1>2, <1>3

-----------------------------------------------------------------------------
(* The packets in the cells of v were in those of w, with their numbers.   *)
Kept(w, v) ==
  /\ v.got = w.got /\ Stored(Contents(v)) \subseteq Stored(Contents(w))
  /\ \A p \in Stored(Contents(v)) : /\ v.mem.hdr[p].ptype = w.mem.hdr[p].ptype
                                    /\ v.mem.hdr[p].uid = w.mem.hdr[p].uid

LEMMA KeptThen ==
  ASSUME NEW w, NEW u, NEW v, Kept(w, u), Kept(u, v)
  PROVE  Kept(w, v)
BY DEF Kept

LEMMA GoneKept ==
  ASSUME NEW w, NEW H, NEW S, WOK(w, H, S), NEW D, D \subseteq H, NEW v, Gone(w, v, D)
  PROVE  Kept(w, v)
<1>1. Stored(Contents(w)) \subseteq Packets \ D
  BY HandsFree DEF Stored
<1> QED BY <1>1 DEF Kept, Gone

LEMMA RestedKept ==
  ASSUME NEW w, NEW H, NEW S, WOK(w, H, S), NEW x \in Cells, NEW D, D \subseteq Contents(w)[x],
         NEW v, Rested(w, v, x, D)
  PROVE  Kept(w, v)
<1> DEFINE C == Contents(w)
           E == Contents(v)
<1>1. C \in [Cells -> SUBSET Packets] /\ E = [C EXCEPT ![x] = D] /\ D \subseteq C[x]
  BY DEF WOK, Owned, Rested
<1>2. v.mem = w.mem /\ v.got = w.got
  BY DEF Rested
<1> HIDE DEF C, E
<1>3. \A y \in Cells : E[y] \subseteq C[y]
  BY <1>1
<1>4. Stored(E) \subseteq Stored(C)
  BY <1>3 DEF Stored
<1> QED BY <1>2, <1>4 DEF Kept, C, E

(* recvTORA sends on all that waits for a route.                           *)
LEMMA FlushedOK ==
  ASSUME NEW w, NEW S, WOK(w, {}, S), NEW n \in Nodes, NEW hop \in Neighbours[n]
  PROVE  LET v == Flushed(w, n, hop) IN WOK(v, {}, S) /\ Kept(w, v)
<1> DEFINE q == w.rqueue[n]
           u == [w EXCEPT !.rqueue[n] = <<>>]
           K == Len(q)
           R(i) == {q[j] : j \in i + 1 .. K}
           Left(v, i) == /\ WOK(v, R(i), S) /\ Kept(w, v)
                         /\ \A p \in R(i) : v.mem.hdr[p] = w.mem.hdr[p]
           W == [i \in Nat |-> {v \in Worlds : Left(v, i)}]
           turn(v, i) == Forward(v, n, q[i], hop, i > 1)
           Good(g) == g = [k \in 0 .. K |-> IF k = 0 THEN u ELSE turn(g[k - 1], k)]
           after == CHOOSE g : Good(g)
           V == UNION {W[i] : i \in 0 .. K}
           F == [z \in V \X Nat |-> IF z[2] \in 1 .. K /\ turn(z[1], z[2]) \in V
                                    THEN turn(z[1], z[2]) ELSE z[1]]
<1>1. /\ K \in Nat /\ DOMAIN q = 1 .. K /\ q \in Seq(Packets)
      /\ \A j, k \in 1 .. K : q[j] = q[k] => j = k
  <2>1. q \in Seq(Packets) /\ \A j, k \in DOMAIN q : q[j] = q[k] => j = k
    BY DEF WOK, Worlds, Ordered
  <2> QED BY <2>1
<1>2. WOK(u, R(0), S) /\ Kept(w, u) /\ u.mem = w.mem
  <2> DEFINE x == <<"rqueue", n>>
             C == Contents(w)
             s == <<>>
  <2>1. w \in Worlds /\ Ordered(w)
    BY DEF WOK
  <2>2. s \in Seq(Packets) /\ ToSet(s) = {} /\ \A j, k \in DOMAIN s : s[j] = s[k] => j = k
    BY DEF ToSet
  <2>3. x \in Cells /\ C[x] = ToSet(q)
    BY CellsOf DEF CellsAre
  <2>4. ToSet(q) = R(0)
    BY <1>1 DEF ToSet
  <2>5. u = [w EXCEPT !.rqueue[n] = s]
    OBVIOUS
  <2> HIDE DEF s, R, q
  <2>6. Rested(w, u, x, {})
    <3>1. Rested(w, [w EXCEPT !.rqueue[n] = s], x, ToSet(s))
      BY <2>1, <2>2, RqueueRests
    <3> QED BY <2>2, <2>5, <3>1
  <2> HIDE DEF u, x
  <2>7. WOK(u, ({} \cup C[x]) \ {}, S)
    BY <2>3, <2>6, RestedOK
  <2>8. Kept(w, u)
    BY <2>3, <2>6, RestedKept
  <2> QED BY <2>3, <2>4, <2>6, <2>7, <2>8 DEF Rested
<1>3. \A i \in 1 .. K : Waits(n, w.mem.hdr[q[i]])
  <2> SUFFICES ASSUME NEW i \in 1 .. K PROVE Waits(n, w.mem.hdr[q[i]])
    OBVIOUS
  <2> DEFINE x == <<"rqueue", n>>
             p == q[i]
  <2>1. x \in Cells /\ Contents(w)[x] = ToSet(q)
    BY CellsOf DEF CellsAre
  <2>2. p \in ToSet(q)
    BY <1>1 DEF ToSet
  <2> HIDE DEF p, q
  <2>3. Fits(x, w.mem.hdr[p])
    BY <2>1, <2>2 DEF WOK, Owned
  <2> QED BY <2>3 DEF Fits, p
<1>4. u \in W[0] /\ u \in V
  <2>1. u \in Worlds /\ \A p \in R(0) : u.mem.hdr[p] = w.mem.hdr[p]
    BY <1>2 DEF WOK
  <2>2. 0 \in 0 .. K
    BY <1>1
  <2> HIDE DEF u, R, K
  <2>3. u \in W[0]
    BY <1>2, <2>1
  <2> HIDE DEF W
  <2> QED BY <2>2, <2>3
<1>5. ASSUME NEW i \in 1 .. K, NEW v \in W[i - 1] PROVE turn(v, i) \in W[i]
  <2> DEFINE p == q[i]
             r == turn(v, i)
             d == i > 1
  <2>1. i - 1 \in Nat /\ i \in Nat /\ d \in BOOLEAN
    BY <1>1
  <2>2. p \in R(i - 1) /\ R(i) = R(i - 1) \ {p}
    <3>1. i - 1 + 1 = i
      BY <2>1
    <3>2. \A j \in 1 .. K : j \in i - 1 + 1 .. K <=> j = i \/ j \in i + 1 .. K
      BY <1>1, <2>1
    <3>3. \A j \in i - 1 + 1 .. K : j \in 1 .. K
      BY <1>1, <2>1
    <3>4. \A j \in i + 1 .. K : j \in 1 .. K /\ j # i
      BY <1>1, <2>1
    <3> HIDE DEF q, K
    <3> QED BY <1>1, <3>1, <3>2, <3>3, <3>4
  <2>3. Left(v, i - 1)
    BY <2>1
  <2>4. Waits(n, v.mem.hdr[p])
    BY <1>3, <2>2, <2>3
  <2>5. r = Forward(v, n, p, hop, d)
    OBVIOUS
  <2> HIDE DEF R, W, p, d, turn
  <2>6. WOK(r, R(i - 1) \ {p}, S) /\ Did(v, r, R(i - 1), p)
    <3> HIDE DEF q, r
    <3> DEFINE z == Forward(v, n, p, hop, d)
    <3>1. WOK(z, R(i - 1) \ {p}, S) /\ Did(v, z, R(i - 1), p)
      BY <2>1, <2>2, <2>3, <2>4, ForwardOK
    <3> HIDE DEF z
    <3> QED BY <2>5, <3>1 DEF z
  <2> HIDE DEF r
  <2>7. Kept(w, r)
    <3>1. Stored(Contents(v)) \subseteq Stored(Contents(w)) /\ v.got = w.got
      BY <2>3 DEF Kept
    <3>2. /\ \A y \in Stored(Contents(r)) : y # p => r.mem.hdr[y] = v.mem.hdr[y]
          /\ Stored(Contents(r)) \subseteq Stored(Contents(v)) \cup {p}
          /\ r.got = v.got
          /\ p \in Stored(Contents(r)) => /\ r.mem.hdr[p].ptype = v.mem.hdr[p].ptype
                                          /\ r.mem.hdr[p].uid = v.mem.hdr[p].uid
      BY <2>6 DEF Did
    <3>3. v.mem.hdr[p] = w.mem.hdr[p]
      BY <2>2, <2>3
    <3>4. p \in Stored(Contents(w))
      <4>1. <<"rqueue", n>> \in Cells /\ Contents(w)[<<"rqueue", n>>] = ToSet(q)
        BY CellsOf DEF CellsAre
      <4>2. p \in ToSet(q) /\ p \in Packets
        BY <1>1 DEF ToSet, p
      <4> HIDE DEF q
      <4> QED BY <4>1, <4>2 DEF Stored
    <3> HIDE DEF q
    <3> QED BY <2>3, <3>1, <3>2, <3>3, <3>4 DEF Kept
  <2>8. \A y \in R(i) : r.mem.hdr[y] = w.mem.hdr[y]
    BY <2>2, <2>3, <2>6 DEF Did
  <2>9. r \in Worlds /\ Left(r, i)
    BY <2>2, <2>6, <2>7, <2>8 DEF WOK
  <2> HIDE DEF Left
  <2> QED BY <2>1, <2>9 DEF W, r
<1>6. F \in [V \X Nat -> V]
  <2> HIDE DEF V, turn
  <2> QED OBVIOUS
<1>7. PICK g \in [0 .. K -> V] : Iterates(g, u, F, K)
  <2> HIDE DEF F, V, K, u
  <2> QED BY <1>1, <1>4, <1>6, IterationExists
<1>8. Good(g)
  <2>1. g[0] = u /\ \A i \in 1 .. K : g[i] = F[<<g[i - 1], i>>]
    <3> HIDE DEF F, u, K
    <3> QED BY <1>7 DEF Iterates
  <2>2. ASSUME NEW i \in 1 .. K, g[i - 1] \in W[i - 1] PROVE g[i] = turn(g[i - 1], i) /\ g[i] \in W[i]
    <3> HIDE DEF turn, W, u
    <3>1. turn(g[i - 1], i) \in W[i]
      BY <1>5, <2>2
    <3>2. turn(g[i - 1], i) \in V /\ g[i - 1] \in V /\ i \in Nat
      <4>1. i \in 0 .. K /\ i - 1 \in 0 .. K /\ i \in Nat
        BY <1>1
      <4> QED BY <2>2, <3>1, <4>1
    <3>3. F[<<g[i - 1], i>>] = turn(g[i - 1], i)
      <4> HIDE DEF turn, V, W
      <4> QED BY <3>2
    <3> HIDE DEF F
    <3> QED BY <2>1, <3>1, <3>3
  <2> HIDE DEF turn, W, F, V, K, u
  <2>3. \A k \in 0 .. K : g[k] \in W[k]
    <3> SUFFICES ASSUME NEW k \in 0 .. K PROVE g[k] \in W[k]
      OBVIOUS
    <3>1. k \in Nat /\ \A i \in 1 .. k : i \in 1 .. K
      BY <1>1
    <3> QED BY <1>4, <2>1, <2>2, <3>1, Reached
  <2>4. \A k \in 1 .. K : k - 1 \in 0 .. K
    BY <1>1
  <2>5. \A k \in 0 .. K : g[k] = IF k = 0 THEN u ELSE turn(g[k - 1], k)
    BY <1>1, <2>1, <2>2, <2>3, <2>4
  <2> QED BY <2>5
<1>9. Good(after)
  <2> HIDE DEF Good
  <2> QED BY <1>8
<1>10. after[K] \in W[K]
  <2>1. after[0] = u /\ \A i \in 1 .. K : after[i] = turn(after[i - 1], i)
    <3> HIDE DEF after, turn, K, u
    <3> QED BY <1>1, <1>9
  <2> HIDE DEF after, turn, W, K, u
  <2>2. \A i \in 1 .. K : after[i - 1] \in W[i - 1] => after[i] \in W[i]
    BY <1>5, <2>1
  <2> QED BY <1>1, <1>4, <2>1, <2>2, Reached
<1>11. Flushed(w, n, hop) = after[K]
  BY DEF Flushed
<1>12. R(K) = {}
  BY <1>1
<1> HIDE DEF after, R, u
<1> QED BY <1>1, <1>10, <1>11, <1>12

-----------------------------------------------------------------------------
(* A step of the nodes leaves them in the world its handler has made.      *)
LEMMA WorldNext ==
  ASSUME NEW v \in Worlds, Become(v)
  PROVE  World' = v
BY DEF Become, World, Worlds

LEMMA NextOK ==
  ASSUME NEW S, NEW v, WOK(v, {}, S), World' = v, (sent \ mute)' = S, UNCHANGED <<taps, energy>>
  PROVE  WOK(World, {}, sent \ mute)'
<1>1. energy' = energy /\ taps' = taps
  OBVIOUS
<1>2. \A n : Level(n)' = EnergyLevel(energy'[n], 50, 20) /\ Level(n) = EnergyLevel(energy[n], 50, 20)
  BY DEF Level
<1>3. \A n : Level(n)' = Level(n)
  BY <1>1, <1>2
<1>4. Painted(v.color, v.screen)
  BY DEF WOK
<1>5. Painted(World.color, World.screen)'
  BY <1>3, <1>4 DEF Painted
<1>6. Owned(v.mem, Contents(v), {}, S, v.got)
  BY DEF WOK
<1>7. Owned(World.mem, Contents(World), {}, sent \ mute, World.got)'
  BY <1>1, <1>6 DEF Owned
<1> QED BY <1>1, <1>5, <1>7 DEF WOK

(* The data packets of a world, and their numbers.                         *)
DataOf(w) == {p \in Stored(Contents(w)) : w.mem.hdr[p].ptype = "cbr"}
Carried(w) == {w.mem.hdr[p].uid : p \in DataOf(w)}

(* Nothing is sent or received, and no packet turns up.                    *)
Loss == sent' = sent /\ got' = got /\ Carried(World') \subseteq Carried(World)

LEMMA LossStep ==
  ASSUME IInv, NEW v, Become(v), UNCHANGED <<taps, energy, sent, mute>>,
         WOK(v, {}, sent \ mute), Once(v), Carried(v) \subseteq Carried(World), v.got = got
  PROVE  IInv' /\ Loss
<1>1. v \in Worlds
  BY DEF WOK
<1>2. World' = v
  BY <1>1, WorldNext
<1>3. WOK(World, {}, sent \ mute)'
  <2>1. (sent \ mute)' = sent \ mute
    OBVIOUS
  <2> QED BY <1>2, <2>1, NextOK
<1>4. Once(World)'
  BY <1>2 DEF Once
<1>5. got' = got
  BY DEF Become
<1> QED BY <1>2, <1>3, <1>4, <1>5 DEF IInv, Loss

LEMMA KeptOnce ==
  ASSUME NEW w, NEW v, Once(w), Kept(w, v)
  PROVE  Once(v) /\ Carried(v) \subseteq Carried(w)
<1>1. Once(v)
  BY DEF Once, Kept
<1>2. Carried(v) \subseteq Carried(w)
  BY DEF Carried, DataOf, Kept
<1> QED BY <1>1, <1>2

LEMMA KeptStep ==
  ASSUME IInv, NEW v, Become(v), UNCHANGED <<taps, energy, sent, mute>>,
         WOK(v, {}, sent \ mute), Kept(World, v)
  PROVE  IInv' /\ Loss
<1>1. Once(v) /\ Carried(v) \subseteq Carried(World)
  BY KeptOnce DEF IInv
<1>2. v.got = got
  BY DEF Kept, World
<1> QED BY <1>1, <1>2, LossStep

(* A packet is taken out of its cell and handled.                          *)
LEMMA DidKept ==
  ASSUME NEW w, NEW H, NEW S, WOK(w, H, S), NEW x \in Cells, NEW p \in Contents(w)[x],
         NEW u, Rested(w, u, x, Contents(w)[x] \ {p}), NEW v, Did(u, v, {p}, p)
  PROVE  Kept(w, v)
<1>1. Contents(w) \in [Cells -> SUBSET Packets]
  BY DEF WOK, Owned
<1>2. p \in Stored(Contents(w))
  BY <1>1 DEF Stored
<1>3. u.mem = w.mem
  BY DEF Rested
<1>4. Kept(w, u)
  BY RestedKept
<1> QED BY <1>2, <1>3, <1>4 DEF Kept, Did

(* The world with the packet in hand.                                      *)
LEMMA TakenOut ==
  ASSUME NEW w, NEW S, WOK(w, {}, S), NEW x \in Cells, NEW p \in Contents(w)[x],
         NEW u, Rested(w, u, x, Contents(w)[x] \ {p})
  PROVE  WOK(u, {p}, S) /\ Fits(x, u.mem.hdr[p]) /\ p \in Packets /\ u.mem = w.mem /\ u.got = w.got
<1> DEFINE C == Contents(w)
           D == C[x] \ {p}
<1>1. WOK(u, ({} \cup C[x]) \ D, S)
  BY RestedOK
<1>2. ({} \cup C[x]) \ D = {p}
  OBVIOUS
<1> QED BY <1>1, <1>2 DEF WOK, Owned, Rested

LEMMA FlushStep == ASSUME IInv, NEW n \in Nodes, NEW hop, Flush(n, hop) PROVE IInv' /\ Loss
<1> DEFINE v == Flushed(World, n, hop)
<1>1. Become(v) /\ UNCHANGED <<taps, energy, sent, mute>> /\ hop \in Neighbours[n]
  BY DEF Flush
<1>2. WOK(v, {}, sent \ mute) /\ Kept(World, v)
  BY <1>1, FlushedOK DEF IInv
<1> HIDE DEF v
<1> QED BY <1>1, <1>2, KeptStep

LEMMA ReleaseStep == ASSUME IInv, NEW n \in Nodes, NEW p, Release(n, p) PROVE IInv' /\ Loss
<1> DEFINE D == World.later[n] \ {p}
           u == [World EXCEPT !.later[n] = D]
           x == <<"later", n>>
           v == ImepRecv(u, n, p)
           S == sent \ mute
<1>1. Become(v) /\ UNCHANGED <<taps, energy, sent, mute>> /\ p \in World.later[n]
  BY DEF Release, World
<1>2. WOK(World, {}, S) /\ World \in Worlds /\ Ordered(World)
  BY DEF IInv, WOK
<1>3. x \in Cells /\ Contents(World)[x] = World.later[n] /\ D \subseteq Packets
  BY <1>2, CellsOf DEF CellsAre, Worlds
<1> DEFINE w == World
<1> HIDE DEF w, S, x
<1>4. Rested(w, u, x, Contents(w)[x] \ {p})
  BY <1>2, <1>3, LaterRests DEF w, x
<1> HIDE DEF u
<1>5. WOK(u, {p}, S) /\ Fits(x, u.mem.hdr[p])
  BY <1>1, <1>2, <1>3, <1>4, TakenOut DEF w
<1>6. Goes(n, u.mem.hdr[p])
  BY <1>5 DEF Fits, x
<1>7. WOK(v, {p} \ {p}, S) /\ Did(u, v, {p}, p)
  BY <1>5, <1>6, ImepRecvOK
<1> HIDE DEF v
<1>8. WOK(v, {}, S)
  <2>1. {p} \ {p} = {}
    OBVIOUS
  <2> QED BY <1>7, <2>1
<1>9. Kept(w, v)
  BY <1>1, <1>2, <1>3, <1>4, <1>7, DidKept DEF w
<1> QED BY <1>1, <1>8, <1>9, KeptStep DEF w, S

LEMMA TailOf ==
  ASSUME NEW s \in Seq(Packets), s # <<>>, \A j, k \in DOMAIN s : s[j] = s[k] => j = k
  PROVE  /\ Tail(s) \in Seq(Packets) /\ Head(s) \in ToSet(s)
         /\ ToSet(Tail(s)) = ToSet(s) \ {Head(s)}
         /\ \A j, k \in DOMAIN Tail(s) : Tail(s)[j] = Tail(s)[k] => j = k
<1> DEFINE t == Tail(s)
<1>1. /\ t \in Seq(Packets) /\ Len(t) = Len(s) - 1 /\ Len(s) \in Nat \ {0} /\ Head(s) = s[1]
      /\ \A k \in 1 .. Len(s) - 1 : t[k] = s[k + 1]
  OBVIOUS
<1>2. DOMAIN s = 1 .. Len(s) /\ DOMAIN t = 1 .. Len(s) - 1
  BY <1>1
<1> HIDE DEF t
<1>3. \A j, k \in DOMAIN t : t[j] = t[k] => j = k
  <2> SUFFICES ASSUME NEW j \in DOMAIN t, NEW k \in DOMAIN t, t[j] = t[k] PROVE j = k
    OBVIOUS
  <2>1. j \in Nat /\ k \in Nat /\ j + 1 \in DOMAIN s /\ k + 1 \in DOMAIN s
    BY <1>1, <1>2
  <2>2. s[j + 1] = s[k + 1]
    BY <1>1, <1>2
  <2>3. j + 1 = k + 1
    BY <2>1, <2>2
  <2> QED BY <2>1, <2>3
<1>4. ASSUME NEW p \in ToSet(t) PROVE p \in ToSet(s) \ {s[1]}
  <2>1. PICK k \in DOMAIN t : t[k] = p
    BY <1>4 DEF ToSet
  <2>2. k + 1 \in DOMAIN s /\ k + 1 # 1 /\ s[k + 1] = p /\ 1 \in DOMAIN s
    BY <1>1, <1>2, <2>1
  <2> QED BY <2>2 DEF ToSet
<1>5. ASSUME NEW p \in ToSet(s) \ {s[1]} PROVE p \in ToSet(t)
  <2>1. PICK k \in DOMAIN s : s[k] = p
    BY <1>5 DEF ToSet
  <2>2. k # 1
    BY <1>5, <2>1
  <2>3. k - 1 \in DOMAIN t /\ (k - 1) + 1 = k
    BY <1>1, <1>2, <2>2
  <2>4. t[k - 1] = p
    BY <1>1, <1>2, <2>1, <2>3
  <2> QED BY <2>3, <2>4 DEF ToSet
<1>6. s[1] \in ToSet(s)
  BY <1>1, <1>2 DEF ToSet
<1> QED BY <1>1, <1>3, <1>4, <1>5, <1>6 DEF t

LEMMA ExpireStep == ASSUME IInv, NEW n \in Nodes, Expire(n) PROVE IInv' /\ Loss
<1> DEFINE s == World.rqueue[n]
           t == Tail(s)
           p == Head(s)
           u == [World EXCEPT !.rqueue[n] = t]
           x == <<"rqueue", n>>
           v == Dropped(u, n, "RTR", p)
           S == sent \ mute
<1>1. Become(v) /\ UNCHANGED <<taps, energy, sent, mute>> /\ s # <<>>
  BY DEF Expire, World
<1>2. WOK(World, {}, S) /\ World \in Worlds /\ Ordered(World)
  BY DEF IInv, WOK
<1> DEFINE w == World
<1> HIDE DEF w, S
<1>3. s \in Seq(Packets) /\ \A j, k \in DOMAIN s : s[j] = s[k] => j = k
  BY <1>2 DEF Worlds, Ordered
<1>4. x \in Cells /\ Contents(w)[x] = ToSet(s)
  BY CellsOf DEF CellsAre, w
<1> HIDE DEF s, x
<1>5. /\ t \in Seq(Packets) /\ p \in ToSet(s) /\ ToSet(t) = ToSet(s) \ {p}
      /\ \A j, k \in DOMAIN t : t[j] = t[k] => j = k
  BY <1>1, <1>3, TailOf
<1> HIDE DEF t, p
<1>6. Rested(w, u, x, Contents(w)[x] \ {p})
  <2>1. Rested(w, u, x, ToSet(t))
    BY <1>2, <1>5, RqueueRests DEF w, x
  <2> QED BY <1>4, <1>5, <2>1
<1> HIDE DEF u
<1>7. WOK(u, {p}, S)
  BY <1>2, <1>4, <1>5, <1>6, TakenOut DEF w
<1>8. WOK(v, {p} \ {p}, S) /\ Gone(u, v, {p})
  BY <1>7, DroppedOK
<1> HIDE DEF v
<1>9. WOK(v, {}, S)
  <2>1. {p} \ {p} = {}
    OBVIOUS
  <2> QED BY <1>8, <2>1
<1>10. Did(u, v, {p}, p)
  BY <1>7, <1>8, GoneDid
<1>11. Kept(w, v)
  BY <1>2, <1>4, <1>5, <1>6, <1>10, DidKept DEF w
<1> QED BY <1>1, <1>9, <1>11, KeptStep DEF w, S

LEMMA LinkLostStep == ASSUME IInv, NEW n \in Nodes, NEW hop, LinkLost(n, hop) PROVE IInv' /\ Loss
<1> DEFINE next == [p \in Packets |-> mem.hdr[p].next_hop]
           i == World.ifc[n]
           p == i.q[FirstTo(i, hop, next)]
           r == Filter(i, hop, next)
           u == [World EXCEPT !.ifc[n] = r]
           x == <<"ifc", n>>
           v == Dropped(u, n, "RTR", p)
           S == sent \ mute
<1>1. Become(v) /\ UNCHANGED <<taps, energy, sent, mute>> /\ To(i, hop, next) # {}
  BY DEF LinkLost, World
<1>2. WOK(World, {}, S) /\ World \in Worlds /\ Ordered(World)
  BY DEF IInv, WOK
<1> DEFINE w == World
<1> HIDE DEF w, S, next
<1>3. i \in Interfaces /\ Queued(i, w.mem.hdr, QLim[n])
  BY <1>2 DEF Worlds, Ordered, w
<1>4. x \in Cells /\ Contents(w)[x] = KeptBy(i)
  BY CellsOf DEF CellsAre, w
<1> HIDE DEF i, x
<1>5. r \in Interfaces /\ Queued(r, w.mem.hdr, QLim[n]) /\ KeptBy(r) = KeptBy(i) \ {p} /\ p \in KeptBy(i)
  BY <1>1, <1>3, LimitOf, FilterOK
<1> HIDE DEF r, p
<1>6. Rested(w, u, x, Contents(w)[x] \ {p})
  <2>1. Rested(w, u, x, KeptBy(r))
    BY <1>2, <1>5, IfcRests DEF w, x
  <2> QED BY <1>4, <1>5, <2>1
<1> HIDE DEF u
<1>7. WOK(u, {p}, S)
  BY <1>2, <1>4, <1>5, <1>6, TakenOut DEF w
<1>8. WOK(v, {p} \ {p}, S) /\ Gone(u, v, {p})
  BY <1>7, DroppedOK
<1> HIDE DEF v
<1>9. WOK(v, {}, S)
  <2>1. {p} \ {p} = {}
    OBVIOUS
  <2> QED BY <1>8, <2>1
<1>10. Did(u, v, {p}, p)
  BY <1>7, <1>8, GoneDid
<1>11. Kept(w, v)
  BY <1>2, <1>4, <1>5, <1>6, <1>10, DidKept DEF w
<1> QED BY <1>1, <1>9, <1>11, KeptStep DEF w, S

LEMMA ResetStep == ASSUME IInv, NEW n \in Nodes, Reset(n) PROVE IInv' /\ Loss
<1> DEFINE s == World.rqueue[n]
           z == <<>>
           u == [World EXCEPT !.rqueue[n] = z]
           x == <<"rqueue", n>>
           a == DroppedAll(u, n, "RTR", s)
           i == World.ifc[n]
           r == Terminate(i)
           b == [a EXCEPT !.ifc[n] = r.ifc]
           y == <<"ifc", n>>
           v == DroppedAll(b, n, "IFQ", r.dropped)
           S == sent \ mute
<1>1. Become(v) /\ UNCHANGED <<taps, energy, sent, mute>>
  BY DEF Reset, World
<1>2. WOK(World, {}, S) /\ World \in Worlds /\ Ordered(World)
  BY DEF IInv, WOK
<1> DEFINE w == World
<1> HIDE DEF w, S
<1>3. s \in Seq(Packets) /\ \A j, k \in DOMAIN s : s[j] = s[k] => j = k
  BY <1>2 DEF Worlds, Ordered
<1>4. x \in Cells /\ Contents(w)[x] = ToSet(s)
  BY CellsOf DEF CellsAre, w
<1>5. z \in Seq(Packets) /\ ToSet(z) = {} /\ \A j, k \in DOMAIN z : z[j] = z[k] => j = k
  BY DEF ToSet
<1> HIDE DEF s, x, z
<1>6. Rested(w, u, x, {})
  <2>1. Rested(w, u, x, ToSet(z))
    BY <1>2, <1>5, RqueueRests DEF w, x
  <2> QED BY <1>5, <2>1
<1>7. w.ifc = u.ifc
  BY <1>2 DEF Worlds, w
<1> HIDE DEF u
<1>8. WOK(u, ToSet(s), S) /\ Kept(w, u)
  <2>1. WOK(u, ({} \cup Contents(w)[x]) \ {}, S)
    BY <1>2, <1>4, <1>6, RestedOK DEF w
  <2>2. ({} \cup Contents(w)[x]) \ {} = ToSet(s)
    BY <1>4
  <2>3. Kept(w, u)
    BY <1>2, <1>4, <1>6, RestedKept DEF w
  <2> QED BY <2>1, <2>2, <2>3
<1>9. WOK(a, ToSet(s) \ ToSet(s), S) /\ Gone(u, a, ToSet(s))
  BY <1>3, <1>8, DroppedAllOK
<1> HIDE DEF a
<1>10. WOK(a, {}, S) /\ Kept(u, a) /\ a.ifc = u.ifc
  <2>1. ToSet(s) \ ToSet(s) = {}
    OBVIOUS
  <2>2. Kept(u, a)
    BY <1>8, <1>9, GoneKept
  <2> QED BY <1>9, <2>1, <2>2 DEF Gone
<1>11. a \in Worlds /\ Ordered(a) /\ i \in Interfaces /\ Queued(i, a.mem.hdr, QLim[n])
  <2>1. a \in Worlds /\ Ordered(a)
    BY <1>10 DEF WOK
  <2>2. a.ifc[n] \in Interfaces /\ Queued(a.ifc[n], a.mem.hdr, QLim[n])
    BY <2>1 DEF Worlds, Ordered
  <2>3. i = a.ifc[n]
    BY <1>7, <1>10 DEF w
  <2> QED BY <2>1, <2>2, <2>3
<1>12. y \in Cells /\ Contents(a)[y] = KeptBy(i)
  <2>1. i = a.ifc[n]
    BY <1>7, <1>10 DEF w
  <2>2. CellsAre(a, n)
    BY CellsOf
  <2> QED BY <2>1, <2>2 DEF CellsAre
<1>13. i.q \in Seq(Packets) /\ \A j, k \in DOMAIN i.q : i.q[j] = i.q[k] => j = k
  BY <1>11 DEF Interfaces, Queued, Lined
<1> HIDE DEF i, y
<1> DEFINE d == ToSet(i.q)
<1>14. /\ r.ifc \in Interfaces /\ Queued(r.ifc, a.mem.hdr, QLim[n]) /\ r.dropped = i.q
       /\ KeptBy(r.ifc) = KeptBy(i) \ d /\ d \subseteq KeptBy(i)
  BY <1>11, LimitOf, TerminateOK
<1> HIDE DEF r
<1>15. Rested(a, b, y, KeptBy(r.ifc))
  BY <1>11, <1>14, IfcRests DEF y
<1> HIDE DEF b
<1>16. WOK(b, d, S) /\ Kept(a, b)
  <2>1. WOK(b, ({} \cup Contents(a)[y]) \ KeptBy(r.ifc), S)
    BY <1>10, <1>12, <1>14, <1>15, RestedOK
  <2>2. ({} \cup Contents(a)[y]) \ KeptBy(r.ifc) = d
    BY <1>12, <1>14
  <2>3. Kept(a, b)
    BY <1>10, <1>12, <1>14, <1>15, RestedKept
  <2> QED BY <2>1, <2>2, <2>3
<1>17. WOK(v, d \ d, S) /\ Gone(b, v, d)
  <2> DEFINE q == i.q
  <2>1. q \in Seq(Packets) /\ (\A j, k \in DOMAIN q : q[j] = q[k] => j = k) /\ WOK(b, ToSet(q), S)
    BY <1>13, <1>16
  <2> HIDE DEF q
  <2>2. LET t == DroppedAll(b, n, "IFQ", q) IN WOK(t, ToSet(q) \ ToSet(q), S) /\ Gone(b, t, ToSet(q))
    BY <2>1, DroppedAllOK
  <2> QED BY <1>14, <2>2 DEF q
<1> HIDE DEF v, d
<1>18. WOK(v, {}, S)
  <2>1. d \ d = {}
    OBVIOUS
  <2> QED BY <1>17, <2>1
<1>19. Kept(b, v)
  BY <1>16, <1>17, GoneKept
<1>20. Kept(w, v)
  BY <1>8, <1>10, <1>16, <1>19, KeptThen
<1> QED BY <1>1, <1>18, <1>20, KeptStep DEF w, S

(* A data packet has reached its agent.                                    *)
Handed(u) ==
  /\ sent' = sent /\ u \in Carried(World) /\ got' = got \cup {u}
  /\ Carried(World') = Carried(World) \ {u}

(* What others know of a packet stays true when the agent has received one *)
(* with a number that no other packet has.                                 *)
LEMMA GotOwned ==
  ASSUME NEW m, NEW C, NEW S, NEW G, Owned(m, C, {}, S, G), NEW u,
         \A q \in Stored(C) : m.hdr[q].ptype = "cbr" => m.hdr[q].uid # u
  PROVE  Owned(m, C, {}, S, G \cup {u})
<1>1. \A q \in Stored(C) : Logged(m.hdr[q], S, G \cup {u})
  <2> SUFFICES ASSUME NEW q \in Stored(C) PROVE Logged(m.hdr[q], S, G \cup {u})
    OBVIOUS
  <2>1. Logged(m.hdr[q], S, G)
    BY DEF Owned
  <2> QED BY <2>1 DEF Logged
<1> QED BY <1>1 DEF Owned

(* The agent's trace of a reception, and the end of the packet.            *)
Delivered(w, n, p) ==
  [Freed(Printed(w, n, "AGT", "r", p), p) EXCEPT !.got = @ \cup {w.mem.hdr[p].uid}]

LEMMA DeliveredFields ==
  ASSUME NEW w, NEW S, NEW p, WOK(w, {p}, S), NEW n \in Nodes, Alive(n), Comes(n, w.mem.hdr[p])
  PROVE  LET v == Delivered(w, n, p)
             f == Freed(w, p)
             G == w.got \cup {w.mem.hdr[p].uid} IN
         /\ v \in Worlds /\ v.mem = f.mem /\ v.rqueue = f.rqueue /\ v.later = f.later
         /\ v.ifc = f.ifc /\ v.air = f.air /\ v.got = G /\ G \subseteq S
         /\ Summed(v.awk, S, v.got, v.clashed) /\ Painted(v.color, v.screen)
<1> DEFINE h == w.mem.hdr[p]
           line == Line(n, "AGT", "r", h)
           b == Counted(w.awk, line)
           c == Clashed(w.clashed, h, line)
           t == Printed(w, n, "AGT", "r", p)
           m == Free(w.mem, p)
           f == Freed(w, p)
           G == w.got \cup {h.uid}
           v == Delivered(w, n, p)
<1>1. /\ w \in Worlds /\ w.awk \in Scripts /\ S \subseteq Uids /\ IsFiniteSet(S) /\ w.got \subseteq S
      /\ Summed(w.awk, S, w.got, w.clashed) /\ w.clashed \subseteq Uids
      /\ Painted(w.color, w.screen) /\ energy \in [Nodes -> 0 .. 100]
  BY DEF WOK, Worlds
<1>2. h.ptype = "cbr" /\ h.uid \in S \ w.got /\ h.size = Size + IpHdrLen
  <2>1. Logged(h, S, w.got)
    BY DEF WOK, Owned
  <2> HIDE DEF h
  <2> QED BY <2>1, OtherTypes DEF Comes, Sized, Logged, h
<1> DEFINE g == h
<1> HIDE DEF g
<1>3. b \in Scripts /\ Summed(b, S, G, w.clashed)
  <2>1. LET e == Counted(w.awk, Line(n, "AGT", "r", g)) IN
        e \in Scripts /\ Summed(e, S, w.got \cup {g.uid}, w.clashed)
    <3>1. g.ptype = "cbr" /\ g.uid \in S \ w.got /\ g.size = Size + IpHdrLen
      BY <1>2 DEF g
    <3> QED BY <1>1, <3>1, ReceivedSummed
  <2> QED BY <2>1 DEF g
<1>4. c = w.clashed
  BY <1>2 DEF Clashed
<1>5. t \in Worlds /\ Same(w, t) /\ t.awk = b /\ t.clashed = c /\ Painted(t.color, t.screen)
  <2>1. <<"AGT", "r">> \in Tracers
    BY DEF Tracers
  <2>2. c \subseteq Uids
    BY <1>1, <1>4
  <2> QED BY <1>1, <1>3, <2>1, <2>2, PrintedFields
<1> HIDE DEF t, c, b, line
<1>6. /\ m \in Pools /\ f.mem = m /\ f.rqueue = w.rqueue /\ f.later = w.later /\ f.ifc = w.ifc
      /\ f.air = w.air
  <2>1. WOK(f, {p} \ {p}, S) /\ Gone(w, f, {p})
    BY FreedOK
  <2>2. f = [w EXCEPT !.mem = m]
    BY DEF Freed
  <2>3. f.mem = m
    BY <1>1, <2>2 DEF Worlds
  <2>4. f.mem \in Pools
    BY <2>1 DEF WOK, Owned
  <2> HIDE DEF f, m
  <2> QED BY <2>1, <2>3, <2>4 DEF Gone
<1>7. /\ v \in Worlds /\ v.mem = m /\ v.rqueue = t.rqueue /\ v.later = t.later /\ v.ifc = t.ifc
      /\ v.air = t.air /\ v.got = G /\ v.awk = t.awk /\ v.clashed = t.clashed
      /\ v.color = t.color /\ v.screen = t.screen
  <2> DEFINE z == Free(t.mem, p)
             y == [t EXCEPT !.mem = z]
  <2>1. v = [y EXCEPT !.got = y.got \cup {h.uid}]
    BY DEF Delivered, Freed, t
  <2>2. z = m /\ t.got = w.got
    BY <1>5 DEF Same
  <2>3. G \subseteq Uids
    BY <1>1, <1>2
  <2> HIDE DEF z, m, v
  <2>4. y.got = w.got /\ y = [t EXCEPT !.mem = m]
    BY <1>5, <2>2 DEF Worlds
  <2>5. v = [[t EXCEPT !.mem = m] EXCEPT !.got = G]
    <3> HIDE DEF y
    <3> QED BY <2>1, <2>4
  <2> HIDE DEF G
  <2> QED BY <1>5, <1>6, <2>3, <2>5 DEF Worlds
<1>8. G \subseteq S
  BY <1>1, <1>2
<1> HIDE DEF v, f, G, m
<1>9. Summed(v.awk, S, v.got, v.clashed)
  BY <1>3, <1>4, <1>5, <1>7
<1> QED BY <1>5, <1>6, <1>7, <1>8, <1>9 DEF Same, v, f, G, h

LEMMA ReceiveStep ==
  ASSUME IInv, NEW p \in Packets, NEW n \in Nodes, NEW hop, Receive(p, n, hop)
  PROVE  IInv' /\ (Loss \/ \E u \in Uids : Handed(u))
<1> DEFINE h == mem.hdr[p]
           A == World.air \ {<<p, n>>}
           u == [World EXCEPT !.air = A]
           x == <<"air", n>>
           S == sent \ mute
           t == TraceRecv(u, n, "AGT", "r", p)
           d == IF Alive(n) THEN [Freed(t, p) EXCEPT !.got = @ \cup {h.uid}] ELSE t
           r == ToraRecv(u, n, p, hop)
           down == SendDown(u, n, p)
<1>1. /\ Become(CASE h.prev_hop = n -> down
                  [] h.prev_hop # n /\ h.daddr = n -> d
                  [] OTHER -> r)
      /\ UNCHANGED <<taps, energy, sent, mute>> /\ <<p, n>> \in World.air /\ hop \in Hops(n)
  BY DEF Receive, World
<1>2. WOK(World, {}, S) /\ World \in Worlds /\ Ordered(World) /\ Once(World) /\ World.mem = mem
  BY DEF IInv, WOK, World
<1> DEFINE w == World
<1> HIDE DEF w, S
<1>3. x \in Cells /\ Contents(w)[x] = {q \in Packets : <<q, n>> \in w.air} /\ p \in Contents(w)[x]
  <2>1. CellsAre(w, n)
    BY CellsOf
  <2> QED BY <1>1, <2>1 DEF CellsAre, w
<1>4. Rested(w, u, x, Contents(w)[x] \ {p})
  <2>1. /\ A \subseteq Packets \X Nodes
        /\ \A q \in Packets, m \in Nodes : m # n => (<<q, m>> \in A <=> <<q, m>> \in w.air)
    BY <1>2 DEF Worlds, w
  <2>2. {q \in Packets : <<q, n>> \in A} = Contents(w)[x] \ {p}
    BY <1>3 DEF w
  <2> HIDE DEF A
  <2>3. Rested(w, u, x, {q \in Packets : <<q, n>> \in A})
    BY <1>2, <2>1, AirRests DEF w
  <2> QED BY <2>2, <2>3
<1> HIDE DEF x
<1> HIDE DEF u
<1>5. WOK(u, {p}, S) /\ Fits(x, u.mem.hdr[p]) /\ u.mem = mem /\ u.got = got
  BY <1>2, <1>3, <1>4, TakenOut DEF w, World
<1>6. Comes(n, h) /\ h.prev_hop # n /\ h.ptype = "cbr"
  BY <1>5 DEF Fits, Comes, Sized, x
<1> DEFINE e == {p} \ {p}
<1>7. e = {}
  OBVIOUS
<1>8. CASE h.daddr # n
  <2>1. Become(r)
    BY <1>1, <1>6, <1>8
  <2>2. WOK(r, e, S) /\ Did(u, r, {p}, p)
    BY <1>1, <1>5, <1>6, ToraRecvOK
  <2> HIDE DEF r, e
  <2>3. Kept(w, r)
    BY <1>2, <1>3, <1>4, <2>2, DidKept DEF w
  <2> QED BY <1>1, <1>7, <2>1, <2>2, <2>3, KeptStep DEF w, S
<1>9. CASE h.daddr = n /\ ~ Alive(n)
  <2> DEFINE f == Freed(u, p)
  <2>1. Become(f)
    BY <1>1, <1>6, <1>9 DEF TraceRecv
  <2>2. WOK(f, e, S) /\ Gone(u, f, {p})
    BY <1>5, FreedOK
  <2> HIDE DEF f, e
  <2>3. Did(u, f, {p}, p)
    BY <1>5, <2>2, GoneDid
  <2>4. Kept(w, f)
    BY <1>2, <1>3, <1>4, <2>3, DidKept DEF w
  <2> QED BY <1>1, <1>7, <2>1, <2>2, <2>4, KeptStep DEF w, S
<1>10. CASE h.daddr = n /\ Alive(n)
  <2> DEFINE f == Freed(u, p)
             v == Delivered(u, n, p)
             k == h.uid
  <2>1. d = v
    BY <1>5, <1>10 DEF TraceRecv, Delivered
  <2>2. Become(v)
    <3> HIDE DEF v
    <3> QED BY <1>1, <1>6, <1>10, <2>1
  <2>3. WOK(f, e, S) /\ Gone(u, f, {p})
    BY <1>5, FreedOK
  <2>4. /\ v \in Worlds /\ v.mem = f.mem /\ v.rqueue = f.rqueue /\ v.later = f.later
        /\ v.ifc = f.ifc /\ v.air = f.air /\ v.got = got \cup {k} /\ got \cup {k} \subseteq S
        /\ Summed(v.awk, S, v.got, v.clashed) /\ Painted(v.color, v.screen)
    BY <1>5, <1>6, <1>10, DeliveredFields
  <2> HIDE DEF v, f, e
  <2>5. Contents(v) = Contents(f) /\ Contents(f) = Contents(u) /\ f.got = got
        /\ \A q \in Packets \ {p} : f.mem.hdr[q] = w.mem.hdr[q]
    BY <1>2, <1>5, <2>3, <2>4 DEF Contents, Gone, w
  <2>6. /\ Contents(w) \in [Cells -> SUBSET Packets]
        /\ \A y, z \in Cells : \A q \in Contents(w)[y] : q \in Contents(w)[z] => y = z
    BY <1>2 DEF WOK, Owned, w
  <2>7. Stored(Contents(u)) = Stored(Contents(w)) \ {p} /\ p \in Stored(Contents(w))
    <3> DEFINE B == Contents(w)
               E == Contents(u)
    <3>1. E = [B EXCEPT ![x] = B[x] \ {p}]
      BY <1>4 DEF Rested
    <3> HIDE DEF B, E
    <3>2. \A y \in Cells : E[y] = IF y = x THEN B[x] \ {p} ELSE B[y]
      BY <2>6, <3>1 DEF B
    <3>3. \A y \in Cells : p \in B[y] => y = x
      BY <1>3, <2>6 DEF B
    <3>4. Stored(E) = Stored(B) \ {p}
      BY <3>2, <3>3 DEF Stored
    <3>5. p \in Stored(B)
      BY <1>3 DEF Stored, B
    <3> QED BY <3>4, <3>5 DEF B, E
  <2>8. Stored(Contents(w)) \subseteq Packets
    BY DEF Stored
  <2>9. \A q \in Stored(Contents(f)) : q \in Stored(Contents(w)) /\ q # p /\ f.mem.hdr[q] = w.mem.hdr[q]
    BY <2>5, <2>7, <2>8
  <2>10. \A q \in Stored(Contents(f)) : f.mem.hdr[q].ptype = "cbr" => f.mem.hdr[q].uid # k
    BY <1>2, <1>6, <2>7, <2>9 DEF Once, w
  <2>11. Owned(v.mem, Contents(v), {}, S, v.got)
    <3>1. Owned(f.mem, Contents(f), {}, S, got)
      BY <1>7, <2>3, <2>5 DEF WOK
    <3>2. Owned(f.mem, Contents(f), {}, S, got \cup {k})
      BY <2>10, <3>1, GotOwned
    <3> QED BY <2>4, <2>5, <3>2
  <2>12. WOK(v, {}, S)
    <3>1. Ordered(v)
      BY <2>3, <2>4 DEF WOK, Ordered
    <3> QED BY <1>2, <2>4, <2>11, <3>1 DEF WOK
  <2>13. Once(v)
    BY <1>2, <2>4, <2>5, <2>9 DEF Once, w
  <2>14. k \in Carried(w) /\ Carried(v) = Carried(w) \ {k} /\ k \in Uids
    <3>1. DataOf(v) = DataOf(w) \ {p}
      BY <2>4, <2>5, <2>7, <2>9 DEF DataOf
    <3>2. p \in DataOf(w) /\ w.mem.hdr[p].uid = k
      BY <1>2, <1>6, <2>7 DEF DataOf, w
    <3>3. \A q \in DataOf(w) \ {p} : v.mem.hdr[q].uid = w.mem.hdr[q].uid /\ w.mem.hdr[q].uid # k
      BY <2>4, <2>5, <2>9, <2>10, <3>1 DEF DataOf
    <3>4. k \in Uids
      BY <1>2, <2>4 DEF WOK
    <3> QED BY <3>1, <3>2, <3>3, <3>4 DEF Carried
  <2>15. World' = v
    BY <2>2, <2>4, WorldNext
  <2>16. WOK(World, {}, sent \ mute)'
    <3>1. (sent \ mute)' = S
      BY <1>1 DEF S
    <3> QED BY <1>1, <2>12, <2>15, <3>1, NextOK
  <2>17. Once(World)'
    BY <2>13, <2>15 DEF Once
  <2>18. Handed(k)
    <3>1. got' = got \cup {k}
      BY <2>2, <2>4 DEF Become
    <3> HIDE DEF k
    <3> QED BY <1>1, <2>14, <2>15, <3>1 DEF Handed, w
  <2>19. IInv'
    BY <1>1, <2>16, <2>17 DEF IInv
  <2> QED BY <2>14, <2>18, <2>19
<1> QED BY <1>8, <1>9, <1>10

(* A data packet has been sent, or dropped where it started.               *)
Sends(u) ==
  /\ u \notin sent /\ sent' = sent \cup {u} /\ got' = got
  /\ Carried(World) \subseteq Carried(World') /\ Carried(World') \subseteq Carried(World) \cup {u}

(* A packet more has its start in the trace, or one less of which nothing  *)
(* is left.                                                                *)
LEMMA MoreSent ==
  ASSUME NEW m, NEW C, NEW H, NEW S, NEW G, Owned(m, C, H, S, G), NEW u
  PROVE  Owned(m, C, H, S \cup {u}, G)
<1>1. \A q \in H \cup Stored(C) : Logged(m.hdr[q], S \cup {u}, G)
  <2> SUFFICES ASSUME NEW q \in H \cup Stored(C) PROVE Logged(m.hdr[q], S \cup {u}, G)
    OBVIOUS
  <2>1. Logged(m.hdr[q], S, G)
    BY DEF Owned
  <2> QED BY <2>1 DEF Logged
<1> QED BY <1>1 DEF Owned

LEMMA LessSent ==
  ASSUME NEW m, NEW C, NEW S, NEW G, Owned(m, C, {}, S, G), NEW k, NEW R, Owned(k, C, {}, R, G),
         \A q \in Stored(C) : k.hdr[q] = m.hdr[q]
  PROVE  Owned(k, C, {}, S, G)
BY DEF Owned

(* p is a new packet with header h, and w has changed in nothing else.     *)
Begun(w, v, p, h) ==
  /\ Contents(v) = Contents(w) /\ v.got = w.got /\ v.mem.hdr[p] = h
  /\ p \in Packets /\ p \notin Stored(Contents(w))
  /\ \A q \in Stored(Contents(w)) : v.mem.hdr[q] = w.mem.hdr[q]

InHand(w, h) == [w EXCEPT !.mem = Alloc(w.mem, h)]
AgentTraced(w, n, h) == Printed(InHand(w, h), n, "AGT", "s", Allocated(w.mem))

(* The packet of the agent is the handler's, and its start is in the trace.*)
LEMMA AgentSends ==
  ASSUME NEW w, NEW S, WOK(w, {}, S), NEW u \in Uids \ S, NEW n \in Nodes, Alive(n),
         CanAlloc(w.mem), NEW h \in Headers, h.ptype = "cbr", h.uid = u
  PROVE  LET p == Allocated(w.mem)
             v == AgentTraced(w, n, h) IN
         WOK(v, {p}, S \cup {u}) /\ Begun(w, v, p, h)
<1> DEFINE p == Allocated(w.mem)
           m == Alloc(w.mem, h)
           a == [w EXCEPT !.mem = m]
           v == Printed(a, n, "AGT", "s", p)
           R == S \cup {u}
           line == Line(n, "AGT", "s", h)
           b == Counted(w.awk, line)
           c == Clashed(w.clashed, h, line)
<1>1. /\ w \in Worlds /\ Ordered(w) /\ Owned(w.mem, Contents(w), {}, S, w.got)
      /\ w.awk \in Scripts /\ w.clashed \subseteq Uids
      /\ S \subseteq Uids /\ IsFiniteSet(S) /\ w.got \subseteq S
      /\ Summed(w.awk, S, w.got, w.clashed)
      /\ Painted(w.color, w.screen) /\ energy \in [Nodes -> 0 .. 100]
  BY DEF WOK, Worlds
<1>2. Owned(w.mem, Contents(w), {}, R, w.got)
  BY <1>1, MoreSent
<1>3. /\ p \in Packets /\ p \notin w.mem.used /\ m.hdr = [w.mem.hdr EXCEPT ![p] = h]
      /\ Owned(m, Contents(w), {p}, R, w.got)
  <2>1. Logged(h, R, w.got)
    BY <1>1 DEF Logged
  <2> DEFINE E == {} \cup {p}
  <2>2. E = {p}
    OBVIOUS
  <2> HIDE DEF R
  <2>3. /\ p \in Packets /\ p \notin w.mem.used /\ m.hdr = [w.mem.hdr EXCEPT ![p] = h]
        /\ Owned(m, Contents(w), E, R, w.got)
    BY <1>2, <2>1, AllocOwned
  <2> HIDE DEF E
  <2> QED BY <2>2, <2>3
<1>4. /\ m \in Pools /\ m.hdr[p] = h
      /\ \A q \in Stored(Contents(w)) : m.hdr[q] = w.mem.hdr[q]
  <2>1. w.mem.hdr \in [Packets -> Headers] /\ Stored(Contents(w)) \subseteq Packets \ {p}
    BY <1>1, <1>3 DEF Worlds, Pools, Owned, Stored
  <2>2. m \in Pools
    BY <1>3 DEF Owned
  <2> HIDE DEF m
  <2> QED BY <1>3, <2>1, <2>2
<1> HIDE DEF m, p
<1>5. /\ a \in Worlds /\ a.mem = m /\ Contents(a) = Contents(w) /\ Ordered(a)
      /\ a.got = w.got /\ a.awk = w.awk /\ a.clashed = w.clashed
      /\ a.color = w.color /\ a.screen = w.screen
  BY <1>1, <1>4, MemOnly
<1> HIDE DEF a
<1>6. b \in Scripts /\ Summed(b, R, w.got, w.clashed)
  BY <1>1, SentSummed
<1>7. c = w.clashed
  BY DEF Clashed
<1>8. v \in Worlds /\ Same(a, v) /\ v.awk = b /\ v.clashed = c /\ Painted(v.color, v.screen)
  <2>1. <<"AGT", "s">> \in Tracers
    BY DEF Tracers
  <2>2. c \subseteq Uids
    BY <1>1, <1>7
  <2>3. a.mem.hdr[p] = h
    BY <1>4, <1>5
  <2> HIDE DEF b, c, line, v
  <2>4. /\ Counted(a.awk, Line(n, "AGT", "s", a.mem.hdr[p])) = b
        /\ Clashed(a.clashed, a.mem.hdr[p], Line(n, "AGT", "s", a.mem.hdr[p])) = c
    BY <1>5, <2>3 DEF b, c, line
  <2>5. LET x == Printed(a, n, "AGT", "s", p) IN
        /\ x \in Worlds /\ Same(a, x)
        /\ x.awk = Counted(a.awk, Line(n, "AGT", "s", a.mem.hdr[p]))
        /\ x.clashed = Clashed(a.clashed, a.mem.hdr[p], Line(n, "AGT", "s", a.mem.hdr[p]))
        /\ Painted(x.color, x.screen)
    BY <1>1, <1>5, <1>6, <2>1, <2>2, <2>4, PrintedFields
  <2> QED BY <2>4, <2>5 DEF v
<1> HIDE DEF v, b, c
<1>9. /\ Contents(v) = Contents(w) /\ Ordered(v) /\ v.mem = m /\ v.got = w.got
  BY <1>5, <1>8, SameContents DEF Same
<1>11. Begun(w, v, p, h)
  <2>1. p \notin Stored(Contents(w))
    BY <1>1, <1>3 DEF Owned
  <2> QED BY <1>3, <1>4, <1>9, <2>1 DEF Begun
<1>10. WOK(v, {p}, R)
  <2>1. R \subseteq Uids /\ IsFiniteSet(R) /\ w.got \subseteq R
    BY <1>1, FS_AddElement
  <2> HIDE DEF R
  <2> QED BY <1>1, <1>3, <1>6, <1>7, <1>8, <1>9, <2>1 DEF WOK
<1>12. v = AgentTraced(w, n, h)
  BY Zenon DEF v, a, m, p, AgentTraced, InHand
<1> HIDE DEF R
<1>13. WOK(AgentTraced(w, n, h), {p}, R) /\ Begun(w, AgentTraced(w, n, h), p, h)
  BY <1>10, <1>11, <1>12
<1> QED BY <1>13 DEF p, R

(* The packet of a dead node goes back to the pool, unseen.                *)
Refused(w, h) == [w EXCEPT !.mem = Free(Alloc(w.mem, h), Allocated(w.mem))]

LEMMA AgentFails ==
  ASSUME NEW w, NEW S, WOK(w, {}, S), NEW u, CanAlloc(w.mem), NEW h \in Headers,
         h.ptype = "cbr", h.uid = u, u \notin S
  PROVE  LET v == Refused(w, h) IN
         /\ WOK(v, {}, S) /\ Contents(v) = Contents(w) /\ v.got = w.got
         /\ \A q \in Stored(Contents(w)) : v.mem.hdr[q] = w.mem.hdr[q]
<1> DEFINE p == Allocated(w.mem)
           m == Alloc(w.mem, h)
           k == Free(m, p)
           v == [w EXCEPT !.mem = k]
           C == Contents(w)
           R == S \cup {u}
           e == {} \cup {p}
           f == e \ {p}
<1>1. w \in Worlds /\ Owned(w.mem, C, {}, S, w.got) /\ w.got \subseteq S
  BY DEF WOK
<1>2. /\ Owned(m, C, e, R, w.got) /\ p \in Packets /\ p \notin w.mem.used
      /\ m.hdr = [w.mem.hdr EXCEPT ![p] = h]
  <2>1. Owned(w.mem, C, {}, R, w.got)
    BY <1>1, MoreSent
  <2>2. Logged(h, R, w.got)
    BY <1>1 DEF Logged
  <2> HIDE DEF R, C
  <2> QED BY <2>1, <2>2, AllocOwned
<1>3. \A q \in Stored(C) : q \in Packets \ {p} /\ m.hdr[q] = w.mem.hdr[q]
  <2>1. w.mem.hdr \in [Packets -> Headers] /\ Stored(C) \subseteq Packets \ {p}
    BY <1>1, <1>2 DEF Worlds, Pools, Owned, Stored
  <2> HIDE DEF m, p, C
  <2> QED BY <1>2, <2>1
<1> HIDE DEF m, p, C
<1>4. Owned(k, C, f, R, w.got) /\ \A q \in Packets \ {p} : k.hdr[q] = m.hdr[q]
  <2>1. p \in e
    OBVIOUS
  <2>2. Owned(m, C, e, R, w.got)
    BY <1>2
  <2> HIDE DEF e, R
  <2> QED BY <2>1, <2>2, FreedOwned
<1>5. f = {}
  OBVIOUS
<1> HIDE DEF e, f
<1>6. \A q \in Stored(C) : k.hdr[q] = w.mem.hdr[q]
  BY <1>3, <1>4
<1> HIDE DEF k
<1>7. Owned(k, C, {}, S, w.got)
  <2>1. Owned(k, C, {}, R, w.got)
    BY <1>4, <1>5
  <2> HIDE DEF R
  <2> QED BY <1>1, <1>6, <2>1, LessSent
<1>8. WOK(v, {}, S) /\ Contents(v) = C /\ v.mem = k /\ v.got = w.got
  <2>1. Owned(k, Contents(w), {}, S, w.got)
    BY <1>7 DEF C
  <2> QED BY <1>6, <2>1, MemFrame DEF C
<1>9. Refused(w, h) = v
  BY Zenon DEF Refused, k, m, p
<1> HIDE DEF v
<1> QED BY <1>6, <1>8, <1>9 DEF C

LEMMA OriginateStep ==
  ASSUME IInv, NEW u \in Uids, NEW hop, Originate(u, hop)
  PROVE  IInv' /\ Sends(u)
<1> DEFINE w == World
           n == Source[u]
           p == Allocated(w.mem)
           h == [Blank EXCEPT !.ptype = "cbr", !.uid = u, !.saddr = n, !.daddr = Dest, !.size = Size]
           a == InHand(w, h)
           t == TraceRecv(a, n, "AGT", "s", p)
           r == ToraRecv(t, n, p, hop)
           S == sent \ mute
           R == S \cup {u}
<1>1. /\ u \notin sent /\ CanAlloc(w.mem) /\ hop \in Hops(n) /\ sent' = sent \cup {u}
      /\ mute' = (IF Alive(n) THEN mute ELSE mute \cup {u}) /\ UNCHANGED <<taps, energy>>
      /\ Become(IF Alive(n) THEN r ELSE t)
  BY DEF Originate, World, InHand
<1>2. /\ WOK(w, {}, S) /\ w \in Worlds /\ Once(w)
      /\ sent \subseteq Uids /\ IsFiniteSet(sent) /\ mute \subseteq sent /\ w.got = got
  BY DEF IInv, WOK, World
<1>3. n \in Nodes /\ u \in Nat /\ Size \in Nat /\ Dest \in Nodes /\ NoHop \notin Nodes
  BY DataPathAssumption
<1>4. /\ h \in Headers /\ h.ptype = "cbr" /\ h.uid = u /\ h.size = Size /\ h.num_forwards = 0
      /\ h.saddr = n /\ h.prev_hop = 0 /\ h.from = NoHop
  <2> HIDE DEF n
  <2> QED BY <1>3, BlankTyped DEF Blank, Headers
<1> HIDE DEF w, S, n, h
<1>5. sent' \subseteq Uids /\ IsFiniteSet(sent') /\ mute' \subseteq sent'
  BY <1>1, <1>2, FS_AddElement
<1>6. u \notin S
  BY <1>1 DEF S
<1>7. \A q \in DataOf(w) : w.mem.hdr[q].uid # u
  <2> SUFFICES ASSUME NEW q \in DataOf(w), w.mem.hdr[q].uid = u PROVE FALSE
    OBVIOUS
  <2>1. Logged(w.mem.hdr[q], S, w.got)
    BY <1>2 DEF DataOf, WOK, Owned
  <2> QED BY <1>6, <2>1, OtherTypes DEF DataOf, Logged
<1>8. CASE Alive(n)
  <2> DEFINE v == AgentTraced(w, n, h)
  <2>1. WOK(v, {p}, R) /\ Begun(w, v, p, h)
    <3>1. u \in Uids \ S
      BY <1>6
    <3> QED BY <1>1, <1>2, <1>3, <1>4, <1>8, <3>1, AgentSends
  <2>2. t = v
    BY <1>8, Zenon DEF TraceRecv, AgentTraced
  <2> HIDE DEF t, v
  <2> HIDE DEF p
  <2>3. /\ t.mem.hdr[p] = h /\ p \notin Stored(Contents(w)) /\ t.got = got
        /\ Contents(t) = Contents(w) /\ \A q \in Stored(Contents(w)) : t.mem.hdr[q] = w.mem.hdr[q]
    BY <1>2, <2>1, <2>2 DEF Begun
  <2>4. Starts(n, t.mem.hdr[p])
    BY <1>4, <2>3 DEF Starts
  <2> DEFINE e == {p} \ {p}
  <2>5. WOK(r, e, R) /\ Did(t, r, {p}, p)
    <3> HIDE DEF R
    <3> QED BY <1>1, <1>3, <2>1, <2>2, <2>4, ToraRecvOK
  <2>6. e = {}
    OBVIOUS
  <2> HIDE DEF r, e
  <2>7. World' = r /\ r \in Worlds /\ r.got = got
    <3>1. r \in Worlds /\ r.got = t.got
      BY <2>5 DEF WOK, Did
    <3>2. World' = r
      BY <1>1, <1>8, <3>1, WorldNext
    <3> QED BY <2>3, <3>1, <3>2
  <2>8. WOK(World, {}, sent \ mute)'
    <3>1. (sent \ mute)' = R
      BY <1>1, <1>2, <1>8 DEF S
    <3> HIDE DEF R
    <3> QED BY <1>1, <2>5, <2>6, <2>7, <3>1, NextOK
  <2>9. /\ Stored(Contents(r)) \subseteq Stored(Contents(w)) \cup {p}
        /\ Stored(Contents(w)) \subseteq Stored(Contents(r))
        /\ \A q \in Stored(Contents(r)) : q # p => r.mem.hdr[q] = w.mem.hdr[q]
        /\ p \in Stored(Contents(r)) => r.mem.hdr[p].ptype = "cbr" /\ r.mem.hdr[p].uid = u
    BY <1>4, <2>3, <2>5 DEF Did
  <2>10. Once(r)
    <3> SUFFICES ASSUME NEW j \in Stored(Contents(r)), NEW k \in Stored(Contents(r)),
                        r.mem.hdr[j].ptype = "cbr", r.mem.hdr[k].ptype = "cbr",
                        r.mem.hdr[j].uid = r.mem.hdr[k].uid
                 PROVE  j = k
      BY DEF Once
    <3>1. CASE j = p \/ k = p
      BY <1>7, <2>9, <3>1 DEF DataOf
    <3>2. CASE j # p /\ k # p
      BY <1>2, <2>9, <3>2 DEF Once
    <3> QED BY <3>1, <3>2
  <2>11. Carried(w) \subseteq Carried(r) /\ Carried(r) \subseteq Carried(w) \cup {u}
    <3>1. DataOf(w) \subseteq DataOf(r) /\ DataOf(r) \subseteq DataOf(w) \cup {p}
      BY <2>3, <2>9 DEF DataOf
    <3>2. \A q \in DataOf(r) : q # p => r.mem.hdr[q] = w.mem.hdr[q]
      BY <2>9 DEF DataOf
    <3>3. p \in DataOf(r) => r.mem.hdr[p].uid = u
      BY <2>9 DEF DataOf
    <3>4. p \notin DataOf(w)
      BY <2>3 DEF DataOf
    <3> QED BY <3>1, <3>2, <3>3, <3>4 DEF Carried
  <2>12. Sends(u)
    <3>1. got' = got
      BY <1>1, <1>8, <2>7 DEF Become
    <3> QED BY <1>1, <2>7, <2>11, <3>1 DEF Sends, w
  <2>13. Once(World)'
    BY <2>7, <2>10 DEF Once
  <2> QED BY <1>5, <2>8, <2>12, <2>13 DEF IInv
<1>9. CASE ~ Alive(n)
  <2> DEFINE v == Refused(w, h)
  <2>1. t = v
    <3> DEFINE m == Alloc(w.mem, h)
               k == Free(m, p)
    <3>1. t = [a EXCEPT !.mem = Free(a.mem, p)]
      BY <1>9 DEF TraceRecv, Freed
    <3>2. a = [w EXCEPT !.mem = m]
      BY DEF InHand
    <3>3. v = [w EXCEPT !.mem = k]
      BY DEF Refused
    <3> HIDE DEF m, a, t, p, v
    <3>4. a.mem = m
      BY <1>2, <3>2 DEF Worlds
    <3>5. t = [a EXCEPT !.mem = k]
      BY <3>1, <3>4
    <3> HIDE DEF k
    <3> QED BY <1>2, <3>2, <3>3, <3>5 DEF Worlds
  <2>2. /\ WOK(v, {}, S) /\ Contents(v) = Contents(w) /\ v.got = got
        /\ \A q \in Stored(Contents(w)) : v.mem.hdr[q] = w.mem.hdr[q]
    BY <1>1, <1>2, <1>4, <1>6, AgentFails
  <2> HIDE DEF v, t
  <2>3. World' = v
    <3>1. v \in Worlds /\ Become(v)
      BY <1>1, <1>9, <2>1, <2>2 DEF WOK
    <3> QED BY <3>1, WorldNext
  <2>4. WOK(World, {}, sent \ mute)'
    <3>1. (sent \ mute)' = S
      BY <1>1, <1>2, <1>9 DEF S
    <3> QED BY <1>1, <2>2, <2>3, <3>1, NextOK
  <2>5. Once(v) /\ Carried(v) = Carried(w)
    BY <1>2, <2>2 DEF Once, Carried, DataOf
  <2>6. got' = got
    BY <1>1, <1>9, <2>1, <2>2 DEF Become
  <2>7. Once(World)'
    BY <2>3, <2>5 DEF Once
  <2>8. Sends(u)
    BY <1>1, <2>3, <2>5, <2>6 DEF Sends, w
  <2> QED BY <1>5, <2>4, <2>7, <2>8 DEF IInv
<1> QED BY <1>8, <1>9

LEMMA InHandOK ==
  ASSUME NEW w, NEW H, NEW S, WOK(w, H, S), CanAlloc(w.mem), NEW h \in Headers, Logged(h, S, w.got)
  PROVE  LET p == Allocated(w.mem)
             v == InHand(w, h) IN
         /\ WOK(v, H \cup {p}, S) /\ Begun(w, v, p, h) /\ p \notin H
         /\ v.mem = Alloc(w.mem, h) /\ v.rqueue = w.rqueue /\ v.later = w.later
         /\ v.ifc = w.ifc /\ v.air = w.air /\ v.blamed = w.blamed
<1> DEFINE p == Allocated(w.mem)
           m == Alloc(w.mem, h)
           v == [w EXCEPT !.mem = m]
           C == Contents(w)
           E == H \cup {p}
<1>1. w \in Worlds /\ Owned(w.mem, C, H, S, w.got)
  BY DEF WOK
<1>2. /\ Owned(m, C, E, S, w.got) /\ p \in Packets /\ p \notin w.mem.used
      /\ m.hdr = [w.mem.hdr EXCEPT ![p] = h]
  <2> HIDE DEF C
  <2> QED BY <1>1, AllocOwned
<1>3. m.hdr[p] = h /\ \A q \in Stored(C) : q \in Packets \ {p} /\ m.hdr[q] = w.mem.hdr[q]
  <2>1. w.mem.hdr \in [Packets -> Headers] /\ Stored(C) \subseteq Packets \ {p}
    BY <1>1, <1>2 DEF Worlds, Pools, Owned, Stored
  <2> HIDE DEF m, p, C
  <2> QED BY <1>2, <2>1
<1>4. p \notin H
  BY <1>1, <1>2 DEF Owned
<1> HIDE DEF m, p, E
<1>5. /\ WOK(v, E, S) /\ Contents(v) = C /\ v.mem = m
      /\ v.rqueue = w.rqueue /\ v.later = w.later /\ v.ifc = w.ifc /\ v.air = w.air
      /\ v.got = w.got /\ v.blamed = w.blamed
  <2>1. Owned(m, Contents(w), E, S, w.got)
    BY <1>2
  <2>2. \A q \in Stored(Contents(w)) : m.hdr[q].ptype = w.mem.hdr[q].ptype
    BY <1>3
  <2> QED BY <2>1, <2>2, MemFrame
<1>6. InHand(w, h) = v
  BY Zenon DEF InHand, m
<1> HIDE DEF v, C
<1>7. Begun(w, v, p, h)
  BY <1>2, <1>3, <1>5 DEF Begun, C
<1> QED BY <1>4, <1>5, <1>6, <1>7 DEF p, m, E

LEMMA OtherStep ==
  ASSUME IInv, NEW u \in OtherUids, NEW talk \in Talks, Other(talk.node, u, talk.type, talk.to)
  PROVE  IInv' /\ Loss
<1> DEFINE w == World
           n == talk.node
           type == talk.type
           p == Allocated(w.mem)
           h == [Blank EXCEPT !.ptype = type, !.uid = IF type = "ARP" THEN 0 ELSE u, !.saddr = n,
                              !.daddr = NoHop, !.next_hop = talk.to, !.prev_hop = n]
           a == InHand(w, h)
           r == IF type = "ARP" THEN IfqRecv(a, n, p) ELSE SendDown(a, n, p)
           S == sent \ mute
<1>1. CanAlloc(w.mem) /\ Become(r) /\ UNCHANGED <<taps, energy, sent, mute>>
  BY DEF Other, World, InHand
<1>2. WOK(w, {}, S) /\ Once(w) /\ w.got = got
  BY DEF IInv, WOK, World
<1>3. /\ n \in Nodes /\ type \in Others /\ talk.to \in Nodes \cup {NoHop}
      /\ (type = "ARP" => talk.to \in Nodes) /\ type # "cbr" /\ u \in Nat
  <2>1. /\ type \in Others /\ talk \in [node : Nodes, type : (Routed \cup {"ARP"}) \ DataPackets,
                                        to : Nodes \cup {NoHop}]
        /\ (type = "ARP" => talk.to \in Nodes) /\ u \in Nat
    BY DataPathAssumption DEF Others
  <2>2. type # "cbr"
    BY <2>1, OtherTypes
  <2> QED BY <2>1, <2>2
<1>4. /\ h \in Headers /\ h.ptype = type /\ h.uid = (IF type = "ARP" THEN 0 ELSE u)
      /\ h.next_hop = talk.to /\ h.prev_hop = n
  <2> DEFINE k == IF type = "ARP" THEN 0 ELSE u
             g == [Blank EXCEPT !.ptype = type, !.uid = k, !.saddr = n, !.daddr = NoHop,
                                !.next_hop = talk.to, !.prev_hop = n]
  <2>1. h = g
    BY Zenon
  <2>2. k \in Nat
    BY <1>3
  <2> HIDE DEF n, type, k, h
  <2>3. g \in Headers
    BY <1>3, <2>2, BlankTyped DEF Headers, Others
  <2>4. g.ptype = type /\ g.uid = k /\ g.next_hop = talk.to /\ g.prev_hop = n
    BY BlankTyped DEF Headers
  <2> HIDE DEF g
  <2> QED BY <2>1, <2>3, <2>4 DEF k
<1> HIDE DEF w, S, n, h, type
<1>5. Logged(h, S, w.got) /\ Goes(n, h)
  BY <1>3, <1>4 DEF Logged, Goes
<1> DEFINE e == {} \cup {p}
           f == e \ {p}
<1>6. WOK(a, e, S) /\ Begun(w, a, p, h)
  BY <1>1, <1>2, <1>4, <1>5, InHandOK
<1>7. p \in e /\ f = {} /\ e \ {p} = f
  OBVIOUS
<1> HIDE DEF a, p, e
<1>8. a.mem.hdr[p] = h /\ Goes(n, a.mem.hdr[p])
  BY <1>5, <1>6 DEF Begun
<1>9. WOK(r, f, S) /\ Did(a, r, e, p)
  <2>1. CASE type = "ARP"
    <3> DEFINE z == IfqRecv(a, n, p)
    <3>1. WOK(z, f, S) /\ Did(a, z, e, p)
      BY <1>3, <1>6, <1>7, <1>8, IfqRecvOK
    <3> QED BY <2>1, <3>1
  <2>2. CASE type # "ARP"
    <3> DEFINE z == SendDown(a, n, p)
    <3>1. WOK(z, f, S) /\ Did(a, z, e, p)
      BY <1>3, <1>6, <1>7, <1>8, SendDownOK
    <3> QED BY <2>2, <3>1
  <2> QED BY <2>1, <2>2
<1> HIDE DEF r, f
<1>10. /\ r.got = got /\ Stored(Contents(r)) \subseteq Stored(Contents(w)) \cup {p}
       /\ \A q \in Stored(Contents(r)) : q # p => q \in Stored(Contents(w)) /\ r.mem.hdr[q] = w.mem.hdr[q]
       /\ p \in Stored(Contents(r)) => r.mem.hdr[p].ptype # "cbr"
  BY <1>2, <1>3, <1>4, <1>6, <1>9 DEF Did, Begun
<1>11. Once(r)
  BY <1>2, <1>10 DEF Once
<1>12. Carried(r) \subseteq Carried(w)
  BY <1>10 DEF Carried, DataOf
<1> QED BY <1>1, <1>7, <1>9, <1>10, <1>11, <1>12, LossStep DEF w, S

(* The MAC is done with its packet.                                        *)
Done(w, n) == Freed([w EXCEPT !.ifc[n] = Resume(w.ifc[n])], w.ifc[n].mac)

LEMMA MacDone ==
  ASSUME NEW w, NEW S, WOK(w, {}, S), NEW n \in Nodes, w.ifc[n].mac # Idle
  PROVE  LET p == w.ifc[n].mac
             v == Done(w, n) IN
         /\ WOK(v, {}, S) /\ Kept(w, v) /\ p \in Stored(Contents(w)) /\ p \notin Stored(Contents(v))
         /\ Goes(n, w.mem.hdr[p]) /\ Logged(w.mem.hdr[p], S, w.got)
<1> DEFINE i == w.ifc[n]
           p == i.mac
           r == Resume(i)
           u == [w EXCEPT !.ifc[n] = r]
           x == <<"ifc", n>>
           v == Freed(u, p)
<1>1. w \in Worlds /\ Ordered(w) /\ i \in Interfaces /\ Queued(i, w.mem.hdr, QLim[n])
  BY DEF WOK, Worlds, Ordered
<1>2. x \in Cells /\ Contents(w)[x] = KeptBy(i)
  <2>1. CellsAre(w, n)
    BY CellsOf
  <2> QED BY <2>1 DEF CellsAre
<1>3. Done(w, n) = v
  BY Zenon DEF Done
<1> HIDE DEF i, x
<1>4. r \in Interfaces /\ Queued(r, w.mem.hdr, QLim[n]) /\ KeptBy(r) = KeptBy(i) \ {p} /\ p \in KeptBy(i)
  <2>1. p # Idle
    BY DEF i
  <2> QED BY <1>1, <2>1, LimitOf, ResumeOK
<1> HIDE DEF r, p
<1>5. Rested(w, u, x, Contents(w)[x] \ {p})
  <2>1. Rested(w, u, x, KeptBy(r))
    BY <1>1, <1>4, IfcRests DEF x
  <2> QED BY <1>2, <1>4, <2>1
<1> HIDE DEF u
<1>6. WOK(u, {p}, S) /\ Fits(x, u.mem.hdr[p]) /\ p \in Packets /\ u.mem = w.mem /\ u.got = w.got
  <2>1. p \in Contents(w)[x]
    BY <1>2, <1>4
  <2> QED BY Zenon, <1>2, <1>5, <2>1, TakenOut
<1>7. Goes(n, w.mem.hdr[p]) /\ Logged(w.mem.hdr[p], S, w.got)
  BY <1>6 DEF Fits, x, WOK, Owned
<1> DEFINE e == {p} \ {p}
<1>8. WOK(v, e, S) /\ Gone(u, v, {p})
  BY <1>6, FreedOK
<1>9. e = {}
  OBVIOUS
<1> HIDE DEF v, e
<1>10. Kept(w, v)
  <2>1. Did(u, v, {p}, p)
    BY <1>6, <1>8, GoneDid
  <2> QED BY <1>2, <1>4, <1>5, <2>1, DidKept
<1>11. p \in Stored(Contents(w))
  BY <1>2, <1>4, <1>6 DEF Stored
<1>12. p \notin Stored(Contents(v))
  BY <1>6, <1>8, HandsFree DEF Gone
<1> QED BY <1>3, <1>7, <1>8, <1>9, <1>10, <1>11, <1>12 DEF p, i

(* A copy of packet p, one hop older, is on its way up where p was sent.   *)
Older(h, n) == [[h EXCEPT !.num_forwards = @ + 1] EXCEPT !.from = n]
Copied(w, p) ==
  [w EXCEPT !.mem = Copy(@, p), !.air = @ \cup {<<Allocated(w.mem), w.mem.hdr[p].next_hop>>}]
Arrived(w, n, p) ==
  [Copied(w, p) EXCEPT !.mem.hdr[Allocated(w.mem)].num_forwards = @ + 1,
                       !.mem.hdr[Allocated(w.mem)].from = n]
Aloft(w, p, h) ==
  [InHand(w, h) EXCEPT !.air = @ \cup {<<Allocated(w.mem), w.mem.hdr[p].next_hop>>}]

LEMMA AllocIs ==
  ASSUME NEW m \in Pools, NEW h
  PROVE  Alloc(m, h) = [m EXCEPT !.free = IF m.free = <<>> THEN m.free ELSE Tail(m.free),
                                 !.used = m.used \cup {Allocated(m)},
                                 !.hdr = [m.hdr EXCEPT ![Allocated(m)] = h]]
BY DEF Alloc, Pools

LEMMA ArrivedIs ==
  ASSUME NEW w \in Worlds, NEW n, NEW p, Allocated(w.mem) \in Packets, w.mem.hdr[p].next_hop \in Nodes,
         Alloc(w.mem, w.mem.hdr[p]) \in Pools
  PROVE  Arrived(w, n, p) = Aloft(w, p, Older(w.mem.hdr[p], n))
<1> DEFINE c == Allocated(w.mem)
           h == w.mem.hdr[p]
           g == Older(h, n)
           B == w.air \cup {<<c, h.next_hop>>}
           k == Alloc(w.mem, h)
           z == Copied(w, p)
           a == [h EXCEPT !.num_forwards = @ + 1]
           y == Written(z, c, a)
           d == [k EXCEPT !.hdr = [k.hdr EXCEPT ![c] = g]]
           l == Alloc(w.mem, g)
<1>1. w.mem \in Pools /\ w.mem.hdr \in [Packets -> Headers] /\ B \subseteq Packets \X Nodes
  BY DEF Worlds, Pools
<1>2. k.hdr = [w.mem.hdr EXCEPT ![c] = h] /\ k.hdr[c] = h /\ d = l
  <2> DEFINE m == w.mem
             f == IF m.free = <<>> THEN m.free ELSE Tail(m.free)
             s == m.used \cup {c}
             e == [m.hdr EXCEPT ![c] = h]
             j == [m.hdr EXCEPT ![c] = g]
  <2>1. /\ k = [m EXCEPT !.free = f, !.used = s, !.hdr = e]
        /\ l = [m EXCEPT !.free = f, !.used = s, !.hdr = j]
    <3> HIDE DEF g, h
    <3> QED BY Zenon, <1>1, AllocIs
  <2>2. e[c] = h /\ [e EXCEPT ![c] = g] = j
    <3> HIDE DEF g, h, c
    <3> QED BY <1>1 DEF c
  <2> HIDE DEF f, s, e, j, m, k, l
  <2>3. m \in Pools
    BY <1>1 DEF m
  <2>4. k.hdr = e
    BY <2>1, <2>3 DEF Pools
  <2>5. d = [k EXCEPT !.hdr = j]
    <3> HIDE DEF g, c
    <3> QED BY <2>2, <2>4
  <2>6. d = l
    BY <2>1, <2>3, <2>5 DEF Pools
  <2> QED BY <2>2, <2>4, <2>6 DEF e, m
<1>3. z = [w EXCEPT !.mem = k, !.air = B]
  BY DEF Copied, Copy
<1> HIDE DEF k, B
<1>4. z \in Worlds /\ z.mem = k /\ z.air = B
  BY <1>1, <1>3 DEF Worlds, k
<1> HIDE DEF z
<1>5. Arrived(w, n, p) = Written(Written(z, c, [z.mem.hdr[c] EXCEPT !.num_forwards = @ + 1]), c,
        [Written(z, c, [z.mem.hdr[c] EXCEPT !.num_forwards = @ + 1]).mem.hdr[c] EXCEPT !.from = n])
  BY DEF Arrived, Written, z
<1>6. z.mem.hdr[c] = h
  BY <1>2, <1>4
<1> HIDE DEF h
<1>7. [z.mem.hdr[c] EXCEPT !.num_forwards = @ + 1] = a
  BY <1>6
<1>8. g = [a EXCEPT !.from = n]
  BY DEF Older
<1> HIDE DEF a, g
<1>9. Arrived(w, n, p) = Written(y, c, [y.mem.hdr[c] EXCEPT !.from = n])
  <2> DEFINE b == [z.mem.hdr[c] EXCEPT !.num_forwards = @ + 1]
  <2>1. b = a
    BY Zenon, <1>7
  <2>2. Arrived(w, n, p) = Written(Written(z, c, b), c, [Written(z, c, b).mem.hdr[c] EXCEPT !.from = n])
    BY Zenon, <1>5
  <2> HIDE DEF b
  <2> QED BY <2>1, <2>2
<1>10. y.mem.hdr[c] = a /\ Written(y, c, g) = Written(z, c, g)
  <2> HIDE DEF c
  <2> QED BY <1>4, WrittenTwice DEF c
<1>11. Arrived(w, n, p) = Written(z, c, g)
  <2> HIDE DEF y
  <2> QED BY <1>8, <1>9, <1>10
<1>12. Written(z, c, g) = [z EXCEPT !.mem = d]
  <2> DEFINE f == z.mem
  <2>1. f = k
    BY <1>4
  <2>2. Written(z, c, g) = [z EXCEPT !.mem = [f EXCEPT !.hdr = [f.hdr EXCEPT ![c] = g]]]
    BY DEF Written
  <2> HIDE DEF f, c
  <2> QED BY <2>1, <2>2
<1>13. Aloft(w, p, g) = [w EXCEPT !.mem = l, !.air = B]
  <2> DEFINE q == InHand(w, g)
  <2>1. q = [w EXCEPT !.mem = l]
    BY DEF InHand
  <2>2. Aloft(w, p, g) = [q EXCEPT !.air = q.air \cup {<<c, h.next_hop>>}]
    BY DEF Aloft, h
  <2> HIDE DEF q, l, c
  <2>3. q.air = w.air
    BY <2>1 DEF Worlds
  <2>4. Aloft(w, p, g) = [q EXCEPT !.air = B]
    BY <2>2, <2>3 DEF B
  <2> QED BY <2>1, <2>4 DEF Worlds
<1> HIDE DEF d, l, c
<1>14. [z EXCEPT !.mem = d] = [w EXCEPT !.mem = d, !.air = B]
  BY <1>3, <1>4 DEF Worlds
<1>15. Arrived(w, n, p) = Aloft(w, p, g)
  <2>1. d = l
    BY <1>2
  <2> QED BY <1>11, <1>12, <1>13, <1>14, <2>1
<1> QED BY <1>15 DEF g, h

(* The copy is the only packet that is new.                                *)
Arrives(w, v, c, h) ==
  /\ v.got = w.got /\ v.ifc = w.ifc
  /\ Stored(Contents(v)) = Stored(Contents(w)) \cup {c} /\ c \notin Stored(Contents(w))
  /\ v.mem.hdr[c].ptype = h.ptype /\ v.mem.hdr[c].uid = h.uid
  /\ \A q \in Stored(Contents(w)) : v.mem.hdr[q] = w.mem.hdr[q]

LEMMA AloftOK ==
  ASSUME NEW w, NEW S, WOK(w, {}, S), NEW n \in Nodes, NEW p \in Packets, CanAlloc(w.mem),
         w.mem.hdr[p].ptype = "cbr", Goes(n, w.mem.hdr[p]), Logged(w.mem.hdr[p], S, w.got)
  PROVE  LET h == w.mem.hdr[p]
             v == Aloft(w, p, Older(h, n)) IN
         WOK(v, {}, S) /\ Arrives(w, v, Allocated(w.mem), h)
<1> DEFINE h == w.mem.hdr[p]
           g == Older(h, n)
           c == Allocated(w.mem)
           m == h.next_hop
           u == InHand(w, g)
           B == u.air \cup {<<c, m>>}
           v == [u EXCEPT !.air = B]
           x == <<"air", m>>
           C == Contents(u)
           D == C[x] \cup {c}
           e == {} \cup {c}
           f == (e \cup C[x]) \ D
<1>1. h \in Headers /\ w \in Worlds /\ w.mem \in Pools
  BY DEF WOK, Worlds, Pools
<1>2. /\ h.ptype = "cbr" /\ Sized(h, DefTTL) /\ m \in Neighbours[n] /\ h.prev_hop = n
      /\ m \in Nodes /\ m # n /\ DefTTL \in Nat /\ h.num_forwards \in Nat /\ h.ttl \in 0 .. DefTTL
  BY <1>1, DataPathAssumption DEF Goes, Headers
<1>3. /\ g \in Headers /\ g.ptype = "cbr" /\ g.uid = h.uid /\ g.num_forwards = h.num_forwards + 1
      /\ g.from = n /\ g.prev_hop = n /\ g.size = h.size /\ g.ttl = h.ttl
  <2> DEFINE a == [h EXCEPT !.num_forwards = @ + 1]
  <2> HIDE DEF h
  <2>1. a \in Headers /\ a = [h EXCEPT !.num_forwards = h.num_forwards + 1]
    <3>1. h.num_forwards + 1 \in Nat
      BY <1>2
    <3> DEFINE k == h.num_forwards + 1
    <3>2. a = [h EXCEPT !.num_forwards = k]
      OBVIOUS
    <3> HIDE DEF a, k
    <3> QED BY <1>1, <3>1, <3>2 DEF Headers, k
  <2>2. /\ a.ptype = h.ptype /\ a.uid = h.uid /\ a.num_forwards = h.num_forwards + 1
        /\ a.prev_hop = h.prev_hop /\ a.size = h.size /\ a.ttl = h.ttl
    BY <1>1, <2>1 DEF Headers
  <2> HIDE DEF a
  <2>3. g = [a EXCEPT !.from = n]
    BY Zenon DEF Older, a
  <2> HIDE DEF g
  <2>4. g \in Headers /\ g.from = n /\ g.num_forwards = a.num_forwards
    BY <2>1, <2>3 DEF Headers
  <2>5. /\ g.ptype = a.ptype /\ g.uid = a.uid
        /\ g.prev_hop = a.prev_hop /\ g.size = a.size /\ g.ttl = a.ttl
    BY <2>1, <2>3 DEF Headers
  <2> QED BY <1>2, <2>2, <2>4, <2>5
<1>4. Logged(g, S, w.got)
  BY <1>2, <1>3, OtherTypes DEF Logged
<1>5. Comes(m, g)
  BY <1>2, <1>3 DEF Comes, Sized
<1> HIDE DEF h, g, m
<1>6. WOK(u, e, S) /\ Begun(w, u, c, g) /\ u.ifc = w.ifc
  BY <1>3, <1>4, InHandOK
<1>7. u \in Worlds /\ Ordered(u) /\ C \in [Cells -> SUBSET Packets]
  BY <1>6 DEF WOK, Owned
<1>8. v = Aloft(w, p, g)
  BY Zenon DEF Aloft, h, m
<1> HIDE DEF u, c
<1>9. x \in Cells /\ C[x] = {q \in Packets : <<q, m>> \in u.air}
  <2>1. CellsAre(u, m)
    BY <1>2, CellsOf
  <2> QED BY <2>1 DEF CellsAre
<1>10. c \in Packets /\ c \notin Stored(C) /\ Stored(C) = Stored(Contents(w))
  BY <1>6 DEF Begun
<1>11. Rested(u, v, x, D)
  <2>1. /\ B \subseteq Packets \X Nodes
        /\ \A q \in Packets, j \in Nodes : j # m => (<<q, j>> \in B <=> <<q, j>> \in u.air)
    BY <1>2, <1>7, <1>10 DEF Worlds
  <2>2. {q \in Packets : <<q, m>> \in B} = D
    BY <1>9, <1>10
  <2> HIDE DEF B, D, C
  <2>3. Rested(u, v, x, {q \in Packets : <<q, m>> \in B})
    BY <1>2, <1>7, <2>1, AirRests
  <2> QED BY <2>2, <2>3
<1>12. v.ifc = u.ifc
  <2> HIDE DEF B
  <2> QED BY <1>7 DEF Worlds
<1> HIDE DEF v
<1>13. Fits(x, u.mem.hdr[c])
  BY <1>5, <1>6 DEF Fits, x, Begun
<1>14. WOK(v, f, S)
  <2>1. D \subseteq C[x] \cup e /\ \A q \in D \ C[x] : Fits(x, u.mem.hdr[q])
    BY <1>13
  <2> HIDE DEF D, e, x
  <2> QED BY <1>6, <1>9, <1>11, <2>1, RestedOK DEF C
<1>15. f = {} /\ e = {c}
  BY <1>10
<1>16. Stored(Contents(v)) = Stored(C) \cup {c}
  <2> DEFINE E == Contents(v)
  <2>1. E = [C EXCEPT ![x] = D]
    BY <1>11 DEF Rested
  <2> HIDE DEF E, C, x
  <2>2. \A y \in Cells : E[y] = IF y = x THEN C[x] \cup {c} ELSE C[y]
    BY <1>7, <2>1
  <2>3. Stored(E) = Stored(C) \cup {c}
    BY <1>9, <1>10, <2>2 DEF Stored
  <2> QED BY <2>3 DEF E
<1>17. Arrives(w, v, c, h)
  <2>1. v.got = u.got /\ v.mem = u.mem
    BY <1>11 DEF Rested
  <2> HIDE DEF C
  <2> QED BY <1>2, <1>3, <1>6, <1>10, <1>12, <1>16, <2>1 DEF Arrives, Begun, h
<1> HIDE DEF f
<1> QED BY <1>8, <1>14, <1>15, <1>17 DEF c, g, h

(* Transmit's terms, by the names they have here.                          *)
ArrivedBy(w, m, n, p) ==
  [[w EXCEPT !.mem = Copy(@, p), !.air = @ \cup {<<Allocated(m), m.hdr[p].next_hop>>}]
     EXCEPT !.mem.hdr[Allocated(m)].num_forwards = @ + 1, !.mem.hdr[Allocated(m)].from = n]
LetGo(w, n, p) == Freed([w EXCEPT !.ifc[n] = Resume(@)], p)

LEMMA TransmitIs ==
  ASSUME NEW n, NEW arrives, Transmit(n, arrives)
  PROVE  /\ World.ifc[n].mac # Idle /\ UNCHANGED <<taps, energy, sent, mute>>
         /\ arrives => CanAlloc(World.mem) /\ World.mem.hdr[World.ifc[n].mac].ptype \in DataPackets
         /\ LET b == IF arrives THEN Arrived(World, n, World.ifc[n].mac) ELSE World IN
              Become(LetGo(b, n, World.ifc[n].mac))
<1> DEFINE p == ifc[n].mac
<1>1. /\ p # Idle /\ UNCHANGED <<taps, energy, sent, mute>>
      /\ arrives => CanAlloc(mem) /\ mem.hdr[p].ptype \in DataPackets
  BY Zenon DEF Transmit
<1>2. Become(LetGo(IF arrives THEN ArrivedBy(World, mem, n, p) ELSE World, n, p))
  BY Zenon DEF Transmit, ArrivedBy, LetGo
<1>3. mem = World.mem /\ ifc = World.ifc
  BY DEF World
<1> DEFINE w == World
           q == w.ifc[n].mac
<1>4. ArrivedBy(w, w.mem, n, q) = Arrived(w, n, q)
  BY Zenon DEF ArrivedBy, Arrived, Copied
<1>5. p = w.ifc[n].mac /\ w.mem = mem
  BY <1>3
<1> HIDE DEF p, w
<1>6. Become(LetGo(IF arrives THEN Arrived(w, n, q) ELSE w, n, q))
  BY <1>2, <1>4, <1>5 DEF w
<1> QED BY <1>1, <1>5, <1>6 DEF w

LEMMA DoneIs ==
  ASSUME NEW w, NEW n
  PROVE  Done(w, n) = LetGo(w, n, w.ifc[n].mac)
BY Zenon DEF Done, LetGo

LEMMA TransmitStep ==
  ASSUME IInv, NEW n \in Nodes, NEW arrives \in BOOLEAN, Transmit(n, arrives)
  PROVE  IInv' /\ Loss
<1> DEFINE w == World
           p == w.ifc[n].mac
           h == w.mem.hdr[p]
           c == Allocated(w.mem)
           a == Arrived(w, n, p)
           b == IF arrives THEN a ELSE w
           r == LetGo(b, n, p)
           S == sent \ mute
<1> HIDE DEF a
<1>0. Become(r) /\ UNCHANGED <<taps, energy, sent, mute>>
  BY TransmitIs DEF a
<1> HIDE DEF r
<1>1. p # Idle /\ (arrives => CanAlloc(w.mem) /\ h.ptype \in DataPackets)
  BY TransmitIs
<1>2. WOK(w, {}, S) /\ Once(w) /\ w.got = got /\ w \in Worlds
  BY DEF IInv, WOK, World
<1>3. w = World /\ S = sent \ mute
  OBVIOUS
<1> HIDE DEF w, S
<1>4. /\ Goes(n, h) /\ Logged(h, S, w.got) /\ p \in Stored(Contents(w))
      /\ p \in Packets /\ h \in Headers
  <2>1. Goes(n, h) /\ Logged(h, S, w.got) /\ p \in Stored(Contents(w))
    BY <1>1, <1>2, MacDone
  <2> QED BY <1>2, <2>1 DEF Worlds, Pools, Stored
<1> HIDE DEF p
<1>5. CASE ~ arrives
  <2>1. b = w
    BY <1>5
  <2>2. r = Done(w, n)
    <3> HIDE DEF b
    <3>1. p = w.ifc[n].mac
      BY DEF p
    <3> QED BY <2>1, <3>1, DoneIs DEF r
  <2> HIDE DEF b
  <2>3. WOK(r, {}, S) /\ Kept(w, r)
    <3>1. w.ifc[n].mac # Idle
      BY <1>1 DEF p
    <3> HIDE DEF r
    <3> QED BY <1>2, <2>2, <3>1, MacDone
  <2> HIDE DEF r
  <2> QED BY <1>0, <1>3, <2>3, KeptStep
<1>6. CASE arrives
  <2>1. b = a
    BY <1>6
  <2>2. h.ptype = "cbr"
    <3>1. \A type \in Others \cup {"ARP"} : type \notin DataPackets
      BY Zenon, OtherPackets
    <3>2. h.ptype \in DataPackets /\ Logged(h, S, w.got)
      BY <1>1, <1>4, <1>6
    <3> HIDE DEF h
    <3> QED BY <3>1, <3>2 DEF Logged
  <2>3. h.next_hop \in Nodes
    BY <1>4, <2>2, DataPathAssumption DEF Goes
  <2> DEFINE g == Older(h, n)
             v == Aloft(w, p, g)
  <2>4. WOK(v, {}, S) /\ Arrives(w, v, c, h)
    <3> HIDE DEF p
    <3> QED BY <1>1, <1>2, <1>4, <1>6, <2>2, AloftOK
  <2>5. c \in Packets /\ Alloc(w.mem, h) \in Pools
    <3>1. WOK(InHand(w, h), {} \cup {c}, S) /\ InHand(w, h).mem = Alloc(w.mem, h)
      <4> HIDE DEF h
      <4> QED BY Zenon, <1>1, <1>2, <1>4, <1>6, InHandOK
    <3>2. c \in Packets
      <4> DEFINE H == {} \cup {c}
      <4>1. c \in H
        OBVIOUS
      <4> HIDE DEF H, c
      <4> QED BY <3>1, <4>1, HandsFree DEF H
    <3> HIDE DEF h, c
    <3> QED BY <3>1, <3>2 DEF WOK, Worlds
  <2>6. a = v
    <3> QED BY <1>2, <2>3, <2>5, ArrivedIs DEF a
  <2>7. b = v
    BY <2>1, <2>6
  <2> HIDE DEF a, b, v, c, h
  <2>8. b.ifc = w.ifc /\ WOK(b, {}, S) /\ Arrives(w, b, c, h)
    BY <2>4, <2>7 DEF Arrives
  <2>9. b.ifc[n].mac = p
    BY <2>8 DEF p
  <2>10. r = Done(b, n)
    <3> HIDE DEF p
    <3> QED BY <2>9, DoneIs DEF r
  <2> HIDE DEF p, r
  <2>11. WOK(r, {}, S) /\ Kept(b, r) /\ p \notin Stored(Contents(r))
    BY <1>1, <2>8, <2>9, <2>10, MacDone
  <2>12. p \in Stored(Contents(w)) /\ c \notin Stored(Contents(w)) /\ w.mem.hdr[p].uid = h.uid
         /\ w.mem.hdr[p].ptype = "cbr"
    <3>1. h = w.mem.hdr[p]
      BY DEF h
    <3> HIDE DEF p, h
    <3> QED BY <1>4, <2>2, <2>8, <3>1 DEF Arrives
  <2>13. /\ r.got = w.got
         /\ \A q \in Stored(Contents(r)) :
              \/ q \in Stored(Contents(w)) \ {p} /\ r.mem.hdr[q].ptype = w.mem.hdr[q].ptype
                 /\ r.mem.hdr[q].uid = w.mem.hdr[q].uid
              \/ q = c /\ r.mem.hdr[q].ptype = "cbr" /\ r.mem.hdr[q].uid = w.mem.hdr[p].uid
    BY <2>2, <2>8, <2>11, <2>12 DEF Arrives, Kept
  <2>14. Once(r)
    BY <1>2, <2>12, <2>13 DEF Once
  <2>15. Carried(r) \subseteq Carried(w)
    BY <2>12, <2>13 DEF Carried, DataOf
  <2> QED BY <1>0, <1>2, <1>3, <2>11, <2>13, <2>14, <2>15, LossStep
<1> QED BY <1>5, <1>6


-----------------------------------------------------------------------------
(* The steps that leave the nodes as they are.                             *)
LEMMA LoadStep ==
  ASSUME IInv, World' = World, UNCHANGED <<taps, energy, sent, mute>>
  PROVE  IInv' /\ Loss
<1>1. (sent \ mute)' = sent \ mute
  OBVIOUS
<1>2. World \in Worlds /\ WOK(World, {}, sent \ mute)
  BY DEF IInv, WOK
<1>3. WOK(World, {}, sent \ mute)'
  BY <1>1, <1>2, NextOK
<1>4. got = World.got /\ got' = World'.got
  BY DEF World
<1> QED BY <1>3, <1>4 DEF IInv, Loss, Once

(* Ownership between two steps, when T are the packets that others have.   *)
Holds(T, m, C, S, G) ==
  /\ m \in Pools /\ C \in [Cells -> SUBSET Packets]
  /\ \A x, y \in Cells : \A p \in C[x] : p \in C[y] => x = y
  /\ m.used = T \cup Stored(C)
  /\ \A p \in Packets : m.refs[p] = IF p \in T /\ p \in Stored(C) THEN 1 ELSE 0
  /\ \A j, k \in DOMAIN m.free : m.free[j] = m.free[k] => j = k
  /\ \A k \in DOMAIN m.free : m.free[k] \notin m.used
  /\ \A p \in Stored(C) : Logged(m.hdr[p], S, G)
  /\ \A x \in Cells : \A p \in C[x] : Fits(x, m.hdr[p])
  /\ \A p \in T : m.hdr[p].ptype = "cbr" => m.hdr[p].ttl > 0

LEMMA HoldsIs ==
  ASSUME NEW m, NEW C, NEW S, NEW G
  PROVE  Owned(m, C, {}, S, G) <=> Holds(taps, m, C, S, G)
<1>1. Stored(C) = {} \cup Stored(C) /\ \A p \in {} : FALSE
  OBVIOUS
<1>2. taps \cup {} \cup Stored(C) = taps \cup Stored(C)
  OBVIOUS
<1> QED BY <1>1, <1>2 DEF Owned, Holds

(* Another reference to a packet in a cell, and one less.                  *)
LEMMA TapHolds ==
  ASSUME NEW m, NEW C, NEW S, NEW G, Holds({}, m, C, S, G), NEW p \in Stored(C),
         m.hdr[p].ptype = "cbr" => m.hdr[p].ttl > 0
  PROVE  Holds({p}, RefCopy(m, p), C, S, G) /\ RefCopy(m, p).hdr = m.hdr
<1> DEFINE f == [m.refs EXCEPT ![p] = @ + 1]
           r == RefCopy(m, p)
<1>1. m \in Pools /\ p \in Packets /\ m.refs[p] = 0 /\ m.used = Stored(C)
  BY DEF Holds, Stored
<1>2. f \in [Packets -> Nat] /\ \A q \in Packets : f[q] = IF q = p THEN 1 ELSE m.refs[q]
  BY <1>1 DEF Pools
<1>3. r = [m EXCEPT !.refs = f]
  BY DEF RefCopy
<1> HIDE DEF f, r
<1>4. r \in Pools /\ r.free = m.free /\ r.used = m.used /\ r.hdr = m.hdr /\ r.refs = f
  BY <1>1, <1>2, <1>3 DEF Pools
<1>5. \A q \in Packets : f[q] = IF q \in {p} /\ q \in Stored(C) THEN 1 ELSE 0
  BY <1>2 DEF Holds
<1>6. {p} \cup Stored(C) = Stored(C)
  OBVIOUS
<1>7. Holds({p}, r, C, S, G)
  BY <1>1, <1>4, <1>5, <1>6 DEF Holds
<1> QED BY <1>4, <1>7 DEF r

LEMMA UntapHolds ==
  ASSUME NEW T, NEW m, NEW C, NEW S, NEW G, Holds(T, m, C, S, G), NEW p \in T
  PROVE  /\ Holds(T \ {p}, Free(m, p), C, S, G)
         /\ \A q \in Stored(C) : Free(m, p).hdr[q] = m.hdr[q]
<1> DEFINE r == Free(m, p)
<1>1. m \in Pools /\ p \in Packets /\ p \in m.used /\ Stored(C) \subseteq Packets
  BY DEF Holds, Stored, Pools
<1>2. CASE p \in Stored(C)
  <2>1. m.refs[p] = 1
    BY <1>1, <1>2 DEF Holds
  <2>2. /\ r \in Pools /\ r.free = m.free /\ r.used = m.used /\ r.hdr = m.hdr
        /\ r.refs = [m.refs EXCEPT ![p] = @ - 1]
    BY <1>1, <2>1, FreeShared1
  <2> HIDE DEF r
  <2>3. \A q \in Packets : r.refs[q] = IF q = p THEN 0 ELSE m.refs[q]
    BY <1>1, <2>1, <2>2 DEF Pools
  <2>4. \A q \in Packets : r.refs[q] = IF q \in T \ {p} /\ q \in Stored(C) THEN 1 ELSE 0
    BY <2>3 DEF Holds
  <2>5. r.used = (T \ {p}) \cup Stored(C)
    BY <1>2, <2>2 DEF Holds
  <2>6. Holds(T \ {p}, r, C, S, G)
    BY <2>2, <2>4, <2>5 DEF Holds
  <2> QED BY <2>2, <2>6 DEF r
<1>3. CASE p \notin Stored(C)
  <2>1. m.refs[p] = 0
    BY <1>1, <1>3 DEF Holds
  <2>2. /\ r \in Pools /\ r.used = m.used \ {p}
        /\ r.hdr = [m.hdr EXCEPT ![p] = Blank] /\ r.refs = m.refs
        /\ Len(r.free) = Len(m.free) + 1 /\ r.free[1] = p
        /\ \A k \in 2 .. Len(m.free) + 1 : r.free[k] = m.free[k - 1]
    BY <1>1, <2>1, FreeLast
  <2> HIDE DEF r
  <2>3. /\ m.free \in Seq(Packets) /\ r.free \in Seq(Packets)
        /\ m.hdr \in [Packets -> Headers]
    BY <1>1, <2>2 DEF Pools
  <2>4. \A q \in Packets : q # p => r.hdr[q] = m.hdr[q]
    BY <2>2, <2>3
  <2>5. \A q \in Stored(C) : q # p /\ r.hdr[q] = m.hdr[q]
    BY <1>1, <1>3, <2>4
  <2>6. \A k \in DOMAIN m.free : m.free[k] \notin m.used
    BY DEF Holds
  <2>7. \A k \in DOMAIN r.free : k = 1 \/ (k - 1 \in DOMAIN m.free /\ r.free[k] = m.free[k - 1])
    <3> DEFINE l == Len(m.free)
    <3>1. l \in Nat /\ DOMAIN m.free = 1 .. l /\ DOMAIN r.free = 1 .. l + 1
      BY <2>2, <2>3
    <3>2. \A k \in 2 .. l + 1 : r.free[k] = m.free[k - 1]
      BY <2>2
    <3> HIDE DEF l
    <3>3. \A k \in 1 .. l + 1 : k = 1 \/ (k \in 2 .. l + 1 /\ k - 1 \in 1 .. l)
      BY <3>1
    <3> QED BY <3>1, <3>2, <3>3
  <2>8. \A k \in DOMAIN r.free : r.free[k] \notin r.used
    <3> SUFFICES ASSUME NEW k \in DOMAIN r.free PROVE r.free[k] \notin m.used \ {p}
      BY <2>2
    <3> QED BY <2>2, <2>6, <2>7
  <2>9. \A j, k \in DOMAIN r.free : r.free[j] = r.free[k] => j = k
    <3> SUFFICES ASSUME NEW j \in DOMAIN r.free, NEW k \in DOMAIN r.free, r.free[j] = r.free[k]
                 PROVE  j = k
      OBVIOUS
    <3>1. \A i \in DOMAIN m.free : m.free[i] # p
      BY <1>1, <2>6
    <3>2. j \in Nat /\ k \in Nat
      BY <2>3
    <3>3. CASE j = 1 \/ k = 1
      BY <2>2, <2>7, <3>1, <3>3
    <3>4. CASE j # 1 /\ k # 1
      <4>1. j - 1 = k - 1
        BY <2>7, <3>4 DEF Holds
      <4> QED BY <3>2, <4>1
    <3> QED BY <3>3, <3>4
  <2>10. r.used = (T \ {p}) \cup Stored(C)
    BY <1>3, <2>2 DEF Holds
  <2>11. \A q \in Packets : r.refs[q] = IF q \in T \ {p} /\ q \in Stored(C) THEN 1 ELSE 0
    BY <1>3, <2>2 DEF Holds
  <2>12. \A q \in T \ {p} : r.hdr[q].ptype = "cbr" => r.hdr[q].ttl > 0
    <3>1. T \subseteq Packets
      BY <1>1 DEF Holds, Pools
    <3> QED BY <2>4, <3>1 DEF Holds
  <2>13. \A x \in Cells : \A q \in C[x] : q \in Stored(C)
    BY DEF Stored, Holds
  <2>14. Holds(T \ {p}, r, C, S, G)
    BY <2>2, <2>5, <2>8, <2>9, <2>10, <2>11, <2>12, <2>13 DEF Holds
  <2> QED BY <2>5, <2>14 DEF r
<1> QED BY <1>2, <1>3

(* Only the pool and the references of others have changed.                *)
LEMMA PoolStep ==
  ASSUME IInv, UNCHANGED <<nodeVars, energy, traceVars, historyVars>>,
         Holds(taps', mem', Contents(World), sent \ mute, got),
         \A q \in Stored(Contents(World)) : mem'.hdr[q] = mem.hdr[q]
  PROVE  IInv' /\ Loss
<1> DEFINE w == World
           C == Contents(w)
           v == World'
           S == sent \ mute
<1>1. /\ v.rqueue = w.rqueue /\ v.later = w.later /\ v.ifc = w.ifc /\ v.air = w.air
      /\ v.got = w.got /\ v.blamed = w.blamed /\ v.awk = w.awk /\ v.clashed = w.clashed
      /\ v.color = w.color /\ v.screen = w.screen
      /\ v.mem = mem' /\ w.mem = mem /\ w.got = got
      /\ v = [w EXCEPT !.mem = mem']
  BY DEF World, nodeVars, traceVars, historyVars
<1>2. /\ energy' = energy /\ sent' = sent /\ mute' = mute /\ got' = got /\ S' = S
  BY DEF historyVars
<1>3. WOK(w, {}, S) /\ Once(w) /\ sent \subseteq Uids /\ IsFiniteSet(sent) /\ mute \subseteq sent
  BY DEF IInv
<1>4. /\ v = World' /\ w = World
      /\ World'.color = World.color /\ World'.screen = World.screen /\ World'.awk = World.awk
      /\ World'.got = World.got /\ World'.clashed = World.clashed
  BY <1>1
<1> HIDE DEF w, v
<1>5. mem' \in Pools /\ w \in Worlds /\ Ordered(w)
  BY <1>3, <1>4 DEF Holds, WOK
<1>6. v \in Worlds /\ Contents(v) = C /\ Ordered(v)
  <2>1. \A q \in Stored(C) : mem'.hdr[q].ptype = w.mem.hdr[q].ptype
    BY <1>1, <1>4
  <2> QED BY <1>1, <1>5, <2>1, MemOnly
<1>7. Owned(World.mem, Contents(World), {}, sent \ mute, World.got)'
  <2>1. Holds(taps', v.mem, Contents(v), S', v.got)
    BY <1>1, <1>2, <1>4, <1>6
  <2> QED BY <1>4, <2>1, HoldsIs DEF Owned, Holds
<1>8. Painted(World.color, World.screen)'
  <2>1. \A n : Level(n)' = EnergyLevel(energy'[n], 50, 20) /\ Level(n) = EnergyLevel(energy[n], 50, 20)
    BY DEF Level
  <2>2. \A n : Level(n)' = Level(n)
    BY <1>2, <2>1
  <2>3. Painted(w.color, w.screen)
    BY <1>3 DEF WOK
  <2>4. Painted(World.color, World.screen)
    BY <1>4, <2>3
  <2> QED BY <1>4, <2>2, <2>4 DEF Painted
<1>9. Summed(World.awk, sent \ mute, World.got, World.clashed)'
  <2>1. Summed(w.awk, S, w.got, w.clashed)
    BY <1>3 DEF WOK
  <2>2. Summed(World.awk, sent \ mute, World.got, World.clashed)
    BY <1>4, <2>1
  <2>3. (sent \ mute)' = sent \ mute
    BY <1>2
  <2> QED BY <1>4, <2>2, <2>3 DEF Summed
<1>10. WOK(World, {}, sent \ mute)'
  BY <1>1, <1>2, <1>3, <1>4, <1>6, <1>7, <1>8, <1>9 DEF WOK
<1>11. \A q \in Stored(C) : v.mem.hdr[q] = w.mem.hdr[q]
  BY <1>1, <1>4
<1>12. Once(v) /\ Carried(v) \subseteq Carried(w)
  <2>1. Once(v)
    BY <1>3, <1>6, <1>11 DEF Once
  <2>2. Carried(v) \subseteq Carried(w)
    BY <1>6, <1>11 DEF Carried, DataOf
  <2> QED BY <2>1, <2>2
<1> QED BY <1>2, <1>3, <1>4, <1>10, <1>12 DEF IInv, Loss, Once

LEMMA TapStep == ASSUME IInv, NEW n \in Nodes, Tap(n) PROVE IInv' /\ Loss
<1> DEFINE w == World
           p == w.ifc[n].mac
           C == Contents(w)
           S == sent \ mute
<1>1. /\ p # Idle /\ taps = {} /\ taps' = {} \cup {p} /\ mem' = RefCopy(w.mem, p)
      /\ w.mem = mem /\ w.got = got /\ UNCHANGED <<nodeVars, energy, traceVars, historyVars>>
  BY DEF Tap, World
<1>2. WOK(w, {}, S)
  BY DEF IInv
<1>3. S = sent \ mute /\ w = World
  OBVIOUS
<1> HIDE DEF w, S
<1>4. p \in Stored(C) /\ Goes(n, w.mem.hdr[p])
  BY <1>1, <1>2, MacDone
<1>5. Holds({}, w.mem, C, S, w.got)
  <2>1. Holds(taps, w.mem, C, S, w.got)
    BY <1>2, HoldsIs DEF WOK
  <2> QED BY <1>1, <2>1
<1>6. w.mem.hdr[p].ptype = "cbr" => w.mem.hdr[p].ttl > 0
  BY <1>4 DEF Goes, Sized
<1> HIDE DEF p, C
<1>7. Holds({p}, RefCopy(w.mem, p), C, S, w.got) /\ RefCopy(w.mem, p).hdr = w.mem.hdr
  BY <1>4, <1>5, <1>6, TapHolds
<1>8. taps' = {p}
  BY <1>1
<1>9. Holds(taps', mem', C, S, got) /\ mem'.hdr = mem.hdr
  BY <1>1, <1>7, <1>8
<1> QED BY <1>1, <1>3, <1>9, PoolStep DEF C

LEMMA UntapStep == ASSUME IInv, NEW p, Untap(p) PROVE IInv' /\ Loss
<1> DEFINE w == World
           C == Contents(w)
           S == sent \ mute
<1>1. /\ p \in taps /\ taps' = taps \ {p} /\ mem' = Free(w.mem, p)
      /\ w.mem = mem /\ w.got = got /\ UNCHANGED <<nodeVars, energy, traceVars, historyVars>>
  BY DEF Untap, World
<1>2. WOK(w, {}, S)
  BY DEF IInv
<1>3. S = sent \ mute /\ w = World
  OBVIOUS
<1> HIDE DEF w, S
<1>4. Holds(taps, w.mem, C, S, w.got)
  BY <1>2, HoldsIs DEF WOK
<1> HIDE DEF C
<1>5. /\ Holds(taps \ {p}, Free(w.mem, p), C, S, w.got)
      /\ \A q \in Stored(C) : Free(w.mem, p).hdr[q] = w.mem.hdr[q]
  BY <1>1, <1>4, UntapHolds
<1>6. /\ Holds(taps', mem', C, S, got)
      /\ \A q \in Stored(C) : mem'.hdr[q] = mem.hdr[q]
  BY <1>1, <1>5
<1> QED BY <1>1, <1>3, <1>6, PoolStep DEF C

(* Energy goes down, and the level with it.                                *)
LEMMA DrainStep == ASSUME IInv, NEW n \in Nodes, Drain(n) PROVE IInv' /\ Loss
<1> DEFINE w == World
           v == World'
           S == sent \ mute
<1>1. /\ energy[n] > 0 /\ energy' = [energy EXCEPT ![n] = IF @ > 50 THEN 10 ELSE 0]
      /\ v = w /\ taps' = taps /\ sent' = sent /\ mute' = mute /\ got' = got
  BY DEF Drain, World, nodeVars, traceVars, historyVars
<1>2. /\ WOK(w, {}, S) /\ Once(w) /\ sent \subseteq Uids /\ IsFiniteSet(sent)
      /\ mute \subseteq sent /\ energy \in [Nodes -> 0 .. 100]
  BY DEF IInv, WOK
<1>3. v = World' /\ w = World /\ S = sent \ mute /\ S' = S
  BY <1>1
<1>4. energy' \in [Nodes -> 0 .. 100]
  BY <1>1, <1>2
<1>5. \A k \in Nodes : Level(k)' <= Level(k) /\ Level(k) \in 0 .. 3 /\ Level(k)' \in 0 .. 3
  <2> SUFFICES ASSUME NEW k \in Nodes
               PROVE  Level(k)' <= Level(k) /\ Level(k) \in 0 .. 3 /\ Level(k)' \in 0 .. 3
    OBVIOUS
  <2>1. energy[k] \in 0 .. 100 /\ energy'[k] \in 0 .. 100
    BY <1>2, <1>4
  <2>2. energy'[k] = energy[k] \/ (energy[k] > 50 /\ energy'[k] = 10) \/ energy'[k] = 0
    BY <1>1, <1>2
  <2> QED BY <2>1, <2>2 DEF Level, EnergyLevel
<1> HIDE DEF w, v
<1>6. Painted(World.color, World.screen)'
  <2>1. Painted(w.color, w.screen) /\ w.color \in [Nodes -> [Tracers -> 0 .. 3]]
    BY <1>2 DEF WOK, Worlds
  <2>2. \A k \in Nodes : \A t \in Tracers : Level(k)' <= w.color[k][t]
    <3> SUFFICES ASSUME NEW k \in Nodes, NEW t \in Tracers PROVE Level(k)' <= w.color[k][t]
      OBVIOUS
    <3>1. Level(k) <= w.color[k][t] /\ w.color[k][t] \in 0 .. 3
      BY <2>1 DEF Painted
    <3>2. Level(k)' <= Level(k) /\ Level(k) \in 0 .. 3 /\ Level(k)' \in 0 .. 3
      BY <1>5
    <3> HIDE DEF Level
    <3> QED BY <3>1, <3>2
  <2> QED BY <1>1, <1>3, <2>1, <2>2 DEF Painted
<1>7. Owned(World.mem, Contents(World), {}, sent \ mute, World.got)'
  <2>1. Owned(w.mem, Contents(w), {}, S, w.got)
    BY <1>2 DEF WOK
  <2> QED BY <1>1, <1>3, <2>1 DEF Owned
<1>8. WOK(World, {}, sent \ mute)'
  BY <1>1, <1>2, <1>3, <1>4, <1>6, <1>7 DEF WOK
<1> QED BY <1>1, <1>2, <1>3, <1>8 DEF IInv, Loss, Once

-----------------------------------------------------------------------------
(* At the start all places are empty.                                      *)
LEMMA InitOK == Init => IInv
<1> SUFFICES ASSUME Init PROVE IInv
  OBVIOUS
<1> DEFINE w == World
           C == Contents(w)
<1>1. /\ w.mem = NewPool /\ w.rqueue = [n \in Nodes |-> <<>>] /\ w.later = [n \in Nodes |-> {}]
      /\ w.ifc = [n \in Nodes |-> Idling] /\ w.air = {} /\ w.awk = NoLines
      /\ w.color = [n \in Nodes |-> [t \in Tracers |-> 3]] /\ w.screen = [n \in Nodes |-> 3]
      /\ w.got = {} /\ w.clashed = {} /\ w.blamed = {}
      /\ taps = {} /\ energy = [n \in Nodes |-> 100] /\ sent = {} /\ mute = {}
      /\ w = [mem |-> w.mem, rqueue |-> w.rqueue, later |-> w.later, ifc |-> w.ifc, air |-> w.air,
              awk |-> w.awk, color |-> w.color, screen |-> w.screen,
              got |-> w.got, clashed |-> w.clashed, blamed |-> w.blamed]
  BY DEF Init, World
<1>2. NewPool \in Pools
  BY BlankTyped DEF NewPool, Pools
<1>3. NoLines \in Scripts
  BY DEF NoLines, Scripts
<1>4. Idling \in Interfaces /\ Idling.q = <<>> /\ KeptBy(Idling) = {}
  BY DEF Idling, Interfaces, KeptBy, ToSet
<1>5. w = World
  OBVIOUS
<1> HIDE DEF w
<1>6. w \in Worlds
  <2>1. /\ w.rqueue \in [Nodes -> Seq(Packets)] /\ w.later \in [Nodes -> SUBSET Packets]
        /\ w.ifc \in [Nodes -> Interfaces] /\ w.air \in SUBSET (Packets \X Nodes)
        /\ w.color \in [Nodes -> [Tracers -> 0 .. 3]] /\ w.screen \in [Nodes -> 0 .. 3]
        /\ w.got \in SUBSET Uids /\ w.clashed \in SUBSET Uids /\ w.blamed \in SUBSET Faults
    <3> HIDE DEF C
    <3> QED BY <1>1, <1>4
  <2> QED BY <1>1, <1>2, <1>3, <2>1 DEF Worlds
<1>7. \A x \in Cells : C[x] = {}
  BY <1>1, <1>4 DEF Contents, Cells, ToSet
<1>8. C \in [Cells -> SUBSET Packets] /\ Stored(C) = {}
  <2>1. C \in [Cells -> SUBSET Packets]
    <3>1. DOMAIN C = Cells /\ C = [x \in Cells |-> C[x]]
      BY DEF Contents
    <3> HIDE DEF C
    <3> QED BY <1>7, <3>1
  <2> HIDE DEF C
  <2>2. \A p \in Packets : ~ \E x \in Cells : p \in C[x]
    BY <1>7
  <2> QED BY <2>1, <2>2 DEF Stored
<1> HIDE DEF C
<1>9. Owned(w.mem, C, {}, sent \ mute, w.got)
  <2>1. /\ w.mem.used = {} /\ w.mem.free = <<>> /\ w.mem.refs = [p \in Packets |-> 0]
    BY <1>1 DEF NewPool
  <2>2. Holds({}, w.mem, C, sent \ mute, w.got)
    BY <1>1, <1>2, <1>7, <1>8, <2>1 DEF Holds
  <2> QED BY <1>1, <2>2, HoldsIs
<1>10. Ordered(w)
  BY <1>1, <1>4, LimitOf DEF Ordered, Queued, Lined
<1>11. Summed(w.awk, sent \ mute, w.got, w.clashed)
  <2>1. sent \ mute = {} /\ Cardinality({}) = 0
    BY <1>1, FS_EmptySet
  <2>2. 0 * (Size + IpHdrLen) = 0
    BY DataPathAssumption
  <2> HIDE DEF Delayed
  <2>3. Delayed(NoLines) = {}
    BY DEF Delayed, NoLines
  <2>4. w.awk.udp_send = 0 /\ w.awk.udp_recv = 0 /\ w.awk.packet_size = 0
    BY <1>1 DEF NoLines
  <2>5. Cardinality(w.got) = 0 /\ Cardinality(sent \ mute) = 0 /\ Delayed(w.awk) = {}
    BY <1>1, <2>1, <2>3
  <2> QED BY <1>1, <2>1, <2>2, <2>4, <2>5 DEF Summed
<1>12. Painted(w.color, w.screen)
  <2>1. \A n \in Nodes : Level(n) = 3
    BY <1>1 DEF Level, EnergyLevel
  <2>2. <<"AGT", "s">> \in Tracers
    BY DEF Tracers
  <2> QED BY <1>1, <2>1, <2>2 DEF Painted
<1>13. WOK(w, {}, sent \ mute)
  <2>1. sent \ mute = {} /\ IsFiniteSet({}) /\ energy \in [Nodes -> 0 .. 100]
    BY <1>1, FS_EmptySet
  <2> HIDE DEF WOK
  <2> QED BY <1>1, <1>6, <1>9, <1>10, <1>11, <1>12, <2>1 DEF WOK, C
<1>14. Once(w)
  BY <1>8 DEF Once, C
<1> QED BY <1>1, <1>5, <1>13, <1>14, FS_EmptySet DEF IInv

(* A step of the nodes, as the sender and the receiver see it.             *)
Moves == Loss \/ (\E u \in Uids : Handed(u)) \/ (\E u \in Uids : Sends(u))

LEMMA StepOK == IInv /\ [Next]_vars => IInv' /\ Moves
<1> SUFFICES ASSUME IInv, [Next]_vars PROVE IInv' /\ Moves
  OBVIOUS
<1>1. CASE UNCHANGED vars
  <2>1. World' = World /\ UNCHANGED <<taps, energy, sent, mute>>
    BY <1>1 DEF World, vars, nodeVars, traceVars, historyVars
  <2> QED BY <2>1, LoadStep DEF Moves
<1>2. CASE Load
  <2>1. World' = World /\ UNCHANGED <<taps, energy, sent, mute>>
    BY <1>2 DEF Load, World, traceVars, historyVars
  <2> QED BY <2>1, LoadStep DEF Moves
<1>3. ASSUME NEW u \in Uids, NEW hop \in Nodes \cup {NoHop}, Originate(u, hop) PROVE IInv' /\ Moves
  BY <1>3, OriginateStep DEF Moves
<1>4. ASSUME NEW p \in Packets, NEW n \in Nodes, NEW hop \in Nodes \cup {NoHop}, Receive(p, n, hop)
      PROVE  IInv' /\ Moves
  BY <1>4, ReceiveStep DEF Moves
<1>5. ASSUME NEW n \in Nodes, NEW hop \in Nodes, Flush(n, hop) PROVE IInv' /\ Moves
  BY <1>5, FlushStep DEF Moves
<1>6. ASSUME NEW n \in Nodes, NEW p \in Packets, Release(n, p) PROVE IInv' /\ Moves
  BY <1>6, ReleaseStep DEF Moves
<1>7. ASSUME NEW n \in Nodes, Expire(n) PROVE IInv' /\ Moves
  BY <1>7, ExpireStep DEF Moves
<1>8. ASSUME NEW u \in OtherUids, NEW t \in Talks, Other(t.node, u, t.type, t.to) PROVE IInv' /\ Moves
  BY <1>8, OtherStep DEF Moves
<1>9. ASSUME NEW n \in Nodes, NEW arrives \in BOOLEAN, Transmit(n, arrives) PROVE IInv' /\ Moves
  BY <1>9, TransmitStep DEF Moves
<1>10. ASSUME NEW n \in Nodes, NEW hop \in Nodes, LinkLost(n, hop) PROVE IInv' /\ Moves
  BY <1>10, LinkLostStep DEF Moves
<1>11. ASSUME NEW n \in Nodes, Reset(n) PROVE IInv' /\ Moves
  BY <1>11, ResetStep DEF Moves
<1>12. ASSUME NEW n \in Tapped, Tap(n) PROVE IInv' /\ Moves
  <2>1. n \in Nodes
    BY DataPathAssumption
  <2> QED BY <1>12, <2>1, TapStep DEF Moves
<1>13. ASSUME NEW p \in Packets, Untap(p) PROVE IInv' /\ Moves
  BY <1>13, UntapStep DEF Moves
<1>14. ASSUME NEW n \in Drained, Drain(n) PROVE IInv' /\ Moves
  <2>1. n \in Nodes
    BY DataPathAssumption
  <2> QED BY <1>14, <2>1, DrainStep DEF Moves
<1> QED
  BY Zenon, <1>1, <1>2, <1>3, <1>4, <1>5, <1>6, <1>7, <1>8, <1>9, <1>10, <1>11, <1>12, <1>13, <1>14
  DEF Next

-----------------------------------------------------------------------------
(* What the invariant says of the packets, in the words of DataPath.       *)
LEMMA CellOf ==
  ASSUME IInv, NEW n \in Nodes
  PROVE  LET C == Contents(World) IN
         /\ C[<<"rqueue", n>>] = ToSet(rqueue[n]) /\ C[<<"ifc", n>>] = KeptBy(ifc[n])
         /\ C[<<"later", n>>] = later[n]
         /\ C[<<"air", n>>] = {p \in Packets : <<p, n>> \in air}
         /\ <<"rqueue", n>> \in Cells /\ <<"ifc", n>> \in Cells /\ <<"later", n>> \in Cells
         /\ <<"air", n>> \in Cells
<1> DEFINE w == World
<1>1. w.rqueue = rqueue /\ w.ifc = ifc /\ w.later = later /\ w.air = air
  BY DEF World
<1> HIDE DEF w
<1>2. CellsAre(w, n)
  BY CellsOf
<1> QED BY <1>1, <1>2 DEF CellsAre, w

LEMMA Filled ==
  ASSUME IInv
  PROVE  LET C == Contents(World) IN
         /\ C \in [Cells -> SUBSET Packets]
         /\ \A x, y \in Cells : \A p \in C[x] : p \in C[y] => x = y
         /\ \A x \in Cells : \A p \in C[x] : Fits(x, mem.hdr[p])
         /\ mem \in Pools /\ mem.used = taps \cup Stored(C)
         /\ \A p \in Packets : mem.refs[p] = IF p \in taps /\ p \in Stored(C) THEN 1 ELSE 0
         /\ \A p \in Stored(C) : Logged(mem.hdr[p], sent \ mute, got)
         /\ \A p \in taps : mem.hdr[p].ptype = "cbr" => mem.hdr[p].ttl > 0
         /\ \A j, k \in DOMAIN mem.free : mem.free[j] = mem.free[k] => j = k
         /\ \A k \in DOMAIN mem.free : mem.free[k] \notin mem.used
<1>1. World.mem = mem /\ World.got = got
  BY DEF World
<1>2. Holds(taps, mem, Contents(World), sent \ mute, got)
  BY <1>1, HoldsIs DEF IInv, WOK
<1> DEFINE C == Contents(World)
<1> HIDE DEF C
<1> QED BY <1>2 DEF Holds, C

LEMMA Typed ==
  ASSUME IInv
  PROVE  /\ rqueue \in [Nodes -> Seq(Packets)] /\ later \in [Nodes -> SUBSET Packets]
         /\ ifc \in [Nodes -> Interfaces] /\ air \subseteq Packets \X Nodes
         /\ energy \in [Nodes -> 0 .. 100] /\ got \subseteq sent \ mute /\ blamed \subseteq Faults
         /\ screen \in [Nodes -> 0 .. 3]
<1>1. World \in Worlds /\ World.got \subseteq sent \ mute /\ energy \in [Nodes -> 0 .. 100]
  BY DEF IInv, WOK
<1>2. /\ World.rqueue = rqueue /\ World.later = later /\ World.ifc = ifc /\ World.air = air
      /\ World.got = got /\ World.blamed = blamed /\ World.screen = screen
  BY DEF World
<1> DEFINE w == World
<1> HIDE DEF w
<1>3. /\ w.rqueue \in [Nodes -> Seq(Packets)] /\ w.later \in [Nodes -> SUBSET Packets]
      /\ w.ifc \in [Nodes -> Interfaces] /\ w.air \in SUBSET (Packets \X Nodes)
      /\ w.blamed \in SUBSET Faults /\ w.screen \in [Nodes -> 0 .. 3]
  BY <1>1 DEF Worlds, w
<1> QED BY <1>1, <1>2, <1>3 DEF w

LEMMA TypeFollows == IInv => TypeOK
<1> SUFFICES ASSUME IInv PROVE TypeOK
  OBVIOUS
<1> DEFINE C == Contents(World)
<1>1. /\ C \in [Cells -> SUBSET Packets]
      /\ \A x \in Cells : \A p \in C[x] : Fits(x, mem.hdr[p])
      /\ mem \in Pools /\ mem.used = taps \cup Stored(C)
      /\ \A p \in taps : mem.hdr[p].ptype = "cbr" => mem.hdr[p].ttl > 0
  BY Filled
<1> HIDE DEF C
<1>2. /\ mem.free \in Seq(Packets) /\ mem.used \subseteq Packets
      /\ mem.refs \in [Packets -> Nat] /\ mem.hdr \in [Packets -> Headers]
  BY <1>1 DEF Pools
<1>3. \A p \in mem.used : mem.hdr[p].ptype = "cbr" => mem.hdr[p].ttl > 0
  <2> SUFFICES ASSUME NEW p \in mem.used, mem.hdr[p].ptype = "cbr", p \notin taps
               PROVE  mem.hdr[p].ttl > 0
    BY <1>1
  <2>1. PICK x \in Cells : p \in C[x]
    BY <1>1 DEF Stored
  <2>2. Fits(x, mem.hdr[p])
    BY <1>1, <2>1
  <2> QED BY <2>2 DEF Fits, Waits, Goes, Comes, Sized
<1>4. taps \subseteq Packets
  BY <1>1, <1>2
<1> QED BY <1>2, <1>3, <1>4, Typed DEF TypeOK, Interfaces

LEMMA QueueFollows == IInv => QueueSound
<1> SUFFICES ASSUME IInv, NEW n \in Nodes
             PROVE  /\ Len(ifc[n].q) < QLim[n]
                    /\ \A j, k \in DOMAIN ifc[n].q :
                         j < k /\ Rank(ifc[n].q[k]) => Rank(ifc[n].q[j])
                    /\ ifc[n].mac = Idle => ifc[n].q = <<>>
  BY DEF QueueSound
<1>1. World.ifc = ifc /\ World.mem = mem
  BY DEF World
<1>2. Ordered(World)
  BY DEF IInv, WOK
<1>3. Queued(ifc[n], mem.hdr, QLim[n])
  BY <1>1, <1>2 DEF Ordered
<1> QED BY <1>3 DEF Queued, Lined, Prefers, Rank

(* The packets a node holds, waits with and receives.                      *)
LEMMA HeldFits ==
  ASSUME IInv, NEW n \in Nodes
  PROVE  /\ \A p \in Held(n) : Goes(n, mem.hdr[p]) /\ p \in Packets
         /\ \A p \in ToSet(rqueue[n]) : Waits(n, mem.hdr[p]) /\ p \in Packets
         /\ \A p \in Packets : <<p, n>> \in air => Comes(n, mem.hdr[p])
<1> DEFINE C == Contents(World)
<1>1. C \in [Cells -> SUBSET Packets] /\ \A x \in Cells : \A p \in C[x] : Fits(x, mem.hdr[p])
  BY Filled
<1>2. /\ C[<<"rqueue", n>>] = ToSet(rqueue[n]) /\ C[<<"ifc", n>>] = KeptBy(ifc[n])
      /\ C[<<"later", n>>] = later[n]
      /\ C[<<"air", n>>] = {p \in Packets : <<p, n>> \in air}
      /\ <<"rqueue", n>> \in Cells /\ <<"ifc", n>> \in Cells /\ <<"later", n>> \in Cells
      /\ <<"air", n>> \in Cells
  BY CellOf
<1> HIDE DEF C
<1>3. \A p \in later[n] \cup KeptBy(ifc[n]) : Goes(n, mem.hdr[p]) /\ p \in Packets
  BY <1>1, <1>2 DEF Fits
<1>4. \A p \in ToSet(rqueue[n]) : Waits(n, mem.hdr[p]) /\ p \in Packets
  BY <1>1, <1>2 DEF Fits
<1>5. \A p \in Packets : <<p, n>> \in air => Comes(n, mem.hdr[p])
  BY <1>1, <1>2 DEF Fits
<1>6. Held(n) = later[n] \cup KeptBy(ifc[n])
  BY DEF Held, KeptBy
<1> QED BY <1>3, <1>4, <1>5, <1>6

LEMMA HeadersFollow == IInv => HeadersTrue
<1> SUFFICES ASSUME IInv, NEW n \in Nodes
             PROVE  /\ \A p \in {q \in Held(n) \cup ToSet(rqueue[n]) : Data(q)} :
                         /\ mem.hdr[p].size = Size + IpHdrLen
                         /\ mem.hdr[p].ttl + mem.hdr[p].num_forwards = DefTTL
                    /\ \A p \in Packets : <<p, n>> \in air =>
                         /\ mem.hdr[p].size = Size + IpHdrLen
                         /\ mem.hdr[p].ttl + mem.hdr[p].num_forwards = DefTTL + 1
  BY DEF HeadersTrue
<1> QED BY HeldFits DEF Goes, Waits, Comes, Sized, Data

LEMMA DirectionFollows == IInv => DirectionTrue
<1> SUFFICES ASSUME IInv, NEW n \in Nodes
             PROVE  /\ \A p \in Held(n) : mem.hdr[p].prev_hop = n
                    /\ \A p \in Packets : <<p, n>> \in air =>
                         mem.hdr[p].prev_hop = mem.hdr[p].from /\ mem.hdr[p].from # n
  BY DEF DirectionTrue
<1> QED BY HeldFits DEF Goes, Comes

LEMMA LoopsFollow == IInv => LoopsOnly
<1> SUFFICES ASSUME IInv PROVE LoopsOnly
  OBVIOUS
<1>1. ASSUME NEW n \in Nodes, NEW p \in Held(n), Data(p)
      PROVE  mem.hdr[p].next_hop # mem.hdr[p].from
  BY <1>1, HeldFits DEF Goes, Data
<1>2. \A b \in blamed : b.hop = 0 /\ b.node = b.saddr
  BY Typed DEF Faults
<1> QED BY <1>1, <1>2 DEF LoopsOnly

(* What it says of the traces.                                             *)
LEMMA TraceFollows == IInv => CountsTrue /\ DelaysTrue /\ ScreenTrue
<1> SUFFICES ASSUME IInv PROVE CountsTrue /\ DelaysTrue /\ ScreenTrue
  OBVIOUS
<1>1. /\ World.awk = awk /\ World.got = got /\ World.clashed = clashed
      /\ World.color = color /\ World.screen = screen
  BY DEF World
<1>2. Summed(awk, sent \ mute, got, clashed) /\ Painted(color, screen)
  BY <1>1 DEF IInv, WOK
<1>3. got \subseteq sent \ mute
  BY Typed
<1>4. CountsTrue
  BY <1>2 DEF Summed, CountsTrue
<1>5. DelaysTrue
  BY <1>2, <1>3 DEF Summed, DelaysTrue
<1>6. ScreenTrue
  BY <1>2 DEF Painted, ScreenTrue
<1> QED BY <1>4, <1>5, <1>6

(* The places of a packet that lie in a cell: none if it is not there, and *)
(* one if it is.                                                           *)
CellPlaces(x, p) ==
  IF x[1] = "rqueue"
  THEN {<<"rqueue", x[2], k>> : k \in {j \in DOMAIN rqueue[x[2]] : rqueue[x[2]][j] = p}}
  ELSE IF x[1] = "ifc"
  THEN {<<"ifq", x[2], k>> : k \in {j \in DOMAIN ifc[x[2]].q : ifc[x[2]].q[j] = p}}
       \cup (IF ifc[x[2]].mac = p THEN {<<"mac", x[2], 1>>} ELSE {})
  ELSE IF x[1] = "later" THEN IF p \in later[x[2]] THEN {<<"later", x[2], 1>>} ELSE {}
  ELSE IF <<p, x[2]>> \in air THEN {<<"air", x[2], 1>>} ELSE {}

LEMMA PlacesOf ==
  ASSUME NEW n \in Nodes, NEW p
  PROVE  PlacesAt(n, p) = CellPlaces(<<"rqueue", n>>, p) \cup CellPlaces(<<"ifc", n>>, p)
                          \cup CellPlaces(<<"later", n>>, p) \cup CellPlaces(<<"air", n>>, p)
<1>1. /\ CellPlaces(<<"rqueue", n>>, p)
         = {<<"rqueue", n, k>> : k \in {j \in DOMAIN rqueue[n] : rqueue[n][j] = p}}
      /\ CellPlaces(<<"ifc", n>>, p)
         = {<<"ifq", n, k>> : k \in {j \in DOMAIN ifc[n].q : ifc[n].q[j] = p}}
           \cup (IF ifc[n].mac = p THEN {<<"mac", n, 1>>} ELSE {})
      /\ CellPlaces(<<"later", n>>, p) = IF p \in later[n] THEN {<<"later", n, 1>>} ELSE {}
      /\ CellPlaces(<<"air", n>>, p) = IF <<p, n>> \in air THEN {<<"air", n, 1>>} ELSE {}
  BY DEF CellPlaces
<1> QED BY Zenon, <1>1 DEF PlacesAt

LEMMA NoPlace ==
  ASSUME IInv, NEW x \in Cells, NEW p \in Packets, p \notin Contents(World)[x]
  PROVE  CellPlaces(x, p) = {}
<1>1. PICK n \in Nodes : x \in {<<"rqueue", n>>, <<"ifc", n>>, <<"later", n>>, <<"air", n>>}
  BY DEF Cells
<1> DEFINE C == Contents(World)
<1>2. /\ C[<<"rqueue", n>>] = ToSet(rqueue[n]) /\ C[<<"ifc", n>>] = KeptBy(ifc[n])
      /\ C[<<"later", n>>] = later[n]
      /\ C[<<"air", n>>] = {q \in Packets : <<q, n>> \in air}
  BY CellOf
<1> HIDE DEF C
<1>3. p \notin C[x]
  BY DEF C
<1>4. CASE x = <<"rqueue", n>>
  <2>1. {j \in DOMAIN rqueue[n] : rqueue[n][j] = p} = {}
    BY <1>2, <1>3, <1>4 DEF ToSet
  <2> QED BY <1>4, <2>1 DEF CellPlaces
<1>5. CASE x = <<"ifc", n>>
  <2>1. p \notin KeptBy(ifc[n])
    BY <1>2, <1>3, <1>5
  <2>2. {j \in DOMAIN ifc[n].q : ifc[n].q[j] = p} = {}
    BY <2>1 DEF KeptBy, ToSet
  <2>3. ifc[n].mac # p
    BY <2>1, DataPathAssumption DEF KeptBy
  <2> QED BY <1>5, <2>2, <2>3 DEF CellPlaces
<1>6. CASE x = <<"later", n>>
  BY <1>2, <1>3, <1>6 DEF CellPlaces
<1>7. CASE x = <<"air", n>>
  BY <1>2, <1>3, <1>7 DEF CellPlaces
<1> QED BY <1>1, <1>4, <1>5, <1>6, <1>7

LEMMA TapApart ==
  ASSUME NEW z, z[1] # "tap"
  PROVE  z # <<"tap", 0, 1>>
<1>1. <<"tap", 0, 1>>[1] = "tap"
  OBVIOUS
<1> QED BY <1>1

LEMMA AnyPlace ==
  ASSUME IInv, NEW x \in Cells, NEW p \in Packets, p \in Contents(World)[x]
  PROVE  \E z : CellPlaces(x, p) = {z} /\ z[1] # "tap"
<1>1. PICK n \in Nodes : x \in {<<"rqueue", n>>, <<"ifc", n>>, <<"later", n>>, <<"air", n>>}
  BY DEF Cells
<1> DEFINE C == Contents(World)
<1>2. /\ C[<<"rqueue", n>>] = ToSet(rqueue[n]) /\ C[<<"ifc", n>>] = KeptBy(ifc[n])
      /\ C[<<"later", n>>] = later[n]
      /\ C[<<"air", n>>] = {q \in Packets : <<q, n>> \in air}
  BY CellOf
<1> HIDE DEF C
<1>3. p \in C[x]
  BY DEF C
<1>4. /\ \A j, k \in DOMAIN rqueue[n] : rqueue[n][j] = rqueue[n][k] => j = k
      /\ \A j, k \in DOMAIN ifc[n].q : ifc[n].q[j] = ifc[n].q[k] => j = k
      /\ \A k \in DOMAIN ifc[n].q : ifc[n].q[k] # ifc[n].mac
  <2>1. World.ifc = ifc /\ World.rqueue = rqueue
    BY DEF World
  <2>2. Ordered(World)
    BY DEF IInv, WOK
  <2> QED BY <2>1, <2>2 DEF Ordered, Queued, Lined
<1>5. CASE x = <<"rqueue", n>>
  <2>1. PICK k \in DOMAIN rqueue[n] : rqueue[n][k] = p
    BY <1>2, <1>3, <1>5 DEF ToSet
  <2>2. {j \in DOMAIN rqueue[n] : rqueue[n][j] = p} = {k}
    BY <1>4, <2>1
  <2> DEFINE z == <<"rqueue", n, k>>
  <2>3. CellPlaces(x, p) = {z}
    BY <1>5, <2>2 DEF CellPlaces
  <2>4. z[1] # "tap"
    OBVIOUS
  <2> HIDE DEF z
  <2> QED BY <2>3, <2>4
<1>6. CASE x = <<"ifc", n>>
  <2>1. p \in KeptBy(ifc[n])
    BY <1>2, <1>3, <1>6
  <2>2. CASE ifc[n].mac = p
    <3>1. {j \in DOMAIN ifc[n].q : ifc[n].q[j] = p} = {}
      BY <1>4, <2>2
    <3> DEFINE z == <<"mac", n, 1>>
    <3>2. CellPlaces(x, p) = {z}
      BY <1>6, <2>2, <3>1 DEF CellPlaces
    <3>3. z[1] # "tap"
      OBVIOUS
    <3> HIDE DEF z
    <3> QED BY <3>2, <3>3
  <2>3. CASE ifc[n].mac # p
    <3>1. PICK k \in DOMAIN ifc[n].q : ifc[n].q[k] = p
      BY <2>1, <2>3 DEF KeptBy, ToSet
    <3>2. {j \in DOMAIN ifc[n].q : ifc[n].q[j] = p} = {k}
      BY <1>4, <3>1
    <3> DEFINE z == <<"ifq", n, k>>
    <3>3. CellPlaces(x, p) = {z}
      BY <1>6, <2>3, <3>2 DEF CellPlaces
    <3>4. z[1] # "tap"
      OBVIOUS
    <3> HIDE DEF z
    <3> QED BY <3>3, <3>4
  <2> QED BY <2>2, <2>3
<1>7. CASE x = <<"later", n>>
  <2> DEFINE z == <<"later", n, 1>>
  <2>1. CellPlaces(x, p) = {z}
    BY <1>2, <1>3, <1>7 DEF CellPlaces
  <2>2. z[1] # "tap"
    OBVIOUS
  <2> HIDE DEF z
  <2> QED BY <2>1, <2>2
<1>8. CASE x = <<"air", n>>
  <2> DEFINE z == <<"air", n, 1>>
  <2>1. CellPlaces(x, p) = {z}
    BY <1>2, <1>3, <1>8 DEF CellPlaces
  <2>2. z[1] # "tap"
    OBVIOUS
  <2> HIDE DEF z
  <2> QED BY <2>1, <2>2
<1> QED BY <1>1, <1>5, <1>6, <1>7, <1>8

(* So a packet is in a cell exactly if it has a place besides the taps,    *)
(* and then it has one.                                                    *)
Resting(p) == UNION {PlacesAt(n, p) : n \in Nodes}

LEMMA RestingCells ==
  ASSUME NEW p
  PROVE  Resting(p) = UNION {CellPlaces(x, p) : x \in Cells}
<1> DEFINE R(n) == CellPlaces(<<"rqueue", n>>, p)
           I(n) == CellPlaces(<<"ifc", n>>, p)
           L(n) == CellPlaces(<<"later", n>>, p)
           A(n) == CellPlaces(<<"air", n>>, p)
<1>1. \A n \in Nodes : PlacesAt(n, p) = R(n) \cup I(n) \cup L(n) \cup A(n)
  BY PlacesOf
<1>2. \A x \in Cells : \E n \in Nodes :
        x \in {<<"rqueue", n>>, <<"ifc", n>>, <<"later", n>>, <<"air", n>>}
  BY DEF Cells
<1>3. \A n \in Nodes : /\ <<"rqueue", n>> \in Cells /\ <<"ifc", n>> \in Cells
                       /\ <<"later", n>> \in Cells /\ <<"air", n>> \in Cells
  BY DEF Cells
<1>4. ASSUME NEW z, NEW n \in Nodes, z \in PlacesAt(n, p)
      PROVE  \E x \in Cells : z \in CellPlaces(x, p)
  BY Zenon, <1>1, <1>3, <1>4
<1>5. ASSUME NEW z, NEW x \in Cells, z \in CellPlaces(x, p)
      PROVE  \E n \in Nodes : z \in PlacesAt(n, p)
  <2>1. PICK n \in Nodes : x \in {<<"rqueue", n>>, <<"ifc", n>>, <<"later", n>>, <<"air", n>>}
    BY <1>2
  <2>2. z \in R(n) \cup I(n) \cup L(n) \cup A(n)
    BY Zenon, <1>5, <2>1
  <2> QED BY <1>1, <2>2
<1> QED BY Zenon, <1>4, <1>5 DEF Resting

LEMMA RestingOne ==
  ASSUME IInv, NEW p \in Packets
  PROVE  /\ p \notin Stored(Contents(World)) => Resting(p) = {}
         /\ p \in Stored(Contents(World)) => \E z : Resting(p) = {z} /\ z # <<"tap", 0, 1>>
<1> DEFINE C == Contents(World)
           U == UNION {CellPlaces(x, p) : x \in Cells}
<1>1. C \in [Cells -> SUBSET Packets] /\ \A x, y \in Cells : p \in C[x] /\ p \in C[y] => x = y
  BY Filled
<1>2. \A x \in Cells : p \notin C[x] => CellPlaces(x, p) = {}
  BY NoPlace
<1>3. \A x \in Cells : p \in C[x] => \E z : CellPlaces(x, p) = {z} /\ z # <<"tap", 0, 1>>
  BY AnyPlace, TapApart
<1>4. Resting(p) = U
  BY RestingCells
<1> HIDE DEF C
<1>5. CASE p \notin Stored(C)
  <2>1. \A x \in Cells : CellPlaces(x, p) = {}
    BY <1>2, <1>5 DEF Stored
  <2>2. U = {}
    BY <2>1
  <2> QED BY <1>4, <1>5, <2>2 DEF C
<1>6. CASE p \in Stored(C)
  <2>1. PICK x \in Cells : p \in C[x]
    BY <1>6 DEF Stored
  <2>2. PICK z : CellPlaces(x, p) = {z} /\ z # <<"tap", 0, 1>>
    BY <1>3, <2>1
  <2>3. \A y \in Cells : y # x => CellPlaces(y, p) = {}
    BY <1>1, <1>2, <2>1
  <2>4. U = {z}
    BY <2>2, <2>3
  <2> QED BY <1>4, <1>6, <2>2, <2>4 DEF C
<1> QED BY <1>5, <1>6

LEMMA PlaceFollows == IInv => OnePlace
<1> SUFFICES ASSUME IInv PROVE OnePlace
  OBVIOUS
<1> DEFINE C == Contents(World)
<1>1. /\ mem \in Pools /\ mem.used = taps \cup Stored(C)
      /\ \A p \in Packets : mem.refs[p] = IF p \in taps /\ p \in Stored(C) THEN 1 ELSE 0
      /\ \A j, k \in DOMAIN mem.free : mem.free[j] = mem.free[k] => j = k
      /\ \A k \in DOMAIN mem.free : mem.free[k] \notin mem.used
  BY Filled
<1>2. mem.used \cap ToSet(mem.free) = {}
  BY <1>1 DEF ToSet
<1> HIDE DEF C
<1>3. ASSUME NEW p \in Packets
      PROVE  Cardinality(Places(p)) = IF p \in mem.used THEN mem.refs[p] + 1 ELSE 0
  <2> DEFINE z == <<"tap", 0, 1>>
  <2>1. Places(p) = Resting(p) \cup Taken(p)
    BY DEF Places, Resting
  <2>2. /\ p \notin Stored(C) => Resting(p) = {}
        /\ p \in Stored(C) => \E y : Resting(p) = {y} /\ y # z
    BY RestingOne DEF C
  <2>3. Taken(p) = IF p \in taps THEN {z} ELSE {}
    BY DEF Taken
  <2> HIDE DEF z
  <2>4. CASE p \notin Stored(C) /\ p \notin taps
    <3>1. Places(p) = {}
      BY <2>1, <2>2, <2>3, <2>4
    <3> QED BY <1>1, <2>4, <3>1, FS_EmptySet
  <2>5. CASE p \notin Stored(C) /\ p \in taps
    <3>1. Places(p) = {z}
      BY <2>1, <2>2, <2>3, <2>5
    <3>2. Cardinality(Places(p)) = 1
      BY <3>1, FS_Singleton
    <3> QED BY <1>1, <2>5, <3>2
  <2>6. CASE p \in Stored(C)
    <3>1. PICK y : Resting(p) = {y} /\ y # z
      BY <2>2, <2>6
    <3>2. IsFiniteSet({y}) /\ Cardinality({y}) = 1
      BY FS_Singleton
    <3>3. CASE p \in taps
      <4>1. Places(p) = {y} \cup {z}
        BY <2>1, <2>3, <3>1, <3>3
      <4>2. z \notin {y}
        BY <3>1
      <4>3. Cardinality({y} \cup {z}) = Cardinality({y}) + 1
        BY <3>2, <4>2, FS_AddElement
      <4>4. p \in mem.used /\ mem.refs[p] = 1
        BY <1>1, <2>6, <3>3
      <4> QED BY <3>2, <4>1, <4>3, <4>4
    <3>4. CASE p \notin taps
      <4>1. Places(p) = {y}
        BY <2>1, <2>3, <3>1, <3>4
      <4>2. p \in mem.used /\ mem.refs[p] = 0
        BY <1>1, <2>6, <3>4
      <4> QED BY <3>2, <4>1, <4>2
    <3> QED BY <3>3, <3>4
  <2> QED BY <2>4, <2>5, <2>6
<1> QED BY <1>1, <1>2, <1>3 DEF OnePlace

-----------------------------------------------------------------------------
(* The refinement: what is in transit is what is carried.                  *)
LEMMA TransitIs ==
  ASSUME IInv
  PROVE  /\ InTransit = Carried(World) /\ InTransit \subseteq (sent \ mute) \ got
         /\ got \subseteq sent /\ sent \subseteq Uids
<1> DEFINE C == Contents(World)
<1>1. World.mem = mem
  BY DEF World
<1>2. \A p \in Packets : Resting(p) # {} <=> \E n \in Nodes : PlacesAt(n, p) # {}
  BY Zenon DEF Resting
<1>3. \A p \in Packets : Resting(p) # {} <=> p \in Stored(C)
  <2> HIDE DEF C
  <2>1. ASSUME NEW p \in Packets
        PROVE  /\ p \notin Stored(C) => Resting(p) = {}
               /\ p \in Stored(C) => \E z : Resting(p) = {z}
    BY RestingOne DEF C
  <2> QED BY <2>1
<1>4. Stored(C) \subseteq Packets
  BY DEF Stored
<1>5. Moving = Stored(C)
  <2>1. ASSUME NEW n \in Nodes
        PROVE  /\ <<"rqueue", n>> \in Cells /\ C[<<"rqueue", n>>] = ToSet(rqueue[n])
               /\ <<"ifc", n>> \in Cells /\ C[<<"ifc", n>>] = KeptBy(ifc[n])
               /\ <<"later", n>> \in Cells /\ C[<<"later", n>>] = later[n]
               /\ <<"air", n>> \in Cells /\ C[<<"air", n>>] = {p \in Packets : <<p, n>> \in air}
               /\ Held(n) = later[n] \cup KeptBy(ifc[n])
    <3>1. CellsAre(World, n)
      BY CellsOf
    <3> QED BY <3>1 DEF CellsAre, World, Held, KeptBy
  <2>2. air \subseteq Packets \X Nodes
    BY Typed
  <2> HIDE DEF C
  <2>3. \A n \in Nodes : ToSet(rqueue[n]) \cup Held(n) \subseteq Packets
    BY HeldFits
  <2>4. \A p \in Moving : p \in Stored(C)
    <3> SUFFICES ASSUME NEW p \in Moving PROVE p \in Packets /\ \E x \in Cells : p \in C[x]
      BY DEF Stored
    <3>1. CASE \E n \in Nodes : p \in ToSet(rqueue[n]) \cup Held(n)
      <4>1. PICK n \in Nodes : p \in ToSet(rqueue[n]) \cup Held(n)
        BY <3>1
      <4>2. p \in Packets
        BY <2>3, <4>1, Zenon
      <4>3. p \in C[<<"rqueue", n>>] \cup C[<<"later", n>>] \cup C[<<"ifc", n>>]
        BY <2>1, <4>1
      <4>4. <<"rqueue", n>> \in Cells /\ <<"later", n>> \in Cells /\ <<"ifc", n>> \in Cells
        BY <2>1, Zenon
      <4> QED BY <4>2, <4>3, <4>4, Zenon
    <3>2. CASE \E a \in air : p = a[1]
      <4>1. PICK a \in air : p = a[1]
        BY <3>2
      <4>2. p \in Packets /\ a[2] \in Nodes /\ <<p, a[2]>> \in air
        BY <2>2, <4>1
      <4> QED BY <2>1, <4>2
    <3> QED BY <3>1, <3>2 DEF Moving
  <2>5. \A p \in Stored(C) : p \in Moving
    <3> SUFFICES ASSUME NEW p \in Packets, NEW x \in Cells, p \in C[x] PROVE p \in Moving
      BY DEF Stored
    <3>1. PICK n \in Nodes : x \in {<<"rqueue", n>>, <<"ifc", n>>, <<"later", n>>, <<"air", n>>}
      BY EachCell
    <3>2. CASE x = <<"air", n>>
      <4>1. <<p, n>> \in air /\ <<p, n>>[1] = p
        BY <2>1, <3>2
      <4> QED BY <4>1 DEF Moving
    <3>3. CASE x # <<"air", n>>
      <4>1. p \in ToSet(rqueue[n]) \cup Held(n)
        BY <2>1, <3>1, <3>3
      <4> QED BY <4>1 DEF Moving
    <3> QED BY <3>2, <3>3
  <2> QED BY <2>4, <2>5
<1>6. InTransit = Carried(World)
  <2> HIDE DEF C
  <2>1. {q \in Moving : Data(q)} = {p \in Stored(C) : mem.hdr[p].ptype = "cbr"}
    BY <1>5 DEF Data
  <2> QED BY <1>1, <2>1 DEF InTransit, Carried, DataOf, C
<1>7. \A p \in Stored(C) : Logged(mem.hdr[p], sent \ mute, got)
  BY Filled
<1>8. ASSUME NEW p \in Stored(C), mem.hdr[p].ptype = "cbr"
      PROVE  mem.hdr[p].uid \in (sent \ mute) \ got
  <2> HIDE DEF C
  <2>1. "cbr" \notin Others
    BY OtherTypes
  <2>2. Logged(mem.hdr[p], sent \ mute, got)
    BY <1>7
  <2> QED BY <1>8, <2>1, <2>2 DEF Logged
<1>9. InTransit \subseteq (sent \ mute) \ got
  <2> HIDE DEF C
  <2> QED BY <1>5, <1>8 DEF InTransit, Data
<1> QED BY <1>6, <1>9, Typed DEF IInv

LEMMA PromiseStep == IInv /\ [Next]_vars => [Promise!Next]_<<InTransit, got, sent \ (InTransit \cup got)>>
<1> DEFINE T == InTransit
           L == sent \ (T \cup got)
<1> SUFFICES ASSUME IInv, [Next]_vars
             PROVE  Promise!Next \/ (T' = T /\ got' = got /\ L' = L)
  OBVIOUS
<1>1. IInv' /\ Moves
  BY StepOK
<1>2. /\ T = Carried(World) /\ T \subseteq (sent \ mute) \ got
      /\ got \subseteq sent /\ sent \subseteq Uids
  BY TransitIs
<1>3. /\ T' = Carried(World') /\ T' \subseteq sent' \ got'
      /\ got' \subseteq sent' /\ sent' \subseteq Uids
  <2>1. (InTransit = Carried(World) /\ InTransit \subseteq (sent \ mute) \ got
         /\ got \subseteq sent /\ sent \subseteq Uids)'
    BY <1>1, TransitIs, PTL
  <2> QED BY <2>1
<1>4. L' = sent' \ (T' \cup got')
  OBVIOUS
<1> HIDE DEF T
<1>5. CASE Loss
  <2> DEFINE S == T \ T'
  <2>1. sent' = sent /\ got' = got /\ T' \subseteq T
    BY <1>2, <1>3, <1>5 DEF Loss
  <2>2. CASE S = {}
    BY <1>4, <2>1, <2>2
  <2>3. CASE S # {}
    <3>1. /\ S \subseteq T /\ T' = T \ S /\ L' = L \cup S /\ S \in SUBSET Uids
      BY <1>2, <1>4, <2>1
    <3>2. Promise!Lose(S)
      BY <2>1, <2>3, <3>1 DEF Promise!Lose, T
    <3> HIDE DEF S
    <3> QED BY <3>1, <3>2 DEF Promise!Next
  <2> QED BY <2>2, <2>3
<1>6. ASSUME NEW u \in Uids, Handed(u) PROVE Promise!Next
  <2>1. sent' = sent /\ u \in T /\ got' = got \cup {u} /\ T' = T \ {u}
    BY <1>2, <1>3, <1>6 DEF Handed
  <2>2. L' = L
    BY <1>4, <2>1
  <2>3. Promise!Deliver(u)
    BY <2>1, <2>2 DEF Promise!Deliver, T
  <2> QED BY <2>3 DEF Promise!Next
<1>7. ASSUME NEW u \in Uids, Sends(u) PROVE Promise!Next
  <2>1. /\ u \notin sent /\ sent' = sent \cup {u} /\ got' = got
        /\ T \subseteq T' /\ T' \subseteq T \cup {u}
    BY <1>2, <1>3, <1>7 DEF Sends
  <2>2. u \notin T \cup got \cup L
    BY <1>2, <2>1
  <2>3. Promise!New(u)
    BY <2>2 DEF Promise!New, T
  <2>4. CASE u \in T'
    <3>1. T' = T \cup {u} /\ L' = L
      BY <1>4, <2>1, <2>4
    <3>2. Promise!Send(u)
      BY <2>1, <2>3, <3>1 DEF Promise!Send, T
    <3> QED BY <3>2 DEF Promise!Next
  <2>5. CASE u \notin T'
    <3>1. T' = T
      BY <2>1, <2>5
    <3>2. L' = L \cup {u}
      BY <1>2, <1>4, <2>1, <3>1
    <3>3. Promise!Refuse(u)
      BY <2>1, <2>3, <3>1, <3>2 DEF Promise!Refuse, T
    <3> QED BY <3>3 DEF Promise!Next
  <2> QED BY <2>4, <2>5
<1> QED BY <1>1, <1>5, <1>6, <1>7 DEF Moves, T

-----------------------------------------------------------------------------
(* The theorems.                                                           *)

(* The invariant the theorems rest on holds in every state.                *)
THEOREM Invariance == Spec => []IInv
<1>1. IInv /\ [Next]_vars => IInv'
  BY StepOK
<1> QED BY <1>1, InitOK, PTL DEF Spec

(* The pool, the queues and the places of the nodes hold packets, and no   *)
(* data packet in use has run out of hops (tora.cc 287-296).               *)
THEOREM WellTyped == Spec => []TypeOK
BY Invariance, TypeFollows, PTL

(* No packet leaks, is freed twice or has two owners: it is referred to    *)
(* from ref_count + 1 places as long as it is in use, and from none when   *)
(* it is free (packet.h 505, 743-789).                                     *)
THEOREM NothingLeaks == Spec => []OnePlace
BY Invariance, PlaceFollows, PTL

(* The interface queue is below its limit, ordered, and waits only for a   *)
(* MAC at work, whatever recv, resume and filter do (priqueue.cc 80-206).  *)
THEOREM QueuesSound == Spec => []QueueSound
BY Invariance, QueueFollows, PTL

(* Wherever a data packet is, its size has the IP header once, and its TTL *)
(* and its hops add up (tora.cc 280-309).                                  *)
THEOREM HeadersStayTrue == Spec => []HeadersTrue
BY Invariance, HeadersFollow, PTL

(* What a node is to send bears its own address in prev_hop_, and what it  *)
(* receives another's: imepAgent::recv never takes one for the other.      *)
THEOREM DirectionsStayTrue == Spec => []DirectionTrue
BY Invariance, DirectionFollows, PTL

(* No packet goes back to where it came from, and the only false loops are *)
(* those blamed on node 0 where a packet starts (tora.cc 206-212).         *)
THEOREM OnlyLoops == Spec => []LoopsOnly
BY Invariance, LoopsFollow, PTL

(* The script's counts are those of the packets (awk 31-39).               *)
THEOREM CountsStayTrue == Spec => []CountsTrue
BY Invariance, TraceFollows, PTL

(* The script's delays are those of the packets received, except for the   *)
(* numbers that ARP lines have overwritten (awk 46-51).                    *)
THEOREM DelaysStayTrue == Spec => []DelaysTrue
BY Invariance, TraceFollows, PTL

(* nam shows the lowest level any trace object has seen, and never black.  *)
THEOREM ScreensStayTrue == Spec => []ScreenTrue
BY Invariance, TraceFollows, PTL

(* No library changes the number or the class of a static type.  If there  *)
(* is one PT_NTYPE each library's type has a number and the class of its   *)
(* own; if there are two, all share one number (packet.h 203, packet.cc    *)
(* 47-57).                                                                 *)
THEOREM TypesStaySound == Spec => []TypesSound
BY TypesInit, TypesNext, TypesFollow, PTL DEF Spec

(* The nodes implement Delivery: a data packet that is sent is in one      *)
(* place until it is received, once, or lost for good.                     *)
THEOREM PromiseKept == Spec => Promised
<1>1. Init => Promise!Init
  <2> SUFFICES ASSUME Init PROVE Promise!Init
    OBVIOUS
  <2>1. InTransit \subseteq sent /\ sent = {} /\ got = {}
    BY InitOK, TransitIs DEF Init
  <2> HIDE DEF InTransit
  <2> QED BY <2>1 DEF Promise!Init
<1>2. IInv /\ [Next]_vars => [Promise!Next]_<<InTransit, got, sent \ (InTransit \cup got)>>
  BY PromiseStep
<1> QED BY <1>1, <1>2, Invariance, PTL DEF Spec, Promised, Promise!Spec
=============================================================================
