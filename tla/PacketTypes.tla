----------------------------- MODULE PacketTypes ------------------------------
(***************************************************************************)
(* The table of packet types, p_info of packet.h.  A dynamic library adds  *)
(* its types with addPacket.  PT_NTYPE, the first number not in use, is a  *)
(* static variable of the header: each translation unit has its own, and   *)
(* the inline initName is compiled into the program once, with the         *)
(* variable of one unit.  A library also adds a classifier, which says of  *)
(* its types whether they are routing or data.                             *)
(***************************************************************************)
EXTENDS Integers, Sequences, SequencesExt

CONSTANTS
  StaticNames,   \* the names of the static types, in their order
  Libraries,     \* the names libraries add, in the order they are loaded
  LibraryClass   \* what the classifier of each says of its type

ASSUME LibraryAssumption ==
  /\ StaticNames \in Seq(STRING) /\ Libraries \in Seq(STRING)
  /\ IsInjective(StaticNames) /\ IsInjective(Libraries)
  /\ ToSet(StaticNames) \cap ToSet(Libraries) = {}
  /\ "undefined" \notin ToSet(StaticNames) \cup ToSet(Libraries)
  /\ LibraryClass \in [DOMAIN Libraries -> {"UNCLASSIFIED", "ROUTING", "DATApkt"}]

Static == Len(StaticNames)

(* What imep.cc and tora.cc take for data (DATA_PACKET).                   *)
DataPackets == {"tcp", "telnet", "cbr", "audio", "video", "ack", "sctp", "sctp_app1"}

(* A table: name_, and nPkt_, its length; chain is pc_, the classifiers,   *)
(* each before its next_.  ntype is packet.cc's PT_NTYPE.  ours says that  *)
(* the linker has kept an initName that reads this PT_NTYPE, and not that  *)
(* of another unit, which stays at Static.                                 *)
NTypeRead(t) == IF t.ours THEN t.ntype ELSE Static
InitName(t) ==
  LET n == NTypeRead(t) IN
  IF Len(t.name) >= n + 1 THEN t
  ELSE [t EXCEPT !.name = [k \in 1 .. n + 1 |->
                             CASE k <= Static -> StaticNames[k]
                               [] k = n + 1 -> "undefined"
                               [] OTHER -> IF k <= Len(@) THEN @[k] ELSE "garbage"]]

Started(ours) ==
  InitName([name |-> <<>>, chain |-> <<>>, ntype |-> Static, ours |-> ours])

(* The number of the new type is the one "undefined" had, or, if initName  *)
(* has found the table long enough, the one the library before has got.    *)
NewId(t) == Len(t.name) - 1
AddPacketNext(t, name) ==
  LET u == InitName([t EXCEPT !.ntype = Len(t.name)])
  IN  [u EXCEPT !.name[Len(u.name)] = name]
AddPacket(t, name) ==
  LET u == InitName([t EXCEPT !.ntype = Len(t.name)])
  IN  [u EXCEPT !.name[Len(t.name)] = name]

(* getType; here is the PT_NTYPE of the unit that asks.                    *)
Named(t, name) == {k \in DOMAIN t.name : t.name[k] = name}
GetType(t, name, here) ==
  IF Named(t, name) = {} THEN here
  ELSE (CHOOSE k \in Named(t, name) : \A j \in Named(t, name) : k <= j) - 1

(* classify: the number k is that of a static type, or pc_ is asked.  A    *)
(* classifier that does not know a number passes the question on.          *)
GetClass(c, k) == IF c.type = k THEN c.class ELSE "UNCLASSIFIED"
Asked(chain, k) ==
  LET knows == {j \in DOMAIN chain : GetClass(chain[j], k) # "UNCLASSIFIED"} IN
  IF knows = {} THEN "UNCLASSIFIED"
  ELSE GetClass(chain[CHOOSE j \in knows : \A i \in knows : j <= i], k)
StaticClass(name) ==
  CASE name \in {"DSR", "message", "TORA", "PUMA", "AODV", "MDART"} -> "ROUTING"
    [] name \in DataPackets \cup {"HDLC"} -> "DATApkt"
    [] OTHER -> "UNCLASSIFIED"
Classify(t, k) ==
  IF k < Static /\ StaticClass(StaticNames[k + 1]) # "UNCLASSIFIED"
  THEN StaticClass(StaticNames[k + 1]) ELSE Asked(t.chain, k)

(* A new classifier goes in front of the others.                           *)
AddPacketClassifier(t, c) == [t EXCEPT !.chain = <<c>> \o @]

(* Each library adds one type and one classifier.                          *)
LoadedTypes(t) == Len(t.chain)
=============================================================================
