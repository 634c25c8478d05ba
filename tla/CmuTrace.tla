------------------------------- MODULE CmuTrace -------------------------------
(***************************************************************************)
(* The lines cmu-trace.cc writes.  A line is a sequence of tokens, as a    *)
(* script that splits it at blanks sees it: a token is a tag ("-Nl") or a  *)
(* value, and each value carries the name of what it shows.  There are     *)
(* three layouts: "tagged", "new" (use-newtrace) and "old".                *)
(***************************************************************************)
EXTENDS Integers, Sequences, SequencesExt

Modes == {"tagged", "new", "old"}

Tag(s) == <<"tag", s>>
Val(s) == <<"val", s>>
Vals(names) == [k \in DOMAIN names |-> Val(names[k])]
Pairs(names) ==
  [k \in 1 .. 2 * Len(names) |->
     IF k % 2 = 1 THEN Tag(names[(k + 1) \div 2]) ELSE Val(names[k \div 2])]

-----------------------------------------------------------------------------
(* The heads of the lines: event, node, trace level, and what the MAC adds. *)
(* SMAC's part has one form only; the old layout puts the packet before it *)
(* and the energy, where there is a model, after it.                       *)
SmacTokens == Vals(<<"duration", "dst", "src">>)
MacTokens ==
  [tagged |-> Pairs(<<"dur", "ra", "ta", "ether">>),
   new    |-> Pairs(<<"dur", "ra", "ta", "ether">>),
   old    |-> Vals(<<"dur", "ra", "ta", "ether">>)]
EnergyTokens ==
  [tagged |-> <<>>, new |-> <<>>,
   old |-> Pairs(<<"energy", "ei", "es", "et", "er">>)]
TraceHead ==
  [tagged |-> Vals(<<"op", "time">>) \o Pairs(<<"node", "next_hop", "ptype", "level", "uid">>)
              \o <<Tag("loc")>> \o Vals(<<"x", "y", "z">>) \o Pairs(<<"energy">>),
   new    |-> Vals(<<"op">>)
              \o Pairs(<<"time", "node", "next_hop", "node", "x", "y", "z", "energy", "level", "why">>),
   old    |-> Vals(<<"op", "time", "node", "level", "why", "uid", "ptype", "size">>)]
FormatMacCommon(mode, mac, model, level) ==
  IF mode = "old" /\ level = "PHY" THEN TraceHead[mode]
  ELSE TraceHead[mode] \o (IF mac = "SMAC" THEN SmacTokens ELSE MacTokens[mode])
                       \o (IF model THEN EnergyTokens[mode] ELSE <<>>)

-----------------------------------------------------------------------------
(* What follows depends on the type of the packet.                         *)
FormatIp ==
  [tagged |-> Pairs(<<"src", "sport", "dst", "dport", "ptype", "size", "flow", "uid", "ttl">>),
   new    |-> Pairs(<<"src.sport", "dst.dport", "ptype", "size", "flow", "uid", "ttl">>),
   old    |-> <<Tag("-------")>> \o Vals(<<"src:sport", "dst:dport", "ttl", "next_hop">>)]

ArpFields == <<"arp_op", "arp_sha", "arp_spa", "arp_tha", "arp_tpa">>
FormatArp ==
  [tagged |-> Pairs(ArpFields),
   new    |-> Pairs(<<"ARP">> \o ArpFields),
   old    |-> <<Tag("-------")>> \o Vals(<<"arp_op", "arp_sha/spa", "arp_tha/tpa">>)]

DsrFields == <<"num_addrs", "route_request", "rtreq_seq", "route_reply", "rtreq_seq",
               "reply_len", "reply_first-last", "route_error", "num_errors", "tell", "from-to">>
FormatDsr ==
  [tagged |-> Pairs(SubSeq(DsrFields, 1, 6)) \o <<Tag("e")>> \o Vals(<<"first", "last">>)
              \o Pairs(SubSeq(DsrFields, 8, 10)) \o <<Tag("b")>> \o Vals(<<"from", "to">>),
   new    |-> Pairs(<<"DSR">> \o DsrFields),
   old    |-> Vals(DsrFields)]

FormatMsg == [mode \in Modes |-> <<>>]

Forwards == <<"num_forwards", "opt_num_forwards">>
FormatTcp ==
  [tagged |-> Pairs(<<"seqno", "ackno">> \o Forwards),
   new    |-> Pairs(<<"tcp", "seqno", "ackno">> \o Forwards),
   old    |-> Vals(<<"seqno", "ackno">> \o Forwards)]

(* The offset does not move from chunk to chunk: the last one is left.     *)
ChunkFields == <<"num_chunks", "type", "tsn", "stream_id", "stream_seq">> \o Forwards
Chunk ==
  [tagged |-> Vals(ChunkFields), new |-> Pairs(<<"sctp">> \o ChunkFields),
   old |-> Vals(ChunkFields)]
FormatSctp(chunks) == [mode \in Modes |-> IF chunks = 0 THEN <<>> ELSE Chunk[mode]]

FormatRtp ==
  [tagged |-> Pairs(<<"seqno">> \o Forwards),
   new    |-> Pairs(<<"cbr", "seqno">> \o Forwards),
   old    |-> Vals(<<"seqno">> \o Forwards)]

ImepFields == <<"ack", "hello", "object", "length">>
FormatImep ==
  [tagged |-> Pairs(ImepFields),
   new    |-> Pairs(<<"IMEP">> \o ImepFields) \o <<Val("]")>>,
   old    |-> Vals(ImepFields)]

(* UPD: the height has no tags in the new layout, and the old one is what  *)
(* the new one should be.                                                  *)
ToraFields ==
  [QRY |-> <<"t", "dst">>,
   UPD |-> <<"t", "dst", "tau", "oid", "r", "delta", "id">>,
   CLR |-> <<"t", "dst", "tau", "oid">>]
FormatTora(kind) ==
  [tagged |-> Pairs(ToraFields[kind] \o <<"kind">>),
   new    |-> IF kind = "UPD"
              THEN Pairs(<<"TORA", "t", "dst">>) \o Vals(<<"tau", "oid", "r", "delta", "id">>)
                   \o Pairs(<<"kind">>)
              ELSE Pairs(<<"TORA">> \o ToraFields[kind] \o <<"kind">>),
   old    |-> IF kind = "UPD" THEN Pairs(ToraFields[kind] \o <<"kind">>)
              ELSE Vals(ToraFields[kind] \o <<"kind">>)]

(* AODV and AOMDV: requests, and replies, hellos and errors.               *)
RequestFields == <<"t", "hops", "bcast", "dst", "dst_seqno", "src", "src_seqno", "kind">>
ReplyFields == <<"t", "hops", "dst", "dst_seqno", "lifetime", "kind">>
FormatAodv(kind) ==
  LET F == IF kind = "REQUEST" THEN RequestFields ELSE ReplyFields IN
  [tagged |-> Pairs(F), new |-> Pairs(<<"AODV">> \o F), old |-> Vals(F)]
FormatAomdv(kind) ==
  LET F == IF kind = "REQUEST" THEN RequestFields ELSE ReplyFields IN
  [tagged |-> Pairs(F), new |-> Pairs(<<"AOMDV">> \o F),
   old |-> Vals(IF kind = "REQUEST" THEN F ELSE F \o <<"bcast_id", "first_hop">>)]

(* MDART.  dstAdd has lost its dash, and so has DARP's last tag; DABR      *)
(* shows a DARQ, or (tagged and old) a DAUP.                               *)
MdartFields ==
  [HELLO |-> <<"dAdd", "sAdd", "sId">>,
   DARQ  |-> <<"dAdd", "sAdd", "dId", "sId", "fAdd", "fId", "rId", "pId">>,
   DARP  |-> <<"dAdd", "sAdd", "dId", "sId", "fAdd", "fId", "rAdd", "rId", "pId">>,
   DAUP  |-> <<"dAdd", "sAdd", "dId", "sId", "fAdd", "fId", "pId">>,
   DABR  |-> <<"dAdd", "sAdd", "dId", "sId", "fAdd", "fId", "pId">>]
MdartBefore ==
  [HELLO |-> <<"type", "srcId", "srcAdd">>,
   DARQ  |-> <<"type", "srcId", "srcAdd", "forId", "forAdd", "dstId">>,
   DARP  |-> <<"type", "srcId", "srcAdd", "forId", "forAdd", "dstId">>,
   DAUP  |-> <<"type", "srcId", "srcAdd", "forId", "forAdd", "dstId">>,
   DABR  |-> <<"type", "srcId", "srcAdd">>]
MdartAfter ==
  [HELLO |-> <<"seqNum">>, DARQ |-> <<"reqId", "seqNum">>,
   DARP |-> <<"reqId", "reqAdd", "seqNum">>, DAUP |-> <<"seqNum">>, DABR |-> <<>>]
FormatMdart(kind) ==
  [tagged |-> Pairs(<<"t">> \o MdartFields[kind])
              \o (CASE kind = "HELLO" -> <<>>
                    [] kind = "DARP" -> Vals(<<"tag", "kind">>)
                    [] OTHER -> Pairs(<<"kind">>)),
   new    |-> Pairs(MdartBefore[kind]) \o Vals(<<"tag", "dstAdd">>) \o Pairs(MdartAfter[kind]),
   old    |-> Vals(<<"t">> \o MdartFields[kind]
                   \o (IF kind = "HELLO" THEN <<>> ELSE <<"kind">>))]

-----------------------------------------------------------------------------
(* format: a packet type with what its header says, and its line.          *)
Body ==
  [DSR |-> FormatDsr, message |-> FormatMsg, udp |-> FormatMsg,
   tcp |-> FormatTcp, ack |-> FormatTcp,
   sctp0 |-> FormatSctp(0), sctp2 |-> FormatSctp(2), cbr |-> FormatRtp,
   diffusion |-> FormatMsg, gaf |-> FormatMsg, ping |-> FormatMsg, exp |-> FormatMsg,
   IMEP |-> FormatImep,
   TORA_QRY |-> FormatTora("QRY"), TORA_UPD |-> FormatTora("UPD"), TORA_CLR |-> FormatTora("CLR"),
   AODV |-> FormatAodv("REQUEST"), AODV_REPLY |-> FormatAodv("REPLY"),
   AOMDV |-> FormatAomdv("REQUEST"), AOMDV_REPLY |-> FormatAomdv("REPLY"),
   MDART_HELLO |-> FormatMdart("HELLO"), MDART_DARQ |-> FormatMdart("DARQ"),
   MDART_DARP |-> FormatMdart("DARP"), MDART_DAUP |-> FormatMdart("DAUP"),
   MDART_DABR |-> FormatMdart("DABR")]
Routed == DOMAIN Body
Kinds == Routed \cup {"ARP", "MAC", "smac"}

Rest(mode, kind) ==
  CASE kind \in {"MAC", "smac"} -> <<>>
    [] kind = "ARP" -> FormatArp[mode]
    [] OTHER -> FormatIp[mode] \o Body[kind][mode]
Format(mode, mac, model, level, kind) ==
  FormatMacCommon(mode, mac, model, level) \o Rest(mode, kind)

(* The letter a line begins with: a router's send of a packet that started *)
(* elsewhere is a forward.  op is "s", "r", "D", or "x" for EOT.           *)
Op(level, op, elsewhere, mode) ==
  LET o == IF level \in {"RTR", "TRP"} /\ op = "s" /\ elsewhere THEN "f" ELSE op IN
  CASE mode = "tagged" -> [s |-> "+", r |-> "r", f |-> "h", D |-> "d", x |-> "x"][o]
    [] mode = "new"    -> [s |-> "s", r |-> "r", f |-> "f", D |-> "d", x |-> "x"][o]
    [] mode = "old"    -> o

-----------------------------------------------------------------------------
(* nam_format: a node's colour, by the energy it has left in percent, and  *)
(* the records written for an event; l1 and l2 are the model's levels.     *)
EnergyLevel(left, l1, l2) ==
  CASE left >= l1 /\ left <= 100 -> 3
    [] left >= l2 /\ left < l1 -> 2
    [] left > 0 /\ left < l2 -> 1
    [] OTHER -> 0
NamSilent(level, op, broadcast) == level \in {"RTR", "TRP"} /\ op = "r" /\ ~ broadcast

(* node_energy                                                             *)
NodeEnergyOr(left) == left >= 0
NodeEnergy(left) == left > 0
=============================================================================
