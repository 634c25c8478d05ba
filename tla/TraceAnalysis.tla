----------------------------- MODULE TraceAnalysis ----------------------------
(***************************************************************************)
(* The awk script performance_analysis.awk: what it keeps of a trace, line *)
(* by line.  A line is an operator from column numbers to what the column  *)
(* shows.  A time is kept as what it is the time of.                       *)
(***************************************************************************)
EXTENDS Integers, Sequences

CONSTANT PacketIds   \* what column 41 may show

(* udp_send, udp_recv, packet_size, and the two arrays of times.           *)
NoLines ==
  [udp_send |-> 0, udp_recv |-> 0, packet_size |-> 0, started |-> FALSE,
   start_time |-> [u \in PacketIds |-> "unset"], end_time |-> [u \in PacketIds |-> "unset"]]

SentAnywhere(line) == line[1] = "s" /\ line[35] = "cbr"
SentByAgent(line) == line[1] = "s" /\ line[19] = "AGT" /\ line[35] = "cbr"
RecvByAgent(line) == line[1] = "r" /\ line[19] = "AGT" /\ line[35] = "cbr"

(* Any line but a reception marks the packet of column 41 as lost.         *)
EndTimeByAgent(line) == IF SentByAgent(line) \/ RecvByAgent(line) THEN "received" ELSE "lost"
EndTime(line) == IF RecvByAgent(line) THEN "received" ELSE "lost"

Counted(a, line) ==
  [a EXCEPT
     !.udp_send = IF SentByAgent(line) THEN @ + 1 ELSE @,
     !.udp_recv = IF RecvByAgent(line) THEN @ + 1 ELSE @,
     !.packet_size = IF RecvByAgent(line) THEN @ + line[37] ELSE @,
     !.started = @ \/ SentByAgent(line),
     !.start_time[line[41]] = IF SentByAgent(line) THEN "sent" ELSE @,
     !.end_time[line[41]] = EndTime(line)]

(* END: the packets whose delay enters the average.  A start that is unset *)
(* is 0, and a packet that is lost has the end -1.                         *)
Delayed(a) == {u \in PacketIds : a.end_time[u] = "received"}
=============================================================================
