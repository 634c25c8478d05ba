----------------------------- MODULE ImepRexmit -----------------------------
(***************************************************************************)
(* The reliable broadcast of one IMEP agent, as imep.cc does it: an object *)
(* packet is broadcast with a list of the neighbours that must answer it,  *)
(* a copy of it waits in rexmitq, an ACK takes its sender off the list,    *)
(* the packet is sent again every RETRANS_PERIOD, and after MAX_REXMITS    *)
(* retransmissions the links to the neighbours still on the list are       *)
(* declared down.                                                          *)
(*                                                                         *)
(* The response list is modelled as the memory it is: an array of slots of *)
(* which ob_num_responses are live.  A removal moves the last live slot    *)
(* into the hole and does not clear it, and memory nobody wrote reads 0,   *)
(* which is also the address of the first node of a scenario.              *)
(***************************************************************************)
EXTENDS Integers, FiniteSets, SequencesExt

CONSTANTS
  Peers,          \* the addresses of the agent's possible neighbours
  MAX_REXMITS,    \* retransmissions of a packet before its links are downed
  RETRANS_PERIOD, \* ticks between two transmissions of a packet
  SeqSpace,         \* size of the sequence space (256: ob_sequence is 8 bits)
  MaxQueue,       \* bound: packets waiting in rexmitq at a time
  MaxAcks         \* bound: ACKs of one packet by one neighbour in flight

ASSUME ConstantsAssumption ==
  /\ Peers \subseteq Nat /\ IsFiniteSet(Peers)
  /\ MAX_REXMITS \in Nat
  /\ RETRANS_PERIOD \in Nat \ {0}
  /\ SeqSpace \in Nat \ {0}
  /\ MaxQueue \in Nat
  /\ MaxAcks \in Nat

VARIABLES
  link,            \* status of the link to each neighbour
  controlSequence, \* sequence number of the next object packet
  rexmitq,         \* sequence numbers of the packets awaiting responses
  packet,          \* per sequence number, the memory of its packet
  rexmitTimer,     \* ticks until the timer fires, Idle if it is not busy
  acks             \* acks[n][s]: ACKs of packet s by n on their way here

vars == <<link, controlSequence, rexmitq, packet, rexmitTimer, acks>>

Seqs  == 0 .. SeqSpace - 1
Addr  == Peers \cup {0}
Slots == 1 .. Cardinality(Peers) + 1
Idle  == -1

(* num and resp are ob_num_responses and the slots of the response list;   *)
(* left and at are the queue's retransmissions left and ticks to the next; *)
(* age is history, the ticks since the packet was first transmitted.       *)
Packet == [num : 0 .. Cardinality(Peers), resp : [Slots -> Addr],
           left : 0 .. MAX_REXMITS, at : 0 .. RETRANS_PERIOD, age : Nat]

(* Packet::free clears the header area the response list lives in.         *)
Freed == [num |-> 0, resp |-> [i \in Slots |-> 0], left |-> 0, at |-> 0,
          age |-> 0]

Listed(p) == {p.resp[i] : i \in 1 .. p.num}
Neighbours == {n \in Peers : link[n] = "BI"}

-----------------------------------------------------------------------------
(* removeObjectResponse and the body of purgeReXmitQ.  The search stops at *)
(* the first live slot holding n, or one slot past the live ones; what it  *)
(* then compares is whatever that slot holds.                              *)
SlotOf(p, n) ==
  IF n \in Listed(p) THEN CHOOSE i \in 1 .. p.num : p.resp[i] = n
                     ELSE p.num + 1

WithoutOneTooFar(p, n) ==
  LET i == SlotOf(p, n)
  IN  CASE p.resp[i] # n -> p
        [] p.resp[i] = n /\ p.num = 1 -> Freed
        [] OTHER -> [p EXCEPT !.resp[i] = p.resp[p.num + 1], !.num = @ - 1]

Without(p, n) ==
  LET i == SlotOf(p, n)
  IN  CASE p.resp[i] # n -> p
        [] p.resp[i] = n /\ p.num = 1 -> Freed
        [] OTHER -> [p EXCEPT !.resp[i] = p.resp[p.num], !.num = @ - 1]

(* The queue and its packets together, as the handlers pass them on.       *)
Mem == [q |-> rexmitq, p |-> packet]

RemoveResponseStays(m, s, n) == [m EXCEPT !.p[s] = Without(@, n)]

RemoveResponse(m, s, n) ==
  LET p == [m.p EXCEPT ![s] = Without(@, n)]
  IN  [q |-> IF p[s].num = 0 THEN m.q \ {s} ELSE m.q, p |-> p]

PurgeStopsEarly(m, n) ==
  LET upto == {s \in m.q : \A t \in m.q : t <= s => n \in Listed(m.p[t])}
      p == [s \in Seqs |-> IF s \in upto THEN Without(m.p[s], n) ELSE m.p[s]]
  IN  [q |-> {s \in m.q : p[s].num > 0}, p |-> p]

PurgeNothing(m, n) == m

PurgeReXmitQ(m, n) ==
  LET p == [s \in Seqs |-> IF s \in m.q THEN Without(m.p[s], n) ELSE m.p[s]]
  IN  [q |-> {s \in m.q : p[s].num > 0}, p |-> p]

(* The loop of handlerReXmitTimer over the response list of packet s: each *)
(* turn downs the link named by slot i, which purges the queue under the   *)
(* loop; a freed packet reads as an empty list.                            *)
PuntResponders(m, s) ==
  LET after[i \in 0 .. Cardinality(Peers)] ==
        IF i = 0 THEN [mem |-> m, down |-> {}]
        ELSE LET b == after[i - 1]
                 n == b.mem.p[s].resp[i]
             IN  IF i > b.mem.p[s].num THEN b
                 ELSE [mem  |-> PurgeReXmitQ(b.mem, n),
                       down |-> b.down \cup {n}]
  IN  after[Cardinality(Peers)]

(* rexmitq.peekHead: a packet whose time is earliest; the last lines of    *)
(* handlerReXmitTimer start the timer for it, never for a time gone by.    *)
IsHead(m, s) == s \in m.q /\ \A t \in m.q : m.p[s].at <= m.p[t].at

RescheduledFullPeriod(m) == IF m.q = {} THEN Idle ELSE RETRANS_PERIOD

RescheduledNever(m) == Idle

Rescheduled(m) ==
  IF m.q = {} THEN Idle ELSE m.p[CHOOSE s \in m.q : IsHead(m, s)].at

-----------------------------------------------------------------------------
Init ==
  /\ link = [n \in Peers |-> "NONE"]
  /\ controlSequence = 0
  /\ rexmitq = {}
  /\ packet = [s \in Seqs |-> Freed]
  /\ rexmitTimer = Idle
  /\ acks = [n \in Peers |-> [s \in Seqs |-> 0]]

(* imep_output broadcasts packet s: of the neighbours on its list those in *)
(* heard receive it and queue an ACK; a lost copy and a lost ACK look      *)
(* alike from here.                                                        *)
Broadcast(s, list) ==
  \E heard \in SUBSET list :
    /\ \A n \in heard : acks[n][s] < MaxAcks
    /\ acks' = [n \in Peers |-> [acks[n] EXCEPT ![s] =
                                   IF n \in heard THEN @ + 1 ELSE @]]

(* scheduleReXmit queues packet s with its list of num responses, and      *)
(* starts the timer unless it is busy.                                     *)
ScheduleReXmit(s, num, resp) ==
  /\ packet' = [packet EXCEPT ![s] =
       [num |-> num, resp |-> resp, left |-> MAX_REXMITS, at |-> RETRANS_PERIOD, age |-> 0]]
  /\ rexmitq' = rexmitq \cup {s}
  /\ rexmitTimer' = IF rexmitTimer = Idle THEN RETRANS_PERIOD ELSE rexmitTimer

(* handlerControlTimer sends an object packet: the response list names the *)
(* bidirectional neighbours, and a copy is queued.  A sequence number is   *)
(* not used again while a packet or an ACK that carries it is still about. *)
SendObject ==
  LET s == controlSequence
      k == Cardinality(Neighbours) IN
  /\ Neighbours # {}
  /\ s \notin rexmitq /\ \A n \in Peers : acks[n][s] = 0
  /\ Cardinality(rexmitq) < MaxQueue
  /\ controlSequence' = (s + 1) % SeqSpace
  /\ \E list \in SetToSeqs(Neighbours) :
       ScheduleReXmit(s, k, [i \in Slots |-> IF i <= k THEN list[i] ELSE 0])
  /\ Broadcast(s, Neighbours)
  /\ UNCHANGED link

(* recv_incoming and imep_ack_input for an ACK of packet s by n: hearing n *)
(* makes its link at least IN; an ACK of a packet no longer queued is      *)
(* ignored, any other makes the link bidirectional.                        *)
AckInput(n, s) ==
  /\ acks[n][s] > 0
  /\ acks' = [acks EXCEPT ![n][s] = @ - 1]
  /\ IF s \in rexmitq
     THEN LET m == RemoveResponse(Mem, s, n)
          IN  /\ rexmitq' = m.q /\ packet' = m.p
              /\ link' = [link EXCEPT ![n] = "BI"]
     ELSE /\ link' = [link EXCEPT ![n] = IF @ = "NONE" THEN "IN" ELSE @]
          /\ UNCHANGED <<rexmitq, packet>>
  /\ UNCHANGED <<controlSequence, rexmitTimer>>

(* A beacon or a hello from n (imep_hello_input); a hello that names this  *)
(* agent confirms the link in both directions.                             *)
HelloInput(n, namesUs) ==
  /\ link' = [link EXCEPT ![n] = IF namesUs THEN "BI"
                                 ELSE IF @ = "NONE" THEN "IN" ELSE @]
  /\ link' # link
  /\ UNCHANGED <<controlSequence, rexmitq, packet, rexmitTimer, acks>>

(* imepSetLinkDownStatus(n), called when nothing was heard from n for too  *)
(* long or the MAC layer gave up on it.                                    *)
LinkDown(n) ==
  /\ link[n] # "NONE"
  /\ link' = [link EXCEPT ![n] = "NONE"]
  /\ LET m == PurgeReXmitQ(Mem, n) IN rexmitq' = m.q /\ packet' = m.p
  /\ UNCHANGED <<controlSequence, rexmitTimer, acks>>

(* handlerReXmitTimer, its three cases.  TimedOut looks at the count of    *)
(* retransmissions only; Due also at the clock.                            *)
TimedOutNegative(p) == p.left = -1
TimedOutEarly(p) == p.left <= 1

TimedOut(p) == p.left = 0
Due(p) == p.at = 0

Fires == rexmitTimer = 0

RexmitTimeout(s) ==
  /\ Fires /\ IsHead(Mem, s) /\ TimedOut(packet[s])
  /\ LET after == PuntResponders(Mem, s)
     IN  /\ rexmitq' = after.mem.q /\ packet' = after.mem.p
         /\ link' = [n \in Peers |-> IF n \in after.down THEN "NONE" ELSE link[n]]
         /\ rexmitTimer' = Rescheduled(after.mem)
  /\ UNCHANGED <<controlSequence, acks>>

RetransmittedForever(p) == [p EXCEPT !.at = RETRANS_PERIOD]

Retransmitted(p) == [p EXCEPT !.left = @ - 1, !.at = RETRANS_PERIOD]

RexmitSend(s) ==
  /\ Fires /\ IsHead(Mem, s) /\ ~TimedOut(packet[s]) /\ Due(packet[s])
  /\ Broadcast(s, Listed(packet[s]))
  /\ packet' = [packet EXCEPT ![s] = Retransmitted(@)]
  /\ rexmitTimer' = Rescheduled([Mem EXCEPT !.p = packet'])
  /\ UNCHANGED <<link, controlSequence, rexmitq>>

(* Nothing is due: the packet the timer was started for has been acked.    *)
RexmitIdle ==
  /\ Fires
  /\ rexmitq = {} \/ \E s \in rexmitq : /\ IsHead(Mem, s)
                                       /\ ~TimedOut(packet[s]) /\ ~Due(packet[s])
  /\ rexmitTimer' = Rescheduled(Mem)
  /\ UNCHANGED <<link, controlSequence, rexmitq, packet, acks>>

HandlerReXmitTimer == RexmitIdle \/ \E s \in Seqs : RexmitTimeout(s) \/ RexmitSend(s)

(* The simulator's clock; it does not pass a timer that is due.            *)
Tick ==
  /\ rexmitTimer > 0
  /\ rexmitTimer' = rexmitTimer - 1
  /\ packet' = [s \in Seqs |-> IF s \in rexmitq
                               THEN [packet[s] EXCEPT !.at = @ - 1, !.age = @ + 1]
                               ELSE packet[s]]
  /\ UNCHANGED <<link, controlSequence, rexmitq, acks>>

Next ==
  \/ SendObject
  \/ \E n \in Peers, s \in Seqs : AckInput(n, s)
  \/ \E n \in Peers, namesUs \in BOOLEAN : HelloInput(n, namesUs)
  \/ \E n \in Peers : LinkDown(n)
  \/ HandlerReXmitTimer
  \/ Tick

Spec == Init /\ [][Next]_vars

(* The scheduler runs every event it holds: time passes and a timer that   *)
(* is due fires.  Nothing is assumed of acks, hellos, losses or senders.   *)
FairSpec == Spec /\ WF_vars(Tick) /\ WF_vars(HandlerReXmitTimer)

-----------------------------------------------------------------------------
TypeOK ==
  /\ link \in [Peers -> {"NONE", "IN", "BI"}]
  /\ controlSequence \in Seqs
  /\ rexmitq \subseteq Seqs
  /\ packet \in [Seqs -> Packet]
  /\ rexmitTimer \in {Idle} \cup 0 .. RETRANS_PERIOD
  /\ acks \in [Peers -> [Seqs -> 0 .. MaxAcks]]

(* findObjectSequence aborts on a queued packet without responses, and     *)
(* removeObjectResponse takes one slot for one neighbour: whatever the     *)
(* order of ACKs, purges and timeouts, every packet in rexmitq waits for   *)
(* at least one neighbour and lists none of them twice.                    *)
ResponseListsSound ==
  \A s \in rexmitq :
    /\ packet[s].num > 0
    /\ \A i, j \in 1 .. packet[s].num :
         packet[s].resp[i] = packet[s].resp[j] => i = j

(* A packet waits only for neighbours whose link is up: no sequence of     *)
(* link downs, punts and new links leaves a downed neighbour on a list,    *)
(* where the packet would be sent to nobody until it times out.            *)
RespondersAreNeighbours == \A s \in rexmitq : Listed(packet[s]) \subseteq Neighbours

(* While a packet is queued the timer runs, and fires no later than the    *)
(* earliest retransmission: no removal or reinsertion loses a wakeup.      *)
TimerCovers ==
  \A s \in rexmitq : rexmitTimer # Idle /\ rexmitTimer <= packet[s].at

(* No packet outlives MAX_REXMITS + 1 periods in the queue, although a     *)
(* timeout may leave it there and another packet's deadline may have set   *)
(* the timer; the receiver's MAX_RETRANS_TIME counts on it.                *)
LifetimeBounded ==
  \A s \in rexmitq : packet[s].age <= (MAX_REXMITS + 1) * RETRANS_PERIOD

(* A neighbour taken off a packet's response list never comes back to it:  *)
(* a removal that copies the wrong slot would ask an answered neighbour    *)
(* again, and down its link for not answering twice.                       *)
ResponsesOnlyShrink ==
  [][\A s \in rexmitq \cap rexmitq' : Listed(packet'[s]) \subseteq Listed(packet[s])]_vars

(* handlerReXmitTimer downs neighbours only after the packet had all its   *)
(* retransmissions, whichever packet's deadline the timer was set for.     *)
(* (The wait after the last one may be cut short: TimedOut ignores at.)    *)
PuntsAfterAllRexmits ==
  [][\A s \in Seqs :
       RexmitTimeout(s) => packet[s].age >= MAX_REXMITS * RETRANS_PERIOD]_vars

(* Every packet leaves the retransmission queue, even if nobody answers it *)
(* and each timeout downs only some of the neighbours it waits for.        *)
PacketsLeave == \A s \in Seqs : s \in rexmitq ~> s \notin rexmitq

-----------------------------------------------------------------------------
(* What the comments of imep.cc promise.                                   *)

(* imep_ack_input, 731: the sender of the ACK is removed from the list --  *)
(* so no other neighbour is, and the packet stays for the others.          *)
AckRemovesItsSender ==
  [][\A n \in Peers, s \in Seqs :
       AckInput(n, s) /\ s \in rexmitq
         => Listed(packet[s]) \ {n} \subseteq Listed(packet'[s])]_vars

(* purgeReXmitQ, 243: remove index from any response lists -- and nobody   *)
(* else from them.                                                         *)
PurgeRemovesIndex ==
  [][\A n \in Peers :
       LinkDown(n) => \A s \in rexmitq :
                        Listed(packet[s]) \ {n} \subseteq Listed(packet'[s])]_vars

(* handlerReXmitTimer, 478: by downing all the links on its response list  *)
(* the packet will have been dropped.                                      *)
TimeoutDropsPacket == [][\A s \in Seqs : RexmitTimeout(s) => s \notin rexmitq']_vars

=============================================================================
