----------------------------- MODULE ImepControl -----------------------------
(***************************************************************************)
(* When an IMEP agent transmits: ACKs, hellos and the routing protocol's   *)
(* objects are queued and sent together by the control timer, and the      *)
(* beacon timer sends what is left, beacons, and loads the hellos of the   *)
(* next period (imep.cc: handlerBeaconTimer, handlerControlTimer,          *)
(* recv_outgoing, imep_beacon_input).                                      *)
(*                                                                         *)
(* Time is counted in ticks; a timer that has come to 0 fires before the   *)
(* clock moves on.  A queue of ACKs or hellos is the set of neighbours it  *)
(* addresses; of the object queue its length is kept.                      *)
(***************************************************************************)
EXTENDS Integers

CONSTANTS
  Peers,          \* possible neighbours
  BEACON_PERIOD,  \* ticks between two beacon timeouts
  HighP,          \* delays an object may be given (..WAIT_TIME_HIGHP)
  LowP,           \* delays an ACK or hello may be given (external)
  MaxObjects      \* bound: objects queued

ASSUME ConstantsAssumption ==
  /\ BEACON_PERIOD \in Nat \ {0}
  /\ HighP \subseteq Nat \ {0} /\ LowP \subseteq Nat \ {0}
  /\ MaxObjects \in Nat

VARIABLES
  links,         \* neighbours heard: the entries of imepLinkHead
  ackQueue,      \* neighbours an ACK is queued for
  helloQueue,    \* neighbours a hello is queued for
  objectQueue,   \* number of objects queued
  controlTimer,  \* ticks to its expiry, Idle if not busy
  beaconTimer,   \* ticks to its expiry
  waited,        \* history: ticks the oldest object has been queued
  silence,       \* history: ticks since the last transmission
  helloSent      \* history: a hello went out since the last beacon timeout

queueVars == <<ackQueue, helloQueue, objectQueue>>
historyVars == <<waited, silence, helloSent>>
vars == <<links, queueVars, controlTimer, beaconTimer, historyVars>>

Idle == -1
Queued == ackQueue # {} \/ helloQueue # {} \/ objectQueue > 0

(* imep start                                                              *)
Init ==
  /\ links = {}
  /\ ackQueue = {} /\ helloQueue = {} /\ objectQueue = 0
  /\ controlTimer = Idle
  /\ beaconTimer = BEACON_PERIOD
  /\ waited = 0 /\ silence = 0 /\ helloSent = FALSE

-----------------------------------------------------------------------------
(* sendAck and sendHello start the timer if it is not busy (external).     *)
Started(delay) == IF controlTimer = Idle THEN delay ELSE controlTimer

(* Mutant: an object does not hasten a timer that runs.                    *)
HastenedNever(delay) == Started(delay)

(* Mutant: the timer that runs too long is cancelled, and that is all.     *)
HastenedToIdle(delay) ==
  IF controlTimer = Idle THEN delay
  ELSE IF controlTimer > delay THEN Idle ELSE controlTimer

(* Mutant: the delay is taken off what a running timer has left.           *)
HastenedBy(delay) == IF controlTimer = Idle THEN delay ELSE controlTimer - delay

(* recv_outgoing starts the timer, or restarts it if it would fire later.  *)
Hastened(delay) ==
  IF controlTimer = Idle \/ controlTimer > delay THEN delay ELSE controlTimer

(* An object from the routing protocol.                                    *)
RecvOutgoing(delay) ==
  /\ objectQueue < MaxObjects
  /\ objectQueue' = objectQueue + 1
  /\ controlTimer' = Hastened(delay)
  /\ UNCHANGED <<links, ackQueue, helloQueue, beaconTimer, historyVars>>

(* A packet of neighbour p that needs no answer.                           *)
Hear(p) ==
  /\ links' = links \cup {p}
  /\ UNCHANGED <<queueVars, controlTimer, beaconTimer, historyVars>>

(* imep_beacon_input                                                       *)
BeaconInput(p, delay) ==
  /\ links' = links \cup {p}
  /\ helloQueue' = helloQueue \cup {p}
  /\ controlTimer' = Started(delay)
  /\ UNCHANGED <<ackQueue, objectQueue, beaconTimer, historyVars>>

(* An object of p that lists us (imep_ack_object).                         *)
ObjectInput(p, delay) ==
  /\ links' = links \cup {p}
  /\ ackQueue' = ackQueue \cup {p}
  /\ controlTimer' = Started(delay)
  /\ UNCHANGED <<helloQueue, objectQueue, beaconTimer, historyVars>>

(* The retransmission queue downs a link; the routing protocol's answer to *)
(* that is a RecvOutgoing.                                                 *)
LinkDown(p) ==
  /\ p \in links
  /\ links' = links \ {p}
  /\ UNCHANGED <<queueVars, controlTimer, beaconTimer, historyVars>>

(* handlerControlTimer makes packets until the queues are empty.  It       *)
(* asserts that there is something to send.                                *)
ControlTimeout ==
  /\ controlTimer = 0
  /\ controlTimer' = Idle
  /\ ackQueue' = {} /\ helloQueue' = {} /\ objectQueue' = 0
  /\ waited' = 0 /\ silence' = 0
  /\ helloSent' = (helloSent \/ helloQueue # {})
  /\ UNCHANGED <<links, beaconTimer>>

(* Something is to be sent at once: the control timer is pending, perhaps  *)
(* for what the routing protocol had to say about the links just purged.   *)
FlushOnBeacon(objects) ==
  controlTimer # Idle \/ objects > 0 \/ helloQueue # {}

(* Mutant: a pending timer is not cancelled.                               *)
CancelledNot == controlTimer

(* The timer when handlerBeaconTimer returns.  It is cancelled before the  *)
(* queues are served, and again if loading the hellos has started it.      *)
Cancelled == Idle

(* Mutant: hellos are left to the beacons of others.                       *)
NoHellos(left) == {}

(* A hello for every neighbour is loaded for the next period.              *)
Hellos(left) == left

(* handlerBeaconTimer.  purgeLink drops the links not heard for long, and  *)
(* the routing protocol may answer with objects.  A beacon goes out only   *)
(* if there is nothing to flush and no neighbour.                          *)
BeaconTimeout(gone, objects) ==
  LET flush == FlushOnBeacon(objects)
      left  == links \ gone
  IN
  /\ beaconTimer = 0
  /\ gone = {} => objects = 0
  /\ beaconTimer' = BEACON_PERIOD
  /\ links' = left
  /\ controlTimer' = Cancelled
  /\ helloQueue' = Hellos(left) \cup (IF flush THEN {} ELSE helloQueue)
  /\ IF flush THEN ackQueue' = {} /\ objectQueue' = 0 /\ waited' = 0
     ELSE UNCHANGED <<ackQueue, objectQueue, waited>>
  /\ silence' = IF flush \/ left = {} THEN 0 ELSE silence
  /\ helloSent' = FALSE

Tick ==
  /\ controlTimer # 0 /\ beaconTimer # 0
  /\ controlTimer' = IF controlTimer = Idle THEN Idle ELSE controlTimer - 1
  /\ beaconTimer' = beaconTimer - 1
  /\ waited' = IF objectQueue > 0 THEN waited + 1 ELSE 0
  /\ silence' = silence + 1
  /\ UNCHANGED <<links, queueVars, helloSent>>

Next ==
  \/ \E d \in HighP : RecvOutgoing(d)
  \/ \E p \in Peers : Hear(p) \/ LinkDown(p)
  \/ \E p \in Peers, d \in LowP : BeaconInput(p, d) \/ ObjectInput(p, d)
  \/ ControlTimeout
  \/ \E gone \in SUBSET links, objects \in 0 .. 1 : BeaconTimeout(gone, objects)
  \/ Tick

Spec == Init /\ [][Next]_vars

-----------------------------------------------------------------------------
TypeOK ==
  /\ links \subseteq Peers /\ ackQueue \subseteq Peers /\ helloQueue \subseteq Peers
  /\ objectQueue \in 0 .. MaxObjects
  /\ controlTimer \in {Idle} \cup Nat
  /\ beaconTimer \in 0 .. BEACON_PERIOD
  /\ waited \in Nat /\ silence \in Nat
  /\ helloSent \in BOOLEAN

(* handlerControlTimer's assertion never fails: whoever empties the queues *)
(* also leaves no timer behind.                                            *)
TimerHasWork == controlTimer # Idle => Queued

(* ACKs and objects never wait without the timer; only hellos do, for the  *)
(* beacon timer.                                                           *)
WorkIsTimed == ackQueue # {} \/ objectQueue > 0 => controlTimer # Idle

(* An object is on the air within the delay drawn for objects, whatever    *)
(* slower ACKs and hellos have started the timer before it.                *)
ObjectsPrompt ==
  objectQueue > 0 => \E d \in HighP : waited + controlTimer <= d

(* Neighbours that drop a link after more than two silent beacon periods   *)
(* do not drop ours while they hear us: two timeouts in a row never both   *)
(* stay silent.                                                            *)
SilenceBounded == silence <= 2 * BEACON_PERIOD

(* handlerBeaconTimer, 355-357: hellos of the last period make a beacon    *)
(* superfluous; if there were none, beacon.                                *)
BeaconIfNoHello ==
  [][\A gone \in SUBSET links, objects \in 0 .. 1 :
       BeaconTimeout(gone, objects) /\ ~helloSent => silence' = 0]_vars

=============================================================================
