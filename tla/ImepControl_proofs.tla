------------------------- MODULE ImepControl_proofs -------------------------
(* What ImepControl's runs check on two neighbours, for every set of       *)
(* neighbours, every beacon period and all delays.                         *)
EXTENDS ImepControl, TLAPS

(* Between two beacon timeouts the agent has been silent at most since the *)
(* last of them, unless hellos are queued: then the next timeout speaks.   *)
SilenceInv ==
  LET elapsed == BEACON_PERIOD - beaconTimer IN
  /\ silence <= BEACON_PERIOD + elapsed
  /\ helloQueue = {} => silence <= elapsed

WaitedInv == objectQueue = 0 => waited = 0

IInv == TypeOK /\ TimerHasWork /\ WorkIsTimed /\ ObjectsPrompt /\ WaitedInv /\ SilenceInv

LEMMA InitInv == Init => IInv
<1> SUFFICES ASSUME Init PROVE IInv
  OBVIOUS
<1> USE ConstantsAssumption DEF Init, Idle
<1>1. TypeOK
  <2>1. BEACON_PERIOD \in 0 .. BEACON_PERIOD /\ 0 \in 0 .. MaxObjects
    BY ConstantsAssumption
  <2>2. helloSent \in BOOLEAN
    OBVIOUS
  <2>3. QED  BY <2>1, <2>2 DEF TypeOK
<1>2. TimerHasWork /\ WorkIsTimed /\ ObjectsPrompt /\ WaitedInv
  BY DEF TimerHasWork, WorkIsTimed, ObjectsPrompt, WaitedInv
<1>3. SilenceInv
  BY DEF SilenceInv
<1>4. QED  BY <1>1, <1>2, <1>3 DEF IInv

(* An object makes the timer fire within its delay and never later than it *)
(* would have done.                                                        *)
LEMMA RecvOutgoingInv ==
  ASSUME IInv, NEW d \in HighP, RecvOutgoing(d)
  PROVE  IInv'
<1> USE ConstantsAssumption DEF IInv, RecvOutgoing, Hastened, historyVars, Idle, TypeOK
<1>1. TypeOK'
  OBVIOUS
<1>2. TimerHasWork' /\ WorkIsTimed'
  BY DEF TimerHasWork, WorkIsTimed, Queued
<1>3. ObjectsPrompt'
  <2>1. CASE objectQueue = 0
    BY <2>1 DEF WaitedInv, WorkIsTimed, ObjectsPrompt
  <2>2. CASE objectQueue # 0
    BY <2>2 DEF WorkIsTimed, ObjectsPrompt
  <2>3. QED  BY <2>1, <2>2
<1>4. WaitedInv' /\ SilenceInv'
  BY DEF WaitedInv, SilenceInv
<1>5. QED  BY <1>1, <1>2, <1>3, <1>4

(* A packet heard, with what it makes us queue.                            *)
LEMMA InputInv ==
  ASSUME IInv, NEW p \in Peers, NEW d \in LowP,
         BeaconInput(p, d) \/ ObjectInput(p, d)
  PROVE  IInv'
<1> USE ConstantsAssumption
    DEF IInv, BeaconInput, ObjectInput, Started, historyVars, Idle, TypeOK
<1>1. TypeOK'
  OBVIOUS
<1>2. TimerHasWork' /\ WorkIsTimed'
  BY DEF TimerHasWork, WorkIsTimed, Queued
<1>3. ObjectsPrompt'
  BY DEF WorkIsTimed, ObjectsPrompt
<1>4. WaitedInv' /\ SilenceInv'
  BY DEF WaitedInv, SilenceInv
<1>5. QED  BY <1>1, <1>2, <1>3, <1>4

LEMMA ControlTimeoutInv ==
  ASSUME IInv, ControlTimeout
  PROVE  IInv'
BY ConstantsAssumption
   DEF IInv, ControlTimeout, Idle, TypeOK, TimerHasWork, WorkIsTimed, Queued,
       ObjectsPrompt, WaitedInv, SilenceInv

(* If the timeout sends nothing no hello was queued, so the silence began  *)
(* after the timeout before; and it queues hellos for the next.            *)
LEMMA BeaconTimeoutInv ==
  ASSUME IInv, NEW gone \in SUBSET links, NEW objects \in 0 .. 1,
         BeaconTimeout(gone, objects)
  PROVE  IInv'
<1> USE ConstantsAssumption
    DEF IInv, BeaconTimeout, FlushOnBeacon, Cancelled, Hellos, Idle, TypeOK
<1>1. TypeOK'
  <2>1. links' \subseteq Peers /\ helloQueue' \subseteq Peers /\ ackQueue' \subseteq Peers
    OBVIOUS
  <2>2. objectQueue' \in 0 .. MaxObjects /\ waited' \in Nat /\ silence' \in Nat
    OBVIOUS
  <2>3. controlTimer' \in {Idle} \cup Nat /\ beaconTimer' \in 0 .. BEACON_PERIOD
    OBVIOUS
  <2>4. QED  BY <2>1, <2>2, <2>3
<1>2. TimerHasWork'
  BY DEF TimerHasWork
<1>3. ackQueue' = {} /\ objectQueue' = 0
  BY DEF WorkIsTimed
<1>4. WorkIsTimed' /\ ObjectsPrompt'
  BY <1>3 DEF WorkIsTimed, ObjectsPrompt
<1>5. WaitedInv'
  BY DEF WaitedInv
<1>6. SilenceInv'
  BY DEF SilenceInv
<1>7. QED  BY <1>1, <1>2, <1>4, <1>5, <1>6

LEMMA TickInv ==
  ASSUME IInv, Tick
  PROVE  IInv'
<1> USE ConstantsAssumption DEF IInv, Tick, queueVars, Idle, TypeOK
<1>1. TypeOK'
  OBVIOUS
<1>2. TimerHasWork' /\ WorkIsTimed'
  BY DEF TimerHasWork, WorkIsTimed, Queued
<1>3. ObjectsPrompt'
  BY DEF ObjectsPrompt, WorkIsTimed
<1>4. WaitedInv' /\ SilenceInv'
  BY DEF WaitedInv, SilenceInv
<1>5. QED  BY <1>1, <1>2, <1>3, <1>4

LEMMA NextInv == IInv /\ [Next]_vars => IInv'
<1> SUFFICES ASSUME IInv, [Next]_vars PROVE IInv'
  OBVIOUS
<1>1. CASE \E d \in HighP : RecvOutgoing(d)
  BY <1>1, RecvOutgoingInv
<1>2. CASE \E p \in Peers : Hear(p) \/ LinkDown(p)
  <2>1. PICK p \in Peers : Hear(p) \/ LinkDown(p)
    BY <1>2
  <2> USE <2>1 DEF Hear, LinkDown, queueVars, historyVars, IInv
  <2>2. TypeOK'
    BY DEF TypeOK
  <2>3. (TimerHasWork /\ WorkIsTimed /\ ObjectsPrompt /\ WaitedInv /\ SilenceInv)'
    BY DEF TimerHasWork, WorkIsTimed, Queued, ObjectsPrompt, WaitedInv, SilenceInv
  <2>4. QED  BY <2>2, <2>3
<1>3. CASE \E p \in Peers, d \in LowP : BeaconInput(p, d) \/ ObjectInput(p, d)
  BY <1>3, InputInv
<1>4. CASE ControlTimeout
  BY <1>4, ControlTimeoutInv
<1>5. CASE \E gone \in SUBSET links, objects \in 0 .. 1 : BeaconTimeout(gone, objects)
  BY <1>5, BeaconTimeoutInv
<1>6. CASE Tick
  BY <1>6, TickInv
<1>7. CASE UNCHANGED vars
  BY <1>7 DEF vars, queueVars, historyVars, IInv, TypeOK, TimerHasWork, WorkIsTimed,
              Queued, ObjectsPrompt, WaitedInv, SilenceInv
<1>8. QED  BY <1>1, <1>2, <1>3, <1>4, <1>5, <1>6, <1>7 DEF Next

THEOREM Invariance == Spec => []IInv
  BY InitInv, NextInv, PTL DEF Spec

(* The queues and both timers keep their types.                            *)
THEOREM TypeCorrect == Spec => []TypeOK
  BY Invariance, PTL DEF IInv

(* handlerControlTimer's assertion never fails.                            *)
THEOREM TimeoutsHaveWork == Spec => []TimerHasWork
  BY Invariance, PTL DEF IInv

(* ACKs and objects are never left without a running timer.                *)
THEOREM WorkKeepsTimer == Spec => []WorkIsTimed
  BY Invariance, PTL DEF IInv

(* Objects are sent within the delay drawn for objects.                    *)
THEOREM ObjectsArePrompt == Spec => []ObjectsPrompt
  BY Invariance, PTL DEF IInv

(* No two beacon timeouts in a row stay silent.                            *)
THEOREM SilenceIsBounded == Spec => []SilenceBounded
<1>1. IInv => SilenceBounded
  BY ConstantsAssumption DEF IInv, TypeOK, SilenceInv, SilenceBounded
<1>2. QED  BY <1>1, Invariance, PTL

=============================================================================
