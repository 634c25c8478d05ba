------------------------------ MODULE ImepReseq ------------------------------
(***************************************************************************)
(* The resequencing of objects by the receiving IMEP agent, as imep.cc     *)
(* does it.  An object packet carries an 8-bit sequence number; one that   *)
(* comes too early waits in incomingQ until the hole before it is filled   *)
(* or, after MAX_RETRANS_TIME, retired: the routing protocol is told that  *)
(* the link went down and up, and the objects in the hole are given up.    *)
(*                                                                         *)
(* The sending side is reduced to the objects it broadcasts: each may be   *)
(* heard late, more than once (it is repeated until all its neighbours     *)
(* have answered) or not at all.  Objects are numbered 0, 1, 2, ... as     *)
(* history; the code sees a number modulo SeqSpace only.                   *)
(***************************************************************************)
EXTENDS Integers, FiniteSets, Sequences

CONSTANTS
  Sources,      \* the neighbours objects come from
  SeqSpace,     \* size of the sequence space (256 in the code), even
  LookupWraps,  \* whether the queue looks up lastSeq + 1 modulo SeqSpace
  Starts,       \* numbers of the first object after the run begins
  MaxObjects,   \* bound: objects a source sends
  Window        \* bound: objects a source is ahead of the receiver

ASSUME ConstantsAssumption ==
  /\ SeqSpace \in Nat \ {0} /\ SeqSpace % 2 = 0
  /\ LookupWraps \in BOOLEAN
  /\ MaxObjects \in Nat
  /\ Starts \subseteq 0 .. MaxObjects
  /\ Window \in Nat /\ 2 * Window < SeqSpace

VARIABLES
  sent,          \* objects a source has sent so far
  listed,        \* objects that list us and ask for our answer
  lastSeqValid,  \* a link entry exists and lastSeq is meaningful
  lastSeq,       \* sequence number of the last object passed up or given up
  incomingQ,     \* early objects waiting
  incomingTimer, \* the timer is busy
  top,           \* history: number of the object lastSeq stands for
  first,         \* history: number of the first object heard on this link
  answered,      \* history: objects answered on this link
  upcalls        \* history: what the last handler passed up

receiverVars == <<lastSeqValid, lastSeq, incomingQ, incomingTimer>>
heardVars    == <<first, answered>>
historyVars  == <<top, upcalls, heardVars>>
vars == <<sent, listed, receiverVars, historyVars>>

NoTop == -2
Break == -1
Seq8(n) == n % SeqSpace

Init ==
  /\ sent \in [Sources -> Starts]
  /\ listed = [m \in Sources |-> {}]
  /\ lastSeqValid = [m \in Sources |-> FALSE]
  /\ lastSeq = [m \in Sources |-> 0]
  /\ incomingQ = [m \in Sources |-> {}]
  /\ incomingTimer = FALSE
  /\ top = [m \in Sources |-> NoTop]
  /\ first = [m \in Sources |-> NoTop]
  /\ answered = [m \in Sources |-> {}]
  /\ upcalls = [m \in Sources |-> <<>>]

Silent == upcalls' = [m \in Sources |-> <<>>]

-----------------------------------------------------------------------------
(* The radio.  Window bounds how late a copy may be, and how far a source  *)
(* gets ahead of what we have accepted while the link to it lives.         *)
InAir(m) == {n \in 0 .. sent[m] - 1 : sent[m] - n <= Window}

(* The source broadcasts its next object, to us if it takes us for a       *)
(* neighbour.                                                              *)
Send(m) ==
  LET n == sent[m] IN
  /\ n < MaxObjects
  /\ lastSeqValid[m] => n - top[m] <= Window
  /\ sent' = [sent EXCEPT ![m] = n + 1]
  /\ listed' \in {listed, [listed EXCEPT ![m] = @ \cup {n}]}
  /\ Silent
  /\ UNCHANGED <<receiverVars, top, heardVars>>

-----------------------------------------------------------------------------
(* The receiving end.  r carries what a handler changes for one source.    *)
Of(m) == [last |-> lastSeq[m], q |-> incomingQ[m], top |-> top[m], up |-> <<>>]

(* Mutant: the difference is taken in a register that is not signed.       *)
RegUnsigned(seq, last) == (seq - last) % SeqSpace

(* int8_t reg = (int8_t) ob_sequence - (int8_t) lastSeq                    *)
Reg(seq, last) ==
  LET d == (seq - last) % SeqSpace
  IN  IF d < SeqSpace \div 2 THEN d ELSE d - SeqSpace

(* Mutant: lastSeq is kept in a wider register than the sequence numbers.  *)
PassUpWide(r, n) == [r EXCEPT !.last = n, !.top = n, !.up = Append(@, n)]

PassUp(r, n) == [r EXCEPT !.last = Seq8(n), !.top = n, !.up = Append(@, n)]

Dequeued(r, n) == PassUp([r EXCEPT !.q = @ \ {n}], n)

(* incomingQ.getPacket(src, lastSeq + 1): the sum is not reduced to the    *)
(* 8 bits of a sequence number unless the queue's parameter does it.       *)
NextKey(last) == IF LookupWraps THEN Seq8(last + 1) ELSE last + 1

Link == [last : Int, q : SUBSET Nat, top : Int, up : Seq(Int)]

InSequence[r \in Link] ==
  LET next == {n \in r.q : Seq8(n) = NextKey(r.last)}
  IN  IF next = {} THEN r ELSE Dequeued(r, CHOOSE n \in next : TRUE)

(* The loops of imep_object_input and handlerIncomingTimer pass up at most *)
(* the whole queue.                                                        *)
Loop(r, step) ==
  LET after[i \in 0 .. Cardinality(r.q)] ==
        IF i = 0 THEN r ELSE step[after[i - 1]]
  IN  after[Cardinality(r.q)]

(* Deliver as many in-sequence packets as possible.                        *)
Chained(r) == Loop(r, InSequence)

Store(m, r) ==
  /\ lastSeq' = [lastSeq EXCEPT ![m] = r.last]
  /\ incomingQ' = [incomingQ EXCEPT ![m] = r.q]
  /\ top' = [top EXCEPT ![m] = r.top]
  /\ upcalls' = [[k \in Sources |-> <<>>] EXCEPT ![m] = r.up]

(* The first object heard on a link sets lastSeq to its predecessor.       *)
FirstHeard(m, n) ==
  IF lastSeqValid[m] THEN Of(m) ELSE [Of(m) EXCEPT !.last = Seq8(n - 1), !.top = n - 1]

Ignored(m, n) == Reg(Seq8(n), FirstHeard(m, n).last) <= 0

(* imep_ack_object answers an object that lists us, before anything else.  *)
Answer(m, n) ==
  answered' = [answered EXCEPT ![m] = IF n \in listed[m] THEN @ \cup {n} ELSE @]

(* Mutant: only the handler restarts the timer.                            *)
TimerNotStarted(early) == incomingTimer

(* scheduleIncoming starts the timer if it is not busy.                    *)
TimerStarted(early) == incomingTimer \/ early

(* imep_object_input, with recv_incoming's creation of the link entry.     *)
ObjectInput(m, n) ==
  LET r   == FirstHeard(m, n)
      reg == Reg(Seq8(n), r.last)
  IN
  /\ n \in InAir(m)
  /\ Answer(m, n)
  /\ lastSeqValid' = [lastSeqValid EXCEPT ![m] = TRUE]
  /\ first' = [first EXCEPT ![m] = IF lastSeqValid[m] THEN @ ELSE n]
  /\ Store(m, CASE reg <= 0 -> r
                [] reg = 1  -> Chained(PassUp(r, n))
                [] reg > 1  -> Chained([r EXCEPT !.q = @ \cup {n}]))
  /\ incomingTimer' = TimerStarted(reg > 1)
  /\ UNCHANGED <<sent, listed>>

Lowest(q) == CHOOSE n \in q : \A k \in q : n <= k

(* Mutant: the objects due are handed out as they are, past early ones     *)
(* that came before them in sequence.                                      *)
RetiredByExpiry(r, due) ==
  Loop(r, [b \in Link |->
    IF b.q \cap due = {} THEN b
    ELSE Chained(Dequeued([b EXCEPT !.up = Append(@, Break)],
                          CHOOSE n \in b.q \cap due : TRUE))])

(* Mutant: a hole is retired without telling the routing protocol.         *)
RetiredSilently(r, due) ==
  Loop(r, [b \in Link |->
    IF b.q \cap due = {} THEN b ELSE Chained(Dequeued(b, Lowest(b.q)))])

(* getNextPacket hands out the objects of a source in order, as long as    *)
(* one of them has expired; each is passed up behind a down and an up      *)
(* notice, with the objects that follow it directly.                       *)
Retired(r, due) ==
  Loop(r, [b \in Link |->
    IF b.q \cap due = {} THEN b
    ELSE Chained(Dequeued([b EXCEPT !.up = Append(@, Break)], Lowest(b.q)))])

(* Mutant: the timer is restarted only if nothing was handed out.          *)
RestartedIfIdle(r) == \A m \in Sources : r[m].q # {} /\ r[m].up = <<>>

(* The timer is restarted for the earliest expiry still queued.            *)
Restarted(r) == \E m \in Sources : r[m].q # {}

(* handlerIncomingTimer.  due are the objects whose time has come; if they *)
(* have all been delivered meanwhile there are none.                       *)
HandlerIncomingTimer(due) ==
  LET r == [m \in Sources |-> Retired(Of(m), {n \in incomingQ[m] : <<m, n>> \in due})]
  IN
  /\ incomingTimer
  /\ lastSeq' = [m \in Sources |-> r[m].last]
  /\ incomingQ' = [m \in Sources |-> r[m].q]
  /\ top' = [m \in Sources |-> r[m].top]
  /\ upcalls' = [m \in Sources |-> r[m].up]
  /\ incomingTimer' = Restarted(r)
  /\ UNCHANGED <<sent, listed, lastSeqValid, heardVars>>

Early == {w \in Sources \X (0 .. MaxObjects - 1) : w[2] \in incomingQ[w[1]]}

IncomingTimeout == \E due \in SUBSET Early : HandlerIncomingTimer(due)

Retire(m, n) ==
  \E due \in SUBSET Early : <<m, n>> \in due /\ HandlerIncomingTimer(due)

(* imepSetLinkDownStatus destroys the link entry and its early objects.    *)
LinkDown(m) ==
  /\ lastSeqValid[m]
  /\ lastSeqValid' = [lastSeqValid EXCEPT ![m] = FALSE]
  /\ lastSeq' = [lastSeq EXCEPT ![m] = 0]
  /\ incomingQ' = [incomingQ EXCEPT ![m] = {}]
  /\ top' = [top EXCEPT ![m] = NoTop]
  /\ first' = [first EXCEPT ![m] = NoTop]
  /\ answered' = [answered EXCEPT ![m] = {}]
  /\ Silent
  /\ UNCHANGED <<sent, listed, incomingTimer>>

Next ==
  \/ \E m \in Sources : Send(m) \/ LinkDown(m)
  \/ \E m \in Sources, n \in 0 .. MaxObjects - 1 : ObjectInput(m, n)
  \/ IncomingTimeout

Spec == Init /\ [][Next]_vars

(* Every early object that stays queued comes to its time.                 *)
FairSpec ==
  /\ Spec
  /\ \A m \in Sources, n \in 0 .. MaxObjects - 1 : WF_vars(Retire(m, n))

-----------------------------------------------------------------------------
Numbers == 0 .. MaxObjects - 1

TypeOK ==
  /\ sent \in [Sources -> 0 .. MaxObjects]
  /\ \A v \in {listed, incomingQ, answered} :
       v \in [Sources -> SUBSET Numbers]
  /\ lastSeqValid \in [Sources -> BOOLEAN]
  /\ lastSeq \in [Sources -> 0 .. SeqSpace - 1]
  /\ incomingTimer \in BOOLEAN
  /\ top \in [Sources -> NoTop .. MaxObjects - 1]
  /\ first \in [Sources -> NoTop .. MaxObjects - 1]

(* lastSeq stands for the object passed up last, and every waiting object  *)
(* is ahead of it: no order of arrivals, chain deliveries, retirements and *)
(* new links leaves one behind in the queue that was passed over.          *)
QueueAhead ==
  \A m \in Sources :
    /\ lastSeqValid[m] => lastSeq[m] = Seq8(top[m])
    /\ incomingQ[m] # {} => lastSeqValid[m]
    /\ \A n \in incomingQ[m] : top[m] < n /\ n <= top[m] + Window

(* While an object waits the incoming timer runs, so no hole blocks the    *)
(* link for good (the timer is shared by all neighbours).                  *)
HoleTimed == (\E m \in Sources : incomingQ[m] # {}) => incomingTimer

(* Objects of a neighbour are passed up in order, and left out only behind *)
(* a report that the link broke.                                           *)
Abstract == INSTANCE OrderedLink
InOrderDelivery == Abstract!Spec

Skipped(m) ==
  IF lastSeqValid[m] /\ lastSeqValid'[m]
  THEN {n \in Numbers : top[m] < n /\ n < top'[m]}
         \ {upcalls'[m][i] : i \in 1 .. Len(upcalls'[m])}
  ELSE {}

(* What we acknowledged on a link we do not skip on it, however the        *)
(* objects overtook each other and whichever of them timed out.            *)
AnsweredNotSkipped == [][\A m \in Sources : Skipped(m) \cap answered[m] = {}]_vars

(* An early object does not wait for ever.                                 *)
EarlyObjectsLeave ==
  \A m \in Sources, n \in Numbers : n \in incomingQ[m] ~> n \notin incomingQ[m]

(* imep_object_input, 819: an object that is ignored, although it has been *)
(* acknowledged (794), has been passed up or declared a permanent hole     *)
(* before: it does not precede the first object heard on the link.         *)
IgnoredWasSettled ==
  [][\A m \in Sources, n \in Numbers :
       ObjectInput(m, n) /\ Ignored(m, n) /\ n \in answered'[m] => first[m] <= n]_vars

=============================================================================
