# A verification development of netsib

The repository is the working copy of a course on wireless network simulation
with ns-2. Most of its files are scenarios, traces and notes; the programs in it
are

* the C++ sources of the TORA routing agent and of IMEP, the layer that carries
  TORA's control packets reliably
  (`src/8_05032019/tora/tora-files+examples/tora-files/`, called **tora-files**
  below; `src/8_05032019/tora/tora_backup_files/` is an older copy of the same),
* the node's interface queue and the packet class that were modified to make
  them run (`src/5_05022019/wfrp_bk_files/`, called **wfrp** below),
* the node construction code in Tcl that wires the agents together (wfrp
  `ns-lib.tcl`, `ns-mobilenode.tcl`), and
* the awk scripts that turn a trace into delivery ratio, delay, throughput and
  energy figures (`performance_analysis.awk` and its relatives).

The rest of ns-2 (scheduler, MAC, `imep.h`, the IMEP link table and timers,
TORA's per-destination tables) is not in the repository. What the modules below
need of it is modelled from how the code here uses it and marked external in
`PROJECT.json`.

## Inventory

| Component | State | Operations | Interacts with |
|---|---|---|---|
| IMEP retransmission queue (`imep.cc` 156-301, 443-508, 584-591, 734-766) | queue of object packets each with a response list, retransmission timer, control sequence number | send an object packet, ACK input, purge on link down, timer | link table (downs links), radio, TORA (link down notices) |
| IMEP resequencing (`imep.cc` 511-611, 788-943) | last sequence number per neighbour, queue of early packets, incoming timer | object input, ACK of an object, chain delivery, hole retirement | radio, TORA (delivers objects, DN/UP notices) |
| IMEP control packets and beacons (`imep.cc` 329-441, 633-726) | ACK, hello and object queues, control and beacon timers | aggregate and transmit, beacon, hello load, queue an object | TORA (objects), radio, link table |
| IMEP link sensing (`imep.cc` 144-153, 674-786; the link table is external) | status of the link to each neighbour | hear a packet, hear a hello that names us, time out | all of the above, TORA |
| TORA routes (`tora.cc` 170-258, 316-714) | per destination: height, route-required flag, neighbours' heights and link directions, up/down counts | QRY, UPD, CLR, link up, link down, route resolution | IMEP (sends and receives objects), data forwarding |
| TORA data path (`tora.cc` 202-372) | queue of data waiting for a route | receive, resolve, forward, flush | link layer, TORA routes |
| Interface queue (wfrp `priqueue.cc`) | bounded packet list, blocked flag | enqueue, priority enqueue, filter, terminate | link layer above, MAC below |
| Packet store (wfrp `packet.h`, `packet.cc`) | free list, reference counts | alloc, free, copy, refcopy | every component |
| Node wiring (wfrp `ns-lib.tcl`, `ns-mobilenode.tcl`) | which agent feeds which | create a node, start IMEP | all |
| Trace format (wfrp `cmu-trace.cc`) | none | format a line | awk scripts read the lines |
| Trace analysis (`performance_analysis.awk`, `eval.awk`, ...) | counters and per-packet times | one line of a trace, END | trace files |
| Scenarios (`*.tcl`), traces, notes | none | run a simulation | ns |

What makes each component correct, in one line:

* retransmission: a packet waits for exactly the neighbours that still owe an
  answer, is sent MAX_REXMITS more times, and then leaves; a wakeup is never
  lost.
* resequencing: TORA sees a neighbour's objects in the order they were sent,
  each once; a gap is always announced as a broken link; nothing waits for ever.
* control packets: what is queued is sent in time, a timer never fires for
  nothing, and a neighbour never has reason to think us gone.
* link sensing: both ends agree on a bidirectional link before TORA uses it.
* routes: heights are totally ordered, so downstream links form no cycle; a
  partition is detected and erased; counters equal what they count.
* data path: a packet is forwarded downstream, queued or dropped, never twice
  and never for ever.
* interface queue: the bound holds, routing packets go first, data keep their
  order.
* packet store: a packet is on the free list or owned, never both.
* trace analysis: the figures printed are those of the trace.

Nothing runs in parallel: the simulator's scheduler runs one event at a time.
What is concurrent is the network: several agents, packets in the air that are
lost, delayed and (by retransmission) duplicated, four timers per agent, and
handlers that call back into other components (a link declared down inside the
retransmission handler purges the queue that handler is looping over).

## The retransmission queue: `ImepRexmit`

The state is one agent's: `link` (the status of the link to each possible
neighbour), `controlSequence`, `rexmitq` (the sequence numbers of the queued
packets), `packet` (the memory of each), `rexmitTimer` (ticks to its expiry) and
`acks`, the ACKs on their way. A packet record has `ob_num_responses` as `num`,
the slots of the response list as `resp`, the queue's transmissions left and the
ticks to the next as `left` and `at`; `age` is a history field.

| Model | Code (`imep.cc`) |
|---|---|
| `SendObject` | `handlerControlTimer` for an object block (384-441), the external `aggregateObjectBlock`, which writes the response list |
| `ScheduleReXmit` | the same (580-592): the deadline of a packet and, if it comes first, of the timer |
| `AckInput` | `imep_ack_input` (734-766) with `removeObjectResponse` (188-240), behind `recv_incoming` |
| `HelloInput` | `imep_hello_input`, `imep_beacon_input` as far as the link status goes |
| `LinkDown` | the external `imepSetLinkDownStatus`, which calls `purgeReXmitQ` (243-301) |
| `RexmitTimeout`, `RexmitSend`, `RexmitIdle` | the three ways through `handlerReXmitTimer` (443-508) |
| `Tick` | the scheduler's clock |

The response list is the memory it is in the code. `SlotOf`, `Without`,
`RemoveResponse` and `PurgeReXmitQ` keep the loop that stops *past* the live
slots and the comparison that follows it; `PuntResponders` keeps the loop over a
list which its own body shortens. A list may be written in any order, since the
link table hands its entries out in an order of its own.

Time is in ticks. `RETRANS_PERIOD` is the period in ticks; the guard of 1 us
against a timer of zero (503-507) is a timer of 0 ticks, which fires before time
moves on. A lost ACK and a lost broadcast look alike here, so both are a
broadcast that is not heard. ACKs are delivered in any order, late, or never.

**What is checked.** `ResponseListsSound`, `RespondersAreNeighbours`,
`TimerCovers`, `LifetimeBounded` (invariants), `ResponsesOnlyShrink`,
`PuntsAfterAllRexmits` (action properties), `PacketsLeave` (liveness).

| Run | Instance | Shows |
|---|---|---|
| `rexmit_queue` | neighbours 0 and 1, two packets out of phase, periods of 2 ticks | timer and lists stay consistent when two packets share the timer and one link down purges both |
| `rexmit_list` | neighbours 0, 1, 2, one packet, two ACKs per neighbour in flight | removals in every order; the packet leaves although each timeout downs only part of its list |
| `rexmit_dupack` | two neighbours, one packet | **finding**: the late ACK of a neighbour taken off the list removes somebody else |
| `rexmit_purge` | two neighbours, one packet | **finding**: a purge removes somebody else |
| `rexmit_punt` | two neighbours, one packet | **finding**: a timeout leaves the packet queued |

Three neighbours are the fewest for which the punting loop neither finishes nor
downs just one of two; two packets the fewest that contend for the timer; a
period of two ticks the least that lets them be out of phase. One retransmission
gives a packet each kind of timeout (one that sends, one that punts). Address 0
is in every instance because unwritten memory reads 0. `MaxAcks` bounds the ACKs
of one packet from one neighbour in flight, `MaxQueue` the packets in the queue.
`SendObject` waits until a sequence number is out of use (packet and ACKs): in
the code 256 numbers make this so, and no property here is about their reuse.

**Fairness.** `PacketsLeave` assumes weak fairness of `Tick` and of
`HandlerReXmitTimer`: the scheduler of the simulator runs every event it holds,
in order of time. Nothing is assumed of ACKs, hellos or the radio.

**Findings.** (1) After the search, line 206 compares the slot one past the live
ones. A removal leaves a stale copy of the neighbour removed last there, so a
late ACK of that neighbour removes the last live responder; the packet is then
no longer repeated to a node that may have missed it. In TLC's trace the link to
neighbour 1 goes down, the purge takes 1 off the list, and 1's first ACK, still on
its way, ends the packet that neighbour 0 has not answered; the second ACK of a
neighbour that answers a retransmission too does the same. (2) Line 270 does the same
in the purge; as unwritten memory is 0, downing the link to node 0 takes a
neighbour off lists that never named node 0. (3) The loop of lines 467-472
counts up over a shrinking list, so it downs the first half only; the packet
stays queued and the handler runs again at once or when its next deadline comes,
until the list is empty. `PacketsLeave`, `LifetimeBounded` and
`PuntsAfterAllRexmits` hold in spite of it; what the loop does do is proved
below.

**What is proved** (`ImepRexmit_proofs`, for every finite set of neighbours and
all values of the other constants): `TypeOK`, `ResponseListsSound`,
`RespondersAreNeighbours`, `TimerCovers`, `LifetimeBounded`,
`PuntsAfterAllRexmits`, `ResponsesOnlyShrink`. The inductive invariant is

    IInv == types /\ MemOK(Mem, Neighbours) /\ Covers(rexmitTimer, Mem)

`MemOK` says of every queued packet that its list is nonempty, free of
duplicates and names only bidirectional neighbours, and that its age is
`(MAX_REXMITS - left) * RETRANS_PERIOD` plus the ticks since the last
transmission. That equation is what turns a count of retransmissions into time
and is needed for both bounds on a packet's life. `Covers` says the timer runs
and is never later than any packet's `at`; it is needed because `Tick` would
otherwise drive `at` below 0. The three operators on memory have a lemma each
(`WithoutOK`, `PurgeOK`, `PuntOK`): soundness for `up` becomes soundness for `up
\ {n}`, which is how a purge keeps the lists inside the neighbours while the
link set shrinks. Freedom from duplicates is what makes one removal enough. The
punting loop is a recursive function; `IterationExists` in `InductionLemmas` (an
induction over a set of naturals) shows that it is one, and `SetInduction`
carries `MemOK` through its turns. The assumptions are `ConstantsAssumption`
only.

Two theorems say how far the findings reach, for lists of any length.
`TimeoutsHalve`: a timeout downs exactly the first half, rounded up, of the
neighbours the packet waits for, halves its list and drops it only if it had
one, so the last of k neighbours is downed by timeout `1 + floor(log2 k)`. Its
proof follows the loop turn by turn (`Halfway`): after turn i the counter has
visited i slots and the list is i shorter, until the two meet.
`RespondersAreRemoved`: the ACK or the lost link of a neighbour on the list
takes off exactly that neighbour, and the packet ends if and only if it was the
last. So findings (1) and (2) are confined to neighbours that are not on the
list. Freedom from duplicates is what both rest on.

`PacketsLeave` is model-checked only: liveness under fairness is beyond the
prover.

## Resequencing: `ImepReseq` and `OrderedLink`

`OrderedLink` is what TORA is promised about one neighbour: while its link entry
lives, object `k + 1` follows object `k`; objects are left out only directly
behind a down notice with its up notice (`Break`). `ImepReseq` is what `imep.cc`
does, and the property `InOrderDelivery` says that it implements `OrderedLink`
(the mapping is the identity on `top` and `upcalls`).

| Model | Code (`imep.cc`) |
|---|---|
| `ObjectInput` | `imep_object_input` (788-867) with `imep_ack_object` (903-943) first, `scheduleIncoming` (593-607) |
| `Reg` | the signed 8-bit difference (813-816) |
| `Chained` | delivery of the packets that follow (855-867) |
| `HandlerIncomingTimer`, `Retired`, `Restarted` | `handlerIncomingTimer` (511-579) |
| `LinkDown` | `imepSetLinkDownStatus` (external) |
| `Send`, `InAir` | the sender's `handlerControlTimer` and retransmissions, and the radio |

Objects are numbered without wrap as history; the code's view of object `n` is
`Seq8(n)`. The sending agent is reduced to the objects it has put on the air: a
copy may be heard any number of times or never, as long as it is at most
`Window` objects old. `Window` stands for what `MAX_RETRANS_TIME` and the
retransmission queue guarantee, and `2 * Window < SeqSpace` is the condition
under which an 8-bit difference means anything. `SeqSpace` is 8 or 10 in the
runs and objects start at 7, so the wrap happens in every run.

Some of the resequencing queue is in `imep.h`, which the repository lacks:

* `getNextPacket` is taken to hand out a source's lowest early object as long as
  one of that source's objects is due. Handing out the due ones only would skip
  objects already acknowledged (that is the mutant of `AnsweredNotSkipped`).
* `LookupWraps` says whether `getPacket` reduces `lastSeq + 1` to 8 bits. With
  `FALSE` the chain delivery stops at the wrap: line 857 passes 256 and the
  object numbered 0 stays queued. A retransmission then takes the direct path,
  the queued copy is handed out later, and the object is delivered twice; TLC
  shows this when `LookupWraps` is set to `FALSE` in `ImepReseq_order.cfg`
  (`QueueAhead` fails when the copy is left behind, `InOrderDelivery` when it is
  handed out).
  Since the parameter's type is not in the repository this is no finding;
  `InOrderDelivery` is checked for `TRUE`, and `HoleTimed`, which must hold
  either way, for `FALSE`.

An object lists us (`listed`) when the sender takes us for a neighbour; only
such an object is answered. The sequence is common to all objects of a sender,
so others are delivered as well.

| Run | Instance | Shows |
|---|---|---|
| `reseq_order` | one source, objects 7 to 11 and late copies of 3 to 6, a space of 10, window 4 | `QueueAhead`, `InOrderDelivery`, `AnsweredNotSkipped`, and that early objects leave |
| `reseq_two` | two sources, window 2, a space of 8, lookup without wrap | `HoleTimed`: the shared timer runs while anybody's object waits |
| `reseq_first` | one source, objects 7 to 9 and late copies of 4 to 6, a space of 8, window 3 | **finding**: an object is answered and ignored though never delivered |

A window of 4 admits two separate holes at a time (the second and the fourth
after the last one delivered), which a retirement has to cross in order. The
link breaks at our end at any time, so old objects arrive on a new link.

**Fairness.** `EarlyObjectsLeave` assumes, per object, weak fairness of the
timeout at which that object is due: the object's own expiry time is finite and
the timer fires for the earliest one.

**Finding.** The first object heard sets `lastSeq` to its predecessor (804-811).
An earlier object whose retransmission is the first copy to get through then has
`reg <= 0` and is dropped, under a comment that says it had been passed up or
declared a hole. In TLC's trace the neighbour sends objects 7 and 8, both of
which list us; 8 is heard first, and when 7 arrives it is acknowledged (line 794),
so the sender stops repeating it, and ignored.

Not covered: `MAX_RETRANS_TIME` against `(MAX_REXMITS + 1) * RETRANS_PERIOD`. A
hole retired while its sender still retransmits loses the object with an
acknowledgement. The two constants are not in the repository; the planned
composition (`Imep` in the plan) will state the relation they need.

**What is proved** (`ImepReseq_proofs`, for every set of neighbours, every
number of objects and every even sequence space of more than two windows). Whatever
`LookupWraps` is: `TypeOK` and `HoleTimed`. With `LookupWraps = TRUE`:
`QueueAhead`, `AnsweredNotSkipped` and the refinement `InOrderDelivery` of
`OrderedLink`. The inductive invariant `Aligned` is `TypeOK` with, per neighbour,
if an object has been heard:

* `lastSeq` is the number of `top`, the last object passed up, modulo the sequence
  space; `sent - top` is at most `Window + 1`; what is queued lies strictly
  between `top` and `sent`. This is what makes the signed comparison exact:
  any object that can still arrive is less than half the sequence space from
  `top` (`RegIs`), and two such objects never share a number (`SeqEqual`).
* `Closed`: the object after `top` is not queued. Between events the chain has
  been drained, so a queue that is not empty has a hole in front of it.
* what was answered is at or below `top`, or queued.

If none has been heard, queue and answers are empty. `Closed` needs the chain to
run to its end; since every turn takes an object out of a finite queue, as many
turns as the queue has members suffice, and the bounded loop of the model (a
recursive function, unrolled by `LoopFamily`) is the code's `while`. The proof
of the retirement loop shows why order survives it: the objects that are due
leave lowest first, each behind a report that the link broke. With
`LookupWraps = FALSE` TLC finds `QueueAhead` and `InOrderDelivery` violated, so
the assumption is needed. `PassedUpOnce` draws the consequence for
retransmissions: what each handler passes up rises above the last object of the
handler before and stays at or below `top`, so no object goes up twice while the
link entry lives, whether its copies come early, late or after a retirement. The
same instance with `LookupWraps = FALSE` violates it at the wrap.

`EarlyObjectsLeave` and the failing run are model-checked only.

## Control packets and beacons: `ImepControl`

| Model | Code (`imep.cc`) |
|---|---|
| `RecvOutgoing`, `Hastened` | `recv_outgoing` (633-672), which shortens a timer that would fire too late |
| `BeaconInput`, `ObjectInput`, `Started` | the external `sendHello` and `sendAck`, which start an idle timer |
| `ControlTimeout` | `handlerControlTimer` (384-441) |
| `BeaconTimeout` | `handlerBeaconTimer` (329-381) |
| `Hear`, `LinkDown` | `recv_incoming`, `imepSetLinkDownStatus` |

A queue of ACKs or hellos is the set of neighbours it addresses, the object
queue is its length. How blocks are packed into packets is left out: both
handlers loop until the queues are empty. Links purged by the beacon timer make
TORA speak, so `BeaconTimeout` may bring new objects before it looks at the
queues.

| Run | Instance | Shows |
|---|---|---|
| `control_timers` | two neighbours (symmetric), beacon period 4, objects delayed by 1 or 2, ACKs and hellos by 1, 3 or 6 | timers match queues; objects are prompt; silence is bounded |
| `control_beacon` | the same | **finding**: a beacon timeout is silent though no hello went out |

The delay of 6 outlasts the beacon period, so that the beacon handler finds a
pending timer it has to cancel. `MaxObjects` bounds the object queue; its two
entries are enough for a second object to find the timer already hastened. No
fairness is used: all properties are safety, "in time" being counted in ticks.

**Finding.** The comment of lines 355-357 says that a period without hellos ends
with a beacon. The code asks whether there is any neighbour instead. A neighbour
first heard (by a packet that is no beacon) after the last load of hellos
suppresses the beacon. The damage is bounded: the hello then loaded makes the
next timeout speak, so silence never exceeds two periods (`SilenceBounded`).

**What is proved** (`ImepControl_proofs`, for every set of neighbours, period
and sets of delays): all five properties of `control_timers`. The inductive
invariant adds two facts to them: a queue without objects has not waited
(`WaitedInv`), and

    silence <= BEACON_PERIOD + elapsed  /\  (helloQueue = {} => silence <= elapsed)

with `elapsed` the ticks since the last beacon timeout. The second conjunct is
why silence is bounded: a beacon timeout is silent only if it leaves a hello for
a neighbour behind, and with one queued the next timeout cannot be silent.

## TORA routes: `Tora`

One destination, any number of routers. The state is what a router keeps for the
destination (`dst[i]`: height, route-required flag, the counts of links up and
down, what it has heard of each neighbour), the neighbours IMEP has reported
(`links`), the messages on their way (`chan`), the pairs of nodes in range
(`air`) and the routers with packets that wait (`waiting`). Heights are
five-tuples of integers in lexicographic order.

| Model | Code (`tora.cc`) |
|---|---|
| `DstAdd`, `Td` | `dst_add`, `dst_find` (159-187): the table a handler adds before it does anything else |
| `RtResolve` | `rt_resolve` (229-259) |
| `RecvQRY`, `RecvUPD`, `RecvCLR` | the same (379-438, 444-600, 606-701), one disjunct per case, the cases named as in the code's comments |
| `Handled`, `Flushed` | the common end, `recvTORA` (316-372) |
| `RtNotifyLinkUP`, `RtNotifyLinkDN` | the upcalls of IMEP, whether the neighbour has left or not |
| `Left` | what IMEP gives up with a link (`imep.cc` 243-301, 529-568) |
| `Say` | messages sent, to the neighbours and whoever overhears them |
| `Erased`, `Forgotten` | the loops that write heights and directions by hand (525-552, 665-675) |
| `UpdateHeight`, `UpdateHeightNb`, `LinkStatus`, `Added`, `Removed` | the tables (`TORADest`, `TORANeighbor`), external |
| `Break`, `Appear` | nodes move |

`tora_dest.cc`, `tora_neighbor.cc` and the upcalls' bodies are not in the
repository; what they do is taken from how `tora.cc` uses them. Messages between
two neighbours keep their order, which is what `OrderedLink` promises and
`ImepReseq` implements. `Prompt` only bounds channels: a full one is served
first. The clock has no bound.

**Links at one end.** IMEP reports a link down at either end alone, and not only
when the neighbour has gone. `handlerReXmitTimer` gives up a neighbour that does
not answer (`imep.cc` 467-472), and `handlerIncomingTimer` one whose object is
missing for too long; the latter reports the link up again at once and delivers
what the neighbour had sent meanwhile (536-554). Its comment argues that "we're
sure the packet's sender must have timed us out" (538), but nothing tells TORA at
the other end. So `RtNotifyLinkDN` is enabled for every link, broken or not. Of
what the neighbour has sent, the first messages may be lost, the others arrive
later, on the link that is up again; of what is on its way to it, the last may be
given up (`Left`). A node in range hears a message even if it is not listed as a
neighbour (`Say`), since objects are broadcast.

Under such links TORA alone cannot keep routes free of loops, and TLC shows how,
in 11 states, if `NoCycle` has no exception. Router 1 gives up the living link to 2,
has its route from 0, and its UPD is overheard by 2. Router 2 routes through 1, and
its own UPD is on the way to 1. Then 1 gives up the link to 0 too and erases its
height, with nobody to tell. The links come up again, 1 hears the UPD that was
pending, and 1 and 2 lead to each other. What the properties say is how far this goes, by two
history variables that mark where a router cannot know better, and are exact
everywhere else:

* `missed` holds `<<k, i>>` when `k`'s height has changed, `i` will not hear of it
  and still goes by what `k` said before: `k` had given up the link to `i`, or `i`
  lost the message with the link, or `k` erased its height on a CLR and told
  nobody, having one link only (`tora.cc` 644-648). The pair is removed as soon as
  `k` tells `i` a height, or `i` holds nothing of `k`.
* `blurred`: `recvCLR` clears links without recounting (629-642, 665-675), so the
  counts of that router are too high until the next full update. A router with
  a height never counts too *few* links (`Over`); a count too high makes it
  react late to the loss of its last downstream link, hence the exception in
  `Sink`.

| Property | Says |
|---|---|
| `TypeOK` | the table holds the neighbours IMEP has reported, no more and no fewer |
| `StatusAgrees` | each link's direction is the one the two heights give |
| `CountersExact` | `num_up`, `num_down` are counts, except at blurred routers |
| `KnownHeights` | a neighbour's height is known exactly or not at all, once what tells it has arrived, unless its last change was missed |
| `NoCycle` | at rest, every cycle of downstream links passes from a router to one whose last change it missed |
| `PartitionErased` | at rest, routers without a way to the destination have no height, unless one of them is blurred or missed a change of another |
| `Sink` | at every moment, a router with a height has a next hop |
| `WaitForRoute` | packets wait only where there is a next hop or a query is pending |
| `Settles` | the exchange of messages comes to an end |

`tora_routes` checks all of them: three routers and the destination in a line, or
two of them in a ring through it and one apart, two queries (`MaxAsked`) and any
two moves (`MaxMoves`). A move is a link that breaks or appears, of the three in
`Spots`, or any link that is given up at one end while it lives.
Three routers are the fewest that have a partition with two routers in it, which is
where reflected levels and the CLR come from; two moves break the network and
mend it, break both sides of the ring, or give up two living links, which is
the loop above. `MaxFlight = 2` lets a message overtake the change of a link.
564,000 states; with a ring of four in place of the second topology (933,000 states)
the properties hold as well.

All three exceptions are needed: TLC finds `KnownHeights`, `NoCycle` and
`PartitionErased` violated without `missed`, and `PartitionErased` without
`blurred`.

`Settles` needs no fairness: it says that there is no infinite exchange, not that
a pending step is taken. As the clock is not bounded, an endless succession of new
reference levels would be a counterexample, and there is none. `Settles` fails
without II,A,1 of `recvUPD` (499-508), which answers only the first time: without the
early return two routers without heights tell each other so for ever (the mutant).

Observed while modelling, and in the properties where they matter: `recvQRY` may
adopt a height although the comment in `recvTORA` (334) says queries do not
change routing state; `MinQueryRate` (`tora.h` 67) is used nowhere; a link up to
the destination itself does not flush waiting packets, they leave with the next
message (the first disjunct of `WaitForRoute`); `tora.h` 94 declares an `index`
that hides the base class's and is never initialised; the search of line 581
cannot come back empty-handed, since a positive `num_up` implies a neighbour with
a height (`Over` and `Agree`, proved).

**What is proved** (`ToraHeights_proofs`, `Tora_proofs`, `ToraLoops_proofs`, for
any finite set of routers and without bounds on time, links or channels): all of
the table except `Settles`. The argument has three layers.

1. `ToraHeights_proofs` treats heights and tables as data. `Lower` is a strict
   order; every operator on tables (`UpdateHeight`, `UpdateHeightNb`, `Told`,
   `Nulled`, `Erased`, `Forgotten`, `Added`, `Removed`, `NewLevel`, ...) takes a
   sound table to a sound one. A table is sound (`TableOK`) when it is well
   typed, its heights are above the destination's and not of the future
   (`Valid`), its directions agree with its heights (`Agree`) and it counts no
   link too few (`Over`). That heights stay above the destination's is what makes
   the link to the destination downstream; that no height is of the future is
   what makes a new reference level the highest, so that *all* links of a router
   that defines one are downstream.
2. `Tora_proofs` gives each handler's outcome: a sound table, which is exact and
   has a next hop (`Good`) unless the router is blurred, and an honest answer
   (`Honest`: nothing new, its height, or that it has none). The inductive
   invariant is `Inv == TablesOK /\ ChannelsOK`; the messages on their way must be
   in it because a height told is a height adopted.
   `WaitForRoute` (theorem `PacketsAskForRoute`) needs more than that, since the
   counts are inexact where a CLR has blurred them (`WaitOK`). A router without a
   height counts no link up; one with a height that counts no link down counts
   none up and has heard no height (`Counted`). And the router of a waiting
   packet has asked, and if it has a height it counts no link up, or more links
   down than it has (`Owed`): so when it loses its last downstream link, either
   the count has not run out or there is nothing to reflect, and no new reference
   level takes the request back. `Counted` also shows that the branch of
   `recvCLR` that defines a new level (683-692) is dead: `ClearsTakeNoLevel`.
3. `ToraLoops_proofs` adds what a router knows of its neighbours. `Pair(k, i)`
   says, unless `<<k, i>>` is in `missed`: the last message but queries on its way
   from `k` to `i` tells `k`'s height, and if there is none then `i` holds that
   height or nothing. It says so for any two routers, neighbours or not, and this
   carries it over links that go down and up at one end: what is lost with the
   link is a beginning of what was to come, which leaves the last message in
   place, or an end of it, and then the pair is in `missed`. `StepPairs` is the
   step of any router, of which each handler is a case. `KnownHeights` follows at
   once (`HeightsTold`). `LoopFree` follows since of any finite set of routers one
   has the least height, and downstream leads lower where nothing was missed
   (`LowestLeadsOut`). The same argument gives `PartitionsErased`: of the routers
   with heights in a part that is cut off, the lowest would have a next hop, whose
   height is lower, which is in the same part, and which has a height since at rest
   heights are known exactly. `RoutesArrive` says what loop freedom is for: at rest
   a packet that follows next hops, whichever of them, visits no router twice (what
   lies between two visits would be a cycle) and never lacks a next hop, so it comes
   to the destination, or to a router with an exception, after no more hops than
   there are routers.

Assumptions: `AddressAssumption` and `NoSelfAssumption`, nothing about the order in
which IMEP reports links. `Settles` is liveness and model-checked only.

## The data path: `DataPath`

`DataPath` follows data packets from the agent through TORA, IMEP, the trace
objects, the interface queue and the air to the next node, while a second kind of
packet (routing or ARP) competes for the queue, nodes run out of energy, routes
come and go and links are lost. Handlers pass packets on by calls, so an action
runs until the packet rests; the handlers are operators on a record of all they
may change. Its parts are modules without variables:

| Module | Models |
|---|---|
| `PacketPool` | `Packet::alloc`, `copy`, `refcopy`, `free` (wfrp `packet.h` 487-822) |
| `PriQueue` | `recv`, `recvHighPriority`, `filter`, `Terminate` (wfrp `priqueue.cc`); `DropTail` is external |
| `PacketTypes` | the table of packet types and the chain of classifiers: `initName`, `addPacket`, `addPacketClassifier`, `getType`, `classify` (wfrp `packet.h` 213-432, `packet.cc`) |
| `CmuTrace` | which token stands in which column, for every packet type and layout (wfrp `cmu-trace.cc`), the energy guard and nam's colours |
| `TraceAnalysis` | `performance_analysis.awk`, line by line |
| `Delivery` | the abstract promise: each packet is started, in transit, and delivered once or lost |

| Model | Code |
|---|---|
| `Originate`, `Receive` | a packet from the agent or from below, through `CMUTrace::recv`, `imepAgent::recv` (613-631) and `toraAgent::recv` (265-314) |
| `Forward`, `RtResolve` | the same (`tora.cc` 202-259) |
| `Flush`, `Release` | the loop of `recvTORA` (355-371) and the delayed packets it schedules |
| `Expire` | the purge of `rqueue` (external) |
| `Transmit` | MAC and channel: a copy arrives, or nothing |
| `LinkLost`, `Reset` | `PriQueue::filter`, `toraAgent::reset` and `PriQueue::Terminate` |
| `Tap`, `Untap` | somebody else's `refcopy` and `free` |
| `Load` | dynamic libraries register a packet type and its classifier before the simulation |

The next hop TORA finds is any neighbour or none. That is more than module
`Tora` allows, so what holds here holds under every route it may find, loops
included, and the two modules need not be multiplied.

`node_data` has two data packets, five nodes and three slots in the pool, so that
allocation and reuse occur. From both sources a packet can take three hops. A TTL of
3 is the least that lets a packet come back to its source *and* run out: a packet
never goes straight back, so the shortest way home has three hops. Node 0 is among
the nodes because `prev_hop_` is 0 in a fresh packet. The limit of the queue is 2 at
most nodes, where it is reached at once, and 3 at node 2, where two packets wait
behind the one the MAC holds: data that has come from node 1, and up to two other
packets of that node (`MaxOthers`), an AODV message, which goes in front, and an ARP
request, which does not. Libraries are loaded first, in both kinds of build (below).
332,000 states; no fairness, all properties are safety.

| Property | Says |
|---|---|
| `OnePlace` | references to a packet number `ref_count + 1`, free packets are on the list once |
| `QueueSound` | bound, routing packets in front, no packet waits for an idle MAC |
| `HeadersTrue` | the IP header is added once; TTL and `num_forwards` tell the same hops |
| `DirectionTrue` | `imepAgent::recv` tells up from down correctly by `prev_hop_` |
| `LoopsOnly` | no packet goes straight back, and none is dropped as a loop that is none, but for the case below |
| `CountsTrue`, `DelaysTrue` | the script's counts, bytes and delays are those of the packets |
| `ScreenTrue` | nam's colour of a node is the lowest level any trace object has seen |
| `TypesSound` | if `initName` reads the `PT_NTYPE` that `addPacket` writes, a library's type has a number of its own and the class its own classifier gives it; if not, all libraries share one, and whose name and class it has |
| `Promised` | the run implements `Delivery!Spec` |

`Promised` is a refinement: `transit`, `delivered` and `lost` of `Delivery` are
computed from the places packets are in, and every step maps to a start, a
delivery, a loss or a stutter. No order is promised: packets flushed with delays
are overtaken by later ones.

What the properties had to make exceptions for, and what they say of the code:

* `alloc` leaves `prev_hop_` 0, so a source whose next hop is node 0 drops its own
  packet as a loop (`LoopsOnly`).
* `size` includes the IP header from the first hop on, so the script's throughput
  counts it (`CountsTrue`); a packet started on a dead node is not counted as sent
  (`mute`).
* ARP lines have their target in the column the script takes for a packet number,
  and may take a delay out of the average (`clashed`).
* Dead nodes never turn black: the trace of a node without energy writes nothing
  (`ScreenTrue`).
* The list of preferred types lacks `PT_IMEP`, and TORA's messages always travel
  in IMEP packets: in these scenarios the queue prefers none of them. The run uses
  AODV, which is on the list, for a preferred packet.
* `PT_NTYPE` is a static variable of a header (`packet.h` 203), so every translation
  unit has its own. `addPacket` (`packet.cc`) writes that of its own unit; which one
  `initName`, a member function defined in the class and so one function of the
  program, has been compiled to read is the linker's choice. `Init` chooses
  (`ours`). If it is another one, `initName` finds the table long enough for ever,
  and each library takes the number of the one before.
* A unit that asks for a type with its own, stale `PT_NTYPE` (`GetType`'s last
  parameter) still finds what has been added; only for a name it does not know it
  answers with a number that may be somebody's.
* `performance_analysis.awk` sets `start_t` (44) just before it asks whether it is
  unset (57), so the branch that records the initial energy never runs; `pdf.awk`
  never records an end, since the send line raises the number it compares with.

**What is proved** (`DataPath_proofs`): all of the table, for any set
of nodes, neighbours, data and other packets, any TTL, pool, limit of the queue
and libraries. The run needs a loop of three hops and a
pool of three slots to reach its cases; the theorems say that nothing depends on
those numbers. The inductive invariant `IInv` is the invariant `WOK` of the world
(the record of what a handler may change) together with `Once`: no two stored
packets are copies of one data packet. The parts of `WOK` hold each other up:

* `Owned`: the packets in use are those in hand, in a *cell* (a queue, a MAC, the
  delayed packets or the air of one node) or tapped; cells share none, and the
  reference count is 1 for a packet both tapped and stored, else 0. This is
  `OnePlace` made inductive.
* `Fits`: what the header of a packet says is fixed by the kind of cell it is in.
  In the air TTL and hops add up to `DefTTL + 1` and `prev_hop_` is the node it
  came from; in a route queue to `DefTTL`; below TORA `prev_hop_` is the node
  itself and the next hop is not where it came from. `HeadersTrue`,
  `DirectionTrue` and `LoopsOnly` are read off it.
* `Logged`: the number of a packet that still has a line to come belongs to a
  data packet in the trace which nobody has received, or to none. Without it
  nothing excludes that a later line overwrites the time of an end, so
  `DelaysTrue` needs it; and it is why nothing is counted as received twice.
* `Ordered` and `Queued`: each queue holds a packet once, within its limit,
  preferred ones first, and is empty if the MAC is idle.
* `Summed`: what the script has read; `Painted`: the colours, which must also be
  no lower than the levels of the energy left.

A handler passes packets on by calls, and so does the proof: each operator on
worlds (`Freed`, `Dropped`, `TraceRecv`, `IfqRecv`, `Forward`, `ToraRecv`,
`ImepRecv`, `Flushed`, ...) has a lemma that takes a world which satisfies `WOK`
with a set of packets in hand to one that satisfies it with fewer; an action is
then a chain of lemmas that ends with empty hands. The folds (dropping all of a
queue, flushing it) are recursive functions, and their lemmas go by induction over
the packets left (`InductionLemmas`). What a step does to the abstract promise
comes out of the same lemmas: they also say which packets it received or let go,
so each step is a start, a delivery, a loss or none, and the refinement
`PromiseKept` follows. `TypesStaySound` has an invariant of its own for each build,
the table after `n` libraries: `Table`, with a number for each, and `Shared`, with
one number for all.

The assumptions are those of the modules: `DataPathAssumption` (addresses and
packet numbers are natural numbers, no node neighbours itself, no data packet
starts at its target), `QLimAssumption` (limits of two at least, since
a queue with less drops whatever it is given) and `LibraryAssumption` (library types
have names of their own).

What the script finds in a column is a matter of formats, not of state, and so a
lemma and no property: in every line a node may write, whatever its packet, MAC and
model of energy, the columns are those the scripts take them for (`NoneMisplaced`).
A line is put together from a head (`FormatMacCommon`), the IP header and the part
of the packet's type; the lemmas place each column by the lengths of the parts
before it (`Head29`, `RoutedColumns`, `OldBodies`). The columns of which the counts
and delays are made come out of the same lemmas (`Columns`).

## The plan

Done: the four IMEP and TORA state machines, the data path with queue, store,
trace and analysis, and the proofs named above. Left, in this order:

1. `ImepAdjacency`: two agents find a bidirectional link (`imep_ack_input`,
   `imep_hello_input`), which would bound how unlike the two ends of a link can
   be, and so how long a change can be missed.
2. `Imep`: one sender with `ImepRexmit` and one receiver with `ImepReseq`, for
   the relation between MAX_RETRANS_TIME and the retransmissions.

## What is not modelled

* `Scenarios and traces`, notes: input and output of runs, no logic.
* The backup copies: older or unpatched versions of the files modelled.
* Of the queue, `filter` by a predicate, which nothing calls; of the trace, the
  text of nam's packet records, the broadcast radius and plug-in tracers; of the
  scripts, averages, energy sums and the division by zero of an empty trace.
* Statistics counters, `dumpResponseList` and the wording of trace messages.
* The payload of objects and how blocks share a packet.
* Node wiring in Tcl as such: it runs once, before the first event, and fixes
  the composition `DataPath` has.
* The MAC, the scheduler, the link table, timers and TORA's tables, which the
  repository does not contain; they enter as external definitions.
* Two agents agreeing on a link (`ImepAdjacency`), and MAX_RETRANS_TIME against
  `(MAX_REXMITS + 1) * RETRANS_PERIOD` (the constants are in `imep.h`).

Out of the prover's reach, and model-checked only: liveness (`PacketsLeave`,
`EarlyObjectsLeave`, `Settles`). Every other property of a passing run is a
theorem. The properties of the failing runs are false, and stay with TLC for
that reason.

## Running

    tlc -config Tora_routes.cfg MCTora.tla
    tlapm ToraLoops_proofs.tla

Each configuration is named after the module it instantiates through its `MC`
module; `PROJECT.json` lists the runs, the source lines of every definition, the
hazards with the properties that cover them, and for each property a mutation of
the code that breaks it.
