------------------------------- MODULE Delivery -------------------------------
(***************************************************************************)
(* What the nodes promise about data packets: a packet that was sent is on *)
(* its way in one place, and then it is delivered, or it is lost for good. *)
(* Nothing is delivered twice, or after it was lost, or unsent.            *)
(***************************************************************************)
CONSTANT Uids

VARIABLES transit, delivered, lost

Init == transit = {} /\ delivered = {} /\ lost = {}

New(u) == u \notin transit \cup delivered \cup lost

Send(u) ==
  /\ New(u)
  /\ transit' = transit \cup {u}
  /\ UNCHANGED <<delivered, lost>>

(* Dropped where it started.                                               *)
Refuse(u) ==
  /\ New(u)
  /\ lost' = lost \cup {u}
  /\ UNCHANGED <<transit, delivered>>

Deliver(u) ==
  /\ u \in transit
  /\ transit' = transit \ {u}
  /\ delivered' = delivered \cup {u}
  /\ UNCHANGED lost

Lose(S) ==
  /\ S # {} /\ S \subseteq transit
  /\ transit' = transit \ S
  /\ lost' = lost \cup S
  /\ UNCHANGED delivered

Next ==
  \/ \E u \in Uids : Send(u) \/ Refuse(u) \/ Deliver(u)
  \/ \E S \in SUBSET Uids : Lose(S)

Spec == Init /\ [][Next]_<<transit, delivered, lost>>
=============================================================================
