----------------------------- MODULE OrderedLink -----------------------------
(***************************************************************************)
(* What IMEP promises the routing protocol about the objects of one        *)
(* neighbour: while the neighbour's link entry lives, objects are passed   *)
(* up one by one in the order they were sent; objects are left out only    *)
(* directly after the link has been reported down and up again.            *)
(***************************************************************************)
EXTENDS Integers, Sequences

CONSTANT Sources     \* the neighbours objects come from

VARIABLES
  top,      \* number of the last object passed up, NoTop before the first
  upcalls   \* what the last step passed up: object numbers and Breaks

NoTop == -2
Break == -1          \* rtNotifyLinkDN followed by rtNotifyLinkUP

(* The object passed up last when the first i upcalls have been made.      *)
LastOf(t, up, i) ==
  LET objects == {j \in 1 .. i : up[j] # Break}
  IN  IF objects = {} THEN t
      ELSE up[CHOOSE j \in objects : \A k \in objects : k <= j]

InOrder(t, up) ==
  \A i \in 1 .. Len(up) :
    up[i] # Break =>
      LET before == LastOf(t, up, i - 1)
      IN  \/ before = NoTop
          \/ up[i] = before + 1
          \/ i > 1 /\ up[i - 1] = Break /\ up[i] > before + 1

Init == /\ top = [n \in Sources |-> NoTop]
        /\ upcalls = [n \in Sources |-> <<>>]

(* One handler of the agent: it passes something up from each source, or   *)
(* nothing, or a source's link entry is destroyed and the order starts     *)
(* afresh.                                                                 *)
Handle ==
  \A n \in Sources :
    \/ top'[n] = NoTop /\ upcalls'[n] = <<>>
    \/ /\ InOrder(top[n], upcalls'[n])
       /\ top'[n] = LastOf(top[n], upcalls'[n], Len(upcalls'[n]))

Spec == Init /\ [][Handle]_<<top, upcalls>>

=============================================================================
