---------------------------- MODULE MCImepReseq ----------------------------
(* Instances of ImepReseq: one source around the wrap of its sequence      *)
(* space, or two sources that share the incoming timer.                    *)
EXTENDS ImepReseq

CONSTANTS n1, n2   \* two neighbours

OneSource  == {n1}
TwoSources == {n1, n2}
NearWrap   == {7}
=============================================================================
