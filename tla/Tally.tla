------------------------------- MODULE Tally --------------------------------
(***************************************************************************)
(* What counting a document in parts promises.  Each part has a tally of   *)
(* its own, which grows word by word; and a part's tally is added to the   *)
(* total as a whole, and once: no count is lost, invented or added twice.  *)
(***************************************************************************)
EXTENDS Naturals

CONSTANTS Term, Part

VARIABLES
  total,  \* total[t]: how often t is counted in the parts added so far
  own     \* own[k][t]: how often t is counted in part k, not yet added

Nothing == [t \in Term |-> 0]

Init ==
  /\ total = Nothing
  /\ own = [k \in Part |-> Nothing]

Count(k, t) ==
  /\ own' = [own EXCEPT ![k][t] = @ + 1]
  /\ total' = total

Add(k) ==
  /\ total' = [t \in Term |-> total[t] + own[k][t]]
  /\ own' = [own EXCEPT ![k] = Nothing]

Next == \E k \in Part : Add(k) \/ \E t \in Term : Count(k, t)

Spec == Init /\ [][Next]_<<total, own>>
=============================================================================
