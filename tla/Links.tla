-------------------------------- MODULE Links -------------------------------
(***************************************************************************)
(* The linked lists of data_operation.c: nodes on a heap, with a next and a *)
(* pre.                                                                    *)
(***************************************************************************)
EXTENDS Naturals, Sequences, FiniteSets

CONSTANT NULL

\* The list that starts at x, along next.  (Links in a circle bring nodes twice.)
Chain(next, x) ==
  LET most == 1 + Cardinality(DOMAIN next)
      walk[j \in 0..most] ==
        [y \in DOMAIN next \cup {NULL} |->
           IF y = NULL \/ j = 0 THEN <<>> ELSE <<y>> \o walk[j - 1][next[y]]]
  IN walk[most][x]
=============================================================================
