---------------------------- MODULE MCSharedIndex ---------------------------
(* Values of the constants of SharedIndex for TLC. *)
EXTENDS SharedIndex

Docs == {"d1", "d2", "d3"}
Terms3 == 1..3

\* A document goes ahead of, between or behind the others, or is sent again.
Names == {[d1 |-> a, d2 |-> b, d3 |-> c] : <<a, b, c>> \in
            {<<2, 3, 1>>, <<1, 3, 2>>, <<3, 1, 2>>, <<2, 1, 3>>, <<1, 2, 2>>,
             <<1, 2, 1>>, <<2, 1, 2>>}}

\* One client that sends three documents, one after the other.
OneClient == [d \in Docs |->
  CASE d = "d1" -> {} [] d = "d2" -> {"d1"} [] d = "d3" -> {"d1", "d2"}]

\* Terms ahead of, between, behind and among those that are there.
Parts == {{1, 3}, {2, 3}}

\* Counts whose sums tell the documents apart.
Counts == [d \in Docs |-> [t \in Terms3 |->
  CASE d = "d1" -> 1 [] d = "d2" -> 2 [] d = "d3" -> 4]]
=============================================================================
