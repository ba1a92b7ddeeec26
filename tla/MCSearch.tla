------------------------------ MODULE MCSearch ------------------------------
(* Values of the constants of Search for TLC. *)
EXTENDS Search

Terms == 1..3
Docs == 1..3

\* Counts whose sums tell the terms and the documents apart.
Counts == [t \in Terms |-> [d \in Docs |-> d + 4 ^ t]]

\* The second line of some answers ends the buffer to the byte.
NameLens == <<49, 46, 20>>
=============================================================================
