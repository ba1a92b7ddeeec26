---------------------------- MODULE MCIndexUpdate ---------------------------
(* Symmetry and bounds of IndexUpdate for TLC. *)
EXTENDS IndexUpdate, TLC

CONSTANTS c1, c2, c3, d1, d2, d3, q1

Interchangeable == Permutations(Node) \cup Permutations(Doc)

\* Not followed: what cnodes do after the server died, for they have no effect
\* on one another, and what comes after two adds have overlapped, of which the
\* properties say nothing.
Sound == server = "running" /\ ~crossed
=============================================================================
