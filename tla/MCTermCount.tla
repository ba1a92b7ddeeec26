---------------------------- MODULE MCTermCount -----------------------------
(* Values of the constants of TermCount for TLC. *)
EXTENDS TermCount

Terms == 1..3
=============================================================================
