------------------------------ MODULE MCTitles ------------------------------
(* Instances of Titles for TLC. *)
EXTENDS Titles

CONSTANTS r1, r2, r3, d1, d2, name

=============================================================================
