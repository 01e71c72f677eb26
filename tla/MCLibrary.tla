----------------------------- MODULE MCLibrary -----------------------------
(* Instances of Library for TLC. *)
EXTENDS Library

CONSTANTS s1, p1

\* Three pages of everything, two of the search, none of the choice.
MCSize == [f \in Filters |->
  IF f = NoFilter THEN 3 ELSE IF f.pick = NoPick THEN 2 ELSE 0]

=============================================================================
