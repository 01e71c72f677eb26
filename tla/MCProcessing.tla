---------------------------- MODULE MCProcessing ----------------------------
(* Instances of Processing for TLC. *)
EXTENDS Processing, TLC

CONSTANTS r1, r2, j1, j2

\* Recordings of one media type are alike, and so are the slots.
Symmetric ==
  Permutations(Videos) \cup Permutations(Recordings \ Videos)
    \cup Permutations(Jobs)

=============================================================================
