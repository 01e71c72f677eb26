-------------------------- MODULE MCRecordingPage --------------------------
(* Instances of RecordingPage for TLC. *)
EXTENDS RecordingPage, TLC

CONSTANTS i1, i2, t1, t2, q1, q2

ItemsAndTextsAlike ==
  Permutations({i1, i2}) \cup Permutations({t1, t2}) \cup Permutations({q1, q2})

=============================================================================
