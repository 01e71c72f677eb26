---------------------------- MODULE MCAdminCard ----------------------------
(* Instances of AdminCard for TLC. *)
EXTENDS AdminCard

CONSTANTS r1, r2, q1, q2, t1, t2

=============================================================================
