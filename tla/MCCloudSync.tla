---------------------------- MODULE MCCloudSync ----------------------------
(* Instances of CloudSync for TLC. *)
EXTENDS CloudSync, TLC

CONSTANTS r1, r2, o1, o2, c1, c2, w1, w2, base, alt

\* Two recordings that render the same path differ after the suffix, and the
\* suffixed path is one that another title can render.
MCSuffix == [x \in Rendered \X Recordings |-> IF x[1] = base THEN alt ELSE base]

Symmetric ==
  Permutations(Recordings) \cup Permutations(Owners)
    \cup Permutations(Calls) \cup Permutations(Workers)

=============================================================================
