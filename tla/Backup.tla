------------------------------- MODULE Backup -------------------------------
(***************************************************************************)
(* What cloud sync promises, without leases, processes or retries.  Every  *)
(* recording gets at most one remote path, for good and for itself alone;  *)
(* whatever is stored there is its own upload; and a recording is reported *)
(* synced only while its upload is there, and from then on for ever.       *)
(***************************************************************************)
CONSTANTS Recordings, Paths, NoPath, Nothing

VARIABLES
  place,      \* the remote path of each recording
  stored,     \* the recording whose upload is stored at each path
  confirmed   \* recordings reported as synced

vars == <<place, stored, confirmed>>

Init ==
  /\ place = [r \in Recordings |-> NoPath]
  /\ stored = [p \in Paths |-> Nothing]
  /\ confirmed = {}

Reserve(r) ==
  /\ place[r] = NoPath
  /\ \E p \in Paths :
       /\ \A q \in Recordings : place[q] # p
       /\ place' = [place EXCEPT ![r] = p]
  /\ UNCHANGED <<stored, confirmed>>

Upload(r) ==
  /\ place[r] # NoPath
  /\ stored' = [stored EXCEPT ![place[r]] = r]
  /\ UNCHANGED <<place, confirmed>>

Confirm(r) ==
  /\ place[r] # NoPath
  /\ stored[place[r]] = r
  /\ confirmed' = confirmed \cup {r}
  /\ UNCHANGED <<place, stored>>

Next == \E r \in Recordings : Reserve(r) \/ Upload(r) \/ Confirm(r)

Spec == Init /\ [][Next]_vars

=============================================================================
