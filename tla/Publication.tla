---------------------------- MODULE Publication ----------------------------
(***************************************************************************)
(* What processing promises, without a worker pool, stages, time or        *)
(* recovery.  A recording is worked on by one worker at a time, which may  *)
(* give up at any moment; only who works on it changes its media; and it   *)
(* is published once and for all, with media that are there, and with an   *)
(* explanation if some that a player needs are missing.                    *)
(***************************************************************************)
CONSTANTS Recordings, Products, Needed

VARIABLES
  working,     \* the recordings worked on
  media,       \* what each recording has on disk, complete
  published    \* what the players are offered of each

vars == <<working, media, published>>

Unpublished == [offered |-> {}, explained |-> FALSE]

Init ==
  /\ working = {}
  /\ media = [r \in Recordings |-> {}]
  /\ published = [r \in Recordings |-> Unpublished]

Begin(r) ==
  /\ r \notin working
  /\ published[r] = Unpublished
  /\ working' = working \cup {r}
  /\ UNCHANGED <<media, published>>

Change(r) ==
  /\ r \in working
  /\ \E a \in Products :
       media' \in {[media EXCEPT ![r] = @ \cup {a}], [media EXCEPT ![r] = @ \ {a}]}
  /\ UNCHANGED <<working, published>>

Publish(r) ==
  /\ r \in working
  /\ working' = working \ {r}
  /\ \E S \in SUBSET media[r], explained \in BOOLEAN :
       /\ Needed \subseteq S \/ explained
       /\ published' = [published EXCEPT ![r] =
                          [offered |-> S, explained |-> explained]]
  /\ UNCHANGED media

\* Some workers end without a result: one, or all with their process.
Abandon ==
  /\ \E gone \in SUBSET working : working' = working \ gone
  /\ UNCHANGED <<media, published>>

Next ==
  \/ \E r \in Recordings : Begin(r) \/ Change(r) \/ Publish(r)
  \/ Abandon

Spec == Init /\ [][Next]_vars

=============================================================================
