------------------------------ MODULE SyncStore ------------------------------
(***************************************************************************)
(* The table cloud_sync_state and the SQL statements of                    *)
(* internal/cloudsync/repository.go that change it.  One row per tracked   *)
(* recording, the lease and the backoff kept in the row.                   *)
(*                                                                         *)
(* Time is abstracted to the two comparisons with now() the statements     *)
(* make: leased is "lease_expires_at >= now()" and due is                  *)
(* "next_attempt_at IS NULL OR next_attempt_at <= now()".  The passing of  *)
(* time is an action that flips one of them (LeaseExpires,                 *)
(* BackoffElapses), so a lease may run out at any moment after its last    *)
(* renewal and no property depends on the length of a TTL.                 *)
(***************************************************************************)
EXTENDS Naturals

CONSTANTS
  Recordings,    \* recording ids
  Paths,         \* remote paths
  NoPath,        \* the path of a recording that has no row
  Owners,        \* lease owners: one fresh UUID per service instance
  NoOwner,       \* lease_owner IS NULL
  MaxAttempts    \* CLOUD_SYNC_MAX_ATTEMPTS

ASSUME StoreAssumption ==
  /\ NoPath \notin Paths
  /\ NoOwner \notin Owners
  /\ MaxAttempts \in Nat

VARIABLE row     \* cloud_sync_state

\* The statuses of the table's CHECK constraint, and "untracked" for no row.
Status == {"untracked", "pending", "syncing", "synced", "error"}

\* error_class: NULL or a member of the closed vocabulary the code writes.
ErrorClass ==
  {"none", "local_missing", "copy_failed", "verify_failed", "lease_expired"}

Row == [status : Status, path : Paths \cup {NoPath}, attempts : Nat,
        due : BOOLEAN, owner : Owners \cup {NoOwner}, leased : BOOLEAN,
        class : ErrorClass]

Untracked == [status |-> "untracked", path |-> NoPath, attempts |-> 0,
              due |-> TRUE, owner |-> NoOwner, leased |-> FALSE,
              class |-> "none"]

StoreInit == row = [r \in Recordings |-> Untracked]

StoreTypeOK == row \in [Recordings -> Row]

Tracked(r) == row[r].status # "untracked"

\* Bug form: a failed row gives its path up.
PathTakenUnlessFailed(p) ==
  \E q \in Recordings : row[q].path = p /\ row[q].status # "error"

\* Bug form: the unique index covers synced rows only.
PathTakenBySynced(p) ==
  \E q \in Recordings : row[q].path = p /\ row[q].status = "synced"

\* UNIQUE (remote_path), which rows of soft-deleted recordings hold too.
PathTaken(p) == \E q \in Recordings : row[q].path = p

\* Bug form: recovery leaves exhausted rows alone.
LeaseRanOutBelowLimit(r) ==
  row[r].status = "syncing" /\ ~row[r].leased /\ row[r].attempts < MaxAttempts

LeaseRanOut(r) == row[r].status = "syncing" /\ ~row[r].leased

----------------------------------------------------------------------------
(* Claims. *)

\* ClaimNew raises uq_cloud_sync_remote_path: only the INSERT arm can, an
\* existing row goes through ON CONFLICT (recording_id) and keeps its path.
ClaimNewConflicts(r, p) == ~Tracked(r) /\ PathTaken(p)

\* Bug form: one attempt too many.
ClaimNewOffByOne(r, p) ==
  \/ ~Tracked(r) /\ ~PathTaken(p)
  \/ /\ row[r].status \in {"pending", "error"} \/ LeaseRanOut(r)
     /\ row[r].attempts <= MaxAttempts
     /\ row[r].due

\* Bug form: failed rows wait for a 'pending' nobody writes.
ClaimNewPendingOnly(r, p) ==
  \/ ~Tracked(r) /\ ~PathTaken(p)
  \/ /\ row[r].status = "pending" \/ LeaseRanOut(r)
     /\ row[r].attempts < MaxAttempts
     /\ row[r].due

\* ClaimNew returns a row: it inserted one, or its WHERE clause held.
ClaimNewSucceeds(r, p) ==
  \/ /\ ~Tracked(r)
     /\ ~PathTaken(p)
  \/ /\ row[r].status \in {"pending", "error"} \/ LeaseRanOut(r)
     /\ row[r].attempts < MaxAttempts
     /\ row[r].due

\* Bug forms: a Retry of whatever is not leased, or of a running attempt.
ClaimRetryUnleased(r) == Tracked(r) /\ ~row[r].leased
\* ClaimRetry's WHERE clause: neither attempts nor next_attempt_at count.
ClaimRetrySucceeds(r) == row[r].status = "error" \/ LeaseRanOut(r)

\* Bug form: a claim moves the row to the newly rendered path.
ClaimedPathRendered(r, p) == p

\* RETURNING remote_path: a row that exists keeps the path it was given first.
ClaimedPath(r, p) == IF Tracked(r) THEN row[r].path ELSE p

\* Bug form: only the insert counts an attempt.
ClaimUncounted(r, p, o) ==
  row' = [row EXCEPT ![r] =
            [@ EXCEPT !.status = "syncing", !.path = ClaimedPath(r, p),
                      !.attempts = IF Tracked(r) THEN @ ELSE 1,
                      !.owner = o, !.leased = TRUE]]

\* What both claims write.  error_class and next_attempt_at are left as
\* they were.
Claim(r, p, o) ==
  row' = [row EXCEPT ![r] =
            [status |-> "syncing", path |-> ClaimedPath(r, p),
             attempts |-> row[r].attempts + 1, due |-> row[r].due,
             owner |-> o, leased |-> TRUE, class |-> row[r].class]]

----------------------------------------------------------------------------
(* The statements fenced by lease_owner = $2 AND status = 'syncing'. *)

\* Bug form: lease_owner is not compared.
FencedByStatus(r, o) == row[r].status = "syncing"

Fenced(r, o) == row[r].owner = o /\ row[r].status = "syncing"

MarkSynced(r, o) ==
  row' = IF Fenced(r, o)
         THEN [row EXCEPT ![r] = [@ EXCEPT !.status = "synced",
                                           !.owner = NoOwner,
                                           !.leased = FALSE,
                                           !.class = "none",
                                           !.due = TRUE]]
         ELSE row

MarkError(r, o, class) ==
  row' = IF Fenced(r, o)
         THEN [row EXCEPT ![r] = [@ EXCEPT !.status = "error",
                                           !.owner = NoOwner,
                                           !.leased = FALSE,
                                           !.class = class,
                                           !.due = FALSE]]
         ELSE row

RenewLease(r, o) ==
  /\ Fenced(r, o)
  /\ row' = [row EXCEPT ![r].leased = TRUE]

RecoverExpiredLeases ==
  row' = [r \in Recordings |->
            IF LeaseRanOut(r)
            THEN [row[r] EXCEPT !.status = "error",
                                !.owner = NoOwner,
                                !.class = "lease_expired",
                                !.due = TRUE]
            ELSE row[r]]

----------------------------------------------------------------------------
(* The clock passes one of the row's two deadlines. *)

LeaseExpires(r) ==
  /\ row[r].leased
  /\ row' = [row EXCEPT ![r].leased = FALSE]

BackoffElapses(r) ==
  /\ ~row[r].due
  /\ row' = [row EXCEPT ![r].due = TRUE]

----------------------------------------------------------------------------
(* What the admin API reads. *)

\* deriveRetryStatus of a listed row.
RetryStatus(r) ==
  IF row[r].status = "syncing" THEN "retrying_now"
  ELSE IF row[r].attempts < MaxAttempts THEN "retrying" ELSE "exhausted"

----------------------------------------------------------------------------
(* What every statement preserves. *)

\* A row has a path as long as it exists, a lease only while it is syncing,
\* and no backoff once it is synced.
RowOK(r) ==
  /\ IF Tracked(r) THEN row[r].path \in Paths ELSE row[r].path = NoPath
  /\ row[r].leased => row[r].status = "syncing"
  /\ row[r].status = "synced" => row[r].due

PathsAreUnique ==
  \A q, r \in Recordings : Tracked(q) /\ row[q].path = row[r].path => q = r

StoreInv ==
  /\ StoreTypeOK
  /\ \A r \in Recordings : RowOK(r)
  /\ PathsAreUnique

=============================================================================
