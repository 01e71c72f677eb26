------------------------------- MODULE Titles -------------------------------
(***************************************************************************)
(* How a recording gets its title, internal/recordings/repository.go: the  *)
(* automatic "Recording #n" of an upload without one, chosen and inserted  *)
(* in a transaction under an advisory lock, next to the inserts, updates   *)
(* and deletions that take no lock.  Transactions run in READ COMMITTED:   *)
(* a count sees what is committed when it runs, and a statement that would *)
(* enter a key another transaction has inserted waits for its end.         *)
(***************************************************************************)
EXTENDS Integers, FiniteSets

CONSTANTS
  Recordings,
  Dates,       \* UTC dates of recorded_at
  Typed,       \* titles users type; a number n stands for "Recording #n"
  NoDate,      \* the date of a recording that does not exist
  NoTitle,     \* its title
  Nobody,      \* the advisory lock is free
  Quiet        \* dates whose recordings nobody deletes, moves or numbers

ASSUME TitlesAssumption ==
  /\ IsFiniteSet(Recordings)
  /\ NoDate \notin Dates
  /\ NoTitle \notin Typed \cup Nat
  /\ Nobody \notin Recordings
  /\ Quiet \subseteq Dates

VARIABLES
  rec,     \* the recordings table, uncommitted rows included
  tx,      \* createWithAutoTitle in progress for each recording
  lock     \* pg_advisory_xact_lock(0x7368616B65)

vars == <<rec, tx, lock>>

Rec == [state : {"absent", "pending", "live", "deleted"},
        date : Dates \cup {NoDate}, title : Typed \cup Nat \cup {NoTitle}]

NoRow == [state |-> "absent", date |-> NoDate, title |-> NoTitle]

\* "duplicate": the upload was answered with ErrDuplicateTitle.
Tx == [pc : {"idle", "begun", "locked", "counted", "inserted", "duplicate"},
       date : Dates \cup {NoDate}, count : Nat]

IdleTx == [pc |-> "idle", date |-> NoDate, count |-> 0]

TypeOK ==
  /\ rec \in [Recordings -> Rec]
  /\ tx \in [Recordings -> Tx]
  /\ lock \in Recordings \cup {Nobody}

Init ==
  /\ rec = [r \in Recordings |-> NoRow]
  /\ tx = [r \in Recordings |-> IdleTx]
  /\ lock = Nobody

----------------------------------------------------------------------------

\* The recordings of a date that a statement sees.
LiveOn(d) == {q \in Recordings : rec[q].state = "live" /\ rec[q].date = d}

\* uq_recordings_date_title refuses the key for r, or makes it wait.
Taken(r, d, t) == \E q \in LiveOn(d) \ {r} : rec[q].title = t
Awaited(r, d, t) ==
  \E q \in Recordings \ {r} :
    rec[q].state = "pending" /\ rec[q].date = d /\ rec[q].title = t

\* What users do to a date.
MayType(d, t) == d \in Quiet => t \notin Nat
MayMove(d, e) == d = e \/ {d, e} \cap Quiet = {}

\* An upload without a title that is not in progress; a client may repeat one
\* that was refused.
Begin(r, d) ==
  /\ rec[r].state = "absent"
  /\ tx[r].pc \in {"idle", "duplicate"}
  /\ tx' = [tx EXCEPT ![r] = [IdleTx EXCEPT !.pc = "begun", !.date = d]]
  /\ UNCHANGED <<rec, lock>>

\* Bug form: no lock.
LockNothing(r) ==
  /\ tx[r].pc = "begun"
  /\ tx' = [tx EXCEPT ![r].pc = "locked"]
  /\ UNCHANGED <<rec, lock>>

Lock(r) ==
  /\ tx[r].pc = "begun"
  /\ lock = Nobody
  /\ lock' = r
  /\ tx' = [tx EXCEPT ![r].pc = "locked"]
  /\ UNCHANGED rec

\* Bug form: the recordings of every date.
CountEveryDate(r) ==
  /\ tx[r].pc = "locked"
  /\ tx' = [tx EXCEPT ![r] =
       [@ EXCEPT !.pc = "counted",
                 !.count = Cardinality(UNION {LiveOn(d) : d \in Dates})]]
  /\ UNCHANGED <<rec, lock>>

Count(r) ==
  /\ tx[r].pc = "locked"
  /\ tx' = [tx EXCEPT ![r] =
       [@ EXCEPT !.pc = "counted", !.count = Cardinality(LiveOn(tx[r].date))]]
  /\ UNCHANGED <<rec, lock>>

AutoTitle(r) == tx[r].count + 1

Unlock(r) == lock' = IF lock = r THEN Nobody ELSE lock

Insert(r) ==
  /\ tx[r].pc = "counted"
  /\ ~Taken(r, tx[r].date, AutoTitle(r))
  /\ ~Awaited(r, tx[r].date, AutoTitle(r))
  /\ rec' = [rec EXCEPT ![r] = [state |-> "pending", date |-> tx[r].date,
                                title |-> AutoTitle(r)]]
  /\ tx' = [tx EXCEPT ![r].pc = "inserted"]
  /\ UNCHANGED lock

\* Bug form: the transaction is not rolled back.
InsertRefusedHolding(r) ==
  /\ tx[r].pc = "counted"
  /\ Taken(r, tx[r].date, AutoTitle(r))
  /\ tx' = [tx EXCEPT ![r].pc = "duplicate"]
  /\ UNCHANGED <<rec, lock>>

\* The index refuses the number: rollback, ErrDuplicateTitle.
InsertRefused(r) ==
  /\ tx[r].pc = "counted"
  /\ Taken(r, tx[r].date, AutoTitle(r))
  /\ tx' = [tx EXCEPT ![r].pc = "duplicate"]
  /\ Unlock(r)
  /\ UNCHANGED rec

Commit(r) ==
  /\ tx[r].pc = "inserted"
  /\ rec' = [rec EXCEPT ![r].state = "live"]
  /\ tx' = [tx EXCEPT ![r] = IdleTx]
  /\ Unlock(r)

\* The client goes away, a statement fails or the server dies: rollback.
Rollback(r) ==
  /\ tx[r].pc \in {"begun", "locked", "counted", "inserted"}
  /\ rec' = [rec EXCEPT ![r] = NoRow]
  /\ tx' = [tx EXCEPT ![r] = IdleTx]
  /\ Unlock(r)

\* Create with a title: one statement, refused if the key is taken.
CreateTitled(r, d, t) ==
  /\ rec[r].state = "absent"
  /\ tx[r].pc \in {"idle", "duplicate"}
  /\ MayType(d, t)
  /\ ~Taken(r, d, t)
  /\ ~Awaited(r, d, t)
  /\ rec' = [rec EXCEPT ![r] = [state |-> "live", date |-> d, title |-> t]]
  /\ tx' = [tx EXCEPT ![r] = IdleTx]
  /\ UNCHANGED lock

\* Update of the title, the date or both.
Update(r, d, t) ==
  /\ rec[r].state = "live"
  /\ t \in Typed \cup {rec[r].title}
  /\ MayType(d, t) \/ t = rec[r].title
  /\ MayMove(rec[r].date, d)
  /\ ~Taken(r, d, t)
  /\ ~Awaited(r, d, t)
  /\ rec' = [rec EXCEPT ![r] = [@ EXCEPT !.date = d, !.title = t]]
  /\ UNCHANGED <<tx, lock>>

SoftDelete(r) ==
  /\ rec[r].state = "live"
  /\ rec[r].date \notin Quiet
  /\ rec' = [rec EXCEPT ![r].state = "deleted"]
  /\ UNCHANGED <<tx, lock>>

Next ==
  \E r \in Recordings :
    \/ Lock(r) \/ Count(r) \/ Insert(r) \/ InsertRefused(r) \/ Commit(r)
    \/ Rollback(r) \/ SoftDelete(r)
    \/ \E d \in Dates :
         \/ Begin(r, d)
         \/ \E t \in Typed : CreateTitled(r, d, t)
         \/ \E t \in Typed \cup {rec[r].title} : Update(r, d, t)

Spec == Init /\ [][Next]_vars

----------------------------------------------------------------------------

\* On a date nobody deletes from, an upload without a title is never refused
\* for its title, however many arrive at once (Create: "it atomically assigns
\* the next sequential recording number using an advisory lock so concurrent
\* uploads never collide", repository.go:73-74).
UploadsNeverCollide ==
  \A r \in Recordings : tx[r].date \in Quiet => tx[r].pc # "duplicate"

\* On such a date a committed number never exceeds the recordings: the numbers
\* are handed out in sequence, without one that a rolled-back upload has left
\* behind.
NumbersAreSequential ==
  \A r \in Recordings :
    rec[r].state = "live" /\ rec[r].date \in Quiet /\ rec[r].title \in Nat =>
      rec[r].title \in 1..Cardinality(LiveOn(rec[r].date))

\* Statements and transactions end, and the lock is granted in order.
FairSpec ==
  /\ Spec
  /\ \A r \in Recordings :
       /\ SF_vars(Lock(r))
       /\ WF_vars(Count(r) \/ Insert(r) \/ InsertRefused(r) \/ Commit(r))

\* Every upload is answered: the lock is always given back, also by one that
\* is refused (the deferred Rollback), and nobody waits for it for ever.
UploadsAreAnswered ==
  \A r \in Recordings :
    tx[r].pc = "begun" ~> tx[r].pc \in {"idle", "duplicate"}

=============================================================================
