---------------------------- MODULE TitlesProofs ----------------------------
(***************************************************************************)
(* Automatic titles, for any number of uploads, dates and typed titles.    *)
(* The strengthening says what the advisory lock protects: while its       *)
(* holder has counted, no other number appears on its date, and what was   *)
(* counted stays.                                                          *)
(***************************************************************************)
EXTENDS Titles, FiniteSetTheorems, TLAPS

\* The transaction holds the lock, and only then; its row is pending from
\* its insert to its end.
TxOK(r) ==
  /\ tx[r].pc \in {"locked", "counted", "inserted"} => lock = r
  /\ tx[r].pc \in {"begun", "locked", "counted"} => rec[r].state = "absent"
  /\ tx[r].pc = "inserted" <=> rec[r].state = "pending"
  /\ tx[r].pc = "inserted" =>
       rec[r].date = tx[r].date /\ rec[r].title = AutoTitle(r)

\* Its count is between the numbers of its date and the recordings of it.
CountOK(r) ==
  tx[r].pc \in {"counted", "inserted"} /\ tx[r].date \in Quiet =>
    /\ tx[r].count <= Cardinality(LiveOn(tx[r].date))
    /\ \A q \in LiveOn(tx[r].date) : rec[q].title \in Nat => rec[q].title <= tx[r].count

IInv ==
  /\ TypeOK
  /\ \A r \in Recordings : TxOK(r) /\ CountOK(r)
  /\ UploadsNeverCollide
  /\ NumbersAreSequential

----------------------------------------------------------------------------
(* What one step may do to the parts IInv relates. *)

\* A quiet date keeps its recordings; r alone may join it, and a number only as
\* one more than was counted.
QuietKept(r) ==
  \A d \in Quiet :
    /\ LiveOn(d) \subseteq LiveOn(d)'
    /\ \A q \in LiveOn(d) : rec'[q].title \in Nat => rec'[q].title = rec[q].title
    /\ \A q \in LiveOn(d)' \ LiveOn(d) : q = r

\* What is live is a finite part of the table.
LEMMA LiveFinite ==
  ASSUME NEW d
  PROVE  IsFiniteSet(LiveOn(d)) /\ Cardinality(LiveOn(d)) \in Nat
  BY TitlesAssumption, FS_Subset, FS_CardinalityType DEF LiveOn

\* On a quiet date the cardinality only grows.
LEMMA QuietGrows ==
  ASSUME NEW r, QuietKept(r), NEW d \in Quiet
  PROVE  /\ Cardinality(LiveOn(d)) <= Cardinality(LiveOn(d)')
         /\ IsFiniteSet(LiveOn(d)') /\ Cardinality(LiveOn(d)') \in Nat
<1>1. IsFiniteSet(LiveOn(d)') /\ Cardinality(LiveOn(d)') \in Nat
  BY TitlesAssumption, FS_Subset, FS_CardinalityType DEF LiveOn
<1>2. LiveOn(d) \in SUBSET LiveOn(d)'
  BY DEF QuietKept
<1> QED
  BY <1>1, <1>2, FS_Subset

\* A step by r preserves the whole, if no number joins a quiet date.
LEMMA StepOf ==
  ASSUME IInv, TypeOK', NEW r \in Recordings, QuietKept(r),
         \A d \in Quiet : r \in LiveOn(d)' \ LiveOn(d) => rec'[r].title \notin Nat,
         \A s \in Recordings \ {r} :
           tx'[s] = tx[s] /\ rec'[s] = rec[s] /\ (lock = s <=> lock' = s),
         TxOK(r)', CountOK(r)', tx'[r].date \in Quiet => tx'[r].pc # "duplicate"
  PROVE  IInv'
<1>1. \A s \in Recordings \ {r} : TxOK(s)'
  BY DEF IInv, TxOK, AutoTitle
<1>2. ASSUME NEW s \in Recordings \ {r} PROVE CountOK(s)'
  <2> SUFFICES ASSUME tx[s].pc \in {"counted", "inserted"}, tx[s].date \in Quiet
               PROVE  /\ tx[s].count <= Cardinality(LiveOn(tx[s].date)')
                      /\ \A q \in LiveOn(tx[s].date)' :
                           rec'[q].title \in Nat => rec'[q].title <= tx[s].count
    BY DEF CountOK, LiveOn
  <2>1. /\ tx[s].count <= Cardinality(LiveOn(tx[s].date))
        /\ \A q \in LiveOn(tx[s].date) : rec[q].title \in Nat => rec[q].title <= tx[s].count
        /\ tx[s].count \in Nat
    BY DEF IInv, CountOK, TypeOK, Tx
  <2>2. tx[s].count <= Cardinality(LiveOn(tx[s].date)')
    BY <2>1, QuietGrows, LiveFinite
  <2>3. \A q \in LiveOn(tx[s].date)' :
          rec'[q].title \in Nat => rec'[q].title <= tx[s].count
    BY <2>1 DEF QuietKept
  <2> QED
    BY <2>2, <2>3
<1>3. UploadsNeverCollide'
  BY DEF IInv, UploadsNeverCollide
<1>4. ASSUME NEW d \in Quiet, NEW q \in LiveOn(d)', rec'[q].title \in Nat
      PROVE  rec'[q].title \in 1..Cardinality(LiveOn(d)')
  <2>1. q \in LiveOn(d) /\ rec'[q].title = rec[q].title
    BY <1>4 DEF QuietKept
  <2>2. rec[q].title \in 1..Cardinality(LiveOn(d))
    BY <1>4, <2>1 DEF IInv, NumbersAreSequential, LiveOn
  <2> QED
    BY <1>4, <2>1, <2>2, QuietGrows, LiveFinite
<1>5. NumbersAreSequential'
  BY <1>4 DEF NumbersAreSequential, LiveOn
<1> QED
  BY <1>1, <1>2, <1>3, <1>5 DEF IInv

----------------------------------------------------------------------------
(* The steps. *)

\* Without a change of the table every date keeps its recordings.
LEMMA TableKept ==
  ASSUME NEW r, rec' = rec
  PROVE  /\ QuietKept(r)
         /\ \A d \in Quiet : LiveOn(d)' = LiveOn(d)
  BY DEF QuietKept, LiveOn

\* r's transaction moves on and the table does not.
LEMMA TxStep ==
  ASSUME IInv, NEW r \in Recordings, NEW v \in Tx, tx' = [tx EXCEPT ![r] = v],
         rec' = rec, lock' \in Recordings \cup {Nobody},
         \A s \in Recordings \ {r} : lock = s <=> lock' = s,
         tx[r].pc # "inserted", v.pc # "inserted",
         v.pc \in {"locked", "counted"} => lock' = r,
         v.pc \in {"begun", "locked", "counted"} => rec[r].state = "absent",
         v.pc = "counted" /\ v.date \in Quiet =>
           /\ v.count <= Cardinality(LiveOn(v.date))
           /\ \A q \in LiveOn(v.date) : rec[q].title \in Nat => rec[q].title <= v.count,
         v.date \in Quiet => v.pc # "duplicate"
  PROVE  IInv'
<1>1. tx'[r] = v /\ \A s \in Recordings \ {r} : tx'[s] = tx[s]
  BY DEF IInv, TypeOK
<1>2. TypeOK'
  BY DEF IInv, TypeOK
<1>3. TxOK(r)'
  BY <1>1 DEF IInv, TxOK
<1>4. CountOK(r)'
  BY <1>1 DEF CountOK, LiveOn
<1>5. QuietKept(r) /\ \A d \in Quiet : LiveOn(d)' = LiveOn(d)
  BY TableKept
<1> QED
  BY <1>1, <1>2, <1>3, <1>4, <1>5, StepOf

\* An upload without a title begins its transaction.
LEMMA BeginStep ==
  ASSUME IInv, NEW r \in Recordings, NEW d \in Dates, Begin(r, d) PROVE IInv'
<1> DEFINE v == [IdleTx EXCEPT !.pc = "begun", !.date = d]
<1>1. v \in Tx /\ v.pc = "begun"
  BY DEF IdleTx, Tx
<1>2. /\ tx' = [tx EXCEPT ![r] = v] /\ tx[r].pc # "inserted" /\ UNCHANGED <<rec, lock>>
      /\ rec[r].state = "absent"
  BY DEF Begin
<1> HIDE DEF v
<1> QED
  BY <1>1, <1>2, TxStep DEF IInv, TypeOK

\* The transaction gets the advisory lock.
LEMMA LockStep == ASSUME IInv, NEW r \in Recordings, Lock(r) PROVE IInv'
<1> DEFINE v == [tx[r] EXCEPT !.pc = "locked"]
<1>1. tx[r] \in Tx
  BY DEF IInv, TypeOK
<1>2. v \in Tx /\ v.pc = "locked"
  BY <1>1 DEF Tx
<1>3. /\ tx' = [tx EXCEPT ![r] = v] /\ tx[r].pc # "inserted"
      /\ rec' = rec /\ lock = Nobody /\ lock' = r
      /\ rec[r].state = "absent"
  BY DEF Lock, IInv, TxOK
<1> HIDE DEF v
<1> QED
  BY <1>2, <1>3, TitlesAssumption, TxStep

\* The numbers of a quiet date are at most its recordings: the count covers them.
LEMMA CountStep == ASSUME IInv, NEW r \in Recordings, Count(r) PROVE IInv'
<1> DEFINE n == Cardinality(LiveOn(tx[r].date))
           v == [tx[r] EXCEPT !.pc = "counted", !.count = n]
<1>1. tx[r] \in Tx /\ n \in Nat /\ lock = r /\ rec[r].state = "absent"
  BY LiveFinite DEF IInv, TypeOK, TxOK, Count
<1>2. v \in Tx /\ v.pc = "counted" /\ v.count = n /\ v.date = tx[r].date
  BY <1>1 DEF Tx
<1>3. tx' = [tx EXCEPT ![r] = v] /\ tx[r].pc # "inserted" /\ UNCHANGED <<rec, lock>>
  BY DEF Count
<1>4. tx[r].date \in Quiet =>
        \A q \in LiveOn(tx[r].date) : rec[q].title \in Nat => rec[q].title <= n
  BY DEF IInv, NumbersAreSequential, LiveOn
<1>5. n <= n
  BY <1>1
<1> HIDE DEF v
<1> QED
  BY <1>1, <1>2, <1>3, <1>4, <1>5, TxStep DEF IInv, TypeOK

\* On a quiet date the next number is never taken.
LEMMA RefusedStep == ASSUME IInv, NEW r \in Recordings, InsertRefused(r) PROVE IInv'
<1> DEFINE v == [tx[r] EXCEPT !.pc = "duplicate"]
<1>1. tx[r] \in Tx
  BY DEF IInv, TypeOK
<1>2. v \in Tx /\ v.pc = "duplicate" /\ v.date = tx[r].date
  BY <1>1 DEF Tx
<1>3. /\ tx' = [tx EXCEPT ![r] = v] /\ tx[r].pc = "counted"
      /\ rec' = rec /\ lock' = IF lock = r THEN Nobody ELSE lock
      /\ Taken(r, tx[r].date, AutoTitle(r))
  BY DEF InsertRefused, Unlock
<1>4. tx[r].date \notin Quiet
  <2> SUFFICES ASSUME tx[r].date \in Quiet PROVE FALSE
    OBVIOUS
  <2>1. PICK q \in LiveOn(tx[r].date) : rec[q].title = tx[r].count + 1
    BY <1>3 DEF Taken, AutoTitle
  <2>2. tx[r].count \in Nat
    BY <1>1 DEF Tx
  <2> QED
    BY <1>3, <2>1, <2>2 DEF IInv, CountOK
<1>5. /\ lock' \in Recordings \cup {Nobody}
      /\ \A s \in Recordings \ {r} : lock = s <=> lock' = s
  BY <1>3, TitlesAssumption DEF IInv, TypeOK
<1> HIDE DEF v
<1> QED
  BY <1>2, <1>3, <1>4, <1>5, TxStep

\* The transaction inserts its row, under the number it counted.
LEMMA InsertStep == ASSUME IInv, NEW r \in Recordings, Insert(r) PROVE IInv'
<1>1. PICK v, w : /\ v = [state |-> "pending", date |-> tx[r].date, title |-> AutoTitle(r)]
                  /\ w = [tx[r] EXCEPT !.pc = "inserted"]
  OBVIOUS
<1>2. /\ rec' = [rec EXCEPT ![r] = v] /\ tx' = [tx EXCEPT ![r] = w]
      /\ tx[r].pc = "counted" /\ lock' = lock
  BY <1>1 DEF Insert, IInv, TypeOK
<1>3. tx[r] \in Tx /\ tx[r].count \in Nat /\ tx[r].date \in Dates \cup {NoDate}
  BY DEF IInv, TypeOK, Tx
<1>4. v \in Rec /\ v.state = "pending" /\ v.date = tx[r].date /\ v.title = tx[r].count + 1
  BY <1>1, <1>3 DEF Rec, AutoTitle
<1>5. w \in Tx /\ w.pc = "inserted" /\ w.date = tx[r].date /\ w.count = tx[r].count
  BY <1>1, <1>3 DEF Tx
<1>6. /\ rec'[r] = v /\ tx'[r] = w
      /\ \A s \in Recordings \ {r} : rec'[s] = rec[s] /\ tx'[s] = tx[s]
  BY <1>2 DEF IInv, TypeOK
<1>7. rec[r].state = "absent" /\ lock = r
  BY <1>2 DEF IInv, TxOK
<1>8. TypeOK'
  BY <1>2, <1>4, <1>5 DEF IInv, TypeOK
<1>9. /\ \A d \in Quiet : LiveOn(d)' = LiveOn(d)
      /\ \A q \in Recordings : rec'[q].state = "live" => rec'[q] = rec[q]
  BY <1>4, <1>6, <1>7 DEF LiveOn
<1>10. QuietKept(r)
  BY <1>9 DEF QuietKept, LiveOn
<1>11. TxOK(r)'
  BY <1>2, <1>4, <1>5, <1>6, <1>7 DEF TxOK, AutoTitle
<1>12. CountOK(r)'
  <2>1. PICK d : d = tx[r].date
    OBVIOUS
  <2>2. d \in Quiet => /\ tx[r].count <= Cardinality(LiveOn(d))
                       /\ \A q \in LiveOn(d) : rec[q].title \in Nat => rec[q].title <= tx[r].count
    BY <1>2, <2>1 DEF IInv, CountOK
  <2>3. d \in Quiet => /\ tx[r].count <= Cardinality(LiveOn(d)')
                       /\ \A q \in LiveOn(d)' : rec'[q].title \in Nat => rec'[q].title <= tx[r].count
    BY <1>9, <2>2 DEF LiveOn
  <2>4. tx'[r].date = d /\ tx'[r].count = tx[r].count
    BY <1>5, <1>6, <2>1
  <2> QED
    BY <2>3, <2>4 DEF CountOK, LiveOn
<1> QED
  BY <1>2, <1>5, <1>6, <1>8, <1>9, <1>10, <1>11, <1>12, StepOf

\* The commit adds the recording and its number, the next one of its date.
LEMMA CommitStep == ASSUME IInv, NEW r \in Recordings, Commit(r) PROVE IInv'
<1>1. PICK v : v = [rec[r] EXCEPT !.state = "live"]
  OBVIOUS
<1>2. /\ rec' = [rec EXCEPT ![r] = v] /\ tx' = [tx EXCEPT ![r] = IdleTx]
      /\ tx[r].pc = "inserted"
      /\ lock' = IF lock = r THEN Nobody ELSE lock
  BY <1>1 DEF Commit, Unlock, IInv, TypeOK
<1>3. /\ rec[r] \in Rec /\ rec[r].state = "pending" /\ lock = r
      /\ rec[r].date = tx[r].date /\ rec[r].title = tx[r].count + 1
      /\ tx[r].count \in Nat
  BY <1>2 DEF IInv, TypeOK, TxOK, AutoTitle, Tx
<1>4. v \in Rec /\ v.state = "live" /\ v.date = rec[r].date /\ v.title = rec[r].title
  BY <1>1, <1>3 DEF Rec
<1>5. IdleTx \in Tx /\ IdleTx.pc = "idle"
  BY DEF IdleTx, Tx
<1>6. /\ rec'[r] = v /\ tx'[r] = IdleTx
      /\ \A s \in Recordings \ {r} : rec'[s] = rec[s] /\ tx'[s] = tx[s]
  BY <1>2 DEF IInv, TypeOK
<1>7. TypeOK'
  BY <1>2, <1>4, <1>5 DEF IInv, TypeOK
<1>8. \A d \in Quiet :
        LiveOn(d)' = IF rec[r].date = d THEN LiveOn(d) \cup {r} ELSE LiveOn(d)
  BY <1>3, <1>4, <1>6 DEF LiveOn
<1>9. QuietKept(r)
  BY <1>3, <1>6, <1>8 DEF QuietKept, LiveOn
<1>10. \A s \in Recordings \ {r} : ~(tx[s].pc \in {"counted", "inserted"})
  BY <1>3 DEF IInv, TxOK
<1>11. /\ \A s \in Recordings \ {r} : TxOK(s)' /\ CountOK(s)'
       /\ TxOK(r)' /\ CountOK(r)'
  BY <1>2, <1>4, <1>5, <1>6, <1>10, TitlesAssumption DEF IInv, TxOK, CountOK, AutoTitle
<1>12. UploadsNeverCollide'
  BY <1>5, <1>6 DEF IInv, UploadsNeverCollide
<1>13. ASSUME NEW d \in Quiet, NEW q \in LiveOn(d)', rec'[q].title \in Nat
       PROVE  rec'[q].title \in 1..Cardinality(LiveOn(d)')
  <2>1. CASE q # r
    <3>1. q \in LiveOn(d) /\ rec'[q] = rec[q]
      BY <1>6, <1>8, <2>1 DEF LiveOn
    <3>2. rec[q].title \in 1..Cardinality(LiveOn(d))
      BY <1>13, <3>1 DEF IInv, NumbersAreSequential, LiveOn
    <3> QED
      BY <3>1, <3>2, <1>9, QuietGrows, LiveFinite
  <2>2. CASE q = r
    <3>1. rec[r].date = d /\ r \notin LiveOn(d)
      BY <1>3, <1>4, <1>6, <2>2 DEF LiveOn
    <3>2. Cardinality(LiveOn(d)') = Cardinality(LiveOn(d)) + 1
      BY <1>8, <3>1, LiveFinite, FS_AddElement
    <3>3. tx[r].count <= Cardinality(LiveOn(d))
      BY <1>2, <1>3, <3>1 DEF IInv, CountOK
    <3> QED
      BY <1>3, <1>4, <1>6, <2>2, <3>2, <3>3, LiveFinite
  <2> QED
    BY <2>1, <2>2
<1>14. NumbersAreSequential'
  BY <1>13 DEF NumbersAreSequential, LiveOn
<1> QED
  BY <1>7, <1>11, <1>12, <1>14 DEF IInv

\* The row of one that is rolled back was never seen.
LEMMA RollbackStep == ASSUME IInv, NEW r \in Recordings, Rollback(r) PROVE IInv'
<1>1. /\ rec' = [rec EXCEPT ![r] = NoRow] /\ tx' = [tx EXCEPT ![r] = IdleTx]
      /\ lock' = IF lock = r THEN Nobody ELSE lock
      /\ tx[r].pc \in {"begun", "locked", "counted", "inserted"}
  BY DEF Rollback, Unlock
<1>2. IdleTx \in Tx /\ IdleTx.pc = "idle" /\ IdleTx.date = NoDate
  BY DEF IdleTx, Tx
<1>3. NoRow \in Rec /\ NoRow.state = "absent"
  BY DEF NoRow, Rec
<1>4. rec[r].state # "live"
  BY <1>1 DEF IInv, TxOK
<1>5. /\ rec'[r] = NoRow /\ tx'[r] = IdleTx
      /\ \A s \in Recordings \ {r} : rec'[s] = rec[s] /\ tx'[s] = tx[s]
  BY <1>1 DEF IInv, TypeOK
<1>6. TypeOK'
  BY <1>1, <1>2, <1>3 DEF IInv, TypeOK
<1>7. QuietKept(r) /\ \A d \in Quiet : LiveOn(d)' = LiveOn(d)
  BY <1>3, <1>4, <1>5 DEF QuietKept, LiveOn
<1>8. TxOK(r)' /\ CountOK(r)'
  BY <1>2, <1>3, <1>5 DEF TxOK, CountOK
<1> QED
  BY <1>1, <1>2, <1>5, <1>6, <1>7, <1>8, TitlesAssumption, StepOf DEF IInv, TypeOK

\* Statements that take no lock: r gets a row, another one, or none, and on a
\* quiet date none with a number that is new there.
LEMMA UnlockedStep ==
  ASSUME IInv, NEW r \in Recordings, NEW v \in Rec, rec' = [rec EXCEPT ![r] = v],
         \/ tx' = tx \/ tx' = [tx EXCEPT ![r] = IdleTx],
         lock' = lock,
         tx[r].pc \in {"idle", "duplicate"}, v.state \in {"live", "deleted"},
         rec[r].state = "live" /\ rec[r].date \in Quiet =>
           /\ v.state = "live" /\ v.date = rec[r].date
           /\ v.title \in Nat => v.title = rec[r].title,
         v.date \in Quiet /\ ~(rec[r].state = "live" /\ rec[r].date = v.date) =>
           v.title \notin Nat
  PROVE  IInv'
<1>1. IdleTx \in Tx /\ IdleTx.pc = "idle"
  BY DEF IdleTx, Tx
<1>2. /\ rec'[r] = v /\ tx'[r] \in {tx[r], IdleTx}
      /\ \A s \in Recordings \ {r} : rec'[s] = rec[s] /\ tx'[s] = tx[s]
  BY DEF IInv, TypeOK
<1>3. TypeOK'
  BY <1>1 DEF IInv, TypeOK
<1>4. QuietKept(r)
  BY <1>2 DEF QuietKept, LiveOn
<1>5. \A d \in Quiet : r \in LiveOn(d)' \ LiveOn(d) => rec'[r].title \notin Nat
  BY <1>2 DEF LiveOn
<1>6. TxOK(r)' /\ CountOK(r)'
  BY <1>1, <1>2 DEF TxOK, CountOK
<1>7. tx'[r].date \in Quiet => tx'[r].pc # "duplicate"
  BY <1>1, <1>2 DEF IInv, UploadsNeverCollide
<1> QED
  BY <1>2, <1>3, <1>4, <1>5, <1>6, <1>7, StepOf

\* A recording is created with a title of its own.
LEMMA CreateTitledStep ==
  ASSUME IInv, NEW r \in Recordings, NEW d \in Dates, NEW t \in Typed, CreateTitled(r, d, t)
  PROVE  IInv'
<1>1. PICK v : v = [state |-> "live", date |-> d, title |-> t]
  OBVIOUS
<1>2. v \in Rec /\ v.state = "live" /\ v.date = d /\ v.title = t
  BY <1>1 DEF Rec
<1>3. /\ rec' = [rec EXCEPT ![r] = v] /\ tx' = [tx EXCEPT ![r] = IdleTx] /\ lock' = lock
      /\ rec[r].state = "absent" /\ tx[r].pc \in {"idle", "duplicate"}
      /\ d \in Quiet => t \notin Nat
  BY <1>1 DEF CreateTitled, MayType
<1> QED
  BY <1>2, <1>3, UnlockedStep

\* A recording is renamed or moved to another date.
LEMMA UpdateStep ==
  ASSUME IInv, NEW r \in Recordings, NEW d \in Dates, NEW t \in Typed \cup {rec[r].title},
         Update(r, d, t)
  PROVE  IInv'
<1>1. PICK v : v = [rec[r] EXCEPT !.date = d, !.title = t]
  OBVIOUS
<1>2. rec[r] \in Rec /\ tx[r] \in Tx
  BY DEF IInv, TypeOK
<1>3. v \in Rec /\ v.state = rec[r].state /\ v.date = d /\ v.title = t
  BY <1>1, <1>2 DEF Rec
<1>4. /\ rec' = [rec EXCEPT ![r] = v] /\ UNCHANGED <<tx, lock>>
      /\ rec[r].state = "live"
      /\ (d \in Quiet => t \notin Nat) \/ t = rec[r].title
      /\ rec[r].date = d \/ {rec[r].date, d} \cap Quiet = {}
  BY <1>1 DEF Update, MayType, MayMove
<1>5. tx[r].pc \in {"idle", "duplicate"}
  BY <1>2, <1>4 DEF IInv, TxOK, Tx
<1> QED
  BY <1>3, <1>4, <1>5, UnlockedStep

\* A recording is deleted.
LEMMA SoftDeleteStep == ASSUME IInv, NEW r \in Recordings, SoftDelete(r) PROVE IInv'
<1>1. PICK v : v = [rec[r] EXCEPT !.state = "deleted"]
  OBVIOUS
<1>2. rec[r] \in Rec /\ tx[r] \in Tx
  BY DEF IInv, TypeOK
<1>3. v \in Rec /\ v.state = "deleted" /\ v.date = rec[r].date
  BY <1>1, <1>2 DEF Rec
<1>4. /\ rec' = [rec EXCEPT ![r] = v] /\ UNCHANGED <<tx, lock>>
      /\ rec[r].state = "live" /\ rec[r].date \notin Quiet
  BY <1>1 DEF SoftDelete
<1>5. tx[r].pc \in {"idle", "duplicate"}
  BY <1>2, <1>4 DEF IInv, TxOK, Tx
<1> QED
  BY <1>3, <1>4, <1>5, UnlockedStep

----------------------------------------------------------------------------
(* The theorems. *)

\* The empty table satisfies the invariant.
LEMMA InitOK == Init => IInv
<1> SUFFICES ASSUME Init PROVE IInv
  OBVIOUS
<1>1. NoRow \in Rec /\ NoRow.state = "absent" /\ IdleTx \in Tx /\ IdleTx.pc = "idle"
  BY DEF NoRow, Rec, IdleTx, Tx
<1> QED
  BY <1>1 DEF Init, IInv, TypeOK, TxOK, CountOK, UploadsNeverCollide, NumbersAreSequential

\* Every step preserves the invariant.
LEMMA StepOK == IInv /\ [Next]_vars => IInv'
<1> SUFFICES ASSUME IInv, [Next]_vars PROVE IInv'
  OBVIOUS
<1>1. CASE UNCHANGED vars
  BY <1>1 DEF vars, IInv, TypeOK, TxOK, CountOK, AutoTitle, UploadsNeverCollide,
              NumbersAreSequential, LiveOn
<1>2. ASSUME NEW r \in Recordings,
             \/ Lock(r) \/ Count(r) \/ Insert(r) \/ InsertRefused(r) \/ Commit(r)
             \/ Rollback(r) \/ SoftDelete(r)
      PROVE  IInv'
  BY <1>2, LockStep, CountStep, InsertStep, RefusedStep, CommitStep, RollbackStep,
     SoftDeleteStep
<1>3. ASSUME NEW r \in Recordings, NEW d \in Dates,
             \/ Begin(r, d)
             \/ \E t \in Typed : CreateTitled(r, d, t)
             \/ \E t \in Typed \cup {rec[r].title} : Update(r, d, t)
      PROVE  IInv'
  BY <1>3, BeginStep, CreateTitledStep, UpdateStep
<1> QED
  BY <1>1, <1>2, <1>3 DEF Next

\* The invariant holds throughout.
LEMMA Invariance == Spec => []IInv
  BY InitOK, StepOK, PTL DEF Spec

\* Concurrent uploads without a title never collide on a date nobody deletes
\* from (repository.go:73-74), for any number of them.
THEOREM NeverCollide == Spec => []UploadsNeverCollide
<1>1. IInv => UploadsNeverCollide
  BY DEF IInv
<1> QED
  BY <1>1, Invariance, PTL

\* On such a date no committed number exceeds the recordings (repository.go:73-74).
THEOREM Sequential == Spec => []NumbersAreSequential
<1>1. IInv => NumbersAreSequential
  BY DEF IInv
<1> QED
  BY <1>1, Invariance, PTL

=============================================================================
