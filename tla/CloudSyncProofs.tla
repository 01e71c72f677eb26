--------------------------- MODULE CloudSyncProofs ---------------------------
(***************************************************************************)
(* The cloud sync: every statement of SyncStore preserves StoreInv; IInv   *)
(* is inductive, hence the safety properties of CloudSync hold for any     *)
(* number of recordings, processes, calls, workers and attempts; what a    *)
(* step of the service may never do; and the service implements Backup.    *)
(* The last two follow from IInv and from the few things a step can do to  *)
(* the table and the remote: StepKinds.                                    *)
(***************************************************************************)
EXTENDS CloudSync, TLAPS

----------------------------------------------------------------------------
(* The statements of SyncStore. *)

KeepsPaths ==
  \A r \in Recordings :
    Tracked(r) => Tracked(r)' /\ row'[r].path = row[r].path

SyncsOnly(S) ==
  \A r \in Recordings :
    row'[r].status = "synced" => row[r].status = "synced" \/ r \in S

\* The empty table satisfies the invariant.
LEMMA StoreInitOK ==
  ASSUME StoreInit
  PROVE  StoreInv
<1> USE StoreAssumption DEF StoreInit, Untracked
<1>1. StoreTypeOK
  BY DEF StoreTypeOK, Row, Status, ErrorClass
<1>2. \A r \in Recordings : RowOK(r)
  BY DEF RowOK, Tracked
<1>3. PathsAreUnique
  BY DEF PathsAreUnique, Tracked
<1> QED BY <1>1, <1>2, <1>3 DEF StoreInv

\* A statement that rewrites the row of one recording, keeps its path or gives
\* it one that is free, and leaves it well formed, preserves the invariant.
LEMMA OneRow ==
  ASSUME StoreInv, NEW r \in Recordings, NEW new \in Row,
         row' = [row EXCEPT ![r] = new],
         new.status # "untracked", new.path \in Paths,
         Tracked(r) => new.path = row[r].path,
         Tracked(r) \/ ~PathTaken(new.path),
         new.leased => new.status = "syncing",
         new.status = "synced" => new.due
  PROVE  /\ StoreInv'
         /\ KeepsPaths
         /\ Tracked(r)' /\ row'[r] = new
<1>1. StoreTypeOK /\ (\A q \in Recordings : RowOK(q)) /\ PathsAreUnique
  BY DEF StoreInv
<1>2. StoreTypeOK'
  BY <1>1 DEF StoreTypeOK
<1>3. row'[r] = new /\ \A q \in Recordings \ {r} : row'[q] = row[q]
  BY <1>1 DEF StoreTypeOK
<1>4. Tracked(r)' /\ KeepsPaths
  BY <1>3 DEF Tracked, KeepsPaths
<1>5. \A q \in Recordings : RowOK(q)'
  BY <1>1, <1>3 DEF RowOK, Tracked
<1>6. PathsAreUnique'
  BY <1>1, <1>3, StoreAssumption DEF PathsAreUnique, Tracked, PathTaken, RowOK
<1> QED BY <1>2, <1>3, <1>4, <1>5, <1>6 DEF StoreInv

\* A granted claim.
LEMMA ClaimOK ==
  ASSUME StoreInv, NEW r \in Recordings, NEW p, NEW o \in Owners,
         Claim(r, p, o),
         \/ ClaimNewSucceeds(r, p) /\ p \in Paths
         \/ ClaimRetrySucceeds(r)
  PROVE  /\ StoreInv' /\ KeepsPaths /\ SyncsOnly({})
         /\ Tracked(r)' /\ row'[r].path = ClaimedPath(r, p)
<1> DEFINE new ==
      [status |-> "syncing", path |-> ClaimedPath(r, p),
       attempts |-> row[r].attempts + 1, due |-> row[r].due,
       owner |-> o, leased |-> TRUE, class |-> row[r].class]
<1>1. StoreTypeOK /\ RowOK(r) /\ row[r] \in Row
  BY DEF StoreInv, StoreTypeOK
<1>2. ClaimedPath(r, p) \in Paths /\ (~Tracked(r) => ~PathTaken(p))
  BY <1>1 DEF ClaimedPath, ClaimNewSucceeds, ClaimRetrySucceeds, LeaseRanOut, RowOK, Tracked
<1>3. new \in Row
  BY <1>1, <1>2 DEF Row, Status
<1>4. row' = [row EXCEPT ![r] = new]
  BY DEF Claim
<1>5. /\ new.status = "syncing" /\ new.path = ClaimedPath(r, p)
      /\ Tracked(r) => new.path = row[r].path
      /\ ~Tracked(r) => new.path = p
  BY <1>1 DEF ClaimedPath, Row
<1> HIDE DEF new
<1>6. StoreInv' /\ KeepsPaths /\ Tracked(r)' /\ row'[r] = new
  BY <1>2, <1>3, <1>4, <1>5, OneRow
<1>7. SyncsOnly({})
  BY <1>1, <1>4, <1>5, <1>6 DEF SyncsOnly, StoreTypeOK
<1> QED BY <1>5, <1>6, <1>7

\* A statement that starts tracking no recording and keeps every path.
LEMMA EachRow ==
  ASSUME StoreInv, row' \in [Recordings -> Row],
         \A q \in Recordings :
           /\ Tracked(q)' = Tracked(q)
           /\ row'[q].path = row[q].path
           /\ row'[q].leased => row'[q].status = "syncing"
           /\ row'[q].status = "synced" => row'[q].due
  PROVE  StoreInv' /\ KeepsPaths
<1>1. StoreTypeOK /\ (\A q \in Recordings : RowOK(q)) /\ PathsAreUnique
  BY DEF StoreInv
<1>2. \A q \in Recordings : Tracked(q)' = Tracked(q) /\ row'[q].path = row[q].path
  BY DEF Tracked
<1>3. \A q \in Recordings : RowOK(q)'
  BY <1>1, <1>2 DEF RowOK
<1>4. PathsAreUnique'
  BY <1>1, <1>2 DEF PathsAreUnique
<1> QED BY <1>2, <1>3, <1>4 DEF StoreInv, StoreTypeOK, KeepsPaths

\* MarkSynced makes at most the row it names synced.
LEMMA MarkSyncedOK ==
  ASSUME StoreInv, NEW r \in Recordings, NEW o \in Owners, MarkSynced(r, o)
  PROVE  StoreInv' /\ KeepsPaths /\ SyncsOnly({r})
<1> DEFINE new == [row[r] EXCEPT !.status = "synced", !.owner = NoOwner,
                     !.leased = FALSE, !.class = "none", !.due = TRUE]
<1>1. StoreTypeOK /\ (\A q \in Recordings : RowOK(q)) /\ row[r] \in Row
  BY DEF StoreInv, StoreTypeOK
<1>2. new \in Row /\ new.status = "synced" /\ new.path = row[r].path
      /\ ~new.leased /\ new.due
  BY <1>1 DEF Row, Status, ErrorClass
<1>3. row' = IF Fenced(r, o) THEN [row EXCEPT ![r] = new] ELSE row
  BY DEF MarkSynced
<1> HIDE DEF new
<1>4. \A q \in Recordings : row'[q] = IF q = r /\ Fenced(r, o) THEN new ELSE row[q]
  BY <1>1, <1>3 DEF StoreTypeOK
<1>5. StoreInv' /\ KeepsPaths
  BY <1>1, <1>2, <1>3, <1>4, EachRow DEF StoreTypeOK, RowOK, Tracked, Fenced
<1>6. SyncsOnly({r})
  BY <1>4 DEF SyncsOnly
<1> QED BY <1>5, <1>6

\* MarkError makes no row synced.
LEMMA MarkErrorOK ==
  ASSUME StoreInv, NEW r \in Recordings, NEW o \in Owners,
         NEW class \in ErrorClass, MarkError(r, o, class)
  PROVE  StoreInv' /\ KeepsPaths /\ SyncsOnly({})
<1> DEFINE new == [row[r] EXCEPT !.status = "error", !.owner = NoOwner,
                     !.leased = FALSE, !.class = class, !.due = FALSE]
<1>1. StoreTypeOK /\ (\A q \in Recordings : RowOK(q)) /\ row[r] \in Row
  BY DEF StoreInv, StoreTypeOK
<1>2. new \in Row /\ new.status = "error" /\ new.path = row[r].path /\ ~new.leased
  BY <1>1 DEF Row, Status
<1>3. row' = IF Fenced(r, o) THEN [row EXCEPT ![r] = new] ELSE row
  BY DEF MarkError
<1> HIDE DEF new
<1>4. \A q \in Recordings : row'[q] = IF q = r /\ Fenced(r, o) THEN new ELSE row[q]
  BY <1>1, <1>3 DEF StoreTypeOK
<1>5. StoreInv' /\ KeepsPaths
  BY <1>1, <1>2, <1>3, <1>4, EachRow DEF StoreTypeOK, RowOK, Tracked, Fenced
<1>6. SyncsOnly({})
  BY <1>2, <1>4 DEF SyncsOnly
<1> QED BY <1>5, <1>6

\* A renewed lease.
LEMMA RenewLeaseOK ==
  ASSUME StoreInv, NEW r \in Recordings, NEW o \in Owners, RenewLease(r, o)
  PROVE  StoreInv' /\ KeepsPaths /\ SyncsOnly({})
<1> DEFINE new == [row[r] EXCEPT !.leased = TRUE]
<1>1. StoreTypeOK /\ (\A q \in Recordings : RowOK(q)) /\ row[r] \in Row
  BY DEF StoreInv, StoreTypeOK
<1>2. new \in Row /\ new.status = row[r].status /\ new.path = row[r].path
      /\ new.due = row[r].due
  BY <1>1 DEF Row
<1>3. row' = [row EXCEPT ![r] = new] /\ row[r].status = "syncing"
  BY DEF RenewLease, Fenced
<1> HIDE DEF new
<1>4. \A q \in Recordings : row'[q] = IF q = r THEN new ELSE row[q]
  BY <1>1, <1>3 DEF StoreTypeOK
<1>5. StoreInv' /\ KeepsPaths
  BY <1>1, <1>2, <1>3, <1>4, EachRow DEF StoreTypeOK, RowOK, Tracked
<1>6. SyncsOnly({})
  BY <1>2, <1>4 DEF SyncsOnly
<1> QED BY <1>5, <1>6

\* One round of recovery.
LEMMA RecoverOK ==
  ASSUME StoreInv, RecoverExpiredLeases
  PROVE  StoreInv' /\ KeepsPaths /\ SyncsOnly({})
<1> DEFINE new(q) == [row[q] EXCEPT !.status = "error", !.owner = NoOwner,
                        !.class = "lease_expired", !.due = TRUE]
<1>1. /\ StoreTypeOK
      /\ \A q \in Recordings : RowOK(q) /\ row[q] \in Row
  BY DEF StoreInv, StoreTypeOK
<1>2. \A q \in Recordings :
        /\ new(q) \in Row /\ new(q).status = "error"
        /\ new(q).path = row[q].path /\ new(q).leased = row[q].leased
  BY <1>1 DEF Row, Status, ErrorClass
<1>3. row' = [q \in Recordings |-> IF LeaseRanOut(q) THEN new(q) ELSE row[q]]
  BY DEF RecoverExpiredLeases
<1> HIDE DEF new
<1>4. row' \in [Recordings -> Row]
  BY <1>1, <1>2, <1>3
<1>5. \A q \in Recordings : row'[q] = IF LeaseRanOut(q) THEN new(q) ELSE row[q]
  BY <1>3
<1>6. StoreInv' /\ KeepsPaths
  BY <1>1, <1>2, <1>4, <1>5, EachRow DEF RowOK, Tracked, LeaseRanOut
<1>7. SyncsOnly({})
  BY <1>2, <1>5 DEF SyncsOnly
<1> QED BY <1>6, <1>7

\* The clock passes a deadline.
LEMMA TimeOK ==
  ASSUME StoreInv, NEW r \in Recordings, LeaseExpires(r) \/ BackoffElapses(r)
  PROVE  StoreInv' /\ KeepsPaths /\ SyncsOnly({})
<1>1. /\ StoreTypeOK /\ row[r] \in Row
      /\ \A q \in Recordings : RowOK(q)
  BY DEF StoreInv, StoreTypeOK
<1>2. PICK new \in Row :
        /\ row' = [row EXCEPT ![r] = new]
        /\ new.status = row[r].status /\ new.path = row[r].path
        /\ new.leased => row[r].leased
        /\ row[r].due => new.due
  <2>1. CASE LeaseExpires(r)
    <3>1. /\ [row[r] EXCEPT !.leased = FALSE] \in Row
          /\ row' = [row EXCEPT ![r] = [row[r] EXCEPT !.leased = FALSE]]
      BY <1>1, <2>1 DEF LeaseExpires, Row
    <3> QED BY <1>1, <3>1 DEF Row
  <2>2. CASE BackoffElapses(r)
    <3>1. /\ [row[r] EXCEPT !.due = TRUE] \in Row
          /\ row' = [row EXCEPT ![r] = [row[r] EXCEPT !.due = TRUE]]
      BY <1>1, <2>2 DEF BackoffElapses, Row
    <3> QED BY <1>1, <3>1 DEF Row
  <2> QED BY <2>1, <2>2
<1>3. \A q \in Recordings : row'[q] = IF q = r THEN new ELSE row[q]
  BY <1>1, <1>2 DEF StoreTypeOK
<1>4. StoreInv' /\ KeepsPaths
  BY <1>1, <1>2, <1>3, EachRow DEF StoreTypeOK, RowOK, Tracked
<1>5. SyncsOnly({})
  BY <1>2, <1>3 DEF SyncsOnly
<1> QED BY <1>4, <1>5

----------------------------------------------------------------------------
(* The service. *)

(* What one step may do to the parts IInv relates. *)

CallKept(c) == call'[c].pc = "idle" \/ call'[c] = call[c]

\* The worker ended, or moved on without claiming success.
WorkerKept(w) ==
  \/ worker'[w].pc = "free"
  \/ /\ worker[w].pc # "free"
     /\ worker'[w].owner = worker[w].owner
     /\ worker'[w].rec = worker[w].rec
     /\ worker'[w].path = worker[w].path
     /\ worker'[w].pc = "synced" => worker[w].pc = "synced"

\* Objects change by a recording's upload to its own path, or tear.
UploadsOwn ==
  \A p \in Paths :
    \/ remote'[p] = remote[p]
    \/ remote'[p] = Torn /\ ~AtomicUpload
    \/ \E r \in Recordings :
         Tracked(r) /\ row[r].path = p /\ remote'[p] = r

\* Types of what is not the table.
OtherTypes ==
  /\ recording \in [Recordings -> {"absent", "live", "deleted"}]
  /\ want \in [Recordings -> Rendered \cup {NoPath}]
  /\ file \in [Recordings -> BOOLEAN]
  /\ proc \in [Owners -> {"off", "up", "stopping", "gone"}]
  /\ call \in [Calls -> CallState]
  /\ worker \in [Workers -> WorkerState]
  /\ remote \in [Paths -> Recordings \cup {Nothing, Torn}]

WantOK == \A r \in Recordings : recording[r] = "live" => want[r] \in Rendered

\* An object that is in its place stays there.
LEMMA ObjectsKept ==
  ASSUME IInv, UploadsOwn, AtomicUpload,
         NEW r \in Recordings, Tracked(r), remote[row[r].path] = r
  PROVE  remote'[row[r].path] = r
<1>1. row[r].path \in Paths /\ PathsAreUnique
  BY DEF IInv, StoreInv, RowOK
<1> QED
  BY <1>1 DEF UploadsOwn, PathsAreUnique

\* A step of the parts preserves the whole.
LEMMA StepOK ==
  ASSUME IInv, StoreInv', OtherTypes', WantOK', KeepsPaths, UploadsOwn,
         \A c \in Calls : CallKept(c) \/ CallOK(c)',
         \A w \in Workers : WorkerKept(w) \/ WorkerOK(w)',
         NEW S, SyncsOnly(S),
         \A r \in Recordings \cap S :
           Tracked(r) /\ (AtomicUpload => remote[row[r].path] = r)
  PROVE  IInv'
<1>1. TypeOK'
  BY DEF StoreInv, OtherTypes, TypeOK
<1>2. \A c \in Calls : CallOK(c)'
  BY DEF IInv, CallOK, CallKept, AtCall, KeepsPaths
<1>3. \A w \in Workers : WorkerOK(w)'
  <2> SUFFICES ASSUME NEW w \in Workers, WorkerKept(w), worker'[w].pc # "free"
               PROVE  WorkerOK(w)'
    BY DEF WorkerOK, AtWorker
  <2>1. /\ worker[w].rec \in Recordings /\ Tracked(worker[w].rec)
        /\ worker[w].owner \in Owners
        /\ worker[w].path = row[worker[w].rec].path
        /\ AtomicUpload /\ worker[w].pc = "synced" =>
             remote[worker[w].path] = worker[w].rec
    BY DEF IInv, WorkerOK, AtWorker, WorkerKept
  <2>2. AtomicUpload /\ worker[w].pc = "synced" =>
          remote'[worker[w].path] = worker[w].rec
    BY <2>1, ObjectsKept
  <2> QED
    BY <2>1, <2>2 DEF WorkerOK, AtWorker, WorkerKept, KeepsPaths
<1>4. ObjectsStayHome'
  <2> SUFFICES ASSUME NEW p \in Paths, NEW r \in Recordings, remote'[p] = r
               PROVE  row'[r].path = p
    BY DEF ObjectsStayHome
  <2>1. row[r].path = p /\ Tracked(r)
    BY StoreAssumption, CloudSyncAssumption
    DEF IInv, ObjectsStayHome, UploadsOwn, StoreInv, RowOK
  <2> QED BY <2>1 DEF KeepsPaths
<1>5. SyncedIsBackedUp'
  <2> SUFFICES ASSUME AtomicUpload, NEW r \in Recordings, row'[r].status = "synced"
               PROVE  remote'[row'[r].path] = r
    BY DEF SyncedIsBackedUp
  <2>1. Tracked(r) /\ remote[row[r].path] = r
    BY DEF IInv, SyncedIsBackedUp, SyncsOnly, Tracked
  <2>2. remote'[row[r].path] = r
    BY <2>1, ObjectsKept
  <2> QED BY <2>1, <2>2 DEF KeepsPaths
<1> QED
  BY <1>1, <1>2, <1>3, <1>4, <1>5 DEF IInv, WantOK

\* A step that leaves the table and the remote alone.
LEMMA LocalStepOK ==
  ASSUME IInv, UNCHANGED <<row, remote>>, OtherTypes', WantOK',
         \A c \in Calls : CallKept(c) \/ CallOK(c)',
         \A w \in Workers : WorkerKept(w) \/ WorkerOK(w)'
  PROVE  IInv'
<1>1. StoreInv' /\ KeepsPaths /\ SyncsOnly({})
  BY DEF IInv, StoreInv, StoreTypeOK, RowOK, PathsAreUnique, Tracked, KeepsPaths, SyncsOnly
<1>2. UploadsOwn
  BY DEF UploadsOwn
<1> QED
  BY <1>1, <1>2, StepOK

\* The initial states satisfy the invariant.
LEMMA InitOK == Init => IInv
<1> SUFFICES ASSUME Init PROVE IInv
  OBVIOUS
<1> USE StoreAssumption, CloudSyncAssumption DEF Init
<1>1. StoreInv
  BY StoreInitOK
<1>2. OtherTypes
  <2>1. IdleCall \in CallState
    BY DEF IdleCall, CallState, CallPC
  <2>2. FreeWorker \in WorkerState
    BY DEF FreeWorker, WorkerState, WorkerPC
  <2> QED BY <2>1, <2>2 DEF OtherTypes
<1>3. (\A c \in Calls : CallOK(c)) /\ (\A w \in Workers : WorkerOK(w)) /\ WantOK
  BY DEF CallOK, WorkerOK, AtCall, AtWorker, IdleCall, FreeWorker, WantOK
<1>4. ObjectsStayHome
  BY DEF ObjectsStayHome
<1>5. SyncedIsBackedUp
  BY DEF SyncedIsBackedUp, StoreInit, Untracked
<1> QED
  BY <1>1, <1>2, <1>3, <1>4, <1>5 DEF IInv, TypeOK, StoreInv, OtherTypes, WantOK

(* The slots. *)

\* A call that ends frees its slot.
LEMMA EndCallOK ==
  ASSUME IInv, NEW c \in Calls, EndCall(c)
  PROVE  call' \in [Calls -> CallState] /\ \A d \in Calls : CallKept(d)
<1>1. IdleCall \in CallState /\ call \in [Calls -> CallState]
  BY DEF IdleCall, CallState, CallPC, IInv, TypeOK
<1> QED
  BY <1>1 DEF EndCall, CallKept, IdleCall

\* A worker that ends frees its slot.
LEMMA EndWorkerOK ==
  ASSUME IInv, NEW w \in Workers, EndWorker(w)
  PROVE  worker' \in [Workers -> WorkerState] /\ \A v \in Workers : WorkerKept(v)
<1>1. FreeWorker \in WorkerState /\ worker \in [Workers -> WorkerState]
  BY DEF FreeWorker, WorkerState, WorkerPC, IInv, TypeOK
<1>2. \A v \in Workers : worker'[v] = IF v = w THEN FreeWorker ELSE worker[v]
  BY <1>1 DEF EndWorker
<1>3. \A v \in Workers : WorkerKept(v)
  BY <1>2 DEF WorkerKept, FreeWorker
<1> QED
  BY <1>1, <1>3 DEF EndWorker

\* A worker that moves to another point, success apart.
LEMMA GotoOK ==
  ASSUME IInv, NEW w \in Workers, NEW pc \in WorkerPC \ {"synced"},
         worker[w].pc # "free", Goto(w, pc)
  PROVE  worker' \in [Workers -> WorkerState] /\ \A v \in Workers : WorkerKept(v)
<1>1. worker \in [Workers -> WorkerState]
  BY DEF IInv, TypeOK
<1>2. [worker[w] EXCEPT !.pc = pc] \in WorkerState
  BY <1>1 DEF WorkerState
<1>3. \A v \in Workers :
        worker'[v] = IF v = w THEN [worker[w] EXCEPT !.pc = pc] ELSE worker[v]
  BY <1>1 DEF Goto
<1>4. worker' \in [Workers -> WorkerState]
  BY <1>1, <1>2 DEF Goto
<1>5. \A v \in Workers : WorkerKept(v)
  BY <1>1, <1>3 DEF WorkerKept, WorkerState
<1> QED
  BY <1>4, <1>5

\* A step that leaves the table, the remote and every slot as they were.
LEMMA SameOK ==
  ASSUME IInv
  PROVE  /\ OtherTypes /\ WantOK
         /\ UNCHANGED call => \A c \in Calls : CallKept(c)
         /\ UNCHANGED worker => \A w \in Workers : WorkerKept(w)
         /\ UNCHANGED remote => UploadsOwn
  BY DEF IInv, TypeOK, OtherTypes, WantOK, CallKept, WorkerKept, UploadsOwn

\* Writing an object to a path of the row, or nothing, keeps the remote typed.
LEMMA UploadsOrNotOK ==
  ASSUME IInv, NEW w \in Workers, ~AtWorker(w, "free"), UploadsOrNot(w)
  PROVE  remote' \in [Paths -> Recordings \cup {Nothing, Torn}] /\ UploadsOwn
  BY DEF IInv, TypeOK, WorkerOK, UploadsOrNot, UploadsOwn

----------------------------------------------------------------------------
(* One lemma per action. *)

\* Uploading, renaming, deleting and losing a file (Publish, Rename, SoftDelete, FileChanges).
LEMMA RecordingOK ==
  ASSUME IInv, NEW r \in Recordings, RecordingStep(r)
  PROVE  IInv'
<1>0. OtherTypes /\ WantOK
  BY SameOK
<1>1. ASSUME NEW p \in Rendered, Publish(r, p) PROVE IInv'
  <2>1. UNCHANGED <<row, proc, call, worker, remote>>
    BY <1>1 DEF Publish
  <2>2. OtherTypes' /\ WantOK'
    BY <1>0, <1>1 DEF Publish, OtherTypes, WantOK
  <2> QED BY <2>1, <2>2, SameOK, LocalStepOK
<1>2. ASSUME NEW p \in Rendered, Rename(r, p) PROVE IInv'
  <2>1. UNCHANGED <<row, proc, call, worker, remote>>
    BY <1>2 DEF Rename
  <2>2. OtherTypes' /\ WantOK'
    BY <1>0, <1>2 DEF Rename, OtherTypes, WantOK
  <2> QED BY <2>1, <2>2, SameOK, LocalStepOK
<1>3. CASE SoftDelete(r)
  <2>1. UNCHANGED <<row, proc, call, worker, remote>>
    BY <1>3 DEF SoftDelete
  <2>2. OtherTypes' /\ WantOK'
    BY <1>0, <1>3 DEF SoftDelete, OtherTypes, WantOK
  <2> QED BY <2>1, <2>2, SameOK, LocalStepOK
<1>4. CASE FileChanges(r)
  <2>1. UNCHANGED <<row, proc, call, worker, remote>>
    BY <1>4 DEF FileChanges
  <2>2. OtherTypes' /\ WantOK'
    BY <1>0, <1>4 DEF FileChanges, OtherTypes, WantOK
  <2> QED BY <2>1, <2>2, SameOK, LocalStepOK
<1>5. CASE TimePasses(r)
  <2>1. StoreInv' /\ KeepsPaths /\ SyncsOnly({})
    BY <1>5, TimeOK DEF TimePasses, IInv
  <2>2. UNCHANGED <<recording, want, file, proc, call, worker, remote>>
    BY <1>5 DEF TimePasses, disk
  <2>3. OtherTypes' /\ WantOK'
    BY <1>0, <2>2 DEF OtherTypes, WantOK
  <2> QED BY <2>1, <2>2, <2>3, SameOK, StepOK
<1> QED
  BY <1>1, <1>2, <1>3, <1>4, <1>5 DEF RecordingStep

\* A call that moves to another point.
LEMMA CallMovesOK ==
  ASSUME IInv, NEW c \in Calls, NEW next \in CallState,
         call' = [call EXCEPT ![c] = next], CallOK(c)',
         UNCHANGED <<row, disk, proc, worker, remote>>
  PROVE  IInv'
<1>1. call \in [Calls -> CallState]
  BY DEF IInv, TypeOK
<1>2. \A d \in Calls : CallKept(d) \/ CallOK(d)'
  BY <1>1 DEF CallKept
<1>3. OtherTypes' /\ WantOK'
  BY <1>1, SameOK DEF OtherTypes, WantOK, disk
<1> QED
  BY <1>2, <1>3, SameOK, LocalStepOK

\* A call that ends without having changed anything.
LEMMA CallEndsOK ==
  ASSUME IInv, NEW c \in Calls, EndCall(c),
         UNCHANGED <<row, disk, proc, worker, remote>>
  PROVE  IInv'
<1>1. OtherTypes' /\ WantOK'
  BY SameOK, EndCallOK DEF OtherTypes, WantOK, disk
<1> QED
  BY <1>1, SameOK, EndCallOK, LocalStepOK

\* The scheduler or an upload picks a recording (Reconcile, EnqueueRecording).
LEMMA StartAutoOK ==
  ASSUME IInv, NEW c \in Calls, NEW o \in Owners, NEW r \in Recordings,
         StartAuto(c, o, r)
  PROVE  IInv'
<1> DEFINE next == [IdleCall EXCEPT !.pc = "get", !.owner = o, !.rec = r,
                                    !.path = want[r]]
<1>1. call \in [Calls -> CallState] /\ want[r] \in Rendered /\ want[r] \in Paths
  BY CloudSyncAssumption DEF IInv, TypeOK, StartAuto
<1>2. next.pc = "get" /\ next.owner = o /\ next.rec = r /\ ~next.retry
      /\ next.path = want[r]
  BY DEF IdleCall
<1>3. next \in CallState
  BY <1>1 DEF IdleCall, CallState, CallPC
<1>4. call' = [call EXCEPT ![c] = next] /\ call'[c] = next
  BY <1>1 DEF StartAuto
<1>5. CallOK(c)'
  BY <1>1, <1>2, <1>4 DEF CallOK, AtCall
<1> HIDE DEF next
<1> QED
  BY <1>3, <1>4, <1>5, CallMovesOK DEF StartAuto

\* The admin retries a recording (ForceRetry).
LEMMA StartRetryOK ==
  ASSUME IInv, NEW c \in Calls, NEW o \in Owners, NEW r \in Recordings,
         StartRetry(c, o, r)
  PROVE  IInv'
<1> DEFINE next == [IdleCall EXCEPT !.pc = "stat", !.owner = o, !.rec = r,
                                    !.retry = TRUE, !.known = TRUE]
<1>1. call \in [Calls -> CallState]
  BY DEF IInv, TypeOK
<1>2. next.pc = "stat" /\ next.owner = o /\ next.rec = r /\ next.retry
  BY DEF IdleCall
<1>3. next \in CallState
  BY DEF IdleCall, CallState, CallPC
<1>4. call' = [call EXCEPT ![c] = next] /\ call'[c] = next
  BY <1>1 DEF StartRetry
<1>5. CallOK(c)'
  BY <1>2, <1>4 DEF CallOK, AtCall, StartRetry, Tracked
<1> HIDE DEF next
<1> QED
  BY <1>3, <1>4, <1>5, CallMovesOK DEF StartRetry

\* processCandidate reads the row.
LEMMA GetStateOK ==
  ASSUME IInv, NEW c \in Calls, GetState(c)
  PROVE  IInv'
<1> DEFINE next == [call[c] EXCEPT !.pc = "stat", !.known = Tracked(call[c].rec)]
<1>1. call[c] \in CallState /\ call \in [Calls -> CallState] /\ CallOK(c)
  BY DEF IInv, TypeOK
<1>2. Tracked(call[c].rec) \in BOOLEAN
  BY DEF Tracked
<1>3. /\ next \in CallState /\ next.pc = "stat" /\ next.owner = call[c].owner
      /\ next.rec = call[c].rec /\ next.retry = call[c].retry
      /\ next.path = call[c].path
  BY <1>1, <1>2 DEF CallState, CallPC
<1>4. CASE row[call[c].rec].status = "synced"
  BY <1>4, CallEndsOK DEF GetState
<1>5. CASE row[call[c].rec].status # "synced"
  <2>1. call' = [call EXCEPT ![c] = next]
    BY <1>5 DEF GetState
  <2> HIDE DEF next
  <2>2. call'[c] = next /\ UNCHANGED row
    BY <1>1, <2>1 DEF GetState
  <2>3. CallOK(c)'
    BY <1>1, <1>3, <2>2 DEF GetState, CallOK, AtCall, Tracked
  <2> QED
    BY <1>3, <2>1, <2>3, CallMovesOK DEF GetState
<1> QED BY <1>4, <1>5

\* processCandidate stats the local file.
LEMMA StatLocalOK ==
  ASSUME IInv, NEW c \in Calls, StatLocal(c)
  PROVE  IInv'
<1> DEFINE next == [call[c] EXCEPT !.pc = "claim", !.local = file[call[c].rec]]
<1>1. /\ call[c] \in CallState /\ call \in [Calls -> CallState] /\ CallOK(c)
      /\ file \in [Recordings -> BOOLEAN]
  BY DEF IInv, TypeOK
<1>2. file[call[c].rec] \in BOOLEAN
  BY <1>1 DEF CallOK, AtCall, StatLocal
<1>3. /\ next \in CallState /\ next.pc = "claim" /\ next.owner = call[c].owner
      /\ next.rec = call[c].rec /\ next.retry = call[c].retry
      /\ next.path = call[c].path
  BY <1>1, <1>2 DEF CallState, CallPC
<1>4. CASE ~file[call[c].rec] /\ ~call[c].known
  BY <1>4, CallEndsOK DEF StatLocal
<1>5. CASE ~(~file[call[c].rec] /\ ~call[c].known)
  <2>1. call' = [call EXCEPT ![c] = next]
    BY <1>5 DEF StatLocal
  <2> HIDE DEF next
  <2>2. call'[c] = next /\ UNCHANGED row
    BY <1>1, <2>1 DEF StatLocal
  <2>3. CallOK(c)'
    BY <1>1, <1>3, <2>2 DEF StatLocal, CallOK, AtCall, Tracked
  <2> QED
    BY <1>3, <2>1, <2>3, CallMovesOK DEF StatLocal
<1> QED BY <1>4, <1>5

\* The unique index refuses the path, and the suffixed one is tried.
LEMMA PathConflictOK ==
  ASSUME IInv, NEW c \in Calls, PathConflict(c)
  PROVE  IInv'
<1> DEFINE suffixed == SuffixPath[<<call[c].path, call[c].rec>>]
           next == [call[c] EXCEPT !.pc = "suffix", !.path = suffixed]
<1>1. /\ call[c] \in CallState /\ call \in [Calls -> CallState] /\ CallOK(c)
      /\ AtCall(c, "claim") /\ ~call[c].retry
  BY DEF IInv, TypeOK, PathConflict, Conflicts
<1>2. suffixed \in Paths
  BY <1>1, CloudSyncAssumption DEF CallOK, AtCall
<1> HIDE DEF suffixed
<1>3. /\ next \in CallState /\ next.pc = "suffix" /\ next.owner = call[c].owner
      /\ next.rec = call[c].rec /\ next.retry = call[c].retry
      /\ next.path = suffixed
  BY <1>1, <1>2 DEF CallState, CallPC
<1>4. call' = [call EXCEPT ![c] = next]
  BY DEF PathConflict, suffixed
<1> HIDE DEF next
<1>5. call'[c] = next /\ UNCHANGED row
  BY <1>1, <1>4 DEF PathConflict
<1>6. CallOK(c)'
  BY <1>1, <1>2, <1>3, <1>5 DEF CallOK, AtCall
<1> QED
  BY <1>3, <1>4, <1>6, CallMovesOK DEF PathConflict

\* A claim the store granted to call c.
LEMMA GrantOK ==
  ASSUME IInv, NEW c \in Calls, Claiming(c), Grants(c),
         Claim(call[c].rec, call[c].path, call[c].owner)
  PROVE  /\ call[c].rec \in Recordings /\ call[c].owner \in Owners
         /\ StoreInv' /\ KeepsPaths /\ SyncsOnly({})
         /\ row'[call[c].rec].status # "untracked"
         /\ row'[call[c].rec].path = ClaimedPath(call[c].rec, call[c].path)
<1>1. CallOK(c) /\ StoreInv
  BY DEF IInv
<1>2. call[c].rec \in Recordings /\ call[c].owner \in Owners
  BY <1>1 DEF CallOK, AtCall, Claiming
<1>3. \/ ClaimNewSucceeds(call[c].rec, call[c].path) /\ call[c].path \in Paths
      \/ ClaimRetrySucceeds(call[c].rec)
  BY <1>1, CloudSyncAssumption DEF CallOK, AtCall, Claiming, Grants
<1> QED
  BY <1>1, <1>2, <1>3, ClaimOK DEF Tracked

\* The claim is granted and a worker dispatched, or the missing file reported.
LEMMA ClaimGrantedOK ==
  ASSUME IInv, NEW c \in Calls, ClaimGranted(c)
  PROVE  IInv'
<1> DEFINE r == call[c].rec
           o == call[c].owner
<1>1. /\ r \in Recordings /\ o \in Owners
      /\ StoreInv' /\ KeepsPaths /\ SyncsOnly({})
      /\ row'[r].status # "untracked"
      /\ row'[r].path = ClaimedPath(r, call[c].path)
  BY GrantOK DEF ClaimGranted
<1>2. /\ call \in [Calls -> CallState] /\ worker \in [Workers -> WorkerState]
      /\ row[r] \in Row
  BY <1>1 DEF IInv, TypeOK, StoreTypeOK
<1>3. UNCHANGED <<recording, want, file, proc, remote>>
  BY DEF ClaimGranted, disk
<1>4. CASE call[c].local
  <2> DEFINE new == [pc |-> "queued", owner |-> o, rec |-> r,
                     path |-> ClaimedPath(r, call[c].path),
                     attempts |-> row[r].attempts + 1, lost |-> FALSE]
  <2>1. EndCall(c)
    BY <1>4 DEF ClaimGranted
  <2>2. PICK w \in Workers : worker[w].pc = "free" /\ worker' = [worker EXCEPT ![w] = new]
    BY <1>4 DEF ClaimGranted
  <2>3. ClaimedPath(r, call[c].path) \in Paths \cup {NoPath}
    BY <1>1 DEF StoreInv, StoreTypeOK, Row
  <2>4. new \in WorkerState
    BY <1>1, <1>2, <2>3 DEF WorkerState, WorkerPC, Row
  <2>5. /\ new.pc = "queued" /\ new.owner = o /\ new.rec = r
        /\ new.path = ClaimedPath(r, call[c].path)
    OBVIOUS
  <2> HIDE DEF new
  <2>6. worker' \in [Workers -> WorkerState] /\ worker'[w] = new
        /\ \A v \in Workers \ {w} : worker'[v] = worker[v]
    BY <1>2, <2>2, <2>4
  <2>7. WorkerOK(w)'
    BY <1>1, <2>5, <2>6 DEF WorkerOK, AtWorker, Tracked
  <2>8. \A v \in Workers : WorkerKept(v) \/ WorkerOK(v)'
    BY <2>6, <2>7 DEF WorkerKept
  <2>9. OtherTypes' /\ WantOK'
    BY <1>3, <2>1, <2>6, SameOK, EndCallOK DEF OtherTypes, WantOK
  <2> QED
    BY <1>1, <1>3, <2>1, <2>8, <2>9, SameOK, EndCallOK, StepOK
<1>5. CASE ~call[c].local
  <2>1. call' = [call EXCEPT ![c].pc = "mark"] /\ UNCHANGED worker
    BY <1>5 DEF ClaimGranted
  <2>2. [call[c] EXCEPT !.pc = "mark"] \in CallState
    BY <1>2 DEF CallState, CallPC
  <2>3. /\ call' \in [Calls -> CallState]
        /\ call'[c] = [call[c] EXCEPT !.pc = "mark"]
        /\ \A d \in Calls \ {c} : call'[d] = call[d]
    BY <1>2, <2>1, <2>2
  <2>4. CallOK(c)'
    BY <1>1, <1>2, <2>3 DEF CallOK, AtCall, CallState, Tracked
  <2>5. \A d \in Calls : CallKept(d) \/ CallOK(d)'
    BY <2>3, <2>4 DEF CallKept
  <2>6. OtherTypes' /\ WantOK'
    BY <1>3, <2>1, <2>3, SameOK DEF OtherTypes, WantOK
  <2> QED
    BY <1>1, <1>3, <2>1, <2>5, <2>6, SameOK, StepOK
<1> QED BY <1>4, <1>5

\* The claim is committed and its reply lost.
LEMMA ClaimReplyLostOK ==
  ASSUME IInv, NEW c \in Calls, ClaimReplyLost(c)
  PROVE  IInv'
<1>1. StoreInv' /\ KeepsPaths /\ SyncsOnly({})
  BY GrantOK DEF ClaimReplyLost
<1>2. EndCall(c) /\ UNCHANGED <<recording, want, file, proc, worker, remote>>
  BY DEF ClaimReplyLost, disk
<1>3. OtherTypes' /\ WantOK'
  BY <1>2, SameOK, EndCallOK DEF OtherTypes, WantOK
<1> QED
  BY <1>1, <1>2, <1>3, SameOK, EndCallOK, StepOK

\* The claim of a missing file ends as an error.
LEMMA MarkMissingOK ==
  ASSUME IInv, NEW c \in Calls, MarkMissing(c)
  PROVE  IInv'
<1>1. call[c].rec \in Recordings /\ call[c].owner \in Owners /\ StoreInv
  BY DEF IInv, CallOK, MarkMissing, AtCall
<1>2. StoreInv' /\ KeepsPaths /\ SyncsOnly({})
  BY <1>1, MarkErrorOK DEF MarkMissing, ErrorClass
<1>3. EndCall(c) /\ UNCHANGED <<recording, want, file, proc, worker, remote>>
  BY DEF MarkMissing, disk
<1>4. OtherTypes' /\ WantOK'
  BY <1>3, SameOK, EndCallOK DEF OtherTypes, WantOK
<1> QED
  BY <1>2, <1>3, <1>4, SameOK, EndCallOK, StepOK

\* Every step of a call.
LEMMA CallOKStep ==
  ASSUME IInv, NEW c \in Calls, CallStep(c)
  PROVE  IInv'
<1>1. CASE ClaimRefused(c)
  BY <1>1, CallEndsOK DEF ClaimRefused
<1>2. CASE CallFails(c)
  BY <1>2, CallEndsOK DEF CallFails
<1> QED
  BY <1>1, <1>2, StartAutoOK, StartRetryOK, GetStateOK, StatLocalOK, PathConflictOK,
     ClaimGrantedOK, ClaimReplyLostOK, MarkMissingOK
  DEF CallStep

\* A worker that changes nothing outside its slot.
LEMMA WorkerMovesOK ==
  ASSUME IInv, worker' \in [Workers -> WorkerState],
         \A v \in Workers : WorkerKept(v) \/ WorkerOK(v)',
         UNCHANGED <<row, disk, proc, call, remote>>
  PROVE  IInv'
<1>1. OtherTypes' /\ WantOK'
  BY SameOK DEF OtherTypes, WantOK, disk
<1> QED
  BY <1>1, SameOK, LocalStepOK

\* A queued worker gets the semaphore.
LEMMA AcquireOK ==
  ASSUME IInv, NEW w \in Workers, Acquire(w)
  PROVE  IInv'
<1> DEFINE pc == IF file[worker[w].rec] THEN "copy" ELSE "missing"
<1>1. pc \in WorkerPC \ {"synced"}
  BY DEF WorkerPC
<1>2. Goto(w, pc) /\ worker[w].pc # "free"
  BY DEF Acquire, AtWorker
<1> HIDE DEF pc
<1> QED
  BY <1>1, <1>2, GotoOK, WorkerMovesOK DEF Acquire

\* A worker that a heartbeat tells its lease is lost.
LEMMA LoseLeaseOK ==
  ASSUME IInv, NEW w \in Workers, Heartbeating(w), LoseLease(w),
         UNCHANGED <<disk, proc, call, remote>>
  PROVE  IInv'
<1>1. worker \in [Workers -> WorkerState]
  BY DEF IInv, TypeOK
<1>2. [worker[w] EXCEPT !.lost = TRUE] \in WorkerState
  BY <1>1 DEF WorkerState
<1>3. \A v \in Workers :
        worker'[v] = IF v = w THEN [worker[w] EXCEPT !.lost = TRUE] ELSE worker[v]
  BY <1>1 DEF LoseLease
<1>4. worker' \in [Workers -> WorkerState]
  BY <1>1, <1>2 DEF LoseLease
<1>5. \A v \in Workers : WorkerKept(v)
  BY <1>1, <1>3 DEF WorkerKept, WorkerState
<1> QED
  BY <1>4, <1>5, WorkerMovesOK DEF LoseLease

\* A heartbeat renews the lease or finds it lost.
LEMMA HeartbeatOK ==
  ASSUME IInv, NEW w \in Workers, Heartbeat(w)
  PROVE  IInv'
<1>1. CASE RenewLease(worker[w].rec, worker[w].owner) /\ UNCHANGED worker
  <2>1. worker[w].rec \in Recordings /\ worker[w].owner \in Owners /\ StoreInv
    BY DEF IInv, WorkerOK, Heartbeat, Heartbeating, AtWorker
  <2>2. StoreInv' /\ KeepsPaths /\ SyncsOnly({})
    BY <1>1, <2>1, RenewLeaseOK
  <2>3. UNCHANGED <<recording, want, file, proc, call, worker, remote>>
    BY <1>1 DEF Heartbeat, disk
  <2>4. OtherTypes' /\ WantOK'
    BY <2>3, SameOK DEF OtherTypes, WantOK
  <2> QED
    BY <2>2, <2>3, <2>4, SameOK, StepOK
<1>2. CASE ~Fenced(worker[w].rec, worker[w].owner) /\ LoseLease(w)
  BY <1>2, LoseLeaseOK DEF Heartbeat
<1> QED
  BY <1>1, <1>2 DEF Heartbeat

\* rclone has written part of the object.
LEMMA UploadTearsOK ==
  ASSUME IInv, NEW w \in Workers, UploadTears(w)
  PROVE  IInv'
<1>1. remote \in [Paths -> Recordings \cup {Nothing, Torn}]
  BY DEF IInv, TypeOK
<1>2. /\ remote' \in [Paths -> Recordings \cup {Nothing, Torn}]
      /\ UploadsOwn
  BY <1>1 DEF UploadTears, UploadsOwn
<1>3. StoreInv' /\ KeepsPaths /\ SyncsOnly({})
  BY DEF UploadTears, IInv, StoreInv, StoreTypeOK, RowOK, PathsAreUnique,
         Tracked, KeepsPaths, SyncsOnly
<1>4. UNCHANGED <<recording, want, file, proc, call, worker>>
  BY DEF UploadTears, disk
<1>5. OtherTypes' /\ WantOK'
  BY <1>2, <1>4, SameOK DEF OtherTypes, WantOK
<1> QED
  BY <1>2, <1>3, <1>4, <1>5, SameOK, StepOK

\* rclone's end, and what the worker does next.
LEMMA UploadOK ==
  ASSUME IInv, NEW w \in Workers, ~AtWorker(w, "free"), UploadsOrNot(w),
         worker' \in [Workers -> WorkerState],
         \A v \in Workers : WorkerKept(v),
         UNCHANGED <<row, disk, proc, call>>
  PROVE  IInv'
<1>1. StoreInv' /\ KeepsPaths /\ SyncsOnly({})
  BY DEF IInv, StoreInv, StoreTypeOK, RowOK, PathsAreUnique, Tracked,
         KeepsPaths, SyncsOnly
<1>2. UNCHANGED <<recording, want, file, proc, call>>
  BY DEF disk
<1>3. OtherTypes' /\ WantOK'
  BY <1>2, SameOK, UploadsOrNotOK DEF OtherTypes, WantOK
<1> QED
  BY <1>1, <1>2, <1>3, SameOK, UploadsOrNotOK, StepOK

\* Copy returns.
LEMMA CopyEndsOK ==
  ASSUME IInv, NEW w \in Workers, NEW failed \in BOOLEAN, CopyEnds(w, failed)
  PROVE  IInv'
<1> DEFINE pc == IF failed THEN "copy_failed" ELSE "verify"
<1>1. pc \in WorkerPC \ {"synced"}
  BY DEF WorkerPC
<1>2. EndWorker(w) \/ Goto(w, pc)
  BY DEF CopyEnds
<1> HIDE DEF pc
<1>3. worker[w].pc # "free" /\ ~AtWorker(w, "free")
  BY DEF CopyEnds, AtWorker
<1>4. worker' \in [Workers -> WorkerState] /\ \A v \in Workers : WorkerKept(v)
  BY <1>1, <1>2, <1>3, EndWorkerOK, GotoOK
<1> QED
  BY <1>3, <1>4, UploadOK DEF CopyEnds

\* The worker compares the size of the remote object with the local file's.
LEMMA VerifyOK ==
  ASSUME IInv, NEW w \in Workers, Verify(w)
  PROVE  IInv'
<1>1. worker[w].pc # "free" /\ UNCHANGED <<row, disk, proc, call, remote>>
  BY DEF Verify, AtWorker
<1>2. CASE EndWorker(w)
  BY <1>1, <1>2, EndWorkerOK, WorkerMovesOK
<1>3. CASE Goto(w, "verify_failed")
  BY <1>1, <1>3, GotoOK, WorkerMovesOK DEF WorkerPC
<1>4. CASE SizeMatches(w) /\ Goto(w, "synced")
  <2>1. worker \in [Workers -> WorkerState] /\ WorkerOK(w)
    BY DEF IInv, TypeOK
  <2>2. [worker[w] EXCEPT !.pc = "synced"] \in WorkerState
    BY <2>1 DEF WorkerState, WorkerPC
  <2>3. \A v \in Workers :
          worker'[v] = IF v = w THEN [worker[w] EXCEPT !.pc = "synced"] ELSE worker[v]
    BY <1>4, <2>1 DEF Goto
  <2>4. worker' \in [Workers -> WorkerState]
    BY <1>4, <2>1, <2>2 DEF Goto
  <2>5. /\ worker'[w].owner = worker[w].owner
        /\ worker'[w].rec = worker[w].rec
        /\ worker'[w].path = worker[w].path
    BY <2>1, <2>3 DEF WorkerState
  <2>6. /\ worker[w].owner \in Owners
        /\ worker[w].rec \in Recordings /\ Tracked(worker[w].rec)
        /\ worker[w].path = row[worker[w].rec].path
        /\ worker[w].path \in Paths
    BY <1>1, <2>1 DEF WorkerOK, AtWorker, IInv, StoreInv, RowOK
  <2>7. PICK r \in Recordings : remote[worker[w].path] = r
    BY <1>4 DEF SizeMatches
  <2>8. row[r].path = worker[w].path
    BY <2>6, <2>7 DEF IInv, ObjectsStayHome
  <2>9. remote[worker[w].path] = worker[w].rec
    BY <2>6, <2>7, <2>8 DEF IInv, StoreInv, PathsAreUnique
  <2>10. WorkerOK(w)'
    BY <1>1, <2>5, <2>6, <2>9 DEF WorkerOK, Tracked
  <2>11. \A v \in Workers : WorkerKept(v) \/ WorkerOK(v)'
    BY <2>3, <2>10 DEF WorkerKept
  <2> QED
    BY <1>1, <2>4, <2>11, WorkerMovesOK
<1> QED
  BY <1>2, <1>3, <1>4 DEF Verify

\* The worker writes its outcome.
LEMMA ReportOK ==
  ASSUME IInv, NEW w \in Workers, Report(w)
  PROVE  IInv'
<1> DEFINE r == worker[w].rec
           o == worker[w].owner
<1>1. /\ r \in Recordings /\ o \in Owners /\ StoreInv /\ Tracked(r)
      /\ AtomicUpload /\ AtWorker(w, "synced") => remote[row[r].path] = r
  BY DEF IInv, WorkerOK, Report, Reporting, AtWorker
<1>2. EndWorker(w) /\ UNCHANGED <<recording, want, file, proc, call, remote>>
  BY DEF Report, disk
<1>3. OtherTypes' /\ WantOK'
  BY <1>2, SameOK, EndWorkerOK DEF OtherTypes, WantOK
<1>4. CASE AtWorker(w, "synced")
  <2>1. MarkSynced(r, o)
    BY <1>4 DEF Report
  <2>2. StoreInv' /\ KeepsPaths /\ SyncsOnly({r})
    BY <1>1, <2>1, MarkSyncedOK
  <2> QED
    BY <1>1, <1>2, <1>3, <1>4, <2>2, SameOK, EndWorkerOK, StepOK
<1>5. CASE ~AtWorker(w, "synced")
  <2>1. PICK class \in ErrorClass : MarkError(r, o, class)
    BY <1>5 DEF Report, Reporting, ErrorClass, AtWorker
  <2>2. StoreInv' /\ KeepsPaths /\ SyncsOnly({})
    BY <1>1, <2>1, MarkErrorOK
  <2> QED
    BY <1>2, <1>3, <2>2, SameOK, EndWorkerOK, StepOK
<1> QED BY <1>4, <1>5

\* Every step of a worker.
LEMMA WorkerStepOK ==
  ASSUME IInv, NEW w \in Workers, WorkerStep(w)
  PROVE  IInv'
<1>1. CASE AbandonQueued(w)
  BY <1>1, EndWorkerOK, WorkerMovesOK DEF AbandonQueued
<1>2. CASE HeartbeatFails(w)
  BY <1>2, LoseLeaseOK DEF HeartbeatFails
<1>3. CASE ReportFails(w)
  BY <1>3, EndWorkerOK, WorkerMovesOK DEF ReportFails
<1>4. CASE StrayEnds(w)
  BY <1>4, EndWorkerOK, UploadOK DEF StrayEnds, AtWorker
<1> QED
  BY <1>1, <1>2, <1>3, <1>4, AcquireOK, HeartbeatOK, UploadTearsOK, CopyEndsOK,
     VerifyOK, ReportOK
  DEF WorkerStep

\* A process starts, stops, exits and recovers leases.
LEMMA ProcStepOK ==
  ASSUME IInv, NEW o \in Owners, ProcStep(o)
  PROVE  IInv'
<1>0. OtherTypes /\ WantOK
  BY SameOK
<1>1. CASE Start(o) \/ Stop(o)
  <2>1. UNCHANGED <<row, recording, want, file, call, worker, remote>>
    BY <1>1 DEF Start, Stop, disk
  <2>2. OtherTypes' /\ WantOK'
    BY <1>0, <1>1, <2>1 DEF Start, Stop, OtherTypes, WantOK
  <2> QED BY <2>1, <2>2, SameOK, LocalStepOK
<1>2. CASE Exit(o)
  <2>1. UNCHANGED <<row, recording, want, file, remote>>
    BY <1>2 DEF Exit, disk
  <2>2. IdleCall \in CallState /\ FreeWorker \in WorkerState
    BY DEF IdleCall, CallState, CallPC, FreeWorker, WorkerState, WorkerPC
  <2>3. /\ call' \in [Calls -> CallState]
        /\ \A c \in Calls : CallKept(c)
    BY <1>0, <1>2, <2>2 DEF Exit, OtherTypes, CallKept, IdleCall
  <2>4. \A w \in Workers :
          worker'[w] = IF worker[w].owner # o THEN worker[w]
                       ELSE IF AtWorker(w, "copy")
                            THEN [worker[w] EXCEPT !.pc = "stray"]
                            ELSE FreeWorker
    BY <1>2 DEF Exit
  <2>5. \A w \in Workers : [worker[w] EXCEPT !.pc = "stray"] \in WorkerState
    BY <1>0 DEF OtherTypes, WorkerState, WorkerPC
  <2>6. worker' \in [Workers -> WorkerState]
    BY <1>0, <1>2, <2>2, <2>5 DEF Exit, OtherTypes
  <2>7. \A w \in Workers : WorkerKept(w)
    <3> SUFFICES ASSUME NEW w \in Workers PROVE WorkerKept(w)
      OBVIOUS
    <3>1. CASE worker[w].owner # o
      BY <2>4, <3>1 DEF WorkerKept
    <3>2. CASE worker[w].owner = o /\ AtWorker(w, "copy")
      BY <1>0, <2>4, <3>2 DEF WorkerKept, AtWorker, OtherTypes, WorkerState
    <3>3. CASE worker[w].owner = o /\ ~AtWorker(w, "copy")
      <4>1. worker'[w] = FreeWorker
        BY <2>4, <3>3 DEF AtWorker
      <4> QED BY <4>1 DEF WorkerKept, FreeWorker
    <3> QED BY <3>1, <3>2, <3>3
  <2>8. proc' \in [Owners -> {"off", "up", "stopping", "gone"}]
    BY <1>0, <1>2 DEF Exit, OtherTypes
  <2>9. OtherTypes' /\ WantOK'
    BY <1>0, <2>1, <2>3, <2>6, <2>8 DEF OtherTypes, WantOK
  <2> QED BY <2>1, <2>3, <2>7, <2>9, LocalStepOK
<1>3. CASE Recover(o)
  <2>1. StoreInv' /\ KeepsPaths /\ SyncsOnly({})
    BY <1>3, RecoverOK DEF Recover, IInv
  <2>2. UNCHANGED <<recording, want, file, proc, call, worker, remote>>
    BY <1>3 DEF Recover, disk
  <2>3. OtherTypes' /\ WantOK'
    BY <1>0, <2>2 DEF OtherTypes, WantOK
  <2> QED BY <2>1, <2>2, <2>3, SameOK, StepOK
<1> QED
  BY <1>1, <1>2, <1>3 DEF ProcStep

----------------------------------------------------------------------------

\* IInv holds initially and every step of the service, stuttering included,
\* preserves it.
THEOREM Inductive == Spec => []IInv
<1>1. IInv /\ [Next]_vars => IInv'
  <2> SUFFICES ASSUME IInv, [Next]_vars PROVE IInv'
    OBVIOUS
  <2>1. CASE UNCHANGED vars
    <3>1. UNCHANGED <<row, recording, want, file, proc, call, worker, remote>>
      BY <2>1 DEF vars
    <3>2. OtherTypes' /\ WantOK'
      BY <3>1, SameOK DEF OtherTypes, WantOK
    <3> QED BY <3>1, <3>2, SameOK, LocalStepOK
  <2> QED
    BY <2>1, RecordingOK, CallOKStep, WorkerStepOK, ProcStepOK DEF Next
<1> QED BY InitOK, <1>1, PTL DEF Spec

\* Every variable keeps its type, whatever the number of recordings, calls,
\* workers and processes.
THEOREM TypesHold == Spec => []TypeOK
<1>1. IInv => TypeOK
  BY DEF IInv
<1> QED BY Inductive, <1>1, PTL

\* "synced" means the recording's own complete object is at its path, however
\* many processes, late workers and crashes there are.
THEOREM SyncedMeansBackedUp == Spec => []SyncedIsBackedUp
<1>1. IInv => SyncedIsBackedUp
  BY DEF IInv
<1> QED BY Inductive, <1>1, PTL

\* No object of a recording is anywhere but at its row's path.
THEOREM NoOrphanedObjects == Spec => []ObjectsStayHome
<1>1. IInv => ObjectsStayHome
  BY DEF IInv
<1> QED BY Inductive, <1>1, PTL

----------------------------------------------------------------------------
(* Every step is a step of Backup. *)

\* A claim is granted, and the call moves on.
Claims(c) ==
  /\ Claiming(c) /\ Grants(c) /\ Claim(call[c].rec, call[c].path, call[c].owner)
  /\ call'[c].pc \in {"idle", "mark"}

Clock(r) == LeaseExpires(r) \/ BackoffElapses(r)

Renews(w) == Heartbeating(w) /\ RenewLease(worker[w].rec, worker[w].owner)

MarksMissing(c) ==
  /\ AtCall(c, "mark")
  /\ MarkError(call[c].rec, call[c].owner, "local_missing")
  /\ EndCall(c)

\* A step that writes to the table.
TableStep ==
  \/ \E c \in Calls : Claims(c) \/ MarksMissing(c)
  \/ \E w \in Workers : Renews(w) \/ Report(w)
  \/ RecoverExpiredLeases
  \/ \E r \in Recordings : Clock(r)

\* A step in which an upload shows.
UploadStep ==
  \E w \in Workers :
    /\ ~AtWorker(w, "free")
    /\ UploadsOrNot(w) \/ (UploadTears(w) /\ ~AtomicUpload)

\* The table and the remote never change in one step.
LEMMA StepKinds ==
  ASSUME IInv, [Next]_vars
  PROVE  \/ UNCHANGED <<row, remote>>
         \/ TableStep /\ UNCHANGED remote
         \/ UploadStep /\ UNCHANGED row
<1>1. CASE UNCHANGED vars
  BY <1>1 DEF vars
<1>2. ASSUME NEW r \in Recordings, RecordingStep(r)
      PROVE  \/ UNCHANGED <<row, remote>>
             \/ TableStep /\ UNCHANGED remote
  BY <1>2 DEF RecordingStep, Publish, Rename, SoftDelete, FileChanges, TimePasses,
              TableStep, Clock
<1>3. ASSUME NEW c \in Calls, CallStep(c)
      PROVE  \/ UNCHANGED <<row, remote>>
             \/ TableStep /\ UNCHANGED remote
  <2>0. call \in [Calls -> CallState] /\ IdleCall.pc = "idle"
    BY DEF IInv, TypeOK, IdleCall
  <2>1. CASE ClaimGranted(c)
    <3>1. call'[c].pc \in {"idle", "mark"}
      BY <2>0, <2>1 DEF ClaimGranted, EndCall, CallState
    <3>2. Claims(c) /\ UNCHANGED remote
      BY <2>1, <3>1 DEF ClaimGranted, Claims
    <3> QED BY <3>2 DEF TableStep
  <2>2. CASE ClaimReplyLost(c)
    <3>1. call'[c].pc \in {"idle", "mark"}
      BY <2>0, <2>2 DEF ClaimReplyLost, EndCall
    <3>2. Claims(c) /\ UNCHANGED remote
      BY <2>2, <3>1 DEF ClaimReplyLost, Claims
    <3> QED BY <3>2 DEF TableStep
  <2>3. CASE MarkMissing(c)
    BY <2>3 DEF MarkMissing, TableStep, MarksMissing
  <2> QED
    BY <1>3, <2>1, <2>2, <2>3
    DEF CallStep, StartAuto, StartRetry, GetState, StatLocal, PathConflict,
        ClaimRefused, CallFails
<1>4. ASSUME NEW w \in Workers, WorkerStep(w)
      PROVE  \/ UNCHANGED <<row, remote>>
             \/ TableStep /\ UNCHANGED remote
             \/ UploadStep /\ UNCHANGED row
  <2>1. CASE Heartbeat(w)
    BY <2>1 DEF Heartbeat, LoseLease, TableStep, Renews
  <2>2. CASE Report(w)
    <3>1. UNCHANGED remote
      BY <2>2 DEF Report
    <3> QED BY <2>2, <3>1 DEF TableStep
  <2>3. CASE UploadTears(w)
    <3>1. ~AtWorker(w, "free") /\ ~AtomicUpload /\ UNCHANGED row
      BY <2>3 DEF UploadTears, AtWorker
    <3> QED BY <2>3, <3>1 DEF UploadStep
  <2>4. ASSUME NEW failed \in BOOLEAN, CopyEnds(w, failed)
        PROVE  UploadStep /\ UNCHANGED row
    BY <2>4 DEF CopyEnds, AtWorker, UploadStep
  <2>5. CASE StrayEnds(w)
    BY <2>5 DEF StrayEnds, AtWorker, UploadStep
  <2>6. CASE Acquire(w) \/ AbandonQueued(w) \/ HeartbeatFails(w) \/ Verify(w)
             \/ ReportFails(w)
    BY <2>6 DEF Acquire, AbandonQueued, HeartbeatFails, LoseLease, Verify, ReportFails
  <2> QED
    BY <1>4, <2>1, <2>2, <2>3, <2>4, <2>5, <2>6 DEF WorkerStep
<1>5. ASSUME NEW o \in Owners, ProcStep(o)
      PROVE  \/ UNCHANGED <<row, remote>>
             \/ TableStep /\ UNCHANGED remote
  BY <1>5 DEF ProcStep, Start, Stop, Exit, Recover, TableStep
<1> QED
  BY <1>1, <1>2, <1>3, <1>4, <1>5 DEF Next

----------------------------------------------------------------------------
(* What the statements do to a row. *)

\* A granted claim rewrites one row, which is not synced, and counts.
LEMMA ClaimEffect ==
  ASSUME IInv, NEW c \in Calls, Claims(c)
  PROVE  /\ call[c].rec \in Recordings
         /\ row[call[c].rec].status # "synced"
         /\ row'[call[c].rec].status = "syncing"
         /\ row'[call[c].rec].attempts = row[call[c].rec].attempts + 1
         /\ \A q \in Recordings \ {call[c].rec} : row'[q] = row[q]
<1>1. CallOK(c) /\ row \in [Recordings -> Row]
  BY DEF IInv, TypeOK, StoreTypeOK
<1>2. call[c].rec \in Recordings
  BY <1>1 DEF CallOK, AtCall, Claims, Claiming
<1>3. row[call[c].rec].status # "synced"
  BY DEF Claims, Grants, ClaimNewSucceeds, ClaimRetrySucceeds, LeaseRanOut, Tracked
<1> QED
  BY <1>1, <1>2, <1>3 DEF Claims, Claim

\* Attempts, path and synced rows are what they were.
RowsKept ==
  \A q \in Recordings :
    /\ row'[q].attempts = row[q].attempts
    /\ row'[q].path = row[q].path
    /\ Tracked(q)' = Tracked(q)
    /\ row[q].status = "synced" => row'[q] = row[q]

\* No statement but a claim counts an attempt, and no statement but
\* MarkSynced makes a row synced or changes one that is.
LEMMA OtherEffects ==
  ASSUME IInv,
         \/ \E c \in Calls : MarksMissing(c)
         \/ \E w \in Workers : Renews(w)
         \/ \E w \in Workers : Report(w)
         \/ RecoverExpiredLeases
         \/ \E r \in Recordings : Clock(r)
  PROVE  RowsKept
<1>0. /\ row \in [Recordings -> Row]
      /\ \A q \in Recordings : row[q] \in Row /\ RowOK(q)
  BY DEF IInv, TypeOK, StoreTypeOK, StoreInv
<1>1. ASSUME NEW r, NEW o, NEW class, MarkError(r, o, class) PROVE RowsKept
  BY <1>0, <1>1 DEF RowsKept, MarkError, Fenced, Tracked, Row
<1>2. ASSUME NEW r, NEW o, MarkSynced(r, o) PROVE RowsKept
  BY <1>0, <1>2 DEF RowsKept, MarkSynced, Fenced, Tracked, Row
<1>3. ASSUME NEW r, NEW o, RenewLease(r, o) PROVE RowsKept
  BY <1>0, <1>3 DEF RowsKept, RenewLease, Fenced, Tracked, Row
<1>4. CASE RecoverExpiredLeases
  BY <1>0, <1>4 DEF RowsKept, RecoverExpiredLeases, LeaseRanOut, Tracked, Row
<1>5. ASSUME NEW r \in Recordings, LeaseExpires(r) PROVE RowsKept
  BY <1>0, <1>5 DEF RowsKept, LeaseExpires, RowOK, Tracked, Row
<1>6. ASSUME NEW r \in Recordings, BackoffElapses(r) PROVE RowsKept
  BY <1>0, <1>6 DEF RowsKept, BackoffElapses, RowOK, Tracked, Row
<1>7. ASSUME NEW w \in Workers, Report(w) PROVE RowsKept
  <2>1. CASE AtWorker(w, "synced")
    BY <1>2, <1>7, <2>1 DEF Report
  <2>2. CASE ~AtWorker(w, "synced")
    BY <1>1, <1>7, <2>2 DEF Report
  <2> QED BY <2>1, <2>2
<1>8. ASSUME NEW c \in Calls, MarksMissing(c) PROVE RowsKept
  BY <1>1, <1>8 DEF MarksMissing
<1>9. ASSUME NEW w \in Workers, Renews(w) PROVE RowsKept
  BY <1>3, <1>9 DEF Renews
<1>10. ASSUME NEW r \in Recordings, Clock(r) PROVE RowsKept
  BY <1>5, <1>6, <1>10 DEF Clock
<1>11. CASE \E c \in Calls : MarksMissing(c)
  BY <1>8, <1>11
<1>12. CASE \E w \in Workers : Renews(w)
  BY <1>9, <1>12
<1>13. CASE \E w \in Workers : Report(w)
  BY <1>7, <1>13
<1>14. CASE \E r \in Recordings : Clock(r)
  BY <1>10, <1>14
<1>15. RowsKept
  BY <1>4, <1>11, <1>12, <1>13, <1>14
<1> QED BY <1>15

----------------------------------------------------------------------------
(* Action properties. *)

\* Every step leaves a synced row as it is.
LEMMA SyncedStays ==
  ASSUME IInv, [Next]_vars, NEW r \in Recordings, row[r].status = "synced"
  PROVE  row'[r] = row[r]
<1>1. CASE UNCHANGED row
  BY <1>1
<1>2. ASSUME NEW c \in Calls, Claims(c) PROVE row'[r] = row[r]
  BY <1>2, ClaimEffect
<1>3. CASE TableStep
  BY <1>2, <1>3, OtherEffects DEF TableStep, RowsKept
<1> QED BY <1>1, <1>3, StepKinds

\* A synced row is final, however many processes, late workers, recovery
\* rounds and Retry clicks there are (ClaimNew, ClaimRetry, MarkError).
THEOREM SyncedStaysSynced == Spec => SyncedIsFinal
<1>1. IInv /\ [Next]_vars =>
        [\A r \in Recordings : row[r].status = "synced" => row'[r] = row[r]]_vars
  BY SyncedStays
<1> QED BY <1>1, Inductive, PTL DEF Spec, SyncedIsFinal

\* Every step replaces an object by itself or by a torn one.
LEMMA ObjectsStay ==
  ASSUME IInv, [Next]_vars, NEW p \in Paths, remote[p] \in Recordings
  PROVE  remote'[p] \in {remote[p], Torn}
<1>1. CASE UNCHANGED remote
  BY <1>1
<1>2. ASSUME NEW w \in Workers, ~AtWorker(w, "free"),
             UploadsOrNot(w) \/ UploadTears(w)
      PROVE  remote'[p] \in {remote[p], Torn}
  <2>1. /\ remote \in [Paths -> Recordings \cup {Nothing, Torn}]
        /\ worker[w].rec \in Recordings /\ Tracked(worker[w].rec)
        /\ worker[w].path = row[worker[w].rec].path
        /\ row[remote[p]].path = p
        /\ PathsAreUnique
    BY <1>2 DEF IInv, TypeOK, WorkerOK, ObjectsStayHome, StoreInv
  <2>2. worker[w].path = p => remote[p] = worker[w].rec
    BY <2>1 DEF PathsAreUnique
  <2> QED BY <1>2, <2>1, <2>2 DEF UploadsOrNot, UploadTears
<1> QED BY <1>1, <1>2, StepKinds DEF UploadStep

\* No recording's upload replaces another recording's object, however many
\* recordings render one path (the unique remote_path).
THEOREM NothingIsOverwritten == Spec => NoOverwriteOfOthers
<1>1. IInv /\ [Next]_vars =>
        [\A p \in Paths : remote[p] \in Recordings =>
           remote'[p] \in {remote[p], Torn}]_vars
  BY ObjectsStay
<1> QED BY <1>1, Inductive, PTL DEF Spec, NoOverwriteOfOthers

\* A table statement leaves a leased row alone, runs its clock, or ends the
\* holder's attempt.
LEMMA LeasedRow ==
  ASSUME IInv, [Next]_vars, TableStep, NEW r \in Recordings,
         row[r].leased, row'[r] # row[r]
  PROVE  \/ row'[r] = [row[r] EXCEPT !.leased = FALSE]
         \/ row'[r] = [row[r] EXCEPT !.due = TRUE]
         \/ /\ row'[r].attempts = row[r].attempts
            /\ EndsAttempt(row[r].owner, r)
<1>0. /\ row \in [Recordings -> Row]
      /\ call \in [Calls -> CallState] /\ worker \in [Workers -> WorkerState]
      /\ row[r].status = "syncing"
  BY DEF IInv, TypeOK, StoreTypeOK, StoreInv, RowOK
<1>1. ASSUME NEW c \in Calls, Claims(c) PROVE FALSE
  <2>1. call[c].rec \in Recordings /\ \A q \in Recordings \ {call[c].rec} : row'[q] = row[q]
    BY <1>1, ClaimEffect
  <2>2. call[c].rec = r
    BY <2>1
  <2> QED
    BY <1>0, <1>1, <2>2
    DEF Claims, Grants, ClaimNewSucceeds, ClaimRetrySucceeds, LeaseRanOut, Tracked
<1>2. ASSUME NEW o \in Owners \cup {NoOwner}, NEW q, NEW class, MarkError(q, o, class)
      PROVE  r = q /\ row[r].owner = o /\ row'[r].attempts = row[r].attempts
  BY <1>0, <1>2 DEF MarkError, Fenced, Row
<1>3. ASSUME NEW o \in Owners \cup {NoOwner}, NEW q, MarkSynced(q, o)
      PROVE  r = q /\ row[r].owner = o /\ row'[r].attempts = row[r].attempts
  BY <1>0, <1>3 DEF MarkSynced, Fenced, Row
<1>4. ASSUME NEW c \in Calls, MarksMissing(c)
      PROVE  row'[r].attempts = row[r].attempts /\ EndsAttempt(row[r].owner, r)
  <2>1. call[c].owner \in Owners \cup {NoOwner}
    BY <1>0 DEF CallState
  <2>2. /\ r = call[c].rec /\ row[r].owner = call[c].owner
        /\ row'[r].attempts = row[r].attempts
    BY <1>2, <1>4, <2>1 DEF MarksMissing
  <2>3. AtCall(c, "mark") /\ call'[c] # call[c]
    BY <1>0, <1>4 DEF MarksMissing, AtCall, EndCall, IdleCall
  <2> QED BY <2>2, <2>3 DEF EndsAttempt
<1>5. ASSUME NEW w \in Workers, Report(w)
      PROVE  row'[r].attempts = row[r].attempts /\ EndsAttempt(row[r].owner, r)
  <2>1. worker[w].owner \in Owners \cup {NoOwner}
    BY <1>0 DEF WorkerState
  <2>2. /\ r = worker[w].rec /\ row[r].owner = worker[w].owner
        /\ row'[r].attempts = row[r].attempts
    <3>1. CASE AtWorker(w, "synced")
      BY <1>3, <1>5, <2>1, <3>1 DEF Report
    <3>2. CASE ~AtWorker(w, "synced")
      BY <1>2, <1>5, <2>1, <3>2 DEF Report
    <3> QED BY <3>1, <3>2
  <2>3. Reporting(w) /\ worker'[w] # worker[w]
    BY <1>0, <1>5 DEF Report, Reporting, EndWorker, FreeWorker
  <2> QED BY <2>2, <2>3 DEF EndsAttempt
<1>6. ASSUME NEW w \in Workers, Renews(w) PROVE FALSE
  <2>1. row' = [row EXCEPT ![worker[w].rec].leased = TRUE]
    BY <1>6 DEF Renews, RenewLease
  <2>2. [row[r] EXCEPT !.leased = TRUE] = row[r]
    BY <1>0 DEF Row
  <2> QED BY <1>0, <2>1, <2>2
<1>7. ASSUME RecoverExpiredLeases PROVE FALSE
  BY <1>0, <1>7 DEF RecoverExpiredLeases, LeaseRanOut
<1>8. ASSUME NEW q \in Recordings, Clock(q)
      PROVE  \/ row'[r] = [row[r] EXCEPT !.leased = FALSE]
             \/ row'[r] = [row[r] EXCEPT !.due = TRUE]
  BY <1>0, <1>8 DEF Clock, LeaseExpires, BackoffElapses
<1> QED
  BY <1>1, <1>4, <1>5, <1>6, <1>7, <1>8 DEF TableStep

\* While a lease lasts, only the clock and the holder of the lease change the
\* row: claims, retries, recovery rounds and late reports leave it alone.
THEOREM LeasesAreExclusive == Spec => LeaseIsExclusive
<1>1. ASSUME IInv, [Next]_vars, NEW r \in Recordings,
             row[r].leased, row'[r] # row[r]
      PROVE  \/ row'[r] = [row[r] EXCEPT !.leased = FALSE]
             \/ row'[r] = [row[r] EXCEPT !.due = TRUE]
             \/ /\ row'[r].attempts = row[r].attempts
                /\ EndsAttempt(row[r].owner, r)
  <2>1. TableStep
    BY <1>1, StepKinds
  <2> QED BY <1>1, <2>1, LeasedRow
<1>2. IInv /\ [Next]_vars =>
        [\A r \in Recordings :
           row[r].leased /\ row'[r] # row[r] =>
             \/ row'[r] = [row[r] EXCEPT !.leased = FALSE]
             \/ row'[r] = [row[r] EXCEPT !.due = TRUE]
             \/ /\ row'[r].attempts = row[r].attempts
                /\ EndsAttempt(row[r].owner, r)]_vars
  BY <1>1
<1> QED BY <1>2, Inductive, PTL DEF Spec, LeaseIsExclusive

----------------------------------------------------------------------------
(* Counting attempts. *)

\* A worker its process still runs.
Live(w) == worker[w].pc \notin {"free", "stray"}

\* The table has counted the attempt of every live worker, and no two live
\* workers have one attempt.
AttemptsInv ==
  /\ \A r \in Recordings : Tracked(r) \/ row[r].attempts = 0
  /\ \A w \in Workers :
       Live(w) => worker[w].attempts <= row[worker[w].rec].attempts
  /\ OneWorkerPerClaim

\* A live worker was one before, with the same attempt.
Carried(w) ==
  Live(w)' => /\ Live(w)
              /\ worker'[w].rec = worker[w].rec
              /\ worker'[w].attempts = worker[w].attempts

\* A worker is new with the attempt just counted.
Dispatched(w) ==
  /\ worker[w].pc = "free"
  /\ \E c \in Calls :
       /\ Claims(c)
       /\ worker'[w].rec = call[c].rec
       /\ worker'[w].attempts = row[call[c].rec].attempts + 1

\* The workers of the next state.
LEMMA WorkerKinds ==
  ASSUME IInv, [Next]_vars
  PROVE  \/ \A w \in Workers : Carried(w)
         \/ \E w \in Workers :
              /\ Dispatched(w)
              /\ \A v \in Workers \ {w} : Carried(v)
<1>0. /\ worker \in [Workers -> WorkerState] /\ call \in [Calls -> CallState]
      /\ FreeWorker.pc = "free" /\ IdleCall.pc = "idle"
  BY DEF IInv, TypeOK, FreeWorker, IdleCall
<1>1. ASSUME UNCHANGED worker PROVE \A w \in Workers : Carried(w)
  BY <1>1 DEF Carried, Live
<1>2. ASSUME NEW w \in Workers, EndWorker(w) PROVE \A v \in Workers : Carried(v)
  BY <1>0, <1>2 DEF EndWorker, Carried, Live
<1>3. ASSUME NEW w \in Workers, NEW pc, Goto(w, pc), Live(w)
      PROVE  \A v \in Workers : Carried(v)
  BY <1>0, <1>3 DEF Goto, Carried, Live, WorkerState
<1>4. ASSUME NEW w \in Workers, Heartbeating(w), LoseLease(w)
      PROVE  \A v \in Workers : Carried(v)
  BY <1>0, <1>4 DEF LoseLease, Heartbeating, Carried, Live, WorkerState
<1>5. ASSUME NEW r \in Recordings, RecordingStep(r)
      PROVE  \A w \in Workers : Carried(w)
  BY <1>1, <1>5 DEF RecordingStep, Publish, Rename, SoftDelete, FileChanges, TimePasses
<1>6. ASSUME NEW c \in Calls, ClaimGranted(c), call[c].local
      PROVE  \E w \in Workers :
               Dispatched(w) /\ \A v \in Workers \ {w} : Carried(v)
  <2> DEFINE new == [pc |-> "queued", owner |-> call[c].owner, rec |-> call[c].rec,
                     path |-> ClaimedPath(call[c].rec, call[c].path),
                     attempts |-> row[call[c].rec].attempts + 1, lost |-> FALSE]
  <2>1. PICK w \in Workers :
          worker[w].pc = "free" /\ worker' = [worker EXCEPT ![w] = new]
    BY <1>6 DEF ClaimGranted
  <2>2. /\ new.rec = call[c].rec
        /\ new.attempts = row[call[c].rec].attempts + 1
    OBVIOUS
  <2>3. Claims(c)
    BY <1>0, <1>6 DEF ClaimGranted, EndCall, Claims
  <2> HIDE DEF new
  <2>4. worker'[w] = new /\ \A v \in Workers \ {w} : worker'[v] = worker[v]
    BY <1>0, <2>1
  <2>5. Dispatched(w)
    BY <2>1, <2>2, <2>3, <2>4 DEF Dispatched
  <2> QED BY <2>4, <2>5 DEF Carried, Live
<1>7. ASSUME NEW c \in Calls, CallStep(c), ~(ClaimGranted(c) /\ call[c].local)
      PROVE  \A w \in Workers : Carried(w)
  <2>1. UNCHANGED worker
    BY <1>7 DEF CallStep, StartAuto, StartRetry, GetState, StatLocal, PathConflict,
        ClaimRefused, ClaimGranted, ClaimReplyLost, CallFails, MarkMissing
  <2> QED BY <1>1, <2>1
<1>8. ASSUME NEW w \in Workers, WorkerStep(w) PROVE \A v \in Workers : Carried(v)
  <2>1. CASE Acquire(w)
    <3>1. Live(w)
      BY <2>1 DEF Acquire, AtWorker, Live
    <3> QED BY <1>3, <2>1, <3>1 DEF Acquire
  <2>2. CASE AbandonQueued(w) \/ Report(w) \/ ReportFails(w) \/ StrayEnds(w)
    BY <1>2, <2>2 DEF AbandonQueued, Report, ReportFails, StrayEnds
  <2>3. CASE Heartbeat(w) \/ HeartbeatFails(w)
    BY <1>1, <1>4, <2>3 DEF Heartbeat, HeartbeatFails
  <2>4. CASE UploadTears(w)
    BY <1>1, <2>4 DEF UploadTears
  <2>5. ASSUME NEW failed \in BOOLEAN, CopyEnds(w, failed)
        PROVE  \A v \in Workers : Carried(v)
    <3>1. Live(w) /\ (EndWorker(w) \/ Goto(w, IF failed THEN "copy_failed" ELSE "verify"))
      BY <2>5 DEF CopyEnds, AtWorker, Live
    <3> QED BY <1>2, <1>3, <3>1
  <2>6. CASE Verify(w)
    <3>1. Live(w) /\ (EndWorker(w) \/ Goto(w, "synced") \/ Goto(w, "verify_failed"))
      BY <2>6 DEF Verify, AtWorker, Live
    <3> QED BY <1>2, <1>3, <3>1
  <2> QED
    BY <1>8, <2>1, <2>2, <2>3, <2>4, <2>5, <2>6 DEF WorkerStep
<1>9. ASSUME NEW o \in Owners, ProcStep(o) PROVE \A w \in Workers : Carried(w)
  <2>1. CASE Exit(o)
    <3>1. \A w \in Workers :
            \/ worker'[w] = worker[w]
            \/ worker'[w] = [worker[w] EXCEPT !.pc = "stray"]
            \/ worker'[w] = FreeWorker
      BY <2>1 DEF Exit
    <3>2. \A w \in Workers : [worker[w] EXCEPT !.pc = "stray"].pc = "stray"
      BY <1>0 DEF WorkerState
    <3> QED BY <1>0, <3>1, <3>2 DEF Carried, Live
  <2>2. CASE Start(o) \/ Stop(o) \/ Recover(o)
    BY <1>1, <2>2 DEF Start, Stop, Recover
  <2> QED BY <1>9, <2>1, <2>2 DEF ProcStep
<1>10. CASE UNCHANGED vars
  BY <1>1, <1>10 DEF vars
<1> QED
  BY <1>5, <1>6, <1>7, <1>8, <1>9, <1>10 DEF Next

\* What a step does to the table, if it is no claim.
LEMMA RowEffects ==
  ASSUME IInv, [Next]_vars
  PROVE  RowsKept \/ \E c \in Calls : Claims(c)
<1>1. CASE UNCHANGED row
  BY <1>1 DEF RowsKept, Tracked
<1>2. CASE TableStep
  BY <1>2, OtherEffects DEF TableStep
<1> QED BY <1>1, <1>2, StepKinds

\* The count of a row never goes back, and a row no claim made has none.
LEMMA CountsGrow ==
  ASSUME IInv, AttemptsInv, [Next]_vars, NEW r \in Recordings
  PROVE  /\ row[r].attempts \in Nat /\ row'[r].attempts \in Nat
         /\ row[r].attempts <= row'[r].attempts
         /\ Tracked(r)' \/ row'[r].attempts = 0
<1>1. row[r].attempts \in Nat /\ (Tracked(r) \/ row[r].attempts = 0)
  BY DEF IInv, TypeOK, StoreTypeOK, Row, AttemptsInv
<1>2. CASE RowsKept
  BY <1>1, <1>2 DEF RowsKept
<1>3. ASSUME NEW c \in Calls, Claims(c), call[c].rec = r
      PROVE  row'[r].attempts = row[r].attempts + 1 /\ Tracked(r)'
  BY <1>3, ClaimEffect DEF Tracked
<1>4. ASSUME NEW c \in Calls, Claims(c), call[c].rec # r
      PROVE  row'[r] = row[r] /\ Tracked(r)' = Tracked(r)
  BY <1>4, ClaimEffect DEF Tracked
<1>5. ASSUME NEW c \in Calls, Claims(c)
      PROVE  /\ row'[r].attempts \in Nat
             /\ row[r].attempts <= row'[r].attempts
             /\ Tracked(r)' \/ row'[r].attempts = 0
  <2>1. CASE call[c].rec = r
    BY <1>1, <1>3, <1>5, <2>1
  <2>2. CASE call[c].rec # r
    BY <1>1, <1>4, <1>5, <2>2
  <2> QED BY <2>1, <2>2
<1> QED BY <1>1, <1>2, <1>5, RowEffects

\* A carried worker's attempt stays counted.
LEMMA CarriedCounted ==
  ASSUME IInv, AttemptsInv, [Next]_vars, NEW w \in Workers, Carried(w), Live(w)'
  PROVE  /\ worker'[w].rec \in Recordings
         /\ worker'[w].rec = worker[w].rec /\ worker'[w].attempts = worker[w].attempts
         /\ worker[w].attempts \in Nat
         /\ worker[w].attempts <= row[worker[w].rec].attempts
         /\ worker'[w].attempts <= row'[worker'[w].rec].attempts
<1>1. Live(w) /\ worker'[w].rec = worker[w].rec /\ worker'[w].attempts = worker[w].attempts
  BY DEF Carried
<1>2. worker[w].rec \in Recordings /\ worker[w].attempts \in Nat
  BY <1>1 DEF IInv, TypeOK, WorkerOK, AtWorker, Live, WorkerState
<1>3. worker[w].attempts <= row[worker[w].rec].attempts
  BY <1>1 DEF AttemptsInv
<1>4. /\ row[worker[w].rec].attempts \in Nat /\ row'[worker[w].rec].attempts \in Nat
      /\ row[worker[w].rec].attempts <= row'[worker[w].rec].attempts
  BY <1>2, CountsGrow
<1>5. worker[w].attempts <= row'[worker[w].rec].attempts
  BY <1>2, <1>3, <1>4
<1> QED BY <1>1, <1>2, <1>3, <1>5

\* Every step preserves AttemptsInv.
LEMMA AttemptsStep ==
  ASSUME IInv, AttemptsInv, [Next]_vars
  PROVE  AttemptsInv'
<1>1. \A r \in Recordings : (Tracked(r) \/ row[r].attempts = 0)'
  BY CountsGrow
<1>2. ASSUME NEW v \in Workers, NEW w \in Workers, v # w, Carried(v), Carried(w),
             Live(v)', Live(w)', worker'[v].rec = worker'[w].rec
      PROVE  worker'[v].attempts # worker'[w].attempts
  BY <1>2 DEF Carried, AttemptsInv, OneWorkerPerClaim, Live
<1>3. ASSUME NEW w \in Workers, Dispatched(w)
      PROVE  /\ worker'[w].rec \in Recordings
             /\ row[worker'[w].rec].attempts \in Nat
             /\ worker'[w].attempts = row[worker'[w].rec].attempts + 1
             /\ row'[worker'[w].rec].attempts = worker'[w].attempts
  <2>1. PICK c \in Calls : /\ Claims(c)
                           /\ worker'[w].rec = call[c].rec
                           /\ worker'[w].attempts = row[call[c].rec].attempts + 1
    BY <1>3 DEF Dispatched
  <2>2. /\ call[c].rec \in Recordings
        /\ row'[call[c].rec].attempts = row[call[c].rec].attempts + 1
    BY <2>1, ClaimEffect
  <2> QED BY <2>1, <2>2, CountsGrow
<1>4. ASSUME NEW v \in Workers, NEW w \in Workers, v # w, Dispatched(v), Carried(w),
             Live(w)', worker'[v].rec = worker'[w].rec
      PROVE  worker'[v].attempts # worker'[w].attempts
  BY <1>3, <1>4, CarriedCounted
<1>5. CASE \A w \in Workers : Carried(w)
  <2>1. \A w \in Workers : Live(w)' => worker'[w].attempts <= row'[worker'[w].rec].attempts
    BY <1>5, CarriedCounted
  <2>2. \A v, w \in Workers :
          v # w /\ Live(v)' /\ Live(w)' /\ worker'[v].rec = worker'[w].rec =>
            worker'[v].attempts # worker'[w].attempts
    BY <1>2, <1>5
  <2>3. OneWorkerPerClaim'
    BY <2>2 DEF OneWorkerPerClaim, Live
  <2> QED BY <1>1, <2>1, <2>3 DEF AttemptsInv
<1>6. ASSUME NEW u \in Workers, Dispatched(u), \A v \in Workers \ {u} : Carried(v)
      PROVE  AttemptsInv'
  <2>1. \A w \in Workers : Live(w)' => worker'[w].attempts <= row'[worker'[w].rec].attempts
    <3> SUFFICES ASSUME NEW w \in Workers, Live(w)'
                 PROVE  worker'[w].attempts <= row'[worker'[w].rec].attempts
      OBVIOUS
    <3>1. CASE w = u
      BY <1>3, <1>6, <3>1
    <3>2. CASE w # u
      BY <1>6, <3>2, CarriedCounted
    <3> QED BY <3>1, <3>2
  <2>2. \A v, w \in Workers :
          v # w /\ Live(v)' /\ Live(w)' /\ worker'[v].rec = worker'[w].rec =>
            worker'[v].attempts # worker'[w].attempts
    <3> SUFFICES ASSUME NEW v \in Workers, NEW w \in Workers, v # w, Live(v)', Live(w)',
                        worker'[v].rec = worker'[w].rec
                 PROVE  worker'[v].attempts # worker'[w].attempts
      OBVIOUS
    <3>1. CASE v = u
      BY <1>4, <1>6, <3>1
    <3>2. CASE w = u
      BY <1>4, <1>6, <3>2
    <3>3. CASE v # u /\ w # u
      BY <1>2, <1>6, <3>3
    <3> QED BY <3>1, <3>2, <3>3
  <2>3. OneWorkerPerClaim'
    BY <2>2 DEF OneWorkerPerClaim, Live
  <2> QED BY <1>1, <2>1, <2>3 DEF AttemptsInv
<1> QED BY <1>5, <1>6, WorkerKinds

\* The table counts the attempt of every live worker, for ever.
LEMMA AttemptsCounted == Spec => []AttemptsInv
<1>1. Init => AttemptsInv
  <2> SUFFICES ASSUME Init PROVE AttemptsInv
    OBVIOUS
  <2>1. \A w \in Workers : ~Live(w)
    BY DEF Init, Live, FreeWorker
  <2>2. \A r \in Recordings : row[r].attempts = 0
    BY DEF Init, StoreInit, Untracked
  <2>3. OneWorkerPerClaim
    BY <2>1 DEF OneWorkerPerClaim, Live
  <2> QED BY <2>1, <2>2, <2>3 DEF AttemptsInv
<1>2. IInv /\ AttemptsInv /\ [Next]_vars => AttemptsInv'
  BY AttemptsStep
<1> QED BY <1>1, <1>2, Inductive, PTL DEF Spec

\* One attempt, one worker: no two live workers hold the same attempt of a
\* recording, for any number of processes, calls and workers (both claims
\* count what they grant).
THEOREM OneAttemptOneWorker == Spec => []OneWorkerPerClaim
<1>1. AttemptsInv => OneWorkerPerClaim
  BY DEF AttemptsInv
<1> QED BY <1>1, AttemptsCounted, PTL

\* A step that counts past the limit is a Retry.
LEMMA CountsByRetry ==
  ASSUME IInv, AttemptsInv, [Next]_vars, MaxAttempts > 0,
         NEW r \in Recordings, row[r].attempts >= MaxAttempts,
         row'[r].attempts # row[r].attempts
  PROVE  \E c \in Calls : call[c].rec = r /\ call[c].retry /\ Claiming(c)
                          /\ call'[c] # call[c]
<1>1. PICK c \in Calls : Claims(c)
  BY RowEffects DEF RowsKept
<1>2. call[c].rec = r
  BY <1>1, ClaimEffect
<1>3. Claiming(c) /\ call'[c] # call[c]
  BY <1>1 DEF Claims, Claiming
<1>4. row[r].attempts \in Nat /\ (Tracked(r) \/ row[r].attempts = 0) /\ MaxAttempts \in Nat
  BY StoreAssumption DEF IInv, TypeOK, StoreTypeOK, Row, AttemptsInv
<1>5. ~ClaimNewSucceeds(r, call[c].path)
  BY <1>4 DEF ClaimNewSucceeds
<1>6. call[c].retry
  BY <1>1, <1>2, <1>5 DEF Claims, Grants
<1> QED BY <1>2, <1>3, <1>6

\* With a positive limit, only a Retry makes another attempt of a row that has
\* reached it, however many schedulers and processes there are (ADR 0001).
THEOREM ExhaustedWaits ==
  ASSUME MaxAttempts > 0
  PROVE  Spec => AutomaticRetriesStop
<1>1. IInv /\ AttemptsInv /\ [Next]_vars =>
        [\A r \in Recordings :
           row[r].attempts >= MaxAttempts /\ row'[r].attempts # row[r].attempts =>
             \E c \in Calls : call[c].rec = r /\ call[c].retry /\ Claiming(c)
                              /\ call'[c] # call[c]]_vars
  BY CountsByRetry
<1> QED BY <1>1, Inductive, AttemptsCounted, PTL DEF Spec, AutomaticRetriesStop

----------------------------------------------------------------------------
(* The refinement. *)

\* What Backup sees stays as it is.
LEMMA BackupStutters ==
  ASSUME IInv, UNCHANGED remote,
         \A r \in Recordings :
           /\ row'[r].path = row[r].path
           /\ row'[r].status = "synced" <=> row[r].status = "synced"
  PROVE  UNCHANGED B!vars
<1>1. PlaceOf' = PlaceOf
  BY DEF PlaceOf
<1>2. SyncedSet' = SyncedSet
  BY DEF SyncedSet
<1> QED BY <1>1, <1>2 DEF B!vars

\* The initial states are initial for Backup.
LEMMA BackupInit == Init => B!Init
<1> SUFFICES ASSUME Init PROVE B!Init
  OBVIOUS
<1>1. /\ row = [r \in Recordings |-> Untracked]
      /\ Untracked.path = NoPath /\ Untracked.status = "untracked"
      /\ remote = [p \in Paths |-> Nothing]
  BY DEF Init, StoreInit, Untracked
<1>2. PlaceOf = [r \in Recordings |-> NoPath]
  BY <1>1 DEF PlaceOf
<1>3. SyncedSet = {}
  BY <1>1 DEF SyncedSet
<1> QED BY <1>1, <1>2, <1>3 DEF B!Init

\* A claim of a tracked recording changes nothing Backup sees; any other
\* reserves a free path.
LEMMA ClaimReserves ==
  ASSUME IInv, NEW c \in Calls, Claims(c), UNCHANGED remote
  PROVE  [B!Next]_(B!vars)
<1> DEFINE r == call[c].rec
           p == call[c].path
<1>1. /\ r \in Recordings /\ row[r].status # "synced" /\ row'[r].status = "syncing"
      /\ \A q \in Recordings \ {r} : row'[q] = row[q]
  BY ClaimEffect
<1>2. SyncedSet' = SyncedSet
  BY <1>1 DEF SyncedSet
<1>3. row'[r].path = ClaimedPath(r, p)
  BY <1>1, GrantOK DEF Claims
<1>4. CASE Tracked(r)
  <2>1. row'[r].path = row[r].path
    BY <1>3, <1>4 DEF ClaimedPath
  <2>2. PlaceOf' = PlaceOf
    BY <1>1, <2>1 DEF PlaceOf
  <2> QED BY <1>2, <2>2 DEF B!vars
<1>5. CASE ~Tracked(r)
  <2>1. CallOK(c) /\ RowOK(r)
    BY <1>1 DEF IInv, StoreInv
  <2>2. ~call[c].retry /\ ~PathTaken(p)
    BY <1>5 DEF Claims, Grants, ClaimNewSucceeds, ClaimRetrySucceeds, LeaseRanOut, Tracked
  <2>3. p \in Paths
    BY <2>1, <2>2, CloudSyncAssumption DEF CallOK, AtCall, Claims, Claiming
  <2>4. PlaceOf[r] = NoPath /\ \A q \in Recordings : PlaceOf[q] # p
    BY <1>1, <1>5, <2>1, <2>2 DEF PlaceOf, RowOK, PathTaken
  <2>5. row'[r].path = p
    BY <1>3, <1>5 DEF ClaimedPath
  <2>6. PlaceOf' = [PlaceOf EXCEPT ![r] = p]
    BY <1>1, <2>5 DEF PlaceOf
  <2>7. B!Reserve(r)
    BY <1>2, <2>3, <2>4, <2>6 DEF B!Reserve
  <2> QED BY <1>1, <2>7 DEF B!Next
<1> QED BY <1>4, <1>5

\* A report of success confirms; any other changes nothing Backup sees.
LEMMA ReportConfirms ==
  ASSUME IInv, AtomicUpload, NEW w \in Workers, Report(w)
  PROVE  [B!Next]_(B!vars)
<1> DEFINE r == worker[w].rec
           o == worker[w].owner
<1>1. /\ r \in Recordings /\ Tracked(r)
      /\ worker[w].path = row[r].path /\ row[r].path \in Paths
      /\ AtWorker(w, "synced") => remote[row[r].path] = r
      /\ row \in [Recordings -> Row]
      /\ UNCHANGED remote
  BY DEF IInv, TypeOK, StoreTypeOK, StoreInv, RowOK, WorkerOK, Report, Reporting, AtWorker
<1>2. RowsKept
  BY OtherEffects
<1>3. CASE AtWorker(w, "synced") /\ Fenced(r, o)
  <2>1. /\ row'[r].status = "synced"
        /\ \A q \in Recordings \ {r} : row'[q] = row[q]
    BY <1>1, <1>3 DEF Report, MarkSynced, Row
  <2>2. SyncedSet' = SyncedSet \cup {r}
    BY <1>1, <2>1 DEF SyncedSet
  <2>3. PlaceOf' = PlaceOf
    BY <1>2 DEF PlaceOf, RowsKept
  <2>4. PlaceOf[r] # NoPath /\ remote[PlaceOf[r]] = r
    BY <1>1, <1>3, StoreAssumption DEF PlaceOf
  <2>5. B!Confirm(r)
    BY <1>1, <2>2, <2>3, <2>4 DEF B!Confirm
  <2> QED BY <1>1, <2>5 DEF B!Next
<1>4. CASE ~(AtWorker(w, "synced") /\ Fenced(r, o))
  <2>1. \A q \in Recordings : row'[q].status = "synced" <=> row[q].status = "synced"
    <3>1. CASE ~Fenced(r, o)
      BY <3>1 DEF Report, MarkSynced, MarkError
    <3>2. CASE ~AtWorker(w, "synced") /\ Fenced(r, o)
      <4>1. PICK class : MarkError(r, o, class)
        BY <3>2 DEF Report
      <4>2. row' = [row EXCEPT ![r] = [row[r] EXCEPT !.status = "error",
                      !.owner = NoOwner, !.leased = FALSE, !.class = class,
                      !.due = FALSE]]
        BY <3>2, <4>1 DEF MarkError
      <4>3. row'[r].status = "error" /\ row[r].status = "syncing"
        BY <1>1, <3>2, <4>2 DEF Fenced, Row
      <4>4. \A q \in Recordings \ {r} : row'[q] = row[q]
        BY <1>1, <4>2
      <4> QED BY <4>3, <4>4
    <3> QED BY <1>4, <3>1, <3>2
  <2>2. \A q \in Recordings : row'[q].path = row[q].path
    BY <1>2 DEF RowsKept
  <2> QED BY <1>1, <2>1, <2>2, BackupStutters
<1> QED BY <1>3, <1>4

\* Every step of the service is a step of Backup or a stutter.
LEMMA BackupStep ==
  ASSUME IInv, AtomicUpload, [Next]_vars
  PROVE  [B!Next]_(B!vars)
<1>1. CASE UNCHANGED <<row, remote>>
  BY <1>1, BackupStutters
<1>2. ASSUME NEW w \in Workers, ~AtWorker(w, "free"), UploadsOrNot(w), UNCHANGED row
      PROVE  [B!Next]_(B!vars)
  <2>1. /\ worker[w].rec \in Recordings /\ Tracked(worker[w].rec)
        /\ worker[w].path = row[worker[w].rec].path
        /\ row[worker[w].rec].path \in Paths
    BY <1>2 DEF IInv, WorkerOK, StoreInv, RowOK
  <2>2. UNCHANGED <<PlaceOf, SyncedSet>>
    BY <1>2 DEF PlaceOf, SyncedSet
  <2>3. CASE UNCHANGED remote
    BY <2>2, <2>3 DEF B!vars
  <2>4. CASE remote' = [remote EXCEPT ![worker[w].path] = worker[w].rec]
    <3>1. /\ PlaceOf[worker[w].rec] = worker[w].path
          /\ PlaceOf[worker[w].rec] # NoPath
      BY <2>1, StoreAssumption DEF PlaceOf
    <3>2. B!Upload(worker[w].rec)
      BY <2>2, <2>4, <3>1 DEF B!Upload
    <3> QED BY <2>1, <3>2 DEF B!Next
  <2> QED BY <1>2, <2>3, <2>4 DEF UploadsOrNot
<1>3. ASSUME NEW c \in Calls, MarksMissing(c), UNCHANGED remote
      PROVE  [B!Next]_(B!vars)
  <2>1. RowsKept
    BY <1>3, OtherEffects
  <2>2. \A q \in Recordings : row'[q].status = "synced" <=> row[q].status = "synced"
    BY <1>3 DEF MarksMissing, MarkError, Fenced, IInv, TypeOK, StoreTypeOK, Row
  <2> QED BY <1>3, <2>1, <2>2, BackupStutters DEF RowsKept
<1>4. ASSUME NEW w \in Workers, Renews(w), UNCHANGED remote
      PROVE  [B!Next]_(B!vars)
  <2>1. RowsKept
    BY <1>4, OtherEffects
  <2>2. \A q \in Recordings : row'[q].status = "synced" <=> row[q].status = "synced"
    BY <1>4 DEF Renews, RenewLease, Fenced, IInv, TypeOK, StoreTypeOK, Row
  <2> QED BY <1>4, <2>1, <2>2, BackupStutters DEF RowsKept
<1>5. ASSUME RecoverExpiredLeases, UNCHANGED remote
      PROVE  [B!Next]_(B!vars)
  <2>1. RowsKept
    BY <1>5, OtherEffects
  <2>2. \A q \in Recordings : row'[q].status = "synced" <=> row[q].status = "synced"
    BY <1>5 DEF RecoverExpiredLeases, LeaseRanOut, IInv, TypeOK, StoreTypeOK, Row
  <2> QED BY <1>5, <2>1, <2>2, BackupStutters DEF RowsKept
<1>6. ASSUME NEW r \in Recordings, Clock(r), UNCHANGED remote
      PROVE  [B!Next]_(B!vars)
  <2>1. RowsKept
    BY <1>6, OtherEffects
  <2>2. \A q \in Recordings : row'[q].status = "synced" <=> row[q].status = "synced"
    <3>1. CASE LeaseExpires(r)
      BY <3>1 DEF LeaseExpires, IInv, TypeOK, StoreTypeOK, Row
    <3>2. CASE BackoffElapses(r)
      BY <3>2 DEF BackoffElapses, IInv, TypeOK, StoreTypeOK, Row
    <3> QED BY <1>6, <3>1, <3>2 DEF Clock
  <2> QED BY <1>6, <2>1, <2>2, BackupStutters DEF RowsKept
<1>7. CASE TableStep /\ UNCHANGED remote
  BY <1>3, <1>4, <1>5, <1>6, <1>7, ClaimReserves, ReportConfirms DEF TableStep
<1>8. CASE UploadStep /\ UNCHANGED row
  BY <1>2, <1>8 DEF UploadStep
<1> QED BY <1>1, <1>7, <1>8, StepKinds

\* Where uploads are atomic the service implements Backup: a recording's path
\* is given once, its upload goes there and nowhere else, and synced is said
\* of what is there, for any recordings, paths, processes and workers.
THEOREM Refinement ==
  ASSUME AtomicUpload
  PROVE  Spec => ImplementsBackup
<1>1. IInv /\ [Next]_vars => [B!Next]_(B!vars)
  BY BackupStep
<1> QED BY <1>1, BackupInit, Inductive, PTL DEF Spec, ImplementsBackup, B!Spec

=============================================================================
