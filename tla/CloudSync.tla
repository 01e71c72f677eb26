------------------------------ MODULE CloudSync ------------------------------
(***************************************************************************)
(* The orchestration layer of internal/cloudsync/service.go over the table *)
(* of SyncStore: server processes (one lease owner each) that list         *)
(* recordings, claim their rows, and hand every claim to a worker that     *)
(* copies the local file to the remote, verifies it and writes the         *)
(* outcome, while other processes, other calls of the same process, lease  *)
(* expiry, recovery, shutdown and crashes go on around them.               *)
(*                                                                         *)
(* A call is one execution of processCandidate (the scheduler, Sync Now,   *)
(* or a new upload) or of ForceRetry; a worker is the goroutine            *)
(* dispatchWorker starts.  Both live in slots, a bound of the model.       *)
(***************************************************************************)
EXTENDS SyncStore, FiniteSets

CONSTANTS
  NoRec,         \* the recording of an idle slot
  Calls,         \* slots for calls in progress (bound)
  Workers,       \* slots for worker goroutines (bound)
  MaxWorkers,    \* capacity of the semaphore sem, CLOUD_SYNC_MAX_WORKERS
  Rendered,      \* paths RenderPath can yield
  SuffixPath,    \* SuffixPath[<<p, r>>] is p with r's short id inserted
  Nothing,       \* no object at a remote path
  Torn,          \* an incomplete object at a remote path
  AtomicUpload,  \* the remote shows an object only once it is complete
  Lasting,       \* processes that are never stopped and never crash
  Flaky,         \* recordings whose file may disappear and return (bound)
  RetryCap       \* no Retry click once attempts has reached it (bound)

ASSUME CloudSyncAssumption ==
  /\ NoRec \notin Recordings
  /\ MaxWorkers \in Nat \ {0}
  /\ Rendered \subseteq Paths
  /\ SuffixPath \in [Rendered \X Recordings -> Paths]
  /\ Nothing \notin Recordings
  /\ Torn \notin Recordings
  /\ AtomicUpload \in BOOLEAN
  /\ Lasting \subseteq Owners
  /\ Flaky \subseteq Recordings
  /\ RetryCap \in Nat

VARIABLES
  recording,     \* recordings: not published, live or soft-deleted
  want,          \* the path RenderPath yields from the recording's metadata
  file,          \* whether the file at storage_path exists on local disk
  proc,          \* the life of each server process
  call,          \* calls in progress
  worker,        \* worker goroutines
  remote         \* what is stored at each remote path

disk == <<recording, want, file>>
vars == <<row, recording, want, file, proc, call, worker, remote>>

CallPC == {"idle", "get", "stat", "claim", "suffix", "mark"}

\* known: the row existed when Get read it.  local: the file was there when
\* checkEligibility looked.
CallState ==
  [pc : CallPC, owner : Owners \cup {NoOwner}, rec : Recordings \cup {NoRec},
   retry : BOOLEAN, known : BOOLEAN, local : BOOLEAN,
   path : Paths \cup {NoPath}]

IdleCall == [pc |-> "idle", owner |-> NoOwner, rec |-> NoRec, retry |-> FALSE,
             known |-> FALSE, local |-> FALSE, path |-> NoPath]

\* "stray": the rclone child of a dead process, still running.
WorkerPC ==
  {"free", "queued", "copy", "verify", "synced", "missing", "copy_failed",
   "verify_failed", "stray"}

\* path and attempts are the ClaimResult the worker was given.
WorkerState ==
  [pc : WorkerPC, owner : Owners \cup {NoOwner}, rec : Recordings \cup {NoRec},
   path : Paths \cup {NoPath}, attempts : Nat, lost : BOOLEAN]

FreeWorker == [pc |-> "free", owner |-> NoOwner, rec |-> NoRec,
               path |-> NoPath, attempts |-> 0, lost |-> FALSE]

TypeOK ==
  /\ StoreTypeOK
  /\ recording \in [Recordings -> {"absent", "live", "deleted"}]
  /\ want \in [Recordings -> Rendered \cup {NoPath}]
  /\ file \in [Recordings -> BOOLEAN]
  /\ proc \in [Owners -> {"off", "up", "stopping", "gone"}]
  /\ call \in [Calls -> CallState]
  /\ worker \in [Workers -> WorkerState]
  /\ remote \in [Paths -> Recordings \cup {Nothing, Torn}]

Init ==
  /\ StoreInit
  /\ recording = [r \in Recordings |-> "absent"]
  /\ want = [r \in Recordings |-> NoPath]
  /\ file = [r \in Recordings |-> FALSE]
  /\ proc = [o \in Owners |-> "off"]
  /\ call = [c \in Calls |-> IdleCall]
  /\ worker = [w \in Workers |-> FreeWorker]
  /\ remote = [p \in Paths |-> Nothing]

----------------------------------------------------------------------------
(* The recordings the service lists, and their files. *)

\* An upload gets its storage_path: from here on ListAllForSync and GetByID
\* hand it out.
Publish(r, p) ==
  /\ recording[r] = "absent"
  /\ recording' = [recording EXCEPT ![r] = "live"]
  /\ want' = [want EXCEPT ![r] = p]
  /\ file' = [file EXCEPT ![r] = TRUE]
  /\ UNCHANGED <<row, proc, call, worker, remote>>

\* PATCH /recordings/{id}: the title or the date, hence the rendered path.
Rename(r, p) ==
  /\ recording[r] = "live"
  /\ p # want[r]
  /\ want' = [want EXCEPT ![r] = p]
  /\ UNCHANGED <<row, recording, file, proc, call, worker, remote>>

SoftDelete(r) ==
  /\ recording[r] = "live"
  /\ recording' = [recording EXCEPT ![r] = "deleted"]
  /\ UNCHANGED <<row, want, file, proc, call, worker, remote>>

\* The storage volume loses the file, or gets it back.
FileChanges(r) ==
  /\ recording[r] # "absent"
  /\ r \in Flaky
  /\ file' = [file EXCEPT ![r] = ~@]
  /\ UNCHANGED <<row, recording, want, proc, call, worker, remote>>

----------------------------------------------------------------------------
(* Calls. *)

AtCall(c, pc) == call[c].pc = pc

EndCall(c) == call' = [call EXCEPT ![c] = IdleCall]

\* Reconcile or EnqueueRecording read the recording and its metadata, then
\* run processCandidate.  Only Reconcile looks at workerCtx first, so a call
\* for a new upload may still start in a process that is stopping.
StartAuto(c, o, r) ==
  /\ AtCall(c, "idle")
  /\ proc[o] \in {"up", "stopping"}
  /\ recording[r] = "live"
  /\ call' = [call EXCEPT ![c] =
                [IdleCall EXCEPT !.pc = "get", !.owner = o, !.rec = r,
                                 !.path = want[r]]]
  /\ UNCHANGED <<row, disk, proc, worker, remote>>

\* POST /failed/{id}/retry finds a tracked row and ForceRetry a recording.
StartRetry(c, o, r) ==
  /\ AtCall(c, "idle")
  /\ proc[o] \in {"up", "stopping"}
  /\ recording[r] = "live"
  /\ Tracked(r)
  /\ row[r].attempts < RetryCap
  /\ call' = [call EXCEPT ![c] =
                [IdleCall EXCEPT !.pc = "stat", !.owner = o, !.rec = r,
                                 !.retry = TRUE, !.known = TRUE]]
  /\ UNCHANGED <<row, disk, proc, worker, remote>>

\* processCandidate reads the row: a synced one ends the call.
GetState(c) ==
  /\ AtCall(c, "get")
  /\ IF row[call[c].rec].status = "synced"
     THEN EndCall(c)
     ELSE call' = [call EXCEPT ![c] =
                     [@ EXCEPT !.pc = "stat", !.known = Tracked(call[c].rec)]]
  /\ UNCHANGED <<row, disk, proc, worker, remote>>

\* checkEligibility: without a file an untracked recording is skipped.
StatLocal(c) ==
  /\ AtCall(c, "stat")
  /\ IF ~file[call[c].rec] /\ ~call[c].known
     THEN EndCall(c)
     ELSE call' = [call EXCEPT ![c] =
                     [@ EXCEPT !.pc = "claim", !.local = file[call[c].rec]]]
  /\ UNCHANGED <<row, disk, proc, worker, remote>>

Claiming(c) == call[c].pc \in {"claim", "suffix"}

Conflicts(c) ==
  ~call[c].retry /\ ClaimNewConflicts(call[c].rec, call[c].path)

Grants(c) ==
  IF call[c].retry
  THEN ClaimRetrySucceeds(call[c].rec)
  ELSE ClaimNewSucceeds(call[c].rec, call[c].path)

\* ErrRemotePathConflict: processCandidate tries once more, under the
\* recording's suffixed path.
PathConflict(c) ==
  /\ AtCall(c, "claim")
  /\ Conflicts(c)
  /\ call' = [call EXCEPT ![c] =
                [@ EXCEPT !.pc = "suffix",
                          !.path = SuffixPath[<<call[c].path, call[c].rec>>]]]
  /\ UNCHANGED <<row, disk, proc, worker, remote>>

\* The row is held or not due, or the suffixed path is taken as well.
ClaimRefused(c) ==
  /\ Claiming(c)
  /\ ~Grants(c)
  /\ AtCall(c, "claim") => ~Conflicts(c)
  /\ EndCall(c)
  /\ UNCHANGED <<row, disk, proc, worker, remote>>

\* The claim commits: dispatchWorker, or a call left to report local_missing.
ClaimGranted(c) ==
  LET r == call[c].rec
      o == call[c].owner
  IN  /\ Claiming(c)
      /\ Grants(c)
      /\ Claim(r, call[c].path, o)
      /\ \/ /\ call[c].local
            /\ \E w \in Workers :
                 /\ worker[w].pc = "free"
                 /\ worker' = [worker EXCEPT ![w] =
                      [pc |-> "queued", owner |-> o, rec |-> r,
                       path |-> ClaimedPath(r, call[c].path),
                       attempts |-> row[r].attempts + 1, lost |-> FALSE]]
            /\ EndCall(c)
         \/ /\ ~call[c].local
            /\ call' = [call EXCEPT ![c].pc = "mark"]
            /\ UNCHANGED worker
      /\ UNCHANGED <<disk, proc, remote>>

\* The claim commits and its reply is lost: the caller sees an error.
ClaimReplyLost(c) ==
  /\ Claiming(c)
  /\ Grants(c)
  /\ Claim(call[c].rec, call[c].path, call[c].owner)
  /\ EndCall(c)
  /\ UNCHANGED <<disk, proc, worker, remote>>

\* A statement of the call fails: it is logged and the call ends.
CallFails(c) ==
  /\ ~AtCall(c, "idle")
  /\ EndCall(c)
  /\ UNCHANGED <<row, disk, proc, worker, remote>>

\* Claimed without a file: error, class local_missing.
MarkMissing(c) ==
  /\ AtCall(c, "mark")
  /\ MarkError(call[c].rec, call[c].owner, "local_missing")
  /\ EndCall(c)
  /\ UNCHANGED <<disk, proc, worker, remote>>

----------------------------------------------------------------------------
(* Workers. *)

AtWorker(w, pc) == worker[w].pc = pc

\* The goroutines of process o that are past the semaphore.
Running(o) ==
  {w \in Workers : worker[w].owner = o
                   /\ worker[w].pc \notin {"free", "queued", "stray"}}

EndWorker(w) == worker' = [worker EXCEPT ![w] = FreeWorker]

Goto(w, pc) == worker' = [worker EXCEPT ![w].pc = pc]

\* sem <- struct{}{}, then the file is looked at again.  A process that is
\* stopping gets here too: select picks either of two ready cases.
Acquire(w) ==
  /\ AtWorker(w, "queued")
  /\ Cardinality(Running(worker[w].owner)) < MaxWorkers
  /\ Goto(w, IF file[worker[w].rec] THEN "copy" ELSE "missing")
  /\ UNCHANGED <<row, disk, proc, call, remote>>

\* <-workerCtx.Done() while waiting for the semaphore: the row stays syncing.
AbandonQueued(w) ==
  /\ AtWorker(w, "queued")
  /\ proc[worker[w].owner] = "stopping"
  /\ EndWorker(w)
  /\ UNCHANGED <<row, disk, proc, call, remote>>

\* The heartbeat goroutine lives from the second os.Stat to the worker's end,
\* or until a heartbeat finds the lease gone.
Heartbeating(w) ==
  /\ worker[w].pc \in {"copy", "verify", "synced", "copy_failed", "verify_failed"}
  /\ ~worker[w].lost

\* Heartbeat's UPDATE matched no row: leaseLost is set, the copy cancelled.
LoseLease(w) ==
  /\ worker' = [worker EXCEPT ![w].lost = TRUE]
  /\ UNCHANGED row

Heartbeat(w) ==
  /\ Heartbeating(w)
  /\ proc[worker[w].owner] = "up"
  /\ \/ RenewLease(worker[w].rec, worker[w].owner) /\ UNCHANGED worker
     \/ ~Fenced(worker[w].rec, worker[w].owner) /\ LoseLease(w)
  /\ UNCHANGED <<disk, proc, call, remote>>

\* The statement fails, takes more than its 5 seconds, or workerCtx is done.
HeartbeatFails(w) ==
  /\ Heartbeating(w)
  /\ LoseLease(w)
  /\ UNCHANGED <<disk, proc, call, remote>>

\* The test after Copy and after StatSize.
Aborts(w) == worker[w].lost \/ proc[worker[w].owner] = "stopping"

\* rclone ends: it uploaded the object or changed nothing.
UploadsOrNot(w) ==
  \/ remote' = [remote EXCEPT ![worker[w].path] = worker[w].rec]
  \/ UNCHANGED remote

\* A remote without atomic uploads shows the object while it grows.
UploadTears(w) ==
  /\ ~AtomicUpload
  /\ worker[w].pc \in {"copy", "stray"}
  /\ remote' = [remote EXCEPT ![worker[w].path] = Torn]
  /\ UNCHANGED <<row, disk, proc, call, worker>>

\* Copy returns; its error says nothing certain of the remote, which is why
\* the worker verifies.
CopyEnds(w, failed) ==
  /\ AtWorker(w, "copy")
  /\ UploadsOrNot(w)
  /\ IF Aborts(w) THEN EndWorker(w)
     ELSE Goto(w, IF failed THEN "copy_failed" ELSE "verify")
  /\ UNCHANGED <<row, disk, proc, call>>

\* Bug form: rclone's exit status is trusted.
SizeNotCompared(w) == TRUE

\* StatSize compares sizes: the object of another recording may pass.
SizeMatches(w) == remote[worker[w].path] \in Recordings

Verify(w) ==
  /\ AtWorker(w, "verify")
  /\ \/ Aborts(w) /\ EndWorker(w)
     \/ ~Aborts(w) /\ SizeMatches(w) /\ Goto(w, "synced")
     \/ ~Aborts(w) /\ Goto(w, "verify_failed")
  /\ UNCHANGED <<row, disk, proc, call, remote>>

\* markSyncedSafely and markErrorSafely, with a context of their own.
Reporting(w) ==
  worker[w].pc \in {"synced", "missing", "copy_failed", "verify_failed"}

Report(w) ==
  /\ Reporting(w)
  /\ IF AtWorker(w, "synced")
     THEN MarkSynced(worker[w].rec, worker[w].owner)
     ELSE MarkError(worker[w].rec, worker[w].owner,
                    IF AtWorker(w, "missing") THEN "local_missing"
                                              ELSE worker[w].pc)
  /\ EndWorker(w)
  /\ UNCHANGED <<disk, proc, call, remote>>

\* The database does not take the outcome: it is logged and the row stays.
ReportFails(w) ==
  /\ Reporting(w)
  /\ EndWorker(w)
  /\ UNCHANGED <<row, disk, proc, call, remote>>

\* rclone survives a process that died without killing it.
StrayEnds(w) ==
  /\ AtWorker(w, "stray")
  /\ UploadsOrNot(w)
  /\ EndWorker(w)
  /\ UNCHANGED <<row, disk, proc, call>>

----------------------------------------------------------------------------
(* Processes and time. *)

\* NewService: a fresh leaseOwner, the scheduler and the recovery loop.
Start(o) ==
  /\ proc[o] = "off"
  /\ proc' = [proc EXCEPT ![o] = "up"]
  /\ UNCHANGED <<row, disk, call, worker, remote>>

\* Shutdown cancels workerCtx, then waits for the workers for a while.
Stop(o) ==
  /\ proc[o] = "up"
  /\ o \notin Lasting
  /\ proc' = [proc EXCEPT ![o] = "stopping"]
  /\ UNCHANGED <<row, disk, call, worker, remote>>

\* The process ends, after Shutdown or by a crash: its goroutines are gone.
Exit(o) ==
  /\ proc[o] \in {"up", "stopping"}
  /\ o \notin Lasting
  /\ proc' = [proc EXCEPT ![o] = "gone"]
  /\ call' = [c \in Calls |-> IF call[c].owner = o THEN IdleCall ELSE call[c]]
  /\ worker' = [w \in Workers |->
                  IF worker[w].owner # o THEN worker[w]
                  ELSE IF AtWorker(w, "copy")
                       THEN [worker[w] EXCEPT !.pc = "stray"]
                       ELSE FreeWorker]
  /\ UNCHANGED <<row, disk, remote>>

\* One round of the recovery loop; with workerCtx done it fails.
Recover(o) ==
  /\ proc[o] = "up"
  /\ RecoverExpiredLeases
  /\ UNCHANGED <<disk, proc, call, worker, remote>>

TimePasses(r) ==
  /\ LeaseExpires(r) \/ BackoffElapses(r)
  /\ UNCHANGED <<disk, proc, call, worker, remote>>

----------------------------------------------------------------------------

RecordingStep(r) ==
  \/ \E p \in Rendered : Publish(r, p) \/ Rename(r, p)
  \/ SoftDelete(r)
  \/ FileChanges(r)
  \/ TimePasses(r)

CallStep(c) ==
  \/ \E o \in Owners, r \in Recordings : StartAuto(c, o, r) \/ StartRetry(c, o, r)
  \/ GetState(c) \/ StatLocal(c)
  \/ PathConflict(c) \/ ClaimRefused(c) \/ ClaimGranted(c) \/ ClaimReplyLost(c)
  \/ CallFails(c) \/ MarkMissing(c)

WorkerStep(w) ==
  \/ Acquire(w) \/ AbandonQueued(w)
  \/ Heartbeat(w) \/ HeartbeatFails(w)
  \/ UploadTears(w) \/ (\E failed \in BOOLEAN : CopyEnds(w, failed))
  \/ Verify(w) \/ Report(w) \/ ReportFails(w) \/ StrayEnds(w)

ProcStep(o) == Start(o) \/ Stop(o) \/ Exit(o) \/ Recover(o)

Next ==
  \/ \E r \in Recordings : RecordingStep(r)
  \/ \E c \in Calls : CallStep(c)
  \/ \E w \in Workers : WorkerStep(w)
  \/ \E o \in Owners : ProcStep(o)

Spec == Init /\ [][Next]_vars

----------------------------------------------------------------------------
(* Safety. *)

\* A row says synced only while the recording's own complete object is at the
\* row's remote path, whatever other workers, crashed processes or renames do
\* afterwards: "synced" in the dashboard means there is a backup
\* (dispatchWorker, MarkSynced).
SyncedIsBackedUp ==
  AtomicUpload =>
    \A r \in Recordings : row[r].status = "synced" => remote[row[r].path] = r

\* One claim, one worker: no two live workers hold the same attempt of a
\* recording, so an attempt counted in the row is uploaded at most once
\* (ClaimNew and ClaimRetry count every claim they grant).
OneWorkerPerClaim ==
  \A v, w \in Workers :
    /\ v # w
    /\ worker[v].rec = worker[w].rec
    /\ {worker[v].pc, worker[w].pc} \cap {"free", "stray"} = {}
    => worker[v].attempts # worker[w].attempts

\* An object is never uploaded at a path other than the one its recording's
\* row names, so renaming a recording never leaves a second, orphaned copy
\* (the claims keep remote_path and workers use the path they return).
ObjectsStayHome ==
  \A p \in Paths, r \in Recordings : remote[p] = r => row[r].path = p

\* No recording's upload replaces the object of another recording, however
\* titles and dates collide (the unique remote_path and SuffixPath).
NoOverwriteOfOthers ==
  [][\A p \in Paths : remote[p] \in Recordings =>
       remote'[p] \in {remote[p], Torn}]_vars

\* A synced row is final: no claim, late worker, recovery round or Retry
\* takes it out of that state or counts another attempt.
SyncedIsFinal ==
  [][\A r \in Recordings : row[r].status = "synced" => row'[r] = row[r]]_vars

\* The step in which a call or a worker of process o ends its attempt at r.
EndsAttempt(o, r) ==
  \/ \E c \in Calls :
       /\ AtCall(c, "mark") /\ call[c].owner = o /\ call[c].rec = r
       /\ call'[c] # call[c]
  \/ \E w \in Workers :
       /\ Reporting(w) /\ worker[w].owner = o /\ worker[w].rec = r
       /\ worker'[w] # worker[w]

\* While a row's lease lasts the row belongs to the process that holds it: but
\* for the clock nothing touches it, no other process's claim, Retry or late
\* report and no recovery round, until a call or a worker of the holder ends
\* the attempt (the WHERE clauses of ClaimNew, ClaimRetry, MarkSynced,
\* MarkError and RecoverExpiredLeases taken together).
LeaseIsExclusive ==
  [][\A r \in Recordings :
       row[r].leased /\ row'[r] # row[r] =>
         \/ row'[r] = [row[r] EXCEPT !.leased = FALSE]
         \/ row'[r] = [row[r] EXCEPT !.due = TRUE]
         \/ /\ row'[r].attempts = row[r].attempts
            /\ EndsAttempt(row[r].owner, r)]_vars

\* Past MaxAttempts only a Retry makes another attempt: automatic claims have
\* given up (ADR 0001).
AutomaticRetriesStop ==
  [][\A r \in Recordings :
       row[r].attempts >= MaxAttempts /\ row'[r].attempts # row[r].attempts =>
         \E c \in Calls : call[c].rec = r /\ call[c].retry /\ Claiming(c)
                          /\ call'[c] # call[c]]_vars

\* The service implements Backup where uploads are atomic.
PlaceOf == [r \in Recordings |-> row[r].path]
SyncedSet == {r \in Recordings : row[r].status = "synced"}

B == INSTANCE Backup WITH place <- PlaceOf, stored <- remote, confirmed <- SyncedSet

\* Every step of the service is a step of Backup or changes nothing it shows:
\* paths are handed out once and to one recording, uploads go to their own
\* path, synced is confirmed and final.
ImplementsBackup == B!Spec

----------------------------------------------------------------------------
(* The inductive invariant behind the safety properties. *)

CallOK(c) ==
  ~AtCall(c, "idle") =>
    /\ call[c].owner \in Owners
    /\ call[c].rec \in Recordings
    /\ call[c].pc \in {"get", "stat", "claim"} /\ ~call[c].retry =>
         call[c].path \in Rendered
    /\ AtCall(c, "suffix") => ~call[c].retry /\ call[c].path \in Paths
    /\ AtCall(c, "mark") \/ call[c].retry => Tracked(call[c].rec)

\* A worker copies to the path its recording's row has, now and for ever, and
\* one about to report success has its object there.
WorkerOK(w) ==
  ~AtWorker(w, "free") =>
    /\ worker[w].owner \in Owners
    /\ worker[w].rec \in Recordings
    /\ Tracked(worker[w].rec)
    /\ worker[w].path = row[worker[w].rec].path
    /\ AtomicUpload /\ AtWorker(w, "synced") =>
         remote[worker[w].path] = worker[w].rec

\* Types, rows with paths of their own, workers bound to them, and objects
\* stored nowhere else: what every step of the service preserves.
IInv ==
  /\ TypeOK
  /\ StoreInv
  /\ \A r \in Recordings : recording[r] = "live" => want[r] \in Rendered
  /\ \A c \in Calls : CallOK(c)
  /\ \A w \in Workers : WorkerOK(w)
  /\ ObjectsStayHome
  /\ SyncedIsBackedUp

----------------------------------------------------------------------------
(* Liveness. *)

\* Nobody renews the lease of r.
Abandoned(r) ==
  \A w \in Workers : ~( /\ Heartbeating(w)
                        /\ worker[w].rec = r
                        /\ Fenced(r, worker[w].owner)
                        /\ proc[worker[w].owner] = "up" )

WorkerEnds(w) ==
  \/ AbandonQueued(w) \/ (\E failed \in BOOLEAN : CopyEnds(w, failed))
  \/ Verify(w) \/ Report(w) \/ ReportFails(w) \/ StrayEnds(w)

\* Copies and statements end; the clock runs; a lease nobody renews runs out;
\* a lasting process starts, its scheduler and recovery loop tick, and its
\* reads and claims do not fail for ever.  sem serves its waiters in order.
Fairness ==
  /\ \A w \in Workers : WF_vars(WorkerEnds(w)) /\ SF_vars(Acquire(w))
  /\ \A r \in Recordings :
       /\ WF_vars(BackoffElapses(r) /\ TimePasses(r))
       /\ WF_vars(LeaseExpires(r) /\ Abandoned(r) /\ TimePasses(r))
  /\ \A c \in Calls :
       /\ WF_vars(ClaimRefused(c))
       /\ WF_vars(CallFails(c))
       /\ SF_vars(GetState(c))
       /\ SF_vars(StatLocal(c))
       /\ SF_vars(ClaimGranted(c))
  /\ \A o \in Lasting :
       /\ WF_vars(Start(o))
       /\ WF_vars(Recover(o))
       /\ \A r \in Recordings : SF_vars(\E c \in Calls : StartAuto(c, o, r))

FairSpec == Spec /\ Fairness

\* No row stays syncing: whatever crashes, is stopped or fails to be written,
\* the attempt ends or the lease runs out and a recovery loop clears it.
SyncingEnds ==
  \A r \in Recordings : row[r].status = "syncing" ~> row[r].status # "syncing"

\* A recording that stays in place gets synced, or its row ends up as an
\* exhausted Failed Sync an admin sees.
SyncedOrExhausted ==
  \A r \in Recordings :
    <>[](recording[r] = "live" /\ file[r]) =>
      <>(\/ row[r].status = "synced"
         \/ row[r].status = "error" /\ RetryStatus(r) = "exhausted")

=============================================================================
