----------------------------- MODULE Processing -----------------------------
(***************************************************************************)
(* From an upload to a playable recording: the upload handler              *)
(* (internal/recordings/handler.go), the worker pool and recovery loop     *)
(* (service.go), the tool pipelines (processing.go) and the columns of     *)
(* recordings they share (repository.go), in one server process that is    *)
(* shut down, crashes and restarts.                                        *)
(*                                                                         *)
(* The tools are external: one fails, or runs to its end, or leaves part   *)
(* of its output behind.  Time is abstracted to updated_at being older     *)
(* than the stale threshold.  A job slot is one goroutine of Enqueue, a    *)
(* bound of the model.                                                     *)
(***************************************************************************)
EXTENDS Naturals, FiniteSets

CONSTANTS
  Recordings,
  Videos,                \* the recordings whose media_type is video
  NoRec,                 \* the recording of a free slot
  Jobs,                  \* slots for goroutines of Enqueue (bound)
  MaxAudioWorkers,       \* capacity of audioSem, PROCESSING_MAX_WORKERS
  MaxVideoWorkers,       \* capacity of videoSem, VIDEO_PROCESSING_MAX_WORKERS
  StaleExceedsTimeout    \* RECOVERY_STALE_THRESHOLD_SECONDS is longer than
                         \* both processing timeouts, as in the defaults

ASSUME ProcessingAssumption ==
  /\ Videos \subseteq Recordings
  /\ NoRec \notin Recordings
  /\ MaxAudioWorkers \in Nat \ {0}
  /\ MaxVideoWorkers \in Nat \ {0}
  /\ StaleExceedsTimeout \in BOOLEAN

VARIABLES
  row,       \* the recordings table
  file,      \* what is on disk in each recording's directory
  upload,    \* upload handlers in progress
  job,       \* goroutines of Enqueue
  sweep,     \* what is left of the recovery loop's list of stuck recordings
  loop,      \* the recovery loop
  server     \* the server process

vars == <<row, file, upload, job, sweep, loop, server>>

Stages ==
  {"analyzing", "transcoding", "extracting_thumbnail", "extracting_audio",
   "generating_waveform"}

\* processing_step, and "absent" for no row.
Steps == Stages \cup {"absent", "queued", "complete"}

Products == {"playback", "thumbnail", "extract", "waveform"}

\* What each stage writes.
ProductsOf(s) ==
  CASE s = "transcoding" -> {"playback"}
    [] s = "extracting_thumbnail" -> {"thumbnail"}
    [] s = "extracting_audio" -> {"extract"}
    [] s = "generating_waveform" -> {"waveform"}
    [] OTHER -> {}

\* ready: the *_ready columns.  error: the stage processing_error tells of.
Row == [step : Steps, path : BOOLEAN, ready : SUBSET Products,
        error : Stages \cup {"none"}, stale : BOOLEAN, deleted : BOOLEAN]

NoRow == [step |-> "absent", path |-> FALSE, ready |-> {}, error |-> "none",
          stale |-> FALSE, deleted |-> FALSE]

JobPC == Stages \cup {"free", "waiting", "reporting"}

\* ready and err are the pipeline's local flags and procErr.
JobState == [pc : JobPC, rec : Recordings \cup {NoRec},
             ready : SUBSET Products, err : Stages \cup {"none"}]

FreeJob == [pc |-> "free", rec |-> NoRec, ready |-> {}, err |-> "none"]

TypeOK ==
  /\ row \in [Recordings -> Row]
  /\ file \in [Recordings -> [Products \cup {"original"} ->
                                {"none", "partial", "whole"}]]
  /\ upload \in [Recordings -> {"none", "created", "stored"}]
  /\ job \in [Jobs -> JobState]
  /\ sweep \subseteq Recordings
  /\ loop \in {"off", "idle", "scan"}
  /\ server \in {"off", "up", "draining", "closing"}

Init ==
  /\ row = [r \in Recordings |-> NoRow]
  /\ file = [r \in Recordings |-> [a \in Products \cup {"original"} |-> "none"]]
  /\ upload = [r \in Recordings |-> "none"]
  /\ job = [j \in Jobs |-> FreeJob]
  /\ sweep = {}
  /\ loop = "off"
  /\ server = "off"

----------------------------------------------------------------------------
(* Shared pieces. *)

Exists(r) == row[r].step # "absent"

\* UpdateProcessingStep.
WriteStep(r, s) == row' = [row EXCEPT ![r].step = s, ![r].stale = FALSE]

\* The pipeline writes a step with the context of the job: when that is over
\* or the database is away, the failure is logged and the job goes on.
TryStep(r, s) == WriteStep(r, s) \/ UNCHANGED row

\* wg.Add and a goroutine that waits for its semaphore.
Enqueue(r) ==
  \E j \in Jobs :
    /\ job[j].pc = "free"
    /\ job' = [job EXCEPT ![j] = [FreeJob EXCEPT !.pc = "waiting", !.rec = r]]

Busy(r) == \E j \in Jobs : job[j].rec = r

AtJob(j, pc) == job[j].pc = pc

----------------------------------------------------------------------------
(* The upload handler, and the handlers that touch updated_at. *)

\* Create inserts the row.  Requests are served until the listener closes,
\* which is after the processing service has been shut down; the ones whose
\* body is still arriving are served even then.
Create(r) ==
  /\ server # "off"
  /\ ~Exists(r)
  /\ row' = [row EXCEPT ![r].step = "queued"]
  /\ upload' = [upload EXCEPT ![r] = "created"]
  /\ UNCHANGED <<file, job, sweep, loop, server>>

\* MkdirAll and Rename move the temporary file to its place.
StoreOriginal(r) ==
  /\ upload[r] = "created"
  /\ file' = [file EXCEPT ![r]["original"] = "whole"]
  /\ upload' = [upload EXCEPT ![r] = "stored"]
  /\ UNCHANGED <<row, job, sweep, loop, server>>

\* Either fails: the client gets an error, the row stays.
StoreFails(r) ==
  /\ upload[r] = "created"
  /\ upload' = [upload EXCEPT ![r] = "none"]
  /\ UNCHANGED <<row, file, job, sweep, loop, server>>

\* Bug form: the row names the file before it is there.
FinishUploadUnstored(r) ==
  /\ upload[r] # "none"
  /\ \/ row' = [row EXCEPT ![r].path = TRUE, ![r].stale = FALSE]
     \/ UNCHANGED row
  /\ Enqueue(r)
  /\ upload' = [upload EXCEPT ![r] = "none"]
  /\ UNCHANGED <<file, sweep, loop, server>>

\* UpdateStoragePath, whose failure is logged, then Enqueue.
FinishUpload(r) ==
  /\ upload[r] = "stored"
  /\ \/ row' = [row EXCEPT ![r].path = TRUE, ![r].stale = FALSE]
     \/ UNCHANGED row
  /\ Enqueue(r)
  /\ upload' = [upload EXCEPT ![r] = "none"]
  /\ UNCHANGED <<file, sweep, loop, server>>

\* PATCH: Update sets updated_at, whatever the processing does.
Edit(r) ==
  /\ server # "off"
  /\ Exists(r)
  /\ ~row[r].deleted
  /\ row' = [row EXCEPT ![r].stale = FALSE]
  /\ UNCHANGED <<file, upload, job, sweep, loop, server>>

SoftDelete(r) ==
  /\ server # "off"
  /\ Exists(r)
  /\ row' = [row EXCEPT ![r].deleted = TRUE, ![r].stale = FALSE]
  /\ UNCHANGED <<file, upload, job, sweep, loop, server>>

----------------------------------------------------------------------------
(* The worker pool and the pipelines. *)

SameMedia(r, q) == r \in Videos <=> q \in Videos

\* The goroutines that hold the semaphore a job of r needs.
Running(r) ==
  {j \in Jobs : /\ job[j].pc \notin {"free", "waiting"}
                /\ SameMedia(job[j].rec, r)}

Capacity(r) == IF r \in Videos THEN MaxVideoWorkers ELSE MaxAudioWorkers

Acquire(j) ==
  /\ AtJob(j, "waiting")
  /\ Cardinality(Running(job[j].rec)) < Capacity(job[j].rec)
  /\ job' = [job EXCEPT ![j].pc = "analyzing"]
  /\ TryStep(job[j].rec, "analyzing")
  /\ UNCHANGED <<file, upload, sweep, loop, server>>

\* The stage after s in processAudioRecording and processVideoRecording.
After(s, r) ==
  CASE s = "analyzing" -> "transcoding"
    [] s = "transcoding" ->
         IF r \in Videos THEN "extracting_thumbnail" ELSE "generating_waveform"
    [] s = "extracting_thumbnail" -> "extracting_audio"
    [] s = "extracting_audio" -> "generating_waveform"
    [] OTHER -> "reporting"

\* The file the tool of stage s reads.
InputOf(s, r) ==
  CASE s = "extracting_audio" -> "playback"
    [] s = "generating_waveform" /\ r \in Videos -> "extract"
    [] OTHER -> "original"

\* ffprobe and the transcoder: nothing can be done without their results.
Fatal(s) == s \in {"analyzing", "transcoding"}

\* The job goes on to stage s with the given flags and error.
Proceed(j, s, ready, err) ==
  /\ job' = [job EXCEPT ![j] = [@ EXCEPT !.pc = s, !.ready = ready, !.err = err]]
  /\ IF s = "reporting" THEN UNCHANGED row ELSE TryStep(job[j].rec, s)

\* The tool has opened its output: what was there is gone.
ToolWrites(j) ==
  /\ job[j].pc \in Stages
  /\ \E a \in ProductsOf(job[j].pc) :
       file' = [file EXCEPT ![job[j].rec][a] = "partial"]
  /\ UNCHANGED <<row, upload, job, sweep, loop, server>>

\* A media file without its end has no index: a partial input is not read.
ToolSucceeds(j) ==
  LET s == job[j].pc
      r == job[j].rec
  IN  /\ s \in Stages
      /\ file[r][InputOf(s, r)] = "whole"
      /\ file' = [file EXCEPT ![r] =
                    [a \in Products \cup {"original"} |->
                       IF a \in ProductsOf(s) THEN "whole" ELSE @[a]]]
      /\ Proceed(j, After(s, r), job[j].ready \cup ProductsOf(s), "none")
      /\ UNCHANGED <<upload, sweep, loop, server>>

\* Bug form: a failed stage is flagged ready.
ToolFailsReady(j) ==
  LET s == job[j].pc
  IN  /\ s \in Stages
      /\ Proceed(j, IF Fatal(s) THEN "reporting" ELSE After(s, job[j].rec),
                 job[j].ready \cup ProductsOf(s), s)
      /\ UNCHANGED <<file, upload, sweep, loop, server>>

\* The tool fails, or the job's context is over and kills it.
ToolFails(j) ==
  LET s == job[j].pc
  IN  /\ s \in Stages
      /\ Proceed(j, IF Fatal(s) THEN "reporting" ELSE After(s, job[j].rec),
                 job[j].ready, s)
      /\ UNCHANGED <<file, upload, sweep, loop, server>>

\* UpdateProcessingResult, with a context of its own.
Report(j) ==
  /\ AtJob(j, "reporting")
  /\ row' = [row EXCEPT ![job[j].rec] =
               [@ EXCEPT !.step = "complete", !.ready = job[j].ready,
                         !.error = job[j].err, !.stale = FALSE]]
  /\ job' = [job EXCEPT ![j] = FreeJob]
  /\ UNCHANGED <<file, upload, sweep, loop, server>>

ReportFails(j) ==
  /\ AtJob(j, "reporting")
  /\ job' = [job EXCEPT ![j] = FreeJob]
  /\ UNCHANGED <<row, file, upload, sweep, loop, server>>

----------------------------------------------------------------------------
(* The recovery loop. *)

\* Bug forms: age, or completion, does not count; the step that came with
\* migration 002 is forgotten.
StuckAtAnyAge(r) ==
  /\ ~row[r].deleted
  /\ row[r].step \notin {"absent", "complete", "queued"}
StuckAnyStep(r) ==
  /\ ~row[r].deleted
  /\ row[r].step \notin {"absent", "queued"}
  /\ row[r].stale
StuckBefore002(r) ==
  /\ ~row[r].deleted
  /\ row[r].step \notin {"absent", "complete", "queued", "extracting_audio"}
  /\ row[r].stale

\* FindStuckRecordings.
Stuck(r) ==
  /\ ~row[r].deleted
  /\ row[r].step \notin {"absent", "complete", "queued"}
  /\ row[r].stale

\* recoverStuckJobs reads its list: at start and at every tick.
Scan ==
  /\ loop = "idle"
  /\ loop' = "scan"
  /\ sweep' = {r \in Recordings : Stuck(r)}
  /\ UNCHANGED <<row, file, upload, job, server>>

\* The step goes back to queued and a new job is enqueued.
Requeue(r) ==
  /\ r \in sweep
  /\ WriteStep(r, "queued")
  /\ Enqueue(r)
  /\ sweep' = sweep \ {r}
  /\ UNCHANGED <<file, upload, loop, server>>

\* The step cannot be written: the recording is left for the next scan.  Or it
\* is written and the answer is lost: no job is enqueued either.
RequeueFails(r) ==
  /\ r \in sweep
  /\ TryStep(r, "queued")
  /\ sweep' = sweep \ {r}
  /\ UNCHANGED <<file, upload, job, loop, server>>

ScanEnds ==
  /\ loop = "scan"
  /\ sweep = {}
  /\ loop' = "idle"
  /\ UNCHANGED <<row, file, upload, job, sweep, server>>

\* <-stopRecovery; a tick that is ready too may win the select first.
LoopStops ==
  /\ loop = "idle"
  /\ server = "draining"
  /\ loop' = "off"
  /\ UNCHANGED <<row, file, upload, job, sweep, server>>

----------------------------------------------------------------------------
(* The server process, and time. *)

Start ==
  /\ server = "off"
  /\ server' = "up"
  /\ loop' = "idle"
  /\ UNCHANGED <<row, file, upload, job, sweep>>

\* SIGTERM: Shutdown closes stopRecovery and waits.
Shutdown ==
  /\ server = "up"
  /\ server' = "draining"
  /\ UNCHANGED <<row, file, upload, job, sweep, loop>>

\* wg.Wait returns; srv.Shutdown closes the listener.
Drained ==
  /\ server = "draining"
  /\ loop = "off"
  /\ \A j \in Jobs : AtJob(j, "free")
  /\ server' = "closing"
  /\ UNCHANGED <<row, file, upload, job, sweep, loop>>

\* The process ends: main returns from closing, a crash comes at any time.
\* Handlers and goroutines are gone, and the tools with them.
Exit ==
  /\ server # "off"
  /\ server' = "off"
  /\ loop' = "off"
  /\ sweep' = {}
  /\ upload' = [r \in Recordings |-> "none"]
  /\ job' = [j \in Jobs |-> FreeJob]
  /\ UNCHANGED <<row, file>>

\* updated_at falls behind the stale threshold.  A job that wrote its step
\* ends, by its timeout, before that, if the threshold is the longer one.
GoesStale(r) ==
  /\ Exists(r)
  /\ ~row[r].stale
  /\ StaleExceedsTimeout =>
       \A j \in Jobs : job[j].rec = r => AtJob(j, "waiting") \/ row[r].step = "queued"
  /\ row' = [row EXCEPT ![r].stale = TRUE]
  /\ UNCHANGED <<file, upload, job, sweep, loop, server>>

----------------------------------------------------------------------------

RecordingStep(r) ==
  \/ Create(r) \/ StoreOriginal(r) \/ StoreFails(r) \/ FinishUpload(r)
  \/ Edit(r) \/ SoftDelete(r) \/ GoesStale(r)
  \/ Requeue(r) \/ RequeueFails(r)

JobStep(j) ==
  \/ Acquire(j) \/ ToolWrites(j) \/ ToolSucceeds(j) \/ ToolFails(j)
  \/ Report(j) \/ ReportFails(j)

ServerStep ==
  Scan \/ ScanEnds \/ LoopStops \/ Start \/ Shutdown \/ Drained \/ Exit

Next ==
  \/ \E r \in Recordings : RecordingStep(r)
  \/ \E j \in Jobs : JobStep(j)
  \/ ServerStep

Spec == Init /\ [][Next]_vars

----------------------------------------------------------------------------
(* Safety. *)

\* Two goroutines never process one recording: they would write the same
\* files.  Recovery, which cannot see the running jobs, relies on the age of
\* the row alone (Enqueue, FindStuckRecordings).
OneJobPerRecording ==
  \A i, j \in Jobs : i # j /\ ~AtJob(i, "free") => job[i].rec # job[j].rec

\* A file a *_ready column offers to the players is complete, also after
\* crashes in the middle of a tool and reprocessing (UpdateProcessingResult).
ReadyMeansWhole ==
  \A r \in Recordings : \A a \in row[r].ready : file[r][a] = "whole"

\* Cloud sync is handed a storage_path only when the original is in its place,
\* and a job never starts without one (upload).
OriginalIsStored ==
  \A r \in Recordings : row[r].path \/ Busy(r) => file[r]["original"] = "whole"

\* A complete recording that cannot be played or has no waveform says why
\* (processing_error of UpdateProcessingResult).
FailureIsReported ==
  \A r \in Recordings :
    row[r].step = "complete" /\ ~({"playback", "waveform"} \subseteq row[r].ready)
      => row[r].error # "none"

\* What is complete stays as it is: no late job, no recovery round and no
\* restart processes it again or changes what is offered.
CompleteIsFinal ==
  [][\A r \in Recordings :
       row[r].step = "complete" =>
         /\ row'[r].step = "complete"
         /\ row'[r].ready = row[r].ready
         /\ row'[r].error = row[r].error
         /\ file'[r] = file[r]]_vars

\* The pool implements Publication where the stale threshold exceeds the timeouts.
Working == {job[j].rec : j \in {i \in Jobs : job[i].pc \notin {"free", "waiting"}}}
MediaOf == [r \in Recordings |-> {a \in Products : file[r][a] = "whole"}]
PublishedOf ==
  [r \in Recordings |->
    IF row[r].step = "complete"
    THEN [offered |-> row[r].ready, explained |-> row[r].error # "none"]
    ELSE [offered |-> {}, explained |-> FALSE]]

P == INSTANCE Publication WITH
       working <- Working, media <- MediaOf, published <- PublishedOf,
       Needed <- {"playback", "waveform"}

\* Every step is a step of Publication or changes nothing it shows: one goroutine
\* works on a recording, nobody else touches its files, and what it offers at the
\* end is there, final, and explained where it is not enough to play
\* (processAudioRecording, processVideoRecording, recoverStuckJobs).
ImplementsPublication == P!Spec

\* An uploaded recording is not finished and nobody works on it.
LeftBehind(r) ==
  /\ row[r].step \notin {"absent", "complete"}
  /\ row[r].path
  /\ ~row[r].deleted
  /\ row[r].stale
  /\ ~Busy(r)
  /\ upload[r] = "none"

\* A recovery scan finds every recording left behind: "scans for recordings
\* stuck in a non-terminal processing step and re-enqueues them.  A recording
\* is considered stuck when its updated_at is older than staleThreshold"
\* (service.go:84-86).
ScanFindsAllStuck ==
  [][loop = "idle" /\ loop' = "scan" =>
       \A r \in Recordings : LeftBehind(r) => r \in sweep']_vars

----------------------------------------------------------------------------
(* The inductive invariant behind the safety properties. *)

\* What a job at each point can have produced.
Earlier(pc) ==
  CASE pc = "extracting_thumbnail" -> {"playback"}
    [] pc = "extracting_audio" -> {"playback", "thumbnail"}
    [] pc = "generating_waveform" -> {"playback", "thumbnail", "extract"}
    [] pc = "reporting" -> Products
    [] OTHER -> {}

\* The recording of a job: uploaded, not listed as stuck, its step queued or
\* written since the job began, and the files the job has produced whole.
JobOK(j) ==
  LET r == job[j].rec
  IN  IF AtJob(j, "free") THEN r = NoRec
      ELSE /\ r \in Recordings
           /\ upload[r] = "none"
           /\ r \notin sweep
           /\ row[r].step \in Stages \cup {"queued"}
           /\ AtJob(j, "waiting") => row[r].step = "queued"
           /\ row[r].stale => row[r].step = "queued"
           /\ file[r]["original"] = "whole"
           /\ \A a \in job[j].ready : file[r][a] = "whole"
           /\ job[j].ready \subseteq Earlier(job[j].pc)
           /\ job[j].pc \in Stages \ {"analyzing", "transcoding"} =>
                "playback" \in job[j].ready
           /\ AtJob(j, "reporting") /\ job[j].err = "none" =>
                {"playback", "waveform"} \subseteq job[j].ready

\* Flags only with complete; an original from the moment it is stored; a
\* listed recording that is still as it was found.
RecordingOK(r) ==
  /\ row[r].step # "complete" => row[r].ready = {}
  /\ row[r].step \in Stages \cup {"complete"} =>
       upload[r] = "none" /\ file[r]["original"] = "whole"
  /\ upload[r] # "none" => row[r].step = "queued"
  /\ row[r].path \/ upload[r] = "stored" => file[r]["original"] = "whole"
  /\ r \in sweep => row[r].step \in Stages

\* Types, jobs and rows in step with each other, and one job per recording:
\* what every step preserves if the stale threshold exceeds the timeouts.
IInv ==
  /\ TypeOK
  /\ \A j \in Jobs : JobOK(j)
  /\ \A r \in Recordings : RecordingOK(r)
  /\ OneJobPerRecording
  /\ ReadyMeansWhole
  /\ FailureIsReported

----------------------------------------------------------------------------
(* Liveness. *)

\* Tools end, by their timeout if nothing else; semaphores serve their waiters
\* in order; the loop ticks.  The database does not refuse a result or a
\* re-enqueue for ever.
Fairness ==
  /\ \A j \in Jobs :
       /\ SF_vars(Acquire(j))
       /\ WF_vars(ToolSucceeds(j) \/ ToolFails(j))
       /\ WF_vars(Report(j) \/ ReportFails(j))
       /\ SF_vars(Report(j))
  /\ \A r \in Recordings :
       /\ WF_vars(StoreOriginal(r) \/ StoreFails(r))
       /\ WF_vars(FinishUpload(r))
       /\ WF_vars(GoesStale(r))
       /\ WF_vars(Requeue(r) \/ RequeueFails(r))
       /\ SF_vars(Requeue(r))
  /\ WF_vars(Scan) /\ WF_vars(ScanEnds)

FairSpec == Spec /\ Fairness

Stranded(r) == row[r].step = "queued" /\ ~Busy(r) /\ upload[r] = "none"

\* Once the server stays up and users leave the recordings alone (an edit
\* makes a row look fresh), every recording ends up complete, deleted, or in
\* step queued with nobody to process it; none stays in a working step
\* (StartRecoveryLoop).
WorkIsFinished ==
  <>[](server = "up") /\ <>[][\A r \in Recordings : ~Edit(r)]_vars =>
    \A r \in Recordings :
      <>[](row[r].step \in {"absent", "complete"} \/ row[r].deleted \/ Stranded(r))

=============================================================================
