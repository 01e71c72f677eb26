-------------------------- MODULE ProcessingProofs --------------------------
(***************************************************************************)
(* IInv of Processing is inductive when the stale threshold exceeds the    *)
(* processing timeouts, for any set of recordings and any worker limits;   *)
(* what is complete stays, and Processing implements Publication.          *)
(***************************************************************************)
EXTENDS Processing, TLAPS

----------------------------------------------------------------------------
(* What the invariant says of one recording and one job. *)

\* The row, the files and the upload of a recording have their types.
LEMMA RecordingTypes ==
  ASSUME TypeOK, NEW r \in Recordings
  PROVE  /\ row[r] \in Row
         /\ file[r] \in [Products \cup {"original"} -> {"none", "partial", "whole"}]
         /\ upload[r] \in {"none", "created", "stored"}
  BY DEF TypeOK

\* The initial states satisfy the invariant.
LEMMA InitOK == Init => IInv
<1> SUFFICES ASSUME Init PROVE IInv
  OBVIOUS
<1> USE DEF Init
<1>1. TypeOK
  BY DEF TypeOK, NoRow, Row, FreeJob, JobState, JobPC, Steps, Stages, Products
<1>2. \A j \in Jobs : JobOK(j)
  BY DEF JobOK, AtJob, FreeJob
<1>3. \A r \in Recordings : RecordingOK(r)
  BY DEF RecordingOK, NoRow, Stages
<1>4. OneJobPerRecording
  BY DEF OneJobPerRecording, AtJob, FreeJob
<1>5. ReadyMeansWhole /\ FailureIsReported
  BY DEF ReadyMeansWhole, FailureIsReported, NoRow
<1> QED BY <1>1, <1>2, <1>3, <1>4, <1>5 DEF IInv

----------------------------------------------------------------------------
(* A step that concerns one recording. *)

\* The other recordings are as they were, and none of them newly listed.
Alone(r) ==
  \A q \in Recordings \ {r} :
    /\ row'[q] = row[q] /\ file'[q] = file[q] /\ upload'[q] = upload[q]
    /\ q \in sweep' => q \in sweep

\* Jobs of other recordings are as they were, or gone.
JobsKept(r) ==
  \A j \in Jobs : job'[j] = job[j] \/ job'[j] = FreeJob \/ job'[j].rec = r

\* What RecordingOK, ReadyMeansWhole and FailureIsReported say of r.
AllOK(r) ==
  /\ RecordingOK(r)
  /\ \A a \in row[r].ready : file[r][a] = "whole"
  /\ row[r].step = "complete" /\ ~({"playback", "waveform"} \subseteq row[r].ready)
       => row[r].error # "none"

\* The invariant is about one recording and one job at a time.
LEMMA Unfolded ==
  IInv <=> /\ TypeOK
           /\ \A j \in Jobs : JobOK(j)
           /\ \A r \in Recordings : AllOK(r)
           /\ OneJobPerRecording
  BY DEF IInv, AllOK, ReadyMeansWhole, FailureIsReported

\* The same, of the next state.
LEMMA UnfoldedNext ==
  IInv' <=> /\ TypeOK'
            /\ \A j \in Jobs : JobOK(j)'
            /\ \A r \in Recordings : AllOK(r)'
            /\ OneJobPerRecording'
  BY DEF IInv, AllOK, ReadyMeansWhole, FailureIsReported

\* If the step keeps the others and leaves r and its jobs right, the
\* invariant is preserved.
LEMMA OneRecording ==
  ASSUME IInv, NEW r \in Recordings, TypeOK', Alone(r), JobsKept(r), AllOK(r)',
         \A j \in Jobs : job'[j].rec = r => JobOK(j)',
         OneJobPerRecording'
  PROVE  IInv'
<1>1. ASSUME NEW q \in Recordings PROVE AllOK(q)'
  <2>1. CASE q = r
    BY <2>1
  <2>2. CASE q # r
    BY <2>2, Unfolded DEF AllOK, RecordingOK, Alone
  <2> QED BY <2>1, <2>2
<1>2. ASSUME NEW j \in Jobs PROVE JobOK(j)'
  <2>1. JobOK(j)
    BY Unfolded
  <2>2. CASE job'[j].rec = r
    BY <2>2
  <2>3. CASE job'[j] = FreeJob
    BY <2>3 DEF FreeJob, JobOK, AtJob
  <2>4. CASE job'[j] = job[j] /\ job[j].rec # r
    BY <2>1, <2>4 DEF JobOK, AtJob, Alone
  <2> QED BY <2>2, <2>3, <2>4 DEF JobsKept
<1> QED BY <1>1, <1>2, UnfoldedNext

\* If the jobs do not change, there is still one job per recording.
LEMMA SameJobs ==
  ASSUME IInv, job' = job
  PROVE  OneJobPerRecording' /\ \A r \in Recordings : JobsKept(r)
  BY DEF IInv, OneJobPerRecording, AtJob, JobsKept

\* Nobody works on a recording whose step is not that of a job.
LEMMA NotBusy ==
  ASSUME IInv, NEW r \in Recordings, NEW j \in Jobs,
         \/ row[r].step \in {"absent", "complete"}
         \/ upload[r] # "none"
         \/ r \in sweep
  PROVE  job[j].rec # r
  BY Unfolded, ProcessingAssumption DEF JobOK, Stages

----------------------------------------------------------------------------
(* Steps of a recording. *)

\* The row is inserted.
LEMMA CreateOK ==
  ASSUME IInv, NEW r \in Recordings, Create(r)
  PROVE  IInv'
<1>0. TypeOK /\ AllOK(r) /\ row[r] \in Row /\ row[r].step = "absent"
  BY Unfolded, RecordingTypes DEF Create, Exists
<1>1. [row[r] EXCEPT !.step = "queued"] \in Row
  BY <1>0 DEF Row, Steps
<1>2. row' = [row EXCEPT ![r] = [row[r] EXCEPT !.step = "queued"]]
  BY <1>0 DEF TypeOK, Create
<1>3. TypeOK'
  BY <1>0, <1>1, <1>2 DEF TypeOK, Create
<1>4. Alone(r)
  BY <1>0, <1>2 DEF Alone, TypeOK, Create
<1>5. row'[r] = [row[r] EXCEPT !.step = "queued"] /\ upload'[r] = "created"
  BY <1>0, <1>2 DEF TypeOK, Create
<1>6. AllOK(r)'
  BY <1>0, <1>5 DEF AllOK, RecordingOK, Create, Row, Stages
<1>7. \A j \in Jobs : job'[j].rec # r
  BY <1>0, NotBusy DEF Create
<1> QED BY <1>3, <1>4, <1>6, <1>7, SameJobs, OneRecording DEF Create

\* Only the marks of a row change, and it does not come to look stale while
\* a job that has written its step runs.
LEMMA MarksOK ==
  ASSUME IInv, NEW r \in Recordings, NEW new \in Row,
         row' = [row EXCEPT ![r] = new],
         UNCHANGED <<file, upload, job, sweep, loop, server>>,
         new.step = row[r].step, new.ready = row[r].ready,
         new.error = row[r].error, new.path = row[r].path,
         \A j \in Jobs : job[j].rec = r /\ new.stale =>
           row[r].stale \/ row[r].step = "queued"
  PROVE  IInv'
<1>0. TypeOK /\ AllOK(r)
  BY Unfolded
<1>1. TypeOK'
  BY <1>0 DEF TypeOK
<1>2. Alone(r) /\ row'[r] = new
  BY <1>0 DEF Alone, TypeOK
<1>3. AllOK(r)'
  BY <1>0, <1>2 DEF AllOK, RecordingOK
<1>4. ASSUME NEW j \in Jobs, job'[j].rec = r PROVE JobOK(j)'
  <2>1. JobOK(j)
    BY Unfolded
  <2> QED
    BY <1>2, <1>4, <2>1 DEF JobOK, AtJob
<1> QED BY <1>1, <1>2, <1>3, <1>4, SameJobs, OneRecording

\* Update and SoftDelete set updated_at; with time it falls behind.
LEMMA TouchOK ==
  ASSUME IInv, StaleExceedsTimeout, NEW r \in Recordings,
         Edit(r) \/ SoftDelete(r) \/ GoesStale(r)
  PROVE  IInv'
<1>0. TypeOK /\ row[r] \in Row
  BY Unfolded, RecordingTypes
<1>1. CASE Edit(r)
  <2> DEFINE new == [row[r] EXCEPT !.stale = FALSE]
  <2>1. row' = [row EXCEPT ![r] = new]
    BY <1>0, <1>1 DEF Edit, TypeOK
  <2>2. new \in Row /\ ~new.stale
    BY <1>0 DEF Row
  <2>3. new.step = row[r].step /\ new.ready = row[r].ready
          /\ new.error = row[r].error /\ new.path = row[r].path
    BY <1>0 DEF Row
  <2> HIDE DEF new
  <2> QED BY <1>1, <2>1, <2>2, <2>3, MarksOK DEF Edit
<1>2. CASE SoftDelete(r)
  <2> DEFINE new == [row[r] EXCEPT !.deleted = TRUE, !.stale = FALSE]
  <2>1. row' = [row EXCEPT ![r] = new]
    BY <1>0, <1>2 DEF SoftDelete, TypeOK
  <2>2. new \in Row /\ ~new.stale
    BY <1>0 DEF Row
  <2>3. new.step = row[r].step /\ new.ready = row[r].ready
          /\ new.error = row[r].error /\ new.path = row[r].path
    BY <1>0 DEF Row
  <2> HIDE DEF new
  <2> QED BY <1>2, <2>1, <2>2, <2>3, MarksOK DEF SoftDelete
<1>3. CASE GoesStale(r)
  <2> DEFINE new == [row[r] EXCEPT !.stale = TRUE]
  <2>1. row' = [row EXCEPT ![r] = new]
    BY <1>0, <1>3 DEF GoesStale, TypeOK
  <2>2. new \in Row
    BY <1>0 DEF Row
  <2>3. new.step = row[r].step /\ new.ready = row[r].ready
          /\ new.error = row[r].error /\ new.path = row[r].path
    BY <1>0 DEF Row
  <2>4. \A j \in Jobs : job[j].rec = r => row[r].step = "queued"
    BY <1>3, Unfolded, ProcessingAssumption DEF GoesStale, JobOK, AtJob
  <2>5. UNCHANGED <<file, upload, job, sweep, loop, server>>
    BY <1>3 DEF GoesStale
  <2> HIDE DEF new
  <2>6. \A j \in Jobs : job[j].rec = r /\ new.stale =>
          row[r].stale \/ row[r].step = "queued"
    BY <2>4
  <2> QED BY <2>1, <2>2, <2>3, <2>5, <2>6, MarksOK
<1> QED BY <1>1, <1>2, <1>3

\* The handler moves the upload to its place, or fails to.
LEMMA StoreOK ==
  ASSUME IInv, NEW r \in Recordings, StoreOriginal(r) \/ StoreFails(r)
  PROVE  IInv'
<1>0. TypeOK /\ AllOK(r) /\ file[r] \in
        [Products \cup {"original"} -> {"none", "partial", "whole"}]
  BY Unfolded, RecordingTypes
<1>1. \A j \in Jobs : job'[j].rec # r
  BY NotBusy DEF StoreOriginal, StoreFails
<1>2. CASE StoreOriginal(r)
  <2>1. file' = [file EXCEPT ![r] = [file[r] EXCEPT !["original"] = "whole"]]
    BY <1>0, <1>2 DEF StoreOriginal, TypeOK
  <2>2. [file[r] EXCEPT !["original"] = "whole"] \in
          [Products \cup {"original"} -> {"none", "partial", "whole"}]
    BY <1>0
  <2>3. TypeOK'
    BY <1>0, <1>2, <2>1, <2>2 DEF TypeOK, StoreOriginal
  <2>4. Alone(r)
    BY <1>0, <1>2, <2>1 DEF Alone, TypeOK, StoreOriginal
  <2>5. /\ file'[r] = [file[r] EXCEPT !["original"] = "whole"]
        /\ upload'[r] = "stored"
    BY <1>0, <1>2, <2>1 DEF TypeOK, StoreOriginal
  <2>6. AllOK(r)'
    BY <1>0, <1>2, <2>5 DEF AllOK, RecordingOK, StoreOriginal, Stages, Products
  <2> QED BY <1>1, <1>2, <2>3, <2>4, <2>6, SameJobs, OneRecording DEF StoreOriginal
<1>3. CASE StoreFails(r)
  <2>1. TypeOK'
    BY <1>0, <1>3 DEF TypeOK, StoreFails
  <2>2. Alone(r) /\ upload'[r] = "none"
    BY <1>0, <1>3 DEF Alone, TypeOK, StoreFails
  <2>3. AllOK(r)'
    BY <1>0, <1>3, <2>2 DEF AllOK, RecordingOK, StoreFails
  <2> QED BY <1>1, <1>3, <2>1, <2>2, <2>3, SameJobs, OneRecording DEF StoreFails
<1> QED BY <1>2, <1>3

\* A job is enqueued for a recording nobody works on.
LEMMA EnqueueOK ==
  ASSUME IInv, NEW r \in Recordings, Enqueue(r),
         \A j \in Jobs : job[j].rec # r
  PROVE  /\ job' \in [Jobs -> JobState]
         /\ JobsKept(r)
         /\ OneJobPerRecording'
         /\ \A j \in Jobs : job'[j].rec = r =>
              job'[j].pc = "waiting" /\ job'[j].ready = {} /\ job'[j].err = "none"
<1>0. TypeOK /\ OneJobPerRecording
  BY Unfolded
<1> DEFINE new == [FreeJob EXCEPT !.pc = "waiting", !.rec = r]
<1>1. PICK i \in Jobs : job[i].pc = "free" /\ job' = [job EXCEPT ![i] = new]
  BY DEF Enqueue
<1>2. new \in JobState /\ new.rec = r /\ new.pc = "waiting" /\ new.ready = {}
        /\ new.err = "none"
  BY DEF JobState, JobPC, FreeJob
<1>3. \A j \in Jobs : job'[j] = IF j = i THEN new ELSE job[j]
  BY <1>0, <1>1 DEF TypeOK
<1>4. job' \in [Jobs -> JobState] /\ JobsKept(r)
  BY <1>0, <1>1, <1>2, <1>3 DEF TypeOK, JobsKept
<1> HIDE DEF new
<1>5. OneJobPerRecording'
  BY <1>0, <1>2, <1>3 DEF OneJobPerRecording, AtJob
<1> QED BY <1>2, <1>3, <1>4, <1>5

\* The storage path is written, or not, and the job enqueued.
LEMMA FinishUploadOK ==
  ASSUME IInv, NEW r \in Recordings, FinishUpload(r)
  PROVE  IInv'
<1>0. TypeOK /\ AllOK(r) /\ row[r] \in Row
  BY Unfolded, RecordingTypes
<1>1. \A j \in Jobs : job[j].rec # r
  BY NotBusy DEF FinishUpload
<1>2. PICK new \in Row :
        /\ row' = [row EXCEPT ![r] = new]
        /\ new.step = row[r].step /\ new.ready = row[r].ready
        /\ new.error = row[r].error
  <2>1. CASE UNCHANGED row
    BY <1>0, <2>1 DEF TypeOK
  <2>2. CASE row' = [row EXCEPT ![r].path = TRUE, ![r].stale = FALSE]
    <3> DEFINE new == [row[r] EXCEPT !.path = TRUE, !.stale = FALSE]
    <3>1. row' = [row EXCEPT ![r] = new]
      BY <1>0, <2>2 DEF TypeOK
    <3>2. new \in Row /\ new.step = row[r].step /\ new.ready = row[r].ready
            /\ new.error = row[r].error
      BY <1>0 DEF Row
    <3> QED BY <3>1, <3>2
  <2> QED BY <2>1, <2>2 DEF FinishUpload
<1>3. TypeOK'
  BY <1>0, <1>1, <1>2, EnqueueOK DEF TypeOK, FinishUpload
<1>4. Alone(r) /\ row'[r] = new /\ upload'[r] = "none"
  BY <1>0, <1>2 DEF Alone, TypeOK, FinishUpload
<1>5. AllOK(r)'
  BY <1>0, <1>2, <1>4 DEF AllOK, RecordingOK, FinishUpload
<1>6. row[r].step = "queued" /\ file[r]["original"] = "whole" /\ r \notin sweep
  BY <1>0 DEF AllOK, RecordingOK, FinishUpload, Stages
<1>7. ASSUME NEW j \in Jobs, job'[j].rec = r PROVE JobOK(j)'
  BY <1>1, <1>2, <1>4, <1>6, <1>7, EnqueueOK DEF JobOK, AtJob, FinishUpload, Stages
<1> QED
  BY <1>1, <1>3, <1>4, <1>5, <1>7, EnqueueOK, OneRecording DEF FinishUpload

----------------------------------------------------------------------------
(* Steps of a job. *)

\* A job that goes on is still the only one of its recording.
LEMMA JobGoesOn ==
  ASSUME IInv, NEW j \in Jobs, ~AtJob(j, "free"), NEW new \in JobState,
         new.rec = job[j].rec, job' = [job EXCEPT ![j] = new]
  PROVE  /\ job' \in [Jobs -> JobState] /\ job'[j] = new
         /\ JobsKept(job[j].rec)
         /\ OneJobPerRecording'
         /\ \A i \in Jobs : job'[i].rec = job[j].rec => i = j
<1>0. TypeOK /\ OneJobPerRecording
  BY Unfolded
<1>1. \A i \in Jobs : job'[i] = IF i = j THEN new ELSE job[i]
  BY <1>0 DEF TypeOK
<1>2. \A i \in Jobs \ {j} : job[i].rec # job[j].rec
  BY <1>0 DEF OneJobPerRecording
<1>3. OneJobPerRecording'
  BY <1>0, <1>1, <1>2 DEF OneJobPerRecording, AtJob
<1> QED BY <1>0, <1>1, <1>2, <1>3 DEF TypeOK, JobsKept

\* A job that ends leaves its recording to nobody.
LEMMA JobEnds ==
  ASSUME IInv, NEW j \in Jobs, ~AtJob(j, "free"),
         job' = [job EXCEPT ![j] = FreeJob]
  PROVE  /\ job' \in [Jobs -> JobState]
         /\ JobsKept(job[j].rec)
         /\ OneJobPerRecording'
         /\ \A i \in Jobs : job'[i].rec # job[j].rec
<1>0. TypeOK /\ OneJobPerRecording /\ job[j].rec \in Recordings
  BY Unfolded DEF JobOK
<1>1. \A i \in Jobs : job'[i] = IF i = j THEN FreeJob ELSE job[i]
  BY <1>0 DEF TypeOK
<1>2. \A i \in Jobs \ {j} : job[i].rec # job[j].rec
  BY <1>0 DEF OneJobPerRecording
<1>3. FreeJob \in JobState /\ FreeJob.pc = "free" /\ FreeJob.rec = NoRec
  BY DEF FreeJob, JobState, JobPC
<1>4. ASSUME NEW i \in Jobs, NEW k \in Jobs, i # k, ~AtJob(i, "free")'
      PROVE  job'[i].rec # job'[k].rec
  <2>1. i # j /\ job'[i] = job[i] /\ ~AtJob(i, "free")
    BY <1>1, <1>3, <1>4 DEF AtJob
  <2>2. job[i].rec # NoRec
    BY <2>1, Unfolded, ProcessingAssumption DEF JobOK
  <2> QED BY <1>0, <1>1, <1>3, <1>4, <2>1, <2>2 DEF OneJobPerRecording
<1>5. OneJobPerRecording'
  BY <1>4 DEF OneJobPerRecording
<1>6. \A i \in Jobs : job'[i].rec # job[j].rec
  BY <1>0, <1>1, <1>2, <1>3, ProcessingAssumption
<1> QED BY <1>0, <1>1, <1>3, <1>5, <1>6 DEF TypeOK, JobsKept

\* A step is written or not.
LEMMA TryStepOK ==
  ASSUME TypeOK, NEW r \in Recordings, NEW s \in Steps, TryStep(r, s)
  PROVE  /\ row' \in [Recordings -> Row]
         /\ \A q \in Recordings \ {r} : row'[q] = row[q]
         /\ row'[r] = row[r] \/ (row'[r].step = s /\ ~row'[r].stale)
         /\ row'[r].ready = row[r].ready
         /\ row'[r].error = row[r].error
         /\ row'[r].path = row[r].path
<1>0. row \in [Recordings -> Row]
  BY DEF TypeOK
<1>1. CASE row' = row
  BY <1>0, <1>1
<1>2. CASE WriteStep(r, s)
  <2> DEFINE new == [row[r] EXCEPT !.step = s, !.stale = FALSE]
  <2>1. row' = [row EXCEPT ![r] = new]
    BY <1>0, <1>2 DEF WriteStep
  <2>2. /\ new \in Row /\ new.step = s /\ ~new.stale
        /\ new.ready = row[r].ready /\ new.error = row[r].error
        /\ new.path = row[r].path
    BY <1>0 DEF Row
  <2> HIDE DEF new
  <2> QED BY <1>0, <2>1, <2>2
<1> QED BY <1>1, <1>2 DEF TryStep

\* What Proceed does preserves the invariant if what the job is to report is
\* on disk.
LEMMA ProceedOK ==
  ASSUME IInv, NEW j \in Jobs, ~AtJob(j, "free"),
         NEW r \in Recordings, r = job[j].rec,
         NEW s \in Stages \cup {"reporting"}, NEW ready \in SUBSET Products,
         NEW err \in Stages \cup {"none"}, Proceed(j, s, ready, err),
         upload' = upload, sweep' = sweep, loop' = loop, server' = server,
         file' \in [Recordings -> [Products \cup {"original"} ->
                                     {"none", "partial", "whole"}]],
         \A q \in Recordings \ {r} : file'[q] = file[q],
         file'[r]["original"] = file[r]["original"],
         \A a \in ready : file'[r][a] = "whole",
         ready \subseteq Earlier(s),
         s \in Stages \ {"analyzing", "transcoding"} => "playback" \in ready,
         s = "reporting" /\ err = "none" => {"playback", "waveform"} \subseteq ready
  PROVE  IInv'
<1> DEFINE new == [job[j] EXCEPT !.pc = s, !.ready = ready, !.err = err]
<1>0. TypeOK /\ AllOK(r) /\ JobOK(j) /\ job[j] \in JobState
  BY Unfolded DEF TypeOK
<1>1. /\ new \in JobState /\ new.rec = job[j].rec /\ new.pc = s
      /\ new.ready = ready /\ new.err = err
  BY <1>0 DEF JobState, JobPC
<1>2. job' = [job EXCEPT ![j] = new]
  BY <1>0 DEF Proceed, TypeOK
<1> HIDE DEF new
<1>3. /\ job' \in [Jobs -> JobState] /\ job'[j] = new
      /\ JobsKept(r) /\ OneJobPerRecording'
      /\ \A i \in Jobs : job'[i].rec = r => i = j
  <2>1. /\ job' \in [Jobs -> JobState] /\ job'[j] = new
        /\ JobsKept(job[j].rec) /\ OneJobPerRecording'
        /\ \A i \in Jobs : job'[i].rec = job[j].rec => i = j
    BY <1>1, <1>2, JobGoesOn
  <2> QED BY <2>1
<1>4. /\ row' \in [Recordings -> Row]
      /\ \A q \in Recordings \ {r} : row'[q] = row[q]
      /\ row'[r] = row[r] \/ (row'[r].step \in Stages /\ ~row'[r].stale)
      /\ row'[r].ready = row[r].ready
      /\ row'[r].error = row[r].error
      /\ row'[r].path = row[r].path
  <2>0. row \in [Recordings -> Row]
    BY <1>0 DEF TypeOK
  <2>1. CASE s = "reporting"
    <3>1. row' = row
      BY <2>1 DEF Proceed
    <3> QED BY <2>0, <3>1
  <2>2. CASE s \in Stages
    <3>1. s \in Steps /\ s # "reporting"
      BY <2>2 DEF Steps, Stages
    <3>2. TryStep(r, s)
      BY <3>1 DEF Proceed
    <3> QED BY <1>0, <2>2, <3>1, <3>2, TryStepOK
  <2> QED BY <2>1, <2>2
<1>5. TypeOK'
  BY <1>0, <1>3, <1>4 DEF TypeOK
<1>6. Alone(r)
  BY <1>4 DEF Alone
<1>8. /\ upload[r] = "none" /\ r \notin sweep /\ file[r]["original"] = "whole"
      /\ row[r].step \in Stages \cup {"queued"}
      /\ row[r].stale => row[r].step = "queued"
  BY <1>0 DEF JobOK
<1>9. row[r].ready = {}
  BY <1>0, <1>8 DEF AllOK, RecordingOK, Stages
<1>10. /\ row'[r].step \in Stages \cup {"queued"}
       /\ row'[r].stale => row'[r].step = "queued"
       /\ row'[r].ready = {}
  BY <1>4, <1>8, <1>9
<1>11. AllOK(r)'
  BY <1>8, <1>10 DEF AllOK, RecordingOK, Stages
<1>12. JobOK(j)'
  <2>1. /\ job'[j].rec = r /\ job'[j].pc = s /\ job'[j].ready = ready
        /\ job'[j].err = err
    BY <1>1, <1>3
  <2>2. s \notin {"free", "waiting"}
    BY DEF Stages
  <2> QED BY <1>8, <1>10, <2>1, <2>2 DEF JobOK, AtJob
<1>13. \A i \in Jobs : job'[i].rec = r => JobOK(i)'
  BY <1>3, <1>12
<1> QED
  BY <1>3, <1>5, <1>6, <1>11, <1>13, OneRecording

\* What the invariant says of a busy job, by name.
LEMMA BusyJob ==
  ASSUME IInv, NEW j \in Jobs, ~AtJob(j, "free")
  PROVE  /\ TypeOK /\ job[j] \in JobState /\ job[j].rec \in Recordings
         /\ upload[job[j].rec] = "none" /\ job[j].rec \notin sweep
         /\ row[job[j].rec].step \in Stages \cup {"queued"}
         /\ file[job[j].rec]["original"] = "whole"
         /\ \A a \in job[j].ready : file[job[j].rec][a] = "whole"
         /\ job[j].ready \subseteq Earlier(job[j].pc)
         /\ job[j].pc \in Stages \ {"analyzing", "transcoding"} =>
              "playback" \in job[j].ready
         /\ AtJob(j, "reporting") /\ job[j].err = "none" =>
              {"playback", "waveform"} \subseteq job[j].ready
<1>1. TypeOK /\ JobOK(j)
  BY Unfolded
<1>2. job[j] \in JobState
  BY <1>1 DEF TypeOK
<1> QED BY <1>1, <1>2 DEF JobOK

\* The job has the semaphore and begins.
LEMMA AcquireOK ==
  ASSUME IInv, NEW j \in Jobs, Acquire(j)
  PROVE  IInv'
<1> DEFINE r == job[j].rec
<1>1. ~AtJob(j, "free") /\ job[j].pc = "waiting"
  BY DEF Acquire, AtJob
<1>2. TypeOK /\ job[j] \in JobState /\ r \in Recordings /\ job[j].ready = {}
  BY <1>1, BusyJob DEF Earlier
<1>3. job[j].err \in Stages \cup {"none"} /\ job[j].ready \in SUBSET Products
  BY <1>2 DEF JobState
<1>4. job' = [job EXCEPT ![j] = [job[j] EXCEPT !.pc = "analyzing",
                                   !.ready = job[j].ready, !.err = job[j].err]]
  BY <1>2 DEF Acquire, JobState, TypeOK
<1>5. Proceed(j, "analyzing", job[j].ready, job[j].err)
  BY <1>4 DEF Acquire, Proceed
<1>6. /\ file' = file /\ upload' = upload /\ sweep' = sweep
      /\ loop' = loop /\ server' = server
  BY DEF Acquire
<1>7. file' \in [Recordings -> [Products \cup {"original"} ->
                                  {"none", "partial", "whole"}]]
  BY <1>2, <1>6 DEF TypeOK
<1>8. "analyzing" \in Stages
  BY DEF Stages
<1> HIDE DEF r
<1>9. r = job[j].rec
  BY DEF r
<1>10. /\ \A a \in job[j].ready : file'[r][a] = "whole"
       /\ file'[r]["original"] = file[r]["original"]
       /\ \A q \in Recordings \ {r} : file'[q] = file[q]
       /\ job[j].ready \subseteq Earlier("analyzing")
  BY <1>2, <1>6
<1> QED
  BY <1>1, <1>2, <1>3, <1>5, <1>6, <1>7, <1>8, <1>9, <1>10, ProceedOK

\* The stage that follows, and what a job may have produced by then.
LEMMA AfterFacts ==
  ASSUME NEW s \in Stages, NEW r
  PROVE  /\ After(s, r) \in Stages \cup {"reporting"}
         /\ Earlier(s) \cup ProductsOf(s) \subseteq Earlier(After(s, r))
         /\ After(s, r) # "analyzing"
         /\ After(s, r) = "transcoding" => s = "analyzing"
         /\ After(s, r) \in {"reporting"} => s = "generating_waveform"
         /\ ProductsOf(s) \subseteq Products
         /\ ProductsOf(s) \cap Earlier(s) = {}
  BY DEF After, Earlier, ProductsOf, Stages, Products

\* A tool that fails leaves the flags of the stages before it.
LEMMA ToolFailsOK ==
  ASSUME IInv, NEW j \in Jobs, ToolFails(j)
  PROVE  IInv'
<1> DEFINE r == job[j].rec
           s == job[j].pc
           t == IF Fatal(s) THEN "reporting" ELSE After(s, r)
<1>1. s \in Stages /\ ~AtJob(j, "free")
  BY DEF ToolFails, AtJob, Stages
<1>2. /\ TypeOK /\ job[j] \in JobState /\ r \in Recordings
      /\ \A a \in job[j].ready : file[r][a] = "whole"
      /\ job[j].ready \subseteq Earlier(s)
      /\ s \in Stages \ {"analyzing", "transcoding"} => "playback" \in job[j].ready
  BY <1>1, BusyJob
<1>3. job[j].ready \in SUBSET Products
  BY <1>2 DEF JobState
<1>4. Proceed(j, t, job[j].ready, s)
  BY DEF ToolFails
<1>5. /\ file' = file /\ upload' = upload /\ sweep' = sweep
      /\ loop' = loop /\ server' = server
  BY DEF ToolFails
<1>6. file' \in [Recordings -> [Products \cup {"original"} ->
                                  {"none", "partial", "whole"}]]
  BY <1>2, <1>5 DEF TypeOK
<1>7. /\ t \in Stages \cup {"reporting"}
      /\ job[j].ready \subseteq Earlier(t)
      /\ t \in Stages \ {"analyzing", "transcoding"} => "playback" \in job[j].ready
      /\ s # "none" /\ s \in Stages \cup {"none"}
  BY <1>1, <1>2, <1>3, AfterFacts DEF Fatal, Earlier, Stages
<1>8. r = job[j].rec
  OBVIOUS
<1> HIDE DEF r, s, t
<1>9. /\ \A a \in job[j].ready : file'[r][a] = "whole"
      /\ file'[r]["original"] = file[r]["original"]
      /\ \A q \in Recordings \ {r} : file'[q] = file[q]
  BY <1>2, <1>5
<1> QED BY <1>1, <1>2, <1>3, <1>4, <1>5, <1>6, <1>7, <1>8, <1>9, ProceedOK

\* A tool that succeeds has its output whole, and the earlier ones untouched.
LEMMA ToolSucceedsOK ==
  ASSUME IInv, NEW j \in Jobs, ToolSucceeds(j)
  PROVE  IInv'
<1> DEFINE r == job[j].rec
           s == job[j].pc
           t == After(s, r)
           ready == job[j].ready \cup ProductsOf(s)
           new == [a \in Products \cup {"original"} |->
                     IF a \in ProductsOf(s) THEN "whole" ELSE file[r][a]]
<1>1. s \in Stages /\ ~AtJob(j, "free")
  BY DEF ToolSucceeds, AtJob, Stages
<1>2. /\ TypeOK /\ job[j] \in JobState /\ r \in Recordings
      /\ \A a \in job[j].ready : file[r][a] = "whole"
      /\ job[j].ready \subseteq Earlier(s)
      /\ s \in Stages \ {"analyzing", "transcoding"} => "playback" \in job[j].ready
  BY <1>1, BusyJob
<1>3. file[r] \in [Products \cup {"original"} -> {"none", "partial", "whole"}]
  BY <1>2, RecordingTypes
<1>4. job[j].ready \in SUBSET Products /\ ProductsOf(s) \in SUBSET Products
  BY <1>1, <1>2, AfterFacts DEF JobState
<1>5. file' = [file EXCEPT ![r] = new]
  BY <1>2 DEF ToolSucceeds, TypeOK
<1>6. new \in [Products \cup {"original"} -> {"none", "partial", "whole"}]
  BY <1>3
<1>7. \A q \in Recordings : file'[q] = IF q = r THEN new ELSE file[q]
  BY <1>2, <1>5 DEF TypeOK
<1>8. file' \in [Recordings -> [Products \cup {"original"} ->
                                  {"none", "partial", "whole"}]]
  BY <1>2, <1>5, <1>6 DEF TypeOK
<1>9. /\ \A a \in ready : new[a] = "whole"
      /\ new["original"] = file[r]["original"]
  BY <1>2, <1>4 DEF Products
<1>10. Proceed(j, t, ready, "none")
  BY DEF ToolSucceeds
<1>11. /\ upload' = upload /\ sweep' = sweep
       /\ loop' = loop /\ server' = server
  BY DEF ToolSucceeds
<1>12. t \in Stages \cup {"reporting"} /\ ready \subseteq Earlier(t)
  BY <1>1, <1>2, AfterFacts
<1>13. t \in Stages \ {"analyzing", "transcoding"} => "playback" \in ready
  BY <1>1, <1>2 DEF After, ProductsOf, Stages
<1>14. t = "reporting" => {"playback", "waveform"} \subseteq ready
  BY <1>1, <1>2 DEF After, ProductsOf, Stages
<1>15. ready \in SUBSET Products /\ "none" \in Stages \cup {"none"}
  BY <1>4
<1>16. r = job[j].rec
  OBVIOUS
<1> HIDE DEF r, s, t, ready, new
<1>17. /\ \A a \in ready : file'[r][a] = "whole"
       /\ file'[r]["original"] = file[r]["original"]
       /\ \A q \in Recordings \ {r} : file'[q] = file[q]
  BY <1>2, <1>7, <1>9
<1> QED
  BY <1>1, <1>2, <1>8, <1>10, <1>11, <1>12, <1>13, <1>14, <1>15, <1>16,
     <1>17, ProceedOK

\* A tool that opens its output spoils nothing a flag tells of.
LEMMA ToolWritesOK ==
  ASSUME IInv, NEW j \in Jobs, ToolWrites(j)
  PROVE  IInv'
<1>0. PICK r \in Recordings : r = job[j].rec
  BY BusyJob DEF ToolWrites, AtJob, Stages
<1> DEFINE s == job[j].pc
<1>1. s \in Stages /\ ~AtJob(j, "free")
  BY DEF ToolWrites, AtJob, Stages
<1>2. /\ TypeOK
      /\ row[r].step \in Stages \cup {"queued"}
      /\ job[j].ready \subseteq Earlier(s)
  BY <1>0, <1>1, BusyJob
<1>3. PICK a \in ProductsOf(s) : file' = [file EXCEPT ![r][a] = "partial"]
  BY <1>0 DEF ToolWrites
<1>4. a \in Products /\ a \notin job[j].ready /\ a # "original"
  BY <1>1, <1>2, <1>3, AfterFacts DEF Products
<1> DEFINE new == [file[r] EXCEPT ![a] = "partial"]
<1>5. file[r] \in [Products \cup {"original"} -> {"none", "partial", "whole"}]
  BY <1>2, RecordingTypes
<1>6. /\ new \in [Products \cup {"original"} -> {"none", "partial", "whole"}]
      /\ \A b \in (Products \cup {"original"}) \ {a} : new[b] = file[r][b]
  BY <1>4, <1>5
<1>7. file' = [file EXCEPT ![r] = new]
  BY <1>2, <1>3 DEF TypeOK
<1> HIDE DEF new
<1>8. \A q \in Recordings : file'[q] = IF q = r THEN new ELSE file[q]
  BY <1>2, <1>7 DEF TypeOK
<1>9. /\ row' = row /\ upload' = upload /\ job' = job /\ sweep' = sweep
      /\ loop' = loop /\ server' = server
  BY DEF ToolWrites
<1>10. TypeOK'
  BY <1>2, <1>6, <1>7, <1>9 DEF TypeOK
<1>11. Alone(r)
  BY <1>8, <1>9 DEF Alone
<1>12. AllOK(r) /\ row[r].ready = {}
  BY <1>2, Unfolded DEF AllOK, RecordingOK, Stages
<1>13. file'[r]["original"] = file[r]["original"]
  BY <1>2, <1>4, <1>6, <1>8
<1>14. AllOK(r)'
  BY <1>9, <1>12, <1>13 DEF AllOK, RecordingOK
<1>15. ASSUME NEW i \in Jobs, job'[i].rec = r PROVE JobOK(i)'
  <2>1. i = j
    BY <1>0, <1>1, <1>9, <1>15, Unfolded DEF OneJobPerRecording
  <2>2. JobOK(j) /\ job[j].ready \subseteq Products
    BY <1>2, Unfolded DEF TypeOK, JobState
  <2>3. \A b \in job[j].ready : file'[r][b] = file[r][b]
    BY <1>2, <1>4, <1>6, <1>8, <2>2
  <2>4. JobOK(j)'
    BY <1>0, <1>1, <1>9, <1>13, <2>2, <2>3 DEF JobOK, AtJob
  <2> QED BY <2>1, <2>4
<1>16. OneJobPerRecording' /\ JobsKept(r)
  BY <1>2, <1>9, SameJobs
<1> QED BY <1>2, <1>10, <1>11, <1>14, <1>15, <1>16, OneRecording

\* What a job reports is on disk, and a job without playback and waveform
\* reports an error.
LEMMA ReportOK ==
  ASSUME IInv, NEW j \in Jobs, Report(j)
  PROVE  IInv'
<1>0. PICK r \in Recordings : r = job[j].rec
  BY BusyJob DEF Report, AtJob
<1> DEFINE new == [row[r] EXCEPT !.step = "complete", !.ready = job[j].ready,
                                 !.error = job[j].err, !.stale = FALSE]
<1>1. AtJob(j, "reporting") /\ ~AtJob(j, "free")
  BY DEF Report, AtJob
<1>2. /\ TypeOK /\ job[j] \in JobState /\ upload[r] = "none" /\ r \notin sweep
      /\ file[r]["original"] = "whole"
      /\ \A a \in job[j].ready : file[r][a] = "whole"
      /\ job[j].err = "none" => {"playback", "waveform"} \subseteq job[j].ready
  BY <1>0, <1>1, BusyJob
<1>3. row[r] \in Row
  BY <1>2, RecordingTypes
<1>4. /\ new \in Row /\ new.step = "complete" /\ new.ready = job[j].ready
      /\ new.error = job[j].err /\ new.path = row[r].path
  BY <1>2, <1>3 DEF Row, JobState, Steps
<1>5. row' = [row EXCEPT ![r] = new]
  BY <1>0, <1>2 DEF Report, TypeOK
<1> HIDE DEF new
<1>6. job' = [job EXCEPT ![j] = FreeJob]
  BY DEF Report
<1>7. /\ file' = file /\ upload' = upload /\ sweep' = sweep
      /\ loop' = loop /\ server' = server
  BY DEF Report
<1>8. /\ job' \in [Jobs -> JobState] /\ JobsKept(r) /\ OneJobPerRecording'
      /\ \A i \in Jobs : job'[i].rec # r
  BY <1>0, <1>1, <1>6, JobEnds
<1>9. \A q \in Recordings : row'[q] = IF q = r THEN new ELSE row[q]
  BY <1>2, <1>5 DEF TypeOK
<1>10. TypeOK'
  BY <1>2, <1>4, <1>5, <1>7, <1>8 DEF TypeOK
<1>11. Alone(r)
  BY <1>7, <1>9 DEF Alone
<1>12. AllOK(r)'
  BY <1>2, <1>4, <1>7, <1>9 DEF AllOK, RecordingOK
<1> QED BY <1>8, <1>10, <1>11, <1>12, OneRecording

\* A job whose report fails leaves the row in the step it was in.
LEMMA ReportFailsOK ==
  ASSUME IInv, NEW j \in Jobs, ReportFails(j)
  PROVE  IInv'
<1>0. PICK r \in Recordings : r = job[j].rec
  BY BusyJob DEF ReportFails, AtJob
<1>1. ~AtJob(j, "free")
  BY DEF ReportFails, AtJob
<1>2. TypeOK /\ AllOK(r)
  BY Unfolded
<1>3. /\ job' = [job EXCEPT ![j] = FreeJob] /\ row' = row
      /\ file' = file /\ upload' = upload /\ sweep' = sweep
      /\ loop' = loop /\ server' = server
  BY DEF ReportFails
<1>4. /\ job' \in [Jobs -> JobState] /\ JobsKept(r) /\ OneJobPerRecording'
      /\ \A i \in Jobs : job'[i].rec # r
  BY <1>0, <1>1, <1>3, JobEnds
<1>5. TypeOK'
  BY <1>2, <1>3, <1>4 DEF TypeOK
<1>6. Alone(r) /\ AllOK(r)'
  BY <1>2, <1>3 DEF Alone, AllOK, RecordingOK
<1> QED BY <1>4, <1>5, <1>6, OneRecording

----------------------------------------------------------------------------
(* Steps of the recovery loop and of the server. *)

\* A listed recording is queued and gets a job: it had none.
LEMMA RequeueOK ==
  ASSUME IInv, NEW r \in Recordings, Requeue(r)
  PROVE  IInv'
<1> DEFINE new == [row[r] EXCEPT !.step = "queued", !.stale = FALSE]
<1>0. /\ TypeOK /\ AllOK(r) /\ row[r] \in Row /\ r \in sweep
      /\ row[r].step \in Stages
  BY Unfolded, RecordingTypes DEF Requeue, AllOK, RecordingOK
<1>1. /\ new \in Row /\ new.step = "queued" /\ ~new.stale
      /\ new.ready = row[r].ready /\ new.error = row[r].error
      /\ new.path = row[r].path
  BY <1>0 DEF Row, Steps
<1>2. row' = [row EXCEPT ![r] = new]
  BY <1>0 DEF Requeue, WriteStep, TypeOK
<1> HIDE DEF new
<1>3. /\ Enqueue(r) /\ sweep' = sweep \ {r}
      /\ file' = file /\ upload' = upload /\ loop' = loop /\ server' = server
  BY DEF Requeue
<1>4. \A j \in Jobs : job[j].rec # r
  BY <1>0, NotBusy
<1>5. /\ job' \in [Jobs -> JobState] /\ JobsKept(r) /\ OneJobPerRecording'
      /\ \A j \in Jobs : job'[j].rec = r =>
           job'[j].pc = "waiting" /\ job'[j].ready = {} /\ job'[j].err = "none"
  BY <1>3, <1>4, EnqueueOK
<1>6. \A q \in Recordings : row'[q] = IF q = r THEN new ELSE row[q]
  BY <1>0, <1>2 DEF TypeOK
<1>7. TypeOK'
  BY <1>0, <1>1, <1>2, <1>3, <1>5 DEF TypeOK
<1>8. Alone(r)
  BY <1>3, <1>6 DEF Alone
<1>9. upload[r] = "none" /\ file[r]["original"] = "whole" /\ row[r].ready = {}
  BY <1>0 DEF AllOK, RecordingOK, Stages
<1>10. AllOK(r)'
  BY <1>1, <1>3, <1>6, <1>9 DEF AllOK, RecordingOK, Stages
<1>11. ASSUME NEW j \in Jobs, job'[j].rec = r PROVE JobOK(j)'
  <2>1. /\ job'[j].pc = "waiting" /\ job'[j].ready = {} /\ r \notin sweep'
        /\ upload'[r] = "none" /\ file'[r]["original"] = "whole"
        /\ row'[r].step = "queued"
    BY <1>1, <1>3, <1>5, <1>6, <1>9, <1>11
  <2> QED BY <1>11, <2>1 DEF JobOK, AtJob, Stages
<1> QED BY <1>5, <1>7, <1>8, <1>10, <1>11, OneRecording

\* A listed recording that cannot be queued, or only that, is dropped from the
\* list.
LEMMA RequeueFailsOK ==
  ASSUME IInv, NEW r \in Recordings, RequeueFails(r)
  PROVE  IInv'
<1>1. TypeOK /\ AllOK(r) /\ r \in sweep /\ \A j \in Jobs : job[j].rec # r
  BY Unfolded, NotBusy DEF RequeueFails
<1>2. /\ sweep' = sweep \ {r} /\ TryStep(r, "queued") /\ job' = job
      /\ file' = file /\ upload' = upload /\ loop' = loop /\ server' = server
  BY DEF RequeueFails
<1>3. /\ row' \in [Recordings -> Row]
      /\ \A q \in Recordings \ {r} : row'[q] = row[q]
      /\ row'[r] = row[r] \/ row'[r].step = "queued"
      /\ row'[r].ready = row[r].ready /\ row'[r].error = row[r].error
      /\ row'[r].path = row[r].path
  BY <1>1, <1>2, TryStepOK DEF Steps
<1>4. TypeOK' /\ Alone(r)
  BY <1>1, <1>2, <1>3 DEF TypeOK, Alone
<1>5. AllOK(r)'
  <2>1. row[r].step \in Stages /\ upload[r] = "none" /\ row[r].ready = {}
    BY <1>1 DEF AllOK, RecordingOK, Stages
  <2> QED BY <1>1, <1>2, <1>3, <2>1 DEF AllOK, RecordingOK, Stages
<1>6. OneJobPerRecording' /\ JobsKept(r)
  BY <1>2, SameJobs
<1> QED BY <1>1, <1>2, <1>4, <1>5, <1>6, OneRecording

\* What the scan finds has no job: the row of a busy recording is fresh, or
\* its step is queued.
LEMMA ScanOK ==
  ASSUME IInv, Scan
  PROVE  IInv'
<1>1. /\ sweep' = {r \in Recordings : Stuck(r)} /\ loop' = "scan"
      /\ row' = row /\ file' = file /\ upload' = upload /\ job' = job
      /\ server' = server
  BY DEF Scan
<1>2. TypeOK /\ OneJobPerRecording
  BY Unfolded
<1>3. TypeOK'
  BY <1>1, <1>2 DEF TypeOK
<1>4. ASSUME NEW j \in Jobs PROVE JobOK(j)'
  <2>1. JobOK(j)
    BY Unfolded
  <2>2. ~AtJob(j, "free") => job[j].rec \notin sweep'
    BY <1>1, <2>1 DEF JobOK, Stuck
  <2> QED BY <1>1, <2>1, <2>2 DEF JobOK, AtJob
<1>5. ASSUME NEW r \in Recordings PROVE AllOK(r)'
  <2>1. AllOK(r) /\ row[r] \in Row
    BY <1>2, Unfolded, RecordingTypes
  <2>2. r \in sweep' => row[r].step \in Stages
    BY <1>1, <2>1 DEF Stuck, Row, Steps
  <2> QED BY <1>1, <2>1, <2>2 DEF AllOK, RecordingOK
<1>6. OneJobPerRecording'
  BY <1>1, <1>2 DEF OneJobPerRecording, AtJob
<1> QED BY <1>3, <1>4, <1>5, <1>6, UnfoldedNext

\* Steps of the loop and the server that leave rows, files and jobs alone.
LEMMA QuietOK ==
  ASSUME IInv, row' = row, file' = file, upload' = upload, job' = job,
         sweep' = sweep, loop' \in {"off", "idle", "scan"},
         server' \in {"off", "up", "draining", "closing"}
  PROVE  IInv'
<1>1. TypeOK'
  BY Unfolded DEF TypeOK
<1>2. \A j \in Jobs : JobOK(j)'
  BY Unfolded DEF JobOK, AtJob
<1>3. \A r \in Recordings : AllOK(r)'
  BY Unfolded DEF AllOK, RecordingOK
<1> QED BY <1>1, <1>2, <1>3, SameJobs, UnfoldedNext

\* The end of the process takes jobs, uploads and the list with it.
LEMMA ExitOK ==
  ASSUME IInv, Exit
  PROVE  IInv'
<1>1. /\ row' = row /\ file' = file /\ sweep' = {} /\ loop' = "off"
      /\ server' = "off" /\ upload' = [r \in Recordings |-> "none"]
      /\ job' = [j \in Jobs |-> FreeJob]
  BY DEF Exit
<1>2. FreeJob \in JobState /\ FreeJob.pc = "free" /\ FreeJob.rec = NoRec
  BY DEF FreeJob, JobState, JobPC
<1>3. TypeOK'
  BY <1>1, <1>2, Unfolded DEF TypeOK
<1>4. \A j \in Jobs : JobOK(j)'
  BY <1>1, <1>2 DEF JobOK, AtJob
<1>5. ASSUME NEW r \in Recordings PROVE AllOK(r)'
  BY <1>1, Unfolded DEF AllOK, RecordingOK
<1>6. OneJobPerRecording'
  BY <1>1, <1>2 DEF OneJobPerRecording, AtJob
<1> QED BY <1>3, <1>4, <1>5, <1>6, UnfoldedNext

----------------------------------------------------------------------------
(* The theorems.  All assume that RECOVERY_STALE_THRESHOLD_SECONDS is longer *)
(* than the processing timeouts, as in the defaults of config.go.           *)

\* Every step of the uploads, the jobs, the recovery loop and the server
\* preserves the invariant.
LEMMA NextOK ==
  ASSUME StaleExceedsTimeout, IInv, [Next]_vars
  PROVE  IInv'
<1>1. ASSUME NEW r \in Recordings, RecordingStep(r) PROVE IInv'
  BY <1>1, CreateOK, StoreOK, FinishUploadOK, TouchOK, RequeueOK, RequeueFailsOK
     DEF RecordingStep
<1>2. ASSUME NEW j \in Jobs, JobStep(j) PROVE IInv'
  BY <1>2, AcquireOK, ToolWritesOK, ToolSucceedsOK, ToolFailsOK, ReportOK,
     ReportFailsOK DEF JobStep
<1>3. CASE ServerStep
  <2>1. TypeOK
    BY Unfolded
  <2>2. CASE ScanEnds
    BY <2>1, <2>2, QuietOK DEF ScanEnds, TypeOK
  <2>3. CASE LoopStops
    BY <2>1, <2>3, QuietOK DEF LoopStops, TypeOK
  <2>4. CASE Start
    BY <2>1, <2>4, QuietOK DEF Start, TypeOK
  <2>5. CASE Shutdown
    BY <2>1, <2>5, QuietOK DEF Shutdown, TypeOK
  <2>6. CASE Drained
    BY <2>1, <2>6, QuietOK DEF Drained, TypeOK
  <2> QED
    BY <1>3, <2>2, <2>3, <2>4, <2>5, <2>6, ScanOK, ExitOK DEF ServerStep
<1>4. CASE UNCHANGED vars
  <2>1. TypeOK
    BY Unfolded
  <2> QED BY <1>4, <2>1, QuietOK DEF vars, TypeOK
<1> QED BY <1>1, <1>2, <1>3, <1>4 DEF Next

\* The inductive invariant holds throughout, across crashes, shutdowns and
\* rounds of recovery.
THEOREM Inductive ==
  ASSUME StaleExceedsTimeout
  PROVE  Spec => []IInv
<1>1. Init => IInv
  BY InitOK
<1>2. IInv /\ [Next]_vars => IInv'
  BY NextOK
<1> QED BY <1>1, <1>2, PTL DEF Spec

\* Rows, files, jobs and the server keep their types: no step, ready flag or
\* error the table does not know is ever written.
THEOREM TypesHold ==
  ASSUME StaleExceedsTimeout
  PROVE  Spec => []TypeOK
<1>1. IInv => TypeOK
  BY Unfolded
<1> QED BY <1>1, Inductive, PTL

\* However recovery, crashes and uploads interleave, two goroutines never
\* process one recording.
THEOREM NoDoubleProcessing ==
  ASSUME StaleExceedsTimeout
  PROVE  Spec => []OneJobPerRecording
<1>1. IInv => OneJobPerRecording
  BY Unfolded
<1> QED BY <1>1, Inductive, PTL

\* A ready column only ever offers a complete file.
THEOREM ReadyFilesAreWhole ==
  ASSUME StaleExceedsTimeout
  PROVE  Spec => []ReadyMeansWhole
<1>1. IInv => ReadyMeansWhole
  BY DEF IInv
<1> QED BY <1>1, Inductive, PTL

\* The original is in place whenever the row names it or a job reads it.
THEOREM OriginalInPlace ==
  ASSUME StaleExceedsTimeout
  PROVE  Spec => []OriginalIsStored
<1>1. ASSUME IInv PROVE OriginalIsStored
  <2>1. ASSUME NEW r \in Recordings, row[r].path \/ Busy(r)
        PROVE  file[r]["original"] = "whole"
    <3>1. CASE row[r].path
      BY <1>1, <3>1, Unfolded DEF AllOK, RecordingOK
    <3>2. CASE Busy(r)
      <4>1. PICK j \in Jobs : job[j].rec = r
        BY <3>2 DEF Busy
      <4>2. ~AtJob(j, "free")
        BY <1>1, <4>1, Unfolded, ProcessingAssumption DEF JobOK
      <4> QED BY <1>1, <4>1, <4>2, BusyJob
    <3> QED BY <2>1, <3>1, <3>2
  <2> QED BY <2>1 DEF OriginalIsStored
<1>2. IInv => OriginalIsStored
  BY <1>1
<1> QED BY <1>2, Inductive, PTL

\* A recording that ends without playback or waveform has a processing error.
THEOREM FailuresAreReported ==
  ASSUME StaleExceedsTimeout
  PROVE  Spec => []FailureIsReported
<1>1. IInv => FailureIsReported
  BY DEF IInv
<1> QED BY <1>1, Inductive, PTL

----------------------------------------------------------------------------
(* What is complete stays as it is. *)

\* What CompleteIsFinal says of one recording.
Kept(r) ==
  /\ row'[r].step = row[r].step /\ row'[r].ready = row[r].ready
  /\ row'[r].error = row[r].error /\ file'[r] = file[r]

\* A step of a handler or of recovery keeps a complete recording.
LEMMA RecordingStepKeeps ==
  ASSUME IInv, NEW r \in Recordings, row[r].step = "complete",
         NEW q \in Recordings, RecordingStep(q)
  PROVE  Kept(r)
<1>0. /\ TypeOK /\ row[r] \in Row /\ row[q] \in Row
      /\ upload[r] = "none" /\ r \notin sweep
  BY Unfolded, RecordingTypes DEF AllOK, RecordingOK, Stages
<1>1. row \in [Recordings -> Row] /\ file \in [Recordings ->
        [Products \cup {"original"} -> {"none", "partial", "whole"}]]
  BY <1>0 DEF TypeOK
<1>2. CASE Create(q)
  BY <1>0, <1>1, <1>2 DEF Create, Exists, Kept
<1>3. CASE StoreOriginal(q) \/ StoreFails(q)
  BY <1>0, <1>1, <1>3 DEF StoreOriginal, StoreFails, Kept
<1>4. CASE FinishUpload(q)
  BY <1>0, <1>1, <1>4 DEF FinishUpload, Kept
<1>5. CASE Edit(q) \/ SoftDelete(q) \/ GoesStale(q)
  <2>1. file' = file
    BY <1>5 DEF Edit, SoftDelete, GoesStale
  <2>2. CASE q # r
    BY <1>1, <1>5, <2>1, <2>2 DEF Edit, SoftDelete, GoesStale, Kept
  <2>3. CASE q = r
    <3>1. row'[r] = [row[r] EXCEPT !.stale = FALSE]
            \/ row'[r] = [row[r] EXCEPT !.deleted = TRUE, !.stale = FALSE]
            \/ row'[r] = [row[r] EXCEPT !.stale = TRUE]
      BY <1>1, <1>5, <2>3 DEF Edit, SoftDelete, GoesStale
    <3> QED BY <1>0, <2>1, <3>1 DEF Row, Kept
  <2> QED BY <2>2, <2>3
<1>6. CASE Requeue(q) \/ RequeueFails(q)
  BY <1>0, <1>1, <1>6 DEF Requeue, RequeueFails, TryStep, WriteStep, Kept
<1> QED BY <1>2, <1>3, <1>4, <1>5, <1>6 DEF RecordingStep

\* A step of a job keeps it: the job is of another recording.
LEMMA JobStepKeeps ==
  ASSUME IInv, NEW r \in Recordings, row[r].step = "complete",
         NEW j \in Jobs, JobStep(j)
  PROVE  Kept(r)
<1>0. job[j].rec # r /\ TypeOK
  BY NotBusy, Unfolded
<1>1. row \in [Recordings -> Row] /\ file \in [Recordings ->
        [Products \cup {"original"} -> {"none", "partial", "whole"}]]
  BY <1>0 DEF TypeOK
<1>2. row'[r] = row[r]
  BY <1>0, <1>1 DEF JobStep, Acquire, ToolWrites, ToolSucceeds, ToolFails,
     Report, ReportFails, Proceed, TryStep, WriteStep
<1>3. file'[r] = file[r]
  BY <1>0, <1>1 DEF JobStep, Acquire, ToolWrites, ToolSucceeds, ToolFails,
     Report, ReportFails
<1> QED BY <1>2, <1>3 DEF Kept

\* So does every step.
LEMMA StepKeeps ==
  ASSUME IInv, [Next]_vars, NEW r \in Recordings, row[r].step = "complete"
  PROVE  Kept(r)
<1>1. CASE ServerStep
  BY <1>1 DEF ServerStep, Scan, ScanEnds, LoopStops, Start, Shutdown, Drained,
     Exit, Kept
<1>2. CASE UNCHANGED vars
  BY <1>2 DEF vars, Kept
<1> QED BY <1>1, <1>2, RecordingStepKeeps, JobStepKeeps DEF Next

\* No late job, no recovery round and no restart touches a complete recording.
THEOREM CompleteStays ==
  ASSUME StaleExceedsTimeout
  PROVE  Spec => CompleteIsFinal
<1>1. IInv /\ [Next]_vars =>
        [\A r \in Recordings :
           row[r].step = "complete" =>
             /\ row'[r].step = "complete"
             /\ row'[r].ready = row[r].ready
             /\ row'[r].error = row[r].error
             /\ file'[r] = file[r]]_vars
  BY StepKeeps DEF Kept
<1> QED BY <1>1, Inductive, PTL DEF Spec, CompleteIsFinal

----------------------------------------------------------------------------
(* Processing implements Publication. *)

\* The job holds a semaphore.
Works(j) == job[j].pc \notin {"free", "waiting"}

\* Who works stays the same while no job takes or leaves a semaphore.
LEMMA WorkingKept ==
  ASSUME \A j \in Jobs : /\ Works(j)' <=> Works(j)
                         /\ Works(j) => job'[j].rec = job[j].rec
  PROVE  Working' = Working
<1>1. Working = {job[j].rec : j \in {i \in Jobs : Works(i)}}
  BY DEF Working, Works
<1>2. Working' = {job'[j].rec : j \in {i \in Jobs : Works(i)'}}
  BY DEF Working, Works
<1> QED BY <1>1, <1>2

\* A job that is only enqueued does not work yet.
LEMMA EnqueuedWaits ==
  ASSUME TypeOK, NEW r \in Recordings, Enqueue(r)
  PROVE  Working' = Working
<1> DEFINE new == [FreeJob EXCEPT !.pc = "waiting", !.rec = r]
<1>1. PICK i \in Jobs : job[i].pc = "free" /\ job' = [job EXCEPT ![i] = new]
  BY DEF Enqueue
<1>2. new.pc = "waiting"
  BY DEF FreeJob
<1> HIDE DEF new
<1>3. \A j \in Jobs : job'[j] = IF j = i THEN new ELSE job[j]
  BY <1>1 DEF TypeOK
<1> QED BY <1>1, <1>2, <1>3, WorkingKept DEF Works

\* The media are the products that are whole.
LEMMA MediaKept ==
  ASSUME \A r \in Recordings, a \in Products : file'[r][a] = file[r][a]
  PROVE  MediaOf' = MediaOf
  BY DEF MediaOf

\* What is offered stays while no recording becomes complete.
LEMMA PublishedKept ==
  ASSUME IInv, [Next]_vars,
         \A r \in Recordings : row'[r].step = "complete" => row[r].step = "complete"
  PROVE  PublishedOf' = PublishedOf
<1>1. ASSUME NEW r \in Recordings
      PROVE  /\ row'[r].step = "complete" <=> row[r].step = "complete"
             /\ row[r].step = "complete" =>
                  row'[r].ready = row[r].ready /\ row'[r].error = row[r].error
  BY StepKeeps DEF Kept
<1> QED BY <1>1 DEF PublishedOf

\* Initially there is nothing of any recording.
LEMMA PublicationInit == Init => P!Init
<1> SUFFICES ASSUME Init PROVE P!Init
  OBVIOUS
<1>1. Working = {}
  BY DEF Init, Working, FreeJob
<1>2. MediaOf = [r \in Recordings |-> {}]
  BY DEF Init, MediaOf
<1>3. PublishedOf = [r \in Recordings |-> P!Unpublished]
  BY DEF Init, PublishedOf, NoRow, P!Unpublished
<1> QED BY <1>1, <1>2, <1>3 DEF P!Init

\* Handlers, the clock and recovery change nothing that Publication shows.
LEMMA RecordingStepHidden ==
  ASSUME IInv, NEW r \in Recordings, RecordingStep(r)
  PROVE  UNCHANGED P!vars
<1>0. TypeOK /\ row[r] \in Row
  BY Unfolded, RecordingTypes
<1>1. row \in [Recordings -> Row] /\ file \in [Recordings ->
        [Products \cup {"original"} -> {"none", "partial", "whole"}]]
  BY <1>0 DEF TypeOK
<1>2. [Next]_vars
  BY DEF Next
<1>3. Working' = Working
  <2>1. CASE job' = job
    BY <2>1, WorkingKept DEF Works
  <2>2. CASE Enqueue(r)
    BY <1>0, <2>2, EnqueuedWaits
  <2> QED
    BY <2>1, <2>2 DEF RecordingStep, Create, StoreOriginal, StoreFails, FinishUpload,
       Edit, SoftDelete, GoesStale, Requeue, RequeueFails
<1>4. MediaOf' = MediaOf
  <2>1. CASE file' = file
    BY <2>1, MediaKept
  <2>2. CASE StoreOriginal(r)
    <3>1. \A q \in Recordings, a \in Products : file'[q][a] = file[q][a]
      BY <1>1, <2>2 DEF StoreOriginal, Products
    <3> QED BY <3>1, MediaKept
  <2> QED
    BY <2>1, <2>2 DEF RecordingStep, Create, StoreFails, FinishUpload, Edit,
       SoftDelete, GoesStale, Requeue, RequeueFails
<1>5. \A q \in Recordings : row'[q].step \in {row[q].step, "queued"}
  <2>1. CASE row' = row
    BY <2>1
  <2>2. CASE Create(r)
    BY <1>1, <2>2 DEF Create, Row
  <2>3. CASE WriteStep(r, "queued")
    BY <1>1, <2>3 DEF WriteStep, Row
  <2>4. CASE row' = [row EXCEPT ![r].path = TRUE, ![r].stale = FALSE]
    BY <1>1, <2>4 DEF Row
  <2>5. CASE Edit(r) \/ SoftDelete(r) \/ GoesStale(r)
    BY <1>1, <2>5 DEF Edit, SoftDelete, GoesStale, Row
  <2> QED
    BY <2>1, <2>2, <2>3, <2>4, <2>5 DEF RecordingStep, StoreOriginal, StoreFails,
       FinishUpload, Requeue, RequeueFails, TryStep
<1>6. PublishedOf' = PublishedOf
  BY <1>2, <1>5, PublishedKept
<1> QED BY <1>3, <1>4, <1>6 DEF P!vars

\* A stage that ends, well or not, leaves its job at work and its row unfinished.
LEMMA ProceedHidden ==
  ASSUME IInv, NEW j \in Jobs, NEW s \in Stages \cup {"reporting"}, NEW ready, NEW err,
         job[j].pc \in Stages, Proceed(j, s, ready, err), JobStep(j)
  PROVE  Working' = Working /\ PublishedOf' = PublishedOf
<1>1. Works(j) /\ ~AtJob(j, "free")
  BY DEF Works, AtJob, Stages
<1>2. TypeOK /\ job[j] \in JobState /\ job[j].rec \in Recordings
  BY <1>1, BusyJob
<1> DEFINE new == [job[j] EXCEPT !.pc = s, !.ready = ready, !.err = err]
<1>3. job' = [job EXCEPT ![j] = new] /\ new.pc = s /\ new.rec = job[j].rec
  BY <1>2 DEF Proceed, TypeOK, JobState
<1> HIDE DEF new
<1>4. \A i \in Jobs : job'[i] = IF i = j THEN new ELSE job[i]
  BY <1>2, <1>3 DEF TypeOK
<1>5. Working' = Working
  BY <1>1, <1>3, <1>4, WorkingKept DEF Works, Stages
<1>6. \A r \in Recordings : row'[r].step = row[r].step \/ row'[r].step \in Stages
  <2>1. CASE s = "reporting"
    BY <2>1 DEF Proceed
  <2>2. CASE s # "reporting"
    <3>1. s \in Stages /\ s \in Steps
      BY <2>2 DEF Steps
    <3>2. TryStep(job[j].rec, s)
      BY <2>2 DEF Proceed
    <3> QED BY <1>2, <3>1, <3>2, TryStepOK
  <2> QED BY <2>1, <2>2
<1>7. [Next]_vars
  BY DEF Next
<1>8. "complete" \notin Stages
  BY DEF Stages
<1> QED BY <1>5, <1>6, <1>7, <1>8, PublishedKept

\* A step of a job begins, changes, publishes or abandons its recording.
LEMMA JobStepPublishes ==
  ASSUME IInv, NEW j \in Jobs, JobStep(j)
  PROVE  [P!Next]_(P!vars)
<1>0. ~AtJob(j, "free")
  BY DEF JobStep, Acquire, ToolWrites, ToolSucceeds, ToolFails, Report, ReportFails,
     AtJob, Stages
<1>1. PICK r \in Recordings : r = job[j].rec
  BY <1>0, BusyJob
<1>2. /\ TypeOK /\ job[j] \in JobState /\ OneJobPerRecording
      /\ row[r].step \in Stages \cup {"queued"}
      /\ \A a \in job[j].ready : file[r][a] = "whole"
      /\ AtJob(j, "reporting") /\ job[j].err = "none" =>
           {"playback", "waveform"} \subseteq job[j].ready
  BY <1>0, <1>1, BusyJob, Unfolded
<1>3. /\ row \in [Recordings -> Row]
      /\ job \in [Jobs -> JobState]
      /\ file \in [Recordings -> [Products \cup {"original"} -> {"none", "partial", "whole"}]]
  BY <1>2 DEF TypeOK
<1>4. \A i \in Jobs \ {j} : job[i].rec # r
  BY <1>0, <1>1, <1>2 DEF OneJobPerRecording
<1>5. [Next]_vars
  BY DEF Next
<1>6. ASSUME Works(j), job' = [job EXCEPT ![j] = FreeJob]
      PROVE  r \in Working /\ Working' = Working \ {r}
  <2>1. \A i \in Jobs : job'[i] = IF i = j THEN FreeJob ELSE job[i]
    BY <1>3, <1>6
  <2>2. ~Works(j)'
    BY <2>1 DEF Works, FreeJob
  <2>3. \A i \in Jobs \ {j} : (Works(i)' <=> Works(i)) /\ job'[i].rec = job[i].rec
    BY <2>1 DEF Works
  <2>4. Working = {job[i].rec : i \in {k \in Jobs : Works(k)}}
    BY DEF Working, Works
  <2>5. Working' = {job'[i].rec : i \in {k \in Jobs : Works(k)'}}
    BY DEF Working, Works
  <2> QED BY <1>1, <1>4, <1>6, <2>2, <2>3, <2>4, <2>5
<1>7. CASE Acquire(j)
  <2>1. AtJob(j, "waiting") /\ ~Works(j) /\ TryStep(r, "analyzing")
    BY <1>1, <1>7 DEF Acquire, AtJob, Works
  <2>2. \A i \in Jobs : job'[i] = IF i = j THEN [job[j] EXCEPT !.pc = "analyzing"] ELSE job[i]
    BY <1>3, <1>7 DEF Acquire
  <2>3. job'[j].pc = "analyzing" /\ job'[j].rec = r
    BY <1>1, <1>2, <2>2 DEF JobState
  <2>4. Works(j)' /\ \A i \in Jobs \ {j} : (Works(i)' <=> Works(i)) /\ job'[i].rec = job[i].rec
    BY <2>2, <2>3 DEF Works
  <2>5. Working = {job[i].rec : i \in {k \in Jobs : Works(k)}}
    BY DEF Working, Works
  <2>6. Working' = {job'[i].rec : i \in {k \in Jobs : Works(k)'}}
    BY DEF Working, Works
  <2>7. r \notin Working /\ Working' = Working \cup {r}
    BY <1>4, <2>1, <2>3, <2>4, <2>5, <2>6
  <2>8. PublishedOf[r] = P!Unpublished
    BY <1>2 DEF PublishedOf, P!Unpublished, Stages
  <2>9. MediaOf' = MediaOf
    BY <1>7, MediaKept DEF Acquire
  <2>10. \A q \in Recordings : row'[q].step = "complete" => row[q].step = "complete"
    BY <1>2, <2>1, TryStepOK DEF Steps, Stages
  <2>11. PublishedOf' = PublishedOf
    BY <1>5, <2>10, PublishedKept
  <2>12. P!Begin(r)
    BY <2>7, <2>8, <2>9, <2>11 DEF P!Begin
  <2> QED BY <2>12 DEF P!Next
<1>8. CASE ToolWrites(j)
  <2>1. PICK a \in ProductsOf(job[j].pc) : file' = [file EXCEPT ![r][a] = "partial"]
    BY <1>1, <1>8 DEF ToolWrites
  <2>2. a \in Products /\ Works(j)
    BY <1>8, AfterFacts DEF ToolWrites, Works, Stages
  <2>3. r \in Working /\ Working' = Working
    <3>1. r \in Working
      BY <1>1, <2>2 DEF Working, Works
    <3> QED BY <1>8, <3>1, WorkingKept DEF ToolWrites, Works
  <2>4. /\ \A q \in Recordings \ {r} : file'[q] = file[q]
        /\ \A b \in Products \ {a} : file'[r][b] = file[r][b]
        /\ file'[r][a] = "partial"
    BY <1>3, <2>1, <2>2
  <2>5. MediaOf' = [MediaOf EXCEPT ![r] = @ \ {a}]
    BY <2>4 DEF MediaOf
  <2>6. PublishedOf' = PublishedOf
    BY <1>5, <1>8, PublishedKept DEF ToolWrites
  <2>7. P!Change(r)
    BY <2>2, <2>3, <2>5, <2>6 DEF P!Change
  <2> QED BY <2>7 DEF P!Next
<1>9. CASE ToolSucceeds(j)
  <2> DEFINE s == job[j].pc
  <2>1. /\ s \in Stages
        /\ \A q \in Recordings \ {r} : file'[q] = file[q]
        /\ \A b \in Products : file'[r][b] = IF b \in ProductsOf(s) THEN "whole" ELSE file[r][b]
        /\ Proceed(j, After(s, r), job[j].ready \cup ProductsOf(s), "none")
    BY <1>1, <1>3, <1>9 DEF ToolSucceeds
  <2>2. Working' = Working /\ PublishedOf' = PublishedOf
    BY <2>1, AfterFacts, ProceedHidden
  <2>3. r \in Working
    BY <1>1, <2>1 DEF Working, Stages
  <2>4. ProductsOf(s) = {} \/ \E a \in Products : ProductsOf(s) = {a}
    BY <2>1 DEF ProductsOf, Stages, Products
  <2> HIDE DEF s
  <2>5. CASE ProductsOf(s) = {}
    BY <2>1, <2>2, <2>5, MediaKept DEF P!vars
  <2>6. ASSUME NEW a \in Products, ProductsOf(s) = {a}
        PROVE  P!Next
    <3>1. MediaOf' = [MediaOf EXCEPT ![r] = @ \cup {a}]
      <4>1. \A q \in Recordings \ {r} : MediaOf'[q] = MediaOf[q]
        BY <2>1 DEF MediaOf
      <4>2. \A b : b \in MediaOf'[r] <=> b \in Products /\ file'[r][b] = "whole"
        BY DEF MediaOf
      <4>3. \A b : b \in MediaOf[r] <=> b \in Products /\ file[r][b] = "whole"
        BY DEF MediaOf
      <4>4. MediaOf'[r] = MediaOf[r] \cup {a}
        BY <2>1, <2>6, <4>2, <4>3
      <4> QED BY <4>1, <4>4 DEF MediaOf
    <3>2. P!Change(r)
      BY <2>2, <2>3, <3>1 DEF P!Change
    <3> QED BY <3>2 DEF P!Next
  <2> QED BY <2>4, <2>5, <2>6
<1>10. CASE ToolFails(j)
  <2> DEFINE s == job[j].pc
             t == IF Fatal(s) THEN "reporting" ELSE After(s, r)
  <2>1. s \in Stages /\ Proceed(j, t, job[j].ready, s) /\ file' = file
    BY <1>1, <1>10 DEF ToolFails
  <2>2. t \in Stages \cup {"reporting"}
    BY <2>1, AfterFacts
  <2> HIDE DEF t
  <2>3. Working' = Working /\ PublishedOf' = PublishedOf
    BY <2>1, <2>2, ProceedHidden
  <2> QED BY <2>1, <2>3, MediaKept DEF P!vars
<1>11. CASE Report(j)
  <2> DEFINE explained == job[j].err # "none"
             new == [row[r] EXCEPT !.step = "complete", !.ready = job[j].ready,
                                   !.error = job[j].err, !.stale = FALSE]
  <2>1. /\ AtJob(j, "reporting") /\ Works(j)
        /\ job' = [job EXCEPT ![j] = FreeJob] /\ file' = file
    BY <1>11 DEF Report, AtJob, Works
  <2>2. r \in Working /\ Working' = Working \ {r}
    BY <1>6, <2>1
  <2>3. row' = [row EXCEPT ![r] = new]
    BY <1>1, <1>3, <1>11 DEF Report
  <2>4. new.step = "complete" /\ new.ready = job[j].ready /\ new.error = job[j].err
    BY <1>3 DEF Row
  <2> HIDE DEF new
  <2>5. \A q \in Recordings : row'[q] = IF q = r THEN new ELSE row[q]
    BY <1>3, <2>3
  <2>6. explained \in BOOLEAN
    OBVIOUS
  <2>7. PublishedOf' = [PublishedOf EXCEPT ![r] =
                          [offered |-> job[j].ready, explained |-> explained]]
    BY <2>4, <2>5 DEF PublishedOf
  <2>8. {"playback", "waveform"} \subseteq job[j].ready \/ explained
    BY <1>2, <2>1
  <2>9. job[j].ready \in SUBSET MediaOf[r]
    BY <1>2 DEF MediaOf, JobState
  <2> HIDE DEF explained
  <2>10. MediaOf' = MediaOf
    BY <2>1, MediaKept
  <2>11. P!Publish(r)
    BY <2>2, <2>6, <2>7, <2>8, <2>9, <2>10 DEF P!Publish
  <2> QED BY <2>11 DEF P!Next
<1>12. CASE ReportFails(j)
  <2>1. Works(j) /\ job' = [job EXCEPT ![j] = FreeJob] /\ file' = file /\ row' = row
    BY <1>12 DEF ReportFails, AtJob, Works
  <2>2. r \in Working /\ Working' = Working \ {r}
    BY <1>6, <2>1
  <2>3. MediaOf' = MediaOf /\ PublishedOf' = PublishedOf
    BY <1>5, <2>1, MediaKept, PublishedKept
  <2>4. {r} \in SUBSET Working
    BY <2>2
  <2>5. P!Abandon
    BY <2>2, <2>3, <2>4 DEF P!Abandon
  <2> QED BY <2>5 DEF P!Next
<1> QED BY <1>7, <1>8, <1>9, <1>10, <1>11, <1>12 DEF JobStep

\* So does the end of the process, of all recordings; the loop's steps show nothing.
LEMMA ServerStepAbandons ==
  ASSUME IInv, ServerStep \/ UNCHANGED vars
  PROVE  [P!Next]_(P!vars)
<1>1. row' = row /\ file' = file
  BY DEF ServerStep, Scan, ScanEnds, LoopStops, Start, Shutdown, Drained, Exit, vars
<1>2. [Next]_vars
  BY DEF Next
<1>3. MediaOf' = MediaOf /\ PublishedOf' = PublishedOf
  BY <1>1, <1>2, MediaKept, PublishedKept
<1>4. CASE job' = job
  <2>1. Working' = Working
    BY <1>4, WorkingKept DEF Works
  <2> QED BY <1>3, <2>1 DEF P!vars
<1>5. CASE Exit
  <2>1. Working' = {}
    BY <1>5 DEF Exit, Working, FreeJob
  <2>2. Working' = Working \ Working /\ Working \in SUBSET Working
    BY <2>1
  <2>3. P!Abandon
    BY <1>3, <2>2 DEF P!Abandon
  <2> QED BY <2>3 DEF P!Next
<1> QED
  BY <1>4, <1>5 DEF ServerStep, Scan, ScanEnds, LoopStops, Start, Shutdown, Drained, vars

\* Every behaviour of uploads, workers, recovery and restarts is one of Publication:
\* one worker at a time, media nobody else touches, and one final result that is there.
THEOREM Refinement ==
  ASSUME StaleExceedsTimeout
  PROVE  Spec => ImplementsPublication
<1>1. IInv /\ [Next]_vars => [P!Next]_(P!vars)
  BY RecordingStepHidden, JobStepPublishes, ServerStepAbandons DEF Next
<1> QED BY <1>1, PublicationInit, Inductive, PTL DEF Spec, ImplementsPublication, P!Spec

=============================================================================
