----------------------------- MODULE UploadForm -----------------------------
(***************************************************************************)
(* The upload form, frontend/src/components/recordings/UploadForm.tsx:     *)
(* files are chosen, analysed in the background, edited, sent by Uppy and  *)
(* watched until the server has processed them.  An action is an event     *)
(* handler or the completion of a promise, followed by the effects of the  *)
(* render it causes.  Uppy and the server are external.                    *)
(***************************************************************************)
EXTENDS Integers, FiniteSets

CONSTANTS
  Files,         \* files on the user's disk; Uppy derives one id from each
  Supported,     \* the ones isSupportedFile and Uppy's restrictions accept
  Name,          \* their names' places in locale order
  Tags,          \* the tags music-metadata reads from them
  Titles,        \* titles the user may type
  Days,          \* calendar days
  DateInputs,    \* what the user may enter as a date
  Folders,       \* what the user may drop: sets of files
  Today,
  NoTag,         \* a tag or a time stamp that is not there
  NoTitle,       \* no custom title
  NoDay,         \* no entry in fileDates
  Blank,         \* a date input that was cleared
  NotSent, Waiting, Failed,  \* a file's answer, when it is not an id
  NoResults,     \* the form is shown, not the results
  MaxBatches,    \* analyses in flight at once
  MaxPolls,      \* overlapping polls
  MaxRecordings  \* uploads that reach the server

Tag == [creation : Nat \cup {NoTag}, common : Nat \cup {NoTag},
        year : Days \cup {NoTag}]

ASSUME UploadAssumption ==
  /\ IsFiniteSet(Files)
  /\ Supported \subseteq Files
  /\ Name \in [Files -> Nat]
  /\ Days \subseteq Nat /\ \E last \in Days : \A d \in Days : d <= last
  /\ Today \in Days
  /\ Tags \in [Files -> Tag]
  /\ NoTag \notin Nat
  /\ NoTitle \notin Titles
  /\ NoDay \notin Nat \cup {NoTag}
  /\ Blank \notin Nat \cup {NoDay}
  /\ DateInputs \subseteq Days \cup {Blank}
  /\ Folders \subseteq SUBSET Files
  /\ {NotSent, Waiting, Failed} \cap Nat = {}
  /\ NotSent # Waiting /\ NotSent # Failed /\ Waiting # Failed
  /\ MaxBatches \in Nat /\ MaxPolls \in Nat /\ MaxRecordings \in Nat

Batches == 1..MaxBatches
Polls == 1..MaxPolls
Ids == 1..MaxRecordings

VARIABLES
  place,      \* Uppy's files: place in its list, 0 if not in it
  meta,       \* their Uppy metadata
  titles,     \* customTitles
  dates,      \* fileDates
  stamps,     \* fileTimestamps; NoDay when there is no entry
  analyzing,  \* analyzingFiles
  analyzed,   \* analyzedFilesRef
  batches,    \* the files of each analysis in flight
  walk,       \* the files of a drop whose folders are still being read
  sent,       \* the upload in progress: what it sends for each file
  answer,     \* its answers: a recording's id, or what there is instead
  results,    \* uploadResults, by file
  server,     \* processing step of each recording
  polled,     \* polledRecordings
  polls,      \* polls in flight
  typed       \* history: the date the user last typed since choosing the file

formVars == <<titles, dates, stamps, analyzing, analyzed, batches, typed>>
sendVars == <<sent, answer>>
pollVars == <<server, polled, polls>>
vars == <<place, meta, titles, dates, stamps, analyzing, analyzed, batches,
          walk, sent, answer, results, server, polled, polls, typed>>

Meta == [title : Titles \cup {NoTitle}, day : Days \cup {NoDay}]
NoMeta == [title |-> NoTitle, day |-> NoDay]

\* "failed" is a recording whose step is complete too, with an error.
Steps == {"absent", "queued", "failed", "complete"}
Done == {"failed", "complete"}
Answers == Ids \cup {NotSent, Waiting, Failed}

\* A poll asks for the recordings of todo one after the other; seen is the
\* answer on its way; live until the effect that started it is cleaned up.
Poll == [todo : SUBSET Ids, seen : Steps, live : BOOLEAN]
NoPoll == [todo |-> {}, seen |-> "absent", live |-> FALSE]

TypeOK ==
  /\ place \in [Files -> 0..Cardinality(Files)]
  /\ meta \in [Files -> Meta]
  /\ titles \in [Files -> Titles \cup {NoTitle}]
  /\ dates \in [Files -> Days \cup {NoDay, Blank}]
  /\ stamps \in [Files -> Nat \cup {NoTag, NoDay}]
  /\ analyzing \subseteq Files
  /\ analyzed \subseteq Files
  /\ batches \in [Batches -> SUBSET Files]
  /\ walk \subseteq Files
  /\ sent \in [Files -> Meta]
  /\ answer \in [Files -> Answers]
  /\ results \in [Files -> Answers] \cup {NoResults}
  /\ server \in [Ids -> Steps]
  /\ polled \in [Ids -> Steps]
  /\ polls \in [Polls -> Poll]
  /\ typed \in [Files -> Days \cup {NoDay, Blank}]

Init ==
  /\ place = [f \in Files |-> 0]
  /\ meta = [f \in Files |-> NoMeta]
  /\ titles = [f \in Files |-> NoTitle]
  /\ dates = [f \in Files |-> NoDay]
  /\ stamps = [f \in Files |-> NoDay]
  /\ analyzing = {}
  /\ analyzed = {}
  /\ batches = [b \in Batches |-> {}]
  /\ walk = {}
  /\ sent = [f \in Files |-> NoMeta]
  /\ answer = [f \in Files |-> NotSent]
  /\ results = NoResults
  /\ server = [i \in Ids |-> "absent"]
  /\ polled = [i \in Ids |-> "absent"]
  /\ polls = [p \in Polls |-> NoPoll]
  /\ typed = [f \in Files |-> NoDay]

----------------------------------------------------------------------------
\* What the form shows.

Chosen == {f \in Files : place[f] > 0}
Sending == {f \in Files : answer[f] # NotSent}
isUploading == Sending # {}
FormShown == results = NoResults

\* FileRow replaces the inputs of a file that is analysed or uploaded.
InputsShown(f) ==
  FormShown /\ f \in Chosen /\ ~isUploading /\ f \notin analyzing

\* groupFilesByDate: the day a file is listed under; "unknown" comes first.
Unknown == 1 + CHOOSE d \in Days : \A e \in Days : e <= d
DayKey(f) == IF dates[f] \in Days THEN dates[f] ELSE Unknown

HasStamp(f) == stamps[f] \in Nat

\* The comparison of GroupedFileList; the sort is stable, so that equals keep
\* Uppy's order.
SameDayBefore(f, g) ==
  \/ HasStamp(f) /\ ~HasStamp(g)
  \/ /\ HasStamp(f) /\ HasStamp(g)
     /\ \/ stamps[f] < stamps[g]
        \/ stamps[f] = stamps[g] /\ place[f] < place[g]
  \/ /\ ~HasStamp(f) /\ ~HasStamp(g)
     /\ \/ Name[f] < Name[g]
        \/ Name[f] = Name[g] /\ place[f] < place[g]

SortedBefore(f, g) ==
  \/ DayKey(f) > DayKey(g)
  \/ DayKey(f) = DayKey(g) /\ SameDayBefore(f, g)

\* Bug form: the button's sort knows no times.
QueuedByName(f, g) ==
  \/ DayKey(f) > DayKey(g)
  \/ DayKey(f) = DayKey(g) /\ Name[f] < Name[g]
  \/ DayKey(f) = DayKey(g) /\ Name[f] = Name[g] /\ place[f] < place[g]

\* The order of getSortedFileIds: the same grouping, and a comparison of its
\* own.
QueuedBefore(f, g) ==
  \/ DayKey(f) > DayKey(g)
  \/ /\ DayKey(f) = DayKey(g)
     /\ \/ HasStamp(f) /\ ~HasStamp(g)
        \/ HasStamp(f) /\ HasStamp(g) /\ stamps[f] < stamps[g]
        \/ ~HasStamp(f) /\ ~HasStamp(g) /\ Name[f] < Name[g]
        \/ /\ IF HasStamp(f) THEN HasStamp(g) /\ stamps[f] = stamps[g]
                             ELSE ~HasStamp(g) /\ Name[f] = Name[g]
           /\ place[f] < place[g]

\* GroupedFileList: Uppy's order until there is a date to sort by.
Unsorted == Chosen \subseteq analyzing \/ \A f \in Files : dates[f] = NoDay
ShownBefore(f, g) ==
  IF Unsorted THEN place[f] < place[g] ELSE SortedBefore(f, g)

----------------------------------------------------------------------------
\* Choosing files and analysing them.

\* extractRecordingDateInfo: the container's creation time, else the date tag,
\* else the first of January of the year tag (a year tag names that day).
\* Ten ticks of a time stamp are a day.
DayOf(stamp) == stamp \div 10
Stamp(f) == IF Tags[f].creation # NoTag THEN Tags[f].creation ELSE Tags[f].common
ExtractedDay(f) ==
  IF Stamp(f) # NoTag THEN DayOf(Stamp(f))
  ELSE IF Tags[f].year # NoTag THEN Tags[f].year ELSE Today

\* Bound: the tags name days of Days.
ASSUME TagsAssumption == \A f \in Files : ExtractedDay(f) \in Days

\* Bug form: metadata that is there is not written again.
SyncedOnce(m, p, t, d) ==
  [f \in Files |->
    IF p[f] = 0 THEN NoMeta
    ELSE [title |-> IF m[f].title = NoTitle THEN t[f] ELSE m[f].title,
          day |-> IF m[f].day = NoDay /\ d[f] \in Days THEN d[f] ELSE m[f].day]]

\* The effect on [files, customTitles, fileDates]: what is not blank is
\* written to Uppy's metadata, what is blank is left as it was.
Synced(m, p, t, d) ==
  [f \in Files |->
    IF p[f] = 0 THEN NoMeta
    ELSE [title |-> IF t[f] # NoTitle THEN t[f] ELSE m[f].title,
          day |-> IF d[f] \in Days THEN d[f] ELSE m[f].day]]

\* The effect on [files]: files that were not analysed yet, as one batch.
StartAnalysis(new) ==
  IF new = {} THEN UNCHANGED <<analyzing, analyzed, batches>>
  ELSE /\ \E b \in Batches :
            /\ batches[b] = {}
            /\ \A a \in Batches : a < b => batches[a] # {}
            /\ batches' = [batches EXCEPT ![b] = new]
       /\ analyzing' = analyzing \cup new
       /\ analyzed' = analyzed \cup new

\* addFiles: Uppy refuses types it does not accept and files it has.
AddFiles(S) ==
  LET new == (S \cap Supported) \ Chosen
      n == Cardinality(Chosen) IN
  /\ \E p \in [Files -> 0..Cardinality(Files)] :
       /\ \A f \in Files \ new : p[f] = place[f]
       /\ {p[f] : f \in new} = (n + 1)..(n + Cardinality(new))
       /\ place' = p
       /\ meta' = Synced(meta, p, titles, dates)
  /\ StartAnalysis(new \ analyzed)
  /\ UNCHANGED <<titles, dates, stamps, typed>>

\* The buttons and their hidden inputs.
SelectFiles(S) ==
  /\ FormShown /\ ~isUploading
  /\ AddFiles(S)
  /\ UNCHANGED <<walk, sendVars, results, pollVars>>

\* handleDrop reads the dropped folders before it adds what they hold; the
\* drop zone takes no events while an upload is in progress.
Drop(S) ==
  /\ FormShown /\ ~isUploading
  /\ walk = {}
  /\ S \cap Supported # {}
  /\ walk' = S \cap Supported
  /\ UNCHANGED <<place, meta, formVars, sendVars, results, pollVars>>

\* Whatever the form shows by now.
DropCollected ==
  /\ walk # {}
  /\ AddFiles(walk)
  /\ walk' = {}
  /\ UNCHANGED <<sendVars, results, pollVars>>

\* A folder cannot be read.
DropFails ==
  /\ walk # {}
  /\ walk' = {}
  /\ UNCHANGED <<place, meta, formVars, sendVars, results, pollVars>>

\* Bug form: the extracted date replaces what is there.
FinishOverwriting(b) ==
  LET S == batches[b] IN
  /\ S # {}
  /\ dates' = [f \in Files |-> IF f \in S THEN ExtractedDay(f) ELSE dates[f]]
  /\ stamps' = [f \in Files |->
       IF f \in S /\ stamps[f] = NoDay THEN Stamp(f) ELSE stamps[f]]
  /\ analyzing' = analyzing \ S
  /\ batches' = [batches EXCEPT ![b] = {}]
  /\ meta' = Synced(meta, place, titles, dates')
  /\ UNCHANGED <<place, titles, analyzed, typed, walk, sendVars, results, pollVars>>

\* All files of a batch are read: an entry that is there is kept.
FinishAnalysis(b) ==
  LET S == batches[b] IN
  /\ S # {}
  /\ dates' = [f \in Files |->
       IF f \in S /\ dates[f] = NoDay THEN ExtractedDay(f) ELSE dates[f]]
  /\ stamps' = [f \in Files |->
       IF f \in S /\ stamps[f] = NoDay THEN Stamp(f) ELSE stamps[f]]
  /\ analyzing' = analyzing \ S
  /\ batches' = [batches EXCEPT ![b] = {}]
  /\ meta' = Synced(meta, place, titles, dates')
  /\ UNCHANGED <<place, titles, analyzed, typed, walk, sendVars, results, pollVars>>

----------------------------------------------------------------------------
\* Editing.

\* onTitleChange; a blank title deletes the entry.
TypeTitle(f, t) ==
  /\ InputsShown(f)
  /\ titles' = [titles EXCEPT ![f] = t]
  /\ meta' = Synced(meta, place, titles', dates)
  /\ UNCHANGED <<place, dates, stamps, analyzing, analyzed, batches, typed,
                 walk, sendVars, results, pollVars>>

TypeDate(f, d) ==
  /\ InputsShown(f)
  /\ dates' = [dates EXCEPT ![f] = d]
  /\ typed' = [typed EXCEPT ![f] = d]
  /\ meta' = Synced(meta, place, titles, dates')
  /\ UNCHANGED <<place, titles, stamps, analyzing, analyzed, batches,
                 walk, sendVars, results, pollVars>>

Without(f) ==
  [g \in Files |-> IF g = f THEN 0
                   ELSE IF place[g] > place[f] THEN place[g] - 1 ELSE place[g]]

\* Bug form: analyzedFilesRef keeps the file.
RemoveFileAnalyzed(f) ==
  /\ FormShown /\ f \in Chosen /\ ~isUploading
  /\ place' = Without(f)
  /\ titles' = [titles EXCEPT ![f] = NoTitle]
  /\ dates' = [dates EXCEPT ![f] = NoDay]
  /\ stamps' = [stamps EXCEPT ![f] = NoDay]
  /\ typed' = [typed EXCEPT ![f] = NoDay]
  /\ meta' = Synced(meta, place', titles', dates')
  /\ UNCHANGED <<analyzing, analyzed, batches, walk, sendVars, results, pollVars>>

\* onRemoveFile; an analysis in flight goes on, and analyzingFiles keeps the
\* file until it ends.
RemoveFile(f) ==
  /\ FormShown /\ f \in Chosen /\ ~isUploading
  /\ place' = Without(f)
  /\ titles' = [titles EXCEPT ![f] = NoTitle]
  /\ dates' = [dates EXCEPT ![f] = NoDay]
  /\ stamps' = [stamps EXCEPT ![f] = NoDay]
  /\ typed' = [typed EXCEPT ![f] = NoDay]
  /\ analyzed' = analyzed \ {f}
  /\ meta' = Synced(meta, place', titles', dates')
  /\ UNCHANGED <<analyzing, batches, walk, sendVars, results, pollVars>>

\* The analyses in flight go on and will still write their dates.
Forget ==
  /\ place' = [f \in Files |-> 0]
  /\ meta' = [f \in Files |-> NoMeta]
  /\ titles' = [f \in Files |-> NoTitle]
  /\ dates' = [f \in Files |-> NoDay]
  /\ stamps' = [f \in Files |-> NoDay]
  /\ typed' = [f \in Files |-> NoDay]
  /\ analyzing' = {}
  /\ analyzed' = {}
  /\ UNCHANGED <<batches, walk>>

ClearAll ==
  /\ FormShown /\ Chosen # {} /\ ~isUploading
  /\ Forget
  /\ UNCHANGED <<sendVars, results, pollVars>>

----------------------------------------------------------------------------
\* Uploading.

UploadOffered == FormShown /\ Chosen # {} /\ ~isUploading /\ analyzing = {}

SortedPlace ==
  [f \in Files |->
    IF f \in Chosen THEN 1 + Cardinality({g \in Chosen : QueuedBefore(g, f)})
    ELSE 0]

StartRequests ==
  /\ sent' = meta
  /\ answer' = [f \in Files |-> IF f \in Chosen THEN Waiting ELSE NotSent]

\* The button: Uppy's list is rebuilt in sorted order with the files' metadata
\* and sent.
ClickUpload ==
  /\ UploadOffered
  /\ place' = SortedPlace
  /\ StartRequests
  /\ UNCHANGED <<meta, formVars, walk, results, pollVars>>

\* The server stores the file and answers; up to five requests run at once,
\* so that any of them may be first.
Stored(f) ==
  /\ answer[f] = Waiting
  /\ \E i \in Ids :
       /\ server[i] = "absent"
       /\ \A j \in Ids : j < i => server[j] # "absent"
       /\ server' = [server EXCEPT ![i] = "queued"]
       /\ answer' = [answer EXCEPT ![f] = i]
  /\ UNCHANGED <<place, meta, formVars, walk, sent, results, polled, polls>>

UploadFails(f) ==
  /\ answer[f] = Waiting
  /\ answer' = [answer EXCEPT ![f] = Failed]
  /\ UNCHANGED <<place, meta, formVars, walk, sent, results, pollVars>>

\* handleComplete.
UploadComplete ==
  /\ isUploading
  /\ \A f \in Files : answer[f] # Waiting
  /\ results' = answer
  /\ answer' = [f \in Files |-> NotSent]
  /\ sent' = [f \in Files |-> NoMeta]
  /\ UNCHANGED <<place, meta, formVars, walk, pollVars>>

----------------------------------------------------------------------------
\* The results and the polls behind them.

\* The server processes a recording, or fails to.
Process(i, step) ==
  /\ server[i] = "queued"
  /\ server' = [server EXCEPT ![i] = step]
  /\ UNCHANGED <<place, meta, formVars, walk, sendVars, results, polled, polls>>

SuccessfulIds ==
  IF results = NoResults THEN {} ELSE {results[f] : f \in Files} \cap Ids

\* The badge of a result.
Badge(i) ==
  IF polled[i] = "failed" THEN "Error"
  ELSE IF polled[i] = "complete" THEN "Ready" ELSE "Processing"

\* Bug form: a recording is asked for until there is an answer.
PendingUnseen == {i \in SuccessfulIds : polled[i] = "absent"}

Pending == {i \in SuccessfulIds : polled[i] \notin Done}

\* The interval, or the effect's first call.  Polls are not serialised.
PollTick ==
  /\ Pending # {}
  /\ \E p \in Polls :
       /\ polls[p] = NoPoll
       /\ \A q \in Polls : q < p => polls[q] # NoPoll
       /\ polls' = [polls EXCEPT ![p] =
                      [todo |-> Pending, seen |-> "absent", live |-> TRUE]]
  /\ UNCHANGED <<place, meta, formVars, walk, sendVars, results, server, polled>>

Asked(p) == CHOOSE i \in polls[p].todo : \A j \in polls[p].todo : i <= j

Advance(p) ==
  LET rest == polls[p].todo \ {Asked(p)} IN
  polls' = [polls EXCEPT ![p] =
    IF rest = {} \/ ~polls[p].live THEN NoPoll
    ELSE [todo |-> rest, seen |-> "absent", live |-> TRUE]]

\* The server answers with the step of that moment.
Read(p) ==
  /\ polls[p].todo # {}
  /\ polls[p].seen = "absent"
  /\ polls' = [polls EXCEPT ![p].seen = server[Asked(p)]]
  /\ UNCHANGED <<place, meta, formVars, walk, sendVars, results, server, polled>>

\* The answer arrives.
Deliver(p) ==
  /\ polls[p].todo # {}
  /\ polls[p].seen # "absent"
  /\ polled' = IF polls[p].live
               THEN [polled EXCEPT ![Asked(p)] = polls[p].seen] ELSE polled
  /\ Advance(p)
  /\ UNCHANGED <<place, meta, formVars, walk, sendVars, results, server>>

\* The request fails, on its way or on its way back: the next poll asks again.
LoseAnswer(p) ==
  /\ polls[p].todo # {}
  /\ polls[p].seen # "absent"
  /\ Advance(p)
  /\ UNCHANGED <<place, meta, formVars, walk, sendVars, results, server, polled>>

\* resetForm, "Upload more".
Reset ==
  /\ ~FormShown
  /\ Forget
  /\ results' = NoResults
  /\ polled' = [i \in Ids |-> "absent"]
  /\ polls' = [p \in Polls |->
       IF polls[p] = NoPoll THEN NoPoll ELSE [polls[p] EXCEPT !.live = FALSE]]
  /\ UNCHANGED <<sendVars, server>>

----------------------------------------------------------------------------

Next ==
  \/ \E S \in SUBSET Files : SelectFiles(S)
  \/ \E S \in Folders : Drop(S)
  \/ DropCollected \/ DropFails
  \/ \E b \in Batches : FinishAnalysis(b)
  \/ \E f \in Files :
       \/ \E t \in Titles \cup {NoTitle} : TypeTitle(f, t)
       \/ \E d \in DateInputs : TypeDate(f, d)
       \/ RemoveFile(f)
       \/ Stored(f)
       \/ UploadFails(f)
  \/ ClearAll \/ ClickUpload \/ UploadComplete
  \/ \E i \in Ids, step \in Done : Process(i, step)
  \/ PollTick
  \/ \E p \in Polls : Read(p) \/ Deliver(p) \/ LoseAnswer(p)
  \/ Reset

Spec == Init /\ [][Next]_vars

\* The interval fires, the server processes and answers, and of requests that
\* are repeated for ever some are not lost.
FairSpec ==
  /\ Spec
  /\ WF_vars(PollTick)
  /\ \A i \in Ids : WF_vars(\E step \in Done : Process(i, step))
  /\ \A p \in Polls : WF_vars(Read(p)) /\ SF_vars(Deliver(p))

----------------------------------------------------------------------------

\* The form's own maps follow Uppy's list: a file whose row can be edited and
\* uploaded has its date and its time entry, and a file that is not in the
\* list keeps no title and no date the user typed for it.  Removing, choosing
\* again and clearing while analyses of the same file are in flight leave no
\* file out of one map and in another (the effect on [files] and onRemoveFile,
\* UploadForm.tsx:157-217 and 547-565).
EntriesFollowFiles ==
  /\ \A f \in Chosen \ analyzing : dates[f] # NoDay /\ stamps[f] # NoDay
  /\ \A f \in Files \ Chosen : titles[f] = NoTitle /\ typed[f] = NoDay

\* A date the user has typed stays, whichever analyses of the file are still
\* in flight (the merge, UploadForm.tsx:189-197).
TypedDateStays ==
  \A f \in Files : typed[f] # NoDay => dates[f] = typed[f]

\* An upload sends for each file the title and the date its row shows, where
\* it shows one, also after Uppy's list was rebuilt (UploadForm.tsx:219-226 and
\* 571-595).  A title or a date that was typed and cleared again stays in
\* Uppy's copy and is sent: that is excepted.
SentAsShown ==
  \A f \in Sending :
    /\ titles[f] # NoTitle => sent[f].title = titles[f]
    /\ dates[f] \in Days => sent[f].day = dates[f]

\* Files are sent in the order of their rows: the sort of the list and the
\* sort of the button agree (UploadForm.tsx:627-650 and 701-715).
SentInShownOrder ==
  \A f, g \in Sending : ShownBefore(f, g) => place[f] < place[g]

\* A result is shown as Ready or as Error in the end, although polls overlap
\* and an old answer may arrive last (UploadForm.tsx:242-263).
ResultsSettle ==
  \A i \in Ids :
    i \in SuccessfulIds ~> (Badge(i) # "Processing" \/ i \notin SuccessfulIds)

=============================================================================
