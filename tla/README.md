# Shakedown in TLA+

Specifications of Shakedown, a self-hosted library for band rehearsal
recordings: a Go server with PostgreSQL, a storage volume, ffmpeg and
audiowaveform for processing, rclone for cloud sync, and a React frontend.
The modules here model the parts whose correctness depends on the order in
which processes, goroutines, statements, tools, requests and browser callbacks
take their steps. TLC checks them on small instances; TLAPS proves the central
invariants for every value of the constants.

Paths below are relative to the repository root; `*.tla` and `*.cfg` are beside
this file. `PROJECT.json` lists the same facts for tools: components, runs,
mutants (a plausible bug for each property, which TLC must find), the lines
each definition stands for, findings, hazards and theorems.

## 1. Inventory

The server:

| Component | State | Operations | What is hard |
|---|---|---|---|
| Sync state store, `internal/cloudsync/repository.go`, migration 004 | one row of `cloud_sync_state` per recording: status, path, lease, attempts, error | `ClaimNew`, `ClaimRetry`, `Heartbeat`, `MarkSynced`, `MarkError`, `RecoverExpiredLeases`, lists | claims race; a lease runs out under its holder; a reply is lost |
| Cloud sync service, `service.go` | semaphore, worker goroutines, `workerCtx` | scheduler, `processCandidate`, `ForceRetry`, `dispatchWorker`, recovery loop, `Shutdown` | a claim without a worker, a worker without a claim, late uploads, two processes on one table |
| Cloud sync admin API, `handler.go` | last reconcile time | status, Failed Syncs, retry, run, test | retry against the automatic attempts |
| rclone client, `client.go` | config file | `Copy`, `StatSize`, `WriteRemoteConfig` | an upload that outlives its caller; torn objects |
| Path template, `template.go` | none | `RenderPath`, `SuffixPath` | two recordings with one path |
| Upload handler, `internal/recordings/handler.go` | temporary file, new row | upload, edit, delete | several writes with a failure or a crash between two |
| Processing, `service.go`, `processing.go` | two semaphores, goroutines, files, `processing_step` and the ready columns | `Enqueue`, pipelines, recovery loop, `Shutdown` | jobs live in memory only; recovery knows them only by the age of a row |
| Recordings repository, `repository.go` | `recordings` | titles, steps, results, lists | automatic titles under concurrency |
| Shares, sessions, comments, songs, tags, rate limiter | their tables | row-wise | little; see section 7 |
| Configuration, database, static files, `main.go` | - | start, migrations, shutdown order | the order of shutdown |

The frontend, under `frontend/src`:

| Component | State | Operations | What is hard |
|---|---|---|---|
| Upload form, `components/recordings/UploadForm.tsx`, `lib/metadata.ts` | Uppy's list of files beside the form's own maps: titles, dates, times, what is analysed; results, polled steps | choose, drop a folder, analyse in batches, type, remove, clear, upload, poll, upload more | two accounts of each file kept in step by effects; batches that end late; polls that overlap |
| Players, `hooks/use*Player.ts`, `useMediaSession.ts`, `VideoPlayer`, `WaveformPlayer`, `PlayerControls` | React state beside a media element | play, pause, seek, marks, keys, media session, switch between video and audio | effects that need the step, the element and the peaks in any order; a handover between two players |
| Recording page, `RecordingDetail`, the forms, dialogs and lists in it, and their hooks in `api/` | query cache, forms, dialogs, requests in flight | comment, reply, edit, mark songs, share, rename, tag, delete, switch tabs | answers of forms that are gone; invalidations against fetches in flight |
| Cloud sync card, `components/admin/CloudSyncCard.tsx` | two polled queries, a section, one mutation per row, a form | expand, Retry, Sync Now, connect | the two queries are read at different moments and gate each other's display |
| Library page, `LibraryPage`, `RecordingList`, `TagFilter` | search box, timer, filter, pages of each filter, observer | type, pick, scroll, leave, return | only an observer's entry starts the next page |
| Share page | the players again | fetch, switch | - |
| Shell, login, users, dump, tag manager, `components/ui` | little | row-wise | little; see section 7 |

How they interact:

- `upload` inserts a row (`Create`), moves the file, writes `storage_path`,
  then hands the recording to cloud sync (`OnRecordingReady`) and to the
  processing pool (`Enqueue`). A crash may come between any two of these.
- Processing and recovery share only the row: `processing_step` and
  `updated_at`. Edits and deletions touch `updated_at` too.
- Cloud sync reads recordings, and owns `cloud_sync_state`, whose lease is the
  only thing processes and goroutines exclude each other by.
- `main` shuts down cloud sync, then processing, then the listener.
- The frontend knows the server by requests alone. TanStack Query keeps what
  was answered; mutations invalidate or write it; pages poll while a recording
  is processed or a sync runs.

What correctness means, per component: a *synced* row has its backup, for good;
no recording's backup overwrites another's and none is orphaned; attempts are
bounded; no row stays in progress. A recording is processed by one job at a
time; what a ready column offers is complete and final; nothing is processed
before it is stored; work is finished or reported. Concurrent uploads get
distinct, sequential titles and are answered. The upload form sends what its
rows show, in their order, and never loses what was typed. A player becomes
ready, shows what its element does and hands its place over. A page at rest
shows what the server stores; a link or a field belongs to the dialog it stands
in. A failed sync can be retried again; a list is loaded to its end.

## 2. Modules

| Module | Models | Notes |
|---|---|---|
| `SyncStore` | every statement on `cloud_sync_state` | one operator per statement; the lease clock is `leased`, the backoff clock `due` |
| `CloudSync` | service, retry endpoint and rclone as used, over `SyncStore` | calls and workers in slots |
| `Backup` | what cloud sync promises, without leases or processes | refined by `CloudSync` |
| `Processing` | upload handler, worker pool, pipelines, recovery loop, shutdown, crash | one server process |
| `Publication` | what processing promises, without pool, stages, time or recovery | refined by `Processing` |
| `Titles` | title choice of `Create` next to `Update` and `SoftDelete` | READ COMMITTED transactions |
| `UploadForm` | the upload form over Uppy and the server | files with tags, batches, polls |
| `Player` | both players on the recording's and the share's page | one media element |
| `RecordingPage` | forms, dialogs, lists and queries of a recording's page | one machine for every form |
| `AdminCard` | the cloud sync card over the server's rows | two queries, read apart |
| `Library` | search, filters, pages, observer | one infinite query per filter |
| `MC...` | instances for TLC | model values, symmetry, functions |
| `...Proofs` | theorems | section 5 |

Operators called *bug form* stand next to the definition they would replace;
they are the mutants, and no specification uses them.

### SyncStore and CloudSync

A row of `SyncStore` has the columns that statements test or set; time enters
as two Booleans: `leased` (the lease has not run out) and `due`
(`next_attempt_at` has passed), which external actions flip. `attempts` is a
natural number, as in the table.

In `CloudSync` a *call* is one execution of `processCandidate` or `ForceRetry`
(pc `get`, `stat`, `claim`, `suffix`, `mark`: one step per statement or file
system access), and a *worker* one goroutine of `dispatchWorker` (`queued` at
the semaphore, `copy`, `verify`, then the outcome it is about to write). A
process that exits loses its calls and workers, but an rclone that was copying
goes on as `stray`. Heartbeats renew, fail, or find the lease gone and set
`lost`. A claim may commit while its reply is lost. `Reconcile`'s page cursor
and its `reconciling` flag are abstracted: a call may begin at any time for any
published recording, which includes what the cursor does.

### Processing

`row` has the step, whether `storage_path` is set, the set of ready columns,
the error (the stage it tells of), `stale` (older than the recovery threshold)
and `deleted`. `file` says for each recording and product whether it is absent,
partial or whole. A *job* is a goroutine of `Enqueue` with the local flags of
its pipeline. Both pipelines are one table: `After` gives the next stage for
audio and video, `InputOf` the file it reads, `ProductsOf` what it writes,
`Fatal` whether its failure ends the job. A stage is three actions: the tool
writes (`ToolWrites` leaves a partial file), succeeds, or fails, also by the
job's timeout. Every step update may be lost, as the code only logs it. The
report goes out with a context of its own and may fail.

`FinishUpload` writes `storage_path` and enqueues the job in one step: what a
crash between the two leaves behind is what a crash right after both leaves, a
queued row with a path, as jobs live in memory only.

Assumed, and not in `src/`: tools die with the server (they run in its
container), and a partial media file is not readable as input.

### Titles

`createWithAutoTitle` is begin, lock, count, insert, commit, each a step, with
rollback at any point. Titled inserts, updates and deletions are single
statements that take no lock. The unique index refuses a key that is committed
and makes a statement wait for one that is not. `Quiet` are the dates from
which nobody deletes or moves a recording and on which nobody types a number;
on the others everything goes.

### UploadForm

A file is what its tags and its name say: `Tags` has the creation time, the
container's date and the year, `ExtractedDay` and `Stamp` what
`extractRecordingDateInfo` makes of them. `place` is Uppy's list (0: not
chosen), `meta` Uppy's copy of title and date; `titles`, `dates`, `stamps`,
`analyzing` and `analyzed` are the form's own maps, `typed` a history of typed
dates. Adding files starts a batch; `FinishAnalysis` merges what it read,
keeping what was typed, and runs the effect that writes Uppy's metadata
(`Synced`). A dropped folder is collected in one later step
(`DropCollected`), between which and the drop anything may happen, or not at
all (`DropFails`). `ClickUpload` sorts and sends; each file is stored or
refused by itself; `UploadComplete` shows the results. A poll is a tick that
lists the recordings still in progress and asks for them one after another;
several polls may be under way, and an answer may be old when it comes.
The two sorts of the code are two operators: `SortedBefore` and `ShownBefore` are
the order of the rows (`GroupedFileList`), `QueuedBefore` and `SortedPlace` the
one of the button (`getSortedFileIds`); that they agree is checked and proved.
`place` numbers the files for the sake of an order; Uppy's map has no numbers.

### Player

`player` is the React state of the mounted player with the events that its
element has dispatched and it has not handled; `el` is the element. `Mounted`
is what the effects of a mount do, `ProcessingEnds` and `PeaksSettle` what
their later runs do. Buttons ask `ready`, keys do not, the media session goes
by the React state: each control is an action with its own guard. A change
between video and audio (`Toggle`) takes time and state of the old player's
React state, and `MediaLoads` applies them to the new element: the video's
`loadedmetadata`, which makes it ready too, or the `canplay` of WaveSurfer's
element, whose own `ready` (`WaveReady`) may come before or after. The share's page
never polls; `watched` remembers that processing ended on an open page.

### RecordingPage

A query is what it shows, the answer on its way and whether it is being
fetched. A form has a target, a text and whether it is open; a request
remembers its form and whether that form still listens (`live`): closing,
switching tabs and the dialog's reset silence it, and then its success changes
the cache and nothing else. Comments, songs, shares, the title and tags go
through the same `Send`, `Store`, `Refuse`, `Fail` and `Succeed`; they differ in
what is locked, what is refetched (`Stales`), and what success does to the form
(`Rewarded`). `missed` marks data that were read before a change and are not
read again: by a failed fetch, an invalidation that joins a first load, or an
answer to the edit that another user's rename has overtaken. A fetch of the
recording that fails sets `err` although its data stay, and `RecordingPage.tsx:19`
then shows *Recording not found*: forms, dialogs and what was typed are gone, the
requests go on unheard (`Lose`), and the next answer mounts the page afresh
(`Arrive`, `WithLists`). Each closing of the share dialog starts a reset timer of its
own.

Deleting a marker is always refused in the model, as it is in the code:
`SongMarkerList.tsx:24` sends an empty id. No line of the repository says otherwise
of it, so it is no finding, but it is a bug.

### AdminCard and Library

In `AdminCard` a row's state is what the two endpoints tell of it: `StatusNow`
counts the rows of deleted recordings as well, `ListNow` leaves them out. Each query
has its data and the answer on its way, read from the server when the server
answered, or the answer of one that failed: a count that fails is answered 200 with
no counts (`StatusUncounted`), a list that fails is refused, and either may be lost
(`StatusFails`, `FailedFails`). A row that leaves the screen loses its mutation's state (`Unmount`),
and the request goes on.

In `Library` each filter has its pages in the cache. `Observed` is the effect
of `RecordingList`: it runs when the callback has changed, disconnects, and
observes the sentinel if one is on the page, which delivers an entry; an
observer whose sentinel has gone sees nothing. The browser is assumed to deliver
each entry before it computes the next (`Scroll`): the callback looks at
`entries[0]` only (`RecordingList.tsx:37`), and of a batch of two it would miss the
second.

## 3. Runs

| Run | Checks | Shows |
|---|---|---|
| `cloud_lease` | `SyncedIsBackedUp`, `ObjectsStayHome`, `OneWorkerPerClaim`, `ImplementsBackup`, `AutomaticRetriesStop`, `SyncedIsFinal`, `LeaseIsExclusive` | one recording between two server processes with two workers, leases stolen and recovered, crashes, strays, renames and Retry: what `synced` means holds for good, an attempt has one worker, what a lease covers only its holder changes, attempts stop at the limit; the refinement |
| `cloud_paths` | `IInv`, `NoOverwriteOfOthers` | two recordings whose rendered and suffixed paths collide, on a remote with torn objects |
| `cloud_liveness` | `SyncingEnds`, `SyncedOrExhausted` | a process that may stop and one that lasts, with a file that disappears and returns |
| `processing_video` | `IInv`, `OneJobPerRecording`, `OriginalIsStored`, `ImplementsPublication`, `CompleteIsFinal`, `WorkIsFinished` | one video, every stage, two job slots, and what a lasting server finishes; the refinement |
| `processing_stranded` | `ScanFindsAllStuck`, violated | finding, section 6 |
| `titles` | `UploadsNeverCollide`, `NumbersAreSequential`, `UploadsAreAnswered` | uploads at once on a quiet date and on one that is edited: no refusals and no number above the count on the first, and no one waits for ever on either |
| `upload` | `EntriesFollowFiles`, `TypedDateStays`, `SentAsShown`, `SentInShownOrder`, `ResultsSettle` | the whole life of the form with two files, two batches, two polls |
| `player` | `TypeOK`, `AudioIsAttached`, `HandoffKeepsPlace`, `BecomesReady`, `DisplayFollows` | both pages, audio and video, before and after processing, two switches |
| `page` | `TypeOK`, `PageCatchesUp`, `LinkBelongsToForm`, `UntouchedIsShown` | every form and list with two requests in flight, lost and late, and a page that is taken down by a failed poll and comes back |
| `admin` | `IInv`, `CardSettles`, `RetryComesBack` | only rows on the screen wait for a Retry; once fetches work again, the card ends up showing the server and a failed row can be retried |
| `admin_vanishing` | `RetriedRowStays`, violated | finding, section 6 |
| `library` | `IInv`, `AllPagesLoad`, `FilterFollowsInput` | box, timer, filter, pages and observer stay in step; a reader at the end of a list gets all of it; the filter ends as the box says |

### Bounds

- `Calls`, `Workers`, `Jobs`, `Batches`, `Polls`, `Requests` are slots for
  goroutines and for things in flight. A step that needs a slot waits until one
  is free, so a bound may delay a step but adds none. Two of a kind are what
  the races are between; with one call, statements of workers, recovery and the
  other process still fall between its steps.
- `MaxAttempts` 1 or 2 and `RetryCap` (no Retry click from there on; 0 for no
  clicks) keep `attempts` finite; one attempt past the limit by a Retry is in
  `cloud_lease`.
- `Flaky`: the recordings whose file may disappear and return; the one of
  `cloud_liveness`. `AtomicUpload` is FALSE in `cloud_paths`, where
  what matters is who writes where, and TRUE where it matters what is there.
- `Rendered`, `Paths`: two paths that render, collide and are each other's
  suffix. A recording left untracked as both its paths are taken needs a third
  recording.
- `MaxWorkers`, `MaxAudioWorkers`, `MaxVideoWorkers` are 1, so that the
  semaphores are contended. The liveness runs have one recording each, so
  fairness among semaphore waiters is stated but not put to the test.
- `Titles` has three recordings and two dates: a collision needs two on a date
  and a third to have been there.
- `StaleExceedsTimeout` is TRUE in every run: the defaults are 3900 s against
  1800 s and 3600 s (`internal/config/config.go`). A configuration that breaks
  it processes recordings twice; the recovery loop has no other protection.
- `upload`: one file with a creation time late on the first day and one with a
  year only, so that the rows have groups, unknown times and a sort that the
  names alone do not give; two days, one title.
- `player`: three seconds with marks at 0 and 2 reach both clamps, both
  neighbours of a mark and the end. `MaxToggles` is there and back.
- `page`: `MaxChanges` 2 counts the mutations sent, the other user's renames
  and the polls that take the page down; `MaxTimers` 2 is what may be due of the
  share dialog's resets, so that it can be closed twice within 300 ms but not three
  times. A visit begins with a loaded recording, on whose page no form opens before
  its tab's list is there, and when the page comes back only the list of the visit
  is read again, as the others do not change during it. `panel` is the tab a visit is for, and of one tab's forms that open
  one is open at a time (`Alone`). Items, texts and requests are symmetric; the
  run checks invariants only.
- `admin`: one recording, one configuration text and one Retry in flight;
  recordings do not exceed `MaxFailedSyncRows`, the LIMIT 500 of
  `ListFailedSyncs`: past it the list leaves out rows that the status counts; the list and the connect form
  are not open at once (`FormPut`, `ListPut`), as nothing joins them but the
  status query.
- `library`: filters with three pages, two and none; one filter in error at a
  time.

Deadlock is checked for `Processing`, `AdminCard` and `Library`, where a step
is always possible. It is not for the others: all processes may have exited
with every recording deleted, every recording may have been titled and deleted,
the files uploaded, the player at rest with no switches left, the changes made.

### Fairness

`CloudSync!FairSpec`: a worker's current step ends (weak); a worker waiting for
the semaphore gets it (strong; Go's channels serve senders in order); the
database clock runs; a lasting process starts, ticks its recovery loop, and
calls for each recording again and again; a call's reads and its claim do not
fail for ever (strong, since `CallFails` may always come first). That a copy
ends is assumed; the code gives `Copy` no deadline, which is listed as a hazard.
Nothing is assumed of processes outside `Lasting`, of retries or of files.

`Processing!FairSpec`: tools end, by their context's timeout if nothing else;
semaphores serve waiters; the recovery loop ticks; uploads go on; and the
database does not refuse results or re-enqueues for ever (strong fairness of
`Report` and `Requeue`). `WorkIsFinished` supposes that the server finally
stays up and that edits, each of which postpones recovery, finally stop.

`Titles!FairSpec`: statements of a transaction end and the lock is granted.

The frontend's specifications assume of the user nothing at all. Of the browser
and the network: intervals and timers fire, events, entries and effects are
delivered, a request ends (weak). Where a fetch is repeated for ever and may be
lost, refused or restarted, some of the repetitions get through (strong:
`Deliver` in `UploadForm`; `StatusArrives`, `AnswerFailed` and `FailedArrives`
in `AdminCard`). `CardSettles` and `RetryComesBack` further suppose `FetchesWork`:
counts, lists and requests come to an end of failing. Without it a status that
fails again and again may show no Failed Sync, and a list none of its rows, for
ever; a list that is refused as the remote is not ready is no failure in this sense.
The server processes an uploaded recording (weak). `Player`
assumes that an element on the page loads. The safety of `RecordingPage` needs
no fairness.

## 4. Properties and their hazards

Each property has a comment in its module with the code it is about, and the
hazards of `PROJECT.json` say at which line each could go wrong. To read first:

- `SyncedIsBackedUp` and its action companion `SyncedIsFinal`: whatever
  combination of expired leases, two owners, late reports and stray uploads,
  a row that says synced has its own object at its path.
- `OneJobPerRecording`: recovery re-enqueues by age alone; that no job can
  still be running then needs the relation between threshold and timeouts, the
  order of the step updates and the `queued` step being excluded.
- `ImplementsPublication` (which contains `ReadyMeansWhole`, a part of `IInv`)
  with `CompleteIsFinal`: tools write under the final names, so only the order of flags, steps and files keeps partial output from being
  offered, and only the recovery filter keeps a complete recording's files from
  being rewritten.
- `SentAsShown` and `SentInShownOrder`: the form and Uppy each keep an account
  of every file and each have a sort; effects alone keep them in step.
- `PageCatchesUp`: seven kinds of mutation, each with its own invalidation or
  write, against queries that load, poll and restart.
- `EndIsWatched`, the safety half of `AllPagesLoad`: only an observer's entry
  loads more, so an effect that did not run again after a page, a filter or a
  refetch would leave a list that never grows.
- `HandoffKeepsPlace` and `AllPagesLoad`: what one component leaves to the next
  through effects, refs and observers that run in an order nobody wrote down.

Some properties except what the code does not do; each exception is in the
comment of the property and is itself a remark on the code:

- `PageCatchesUp`: data that a first load or a poll read before a change and
  brought after it (`missed`).
- `BecomesReady` and `DisplayFollows`: a video page that is open while
  processing ends never attaches its listeners
  (`useVideoPlayer.ts:73-75` returns without an element and its dependencies do
  not change later), and a waveform replaced when its peaks come late keeps its
  old `isPlaying`.
- `HandoffKeepsPlace`: a player that was not ready, or had events to handle. What
  is kept is where the old element was: a waveform may be ready before its media can
  play, and whoever switches in between loses the place that was handed to it.
- `UntouchedIsShown` is about the title field, not about what saving does. Save
  sends every field (`RecordingEditDialog.tsx:56-60`), the date as midnight UTC,
  which `repository.go:412-413` stores with source `user_set`: an untouched form
  changes the time of day, and one that is stale takes back another user's title.
- `SentAsShown`: a title or a date that was typed and cleared again stays in Uppy's
  copy and is sent.
- `CardSettles` and `RetryComesBack`: fetches that fail for ever.
- `ImplementsBackup` allows a recording to be backed up after its deletion, which
  happens when it is deleted between being read and being claimed
  (`service.go:139`).
- `WorkIsFinished`: recordings left in step `queued` without a job, by a lost
  process, a failed store or an upload served while the server closes.
- `AllPagesLoad`: a fetch that failed; after it the sentinel comes back without
  an observer (`RecordingList.tsx:44-53`).
- `UploadsNeverCollide`: dates from which recordings are deleted or moved. The
  number of `createWithAutoTitle` is a count plus one, so after a deletion the
  next untitled upload of that date may ask for a number in use and is refused
  (`repository.go:129-133`).
- `OneWorkerPerClaim` counts attempts, not leases: a worker whose lease ran out
  while it was queued, and whose row its own process has claimed again, is not
  told apart from the newer worker by `lease_owner`, which is per process
  (`service.go:84`), and reports for it.

A failed attempt has status `error` whether or not it will be retried: no
statement writes `pending`, which the glossary (`CONTEXT.md:8`) gives for one
that still is, and no property here depends on it.

## 5. Proofs

All theorems hold for every set of recordings, paths, processes, files, texts,
slots and every limit that the named assumptions (`StoreAssumption`,
`CloudSyncAssumption`, `ProcessingAssumption`, `TitlesAssumption`,
`UploadAssumption`, `TagsAssumption`, `RecordingPageAssumption`,
`NoDataAssumption`, `PlayerAssumption`, `AdminCardAssumption`,
`LibraryAssumption`) admit. They ask only what the code needs: null values differ
from real ones, limits are positive, what is counted is finite, a file's tags name
a day, and a filter has a number of pages.

`CloudSyncProofs` proves `Spec => []IInv` and from it `TypeOK`,
`SyncedIsBackedUp` and `ObjectsStayHome`. `SyncedIsBackedUp` alone is not
inductive: it needs that a worker about to write *synced* has its object at its
path, that its path is the one its recording's row has, and that no other worker
can put something there, hence that paths are unique among tracked rows and
never change once given. These are `WorkerOK`, `CallOK` and `SyncStore!StoreInv`.
The argument goes through what kinds of step there are rather than 26 actions
one by one: steps that keep the paths of tracked rows, steps that upload only a
worker's own recording to its own path, steps that set *synced* only for a
verified worker. What each statement of `SyncStore` preserves is proved once,
before the service.

Its last part goes on from there. `StepKinds` says that a step writes to the
table, or shows an upload, or neither; from this and `IInv` follow the action
properties `SyncedIsFinal`, `NoOverwriteOfOthers` and `LeaseIsExclusive`: of the
statements of the table (`TableStep`) only the renewal and the reports reach a leased
row, they name its owner, and who calls them is a worker or call of that process.
`OneWorkerPerClaim` needs one more invariant, `AttemptsInv`: the row has counted
the attempt of every live worker, so that a claim, which counts before its
worker starts, gives an attempt nobody has. With it `AutomaticRetriesStop` holds
if `MaxAttempts` is positive; with a limit of 0, which nothing in
`internal/config` refuses, a new recording still gets its first attempt, as the
`INSERT` of `ClaimNew` does not test it. `Refinement` proves, for atomic
uploads, `Spec => ImplementsBackup`: the claim of an untracked recording is
`Reserve`, an upload that shows is `Upload`, a fenced `MarkSynced` is `Confirm`,
and every other step stutters.

`ProcessingProofs` proves, under `StaleExceedsTimeout`, `Spec => []IInv` and
from it `TypeOK`, `OneJobPerRecording`, `ReadyMeansWhole`, `OriginalIsStored`,
`FailureIsReported` and the action property `CompleteIsFinal`. The strengthening
says of each job (`JobOK`) that its recording is stored, not listed by recovery,
in a working step or queued, and stale only if queued; that the files behind its
flags are whole and belong to stages it has passed; and that it reports no
error only with playback and waveform. Of each recording (`RecordingOK`) it says
that flags come only with *complete*, that an upload in progress is queued, and
that a listed recording is still in a working step. The scan is where it comes
together: what it lists is stale and not queued, so it has no job. Every step
concerns one recording, and `OneRecording` reduces the invariant to it.
`Refinement` proves, under the same assumption, `Spec => ImplementsPublication`.
A goroutine that gets the semaphore is `Begin`, a tool that opens or completes
its output is `Change`, a report is `Publish`, and a report that fails is `Abandon`,
as is the end of the process; every other step stutters, `ToolFails` and all of
recovery among them. That `Begin` finds nobody at work is `OneJobPerRecording`; that
it finds nothing published, and `Publish` only media that are there, is `JobOK`.

`TitlesProofs` proves `UploadsNeverCollide` and `NumbersAreSequential`. The
strengthening is what the advisory lock protects (`TxOK`: a transaction between
lock and end holds it, and its row is pending from insert to end) and what a
count is worth (`CountOK`: on a quiet date no recording has a number above it,
and it does not exceed the recordings there). Statements without the lock keep
`CountOK` because a quiet date only gains recordings whose title is no number.

`UploadFormProofs` proves `TypeOK`, `EntriesFollowFiles`, `TypedDateStays`,
`SentAsShown` and `SentInShownOrder`. The
strengthening relates the form's accounts (`Rows`: what was given to an analysis
is what is chosen; each chosen file is being analysed or dated; Uppy's metadata
agree with what is typed) and freezes them while files are sent (`Upload`). That
the button's sort agrees with the rows rests on `SortedBeforeIsOrder` and on
counting predecessors (`SortedPlaceOrder`).

`RecordingPageProofs` proves `TypeOK`, `LinkBelongsToForm` and
`UntouchedIsShown`. A link could come from an answer nobody asked for any more;
`ShareClicked` says that a share request is heard only after a click that no
reset has undone, and `OneAnswer` that no form hears two. Most steps only
silence requests (`Quieter`) or leave the Edit dialog and its query alone
(`TitleKept`), which lemmas treat at once. `PageCatchesUp` has an invariant of
its own, `CatchUp`: a list that is not the server's is either marked as having
missed a change, or an accepted request is in flight whose success will write
it or fetch it again, or the fetch that is under way has not been answered yet,
or has been answered with what is stored (`CaughtUp`). A fetch that has been
answered before a change is the hard case: the success that follows restarts
it, unless it is a first load, which the code lets go on and which is therefore
marked.

`PlayerProofs` proves `TypeOK`, `AudioIsAttached` and the action property
`HandoffKeepsPlace`. The strengthening says when React's state may differ from
the element, only while an event waits (`Mirror`), and that what a settled
player left behind is what the transfer still holds and that the next player
can apply it (`Handed`).

`AdminCardProofs` proves `IInv`, `TypeOK` and the action property
`PendingEndsWithAnswer`. The status, the Failed Syncs and the fold of the section
decide together which rows are on the screen, and each changes by itself;
`UnmountOK` says that whichever takes a row away takes its *Retrying...* along and
silences its request, so that the row may come back, retry again, and not be ended
by the earlier answer. Steps after which both queries show what they showed are one
lemma (`ShowsTheSame`), which covers the server, the answers under way and the form.

`LibraryProofs` proves `IInv`, `TypeOK`, `SearchIsCurrent` and `EndIsWatched`. Most
of `IInv` is about one query of the cache (`CacheStep`); that the filter on the page
is never blank needs that every way to pick one makes its query active
(`ActiveOK`). `EndIsWatched` is a theorem of the form `[]NoneFailed => []Watched`:
each step of a page on which nothing failed keeps `Watched`, because a step that
changes what the callback depends on runs the effect, and one that does not leaves
the sentinel where it was.

Only model-checked: all liveness (`SyncingEnds`, `SyncedOrExhausted`,
`WorkIsFinished`, `UploadsAreAnswered`, `ResultsSettle`, `BecomesReady`,
`DisplayFollows`, `CardSettles`, `RetryComesBack`, `AllPagesLoad`,
`FilterFollowsInput`), which rests on fairness and is out of the prover's reach.
The two violated properties of section 6 are counterexamples of TLC. Every safety
property that a passing run checks is proved.

## 6. Findings

- **Queued recordings are not recovered** (`processing_stranded`). The comment
  of `StartRecoveryLoop` speaks of every non-terminal step; the query leaves
  out `queued`, where a recording is before its first job and after each
  re-enqueue, and jobs are lost with the process.
- **A row under retry leaves the screen** (`admin_vanishing`). The comment of
  `FailedSyncRow` expects it to stay, showing *Retrying now...*. The section is
  not rendered while the status counts no error, a row being retried has status
  `syncing`, and so retrying the only failed sync takes the section away.

## 7. Not modelled, and the plan

Not modelled: the content of media and of metadata, HTTP parsing and the
streaming, list and download handlers, which only read; migrations as a process;
path rendering and template validation; the probe; of the server's shares,
sessions, comments, songs, tags and users what is more than the frontend's view
of a row that is stored or refused. Processing has one server process, as it is
deployed: two on one database would both re-enqueue what a scan finds, as it
takes no lease.

Of the frontend: layout and formatting, volume, fullscreen, artwork and drawing;
the login, the shell and its menus, themes; user roles, tag management and the
dump, whose mutations are row-wise with one request at a time; the share page's
fetch and its error views; the clipboard; deleting a recording; the generated
wrappers in `components/ui`. They hold little state, and nothing of it relates
two of them.

What could come next, in this order:

1. `Shares` on the server: creation with snippet extraction against processing,
   deletion and expiry; composed with `Processing`'s ready columns.
2. `Reconcile`: the page cursor, the `reconciling` flag, the run endpoint, and
   recordings added or deleted behind the cursor; refines the scheduler of
   `CloudSync`.
3. `Sessions`: OIDC state, login, logout, expiry, roles that follow the group.
4. `AdminCard` over `CloudSync` instead of over its own rows.
5. Proofs: abstract specifications, to be refined, of what the upload form and the
   recording page promise; step lemmas for the liveness properties, as far as they
   need neither fairness nor ENABLED.
