----------------------------- MODULE AdminCard -----------------------------
(***************************************************************************)
(* The cloud sync card of the admin page, CloudSyncCard.tsx and            *)
(* api/cloudsync.ts: two polled queries, the status and the Failed Syncs,  *)
(* that are read at different moments and gate each other's display, and   *)
(* the Retry, Sync Now and Save buttons whose answers restart them.  The   *)
(* server and TanStack Query are external.                                 *)
(***************************************************************************)
EXTENDS Integers, FiniteSets

CONSTANTS
  Recordings,
  Requests,     \* Retry requests in flight at once (bound)
  Texts,        \* remote configurations the admin may paste
  NoText,       \* an empty text box
  NoData,       \* a query that has not been answered yet
  Refused,      \* the answer of a fetch that fails
  MaxFailedSyncRows,  \* LIMIT of ListFailedSyncs
  NoRec

ASSUME AdminCardAssumption ==
  /\ IsFiniteSet(Recordings)
  /\ MaxFailedSyncRows \in Nat
  /\ Cardinality(Recordings) <= MaxFailedSyncRows   \* bound: the LIMIT cuts nothing off
  /\ NoRec \notin Recordings
  /\ NoText \notin Texts

VARIABLES
  row,        \* server: cloud_sync_state
  deleted,    \* server: soft-deleted recordings, whose rows stay
  ready,      \* server: the readiness probe
  forced,     \* server: retries accepted and not claimed yet
  status,     \* useSyncStatus
  failed,     \* useFailedSyncs
  expanded,   \* of FailedSyncsSection
  retry,      \* useRetryFailedSync of each row on the screen
  requests,   \* Retry requests in flight
  run,        \* useRunSync
  connect,    \* showConnect
  text,       \* remoteConfig
  save        \* useSaveRemote

serverVars == <<row, deleted, ready, forced>>
formVars == <<connect, text, save>>
vars == <<serverVars, status, failed, expanded, retry, requests, run, formVars>>

\* "retrying_now": syncing with an error class, an attempt after a failure.
RowStates == {"absent", "syncing", "retrying_now", "error", "synced"}

Status == [ready : BOOLEAN, errors : 0..Cardinality(Recordings), busy : BOOLEAN]
List == [Recordings -> {"no", "retrying_now", "error"}]

\* A query: its data, and the server's answer to the fetch in flight, once there
\* is one; of the Failed Syncs also whether the last fetch was refused.  A fetch
\* the server has not answered is as good as one that has not been sent.
StatusQuery == [data : Status \cup {NoData}, answer : Status \cup {NoData, Refused}]
FailedQuery == [data : List \cup {NoData}, err : BOOLEAN,
                answer : List \cup {NoData, Refused}]

\* seen: the row that sent it is still on the screen.
Request == [rec : Recordings \cup {NoRec},
            stage : {"free", "sent", "accepted", "refused"}, seen : BOOLEAN]
NoRequest == [rec |-> NoRec, stage |-> "free", seen |-> FALSE]

\* Types; and a row on the screen is pending exactly while a request it sent is
\* in flight: the answer for a row that left belongs to nobody (useMutation of
\* FailedSyncRow, CloudSyncCard.tsx:44-84).
TypeOK ==
  /\ row \in [Recordings -> RowStates]
  /\ deleted \subseteq Recordings
  /\ ready \in BOOLEAN
  /\ forced \subseteq Recordings
  /\ status \in StatusQuery
  /\ failed \in FailedQuery
  /\ expanded \in BOOLEAN
  /\ retry \in [Recordings -> {"idle", "pending", "error"}]
  /\ requests \in [Requests -> Request]
  /\ run \in {"idle", "pending"}
  /\ connect \in BOOLEAN
  /\ text \in Texts \cup {NoText}
  /\ \A r \in Recordings :
       retry[r] = "pending" <=> \E q \in Requests : requests[q].rec = r /\ requests[q].seen
  /\ save \in [state : {"idle", "pending"}, text : Texts \cup {NoText}]

NotSaving == [state |-> "idle", text |-> NoText]

Init ==
  /\ row \in [Recordings -> {"absent", "error"}]
  /\ deleted = {}
  /\ ready = TRUE
  /\ forced = {}
  /\ status = [data |-> NoData, answer |-> NoData]
  /\ failed = [data |-> NoData, err |-> FALSE, answer |-> NoData]
  /\ expanded = FALSE
  /\ retry = [r \in Recordings |-> "idle"]
  /\ requests = [q \in Requests |-> NoRequest]
  /\ run = "idle"
  /\ connect = FALSE
  /\ text = NoText
  /\ save = NotSaving

----------------------------------------------------------------------------
\* What the card shows.

CardShown == status.data # NoData

\* FailedSyncsSection is mounted, and renders something.
SectionMounted(s) == s.data # NoData /\ s.data.ready
SectionShown(s) == SectionMounted(s) /\ s.data.errors > 0

Listed(f) ==
  IF f.data = NoData \/ f.err THEN {}
  ELSE {r \in Recordings : f.data[r] # "no"}
RowShown(r) == SectionShown(status) /\ expanded /\ r \in Listed(failed)

RetryOffered(r) ==
  RowShown(r) /\ failed.data[r] # "retrying_now" /\ retry[r] # "pending"

SyncNowOffered ==
  /\ CardShown /\ status.data.ready /\ ~status.data.busy
  /\ run = "idle"

\* Bound: the list and the connect form are not open at once.
FormPut == ~connect /\ text = NoText /\ save = NotSaving
ListPut == ~expanded /\ run = "idle" /\ \A q \in Requests : requests[q] = NoRequest

\* Bug form: the request of a row that left still belongs to the row.
UnmountForgetsNothing(s, f, e) ==
  LET shown == IF SectionShown(s) /\ e THEN Listed(f) ELSE {} IN
  /\ retry' = [r \in Recordings |-> IF r \in shown THEN retry[r] ELSE "idle"]
  /\ UNCHANGED requests

\* A row that leaves the screen loses its mutation's state; the request goes on.
Unmount(s, f, e) ==
  LET shown == IF SectionShown(s) /\ e THEN Listed(f) ELSE {} IN
  /\ retry' = [r \in Recordings |-> IF r \in shown THEN retry[r] ELSE "idle"]
  /\ requests' = [q \in Requests |->
       IF requests[q].rec \in shown \cup {NoRec} THEN requests[q]
       ELSE [requests[q] EXCEPT !.seen = FALSE]]

----------------------------------------------------------------------------
\* The server.

\* An automatic attempt claims the row of a recording it has just read;
\* CloudSync has the two apart.
Claim(r) ==
  /\ row[r] \in {"absent", "error"}
  /\ r \notin deleted
  /\ row' = [row EXCEPT ![r] = IF @ = "absent" THEN "syncing" ELSE "retrying_now"]
  /\ UNCHANGED <<deleted, ready, forced, status, failed, expanded, retry, requests,
                 run, formVars>>

\* The retry an admin has forced finds a recording and a row that is not held.
ForceRetry(r) ==
  /\ r \in forced
  /\ forced' = forced \ {r}
  /\ row' = [row EXCEPT ![r] =
       IF @ = "error" /\ r \notin deleted THEN "retrying_now" ELSE @]
  /\ UNCHANGED <<deleted, ready, status, failed, expanded, retry, requests,
                 run, formVars>>

AttemptEnds(r, outcome) ==
  /\ row[r] \in {"syncing", "retrying_now"}
  /\ row' = [row EXCEPT ![r] = outcome]
  /\ UNCHANGED <<deleted, ready, forced, status, failed, expanded, retry,
                 requests, run, formVars>>

\* The recording is soft-deleted; its row stays.
Delete(r) ==
  /\ r \notin deleted
  /\ deleted' = deleted \cup {r}
  /\ UNCHANGED <<row, ready, forced, status, failed, expanded, retry,
                 requests, run, formVars>>

\* The remote becomes unreachable, or reachable again.
ReadinessChanges ==
  /\ ready' = ~ready
  /\ UNCHANGED <<row, deleted, forced, status, failed, expanded, retry,
                 requests, run, formVars>>

\* GET /status counts status='error' and status='syncing', of deleted
\* recordings too.
StatusNow ==
  IF ~ready THEN [ready |-> FALSE, errors |-> 0, busy |-> FALSE]
  ELSE [ready |-> TRUE,
        errors |-> Cardinality({r \in Recordings : row[r] = "error"}),
        busy |-> \E r \in Recordings : row[r] \in {"syncing", "retrying_now"}]

\* A CountByStatus that fails is answered with no counts at all.
StatusUncounted == [ready |-> TRUE, errors |-> 0, busy |-> FALSE]

\* GET /failed lists the retried rows as well, but none of a deleted recording
\* (ListFailedSyncs).
ListNow ==
  [r \in Recordings |->
    IF row[r] \in {"error", "retrying_now"} /\ r \notin deleted THEN row[r] ELSE "no"]

----------------------------------------------------------------------------
\* The queries.

\* Polled for ever.
AnswerStatus ==
  /\ status.answer = NoData
  /\ status' = [status EXCEPT !.answer = StatusNow]
  /\ UNCHANGED <<serverVars, failed, expanded, retry, requests, run, formVars>>

\* The count fails on the server, or the request or its answer is lost.
StatusFails ==
  /\ status.answer = NoData
  /\ \E answer \in {Refused, StatusUncounted} :
       /\ answer = StatusUncounted => ready
       /\ status' = [status EXCEPT !.answer = answer]
  /\ UNCHANGED <<serverVars, failed, expanded, retry, requests, run, formVars>>

\* Bug form: no refetchInterval.
AnswerFailedOnce ==
  /\ expanded /\ SectionMounted(status)
  /\ failed.answer = NoData /\ failed.data = NoData
  /\ failed' = [failed EXCEPT !.answer = IF ready THEN ListNow ELSE Refused]
  /\ UNCHANGED <<serverVars, status, expanded, retry, requests, run, formVars>>

\* Polled while the section is expanded, also when it renders nothing; 409 while
\* the remote is not ready.
AnswerFailed ==
  /\ expanded /\ SectionMounted(status)
  /\ failed.answer = NoData
  /\ failed' = [failed EXCEPT !.answer = IF ready THEN ListNow ELSE Refused]
  /\ UNCHANGED <<serverVars, status, expanded, retry, requests, run, formVars>>

\* The list cannot be read (500), or the request or its answer is lost.
FailedFails ==
  /\ expanded /\ SectionMounted(status)
  /\ failed.answer = NoData
  /\ failed' = [failed EXCEPT !.answer = Refused]
  /\ UNCHANGED <<serverVars, status, expanded, retry, requests, run, formVars>>

\* A fetch that failed leaves the data as it was.  A section that is unmounted
\* forgets that it was expanded.
StatusArrives ==
  /\ status.answer # NoData
  /\ status' = [data |-> IF status.answer = Refused THEN status.data ELSE status.answer,
                answer |-> NoData]
  /\ expanded' = (expanded /\ SectionMounted(status'))
  /\ Unmount(status', failed, expanded')
  /\ UNCHANGED <<serverVars, failed, run, formVars>>

FailedArrives ==
  /\ failed.answer # NoData
  /\ failed' = IF failed.answer = Refused
               THEN [failed EXCEPT !.err = TRUE, !.answer = NoData]
               ELSE [data |-> failed.answer, err |-> FALSE, answer |-> NoData]
  /\ Unmount(status, failed', expanded)
  /\ UNCHANGED <<serverVars, status, expanded, run, formVars>>

\* invalidateQueries: a fetch in flight is dropped and sent again, unless it is
\* the first.
Asked(query) ==
  IF query.data = NoData THEN query ELSE [query EXCEPT !.answer = NoData]

----------------------------------------------------------------------------
\* The buttons.

ToggleSection ==
  /\ SectionShown(status)
  /\ FormPut
  /\ expanded' = ~expanded
  /\ Unmount(status, failed, expanded')
  /\ UNCHANGED <<serverVars, status, failed, run, formVars>>

ClickRetry(r) ==
  /\ RetryOffered(r)
  /\ \E q \in Requests :
       /\ requests[q] = NoRequest
       /\ requests' = [requests EXCEPT ![q] =
                         [rec |-> r, stage |-> "sent", seen |-> TRUE]]
  /\ retry' = [retry EXCEPT ![r] = "pending"]
  /\ UNCHANGED <<serverVars, status, failed, expanded, run, formVars>>

\* The server takes the request, answers 202 and retries in the background; or
\* it refuses: not ready, no such row, or a row that cannot be read (500).  An
\* answer that is lost looks like a refusal, and so does a request that is.
AnswerRetry(q) ==
  LET r == requests[q].rec IN
  /\ requests[q].stage = "sent"
  /\ \E taken, answered \in BOOLEAN :
       /\ taken => ready /\ row[r] # "absent"
       /\ requests' = [requests EXCEPT ![q].stage =
            IF taken /\ answered THEN "accepted" ELSE "refused"]
       /\ forced' = IF taken THEN forced \cup {r} ELSE forced
  /\ UNCHANGED <<row, deleted, ready, status, failed, expanded, retry, run, formVars>>

\* Bug form: a refused retry is not handled.
RetryAcceptedOnly(q) ==
  /\ requests[q].stage = "accepted"
  /\ failed' = IF expanded /\ SectionMounted(status) THEN Asked(failed) ELSE failed
  /\ status' = Asked(status)
  /\ retry' = IF requests[q].seen THEN [retry EXCEPT ![requests[q].rec] = "idle"]
              ELSE retry
  /\ requests' = [requests EXCEPT ![q] = NoRequest]
  /\ UNCHANGED <<serverVars, expanded, run, formVars>>

\* The answer arrives: both queries are invalidated, a row that is still there
\* shows the error.
RetryArrives(q) ==
  LET r == requests[q].rec
      ok == requests[q].stage = "accepted" IN
  /\ requests[q].stage \in {"accepted", "refused"}
  /\ failed' = IF ok /\ expanded /\ SectionMounted(status)
               THEN Asked(failed) ELSE failed
  /\ status' = IF ok THEN Asked(status) ELSE status
  /\ retry' = IF requests[q].seen
              THEN [retry EXCEPT ![r] = IF ok THEN "idle" ELSE "error"] ELSE retry
  /\ requests' = [requests EXCEPT ![q] = NoRequest]
  /\ UNCHANGED <<serverVars, expanded, run, formVars>>

\* Sync Now; the reconciliation itself is a Claim of any row.
ClickSyncNow ==
  /\ SyncNowOffered /\ FormPut
  /\ run' = "pending"
  /\ UNCHANGED <<serverVars, status, failed, expanded, retry, requests, formVars>>

\* Its answer, or 409, or none.
RunArrives ==
  /\ run = "pending"
  /\ run' = "idle"
  /\ \/ ready /\ status' = Asked(status)
     \/ UNCHANGED status
  /\ UNCHANGED <<serverVars, failed, expanded, retry, requests, formVars>>

----------------------------------------------------------------------------
\* Connecting a remote.

ToggleConnect ==
  /\ CardShown /\ ListPut
  /\ connect' = ~connect
  /\ UNCHANGED <<serverVars, status, failed, expanded, retry, requests, run, text,
                 save>>

TypeConfig(t) ==
  /\ CardShown /\ connect
  /\ save.state = "idle"
  /\ text' = t
  /\ UNCHANGED <<serverVars, status, failed, expanded, retry, requests, run, connect,
                 save>>

ClickSave ==
  /\ CardShown /\ connect
  /\ text # NoText
  /\ save.state = "idle"
  /\ save' = [state |-> "pending", text |-> text]
  /\ UNCHANGED <<serverVars, status, failed, expanded, retry, requests, run, connect,
                 text>>

\* The server stores the block, or refuses one that cannot be parsed or names
\* another remote.  handleSaveRemote's onSuccess empties and closes the form,
\* which may be closed, or open again, by now; an answer that is lost is an
\* error to the form.
SaveArrives(ok) ==
  /\ save.state = "pending"
  /\ IF ok THEN text' = NoText /\ connect' = FALSE /\ status' = Asked(status)
     ELSE UNCHANGED <<text, connect, status>>
  /\ save' = NotSaving
  /\ UNCHANGED <<serverVars, failed, expanded, retry, requests, run>>

----------------------------------------------------------------------------

Next ==
  \/ \E r \in Recordings :
       \/ Claim(r) \/ ForceRetry(r) \/ Delete(r)
       \/ AttemptEnds(r, "synced") \/ AttemptEnds(r, "error")
       \/ ClickRetry(r)
  \/ ReadinessChanges
  \/ AnswerStatus \/ StatusFails
  \/ AnswerFailed \/ FailedFails
  \/ StatusArrives \/ FailedArrives
  \/ ToggleSection
  \/ \E q \in Requests : AnswerRetry(q) \/ RetryArrives(q)
  \/ ClickSyncNow \/ RunArrives
  \/ ToggleConnect \/ ClickSave
  \/ \E t \in Texts \cup {NoText} : TypeConfig(t)
  \/ \E ok \in BOOLEAN : SaveArrives(ok)

Spec == Init /\ [][Next]_vars

\* Intervals fire, and of fetches that are repeated for ever some are answered
\* and arrive before a button restarts them; a request ends.
FairSpec ==
  /\ Spec
  /\ WF_vars(AnswerStatus) /\ SF_vars(StatusArrives)
  /\ SF_vars(AnswerFailed) /\ SF_vars(FailedArrives)
  /\ \A q \in Requests : WF_vars(AnswerRetry(q)) /\ WF_vars(RetryArrives(q))
  /\ WF_vars(RunArrives)

----------------------------------------------------------------------------
\* Safety.

\* A row on the screen has sent one request at most (useMutation's isPending
\* disables its button, CloudSyncCard.tsx:72-80).
OneRequestEach ==
  \A p, q \in Requests :
    requests[p].seen /\ requests[q].seen /\ requests[p].rec = requests[q].rec => p = q

\* A place is free, or the request of a recording.
RequestsOK ==
  \A q \in Requests :
    IF requests[q].stage = "free" THEN requests[q] = NoRequest
    ELSE requests[q].rec # NoRec

\* "Retrying..." and a refused retry's error are shown by a row of the screen: no
\* answer to one query leaves them with a row that the other query has removed
\* (CloudSyncCard.tsx:44-84, 90-136).
RetryIsShown == \A r \in Recordings : retry[r] # "idle" => RowShown(r)

\* A section that is expanded is mounted: its list is polled.
ExpandedIsMounted == expanded => SectionMounted(status)

\* A save in flight has a text.
SaveOK == IF save.state = "idle" THEN save = NotSaving ELSE save.text # NoText

\* The inductive invariant.
IInv ==
  /\ TypeOK
  /\ OneRequestEach /\ RequestsOK
  /\ RetryIsShown /\ ExpandedIsMounted
  /\ SaveOK

\* A row's "Retrying..." ends when the answer to its own request arrives or when
\* the row leaves the screen, never with the answer that another row, or its own
\* earlier self, has waited for (CloudSyncCard.tsx:44-84).
PendingEndsWithAnswer ==
  [][\A r \in Recordings :
       retry[r] = "pending" /\ retry'[r] # "pending" =>
         \/ ~RowShown(r)'
         \/ \E q \in Requests :
              /\ requests[q].rec = r /\ requests[q].seen
              /\ requests[q].stage \in {"accepted", "refused"}
              /\ requests'[q] = NoRequest]_vars

----------------------------------------------------------------------------
\* Liveness, and what a comment says.

\* In the end no fetch of the two queries fails any more: the database counts and
\* lists, and answers arrive.  (A list that is refused because the remote is not
\* ready is no failure.)
FetchesWork == <>[][~StatusFails /\ ~FailedFails]_vars

\* When the rows, the readiness and the section stay as they are and fetches have
\* come to work, the card ends up showing what the server says: the two queries
\* do not keep each other stale, whatever failed, was answered late or dropped
\* before (CloudSyncCard.tsx:90-136, cloudsync.ts:44-98).
CardSettles ==
  FetchesWork /\ <>[][FALSE]_<<row, deleted, ready, expanded>> =>
    <>[](/\ status.data = StatusNow
         /\ ready /\ expanded => ~failed.err /\ failed.data = ListNow)

\* A row that stays failed can always be retried again once fetches have come to
\* work, also after a Retry that was refused, lost or whose row had left the
\* screen (CloudSyncCard.tsx:72-80).
RetryComesBack ==
  \A r \in Recordings :
    FetchesWork /\ <>[](row[r] = "error" /\ r \notin deleted /\ ready /\ expanded) =>
      []<>RetryOffered(r)

\* "After a click, the row is expected to remain visible showing 'Retrying
\* now...' until it clears (success) or reappears with an updated cause (failed
\* again)" (CloudSyncCard.tsx:40-43): while the Retry of a row is accepted and
\* running, a status that says what the server has takes no row from an open
\* section.
RetriedRowStays ==
  [][\A q \in Requests :
       LET r == requests[q].rec IN
       /\ requests[q].stage = "accepted" /\ requests[q].seen
       /\ row[r] = "retrying_now" /\ r \notin forced /\ RowShown(r)
       /\ ready /\ status' # status /\ status'.data = StatusNow
       => SectionShown(status')]_vars

=============================================================================
