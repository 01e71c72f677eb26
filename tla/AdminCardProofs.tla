-------------------------- MODULE AdminCardProofs --------------------------
(***************************************************************************)
(* Safety of the cloud sync card, for any recordings, configurations and   *)
(* number of Retry requests: the types, whose a request is, and when a     *)
(* row's "Retrying..." ends.                                               *)
(***************************************************************************)
EXTENDS AdminCard, FiniteSetTheorems, TLAPS

\* IInv in four parts: the Retry requests; the two queries; the rest.  RetryIsShown
\* is what the first two have to do with each other.
PendingOK ==
  \A r \in Recordings :
    retry[r] = "pending" <=> \E q \in Requests : requests[q].rec = r /\ requests[q].seen
RetryOK ==
  /\ retry \in [Recordings -> {"idle", "pending", "error"}]
  /\ requests \in [Requests -> Request]
  /\ PendingOK /\ OneRequestEach /\ RequestsOK
QueriesOK ==
  /\ status \in StatusQuery
  /\ failed \in FailedQuery
  /\ expanded \in BOOLEAN
  /\ ExpandedIsMounted
RestOK ==
  /\ row \in [Recordings -> RowStates]
  /\ deleted \subseteq Recordings
  /\ ready \in BOOLEAN
  /\ forced \subseteq Recordings
  /\ run \in {"idle", "pending"}
  /\ connect \in BOOLEAN
  /\ text \in Texts \cup {NoText}
  /\ save \in [state : {"idle", "pending"}, text : Texts \cup {NoText}]
  /\ SaveOK

\* The parts are the invariant.
LEMMA Parts ==
  /\ IInv <=> RetryOK /\ QueriesOK /\ RetryIsShown /\ RestOK
  /\ IInv' <=> RetryOK' /\ QueriesOK' /\ RetryIsShown' /\ RestOK'
  BY DEF IInv, TypeOK, RetryOK, PendingOK, QueriesOK, RestOK

----------------------------------------------------------------------------
(* What the server answers, and what an invalidated query keeps. *)

\* The status counts some of the recordings.
LEMMA StatusNowOK ==
  ASSUME RestOK
  PROVE  StatusNow \in Status
<1> DEFINE E == {r \in Recordings : row[r] = "error"}
<1>1. IsFiniteSet(Recordings) /\ E \subseteq Recordings
  BY AdminCardAssumption
<1>2. Cardinality(E) \in Nat /\ Cardinality(Recordings) \in Nat
      /\ Cardinality(E) <= Cardinality(Recordings)
  BY <1>1, FS_Subset, FS_CardinalityType
<1>3. Cardinality(E) \in 0..Cardinality(Recordings) /\ 0 \in 0..Cardinality(Recordings)
  BY <1>2
<1>4. CASE ~ready
  BY <1>3, <1>4 DEF StatusNow, Status
<1>5. CASE ready
  <2> DEFINE busy == \E r \in Recordings : row[r] \in {"syncing", "retrying_now"}
  <2>1. StatusNow = [ready |-> TRUE, errors |-> Cardinality(E), busy |-> busy]
    BY <1>5 DEF StatusNow
  <2>2. busy \in BOOLEAN
    OBVIOUS
  <2> HIDE DEF busy, E
  <2> QED
    BY <2>1, <2>2, <1>3 DEF Status
<1> QED
  BY <1>4, <1>5

\* A status without counts is one.
LEMMA UncountedOK == StatusUncounted \in Status
<1>1. Cardinality(Recordings) \in Nat
  BY AdminCardAssumption, FS_CardinalityType
<1>2. 0 \in 0..Cardinality(Recordings)
  BY <1>1
<1> QED
  BY <1>2 DEF StatusUncounted, Status

\* The Failed Syncs are a list.
LEMMA ListNowOK == ListNow \in List
  BY DEF ListNow, List

\* An invalidated query shows what it showed.
LEMMA AskedStatusOK ==
  ASSUME status \in StatusQuery
  PROVE  Asked(status) \in StatusQuery /\ Asked(status).data = status.data
<1>1. CASE status.data = NoData
  BY <1>1 DEF Asked
<1>2. CASE status.data # NoData
  BY <1>2 DEF Asked, StatusQuery
<1> QED
  BY <1>1, <1>2

\* So do the Failed Syncs.
LEMMA AskedFailedOK ==
  ASSUME failed \in FailedQuery
  PROVE  /\ Asked(failed) \in FailedQuery
         /\ Asked(failed).data = failed.data /\ Asked(failed).err = failed.err
<1>1. CASE failed.data = NoData
  BY <1>1 DEF Asked
<1>2. CASE failed.data # NoData
  BY <1>2 DEF Asked, FailedQuery
<1> QED
  BY <1>1, <1>2

\* While both queries show what they showed, the rows stay on the screen.
LEMMA ScreenKept ==
  ASSUME QueriesOK, status' \in StatusQuery, failed' \in FailedQuery,
         status'.data = status.data, failed'.data = failed.data,
         failed'.err = failed.err, expanded' = expanded
  PROVE  QueriesOK' /\ \A r \in Recordings : RowShown(r)' <=> RowShown(r)
<1>1. SectionMounted(status') = SectionMounted(status)
  BY DEF SectionMounted
<1>2. SectionShown(status') = SectionShown(status)
  BY <1>1 DEF SectionShown
<1>3. Listed(failed') = Listed(failed)
  BY DEF Listed
<1>4. QueriesOK'
  BY <1>1 DEF QueriesOK, ExpandedIsMounted
<1> QED
  BY <1>2, <1>3, <1>4 DEF RowShown

----------------------------------------------------------------------------
(* Rows that leave the screen. *)

\* The requests after the rows outside S have left.
Left(S) ==
  [q \in Requests |->
    IF requests[q].rec \in S \cup {NoRec} THEN requests[q]
    ELSE [requests[q] EXCEPT !.seen = FALSE]]

\* A row that leaves takes its "Retrying..." along and leaves its request alone.
LEMMA UnmountOK ==
  ASSUME RetryOK, NEW S \in SUBSET Recordings,
         retry' = [r \in Recordings |-> IF r \in S THEN retry[r] ELSE "idle"],
         requests' = Left(S)
  PROVE  RetryOK' /\ \A r \in Recordings : retry'[r] # "idle" => r \in S
<1>1. ASSUME NEW q \in Requests
      PROVE  /\ requests'[q] \in Request
             /\ requests'[q].rec = requests[q].rec
             /\ requests'[q].stage = requests[q].stage
             /\ requests[q].rec \in S \cup {NoRec} => requests'[q] = requests[q]
             /\ requests[q].rec \notin S \cup {NoRec} => ~requests'[q].seen
  <2>1. requests[q] \in Request
    BY DEF RetryOK
  <2> QED
    BY <2>1 DEF Left, Request
<1>2. requests' \in [Requests -> Request]
  BY <1>1 DEF Left
<1>3. retry' \in [Recordings -> {"idle", "pending", "error"}]
  BY DEF RetryOK
<1>4. PendingOK'
  <2> SUFFICES ASSUME NEW r \in Recordings
               PROVE  retry'[r] = "pending" <=>
                      \E q \in Requests : requests'[q].rec = r /\ requests'[q].seen
    BY DEF PendingOK
  <2>1. CASE r \in S
    BY <2>1, <1>1 DEF RetryOK, PendingOK
  <2>2. CASE r \notin S
    <3>1. r # NoRec
      BY AdminCardAssumption
    <3> QED
      BY <2>2, <3>1, <1>1 DEF RetryOK
  <2> QED
    BY <2>1, <2>2
<1>5. OneRequestEach'
  <2>1. \A q \in Requests : requests'[q].seen => requests[q].seen
    BY <1>1
  <2> QED
    BY <2>1, <1>1 DEF RetryOK, OneRequestEach
<1>6. RequestsOK'
  <2> SUFFICES ASSUME NEW q \in Requests
               PROVE  IF requests'[q].stage = "free" THEN requests'[q] = NoRequest
                      ELSE requests'[q].rec # NoRec
    BY DEF RequestsOK
  <2>1. CASE requests[q].stage = "free"
    <3>1. requests[q] = NoRequest
      BY <2>1 DEF RetryOK, RequestsOK
    <3>2. requests[q].rec \in S \cup {NoRec}
      BY <3>1 DEF NoRequest
    <3> QED
      BY <3>1, <3>2, <2>1, <1>1
  <2>2. CASE requests[q].stage # "free"
    BY <2>2, <1>1 DEF RetryOK, RequestsOK
  <2> QED
    BY <2>1, <2>2
<1> QED
  BY <1>2, <1>3, <1>4, <1>5, <1>6 DEF RetryOK

----------------------------------------------------------------------------
(* The steps. *)

\* Initially no query has data, and nothing is in flight.
LEMMA InitOK == Init => IInv
<1> SUFFICES ASSUME Init PROVE IInv
  OBVIOUS
<1> USE DEF Init
<1>1. RetryOK
  <2>1. NoRequest \in Request /\ ~NoRequest.seen
    BY DEF Request, NoRequest
  <2>2. \A q \in Requests : requests[q] = NoRequest
    OBVIOUS
  <2>3. requests \in [Requests -> Request]
    BY <2>1
  <2> HIDE DEF Init
  <2>4. OneRequestEach
    <3>1. \A q \in Requests : ~requests[q].seen
      BY <2>1, <2>2
    <3> QED
      BY <3>1 DEF OneRequestEach
  <2>5. RequestsOK
    <3>1. \A q \in Requests : requests[q].stage = "free" => requests[q] = NoRequest
      BY <2>2
    <3>2. \A q \in Requests : requests[q].stage = "free"
      BY <2>2 DEF NoRequest
    <3> QED
      BY <3>1, <3>2 DEF RequestsOK
  <2>6. \A r \in Recordings : retry[r] = "idle"
    BY DEF Init
  <2>7. PendingOK
    BY <2>1, <2>2, <2>6 DEF PendingOK
  <2> QED
    BY <2>3, <2>4, <2>7, <2>5 DEF RetryOK, Init
<1>2. QueriesOK
  BY DEF QueriesOK, StatusQuery, FailedQuery, ExpandedIsMounted
<1>3. RetryIsShown
  BY DEF RetryIsShown
<1>4. RestOK
  BY DEF RestOK, RowStates, SaveOK, NotSaving
<1> QED
  BY <1>1, <1>2, <1>3, <1>4, Parts

\* The queries show what they showed and no button's request changes.
LEMMA ShowsTheSame ==
  ASSUME IInv, RestOK', UNCHANGED <<retry, requests, expanded>>,
         status' \in StatusQuery, failed' \in FailedQuery,
         status'.data = status.data, failed'.data = failed.data,
         failed'.err = failed.err
  PROVE  IInv'
<1>1. RetryOK /\ QueriesOK /\ RetryIsShown
  BY Parts
<1>2. QueriesOK' /\ \A r \in Recordings : RowShown(r)' <=> RowShown(r)
  BY <1>1, ScreenKept
<1>3. RetryOK'
  BY <1>1 DEF RetryOK, PendingOK, OneRequestEach, RequestsOK
<1>4. RetryIsShown'
  BY <1>1, <1>2 DEF RetryIsShown
<1> QED
  BY <1>2, <1>3, <1>4, Parts

\* The server's own steps do not reach the card.
LEMMA ServerStep ==
  ASSUME IInv, NEW r \in Recordings,
         \/ Claim(r) \/ ForceRetry(r) \/ Delete(r)
         \/ AttemptEnds(r, "synced") \/ AttemptEnds(r, "error")
  PROVE  IInv' /\ UNCHANGED <<retry, requests>>
<1>1. RestOK /\ QueriesOK
  BY Parts
<1>2. UNCHANGED <<status, failed, expanded, retry, requests>>
  BY DEF Claim, ForceRetry, Delete, AttemptEnds
<1>3. RestOK'
  <2> USE DEF RestOK, SaveOK, RowStates, formVars
  <2>1. CASE Claim(r)
    BY <1>1, <2>1 DEF Claim
  <2>2. CASE ForceRetry(r)
    BY <1>1, <2>2 DEF ForceRetry
  <2>3. CASE AttemptEnds(r, "synced") \/ AttemptEnds(r, "error")
    BY <1>1, <2>3 DEF AttemptEnds
  <2>4. CASE Delete(r)
    BY <1>1, <2>4 DEF Delete
  <2> QED
    BY <2>1, <2>2, <2>3, <2>4
<1> QED
  BY <1>1, <1>2, <1>3, ShowsTheSame DEF QueriesOK

\* An answer, or a failure, is on its way; the card has not seen it.
LEMMA AnswerStep ==
  ASSUME IInv, AnswerStatus \/ StatusFails \/ AnswerFailed \/ FailedFails
  PROVE  IInv' /\ UNCHANGED <<retry, requests>>
<1>1. RestOK /\ QueriesOK
  BY Parts
<1>2. UNCHANGED <<serverVars, expanded, retry, requests, run, formVars>>
  BY DEF AnswerStatus, StatusFails, AnswerFailed, FailedFails
<1>3. RestOK'
  BY <1>1, <1>2 DEF RestOK, SaveOK, serverVars, formVars
<1>4. /\ status' \in StatusQuery /\ failed' \in FailedQuery
      /\ status'.data = status.data /\ failed'.data = failed.data
      /\ failed'.err = failed.err
  <2>1. CASE AnswerStatus
    BY <1>1, <2>1, StatusNowOK DEF AnswerStatus, QueriesOK, StatusQuery
  <2>2. CASE AnswerFailed
    <3>1. (IF ready THEN ListNow ELSE Refused) \in List \cup {NoData, Refused}
      BY ListNowOK
    <3> QED
      BY <1>1, <2>2, <3>1 DEF AnswerFailed, QueriesOK, FailedQuery
  <2>3. CASE StatusFails
    <3>1. PICK answer \in {Refused, StatusUncounted} :
            status' = [status EXCEPT !.answer = answer]
      BY <2>3 DEF StatusFails
    <3>2. answer \in Status \cup {NoData, Refused}
      BY UncountedOK
    <3> QED
      BY <1>1, <2>3, <3>1, <3>2 DEF StatusFails, QueriesOK, StatusQuery
  <2>4. CASE FailedFails
    BY <1>1, <2>4 DEF FailedFails, QueriesOK, FailedQuery
  <2> QED
    BY <2>1, <2>2, <2>3, <2>4
<1> QED
  BY <1>2, <1>3, <1>4, ShowsTheSame

\* The form's steps, and those of Sync Now, invalidate the status at most.
LEMMA FormStep ==
  ASSUME IInv, NEW t \in Texts \cup {NoText}, NEW ok \in BOOLEAN,
         \/ ClickSyncNow \/ RunArrives \/ ToggleConnect
         \/ TypeConfig(t) \/ ClickSave \/ SaveArrives(ok)
  PROVE  IInv' /\ UNCHANGED <<retry, requests>>
<1>1. RestOK /\ QueriesOK
  BY Parts
<1>2. status' \in {status, Asked(status)} /\ UNCHANGED <<failed, expanded, retry, requests>>
  BY DEF ClickSyncNow, RunArrives, ToggleConnect, TypeConfig, ClickSave, SaveArrives
<1>3. status' \in StatusQuery /\ status'.data = status.data
  BY <1>1, <1>2, AskedStatusOK DEF QueriesOK
<1>4. RestOK'
  <2> USE DEF RestOK, SaveOK, serverVars, formVars
  <2>1. CASE ClickSyncNow
    BY <1>1, <2>1 DEF ClickSyncNow
  <2>2. CASE RunArrives
    BY <1>1, <2>2 DEF RunArrives
  <2>3. CASE ToggleConnect
    BY <1>1, <2>3 DEF ToggleConnect
  <2>4. CASE TypeConfig(t)
    BY <1>1, <2>4 DEF TypeConfig
  <2>5. CASE ClickSave
    BY <1>1, <2>5 DEF ClickSave
  <2>6. CASE SaveArrives(ok)
    BY <1>1, <2>6 DEF SaveArrives, NotSaving
  <2> QED
    BY <2>1, <2>2, <2>3, <2>4, <2>5, <2>6
<1> QED
  BY <1>1, <1>2, <1>3, <1>4, ShowsTheSame DEF QueriesOK

\* A row's answer ends its "Retrying..."; and only the row's own, or its leaving the
\* screen, does.
PendingEnds ==
  \A r \in Recordings :
    retry[r] = "pending" /\ retry'[r] # "pending" =>
      \/ ~RowShown(r)'
      \/ \E q \in Requests :
           /\ requests[q].rec = r /\ requests[q].seen
           /\ requests[q].stage \in {"accepted", "refused"}
           /\ requests'[q] = NoRequest

\* The status or the Failed Syncs arrive, or the section is folded: the rows that
\* are not shown any more are unmounted.
LEMMA ScreenStep ==
  ASSUME IInv, StatusArrives \/ FailedArrives \/ ToggleSection
  PROVE  IInv' /\ PendingEnds
<1> DEFINE S == IF SectionShown(status') /\ expanded' THEN Listed(failed') ELSE {}
<1>1. RetryOK /\ QueriesOK /\ RestOK
  BY Parts
<1>2. UNCHANGED <<serverVars, run, formVars>>
  BY DEF StatusArrives, FailedArrives, ToggleSection
<1>3. RestOK'
  BY <1>1, <1>2 DEF RestOK, SaveOK, serverVars, formVars
<1>4. /\ retry' = [r \in Recordings |-> IF r \in S THEN retry[r] ELSE "idle"]
      /\ requests' = Left(S)
  BY DEF StatusArrives, FailedArrives, ToggleSection, Unmount, Left
<1>5. S \in SUBSET Recordings
  BY DEF Listed
<1>6. \A r \in Recordings : RowShown(r)' <=> r \in S
  BY DEF RowShown
<1> HIDE DEF S
<1>7. RetryOK' /\ \A r \in Recordings : retry'[r] # "idle" => r \in S
  BY <1>1, <1>4, <1>5, UnmountOK
<1>8. RetryIsShown'
  BY <1>6, <1>7 DEF RetryIsShown
<1>9. QueriesOK'
  <2>1. CASE StatusArrives
    <3>1. status' \in StatusQuery
      <4> DEFINE d == IF status.answer = Refused THEN status.data ELSE status.answer
      <4>1. /\ status.data \in Status \cup {NoData}
            /\ status.answer \in Status \cup {NoData, Refused}
            /\ status.answer # NoData
        BY <1>1, <2>1 DEF StatusArrives, QueriesOK, StatusQuery
      <4>2. d \in Status \cup {NoData}
        BY <4>1
      <4>3. status' = [data |-> d, answer |-> NoData]
        BY <2>1 DEF StatusArrives
      <4> HIDE DEF d
      <4> QED
        BY <4>2, <4>3 DEF StatusQuery
    <3>2. SectionMounted(status') \in BOOLEAN
      BY <3>1 DEF SectionMounted, StatusQuery, Status
    <3> QED
      BY <1>1, <2>1, <3>1, <3>2 DEF StatusArrives, QueriesOK, ExpandedIsMounted
  <2>2. CASE FailedArrives
    <3>1. failed' \in FailedQuery
      <4>1. failed.answer \in List \cup {NoData, Refused} /\ failed.answer # NoData
        BY <1>1, <2>2 DEF FailedArrives, QueriesOK, FailedQuery
      <4>2. CASE failed.answer = Refused
        BY <1>1, <2>2, <4>2 DEF FailedArrives, QueriesOK, FailedQuery
      <4>3. CASE failed.answer # Refused
        BY <4>1, <2>2, <4>3 DEF FailedArrives, FailedQuery
      <4> QED
        BY <4>2, <4>3
    <3> QED
      BY <1>1, <2>2, <3>1 DEF FailedArrives, QueriesOK, ExpandedIsMounted
  <2>3. CASE ToggleSection
    BY <1>1, <2>3 DEF ToggleSection, QueriesOK, ExpandedIsMounted, SectionShown
  <2> QED
    BY <2>1, <2>2, <2>3
<1>10. PendingEnds
  BY <1>1, <1>4, <1>6 DEF PendingEnds
<1> QED
  BY <1>3, <1>7, <1>8, <1>9, <1>10, Parts

\* A click takes a free place for a row that waits for nothing.
LEMMA ClickStep ==
  ASSUME IInv, NEW r \in Recordings, ClickRetry(r)
  PROVE  IInv' /\ PendingEnds
<1> USE DEF ClickRetry
<1>1. RetryOK /\ QueriesOK /\ RetryIsShown /\ RestOK
  BY Parts
<1>2. PICK q \in Requests :
        /\ requests[q] = NoRequest
        /\ requests' = [requests EXCEPT ![q] =
                          [rec |-> r, stage |-> "sent", seen |-> TRUE]]
  OBVIOUS
<1> DEFINE v == [rec |-> r, stage |-> "sent", seen |-> TRUE]
<1>3. v \in Request /\ v.rec = r /\ v.seen /\ v.stage = "sent"
  BY DEF Request
<1>4. r # NoRec /\ retry[r] # "pending" /\ RowShown(r)
  BY AdminCardAssumption DEF RetryOffered
<1>5. /\ requests' \in [Requests -> Request]
      /\ requests'[q] = v
      /\ \A p \in Requests \ {q} : requests'[p] = requests[p]
  BY <1>1, <1>2, <1>3 DEF RetryOK
<1> HIDE DEF v
<1>6. /\ retry' \in [Recordings -> {"idle", "pending", "error"}]
      /\ retry'[r] = "pending"
      /\ \A s \in Recordings \ {r} : retry'[s] = retry[s]
  BY <1>1 DEF RetryOK
<1>7. ~requests[q].seen
  BY <1>2 DEF NoRequest
<1>8. \A p \in Requests : ~(requests[p].rec = r /\ requests[p].seen)
  BY <1>1, <1>4 DEF RetryOK, PendingOK
<1>9. PendingOK'
  <2>1. ASSUME NEW s \in Recordings
        PROVE  retry'[s] = "pending" <=>
               \E p \in Requests : requests'[p].rec = s /\ requests'[p].seen
    <3>1. CASE s = r
      BY <3>1, <1>3, <1>5, <1>6
    <3>2. CASE s # r
      BY <3>2, <1>1, <1>3, <1>5, <1>6, <1>7 DEF RetryOK, PendingOK
    <3> QED
      BY <3>1, <3>2
  <2> QED
    BY <2>1 DEF PendingOK
<1>10. OneRequestEach'
  BY <1>1, <1>3, <1>5, <1>8 DEF RetryOK, OneRequestEach
<1>11. RequestsOK'
  BY <1>1, <1>3, <1>4, <1>5 DEF RetryOK, RequestsOK
<1>12. QueriesOK' /\ \A s \in Recordings : RowShown(s)' <=> RowShown(s)
  BY <1>1, ScreenKept DEF QueriesOK
<1>13. RetryIsShown'
  BY <1>1, <1>4, <1>6, <1>12 DEF RetryIsShown
<1>14. RestOK'
  BY <1>1 DEF RestOK, SaveOK, serverVars, formVars
<1>15. PendingEnds
  BY <1>6 DEF PendingEnds
<1>16. RetryOK'
  BY <1>5, <1>6, <1>9, <1>10, <1>11 DEF RetryOK
<1> QED
  BY <1>12, <1>13, <1>14, <1>15, <1>16, Parts

\* The server answers a request; who sent it does not change.
LEMMA AnswerRetryStep ==
  ASSUME IInv, NEW q \in Requests, AnswerRetry(q)
  PROVE  IInv' /\ UNCHANGED retry
<1>1. RetryOK /\ QueriesOK /\ RetryIsShown /\ RestOK
  BY Parts
<1>2. PICK taken \in BOOLEAN, stage \in {"accepted", "refused"} :
        /\ requests[q].stage = "sent"
        /\ requests' = [requests EXCEPT ![q].stage = stage]
        /\ forced' = IF taken THEN forced \cup {requests[q].rec} ELSE forced
        /\ UNCHANGED <<row, deleted, ready, status, failed, expanded, retry, run,
                       formVars>>
  BY DEF AnswerRetry
<1>3. stage \in {"accepted", "refused"}
  OBVIOUS
<1>4. requests[q] \in Request /\ requests[q].rec # NoRec
  BY <1>1, <1>2 DEF RetryOK, RequestsOK
<1>5. requests[q].rec \in Recordings
  BY <1>4 DEF Request
<1>6. /\ requests' \in [Requests -> Request]
      /\ requests'[q].stage = stage
      /\ \A p \in Requests : /\ requests'[p].rec = requests[p].rec
                             /\ requests'[p].seen = requests[p].seen
      /\ \A p \in Requests \ {q} : requests'[p] = requests[p]
  BY <1>1, <1>2, <1>3, <1>4 DEF RetryOK, Request
<1>7. PendingOK'
  BY <1>1, <1>2, <1>6 DEF RetryOK, PendingOK
<1>8. OneRequestEach'
  BY <1>1, <1>6 DEF RetryOK, OneRequestEach
<1>9. RequestsOK'
  BY <1>1, <1>3, <1>4, <1>6 DEF RetryOK, RequestsOK
<1>10. QueriesOK' /\ \A s \in Recordings : RowShown(s)' <=> RowShown(s)
  BY <1>1, <1>2, ScreenKept DEF QueriesOK
<1>11. RetryIsShown'
  BY <1>1, <1>2, <1>10 DEF RetryIsShown
<1>12. RestOK'
  BY <1>1, <1>2, <1>5 DEF RestOK, SaveOK, formVars
<1>13. RetryOK'
  BY <1>1, <1>2, <1>6, <1>7, <1>8, <1>9 DEF RetryOK
<1> QED
  BY <1>2, <1>10, <1>11, <1>12, <1>13, Parts

\* An answer arrives: its place is free, and a row that is still there waits no more.
LEMMA ArrivesStep ==
  ASSUME IInv, NEW q \in Requests, RetryArrives(q)
  PROVE  IInv' /\ PendingEnds
<1> DEFINE r == requests[q].rec
           after == IF requests[q].stage = "accepted" THEN "idle" ELSE "error"
<1>1. RetryOK /\ QueriesOK /\ RetryIsShown /\ RestOK
  BY Parts
<1>2. /\ requests[q].stage \in {"accepted", "refused"}
      /\ failed' \in {failed, Asked(failed)}
      /\ status' \in {status, Asked(status)}
      /\ retry' = IF requests[q].seen THEN [retry EXCEPT ![r] = after] ELSE retry
      /\ requests' = [requests EXCEPT ![q] = NoRequest]
      /\ UNCHANGED <<serverVars, expanded, run, formVars>>
  BY DEF RetryArrives
<1>3. after \in {"idle", "error"}
  OBVIOUS
<1>4. requests[q] \in Request /\ r # NoRec
  BY <1>1, <1>2 DEF RetryOK, RequestsOK
<1>5. r \in Recordings
  BY <1>4 DEF Request
<1>6. NoRequest \in Request /\ ~NoRequest.seen /\ NoRequest.stage = "free"
  BY DEF NoRequest, Request
<1>7. /\ requests' \in [Requests -> Request]
      /\ requests'[q] = NoRequest
      /\ \A p \in Requests \ {q} : requests'[p] = requests[p]
  BY <1>1, <1>2, <1>6 DEF RetryOK
<1> HIDE DEF after
<1>8. /\ retry' \in [Recordings -> {"idle", "pending", "error"}]
      /\ requests[q].seen => retry'[r] = after
      /\ \A s \in Recordings : ~requests[q].seen \/ s # r => retry'[s] = retry[s]
  BY <1>1, <1>2, <1>3, <1>5 DEF RetryOK
<1>9. PendingOK'
  <2>1. ASSUME NEW s \in Recordings
        PROVE  retry'[s] = "pending" <=>
               \E p \in Requests : requests'[p].rec = s /\ requests'[p].seen
    <3>1. CASE requests[q].seen /\ s = r
      <4>1. \A p \in Requests \ {q} : ~(requests[p].rec = s /\ requests[p].seen)
        BY <1>1, <3>1 DEF RetryOK, OneRequestEach
      <4> QED
        BY <3>1, <4>1, <1>3, <1>6, <1>7, <1>8
    <3>2. CASE ~(requests[q].seen /\ s = r)
      BY <3>2, <1>1, <1>6, <1>7, <1>8 DEF RetryOK, PendingOK
    <3> QED
      BY <3>1, <3>2
  <2> QED
    BY <2>1 DEF PendingOK
<1>10. OneRequestEach'
  BY <1>1, <1>6, <1>7 DEF RetryOK, OneRequestEach
<1>11. RequestsOK'
  BY <1>1, <1>6, <1>7 DEF RetryOK, RequestsOK
<1>12. /\ status' \in StatusQuery /\ failed' \in FailedQuery
       /\ status'.data = status.data /\ failed'.data = failed.data
       /\ failed'.err = failed.err /\ expanded' = expanded
  BY <1>1, <1>2, AskedStatusOK, AskedFailedOK DEF QueriesOK
<1>13. QueriesOK' /\ \A s \in Recordings : RowShown(s)' <=> RowShown(s)
  BY <1>1, <1>12, ScreenKept
<1>14. RetryIsShown'
  <2>1. requests[q].seen => retry[r] = "pending"
    BY <1>1, <1>5 DEF RetryOK, PendingOK
  <2> QED
    BY <1>1, <1>8, <1>13, <2>1 DEF RetryIsShown
<1>15. RestOK'
  BY <1>1, <1>2 DEF RestOK, SaveOK, serverVars, formVars
<1>16. PendingEnds
  BY <1>2, <1>7, <1>8 DEF PendingEnds
<1>17. RetryOK'
  BY <1>7, <1>8, <1>9, <1>10, <1>11 DEF RetryOK
<1> QED
  BY <1>13, <1>14, <1>15, <1>16, <1>17, Parts

\* Every step, and a stutter.
LEMMA Step ==
  ASSUME IInv, [Next]_vars
  PROVE  IInv' /\ PendingEnds
<1>1. CASE UNCHANGED vars
  <2>1. UNCHANGED <<retry, requests, expanded, status, failed>>
    BY <1>1 DEF vars
  <2>2. RestOK /\ QueriesOK
    BY Parts
  <2>3. RestOK'
    BY <1>1, <2>2 DEF RestOK, SaveOK, vars, serverVars, formVars
  <2> QED
    BY <2>1, <2>2, <2>3, ShowsTheSame DEF QueriesOK, PendingEnds
<1>2. CASE Next
  <2>1. ASSUME NEW r \in Recordings,
               \/ Claim(r) \/ ForceRetry(r) \/ Delete(r)
               \/ AttemptEnds(r, "synced") \/ AttemptEnds(r, "error")
        PROVE  IInv' /\ PendingEnds
    BY <2>1, ServerStep DEF PendingEnds
  <2>2. CASE ReadinessChanges
    <3>1. UNCHANGED <<status, failed, expanded, retry, requests>>
      BY <2>2 DEF ReadinessChanges
    <3>2. RestOK /\ QueriesOK
      BY Parts
    <3>3. RestOK'
      BY <2>2, <3>2 DEF ReadinessChanges, RestOK, SaveOK, formVars
    <3> QED
      BY <3>1, <3>2, <3>3, ShowsTheSame DEF QueriesOK, PendingEnds
  <2>3. CASE AnswerStatus \/ StatusFails \/ AnswerFailed \/ FailedFails
    BY <2>3, AnswerStep DEF PendingEnds
  <2>4. CASE StatusArrives \/ FailedArrives \/ ToggleSection
    BY <2>4, ScreenStep
  <2>5. ASSUME NEW r \in Recordings, ClickRetry(r)
        PROVE  IInv' /\ PendingEnds
    BY <2>5, ClickStep
  <2>6. ASSUME NEW q \in Requests, AnswerRetry(q)
        PROVE  IInv' /\ PendingEnds
    BY <2>6, AnswerRetryStep DEF PendingEnds
  <2>7. ASSUME NEW q \in Requests, RetryArrives(q)
        PROVE  IInv' /\ PendingEnds
    BY <2>7, ArrivesStep
  <2>8. ASSUME NEW t \in Texts \cup {NoText}, NEW ok \in BOOLEAN,
               \/ ClickSyncNow \/ RunArrives \/ ToggleConnect
               \/ TypeConfig(t) \/ ClickSave \/ SaveArrives(ok)
        PROVE  IInv' /\ PendingEnds
    BY <2>8, FormStep DEF PendingEnds
  <2>9. NoText \in Texts \cup {NoText} /\ TRUE \in BOOLEAN
    OBVIOUS
  <2> QED
    BY <1>2, <2>1, <2>2, <2>3, <2>4, <2>5, <2>6, <2>7, <2>8, <2>9 DEF Next
<1> QED
  BY <1>1, <1>2

----------------------------------------------------------------------------
(* What the card guarantees. *)

\* The card's invariant (CloudSyncCard.tsx:44-136): a request in flight that its row
\* still waits for is one per row, and only rows of the screen wait or show an error.
THEOREM Inductive == Spec => []IInv
<1>1. IInv /\ [Next]_vars => IInv'
  BY Step
<1> QED
  BY InitOK, <1>1, PTL DEF Spec

\* The types, and that a row is pending exactly while its request is in flight
\* (CloudSyncCard.tsx:44-84).
THEOREM TypesHold == Spec => []TypeOK
<1>1. IInv => TypeOK
  BY DEF IInv
<1> QED
  BY Inductive, <1>1, PTL

\* "Retrying..." ends with the answer to the row's own request, or because the row
\* has left the screen (CloudSyncCard.tsx:44-84).
THEOREM PendingEndsProperly == Spec => PendingEndsWithAnswer
<1>1. IInv /\ [Next]_vars => PendingEnds
  BY Step
<1>2. PendingEnds =>
        \A r \in Recordings :
          retry[r] = "pending" /\ retry'[r] # "pending" =>
            \/ ~RowShown(r)'
            \/ \E q \in Requests :
                 /\ requests[q].rec = r /\ requests[q].seen
                 /\ requests[q].stage \in {"accepted", "refused"}
                 /\ requests'[q] = NoRequest
  BY DEF PendingEnds
<1> QED
  BY Inductive, <1>1, <1>2, PTL DEF Spec, PendingEndsWithAnswer

=============================================================================
