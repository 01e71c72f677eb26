--------------------------- MODULE RecordingPage ---------------------------
(***************************************************************************)
(* The recording page of one user: RecordingDetail with its comments,      *)
(* songs and shares, the Edit and Share dialogs and the query cache they   *)
(* share.  Every form there is one machine - typed into, sent, answered,   *)
(* perhaps after its form is gone - that differs in what is locked while   *)
(* the request is in flight and in what its success does; every mutation   *)
(* restarts the query of its list or, the Edit dialog, writes it.  The     *)
(* server and TanStack Query are external.                                 *)
(***************************************************************************)
EXTENDS Integers, FiniteSets

CONSTANTS
  Ids,          \* comments, songs and shares that can exist of a kind (bound)
  Recording,    \* the recording, as the one item of its query
  Texts, NoText,
  Unlabelled,   \* what a share without a label is stored as
  NoItem,
  NoData,
  Requests,     \* mutations in flight at once (bound)
  MaxTimers,    \* resets of the Share dialog due at once (bound)
  MaxChanges    \* mutations, another user's renames, lost pages (bound)

ASSUME RecordingPageAssumption ==
  /\ IsFiniteSet(Ids) /\ Recording \notin Ids
  /\ {NoText, Unlabelled} \cap Texts = {} /\ NoText # Unlabelled
  /\ NoItem \notin Ids \cup {Recording}
  /\ MaxChanges \in Nat /\ MaxTimers \in Nat

VARIABLES
  stored,     \* server: the rows of each kind
  done,       \* server: processing_step is complete
  query,      \* useComments, useSongs, useRecordingShares, useRecording
  form,       \* the forms
  dialog,     \* ShareDialog's link and timers
  requests,   \* mutations in flight
  panel,      \* what the visit is for (bound: one of Panels)
  changes

vars == <<stored, done, query, form, dialog, requests, panel, changes>>

Lists == {"comments", "songs", "shares"}
Kinds == Lists \cup {"recording"}
Panels == {"comments", "songs", "shares", "recording"}
Items == Ids \cup {Recording}
Text == Texts \cup {NoText, Unlabelled}
Rows == [Items -> Text]
Data == [rows : Rows, done : BOOLEAN]

\* The absence of data is no data.
ASSUME NoDataAssumption == NoData \notin Data

\* missed: the data were read before a change that does not have them read again;
\* err: of the recording, isError.
Query == [data : Data \cup {NoData}, answer : Data \cup {NoData},
          fetch : {"idle", "asked", "answered"}, missed : BOOLEAN, err : BOOLEAN]

\* post, reply: CommentForm; edit: CommentItem; marker, song: SongMarkerForm;
\* share: ShareDialog; title: RecordingEditDialog.
Forms == {"post", "reply", "edit", "marker", "song", "share", "title"}
KindOf(f) ==
  CASE f \in {"post", "reply", "edit"} -> "comments"
    [] f \in {"marker", "song"} -> "songs"
    [] f = "share" -> "shares"
    [] f = "title" -> "recording"

\* touched: of the Edit dialog, typed into since it was last filled.
Form == [open : BOOLEAN, target : Items \cup {NoItem}, text : Text, touched : BOOLEAN]

\* live: the form that sent it still listens.
Request == [form : Forms \cup {"none"}, kind : Kinds, item : Items \cup {NoItem},
            text : Text, live : BOOLEAN,
            stage : {"free", "sent", "accepted", "refused"}, done : BOOLEAN]
NoRequest == [form |-> "none", kind |-> "recording", item |-> NoItem,
              text |-> NoText, live |-> FALSE, stage |-> "free", done |-> FALSE]

\* clicked: Create Link was clicked since the form was last reset.
Dialog == [link : BOOLEAN, clicked : BOOLEAN, timers : 0..MaxTimers]
NoDialog == [link |-> FALSE, clicked |-> FALSE, timers |-> 0]

\* isPending of a form, or of an item's Delete.
Sent(f) == {q \in Requests : requests[q].form = f /\ requests[q].live}
Pending(f) == Sent(f) # {}
Deleting(k, i) ==
  \E q \in Requests :
    /\ requests[q].form = "none" /\ requests[q].live
    /\ requests[q].kind = k /\ requests[q].item = i

\* The recording's query has data from the start, and an answer is there exactly
\* while it is on its way.
Typed ==
  /\ stored \in [Kinds -> Rows]
  /\ done \in BOOLEAN
  /\ query \in [Kinds -> Query]
  /\ query["recording"].data # NoData
  /\ \A k \in Kinds : query[k].fetch = "answered" <=> query[k].answer # NoData
  /\ form \in [Forms -> Form]
  /\ dialog \in Dialog
  /\ requests \in [Requests -> Request]
  /\ panel \in Panels
  /\ changes \in 0..MaxChanges

\* Types; and a form never waits for two answers at once.
TypeOK ==
  /\ Typed
  /\ \A f \in Forms : Cardinality(Sent(f)) <= 1

Shown(k) == query[k].data.rows
Present(rows) == {i \in Items : rows[i] # NoText}
Listed(k) == {i \in Ids : query[k].data # NoData /\ Shown(k)[i] # NoText}

\* RecordingPage renders RecordingDetail, and not "Recording not found".
Mounted == ~query["recording"].err

ClosedForm == [open |-> FALSE, target |-> NoItem, text |-> NoText, touched |-> FALSE]
TitleForm(rows) ==
  [open |-> FALSE, target |-> Recording, text |-> rows[Recording], touched |-> FALSE]

\* The forms of a RecordingDetail that is mounted, and of one that is not.
FormsOf(rows, mounted) ==
  [f \in Forms |->
    IF f = "title" THEN TitleForm(rows)
    ELSE [ClosedForm EXCEPT !.open = (f = "post" /\ mounted)]]

Empty == [i \in Items |-> NoText]
Asking == [data |-> NoData, answer |-> NoData, fetch |-> "asked", missed |-> FALSE,
           err |-> FALSE]
\* What the server answers; only a recording has a processing step.
Now(k) == [rows |-> stored[k], done |-> k = "recording" /\ done]
Loaded(k) == [data |-> Now(k), answer |-> NoData,
              fetch |-> "idle", missed |-> FALSE, err |-> FALSE]

\* The visit begins when RecordingPage renders the detail: its query has answered; a
\* list may be loading still.  The list of the visit has an item to work on.
Init ==
  /\ panel \in Panels
  /\ done \in BOOLEAN
  /\ \E t \in Texts, i \in Ids :
       stored = [k \in Kinds |->
         IF k = "recording" THEN [Empty EXCEPT ![Recording] = t]
         ELSE IF k = panel THEN [Empty EXCEPT ![i] = t] ELSE Empty]
  /\ \E loading \in SUBSET (Lists \cap {panel}) :
       query = [k \in Kinds |-> IF k \in loading THEN Asking ELSE Loaded(k)]
  /\ form = FormsOf(stored["recording"], TRUE)
  /\ dialog = NoDialog
  /\ requests = [q \in Requests |-> NoRequest]
  /\ changes = 0

----------------------------------------------------------------------------
\* Queries.

\* Polled every two seconds, also after an error, until the data it has say that
\* the recording is complete.
Poll ==
  LET q == query["recording"] IN
  /\ q.fetch = "idle" /\ ~q.data.done
  /\ query' = [query EXCEPT !["recording"] = [@ EXCEPT !.fetch = "asked", !.missed = FALSE]]
  /\ UNCHANGED <<stored, done, form, dialog, requests, panel, changes>>

Answer(k) ==
  /\ query[k].fetch = "asked"
  /\ query' = [query EXCEPT ![k] =
       [@ EXCEPT !.fetch = "answered", !.answer = Now(k)]]
  /\ UNCHANGED <<stored, done, form, dialog, requests, panel, changes>>

\* Bug form: the dialog is filled once.
RefilledOnce(forms, k, data) ==
  [f \in Forms |->
    IF KindOf(f) = k /\ k # "recording" /\ forms[f].target \in Ids \ Present(data.rows)
    THEN ClosedForm ELSE forms[f]]

\* A comment or song that is gone takes its forms with it; the Edit dialog is
\* filled again whenever the recording has changed.
Refilled(forms, k, data) ==
  [f \in Forms |->
    IF KindOf(f) = k /\ k # "recording" /\ forms[f].target \in Ids \ Present(data.rows)
    THEN ClosedForm
    ELSE IF f = "title" /\ k = "recording" /\ query[k].data # data
    THEN [forms[f] EXCEPT !.text = data.rows[Recording], !.touched = FALSE]
    ELSE forms[f]]

\* The requests of forms that were closed go on unheard.
Heard(reqs, forms) ==
  [q \in Requests |->
    IF reqs[q].form \in Forms \ {"share", "title"} /\ ~forms[reqs[q].form].open
    THEN [reqs[q] EXCEPT !.live = FALSE] ELSE reqs[q]]

\* A component that mounts has its query's data read, as they are stale at once,
\* but joins a fetch in flight.
Remounted(q) ==
  IF q.fetch = "idle" THEN [q EXCEPT !.fetch = "asked", !.missed = FALSE] ELSE q

\* Data of the recording bring RecordingDetail back, and its lists are read again
\* (bound: the one the visit is for; the others do not change during it).
WithLists(queries) ==
  IF Mounted \/ queries["recording"].err THEN queries
  ELSE [k \in Kinds |->
         IF k \in Lists /\ k = panel THEN Remounted(queries[k]) ELSE queries[k]]

Arrive(k) ==
  /\ query[k].fetch = "answered"
  /\ query' = WithLists([query EXCEPT ![k] =
       [@ EXCEPT !.fetch = "idle", !.data = query[k].answer, !.answer = NoData,
                 !.err = FALSE]])
  /\ form' = IF k = "recording" /\ ~Mounted THEN FormsOf(query[k].answer.rows, TRUE)
             ELSE Refilled(form, k, query[k].answer)
  /\ requests' = Heard(requests, form')
  /\ UNCHANGED <<stored, done, dialog, panel, changes>>

\* A fetch that fails leaves the data it should have replaced.  Of the recording it
\* takes the whole detail off the page, and what was typed and waited for there.
Lose(k) ==
  /\ query[k].fetch # "idle"
  /\ query' = [query EXCEPT ![k] =
       [@ EXCEPT !.fetch = "idle", !.answer = NoData, !.missed = TRUE,
                 !.err = (k = "recording")]]
  /\ IF k = "recording"
     THEN /\ changes < MaxChanges
          /\ changes' = changes + 1
          /\ form' = FormsOf(Shown("recording"), FALSE)
          /\ dialog' = NoDialog
          /\ requests' = [q \in Requests |-> [requests[q] EXCEPT !.live = FALSE]]
     ELSE UNCHANGED <<form, dialog, requests, changes>>
  /\ UNCHANGED <<stored, done, panel>>

\* invalidateQueries drops a fetch in flight and sends it again, but joins the
\* first one.  A list nobody shows is left alone.
Invalidated(k) ==
  LET q == query[k] IN
  IF (q.fetch # "idle" /\ q.data = NoData) \/ (k \in Lists /\ ~Mounted)
  THEN [q EXCEPT !.missed = @ \/ q.fetch # "asked"]
  ELSE [q EXCEPT !.fetch = "asked", !.answer = NoData, !.missed = FALSE]

\* setQueryData leaves a fetch in flight alone, and does not ask which is newer.
Written(q, data) ==
  [q EXCEPT !.data = data, !.err = FALSE,
            !.missed = @ \/ q.fetch = "answered" \/ data.rows # stored["recording"]]

\* Another user renames the recording.
Rename(t) ==
  /\ changes < MaxChanges
  /\ changes' = changes + 1
  /\ stored' = [stored EXCEPT !["recording"][Recording] = t]
  /\ query' = IF query["recording"].fetch = "asked" THEN query
              ELSE [query EXCEPT !["recording"] = [@ EXCEPT !.missed = TRUE]]
  /\ UNCHANGED <<done, form, dialog, requests, panel>>

Finish ==
  /\ ~done
  /\ done' = TRUE
  /\ UNCHANGED <<stored, query, form, dialog, requests, panel, changes>>

----------------------------------------------------------------------------
\* Forms.

\* Bound: of a tab's forms that open, one is open at a time, and none before the
\* tab's list is there.
Alone(f) == \A g \in Forms \ {f, "post"} : KindOf(g) = KindOf(f) => ~form[g].open

Fresh(i, t) == [open |-> TRUE, target |-> i, text |-> t, touched |-> FALSE]

OpenAs(f, contents) ==
  /\ Mounted
  /\ KindOf(f) = panel /\ query[panel].data # NoData
  /\ Alone(f)
  /\ form' = [form EXCEPT ![f] = contents]
  /\ UNCHANGED <<stored, done, query, dialog, panel, changes>>

OpenReply(i) ==
  /\ ~form["reply"].open /\ i \in Listed("comments")
  /\ OpenAs("reply", Fresh(i, NoText))
  /\ UNCHANGED requests

\* editContent is what the comment said when its item was mounted, or what was
\* typed and kept since: any text.
OpenEdit(i, t) ==
  /\ ~form["edit"].open /\ i \in Listed("comments")
  /\ ~Deleting("comments", i)
  /\ OpenAs("edit", Fresh(i, t))
  /\ UNCHANGED requests

OpenMarker ==
  /\ ~form["marker"].open
  /\ OpenAs("marker", Fresh(NoItem, NoText))
  /\ UNCHANGED requests

\* The form of another song takes the place of one that is open.
OpenSong(i) ==
  /\ i \in Listed("songs") /\ form["song"].target # i
  /\ OpenAs("song", Fresh(i, Shown("songs")[i]))
  /\ requests' = [q \in Requests |->
       IF requests[q].form = "song" THEN [requests[q] EXCEPT !.live = FALSE]
       ELSE requests[q]]

\* The dialogs hold what they held when they were closed.
OpenShare ==
  /\ ~form["share"].open
  /\ OpenAs("share", Fresh(NoItem, form["share"].text))
  /\ UNCHANGED requests

OpenTitle ==
  /\ ~form["title"].open
  /\ OpenAs("title", [form["title"] EXCEPT !.open = TRUE])
  /\ UNCHANGED requests

\* The fields of a form.
Holds(f, t) ==
  /\ form[f].open /\ KindOf(f) = panel
  /\ form' = [form EXCEPT ![f] = [@ EXCEPT !.text = t, !.touched = (f = "title")]]
  /\ UNCHANGED <<stored, done, query, dialog, requests, panel, changes>>

\* CommentForm and CommentItem lock what they send until it is answered.
TypeComment(f, t) == f \in {"post", "reply"} /\ ~Pending(f) /\ Holds(f, t)
TypeEdit(t) == ~Pending("edit") /\ Holds("edit", t)

\* SongMarkerForm and the dialogs do not.
TypeMarker(f, t) == f \in {"marker", "song"} /\ Holds(f, t)
TypeShare(t) == ~dialog.link /\ Holds("share", t)
TypeTitle(t) == Holds("title", t)

CloseAs(f, contents) ==
  /\ form[f].open /\ KindOf(f) = panel
  /\ form' = [form EXCEPT ![f] = contents]
  /\ requests' = Heard(requests, form')
  /\ UNCHANGED <<stored, done, query, panel, changes>>

\* Cancel is disabled while the request is in flight, but Reply toggles its form.
CloseReply == CloseAs("reply", ClosedForm) /\ UNCHANGED dialog
CancelEdit == ~Pending("edit") /\ CloseAs("edit", ClosedForm) /\ UNCHANGED dialog
CancelMarker(f) ==
  /\ f \in {"marker", "song"} /\ ~Pending(f)
  /\ CloseAs(f, ClosedForm)
  /\ UNCHANGED dialog

\* The Edit dialog keeps its fields; the Share dialog resets 300 ms later.
CloseTitle ==
  CloseAs("title", [form["title"] EXCEPT !.open = FALSE]) /\ UNCHANGED dialog
CloseShare ==
  /\ CloseAs("share", [form["share"] EXCEPT !.open = FALSE])
  /\ dialog.timers < MaxTimers
  /\ dialog' = [dialog EXCEPT !.timers = @ + 1]

\* Bug form: createMutation is not reset.
ResetFieldsOnly ==
  /\ dialog.timers > 0
  /\ form' = [form EXCEPT !["share"].text = NoText]
  /\ dialog' = [link |-> FALSE, clicked |-> FALSE, timers |-> dialog.timers - 1]
  /\ UNCHANGED <<stored, done, query, requests, panel, changes>>

\* A timer of handleOpenChange: the fields, the link and the mutation, of a dialog
\* that may be open again.
Reset ==
  /\ dialog.timers > 0
  /\ form' = [form EXCEPT !["share"].text = NoText]
  /\ dialog' = [link |-> FALSE, clicked |-> FALSE, timers |-> dialog.timers - 1]
  /\ requests' = [q \in Requests |->
       IF requests[q].form = "share" THEN [requests[q] EXCEPT !.live = FALSE]
       ELSE requests[q]]
  /\ UNCHANGED <<stored, done, query, panel, changes>>

\* Another tab, and back: what is inside a tab is mounted afresh, and has its list
\* read again if it uses the list's query itself.
SwitchTab ==
  /\ Mounted /\ panel \in Lists
  /\ form' = [f \in Forms |->
       IF KindOf(f) # panel \/ f = "share" THEN form[f]
       ELSE [ClosedForm EXCEPT !.open = (f = "post")]]
  /\ requests' = [q \in Requests |->
       IF requests[q].kind = panel /\ requests[q].form # "share"
       THEN [requests[q] EXCEPT !.live = FALSE] ELSE requests[q]]
  /\ query' = [k \in Kinds |->
       IF k = panel /\ k \in {"songs", "shares"} THEN Remounted(query[k]) ELSE query[k]]
  /\ UNCHANGED <<stored, done, dialog, panel, changes>>

----------------------------------------------------------------------------
\* Mutations.

Send(q, f, k, i, t) ==
  /\ requests[q] = NoRequest
  /\ changes < MaxChanges
  /\ changes' = changes + 1
  /\ requests' = [requests EXCEPT ![q] =
       [form |-> f, kind |-> k, item |-> i, text |-> t, live |-> TRUE,
        stage |-> "sent", done |-> FALSE]]

\* Bug form: the button is not disabled while the request is in flight.
SubmitAgain(q, f) ==
  /\ form[f].open /\ KindOf(f) = panel
  /\ Send(q, f, KindOf(f), form[f].target, form[f].text)
  /\ UNCHANGED <<stored, done, query, form, panel>>

\* The button of a form is disabled while its request is in flight.
Submit(q, f) ==
  /\ form[f].open /\ KindOf(f) = panel
  /\ ~Pending(f)
  /\ Send(q, f, KindOf(f), form[f].target, form[f].text)
  /\ UNCHANGED <<stored, done, query, form, panel>>

\* A blank comment or song is not sent.
PostComment(q, f) ==
  /\ f \in {"post", "reply"} /\ form[f].text # NoText
  /\ Submit(q, f)
  /\ UNCHANGED dialog

Unchanged == form["edit"].text = Shown("comments")[form["edit"].target]

UpdateComment(q) ==
  /\ form["edit"].open /\ form["edit"].text # NoText /\ ~Unchanged
  /\ Submit(q, "edit")
  /\ UNCHANGED dialog

\* handleUpdate sends nothing when nothing was changed.
EditUnchanged ==
  LET e == form["edit"] IN
  /\ e.open /\ ~Pending("edit")
  /\ Unchanged
  /\ form' = [form EXCEPT !["edit"] = ClosedForm]
  /\ UNCHANGED <<stored, done, query, dialog, requests, panel, changes>>

SaveMarker(q, f) ==
  /\ f \in {"marker", "song"} /\ form[f].text # NoText
  /\ Submit(q, f)
  /\ UNCHANGED dialog

\* A share needs no label.
CreateShare(q) ==
  /\ ~dialog.link
  /\ Submit(q, "share")
  /\ dialog' = [dialog EXCEPT !.clicked = TRUE]

\* The Edit dialog sends what it holds.
SaveTitle(q) == Submit(q, "title") /\ UNCHANGED dialog

Erase(q, i) ==
  /\ Mounted
  /\ i \in Listed(panel)
  /\ Send(q, "none", panel, i, NoText)
  /\ UNCHANGED <<stored, done, query, form, dialog, panel>>

\* A comment's or a share's own Delete is disabled while it is sent;
\* SongMarkerList's one mutation serves all songs.  What is being edited has no
\* Delete.
DeleteComment(q, i) ==
  /\ panel = "comments" /\ ~Deleting("comments", i)
  /\ ~(form["edit"].open /\ form["edit"].target = i)
  /\ Erase(q, i)
DeleteSong(q, i) ==
  /\ panel = "songs"
  /\ ~(form["song"].open /\ form["song"].target = i)
  /\ Erase(q, i)
DeleteShare(q, i) ==
  /\ panel = "shares" /\ ~Deleting("shares", i)
  /\ Erase(q, i)

\* A badge of the Edit dialog: the tag is attached, and what is stored under
\* "recordings" is invalidated.
ToggleTag(q) ==
  /\ panel = "recording" /\ form["title"].open
  /\ Send(q, "none", "recording", NoItem, NoText)
  /\ UNCHANGED <<stored, done, query, form, dialog, panel>>

\* The server stores a new row, an update of one that exists, or a deletion; the
\* songs' Delete names no song and is refused, as anything may be.
New(r) == r.form \in {"post", "reply", "marker", "share"}
Acceptable(r) ==
  \/ New(r) /\ \E i \in Ids : stored[r.kind][i] = NoText
  \/ ~New(r) /\ r.item = NoItem
  \/ /\ ~New(r) /\ r.item \in Present(stored[r.kind])
     /\ ~(r.kind = "songs" /\ r.form = "none")
  \/ r.form = "title"

RowOf(r) == IF New(r) /\ r.text = NoText THEN Unlabelled ELSE r.text

Store(q) ==
  LET r == requests[q] IN
  /\ r.stage = "sent" /\ Acceptable(r)
  /\ \E i \in Items :
       /\ IF New(r) THEN i \in Ids /\ stored[r.kind][i] = NoText
          ELSE i = IF r.item = NoItem THEN Recording ELSE r.item
       /\ stored' = IF r.item = NoItem /\ ~New(r) THEN stored
                    ELSE [stored EXCEPT ![r.kind][i] = RowOf(r)]
  /\ requests' = [requests EXCEPT ![q] = [@ EXCEPT !.stage = "accepted", !.done = done]]
  /\ UNCHANGED <<done, query, form, dialog, panel, changes>>

Refuse(q) ==
  /\ requests[q].stage = "sent"
  /\ requests' = [requests EXCEPT ![q].stage = "refused"]
  /\ UNCHANGED <<stored, done, query, form, dialog, panel, changes>>

\* A mutation that failed changes nothing on the page but a message.
Fail(q) ==
  /\ requests[q].stage = "refused"
  /\ requests' = [requests EXCEPT ![q] = NoRequest]
  /\ UNCHANGED <<stored, done, query, form, dialog, panel, changes>>

\* What the mutations invalidate: the comments, songs and shares their own list,
\* a tag everything under "recordings", the comments excepted.
CommentStales == {"comments"}
SongStales == {"songs"}
ShareStales == {"shares"}
TagStales == {"recording", "songs", "shares"}
Stales(r) ==
  CASE r.kind = "comments" -> CommentStales
    [] r.kind = "songs" -> SongStales
    [] r.kind = "shares" -> ShareStales
    [] OTHER -> TagStales

\* The Edit dialog writes what the server returned.
TitleWritten(r) ==
  WithLists([query EXCEPT !["recording"] =
     Written(@, [rows |-> [Shown("recording") EXCEPT ![Recording] = r.text],
                 done |-> r.done])])

\* Bug form: a deletion does not invalidate its list.
RefreshedOnCreate(r) ==
  IF r.form = "title" THEN TitleWritten(r)
  ELSE [k \in Kinds |->
         IF k \in Stales(r) /\ r.form # "none" THEN Invalidated(k) ELSE query[k]]

Refreshed(r) ==
  IF r.form = "title" THEN TitleWritten(r)
  ELSE [k \in Kinds |->
         IF k \in Stales(r) THEN Invalidated(k) ELSE query[k]]

\* The form's own onSuccess, if it still listens.
Rewarded(r) ==
  LET data == query'["recording"].data
      forms == IF r.form # "title" THEN form
               ELSE IF Mounted THEN Refilled(form, "recording", data)
               ELSE FormsOf(data.rows, TRUE) IN
  IF ~r.live \/ r.form \in {"none", "share"} THEN forms
  ELSE [forms EXCEPT ![r.form] =
    IF r.form = "post" THEN [ClosedForm EXCEPT !.open = TRUE]
    ELSE IF r.form = "title" THEN [@ EXCEPT !.open = FALSE] ELSE ClosedForm]

Succeed(q) ==
  LET r == requests[q] IN
  /\ r.stage = "accepted"
  /\ query' = Refreshed(r)
  /\ form' = Rewarded(r)
  /\ dialog' = [dialog EXCEPT !.link = (r.form = "share" /\ r.live) \/ @]
  /\ requests' = Heard([requests EXCEPT ![q] = NoRequest], form')
  /\ UNCHANGED <<stored, done, panel, changes>>

----------------------------------------------------------------------------

Next ==
  \/ Poll \/ Finish
  \/ \E t \in Texts : Rename(t)
  \/ \E k \in Kinds : Answer(k) \/ Arrive(k) \/ Lose(k)
  \/ \E i \in Ids :
       \/ OpenReply(i) \/ OpenSong(i)
       \/ \E t \in Texts : OpenEdit(i, t)
  \/ OpenMarker \/ OpenShare \/ OpenTitle
  \/ \E t \in Texts \cup {NoText} :
       \/ \E f \in {"post", "reply"} : TypeComment(f, t)
       \/ \E f \in {"marker", "song"} : TypeMarker(f, t)
       \/ TypeEdit(t) \/ TypeShare(t) \/ TypeTitle(t)
  \/ CloseReply \/ CancelEdit \/ CloseTitle \/ CloseShare
  \/ \E f \in {"marker", "song"} : CancelMarker(f)
  \/ Reset \/ SwitchTab \/ EditUnchanged
  \/ \E q \in Requests :
       \/ \E f \in {"post", "reply"} : PostComment(q, f)
       \/ \E f \in {"marker", "song"} : SaveMarker(q, f)
       \/ UpdateComment(q) \/ CreateShare(q) \/ SaveTitle(q)
       \/ \E i \in Ids : DeleteComment(q, i) \/ DeleteSong(q, i) \/ DeleteShare(q, i)
       \/ ToggleTag(q)
       \/ Store(q) \/ Refuse(q) \/ Fail(q) \/ Succeed(q)

Spec == Init /\ [][Next]_vars

----------------------------------------------------------------------------

\* Once every mutation has been answered and every fetch has arrived, the page
\* shows what the server stores, whatever the order they were sent, answered and
\* restarted in (comments.ts:47-92, songs.ts:39-78, shares.ts:31-80,
\* recordings.ts:118-131, tags.ts:42-67).  Excepted are data that a failed
\* fetch should have replaced, or that a first load, a poll or a fetch of a page
\* that was not shown read before the change and brought after it, or where another
\* user changed the title.
PageCatchesUp ==
  \A k \in Kinds :
    /\ query[k].fetch = "idle" /\ ~query[k].missed
    /\ \A q \in Requests : requests[q].kind = k => requests[q] = NoRequest
    => Shown(k) = stored[k]

\* A share link is only shown in the dialog that asked for it: an answer that
\* comes after the dialog was closed and reset shows in no later one
\* (ShareDialog.tsx:35-49).
LinkBelongsToForm == dialog.link => dialog.clicked

\* The title field of an Edit dialog nobody has typed into holds the title that the
\* page shows, whatever polls, saves, cancels and failed fetches came before
\* (RecordingEditDialog.tsx:38-53).  What saving it does to a recording that has
\* changed on the server since is another matter.
UntouchedIsShown ==
  ~form["title"].touched => form["title"].text = Shown("recording")[Recording]

=============================================================================
