------------------------ MODULE RecordingPageProofs ------------------------
(***************************************************************************)
(* Safety of the recording page, for any number of items, texts, mutations *)
(* in flight and changes.  The first invariant says whose requests may be  *)
(* heard: at most one of every form, and of the Share dialog only after a  *)
(* click that its reset has not undone.  The second says what every list   *)
(* that differs from the server waits for: a fetch, an answer or a request *)
(* that will start one.                                                    *)
(***************************************************************************)
EXTENDS RecordingPage, FiniteSetTheorems, TLAPS

OneAnswer == \A f \in Forms : \A p, q \in Sent(f) : p = q

ShareClicked ==
  \A q \in Requests : requests[q].form = "share" /\ requests[q].live => dialog.clicked

IInv ==
  /\ Typed
  /\ OneAnswer
  /\ ShareClicked
  /\ LinkBelongsToForm
  /\ UntouchedIsShown

----------------------------------------------------------------------------
(* What one step may do to the parts IInv relates. *)

\* No form is heard that was not heard before.
Quieter(new) ==
  \A q \in Requests :
    new[q].form # "none" /\ new[q].live => new[q].form = requests[q].form /\ requests[q].live

\* The Edit dialog's field and what the page shows in its place are left alone.
TitleKept ==
  /\ form'["title"].touched = form["title"].touched
  /\ form'["title"].text = form["title"].text
  /\ query'["recording"].data = query["recording"].data

\* The kinds of the forms.
LEMMA KindOfForms ==
  /\ \A f \in Forms : KindOf(f) \in Kinds
  /\ \A f \in Forms : KindOf(f) = "recording" <=> f = "title"
  /\ KindOf("reply") = "comments" /\ KindOf("edit") = "comments"
  /\ KindOf("marker") = "songs" /\ KindOf("song") = "songs"
  /\ KindOf("share") = "shares"
  BY DEF KindOf, Forms, Kinds, Lists

\* The empty form and the empty request.
LEMMA ClosedFormType ==
  /\ ClosedForm \in Form
  /\ NoRequest \in Request
  BY DEF ClosedForm, Form, Text, NoRequest, Request, Kinds, Lists

\* What a list shows is an item with a text.
LEMMA ListedType ==
  ASSUME Typed, NEW k \in Kinds, NEW i \in Listed(k)
  PROVE  i \in Ids /\ i \in Items /\ Shown(k)[i] \in Text
  BY DEF Typed, Listed, Shown, Query, Data, Rows, Items

\* Closing forms silences requests and starts none.
LEMMA HeardType ==
  ASSUME NEW reqs \in [Requests -> Request], NEW forms
  PROVE  Heard(reqs, forms) \in [Requests -> Request]
<1> SUFFICES ASSUME NEW q \in Requests
             PROVE  Heard(reqs, forms)[q] \in Request
  BY DEF Heard
<1>1. [reqs[q] EXCEPT !.live = FALSE] \in Request
  BY DEF Request
<1> QED
  BY <1>1 DEF Heard

\* Whatever forms are gone, no request is heard that was not heard before.
LEMMA HeardIsQuieter ==
  ASSUME Typed, NEW reqs \in [Requests -> Request], NEW forms, Quieter(reqs)
  PROVE  Quieter(Heard(reqs, forms))
  BY DEF Heard, Quieter, Typed, Request

\* A form that its query refills keeps its type.
LEMMA RefilledType ==
  ASSUME NEW forms \in [Forms -> Form], NEW k \in Kinds, NEW data \in Data
  PROVE  Refilled(forms, k, data) \in [Forms -> Form]
<1> SUFFICES ASSUME NEW f \in Forms
             PROVE  Refilled(forms, k, data)[f] \in Form
  BY DEF Refilled
<1>1. [forms[f] EXCEPT !.text = data.rows[Recording], !.touched = FALSE] \in Form
  BY DEF Form, Data, Rows, Items
<1> QED
  BY <1>1, ClosedFormType DEF Refilled

\* The forms of a page that is mounted, or is not, hold its title.
LEMMA FormsOfType ==
  ASSUME NEW rows \in Rows, NEW mounted \in BOOLEAN
  PROVE  /\ FormsOf(rows, mounted) \in [Forms -> Form]
         /\ FormsOf(rows, mounted)["title"] = TitleForm(rows)
         /\ TitleForm(rows).text = rows[Recording]
<1>1. rows[Recording] \in Text
  BY DEF Rows, Items
<1>2. TitleForm(rows) \in Form
  BY <1>1 DEF TitleForm, Form, Items
<1>3. \A f \in Forms : [ClosedForm EXCEPT !.open = (f = "post" /\ mounted)] \in Form
  BY ClosedFormType DEF Form
<1> QED
  BY <1>2, <1>3 DEF FormsOf, Forms, TitleForm

\* A query whose data a mutation writes keeps its type.
LEMMA WrittenType ==
  ASSUME NEW q \in Query, q.fetch = "answered" <=> q.answer # NoData, NEW data \in Data
  PROVE  /\ Written(q, data) \in Query
         /\ Written(q, data).data = data
         /\ Written(q, data).fetch = "answered" <=> Written(q, data).answer # NoData
  BY DEF Written, Query

Good(queries) ==
  /\ queries \in [Kinds -> Query]
  /\ queries["recording"].data # NoData
  /\ \A k \in Kinds : queries[k].fetch = "answered" <=> queries[k].answer # NoData
Queries == Good(query)

\* Queries that are invalidated keep their types.
LEMMA InvalidatedType ==
  ASSUME Queries, NEW k \in Kinds
  PROVE  /\ Invalidated(k) \in Query
         /\ Invalidated(k).data = query[k].data
         /\ Invalidated(k).fetch = "answered" <=> Invalidated(k).answer # NoData
<1> DEFINE q == query[k]
<1>1. q \in Query /\ (q.fetch = "answered" <=> q.answer # NoData)
  BY DEF Queries, Good
<1>2. \/ Invalidated(k) = [q EXCEPT !.missed = @ \/ q.fetch # "asked"]
      \/ Invalidated(k) = [q EXCEPT !.fetch = "asked", !.answer = NoData, !.missed = FALSE]
  BY DEF Invalidated
<1> HIDE DEF q
<1>3. PICK m \in BOOLEAN : m = (q.missed \/ q.fetch # "asked")
  OBVIOUS
<1>4. CASE Invalidated(k) = [q EXCEPT !.missed = m]
  BY <1>1, <1>4 DEF Query, q
<1>5. CASE Invalidated(k) = [q EXCEPT !.fetch = "asked", !.answer = NoData, !.missed = FALSE]
  BY <1>1, <1>5 DEF Query, q
<1> QED
  BY <1>2, <1>3, <1>4, <1>5

\* A query whose component mounts keeps its type and its data.
LEMMA RemountedType ==
  ASSUME NEW q \in Query, q.fetch = "answered" <=> q.answer # NoData
  PROVE  /\ Remounted(q) \in Query /\ Remounted(q).data = q.data
         /\ Remounted(q).fetch = "answered" <=> Remounted(q).answer # NoData
         /\ Remounted(q) = q \/ Remounted(q).fetch = "asked"
  BY DEF Remounted, Query

\* So do the lists of a page that comes back.
LEMMA WithListsType ==
  ASSUME NEW queries, Good(queries)
  PROVE  /\ Good(WithLists(queries))
         /\ WithLists(queries)["recording"] = queries["recording"]
         /\ \A k \in Kinds : \/ WithLists(queries)[k] = queries[k]
                             \/ WithLists(queries)[k].fetch = "asked"
<1>1. CASE WithLists(queries) = queries
  BY <1>1
<1>2. CASE WithLists(queries) =
             [k \in Kinds |-> IF k \in Lists /\ k = panel THEN Remounted(queries[k])
                              ELSE queries[k]]
  <2>1. "recording" \in Kinds /\ "recording" \notin Lists
    BY DEF Kinds, Lists
  <2>2. \A k \in Kinds : /\ queries[k] \in Query
                         /\ queries[k].fetch = "answered" <=> queries[k].answer # NoData
    BY DEF Good
  <2>3. ASSUME NEW k \in Kinds
        PROVE  /\ WithLists(queries)[k] \in Query
               /\ \/ WithLists(queries)[k] = queries[k]
                  \/ WithLists(queries)[k].fetch = "asked"
               /\ WithLists(queries)[k].fetch = "answered" <=>
                  WithLists(queries)[k].answer # NoData
    BY <1>2, <2>2, RemountedType
  <2>4. WithLists(queries)["recording"] = queries["recording"]
    BY <1>2, <2>1
  <2> QED
    BY <1>2, <2>3, <2>4 DEF Good
<1> QED
  BY <1>1, <1>2 DEF WithLists

\* One query moves on.
LEMMA GoodKept ==
  ASSUME Queries, NEW k \in Kinds, NEW v \in Query,
         v.fetch = "answered" <=> v.answer # NoData,
         v.data # NoData \/ v.data = query[k].data
  PROVE  Good([query EXCEPT ![k] = v])
  BY DEF Queries, Good, Kinds

\* The same of a step.
LEMMA QueriesKept ==
  ASSUME Queries, NEW k \in Kinds, NEW v \in Query,
         v.fetch = "answered" <=> v.answer # NoData,
         v.data # NoData \/ v.data = query[k].data,
         query' = [query EXCEPT ![k] = v]
  PROVE  Queries'
  BY GoodKept DEF Queries, Good

----------------------------------------------------------------------------
(* The parts of IInv, one by one. *)

\* Silencing requests leaves each form at most one answer to hear.
LEMMA OneAnswerKept ==
  ASSUME Typed, OneAnswer, Quieter(requests')
  PROVE  OneAnswer'
  BY DEF OneAnswer, Quieter, Sent, Forms

\* Silencing requests keeps what a share link needs.
LEMMA ShareClickedKept ==
  ASSUME ShareClicked, Quieter(requests'), dialog'.clicked = dialog.clicked
  PROVE  ShareClicked'
  BY DEF ShareClicked, Quieter

\* A step that leaves the title form and its query alone keeps them equal.
LEMMA UntouchedKept ==
  ASSUME UntouchedIsShown, TitleKept
  PROVE  UntouchedIsShown'
  BY DEF UntouchedIsShown, TitleKept, Shown

\* A step that hears no more than before and moves neither the link nor the
\* Edit dialog.
LEMMA QuietStep ==
  ASSUME IInv, Typed', Quieter(requests'), TitleKept,
         dialog'.clicked = dialog.clicked, dialog'.link = dialog.link
  PROVE  IInv'
<1>1. LinkBelongsToForm'
  BY DEF IInv, LinkBelongsToForm
<1> QED
  BY <1>1, OneAnswerKept, ShareClickedKept, UntouchedKept DEF IInv

----------------------------------------------------------------------------
(* The queries. *)

\* The recording is polled.
LEMMA PollStep == ASSUME IInv, Poll PROVE IInv'
<1>1. PICK v : /\ v = [query["recording"] EXCEPT !.fetch = "asked", !.missed = FALSE]
               /\ query' = [query EXCEPT !["recording"] = v]
  BY DEF Poll
<1>2. Queries /\ "recording" \in Kinds /\ query["recording"] \in Query
  BY DEF IInv, Typed, Queries, Good, Kinds
<1>3. /\ v \in Query /\ v.data = query["recording"].data
      /\ v.fetch # "answered" /\ v.answer = NoData
  BY <1>1, <1>2 DEF Query, Queries, Good, Poll
<1>4. Queries'
  BY <1>1, <1>2, <1>3, QueriesKept
<1>5. Typed'
  BY <1>4 DEF IInv, Typed, Queries, Good, Poll
<1>6. query'["recording"].data = query["recording"].data
  BY <1>1, <1>2, <1>3 DEF Queries, Good
<1> QED
  BY <1>5, <1>6, QuietStep DEF Quieter, TitleKept, Poll

\* The server answers a query.
LEMMA AnswerStep == ASSUME IInv, NEW k \in Kinds, Answer(k) PROVE IInv'
<1> DEFINE read == Now(k)
<1>1. PICK v : /\ v = [query[k] EXCEPT !.fetch = "answered", !.answer = read]
               /\ query' = [query EXCEPT ![k] = v]
  BY DEF Answer
<1>2. Queries /\ query[k] \in Query /\ read \in Data
  BY DEF IInv, Typed, Queries, Good, Data, Now
<1>3. /\ v \in Query /\ v.data = query[k].data
      /\ v.fetch = "answered" /\ v.answer # NoData
  BY <1>1, <1>2, NoDataAssumption DEF Query
<1>4. Queries'
  BY <1>1, <1>2, <1>3, QueriesKept
<1>5. Typed'
  BY <1>4 DEF IInv, Typed, Queries, Good, Answer
<1>6. query'["recording"].data = query["recording"].data
  BY <1>1, <1>2, <1>3 DEF Queries, Good, Kinds
<1> QED
  BY <1>5, <1>6, QuietStep DEF Quieter, TitleKept, Answer

\* Some requests are silenced.
LEMMA SilencedType ==
  ASSUME Typed, NEW S,
         requests' = [q \in Requests |->
           IF q \in S THEN [requests[q] EXCEPT !.live = FALSE] ELSE requests[q]]
  PROVE  /\ requests' \in [Requests -> Request]
         /\ Quieter(requests')
         /\ \A q \in Requests \cap S : ~requests'[q].live
<1> SUFFICES ASSUME NEW q \in Requests
             PROVE  /\ requests'[q] \in Request
                    /\ requests'[q].form = requests[q].form
                    /\ requests'[q].live => requests[q].live
                    /\ q \in S => ~requests'[q].live
  BY DEF Quieter
<1>1. requests[q] \in Request
  BY DEF Typed
<1>2. /\ [requests[q] EXCEPT !.live = FALSE] \in Request
      /\ [requests[q] EXCEPT !.live = FALSE].form = requests[q].form
      /\ [requests[q] EXCEPT !.live = FALSE].live = FALSE
  BY <1>1 DEF Request
<1> QED
  BY <1>1, <1>2

\* A fetch fails, and may take the page along.
LEMMA LoseStep == ASSUME IInv, NEW k \in Kinds, Lose(k) PROVE IInv'
<1>1. PICK v : /\ v = [query[k] EXCEPT !.fetch = "idle", !.answer = NoData,
                                       !.missed = TRUE, !.err = (k = "recording")]
               /\ query' = [query EXCEPT ![k] = v]
  BY DEF Lose
<1>2. Queries /\ query[k] \in Query
  BY DEF IInv, Typed, Queries, Good
<1>3. /\ v \in Query /\ v.data = query[k].data
      /\ v.fetch # "answered" /\ v.answer = NoData
  BY <1>1, <1>2 DEF Query
<1>4. Queries'
  BY <1>1, <1>2, <1>3, QueriesKept
<1>5. query'["recording"].data = query["recording"].data
  BY <1>1, <1>2, <1>3 DEF Queries, Good, Kinds
<1>6. CASE k # "recording"
  <2>1. Typed'
    BY <1>4, <1>6 DEF IInv, Typed, Queries, Good, Lose
  <2> QED
    BY <1>5, <1>6, <2>1, QuietStep DEF Quieter, TitleKept, Lose
<1>7. CASE k = "recording"
  <2>1. /\ changes < MaxChanges /\ changes' = changes + 1
        /\ form' = FormsOf(Shown("recording"), FALSE)
        /\ dialog' = NoDialog
        /\ requests' = [q \in Requests |-> [requests[q] EXCEPT !.live = FALSE]]
        /\ UNCHANGED <<stored, done, panel>>
    BY <1>7 DEF Lose
  <2>2. requests' = [q \in Requests |->
          IF q \in Requests THEN [requests[q] EXCEPT !.live = FALSE] ELSE requests[q]]
    BY <2>1
  <2>3. /\ requests' \in [Requests -> Request] /\ Quieter(requests')
        /\ \A q \in Requests : ~requests'[q].live
    BY <2>2, SilencedType DEF IInv
  <2>4. Shown("recording") \in Rows
    BY <1>2, <1>7 DEF Shown, Queries, Good, Query, Data
  <2>5. /\ form' \in [Forms -> Form]
        /\ form'["title"].text = Shown("recording")[Recording]
    BY <2>1, <2>4, FormsOfType
  <2>6. dialog' \in Dialog /\ ~dialog'.link
    BY <2>1, RecordingPageAssumption DEF NoDialog, Dialog
  <2>7. changes' \in 0..MaxChanges
    BY <2>1, RecordingPageAssumption DEF IInv, Typed
  <2>8. Typed'
    BY <1>4, <2>1, <2>3, <2>5, <2>6, <2>7 DEF IInv, Typed, Queries, Good
  <2>9. ShareClicked' /\ LinkBelongsToForm'
    BY <2>3, <2>6 DEF ShareClicked, LinkBelongsToForm
  <2>10. UntouchedIsShown'
    BY <1>5, <2>5 DEF UntouchedIsShown, Shown
  <2> QED
    BY <2>3, <2>8, <2>9, <2>10, OneAnswerKept DEF IInv
<1> QED
  BY <1>6, <1>7

\* Another user renames the recording.
LEMMA RenameStep == ASSUME IInv, NEW t \in Texts, Rename(t) PROVE IInv'
<1>1. PICK v : /\ \/ v = query["recording"]
                  \/ v = [query["recording"] EXCEPT !.missed = TRUE]
               /\ query' = [query EXCEPT !["recording"] = v]
  <2>1. query = [query EXCEPT !["recording"] = query["recording"]]
    BY DEF IInv, Typed
  <2> QED
    BY <2>1 DEF Rename
<1>2. Queries /\ "recording" \in Kinds /\ query["recording"] \in Query
  BY DEF IInv, Typed, Queries, Good, Kinds
<1>3. /\ v \in Query /\ v.data = query["recording"].data
      /\ v.fetch = "answered" <=> v.answer # NoData
  BY <1>1, <1>2 DEF Query, Queries, Good
<1>4. Queries'
  BY <1>1, <1>2, <1>3, QueriesKept
<1>5. changes' \in 0..MaxChanges
  BY RecordingPageAssumption DEF IInv, Typed, Rename
<1>6. stored' \in [Kinds -> Rows]
  BY <1>2 DEF IInv, Typed, Rows, Items, Text, Rename
<1>7. Typed'
  BY <1>4, <1>5, <1>6 DEF IInv, Typed, Queries, Good, Rename
<1>8. query'["recording"].data = query["recording"].data
  BY <1>1, <1>2, <1>3 DEF Queries, Good
<1> QED
  BY <1>7, <1>8, QuietStep DEF Quieter, TitleKept, Rename

\* The server finishes processing.
LEMMA FinishStep == ASSUME IInv, Finish PROVE IInv'
<1>1. Typed'
  BY DEF IInv, Typed, Finish
<1> QED
  BY <1>1, QuietStep DEF Quieter, TitleKept, Finish

\* An answer reaches its query.
LEMMA ArriveStep == ASSUME IInv, NEW k \in Kinds, Arrive(k) PROVE IInv'
<1> DEFINE data == query[k].answer
<1>1. PICK v : /\ v = [query[k] EXCEPT !.fetch = "idle", !.data = data, !.answer = NoData,
                                       !.err = FALSE]
               /\ query' = WithLists([query EXCEPT ![k] = v])
  BY DEF Arrive
<1>2. /\ Queries /\ query[k] \in Query
      /\ data \in Data /\ data # NoData
  BY DEF IInv, Typed, Queries, Good, Query, Arrive
<1>3. /\ form' = IF k = "recording" /\ ~Mounted THEN FormsOf(data.rows, TRUE)
                 ELSE Refilled(form, k, data)
      /\ requests' = Heard(requests, form')
      /\ UNCHANGED <<stored, done, dialog, panel, changes>>
  BY DEF Arrive
<1> HIDE DEF data
<1>4. /\ v \in Query /\ v.data = data
      /\ v.fetch # "answered" /\ v.answer = NoData
  BY <1>1, <1>2 DEF Query
<1>5. Good([query EXCEPT ![k] = v])
  BY <1>2, <1>4, GoodKept
<1>6. Queries' /\ query'["recording"] = [query EXCEPT ![k] = v]["recording"]
  BY <1>1, <1>5, WithListsType DEF Queries, Good
<1>7. data.rows \in Rows
  BY <1>2 DEF Data
<1>8. form' \in [Forms -> Form] /\ requests' \in [Requests -> Request]
  BY <1>2, <1>3, <1>7, RefilledType, FormsOfType, HeardType DEF IInv, Typed
<1>9. Typed'
  BY <1>3, <1>6, <1>8 DEF IInv, Typed, Queries, Good
<1>10. Quieter(requests')
  <2>1. Quieter(requests)
    BY DEF Quieter
  <2> QED
    BY <1>3, <2>1, HeardIsQuieter DEF IInv, Typed
<1>11. /\ k = "recording" => query'["recording"].data = data
       /\ k # "recording" => query'["recording"] = query["recording"]
  BY <1>2, <1>4, <1>6 DEF Queries, Good
<1>12. UntouchedIsShown'
  <2>1. CASE k = "recording" /\ ~Mounted
    <3>1. form'["title"].text = data.rows[Recording]
      BY <1>3, <1>7, <2>1, FormsOfType
    <3> QED
      BY <1>11, <2>1, <3>1 DEF UntouchedIsShown, Shown
  <2>2. CASE Mounted /\ k = "recording" /\ query[k].data # data
    <3>1. /\ "title" \in Forms /\ KindOf("title") = "recording"
          /\ form["title"] \in Form
      BY DEF IInv, Typed, Forms, KindOf
    <3>2. form'["title"] =
            [form["title"] EXCEPT !.text = data.rows[Recording], !.touched = FALSE]
      BY <1>3, <2>2, <3>1 DEF Refilled
    <3>3. form'["title"].text = data.rows[Recording]
      BY <3>1, <3>2 DEF Form
    <3> QED
      BY <1>11, <2>2, <3>3 DEF UntouchedIsShown, Shown
  <2>3. CASE ~(k = "recording" /\ (~Mounted \/ query[k].data # data))
    <3>1. form'["title"] = form["title"]
      BY <1>3, <2>3, KindOfForms DEF Refilled, Forms
    <3>2. query'["recording"].data = query["recording"].data
      BY <1>11, <2>3
    <3> QED
      BY <3>1, <3>2, UntouchedKept DEF IInv, TitleKept
  <2> QED
    BY <2>1, <2>2, <2>3
<1>13. OneAnswer' /\ ShareClicked' /\ LinkBelongsToForm'
  BY <1>3, <1>10, OneAnswerKept, ShareClickedKept DEF IInv, LinkBelongsToForm
<1> QED
  BY <1>9, <1>12, <1>13 DEF IInv

----------------------------------------------------------------------------
(* The forms. *)

\* A form is opened, filled or closed, and the Edit dialog keeps its field.
LEMMA FormStep ==
  ASSUME IInv, NEW f \in Forms, NEW v \in Form,
         form' = [form EXCEPT ![f] = v],
         f = "title" => v.touched = form[f].touched /\ v.text = form[f].text,
         UNCHANGED <<stored, done, query, panel, changes>>,
         requests' \in [Requests -> Request], Quieter(requests'),
         dialog' \in Dialog, dialog'.clicked = dialog.clicked, dialog'.link = dialog.link
  PROVE  IInv'
<1>1. Typed'
  BY DEF IInv, Typed
<1>2. form'["title"].touched = form["title"].touched /\ form'["title"].text = form["title"].text
  BY DEF IInv, Typed, Forms
<1> QED
  BY <1>1, <1>2, QuietStep DEF TitleKept

\* A form opens with a target and a text.
LEMMA OpenAsStep ==
  ASSUME IInv, NEW f \in Forms \ {"title"}, NEW v \in Form, OpenAs(f, v),
         requests' \in [Requests -> Request], Quieter(requests')
  PROVE  IInv'
  BY FormStep DEF OpenAs, IInv, Typed

\* A form closes, or is reset, and what it sent is heard no more.
LEMMA CloseAsStep ==
  ASSUME IInv, NEW f \in Forms, NEW v \in Form, CloseAs(f, v),
         f = "title" => v.touched = form[f].touched /\ v.text = form[f].text,
         dialog' \in Dialog, dialog'.clicked = dialog.clicked, dialog'.link = dialog.link
  PROVE  IInv'
<1>1. Quieter(requests)
  BY DEF Quieter
<1>2. requests' \in [Requests -> Request] /\ Quieter(requests')
  BY <1>1, HeardType, HeardIsQuieter DEF CloseAs, IInv, Typed
<1> QED
  BY <1>2, FormStep DEF CloseAs

\* A new form, whatever it holds.
LEMMA FreshType ==
  ASSUME NEW i \in Items \cup {NoItem}, NEW t \in Text
  PROVE  Fresh(i, t) \in Form
  BY DEF Fresh, Form

\* The user opens a form.
LEMMA OpenStep ==
  ASSUME IInv,
         \/ \E i \in Ids : OpenReply(i) \/ \E t \in Texts : OpenEdit(i, t)
         \/ OpenMarker \/ OpenShare \/ OpenTitle
  PROVE  IInv'
<1>1. requests' = requests
  BY DEF OpenReply, OpenEdit, OpenMarker, OpenShare, OpenTitle
<1>2. requests' \in [Requests -> Request] /\ Quieter(requests')
  BY <1>1 DEF Quieter, IInv, Typed
<1>3. NoText \in Text /\ Texts \subseteq Text /\ Ids \subseteq Items
  BY DEF Text, Items
<1>4. ASSUME NEW i \in Ids, OpenReply(i) PROVE IInv'
  <2>1. Fresh(i, NoText) \in Form
    BY <1>3, FreshType
  <2> QED
    BY <1>2, <1>4, <2>1, OpenAsStep DEF OpenReply, Forms
<1>5. ASSUME NEW i \in Ids, NEW t \in Texts, OpenEdit(i, t) PROVE IInv'
  <2>1. Fresh(i, t) \in Form
    BY <1>3, FreshType
  <2> QED
    BY <1>2, <1>5, <2>1, OpenAsStep DEF OpenEdit, Forms
<1>6. CASE OpenMarker
  <2>1. Fresh(NoItem, NoText) \in Form
    BY <1>3, FreshType
  <2> QED
    BY <1>2, <1>6, <2>1, OpenAsStep DEF OpenMarker, Forms
<1>7. CASE OpenShare
  <2>1. form["share"].text \in Text
    BY DEF IInv, Typed, Form, Forms
  <2>2. Fresh(NoItem, form["share"].text) \in Form
    BY <2>1, FreshType
  <2> QED
    BY <1>2, <1>7, <2>2, OpenAsStep DEF OpenShare, Forms
<1>8. CASE OpenTitle
  <2> DEFINE v == [form["title"] EXCEPT !.open = TRUE]
  <2>1. form["title"] \in Form /\ "title" \in Forms
    BY DEF IInv, Typed, Forms
  <2>2. v \in Form /\ v.touched = form["title"].touched /\ v.text = form["title"].text
    BY <2>1 DEF Form
  <2>3. /\ form' = [form EXCEPT !["title"] = v]
        /\ UNCHANGED <<stored, done, query, dialog, panel, changes>>
    BY <1>8 DEF OpenTitle, OpenAs
  <2> HIDE DEF v
  <2>4. dialog \in Dialog
    BY DEF IInv, Typed
  <2> QED
    BY <1>2, <2>1, <2>2, <2>3, <2>4, FormStep
<1> QED
  BY <1>4, <1>5, <1>6, <1>7, <1>8

\* The user opens the form of a song marker.
LEMMA OpenSongStep == ASSUME IInv, NEW i \in Ids, OpenSong(i) PROVE IInv'
<1>1. i \in Items /\ Shown("songs")[i] \in Text
  BY ListedType DEF OpenSong, IInv, Kinds, Lists
<1>2. Fresh(i, Shown("songs")[i]) \in Form
  BY <1>1, FreshType
<1>3. requests' \in [Requests -> Request] /\ Quieter(requests')
  <2> SUFFICES ASSUME NEW q \in Requests
               PROVE  /\ requests'[q] \in Request
                      /\ requests'[q].form # "none" /\ requests'[q].live =>
                           requests'[q].form = requests[q].form /\ requests[q].live
    BY DEF OpenSong, Quieter
  <2>1. requests[q] \in Request
    BY DEF IInv, Typed
  <2>2. [requests[q] EXCEPT !.live = FALSE] \in Request
    BY <2>1 DEF Request
  <2>3. [requests[q] EXCEPT !.live = FALSE].live = FALSE
    BY <2>1 DEF Request
  <2> QED
    BY <2>1, <2>2, <2>3 DEF OpenSong
<1> QED
  BY <1>2, <1>3, OpenAsStep DEF OpenSong, Forms

\* Typing into a form; into the Edit dialog it is remembered.
LEMMA HoldsStep ==
  ASSUME IInv, NEW f \in Forms, NEW t \in Texts \cup {NoText}, Holds(f, t)
  PROVE  IInv'
<1> DEFINE v == [form[f] EXCEPT !.text = t, !.touched = (f = "title")]
<1>1. /\ form' = [form EXCEPT ![f] = v]
      /\ UNCHANGED <<stored, done, query, dialog, requests, panel, changes>>
  BY DEF Holds
<1>2. v \in Form /\ (f = "title" => v.touched)
  <2>1. form[f] \in Form /\ t \in Text
    BY DEF IInv, Typed, Text
  <2> QED
    BY <2>1 DEF Form
<1> HIDE DEF v
<1>3. Typed'
  BY <1>1, <1>2 DEF IInv, Typed
<1>4. Quieter(requests')
  BY <1>1 DEF Quieter
<1>5. CASE f = "title"
  <2>1. UntouchedIsShown'
    BY <1>1, <1>2, <1>5 DEF IInv, Typed, UntouchedIsShown
  <2> QED
    BY <1>1, <1>3, <1>4, <2>1, OneAnswerKept, ShareClickedKept DEF IInv, LinkBelongsToForm
<1>6. CASE f # "title"
  <2>1. form'["title"] = form["title"]
    BY <1>1, <1>6 DEF IInv, Typed, Forms
  <2> QED
    BY <1>1, <1>3, <1>4, <2>1, QuietStep DEF TitleKept
<1> QED
  BY <1>5, <1>6

\* The user types.
LEMMA TypeStep ==
  ASSUME IInv, NEW t \in Texts \cup {NoText},
         \/ \E f \in {"post", "reply"} : TypeComment(f, t)
         \/ \E f \in {"marker", "song"} : TypeMarker(f, t)
         \/ TypeEdit(t) \/ TypeShare(t) \/ TypeTitle(t)
  PROVE  IInv'
<1>1. PICK f \in Forms : Holds(f, t)
  BY DEF TypeComment, TypeMarker, TypeEdit, TypeShare, TypeTitle, Forms
<1> QED
  BY <1>1, HoldsStep

\* The user closes a form without sending it.
LEMMA CloseStep ==
  ASSUME IInv,
         \/ CloseReply \/ CancelEdit \/ CloseTitle \/ CloseShare \/ EditUnchanged
         \/ \E f \in {"marker", "song"} : CancelMarker(f)
  PROVE  IInv'
<1>1. dialog \in Dialog
  BY DEF IInv, Typed
<1>2. CASE CloseReply
  BY <1>1, <1>2, CloseAsStep, ClosedFormType DEF CloseReply, Forms
<1>3. CASE CancelEdit
  BY <1>1, <1>3, CloseAsStep, ClosedFormType DEF CancelEdit, Forms
<1>4. ASSUME NEW f \in {"marker", "song"}, CancelMarker(f) PROVE IInv'
  BY <1>1, <1>4, CloseAsStep, ClosedFormType DEF CancelMarker, Forms
<1>5. CASE CloseTitle
  <2> DEFINE v == [form["title"] EXCEPT !.open = FALSE]
  <2>1. form["title"] \in Form /\ "title" \in Forms
    BY DEF IInv, Typed, Forms
  <2>2. v \in Form /\ v.touched = form["title"].touched /\ v.text = form["title"].text
    BY <2>1 DEF Form
  <2>3. CloseAs("title", v) /\ UNCHANGED dialog
    BY <1>5 DEF CloseTitle
  <2> HIDE DEF v
  <2> QED
    BY <1>1, <2>1, <2>2, <2>3, CloseAsStep
<1>6. CASE CloseShare
  <2> DEFINE v == [form["share"] EXCEPT !.open = FALSE]
  <2>1. form["share"] \in Form /\ "share" \in Forms
    BY DEF IInv, Typed, Forms
  <2>2. v \in Form
    BY <2>1 DEF Form
  <2>3. /\ CloseAs("share", v)
        /\ dialog' = [dialog EXCEPT !.timers = @ + 1]
        /\ dialog.timers < MaxTimers
    BY <1>6 DEF CloseShare
  <2>4. dialog' \in Dialog /\ dialog'.clicked = dialog.clicked /\ dialog'.link = dialog.link
    <3>1. dialog.timers + 1 \in 0..MaxTimers
      BY <1>1, <2>3, RecordingPageAssumption DEF Dialog
    <3> QED
      BY <1>1, <2>3, <3>1 DEF Dialog
  <2> HIDE DEF v
  <2> QED
    BY <2>1, <2>2, <2>3, <2>4, CloseAsStep
<1>7. CASE EditUnchanged
  <2>1. requests' \in [Requests -> Request] /\ Quieter(requests')
    BY <1>7 DEF EditUnchanged, Quieter, IInv, Typed
  <2>2. /\ form' = [form EXCEPT !["edit"] = ClosedForm]
        /\ UNCHANGED <<stored, done, query, dialog, panel, changes>>
    BY <1>7 DEF EditUnchanged
  <2> QED
    BY <1>1, <2>1, <2>2, FormStep, ClosedFormType DEF Forms
<1> QED
  BY <1>2, <1>3, <1>4, <1>5, <1>6, <1>7

\* The timer takes the link and silences what the dialog has sent.
LEMMA ResetStep == ASSUME IInv, Reset PROVE IInv'
<1> DEFINE v == [form["share"] EXCEPT !.text = NoText]
           S == {q \in Requests : requests[q].form = "share"}
<1>1. form["share"] \in Form /\ v \in Form
  BY DEF IInv, Typed, Forms, Form, Text
<1>2. /\ form' = [form EXCEPT !["share"] = v]
      /\ UNCHANGED <<stored, done, query, panel, changes>>
      /\ dialog' = [link |-> FALSE, clicked |-> FALSE, timers |-> dialog.timers - 1]
  BY DEF Reset
<1>3. requests' = [q \in Requests |->
        IF q \in S THEN [requests[q] EXCEPT !.live = FALSE] ELSE requests[q]]
  BY DEF Reset
<1>4. /\ requests' \in [Requests -> Request] /\ Quieter(requests')
      /\ \A q \in Requests \cap S : ~requests'[q].live
  BY <1>3, SilencedType DEF IInv
<1> HIDE DEF v
<1>5. dialog' \in Dialog /\ ~dialog'.link
  <2>1. dialog.timers - 1 \in 0..MaxTimers
    BY RecordingPageAssumption DEF Reset, Dialog, IInv, Typed
  <2> QED
    BY <1>2, <2>1 DEF Dialog
<1>6. form' \in [Forms -> Form] /\ form'["title"] = form["title"]
  BY <1>1, <1>2 DEF IInv, Typed, Forms
<1>7. Typed'
  BY <1>2, <1>4, <1>5, <1>6 DEF IInv, Typed
<1>8. ShareClicked'
  BY <1>4 DEF ShareClicked, Quieter
<1>9. UntouchedIsShown'
  BY <1>2, <1>6, UntouchedKept DEF IInv, TitleKept
<1> QED
  BY <1>4, <1>5, <1>7, <1>8, <1>9, OneAnswerKept DEF IInv, LinkBelongsToForm

\* The user switches tabs.
LEMMA SwitchTabStep == ASSUME IInv, SwitchTab PROVE IInv'
<1> DEFINE S == {q \in Requests :
                   requests[q].kind = panel /\ requests[q].form # "share"}
<1>1. requests' = [q \in Requests |->
        IF q \in S THEN [requests[q] EXCEPT !.live = FALSE] ELSE requests[q]]
  BY DEF SwitchTab
<1>2. requests' \in [Requests -> Request] /\ Quieter(requests')
  BY <1>1, SilencedType DEF IInv
<1>3. \A f \in Forms : [ClosedForm EXCEPT !.open = (f = "post")] \in Form
  BY ClosedFormType DEF Form
<1>4. form' \in [Forms -> Form]
  BY <1>3 DEF SwitchTab, IInv, Typed
<1>5. form'["title"] = form["title"]
  <2>1. "title" \in Forms /\ KindOf("title") # panel
    BY KindOfForms DEF Forms, SwitchTab, Lists
  <2> QED
    BY <2>1 DEF SwitchTab
<1>6. Queries' /\ query'["recording"] = query["recording"]
  <2>1. Queries
    BY DEF IInv, Typed, Queries, Good
  <2>2. query' = [k \in Kinds |->
          IF k = panel /\ k \in {"songs", "shares"} THEN Remounted(query[k]) ELSE query[k]]
    BY DEF SwitchTab
  <2>3. ASSUME NEW k \in Kinds
        PROVE  /\ query'[k] \in Query
               /\ query'[k].fetch = "answered" <=> query'[k].answer # NoData
    BY <2>1, <2>2, RemountedType DEF Queries, Good
  <2>4. query'["recording"] = query["recording"]
    BY <2>2 DEF Kinds
  <2> QED
    BY <2>1, <2>2, <2>3, <2>4 DEF Queries, Good
<1>7. Typed'
  BY <1>2, <1>4, <1>6 DEF IInv, Typed, SwitchTab, Queries, Good
<1> QED
  BY <1>2, <1>5, <1>6, <1>7, QuietStep DEF SwitchTab, TitleKept

----------------------------------------------------------------------------
(* The mutations. *)

\* A request that is sent keeps the types.
LEMMA SendType ==
  ASSUME Typed, NEW q \in Requests, NEW f \in Forms \cup {"none"}, NEW k \in Kinds,
         NEW i \in Items \cup {NoItem}, NEW t \in Text, Send(q, f, k, i, t)
  PROVE  /\ requests' \in [Requests -> Request]
         /\ changes' \in 0..MaxChanges
         /\ requests'[q].form = f
         /\ \A p \in Requests \ {q} : requests'[p] = requests[p]
<1>1. [form |-> f, kind |-> k, item |-> i, text |-> t, live |-> TRUE,
       stage |-> "sent", done |-> FALSE] \in Request
  BY DEF Request
<1>2. changes' \in 0..MaxChanges
  BY RecordingPageAssumption DEF Send, Typed
<1> QED
  BY <1>1, <1>2 DEF Send, Typed

\* A form is sent while none of its requests is heard.
LEMMA SubmitStep ==
  ASSUME IInv, NEW q \in Requests, NEW f \in Forms, Submit(q, f),
         dialog' \in Dialog, dialog'.link = dialog.link,
         dialog.clicked => dialog'.clicked, f = "share" => dialog'.clicked
  PROVE  IInv'
<1>1. /\ requests' \in [Requests -> Request]
      /\ changes' \in 0..MaxChanges
      /\ requests'[q].form = f
      /\ \A p \in Requests \ {q} : requests'[p] = requests[p]
  <2>1. form[f].target \in Items \cup {NoItem} /\ form[f].text \in Text
    BY DEF IInv, Typed, Form
  <2> QED
    BY <2>1, SendType, KindOfForms DEF Submit, IInv
<1>2. UNCHANGED <<stored, done, query, form, panel>> /\ Sent(f) = {}
  BY DEF Submit, Pending
<1>3. Typed'
  BY <1>1, <1>2 DEF IInv, Typed
<1>4. OneAnswer'
  BY <1>1, <1>2 DEF IInv, OneAnswer, Sent
<1>5. ShareClicked' /\ LinkBelongsToForm'
  BY <1>1 DEF IInv, ShareClicked, LinkBelongsToForm
<1>6. UntouchedIsShown'
  BY <1>2, UntouchedKept DEF IInv, TitleKept
<1> QED
  BY <1>3, <1>4, <1>5, <1>6 DEF IInv

\* The user submits a form.
LEMMA SubmitsStep ==
  ASSUME IInv, NEW q \in Requests,
         \/ \E f \in {"post", "reply"} : PostComment(q, f)
         \/ \E f \in {"marker", "song"} : SaveMarker(q, f)
         \/ UpdateComment(q) \/ CreateShare(q) \/ SaveTitle(q)
  PROVE  IInv'
<1>1. dialog \in Dialog
  BY DEF IInv, Typed
<1>2. CASE CreateShare(q)
  <2>1. dialog' \in Dialog /\ dialog'.link = dialog.link /\ dialog'.clicked
    BY <1>1, <1>2 DEF CreateShare, Dialog
  <2> QED
    BY <1>2, <2>1, SubmitStep DEF CreateShare, Forms
<1>3. CASE ~CreateShare(q)
  <2>1. PICK f \in Forms \ {"share"} : Submit(q, f) /\ UNCHANGED dialog
    BY <1>3 DEF PostComment, SaveMarker, UpdateComment, SaveTitle, Forms
  <2> QED
    BY <1>1, <2>1, SubmitStep
<1> QED
  BY <1>2, <1>3

\* A Delete or a tag is sent: no form waits for it.
LEMMA UnheardStep ==
  ASSUME IInv, NEW q \in Requests, NEW k \in Kinds, NEW i \in Items \cup {NoItem},
         Send(q, "none", k, i, NoText),
         UNCHANGED <<stored, done, query, form, dialog, panel>>
  PROVE  IInv'
<1>1. /\ requests' \in [Requests -> Request]
      /\ changes' \in 0..MaxChanges
      /\ requests'[q].form = "none"
      /\ \A p \in Requests \ {q} : requests'[p] = requests[p]
  BY SendType DEF IInv, Text
<1>2. Typed'
  BY <1>1 DEF IInv, Typed
<1>3. Quieter(requests')
  BY <1>1 DEF Quieter
<1> QED
  BY <1>2, <1>3, QuietStep DEF TitleKept

\* The user deletes an item, or attaches or detaches a tag.
LEMMA EraseStep ==
  ASSUME IInv, NEW q \in Requests,
         \/ \E i \in Ids : DeleteComment(q, i) \/ DeleteSong(q, i) \/ DeleteShare(q, i)
         \/ ToggleTag(q)
  PROVE  IInv'
<1>1. CASE ToggleTag(q)
  BY <1>1, UnheardStep DEF ToggleTag, Kinds
<1>2. CASE \E i \in Ids : DeleteComment(q, i) \/ DeleteSong(q, i) \/ DeleteShare(q, i)
  <2>1. PICK i \in Ids : Erase(q, i)
    BY <1>2 DEF DeleteComment, DeleteSong, DeleteShare
  <2>2. panel \in Kinds /\ i \in Items
    BY DEF IInv, Typed, Panels, Kinds, Lists, Items
  <2> QED
    BY <2>1, <2>2, UnheardStep DEF Erase
<1> QED
  BY <1>1, <1>2

\* The server's side, and the failures: one request moves on.
LEMMA StageStep ==
  ASSUME IInv, NEW q \in Requests, NEW v \in Request,
         requests' = [requests EXCEPT ![q] = v],
         v.form # "none" /\ v.live => v.form = requests[q].form /\ requests[q].live,
         stored' \in [Kinds -> Rows],
         UNCHANGED <<done, query, form, dialog, panel, changes>>
  PROVE  IInv'
<1>1. Typed'
  BY DEF IInv, Typed
<1>2. Quieter(requests')
  BY DEF Quieter, IInv, Typed
<1> QED
  BY <1>1, <1>2, QuietStep DEF TitleKept

\* The server stores what a request asks.
LEMMA StoreStep == ASSUME IInv, NEW q \in Requests, Store(q) PROVE IInv'
<1> DEFINE v == [requests[q] EXCEPT !.stage = "accepted", !.done = done]
<1>1. /\ requests' = [requests EXCEPT ![q] = v]
      /\ UNCHANGED <<done, query, form, dialog, panel, changes>>
  BY DEF Store
<1>2. requests[q] \in Request /\ done \in BOOLEAN
  BY DEF IInv, Typed
<1>3. v \in Request /\ v.form = requests[q].form /\ v.live = requests[q].live
  BY <1>2 DEF Request
<1> HIDE DEF v
<1>4. stored' \in [Kinds -> Rows]
  <2>1. requests[q].kind \in Kinds /\ RowOf(requests[q]) \in Text
    BY <1>2 DEF Request, RowOf, Text
  <2>2. PICK i \in Items :
          stored' = IF requests[q].item = NoItem /\ ~New(requests[q]) THEN stored
                    ELSE [stored EXCEPT ![requests[q].kind][i] = RowOf(requests[q])]
    BY DEF Store
  <2>3. stored \in [Kinds -> Rows] /\ [stored[requests[q].kind] EXCEPT
                                         ![i] = RowOf(requests[q])] \in Rows
    BY <2>1 DEF IInv, Typed, Rows
  <2> QED
    BY <2>1, <2>2, <2>3
<1> QED
  BY <1>1, <1>3, <1>4, StageStep

\* The server refuses a request.
LEMMA RefuseStep == ASSUME IInv, NEW q \in Requests, Refuse(q) PROVE IInv'
<1> DEFINE v == [requests[q] EXCEPT !.stage = "refused"]
<1>1. /\ requests' = [requests EXCEPT ![q] = v]
      /\ UNCHANGED <<stored, done, query, form, dialog, panel, changes>>
  BY DEF Refuse, IInv, Typed
<1>2. requests[q] \in Request
  BY DEF IInv, Typed
<1>3. v \in Request /\ v.form = requests[q].form /\ v.live = requests[q].live
  BY <1>2 DEF Request
<1> HIDE DEF v
<1> QED
  BY <1>1, <1>3, StageStep DEF IInv, Typed

\* A refusal reaches the page.
LEMMA FailStep == ASSUME IInv, NEW q \in Requests, Fail(q) PROVE IInv'
  BY StageStep, ClosedFormType DEF Fail, IInv, Typed, NoRequest

\* The queries after a success.  What they show moves for the Edit dialog only.
LEMMA RefreshedType ==
  ASSUME IInv, NEW r \in Request, query' = Refreshed(r)
  PROVE  /\ Queries'
         /\ r.form # "title" => query'["recording"].data = query["recording"].data
         /\ r.form = "title" => query'["recording"].data =
              [rows |-> [Shown("recording") EXCEPT ![Recording] = r.text], done |-> r.done]
         /\ query'["recording"].data \in Data
<1>1. Queries /\ "recording" \in Kinds /\ query["recording"].data \in Data
  BY DEF IInv, Typed, Queries, Good, Kinds, Query
<1>2. CASE r.form = "title"
  <2> DEFINE data == [rows |-> [Shown("recording") EXCEPT ![Recording] = r.text],
                      done |-> r.done]
             v == Written(query["recording"], data)
             w == [query EXCEPT !["recording"] = v]
  <2>1. data \in Data
    BY <1>1 DEF Data, Shown, Rows, Request
  <2>2. query' = WithLists(w)
    BY <1>2 DEF Refreshed, TitleWritten
  <2> HIDE DEF data
  <2>3. v \in Query /\ v.data = data /\ (v.fetch = "answered" <=> v.answer # NoData)
    BY <1>1, <2>1, WrittenType DEF Queries, Good
  <2> HIDE DEF v
  <2>4. Good(w) /\ w["recording"] = v
    BY <1>1, <2>1, <2>3, GoodKept, NoDataAssumption DEF Queries, Good
  <2> HIDE DEF w
  <2>5. Queries' /\ query'["recording"].data = data
    BY <2>2, <2>3, <2>4, WithListsType DEF Queries, Good
  <2> QED
    BY <1>2, <2>1, <2>5 DEF data
<1>3. CASE r.form # "title"
  <2>1. \A k \in Kinds :
          /\ query'[k] \in Query /\ query'[k].data = query[k].data
          /\ query'[k].fetch = "answered" <=> query'[k].answer # NoData
    <3> SUFFICES ASSUME NEW k \in Kinds
                 PROVE  /\ query'[k] \in Query /\ query'[k].data = query[k].data
                        /\ query'[k].fetch = "answered" <=> query'[k].answer # NoData
      OBVIOUS
    <3>1. query[k] \in Query /\ (query[k].fetch = "answered" <=> query[k].answer # NoData)
      BY <1>1 DEF Queries, Good
    <3>2. query'[k] = query[k] \/ query'[k] = Invalidated(k)
      BY <1>3 DEF Refreshed
    <3> QED
      BY <1>1, <3>1, <3>2, InvalidatedType
  <2>2. query' = [k \in Kinds |-> query'[k]]
    BY <1>3 DEF Refreshed
  <2>3. Queries'
    BY <1>1, <2>1, <2>2 DEF Queries, Good
  <2> QED
    BY <1>1, <1>3, <2>1, <2>3
<1> QED
  BY <1>2, <1>3

\* A success reaches the page.
LEMMA SucceedStep == ASSUME IInv, NEW q \in Requests, Succeed(q) PROVE IInv'
<1>1. PICK r : r = requests[q]
  OBVIOUS
<1>2. /\ r \in Request
      /\ query' = Refreshed(r)
      /\ form' = Rewarded(r)
      /\ dialog' = [dialog EXCEPT !.link = (r.form = "share" /\ r.live) \/ @]
      /\ requests' = Heard([requests EXCEPT ![q] = NoRequest], form')
      /\ UNCHANGED <<stored, done, panel, changes>>
  BY <1>1 DEF Succeed, IInv, Typed
<1>3. /\ Queries'
      /\ r.form # "title" => query'["recording"].data = query["recording"].data
      /\ query'["recording"].data \in Data
  BY <1>2, RefreshedType
<1>4. PICK forms :
        /\ forms = IF r.form # "title" THEN form
                   ELSE IF Mounted
                   THEN Refilled(form, "recording", query'["recording"].data)
                   ELSE FormsOf(query'["recording"].data.rows, TRUE)
        /\ form' = IF ~r.live \/ r.form \in {"none", "share"} THEN forms
                   ELSE [forms EXCEPT ![r.form] =
                     IF r.form = "post" THEN [ClosedForm EXCEPT !.open = TRUE]
                     ELSE IF r.form = "title" THEN [@ EXCEPT !.open = FALSE]
                     ELSE ClosedForm]
  BY <1>2 DEF Rewarded
<1>5. forms \in [Forms -> Form]
  <2>1. query'["recording"].data.rows \in Rows
    BY <1>3 DEF Data
  <2> QED
    BY <1>3, <1>4, <2>1, RefilledType, FormsOfType DEF IInv, Typed, Kinds
<1>6. /\ [ClosedForm EXCEPT !.open = TRUE] \in Form
      /\ [forms["title"] EXCEPT !.open = FALSE] \in Form
      /\ [forms["title"] EXCEPT !.open = FALSE].text = forms["title"].text
      /\ [forms["title"] EXCEPT !.open = FALSE].touched = forms["title"].touched
  <2>1. forms["title"] \in Form
    BY <1>5 DEF Forms
  <2> QED
    BY <2>1, ClosedFormType DEF Form
<1>7. /\ form' \in [Forms -> Form]
      /\ form'["title"].text = forms["title"].text
      /\ form'["title"].touched = forms["title"].touched
  <2>1. r.form \in Forms \cup {"none"} /\ "title" \in Forms
    BY <1>2 DEF Request, Forms
  <2>2. CASE ~r.live \/ r.form \in {"none", "share"}
    BY <1>4, <1>5, <2>2
  <2>3. CASE ~(~r.live \/ r.form \in {"none", "share"}) /\ r.form = "title"
    <3>1. form' = [forms EXCEPT !["title"] = [@ EXCEPT !.open = FALSE]]
      BY <1>4, <2>3
    <3> QED
      BY <1>5, <1>6, <2>1, <3>1
  <2>4. CASE ~(~r.live \/ r.form \in {"none", "share"}) /\ r.form # "title"
    <3>1. PICK v \in Form : form' = [forms EXCEPT ![r.form] = v]
      BY <1>4, <1>6, <2>4, ClosedFormType
    <3> QED
      BY <1>5, <2>1, <2>4, <3>1
  <2> QED
    BY <2>2, <2>3, <2>4
<1>8. /\ [requests EXCEPT ![q] = NoRequest] \in [Requests -> Request]
      /\ Quieter([requests EXCEPT ![q] = NoRequest])
  BY ClosedFormType DEF IInv, Typed, Quieter, NoRequest
<1>9. requests' \in [Requests -> Request] /\ Quieter(requests')
  BY <1>2, <1>8, HeardType, HeardIsQuieter DEF IInv
<1>10. /\ dialog' \in Dialog /\ dialog'.clicked = dialog.clicked
       /\ dialog'.link => dialog.link \/ (r.form = "share" /\ r.live)
  <2>1. dialog \in Dialog
    BY DEF IInv, Typed
  <2> QED
    BY <1>2, <2>1 DEF Dialog
<1>11. Typed'
  BY <1>2, <1>3, <1>7, <1>9, <1>10 DEF IInv, Typed, Queries, Good
<1>12. OneAnswer' /\ ShareClicked' /\ LinkBelongsToForm'
  BY <1>1, <1>9, <1>10, OneAnswerKept, ShareClickedKept
    DEF IInv, LinkBelongsToForm, ShareClicked
<1>13. UntouchedIsShown'
  <2> DEFINE new == query'["recording"].data # query["recording"].data
  <2>1. CASE Mounted /\ r.form = "title" /\ new
    <3>1. /\ "title" \in Forms /\ KindOf("title") = "recording"
          /\ form["title"] \in Form
      BY DEF IInv, Typed, Forms, KindOf
    <3>2. forms["title"] = [form["title"] EXCEPT
                              !.text = query'["recording"].data.rows[Recording],
                              !.touched = FALSE]
      BY <1>4, <2>1, <3>1 DEF Refilled
    <3>3. forms["title"].text = query'["recording"].data.rows[Recording]
      BY <3>1, <3>2 DEF Form
    <3> QED
      BY <1>7, <3>3 DEF UntouchedIsShown, Shown
  <2>2. CASE ~Mounted /\ r.form = "title"
    <3>1. query'["recording"].data.rows \in Rows
      BY <1>3 DEF Data
    <3>2. forms["title"].text = query'["recording"].data.rows[Recording]
      BY <1>4, <2>2, <3>1, FormsOfType
    <3> QED
      BY <1>7, <3>2 DEF UntouchedIsShown, Shown
  <2>3. CASE r.form # "title" \/ (Mounted /\ ~new)
    <3>1. forms["title"] = form["title"]
      BY <1>4, <2>3 DEF Refilled, Forms
    <3> QED
      BY <1>3, <1>7, <2>3, <3>1, UntouchedKept DEF IInv, TitleKept
  <2> QED
    BY <2>1, <2>2, <2>3
<1> QED
  BY <1>11, <1>12, <1>13 DEF IInv

----------------------------------------------------------------------------
(* Catching up.  A list that has missed nothing is being asked, or its latest *)
(* answer is what is stored, or the success that has it asked is on its way.  *)

Latest(k) == IF query[k].fetch = "answered" THEN query[k].answer.rows ELSE Shown(k)

Coming(k) == \E q \in Requests : requests[q].stage = "accepted" /\ requests[q].kind = k

CaughtUp(k) ==
  query[k].missed \/ query[k].fetch = "asked" \/ Latest(k) = stored[k] \/ Coming(k)

OfTitle(reqs) ==
  \A q \in Requests : reqs[q].form = "title" => reqs[q].kind = "recording"

CatchUp == OfTitle(requests) /\ \A k \in Kinds : CaughtUp(k)

\* Requests that were accepted still are, and for the same list.
Onward(new) ==
  /\ OfTitle(new)
  /\ \A q \in Requests :
       requests[q].stage = "accepted" =>
         new[q].stage = "accepted" /\ new[q].kind = requests[q].kind

\* A list whose query and rows a step leaves alone.
LEMMA CaughtUpKept ==
  ASSUME NEW k \in Kinds, CaughtUp(k), Onward(requests'),
         query'[k] = query[k], stored'[k] = stored[k]
  PROVE  CaughtUp(k)'
<1>1. Coming(k) => Coming(k)'
  BY DEF Coming, Onward
<1>2. Latest(k)' = Latest(k)
  BY DEF Latest, Shown
<1> QED
  BY <1>1, <1>2 DEF CaughtUp

\* A step that neither stores nor fetches.
LEMMA OnwardStep ==
  ASSUME CatchUp, Onward(requests'), UNCHANGED <<stored, query>>
  PROVE  CatchUp'
<1>1. ASSUME NEW k \in Kinds PROVE CaughtUp(k)'
  BY <1>1, CaughtUpKept DEF CatchUp
<1> QED
  BY <1>1 DEF CatchUp, Onward, OfTitle

\* A step that has some queries asked, and leaves those it does not alone.
LEMMA AskStep ==
  ASSUME CatchUp, Onward(requests'), stored' = stored,
         \A k \in Kinds : query'[k] = query[k] \/ query'[k].fetch = "asked"
  PROVE  CatchUp'
<1>1. ASSUME NEW k \in Kinds PROVE CaughtUp(k)'
  <2>1. CASE query'[k] = query[k]
    BY <2>1, CaughtUpKept DEF CatchUp
  <2>2. CASE query'[k].fetch = "asked"
    BY <2>2 DEF CaughtUp
  <2> QED
    BY <2>1, <2>2
<1> QED
  BY <1>1 DEF CatchUp, Onward, OfTitle

\* A step that moves one query on, and has others asked at most.
LEMMA FetchStep ==
  ASSUME IInv, CatchUp, NEW k \in Kinds,
         \A j \in Kinds \ {k} : query'[j] = query[j] \/ query'[j].fetch = "asked",
         Onward(requests'), \A j \in Kinds \ {k} : stored'[j] = stored[j], CaughtUp(k)'
  PROVE  CatchUp'
<1>1. ASSUME NEW j \in Kinds PROVE CaughtUp(j)'
  <2>1. CASE j # k
    <3>1. CaughtUp(j) /\ (query'[j] = query[j] \/ query'[j].fetch = "asked")
      BY <2>1 DEF CatchUp
    <3>2. CASE query'[j] = query[j]
      BY <2>1, <3>1, <3>2, CaughtUpKept
    <3>3. CASE query'[j].fetch = "asked"
      BY <3>3 DEF CaughtUp
    <3> QED
      BY <3>1, <3>2, <3>3
  <2> QED
    BY <2>1
<1> QED
  BY <1>1 DEF CatchUp, Onward, OfTitle

\* Requests that are left alone go on.
LEMMA OnwardSame == ASSUME CatchUp PROVE Onward(requests)
  BY DEF CatchUp, Onward

\* Closing forms changes no request's course.
LEMMA OnwardHeard ==
  ASSUME NEW reqs \in [Requests -> Request], NEW forms
  PROVE  \A q \in Requests : /\ Heard(reqs, forms)[q].stage = reqs[q].stage
                             /\ Heard(reqs, forms)[q].kind = reqs[q].kind
                             /\ Heard(reqs, forms)[q].form = reqs[q].form
<1> SUFFICES ASSUME NEW q \in Requests
             PROVE  /\ Heard(reqs, forms)[q].stage = reqs[q].stage
                    /\ Heard(reqs, forms)[q].kind = reqs[q].kind
                    /\ Heard(reqs, forms)[q].form = reqs[q].form
  OBVIOUS
<1>1. reqs[q] \in Request
  OBVIOUS
<1>2. /\ [reqs[q] EXCEPT !.live = FALSE].stage = reqs[q].stage
      /\ [reqs[q] EXCEPT !.live = FALSE].kind = reqs[q].kind
      /\ [reqs[q] EXCEPT !.live = FALSE].form = reqs[q].form
  BY <1>1 DEF Request
<1> QED
  BY <1>2 DEF Heard

\* Nor does silencing some of them.
LEMMA OnwardSilenced ==
  ASSUME IInv, CatchUp, NEW S,
         requests' = [q \in Requests |->
           IF q \in S THEN [requests[q] EXCEPT !.live = FALSE] ELSE requests[q]]
  PROVE  Onward(requests')
<1> SUFFICES ASSUME NEW q \in Requests
             PROVE  /\ requests'[q].stage = requests[q].stage
                    /\ requests'[q].kind = requests[q].kind
                    /\ requests'[q].form = requests[q].form
  BY DEF CatchUp, Onward, OfTitle
<1>1. requests[q] \in Request
  BY DEF IInv, Typed
<1>2. /\ [requests[q] EXCEPT !.live = FALSE].stage = requests[q].stage
      /\ [requests[q] EXCEPT !.live = FALSE].kind = requests[q].kind
      /\ [requests[q] EXCEPT !.live = FALSE].form = requests[q].form
  BY <1>1 DEF Request
<1> QED
  BY <1>2

\* One request that was not accepted moves on.
LEMMA OnwardOne ==
  ASSUME IInv, CatchUp, NEW q \in Requests, requests[q].stage # "accepted", NEW v,
         requests' = [requests EXCEPT ![q] = v], v.form = "title" => v.kind = "recording"
  PROVE  Onward(requests')
<1>1. requests'[q] = v /\ \A p \in Requests \ {q} : requests'[p] = requests[p]
  BY DEF IInv, Typed
<1> QED
  BY <1>1 DEF CatchUp, Onward, OfTitle

\* What the user does to a form, short of sending it.
LEMMA FormsCatchUp ==
  ASSUME IInv, CatchUp,
         \/ \E i \in Ids :
              OpenReply(i) \/ OpenSong(i) \/ \E t \in Texts : OpenEdit(i, t)
         \/ OpenMarker \/ OpenShare \/ OpenTitle
         \/ \E t \in Texts \cup {NoText} :
              \/ \E f \in {"post", "reply"} : TypeComment(f, t)
              \/ \E f \in {"marker", "song"} : TypeMarker(f, t)
              \/ TypeEdit(t) \/ TypeShare(t) \/ TypeTitle(t)
         \/ CloseReply \/ CancelEdit \/ CloseTitle \/ CloseShare
         \/ \E f \in {"marker", "song"} : CancelMarker(f)
         \/ Reset \/ EditUnchanged
  PROVE  CatchUp'
<1>1. UNCHANGED <<stored, query>>
  BY DEF OpenReply, OpenSong, OpenEdit, OpenMarker, OpenShare, OpenTitle, OpenAs,
         TypeComment, TypeMarker, TypeEdit, TypeShare, TypeTitle, Holds,
         CloseReply, CancelEdit, CloseTitle, CloseShare, CancelMarker, CloseAs,
         Reset, EditUnchanged
<1>2. \/ requests' = requests
      \/ requests' = Heard(requests, form')
      \/ \E S \in SUBSET Requests :
           requests' = [q \in Requests |->
             IF q \in S THEN [requests[q] EXCEPT !.live = FALSE] ELSE requests[q]]
  <2>1. CASE \/ \E i \in Ids : OpenReply(i) \/ \E t \in Texts : OpenEdit(i, t)
             \/ OpenMarker \/ OpenShare \/ OpenTitle
    BY <2>1 DEF OpenReply, OpenEdit, OpenMarker, OpenShare, OpenTitle
  <2>2. CASE \E t \in Texts \cup {NoText} :
               \/ \E f \in {"post", "reply"} : TypeComment(f, t)
               \/ \E f \in {"marker", "song"} : TypeMarker(f, t)
               \/ TypeEdit(t) \/ TypeShare(t) \/ TypeTitle(t)
    BY <2>2 DEF TypeComment, TypeMarker, TypeEdit, TypeShare, TypeTitle, Holds
  <2>3. CASE \/ CloseReply \/ CancelEdit \/ CloseTitle \/ CloseShare
             \/ \E f \in {"marker", "song"} : CancelMarker(f)
    BY <2>3 DEF CloseReply, CancelEdit, CloseTitle, CloseShare, CancelMarker, CloseAs
  <2>4. CASE EditUnchanged
    BY <2>4 DEF EditUnchanged
  <2>5. CASE \E i \in Ids : OpenSong(i)
    <3>1. requests' = [q \in Requests |->
            IF q \in {p \in Requests : requests[p].form = "song"}
            THEN [requests[q] EXCEPT !.live = FALSE] ELSE requests[q]]
      BY <2>5 DEF OpenSong
    <3> QED
      BY <3>1
  <2>6. CASE Reset
    <3>1. requests' = [q \in Requests |->
            IF q \in {p \in Requests : requests[p].form = "share"}
            THEN [requests[q] EXCEPT !.live = FALSE] ELSE requests[q]]
      BY <2>6 DEF Reset
    <3> QED
      BY <3>1
  <2> QED
    BY <2>1, <2>2, <2>3, <2>4, <2>5, <2>6
<1>3. CASE requests' = Heard(requests, form')
  <2>1. Onward(requests')
    BY <1>3, OnwardHeard DEF IInv, Typed, CatchUp, Onward, OfTitle
  <2> QED
    BY <1>1, <2>1, OnwardStep
<1> QED
  BY <1>1, <1>2, <1>3, OnwardStep, OnwardSame, OnwardSilenced

\* Another tab, whose list is read again.
LEMMA SwitchTabCatchUp == ASSUME IInv, CatchUp, SwitchTab PROVE CatchUp'
<1> DEFINE S == {p \in Requests : requests[p].kind = panel /\ requests[p].form # "share"}
<1>1. requests' = [q \in Requests |->
        IF q \in S THEN [requests[q] EXCEPT !.live = FALSE] ELSE requests[q]]
  BY DEF SwitchTab
<1>2. Onward(requests')
  BY <1>1, OnwardSilenced
<1>3. ASSUME NEW k \in Kinds
      PROVE  query'[k] = query[k] \/ query'[k].fetch = "asked"
  <2>1. /\ query[k] \in Query
        /\ query[k].fetch = "answered" <=> query[k].answer # NoData
    BY DEF IInv, Typed
  <2>2. query'[k] = query[k] \/ query'[k] = Remounted(query[k])
    BY DEF SwitchTab
  <2> QED
    BY <2>1, <2>2, RemountedType
<1>4. stored' = stored
  BY DEF SwitchTab
<1> QED
  BY <1>2, <1>3, <1>4, AskStep

\* A request is sent: nobody has accepted it yet.
LEMMA SendCatchUp ==
  ASSUME IInv, CatchUp, NEW q \in Requests, NEW f \in Forms \cup {"none"}, NEW k, NEW i, NEW t,
         Send(q, f, k, i, t), f = "title" => k = "recording", UNCHANGED <<stored, query>>
  PROVE  CatchUp'
<1> DEFINE r == [form |-> f, kind |-> k, item |-> i, text |-> t, live |-> TRUE,
                 stage |-> "sent", done |-> FALSE]
<1>1. requests' = [requests EXCEPT ![q] = r] /\ requests[q].stage # "accepted"
  BY DEF Send, NoRequest
<1>2. r.form = "title" => r.kind = "recording"
  OBVIOUS
<1> HIDE DEF r
<1>3. Onward(requests')
  BY <1>1, <1>2, OnwardOne
<1> QED
  BY <1>3, OnwardStep

\* The user submits a form, deletes an item or toggles a tag.
LEMMA SubmitsCatchUp ==
  ASSUME IInv, CatchUp, NEW q \in Requests,
         \/ \E f \in {"post", "reply"} : PostComment(q, f)
         \/ \E f \in {"marker", "song"} : SaveMarker(q, f)
         \/ UpdateComment(q) \/ CreateShare(q) \/ SaveTitle(q)
         \/ \E i \in Ids : DeleteComment(q, i) \/ DeleteSong(q, i) \/ DeleteShare(q, i)
         \/ ToggleTag(q)
  PROVE  CatchUp'
<1>1. ASSUME NEW f \in Forms, Submit(q, f) PROVE CatchUp'
  <2>1. f = "title" => KindOf(f) = "recording"
    BY KindOfForms
  <2> QED
    BY <1>1, <2>1, SendCatchUp DEF Submit
<1>2. ASSUME NEW i \in Ids, Erase(q, i) PROVE CatchUp'
  BY <1>2, SendCatchUp DEF Erase
<1>3. CASE ToggleTag(q)
  BY <1>3, SendCatchUp DEF ToggleTag
<1>4. \/ \E f \in Forms : Submit(q, f)
      \/ \E i \in Ids : Erase(q, i)
      \/ ToggleTag(q)
  BY DEF PostComment, SaveMarker, UpdateComment, CreateShare, SaveTitle, DeleteComment,
         DeleteSong, DeleteShare, Forms
<1> QED
  BY <1>1, <1>2, <1>3, <1>4

\* The server answers a query with what it stores; the answer reaches the page;
\* or it is lost.
LEMMA QueriesCatchUp ==
  ASSUME IInv, CatchUp, NEW k \in Kinds, Answer(k) \/ Arrive(k) \/ Lose(k)
  PROVE  CatchUp'
<1>1. query[k] \in Query /\ query[k].missed \in BOOLEAN
  BY DEF IInv, Typed, Query
<1>2. CASE Answer(k)
  <2> DEFINE v == [query[k] EXCEPT !.fetch = "answered",
                                   !.answer = Now(k)]
  <2>1. query' = [query EXCEPT ![k] = v] /\ UNCHANGED <<stored, requests>>
    BY <1>2 DEF Answer
  <2>2. v.fetch = "answered" /\ v.answer.rows = stored[k]
    BY <1>1 DEF Query, Now
  <2> HIDE DEF v
  <2>3. query'[k] = v /\ \A j \in Kinds \ {k} : query'[j] = query[j]
    BY <2>1 DEF IInv, Typed
  <2>4. CaughtUp(k)'
    BY <2>1, <2>2, <2>3 DEF CaughtUp, Latest
  <2> QED
    BY <2>1, <2>3, <2>4, FetchStep, OnwardSame
<1>3. CASE Arrive(k)
  <2> DEFINE v == [query[k] EXCEPT !.fetch = "idle", !.data = query[k].answer,
                                   !.answer = NoData, !.err = FALSE]
             w == [query EXCEPT ![k] = v]
  <2>1. query' = WithLists(w) /\ UNCHANGED stored
    BY <1>3 DEF Arrive
  <2>2. v.fetch = "idle" /\ v.data = query[k].answer /\ v.missed = query[k].missed
    BY <1>1 DEF Query
  <2>3. Good(w)
    <3>1. Queries /\ query[k].answer \in Data
      BY <1>1, <1>3 DEF Arrive, IInv, Typed, Queries, Good, Query
    <3>2. v \in Query /\ v.answer = NoData /\ v.data # NoData
      BY <1>1, <3>1, NoDataAssumption DEF Query
    <3> QED
      BY <2>2, <3>1, <3>2, GoodKept
  <2> HIDE DEF v
  <2>4. w[k] = v /\ \A j \in Kinds \ {k} : w[j] = query[j]
    BY DEF IInv, Typed
  <2> HIDE DEF w
  <2>5. \A j \in Kinds : query'[j] = w[j] \/ query'[j].fetch = "asked"
    BY <2>1, <2>3, WithListsType
  <2>6. Onward(requests')
    <3>1. requests' = Heard(requests, form') /\ requests \in [Requests -> Request]
      BY <1>3 DEF Arrive, IInv, Typed
    <3>2. \A q \in Requests : /\ requests'[q].stage = requests[q].stage
                              /\ requests'[q].kind = requests[q].kind
                              /\ requests'[q].form = requests[q].form
      BY <3>1, OnwardHeard
    <3> QED
      BY <3>2 DEF CatchUp, Onward, OfTitle
  <2>7. CASE query'[k] = v
    <3>1. Latest(k)' = Latest(k) /\ (Coming(k) => Coming(k)')
      BY <1>3, <2>2, <2>6, <2>7 DEF Arrive, Latest, Shown, Coming, Onward
    <3>2. query[k].fetch # "asked" /\ CaughtUp(k)
      BY <1>3 DEF Arrive, CatchUp
    <3> QED
      BY <2>1, <2>2, <2>4, <2>5, <2>6, <2>7, <3>1, <3>2, FetchStep DEF CaughtUp
  <2>8. CASE query'[k].fetch = "asked"
    BY <2>1, <2>4, <2>5, <2>6, <2>8, AskStep
  <2> QED
    BY <2>4, <2>5, <2>7, <2>8
<1>4. CASE Lose(k)
  <2> DEFINE v == [query[k] EXCEPT !.fetch = "idle", !.answer = NoData, !.missed = TRUE,
                                   !.err = (k = "recording")]
  <2>1. query' = [query EXCEPT ![k] = v] /\ UNCHANGED stored
    BY <1>4 DEF Lose
  <2>2. v.missed
    BY <1>1 DEF Query
  <2> HIDE DEF v
  <2>3. query'[k] = v /\ \A j \in Kinds \ {k} : query'[j] = query[j]
    BY <2>1 DEF IInv, Typed
  <2>4. CaughtUp(k)'
    BY <2>2, <2>3 DEF CaughtUp
  <2>5. \/ requests' = requests
        \/ requests' = [q \in Requests |->
             IF q \in Requests THEN [requests[q] EXCEPT !.live = FALSE] ELSE requests[q]]
    BY <1>4 DEF Lose
  <2>6. Onward(requests')
    BY <2>5, OnwardSame, OnwardSilenced
  <2> QED
    BY <2>1, <2>3, <2>4, <2>6, FetchStep
<1> QED
  BY <1>2, <1>3, <1>4

\* The recording is polled, or another user renames it.
LEMMA RecordingCatchUp ==
  ASSUME IInv, CatchUp, Poll \/ \E t \in Texts : Rename(t)
  PROVE  CatchUp'
<1>1. "recording" \in Kinds /\ query["recording"] \in Query
  BY DEF IInv, Typed, Kinds
<1>2. CASE Poll
  <2> DEFINE v == [query["recording"] EXCEPT !.fetch = "asked", !.missed = FALSE]
  <2>1. query' = [query EXCEPT !["recording"] = v] /\ UNCHANGED <<stored, requests>>
    BY <1>2 DEF Poll
  <2>2. v.fetch = "asked"
    BY <1>1 DEF Query
  <2> HIDE DEF v
  <2>3. query'["recording"] = v /\ \A j \in Kinds \ {"recording"} : query'[j] = query[j]
    BY <1>1, <2>1 DEF IInv, Typed
  <2>4. CaughtUp("recording")'
    BY <2>2, <2>3 DEF CaughtUp
  <2> QED
    BY <1>1, <2>1, <2>3, <2>4, FetchStep, OnwardSame
<1>3. CASE \E t \in Texts : Rename(t)
  <2>1. PICK v : /\ query' = [query EXCEPT !["recording"] = v]
                 /\ v.missed \/ v.fetch = "asked"
    <3>1. CASE query["recording"].fetch = "asked"
      <4>1. query' = [query EXCEPT !["recording"] = query["recording"]]
        BY <1>3, <3>1 DEF Rename, IInv, Typed
      <4> QED
        BY <3>1, <4>1
    <3>2. CASE query["recording"].fetch # "asked"
      <4>1. query' = [query EXCEPT !["recording"] =
                        [query["recording"] EXCEPT !.missed = TRUE]]
        BY <1>3, <3>2 DEF Rename
      <4>2. [query["recording"] EXCEPT !.missed = TRUE].missed
        BY <1>1 DEF Query
      <4> QED
        BY <4>1, <4>2
    <3> QED
      BY <3>1, <3>2
  <2>2. query'["recording"] = v /\ \A j \in Kinds \ {"recording"} : query'[j] = query[j]
    BY <1>1, <2>1 DEF IInv, Typed
  <2>3. CaughtUp("recording")'
    BY <2>1, <2>2 DEF CaughtUp
  <2>4. requests' = requests /\ \A j \in Kinds \ {"recording"} : stored'[j] = stored[j]
    BY <1>3 DEF Rename, IInv, Typed
  <2> QED
    BY <1>1, <2>2, <2>3, <2>4, FetchStep, OnwardSame
<1> QED
  BY <1>2, <1>3

\* The server accepts a mutation, which is news for its list, or refuses it.
LEMMA ServerCatchUp ==
  ASSUME IInv, CatchUp, NEW q \in Requests, Store(q) \/ Refuse(q) \/ Fail(q)
  PROVE  CatchUp'
<1>1. requests[q] \in Request /\ (requests[q].form = "title" => requests[q].kind = "recording")
  BY DEF IInv, Typed, CatchUp, OfTitle
<1>2. CASE Refuse(q) \/ Fail(q)
  <2>1. PICK v : /\ requests' = [requests EXCEPT ![q] = v]
                 /\ v.form = "title" => v.kind = "recording"
    <3>1. CASE Refuse(q)
      <4>1. requests' = [requests EXCEPT ![q] = [requests[q] EXCEPT !.stage = "refused"]]
        BY <3>1 DEF Refuse, IInv, Typed
      <4>2. /\ [requests[q] EXCEPT !.stage = "refused"].form = requests[q].form
            /\ [requests[q] EXCEPT !.stage = "refused"].kind = requests[q].kind
        BY <1>1 DEF Request
      <4> QED
        BY <1>1, <4>1, <4>2
    <3>2. CASE Fail(q)
      <4>1. requests' = [requests EXCEPT ![q] = NoRequest] /\ NoRequest.form # "title"
        BY <3>2 DEF Fail, NoRequest
      <4> QED
        BY <4>1
    <3> QED
      BY <1>2, <3>1, <3>2
  <2>2. requests[q].stage # "accepted" /\ UNCHANGED <<stored, query>>
    BY <1>2 DEF Refuse, Fail
  <2>3. Onward(requests')
    BY <2>1, <2>2, OnwardOne
  <2> QED
    BY <2>2, <2>3, OnwardStep
<1>3. CASE Store(q)
  <2> DEFINE v == [requests[q] EXCEPT !.stage = "accepted", !.done = done]
  <2>1. PICK k \in Kinds : k = requests[q].kind
    BY <1>1 DEF Request
  <2>2. /\ requests' = [requests EXCEPT ![q] = v] /\ query' = query
        /\ requests[q].stage # "accepted"
    BY <1>3 DEF Store
  <2>3. v.stage = "accepted" /\ v.kind = k /\ v.form = requests[q].form
    BY <1>1, <2>1 DEF Request
  <2>4. \A j \in Kinds \ {k} : stored'[j] = stored[j]
    <3>1. PICK i : stored' = IF requests[q].item = NoItem /\ ~New(requests[q]) THEN stored
                             ELSE [stored EXCEPT ![requests[q].kind][i] = RowOf(requests[q])]
      BY <1>3 DEF Store
    <3> QED
      BY <2>1, <3>1 DEF IInv, Typed
  <2> HIDE DEF v
  <2>5. Onward(requests')
    BY <1>1, <2>1, <2>2, <2>3, OnwardOne
  <2>6. requests'[q] = v
    BY <2>2 DEF IInv, Typed
  <2>7. CaughtUp(k)'
    BY <2>3, <2>6 DEF CaughtUp, Coming
  <2> QED
    BY <2>2, <2>4, <2>5, <2>7, FetchStep
<1> QED
  BY <1>2, <1>3

\* What an invalidated query will show: it asks again, or is known to have missed
\* the change.
LEMMA InvalidatedAsks ==
  ASSUME NEW k \in Kinds, query[k] \in Query
  PROVE  Invalidated(k).missed \/ Invalidated(k).fetch = "asked"
<1> DEFINE q == query[k]
           m == q.missed \/ q.fetch # "asked"
<1>1. CASE Invalidated(k) = [q EXCEPT !.missed = m]
  <2>1. Invalidated(k).fetch = q.fetch /\ Invalidated(k).missed = m
    BY <1>1 DEF Query
  <2>2. CASE q.fetch = "asked"
    BY <2>1, <2>2
  <2>3. CASE q.fetch # "asked"
    <3>1. m
      BY <2>3
    <3> QED
      BY <2>1, <3>1
  <2> QED
    BY <2>2, <2>3
<1>2. CASE Invalidated(k) = [q EXCEPT !.fetch = "asked", !.answer = NoData, !.missed = FALSE]
  BY <1>2 DEF Query
<1> QED
  BY <1>1, <1>2 DEF Invalidated

\* What a written query shows is what is stored, or it will be replaced.
LEMMA WrittenShows ==
  ASSUME NEW q \in Query, NEW data \in Data
  PROVE  \/ Written(q, data).missed
         \/ Written(q, data).fetch = "asked"
         \/ /\ Written(q, data).fetch = "idle"
            /\ Written(q, data).data.rows = stored["recording"]
<1> DEFINE w == Written(q, data)
           m == q.missed \/ q.fetch = "answered" \/ data.rows # stored["recording"]
<1>1. w = [q EXCEPT !.data = data, !.err = FALSE, !.missed = m]
  BY DEF Written
<1>2. w.fetch = q.fetch /\ w.data = data
  BY <1>1 DEF Query
<1>3. w.missed = m
  BY <1>1 DEF Query
<1>4. q.fetch \in {"idle", "asked", "answered"}
  BY DEF Query
<1>5. CASE m
  BY <1>3, <1>5
<1>6. CASE ~m
  <2>1. q.fetch # "answered" /\ data.rows = stored["recording"]
    BY <1>6
  <2> HIDE DEF w
  <2>2. (w.fetch = "asked" \/ w.fetch = "idle") /\ w.data.rows = stored["recording"]
    BY <1>2, <1>4, <2>1
  <2> QED
    BY <2>2 DEF w
<1> QED
  BY <1>5, <1>6

\* A success reaches the page: its list asks again, or is written.
LEMMA SucceedCatchUp == ASSUME IInv, CatchUp, NEW q \in Requests, Succeed(q) PROVE CatchUp'
<1>1. PICK r : r = requests[q]
  OBVIOUS
<1>2. /\ r \in Request /\ (r.form = "title" => r.kind = "recording")
      /\ query' = Refreshed(r) /\ stored' = stored
      /\ requests' = Heard([requests EXCEPT ![q] = NoRequest], form')
  BY <1>1 DEF Succeed, IInv, Typed, CatchUp, OfTitle
<1>3. /\ \A p \in Requests \ {q} : /\ requests'[p].stage = requests[p].stage
                                   /\ requests'[p].kind = requests[p].kind
                                   /\ requests'[p].form = requests[p].form
      /\ requests'[q].form = "none"
  <2>1. [requests EXCEPT ![q] = NoRequest] \in [Requests -> Request]
    BY ClosedFormType DEF IInv, Typed
  <2>2. /\ [requests EXCEPT ![q] = NoRequest][q].form = "none"
        /\ \A p \in Requests \ {q} : [requests EXCEPT ![q] = NoRequest][p] = requests[p]
    BY DEF IInv, Typed, NoRequest
  <2> QED
    BY <1>2, <2>1, <2>2, OnwardHeard
<1>4. OfTitle(requests')
  BY <1>3 DEF CatchUp, OfTitle
<1>5. \A k \in Kinds \ {r.kind} : Coming(k) => Coming(k)'
  BY <1>1, <1>3 DEF Coming
<1>6. ASSUME NEW k \in Kinds PROVE CaughtUp(k)'
  <2>1. query[k] \in Query /\ CaughtUp(k)
    BY DEF IInv, Typed, CatchUp
  <2>2. CASE k # r.kind /\ query'[k] = query[k]
    <3>1. Latest(k)' = Latest(k)
      BY <2>2 DEF Latest, Shown
    <3> QED
      BY <1>2, <1>5, <2>1, <2>2, <3>1 DEF CaughtUp
  <2>3. CASE query'[k] = Invalidated(k) \/ query'[k].fetch = "asked"
    BY <2>1, <2>3, InvalidatedAsks DEF CaughtUp
  <2>4. CASE r.form = "title" /\ k = "recording" /\ query'[k].fetch # "asked"
    <3> DEFINE data == [rows |-> [Shown("recording") EXCEPT ![Recording] = r.text],
                        done |-> r.done]
    <3>1. query["recording"].data \in Data
      BY <2>1, <2>4 DEF IInv, Typed, Query
    <3>2. data \in Data
      BY <1>2, <3>1 DEF Data, Shown, Rows, Request
    <3>3. query'[k] = Written(query[k], data)
      <4> DEFINE v == Written(query["recording"], data)
                 w == [query EXCEPT !["recording"] = v]
      <4>1. /\ Queries /\ v \in Query /\ v.data = data
            /\ v.fetch = "answered" <=> v.answer # NoData
        BY <2>1, <2>4, <3>2, WrittenType DEF IInv, Typed, Queries, Good
      <4>2. Good(w) /\ w["recording"] = v
        BY <2>4, <3>2, <4>1, GoodKept, NoDataAssumption DEF Queries, Good
      <4>3. query' = WithLists(w)
        BY <1>2, <2>4 DEF Refreshed, TitleWritten
      <4> HIDE DEF w, v
      <4>4. query'["recording"] = v
        BY <4>2, <4>3, WithListsType
      <4> QED
        BY <2>4, <4>4 DEF v
    <3> HIDE DEF data
    <3>4. \/ query'[k].missed \/ query'[k].fetch = "asked"
          \/ query'[k].fetch = "idle" /\ query'[k].data.rows = stored[k]
      BY <2>1, <2>4, <3>2, <3>3, WrittenShows
    <3> QED
      BY <1>2, <3>4 DEF CaughtUp, Latest, Shown
  <2>5. \/ k # r.kind /\ query'[k] = query[k]
        \/ query'[k] = Invalidated(k) \/ query'[k].fetch = "asked"
        \/ r.form = "title" /\ k = "recording" /\ query'[k].fetch # "asked"
    <3>1. CASE r.form = "title" /\ k # "recording"
      <4>1. k # r.kind
        BY <1>2, <3>1
      <4>2. PICK w : query' = WithLists(w) /\ w[k] = query[k]
        <5>1. PICK v : query' = WithLists([query EXCEPT !["recording"] = v])
          BY <1>2, <3>1 DEF Refreshed, TitleWritten
        <5>2. [query EXCEPT !["recording"] = v][k] = query[k]
          BY <3>1 DEF IInv, Typed
        <5> QED
          BY <5>1, <5>2
      <4>3. query'[k] = query[k] \/ query'[k] = Remounted(query[k])
        BY <4>2 DEF WithLists
      <4>4. /\ query[k] \in Query
            /\ query[k].fetch = "answered" <=> query[k].answer # NoData
        BY DEF IInv, Typed
      <4> QED
        BY <4>1, <4>3, <4>4, RemountedType
    <3>2. CASE r.form # "title"
      <4>1. query'[k] = IF k \in Stales(r) THEN Invalidated(k) ELSE query[k]
        BY <1>2, <3>2 DEF Refreshed
      <4>2. r.kind \in Stales(r)
        BY <1>2 DEF Stales, CommentStales, SongStales, ShareStales, TagStales, Request,
                    Kinds, Lists
      <4> QED
        BY <4>1, <4>2
    <3> QED
      BY <3>1, <3>2
  <2> QED
    BY <2>2, <2>3, <2>4, <2>5
<1> QED
  BY <1>4, <1>6 DEF CatchUp

----------------------------------------------------------------------------
(* The theorems. *)

\* A page that opens satisfies the invariant.
LEMMA InitOK == Init => IInv
<1> SUFFICES ASSUME Init PROVE IInv
  OBVIOUS
<1>1. PICK t \in Texts, i \in Ids :
        stored = [k \in Kinds |->
          IF k = "recording" THEN [Empty EXCEPT ![Recording] = t]
          ELSE IF k = panel THEN [Empty EXCEPT ![i] = t] ELSE Empty]
  BY DEF Init
<1>2. PICK loading \in SUBSET (Lists \cap {panel}) :
        query = [k \in Kinds |-> IF k \in loading THEN Asking ELSE Loaded(k)]
  BY DEF Init
<1>3. Empty \in Rows /\ \A j \in Items : [Empty EXCEPT ![j] = t] \in Rows
  BY DEF Empty, Rows, Text
<1>4. stored \in [Kinds -> Rows]
  BY <1>1, <1>3 DEF Items
<1>5. Asking \in Query /\ Asking.fetch # "answered" /\ Asking.answer = NoData
  BY DEF Asking, Query
<1>6. ASSUME NEW k \in Kinds
      PROVE  /\ Loaded(k) \in Query /\ Loaded(k).data # NoData
             /\ Loaded(k).data.rows = stored[k]
             /\ Loaded(k).fetch # "answered" /\ Loaded(k).answer = NoData
  <2>1. Now(k) \in Data /\ Now(k).rows = stored[k]
    BY <1>4 DEF Data, Now, Init
  <2> QED
    BY <2>1, NoDataAssumption DEF Loaded, Query
<1>7. query["recording"] = Loaded("recording") /\ "recording" \in Kinds
  BY <1>2 DEF Kinds, Lists
<1>8. /\ query \in [Kinds -> Query]
      /\ \A k \in Kinds : query[k].fetch = "answered" <=> query[k].answer # NoData
  BY <1>2, <1>5, <1>6
<1>9. /\ form \in [Forms -> Form]
      /\ form["title"].text = stored["recording"][Recording]
  BY <1>4, <1>7, FormsOfType DEF Init
<1>10. \A q \in Requests : requests[q] = NoRequest /\ ~NoRequest.live
  BY DEF Init, NoRequest
<1>11. requests \in [Requests -> Request] /\ dialog \in Dialog /\ ~dialog.link
  BY ClosedFormType, RecordingPageAssumption DEF Init, Dialog, NoDialog
<1>12. Typed
  <2>1. changes \in 0..MaxChanges
    BY RecordingPageAssumption DEF Init
  <2>2. query["recording"].data # NoData
    BY <1>4, <1>6, <1>7
  <2> QED
    BY <1>4, <1>8, <1>9, <1>11, <2>1, <2>2 DEF Init, Typed
<1>13. OneAnswer /\ ShareClicked /\ LinkBelongsToForm
  BY <1>10, <1>11 DEF OneAnswer, Sent, ShareClicked, LinkBelongsToForm
<1>14. UntouchedIsShown
  BY <1>4, <1>6, <1>7, <1>9 DEF UntouchedIsShown, Shown
<1> QED
  BY <1>12, <1>13, <1>14 DEF IInv

\* Every step preserves the invariant.
LEMMA StepOK == IInv /\ [Next]_vars => IInv'
<1> SUFFICES ASSUME IInv, [Next]_vars PROVE IInv'
  OBVIOUS
<1>1. CASE UNCHANGED vars
  <2>1. Typed' /\ Quieter(requests')
    BY <1>1 DEF vars, IInv, Typed, Quieter
  <2> QED
    BY <1>1, <2>1, QuietStep DEF vars, TitleKept
<1>2. CASE Poll \/ Finish
  BY <1>2, PollStep, FinishStep
<1>3. ASSUME NEW t \in Texts, Rename(t) PROVE IInv'
  BY <1>3, RenameStep
<1>4. ASSUME NEW k \in Kinds, Answer(k) \/ Arrive(k) \/ Lose(k) PROVE IInv'
  BY <1>4, AnswerStep, ArriveStep, LoseStep
<1>5. ASSUME NEW i \in Ids, OpenReply(i) \/ \E t \in Texts : OpenEdit(i, t) PROVE IInv'
  BY <1>5, OpenStep
<1>6. ASSUME NEW i \in Ids, OpenSong(i) PROVE IInv'
  BY <1>6, OpenSongStep
<1>7. CASE OpenMarker \/ OpenShare \/ OpenTitle
  BY <1>7, OpenStep
<1>8. ASSUME NEW t \in Texts \cup {NoText},
             \/ \E f \in {"post", "reply"} : TypeComment(f, t)
             \/ \E f \in {"marker", "song"} : TypeMarker(f, t)
             \/ TypeEdit(t) \/ TypeShare(t) \/ TypeTitle(t)
      PROVE  IInv'
  BY <1>8, TypeStep
<1>9. CASE \/ CloseReply \/ CancelEdit \/ CloseTitle \/ CloseShare \/ EditUnchanged
           \/ \E f \in {"marker", "song"} : CancelMarker(f)
  BY <1>9, CloseStep
<1>10. CASE Reset \/ SwitchTab
  BY <1>10, ResetStep, SwitchTabStep
<1>11. ASSUME NEW q \in Requests,
              \/ \E f \in {"post", "reply"} : PostComment(q, f)
              \/ \E f \in {"marker", "song"} : SaveMarker(q, f)
              \/ UpdateComment(q) \/ CreateShare(q) \/ SaveTitle(q)
       PROVE  IInv'
  BY <1>11, SubmitsStep
<1>12. ASSUME NEW q \in Requests,
              \/ \E i \in Ids : DeleteComment(q, i) \/ DeleteSong(q, i) \/ DeleteShare(q, i)
              \/ ToggleTag(q)
       PROVE  IInv'
  BY <1>12, EraseStep
<1>13. ASSUME NEW q \in Requests, Store(q) \/ Refuse(q) \/ Fail(q) \/ Succeed(q) PROVE IInv'
  BY <1>13, StoreStep, RefuseStep, FailStep, SucceedStep
<1> QED
  BY <1>1, <1>2, <1>3, <1>4, <1>5, <1>6, <1>7, <1>8, <1>9, <1>10, <1>11, <1>12, <1>13 DEF Next

\* The invariant holds throughout.
LEMMA Invariance == Spec => []IInv
  BY InitOK, StepOK, PTL DEF Spec

\* Every variable keeps its type, and a form of the recording page never waits
\* for two answers at once, however often its button is clicked
\* (CommentForm.tsx:82-107, ShareDialog.tsx:215-223).
THEOREM TypesHold == Spec => []TypeOK
<1>1. IInv => TypeOK
  <2> SUFFICES ASSUME IInv, NEW f \in Forms PROVE Cardinality(Sent(f)) <= 1
    BY DEF IInv, TypeOK
  <2>1. CASE Sent(f) = {}
    BY <2>1, FS_EmptySet
  <2>2. CASE Sent(f) # {}
    <3>1. PICK q \in Sent(f) : Sent(f) = {q}
      BY <2>2 DEF IInv, OneAnswer
    <3> QED
      BY <3>1, FS_Singleton
  <2> QED
    BY <2>1, <2>2
<1> QED
  BY <1>1, Invariance, PTL

\* A share link is shown only in a dialog whose Create Link was clicked since it
\* was last reset (ShareDialog.tsx:35-49), for any number of dialogs opened and
\* requests in flight.
THEOREM LinkBelongs == Spec => []LinkBelongsToForm
<1>1. IInv => LinkBelongsToForm
  BY DEF IInv
<1> QED
  BY <1>1, Invariance, PTL

\* The title field of an Edit dialog nobody has typed into holds the title the page
\* shows (RecordingEditDialog.tsx:38-53), whatever arrives, fails and in whatever
\* order.
THEOREM UntouchedShown == Spec => []UntouchedIsShown
<1>1. IInv => UntouchedIsShown
  BY DEF IInv
<1> QED
  BY <1>1, Invariance, PTL

\* A page that opens has missed nothing.
LEMMA CatchUpInit == Init => CatchUp
<1> SUFFICES ASSUME Init PROVE CatchUp
  OBVIOUS
<1>1. OfTitle(requests)
  BY DEF Init, OfTitle, NoRequest
<1>2. ASSUME NEW k \in Kinds PROVE CaughtUp(k)
  <2>1. PICK loading \in SUBSET (Lists \cap {panel}) :
          query = [j \in Kinds |-> IF j \in loading THEN Asking ELSE Loaded(j)]
    BY DEF Init
  <2>2. query[k] = Asking \/ query[k] = Loaded(k)
    BY <2>1
  <2> QED
    BY <2>2 DEF Asking, Loaded, Now, CaughtUp, Latest, Shown
<1> QED
  BY <1>1, <1>2 DEF CatchUp

\* Every step keeps every list caught up, or on its way.
LEMMA CatchUpStep == IInv /\ CatchUp /\ [Next]_vars => CatchUp'
<1> SUFFICES ASSUME IInv, CatchUp, [Next]_vars PROVE CatchUp'
  OBVIOUS
<1>1. CASE UNCHANGED vars \/ Finish
  <2>1. UNCHANGED <<stored, query, requests>>
    BY <1>1 DEF vars, Finish
  <2> QED
    BY <2>1, OnwardStep, OnwardSame
<1>2. CASE Poll \/ \E t \in Texts : Rename(t)
  BY <1>2, RecordingCatchUp
<1>3. CASE SwitchTab
  BY <1>3, SwitchTabCatchUp
<1>4. ASSUME NEW k \in Kinds, Answer(k) \/ Arrive(k) \/ Lose(k) PROVE CatchUp'
  BY <1>4, QueriesCatchUp
<1>5. CASE \/ \E i \in Ids :
                OpenReply(i) \/ OpenSong(i) \/ \E t \in Texts : OpenEdit(i, t)
           \/ OpenMarker \/ OpenShare \/ OpenTitle
           \/ \E t \in Texts \cup {NoText} :
                \/ \E f \in {"post", "reply"} : TypeComment(f, t)
                \/ \E f \in {"marker", "song"} : TypeMarker(f, t)
                \/ TypeEdit(t) \/ TypeShare(t) \/ TypeTitle(t)
           \/ CloseReply \/ CancelEdit \/ CloseTitle \/ CloseShare
           \/ \E f \in {"marker", "song"} : CancelMarker(f)
           \/ Reset \/ EditUnchanged
  BY <1>5, FormsCatchUp
<1>6. ASSUME NEW q \in Requests,
             \/ \E f \in {"post", "reply"} : PostComment(q, f)
             \/ \E f \in {"marker", "song"} : SaveMarker(q, f)
             \/ UpdateComment(q) \/ CreateShare(q) \/ SaveTitle(q)
             \/ \E i \in Ids : DeleteComment(q, i) \/ DeleteSong(q, i) \/ DeleteShare(q, i)
             \/ ToggleTag(q)
      PROVE  CatchUp'
  BY <1>6, SubmitsCatchUp
<1>7. ASSUME NEW q \in Requests, Store(q) \/ Refuse(q) \/ Fail(q) \/ Succeed(q) PROVE CatchUp'
  BY <1>7, ServerCatchUp, SucceedCatchUp
<1> QED
  BY <1>1, <1>2, <1>3, <1>4, <1>5, <1>6, <1>7 DEF Next

\* Once every mutation of a list has been answered and its fetch has arrived, the
\* list shows what the server stores (comments.ts:47-92, songs.ts:39-78,
\* shares.ts:31-80, recordings.ts:118-131, tags.ts:42-67), for any number of
\* mutations in flight, sent, stored, answered and restarted in any order.
THEOREM PageIsCurrent == Spec => []PageCatchesUp
<1>1. IInv /\ CatchUp => PageCatchesUp
  <2> SUFFICES ASSUME IInv, CatchUp, NEW k \in Kinds,
                      query[k].fetch = "idle", ~query[k].missed,
                      \A q \in Requests : requests[q].kind = k => requests[q] = NoRequest
               PROVE  Shown(k) = stored[k]
    BY DEF PageCatchesUp
  <2>1. ~Coming(k)
    BY DEF Coming, NoRequest
  <2> QED
    BY <2>1 DEF CatchUp, CaughtUp, Latest
<1>2. Spec => []CatchUp
  BY Invariance, CatchUpInit, CatchUpStep, PTL DEF Spec
<1> QED
  BY <1>1, <1>2, Invariance, PTL

=============================================================================
