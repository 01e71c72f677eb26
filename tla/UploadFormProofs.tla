-------------------------- MODULE UploadFormProofs --------------------------
(***************************************************************************)
(* Safety of the upload form, for any number of files, tags, batches,      *)
(* polls and recordings.  The strengthening relates the three accounts the *)
(* form keeps of a file - Uppy's list, its own entries and the analyses in *)
(* flight - and says what may no longer change once a file is being sent.  *)
(***************************************************************************)
EXTENDS UploadForm, FiniteSetTheorems, WellFoundedInduction, TLAPS

\* The rows: a chosen file was given to an analysis, has its entries once that
\* has ended, and what is typed is in Uppy's metadata.
Dated(f) == dates[f] # NoDay /\ stamps[f] # NoDay
InSync(f) ==
  /\ titles[f] # NoTitle => meta[f].title = titles[f]
  /\ dates[f] \in Days => meta[f].day = dates[f]

Rows ==
  /\ TypedDateStays
  /\ analyzed = Chosen
  /\ EntriesFollowFiles
  /\ \A f \in Chosen : InSync(f)

\* The upload: its files keep their entries and their order.
Upload ==
  /\ \A f \in Sending : f \in Chosen /\ Dated(f)
  /\ isUploading => FormShown
  /\ SentAsShown
  /\ \A f, g \in Sending : SortedBefore(f, g) => place[f] < place[g]

IInv == TypeOK /\ Rows /\ Upload

\* What the rows and the upload depend on.
mainVars == <<place, meta, titles, dates, stamps, analyzing, analyzed, typed,
              sent, answer, results>>

----------------------------------------------------------------------------
(* Operators. *)

\* The keys that days are sorted by are numbers.
LEMMA UnknownType == Unknown \in Nat /\ \A f : DayKey(f) \in Nat
<1>1. PICK d \in Days : \A e \in Days : e <= d
  BY UploadAssumption
<1>2. Unknown \in Nat
  <2> DEFINE last == CHOOSE c \in Days : \A e \in Days : e <= c
  <2>1. last \in Days
    BY <1>1
  <2> HIDE DEF last
  <2>2. 1 + last \in Nat
    BY <2>1, UploadAssumption
  <2> QED
    BY <2>2 DEF Unknown, last
<1> QED
  BY <1>2, UploadAssumption DEF DayKey

\* The time a file is sorted by is a number, or none.
LEMMA StampType == \A f \in Files : Stamp(f) \in Nat \cup {NoTag}
  BY UploadAssumption DEF Stamp, Tag

\* Writing the effect's metadata brings it in sync.
LEMMA SyncedType ==
  ASSUME NEW m \in [Files -> Meta], NEW p \in [Files -> Nat],
         NEW t \in [Files -> Titles \cup {NoTitle}],
         NEW d \in [Files -> Days \cup {NoDay, Blank}]
  PROVE  /\ Synced(m, p, t, d) \in [Files -> Meta]
         /\ \A f \in Files : p[f] > 0 =>
              /\ t[f] # NoTitle => Synced(m, p, t, d)[f].title = t[f]
              /\ d[f] \in Days => Synced(m, p, t, d)[f].day = d[f]
<1> SUFFICES ASSUME NEW f \in Files
             PROVE  /\ Synced(m, p, t, d)[f] \in Meta
                    /\ p[f] > 0 =>
                         /\ t[f] # NoTitle => Synced(m, p, t, d)[f].title = t[f]
                         /\ d[f] \in Days => Synced(m, p, t, d)[f].day = d[f]
  BY DEF Synced
<1>1. /\ m[f].title \in Titles \cup {NoTitle} /\ m[f].day \in Days \cup {NoDay}
      /\ t[f] \in Titles \cup {NoTitle}
  BY DEF Meta
<1>2. NoMeta \in Meta
  BY DEF NoMeta, Meta
<1>3. [title |-> IF t[f] # NoTitle THEN t[f] ELSE m[f].title,
       day |-> IF d[f] \in Days THEN d[f] ELSE m[f].day] \in Meta
  BY <1>1 DEF Meta
<1> QED
  BY <1>2, <1>3 DEF Synced

\* The least recording a poll has still to ask for.
LEMMA AskedType ==
  ASSUME TypeOK, NEW p \in Polls, polls[p].todo # {}
  PROVE  Asked(p) \in polls[p].todo /\ Asked(p) \in Ids
<1>1. polls[p].todo \subseteq Ids /\ Ids \subseteq Nat
  BY UploadAssumption DEF TypeOK, Poll, Ids
<1> DEFINE Less == {ss \in Nat \X Nat : ss[1] < ss[2]}
<1>2. IsWellFoundedOn(Less, Nat)
  BY NatLessThanWellFounded DEF OpToRel
<1>3. \E i \in polls[p].todo : \A j \in polls[p].todo : ~(<<j, i>> \in Less)
  BY <1>1, <1>2, WFMin
<1>4. \A i, j \in Nat : ~(<<j, i>> \in Less) => i <= j
  OBVIOUS
<1> HIDE DEF Less
<1>5. \E i \in polls[p].todo : \A j \in polls[p].todo : i <= j
  BY <1>1, <1>3, <1>4
<1> QED
  BY <1>1, <1>5 DEF Asked

----------------------------------------------------------------------------
(* The order of the rows. *)

\* The comparison of rows is a strict order.
LEMMA SortedBeforeIsOrder ==
  ASSUME TypeOK
  PROVE  /\ \A f \in Files : ~SortedBefore(f, f)
         /\ \A f, g, h \in Files :
              SortedBefore(f, g) /\ SortedBefore(g, h) => SortedBefore(f, h)
<1>1. /\ \A f \in Files : place[f] \in Nat /\ Name[f] \in Nat /\ DayKey(f) \in Nat
      /\ \A f \in Files : HasStamp(f) => stamps[f] \in Nat
  BY UnknownType, UploadAssumption, FS_CardinalityType DEF TypeOK, HasStamp
<1>2. \A f \in Files : ~SameDayBefore(f, f)
  BY <1>1 DEF SameDayBefore
<1>3. ASSUME NEW f \in Files, NEW g \in Files, NEW h \in Files,
             SameDayBefore(f, g), SameDayBefore(g, h)
      PROVE  SameDayBefore(f, h)
  BY <1>1, <1>3 DEF SameDayBefore
<1> QED
  BY <1>1, <1>2, <1>3 DEF SortedBefore

\* The sort of the button is the sort of the rows.
LEMMA SameSort ==
  ASSUME TypeOK, NEW f \in Files, NEW g \in Files
  PROVE  QueuedBefore(f, g) <=> SortedBefore(f, g)
<1>1. /\ place[f] \in Nat /\ place[g] \in Nat /\ Name[f] \in Nat /\ Name[g] \in Nat
      /\ HasStamp(f) => stamps[f] \in Nat
      /\ HasStamp(g) => stamps[g] \in Nat
  BY UploadAssumption, FS_CardinalityType DEF TypeOK, HasStamp
<1> QED
  BY <1>1 DEF QueuedBefore, SortedBefore, SameDayBefore

\* Counting the rows before a file gives places in order.
LEMMA SortedPlaceOrder ==
  ASSUME TypeOK
  PROVE  /\ SortedPlace \in [Files -> 0..Cardinality(Files)]
         /\ \A f \in Files : SortedPlace[f] > 0 <=> f \in Chosen
         /\ \A f, g \in Chosen : SortedBefore(f, g) => SortedPlace[f] < SortedPlace[g]
<1> DEFINE Before(f) == {g \in Chosen : SortedBefore(g, f)}
<1>1. \A f \in Files : /\ IsFiniteSet(Before(f)) /\ Cardinality(Before(f)) \in Nat
                       /\ Cardinality(Before(f)) < Cardinality(Files)
  <2> SUFFICES ASSUME NEW f \in Files
               PROVE  /\ IsFiniteSet(Before(f)) /\ Cardinality(Before(f)) \in Nat
                      /\ Cardinality(Before(f)) < Cardinality(Files)
    OBVIOUS
  <2>1. Before(f) \subseteq Files /\ Before(f) # Files
    BY SortedBeforeIsOrder DEF Chosen
  <2> QED
    BY <2>1, UploadAssumption, FS_Subset, FS_CardinalityType
<1>2. \A f, g \in Chosen : SortedBefore(f, g) =>
        Cardinality(Before(f)) < Cardinality(Before(g))
  <2> SUFFICES ASSUME NEW f \in Chosen, NEW g \in Chosen, SortedBefore(f, g)
               PROVE  Cardinality(Before(f)) < Cardinality(Before(g))
    OBVIOUS
  <2>1. Before(f) \subseteq Before(g) /\ f \in Before(g) /\ f \notin Before(f)
    BY SortedBeforeIsOrder DEF Chosen
  <2>2. /\ IsFiniteSet(Before(g)) /\ Cardinality(Before(g)) \in Nat
        /\ Cardinality(Before(f)) \in Nat
    BY <1>1 DEF Chosen
  <2>3. Before(f) # Before(g)
    BY <2>1
  <2> HIDE DEF Before
  <2> QED
    BY <2>1, <2>2, <2>3, FS_Subset
<1>3. \A f \in Files : SortedPlace[f] = IF f \in Chosen THEN 1 + Cardinality(Before(f)) ELSE 0
  <2>1. \A f \in Files : {g \in Chosen : QueuedBefore(g, f)} = Before(f)
    BY SameSort DEF Chosen
  <2> HIDE DEF Before
  <2> QED BY <2>1 DEF SortedPlace
<1>4. Cardinality(Files) \in Nat
  BY UploadAssumption, FS_CardinalityType
<1> HIDE DEF Before
<1>5. SortedPlace = [f \in Files |-> SortedPlace[f]]
  BY DEF SortedPlace
<1>6. \A f \in Files : SortedPlace[f] \in 0..Cardinality(Files)
  BY <1>1, <1>3, <1>4
<1>7. SortedPlace \in [Files -> 0..Cardinality(Files)]
  BY <1>5, <1>6
<1>8. \A f \in Files : SortedPlace[f] > 0 <=> f \in Chosen
  BY <1>1, <1>3
<1>9. \A f, g \in Chosen : SortedBefore(f, g) => SortedPlace[f] < SortedPlace[g]
  BY <1>1, <1>2, <1>3 DEF Chosen
<1> QED
  BY <1>7, <1>8, <1>9

----------------------------------------------------------------------------
(* What a step may leave alone. *)

\* A step beside the rows and the upload.
LEMMA BesideStep ==
  ASSUME IInv, TypeOK', UNCHANGED mainVars
  PROVE  IInv'
<1>1. Rows'
  BY DEF IInv, mainVars, Rows, EntriesFollowFiles, TypedDateStays, Chosen, Dated, InSync
<1>2. Upload'
  BY DEF IInv, mainVars, Upload, Sending, isUploading, Chosen, Dated, FormShown,
         SentAsShown, SortedBefore, DayKey, SameDayBefore, HasStamp
<1> QED
  BY <1>1, <1>2 DEF IInv

\* A step of the rows while nothing is sent.
LEMMA IdleStep ==
  ASSUME TypeOK', Rows', ~isUploading, answer' = answer
  PROVE  IInv'
<1>1. Sending' = {}
  BY DEF isUploading, Sending
<1> QED
  BY <1>1 DEF IInv, Upload, isUploading, SentAsShown

\* What a file being sent had stays: the entries and places of the others may change.
LEMMA SendingKept ==
  ASSUME IInv, TypeOK', Rows', UNCHANGED <<sent, answer, results>>,
         \A f \in Sending : /\ place'[f] = place[f] /\ titles'[f] = titles[f]
                            /\ dates'[f] = dates[f] /\ stamps'[f] = stamps[f]
  PROVE  IInv'
<1>1. Sending' = Sending /\ Sending \subseteq Files /\ FormShown' = FormShown
  BY DEF Sending, FormShown
<1>2. \A f \in Sending : f \in Chosen' /\ Dated(f)'
  BY <1>1 DEF IInv, Upload, Chosen, Dated
<1>3. SentAsShown'
  BY <1>1 DEF IInv, Upload, SentAsShown
<1>4. \A f, g \in Sending : SortedBefore(f, g)' => SortedBefore(f, g)
  BY DEF SortedBefore, DayKey, SameDayBefore, HasStamp
<1>5. \A f, g \in Sending : SortedBefore(f, g)' => place'[f] < place'[g]
  BY <1>4 DEF IInv, Upload
<1>6. Upload'
  BY <1>1, <1>2, <1>3, <1>5 DEF IInv, Upload, isUploading
<1> QED
  BY <1>6 DEF IInv

----------------------------------------------------------------------------
(* Choosing and analysing files. *)

\* Files are added and a batch for them begins.
LEMMA AddFilesStep ==
  ASSUME IInv, NEW S \in SUBSET Files, AddFiles(S),
         walk' \in SUBSET Files, UNCHANGED <<sendVars, results, pollVars>>
  PROVE  IInv'
<1> DEFINE new == (S \cap Supported) \ Chosen
<1>1. /\ new \subseteq Files /\ new \cap analyzed = {}
      /\ new \ analyzed = new
  BY DEF IInv, Rows
<1>2. PICK p \in [Files -> 0..Cardinality(Files)] :
        /\ \A f \in Files \ new : p[f] = place[f]
        /\ {p[f] : f \in new} = (Cardinality(Chosen) + 1)..(Cardinality(Chosen) + Cardinality(new))
        /\ place' = p
        /\ meta' = Synced(meta, p, titles, dates)
  BY DEF AddFiles
<1>3. /\ StartAnalysis(new)
      /\ UNCHANGED <<titles, dates, stamps, typed, sent, answer, results, server, polled, polls>>
  BY <1>1 DEF AddFiles, sendVars, pollVars
<1> HIDE DEF new
<1>4. /\ batches' \in [Batches -> SUBSET Files]
      /\ analyzing' = analyzing \cup new
      /\ analyzed' = analyzed \cup new
  BY <1>1, <1>3 DEF StartAnalysis, IInv, TypeOK
<1>5. \A f \in new : p[f] > 0
  <2>1. Cardinality(Chosen) \in Nat
    BY UploadAssumption, FS_Subset, FS_CardinalityType DEF Chosen
  <2>2. \A f \in new : p[f] >= Cardinality(Chosen) + 1
    BY <1>2
  <2> QED
    BY <2>1, <2>2, <1>1, <1>2
<1>6. Chosen' = Chosen \cup new
  BY <1>1, <1>2, <1>5 DEF Chosen
<1>7. /\ meta' \in [Files -> Meta]
      /\ \A f \in Chosen' : InSync(f)'
  <2>1. p \in [Files -> Nat]
    BY <1>2, UploadAssumption, FS_CardinalityType
  <2>2. /\ Synced(meta, p, titles, dates) \in [Files -> Meta]
        /\ \A f \in Files : p[f] > 0 =>
             /\ titles[f] # NoTitle => Synced(meta, p, titles, dates)[f].title = titles[f]
             /\ dates[f] \in Days => Synced(meta, p, titles, dates)[f].day = dates[f]
    BY <2>1, SyncedType DEF IInv, TypeOK
  <2> QED
    BY <1>2, <1>3, <2>2 DEF Chosen, InSync
<1>8. TypeOK'
  BY <1>1, <1>2, <1>3, <1>4, <1>7 DEF IInv, TypeOK
<1>9. Rows'
  BY <1>1, <1>3, <1>4, <1>6, <1>7 DEF IInv, Rows, EntriesFollowFiles, TypedDateStays, Dated
<1>10. \A f \in Sending : place'[f] = place[f]
  <2>1. \A f \in Sending : f \in Files /\ f \notin new
    BY DEF IInv, Upload, Sending, new
  <2> QED
    BY <1>2, <2>1
<1> QED
  BY <1>3, <1>8, <1>9, <1>10, SendingKept

\* The user chooses files, or the files of a dropped folder are found.
LEMMA ChooseStep ==
  ASSUME IInv, \/ \E S \in SUBSET Files : SelectFiles(S)
               \/ DropCollected
  PROVE  IInv'
<1>1. ASSUME NEW S \in SUBSET Files, SelectFiles(S) PROVE IInv'
  BY <1>1, AddFilesStep DEF SelectFiles, IInv, TypeOK
<1>2. CASE DropCollected
  BY <1>2, AddFilesStep DEF DropCollected, IInv, TypeOK
<1> QED
  BY <1>1, <1>2

\* The user drops a folder, or it cannot be read.
LEMMA DropStep ==
  ASSUME IInv, \/ \E S \in Folders : Drop(S)
               \/ DropFails
  PROVE  IInv'
<1>1. TypeOK' /\ UNCHANGED mainVars
  BY UploadAssumption DEF Drop, DropFails, IInv, TypeOK, mainVars, formVars, sendVars, pollVars
<1> QED
  BY <1>1, BesideStep

\* The analysis of a batch ends.
LEMMA FinishStep == ASSUME IInv, NEW b \in Batches, FinishAnalysis(b) PROVE IInv'
<1>1. PICK S \in SUBSET Files : S = batches[b]
  BY DEF IInv, TypeOK
<1>2. /\ dates' = [f \in Files |->
           IF f \in S /\ dates[f] = NoDay THEN ExtractedDay(f) ELSE dates[f]]
      /\ stamps' = [f \in Files |->
           IF f \in S /\ stamps[f] = NoDay THEN Stamp(f) ELSE stamps[f]]
      /\ analyzing' = analyzing \ S
      /\ batches' = [batches EXCEPT ![b] = {}]
      /\ meta' = Synced(meta, place, titles, dates')
      /\ UNCHANGED <<place, titles, analyzed, typed, walk, sent, answer, results,
                     server, polled, polls>>
  BY <1>1 DEF FinishAnalysis, sendVars, pollVars
<1>3. /\ dates' \in [Files -> Days \cup {NoDay, Blank}]
      /\ stamps' \in [Files -> Nat \cup {NoTag, NoDay}]
  BY <1>2, TagsAssumption, StampType DEF IInv, TypeOK
<1>4. /\ meta' \in [Files -> Meta]
      /\ \A f \in Chosen' : InSync(f)'
  <2>1. place \in [Files -> Nat]
    BY UploadAssumption, FS_CardinalityType DEF IInv, TypeOK
  <2>2. /\ Synced(meta, place, titles, dates') \in [Files -> Meta]
        /\ \A f \in Files : place[f] > 0 =>
             /\ titles[f] # NoTitle => Synced(meta, place, titles, dates')[f].title = titles[f]
             /\ dates'[f] \in Days => Synced(meta, place, titles, dates')[f].day = dates'[f]
    BY <1>3, <2>1, SyncedType DEF IInv, TypeOK
  <2> QED
    BY <1>2, <2>2 DEF Chosen, InSync
<1>5. TypeOK'
  BY <1>2, <1>3, <1>4 DEF IInv, TypeOK
<1>6. \A f \in Files : /\ dates[f] # NoDay => dates'[f] = dates[f]
                       /\ stamps[f] # NoDay => stamps'[f] = stamps[f]
                       /\ f \in S => Dated(f)'
  <2>1. \A f \in Files : ExtractedDay(f) # NoDay /\ Stamp(f) # NoDay
    BY TagsAssumption, StampType, UploadAssumption
  <2> QED
    BY <1>2, <2>1 DEF Dated
<1>7. Rows'
  <2>1. TypedDateStays'
    BY <1>2, <1>6 DEF IInv, Rows, EntriesFollowFiles, TypedDateStays
  <2>2. Chosen' = Chosen /\ Chosen \subseteq Files
    BY <1>2 DEF Chosen
  <2>3. \A f \in Chosen \ analyzing' : Dated(f)'
    BY <1>2, <1>6, <2>2 DEF IInv, Rows, EntriesFollowFiles, Dated
  <2>4. EntriesFollowFiles'
    BY <1>2, <2>2, <2>3 DEF IInv, Rows, EntriesFollowFiles, Dated
  <2> QED
    BY <1>2, <1>4, <2>1, <2>2, <2>4 DEF IInv, Rows
<1>8. \A f \in Sending : dates'[f] = dates[f] /\ stamps'[f] = stamps[f]
  BY <1>6 DEF IInv, Upload, Dated, Sending
<1> QED
  BY <1>2, <1>5, <1>7, <1>8, SendingKept

----------------------------------------------------------------------------
(* Editing. *)

\* Places and their number are natural numbers.
LEMMA PlaceType ==
  ASSUME TypeOK
  PROVE  place \in [Files -> Nat] /\ Cardinality(Files) \in Nat
  BY UploadAssumption, FS_CardinalityType DEF TypeOK

\* The user types a title.
LEMMA TypeTitleStep ==
  ASSUME IInv, NEW f \in Files, NEW t \in Titles \cup {NoTitle}, TypeTitle(f, t)
  PROVE  IInv'
<1>1. /\ titles' = [titles EXCEPT ![f] = t]
      /\ meta' = Synced(meta, place, titles', dates)
      /\ ~isUploading
      /\ UNCHANGED <<place, dates, stamps, analyzing, analyzed, batches, typed,
                     walk, sent, answer, results, server, polled, polls>>
  BY DEF TypeTitle, InputsShown, sendVars, pollVars
<1>2. titles' \in [Files -> Titles \cup {NoTitle}]
  BY <1>1 DEF IInv, TypeOK
<1>3. /\ meta' \in [Files -> Meta]
      /\ \A g \in Chosen' : InSync(g)'
  <2>1. /\ Synced(meta, place, titles', dates) \in [Files -> Meta]
        /\ \A g \in Files : place[g] > 0 =>
             /\ titles'[g] # NoTitle => Synced(meta, place, titles', dates)[g].title = titles'[g]
             /\ dates[g] \in Days => Synced(meta, place, titles', dates)[g].day = dates[g]
    BY <1>2, PlaceType, SyncedType DEF IInv, TypeOK
  <2> QED
    BY <1>1, <2>1 DEF Chosen, InSync
<1>4. TypeOK'
  BY <1>1, <1>2, <1>3 DEF IInv, TypeOK
<1>5. Rows'
  <2>1. f \in Chosen /\ Chosen' = Chosen
    BY <1>1 DEF TypeTitle, InputsShown, Chosen
  <2>2. \A g \in Files \ {f} : titles'[g] = titles[g]
    BY <1>1 DEF IInv, TypeOK
  <2>3. EntriesFollowFiles'
    BY <1>1, <2>1, <2>2 DEF IInv, Rows, EntriesFollowFiles
  <2> QED
    BY <1>1, <1>3, <2>1, <2>3 DEF IInv, Rows, TypedDateStays
<1> QED
  BY <1>1, <1>4, <1>5, IdleStep

\* The user types a date.
LEMMA TypeDateStep ==
  ASSUME IInv, NEW f \in Files, NEW d \in DateInputs, TypeDate(f, d)
  PROVE  IInv'
<1>1. /\ dates' = [dates EXCEPT ![f] = d]
      /\ typed' = [typed EXCEPT ![f] = d]
      /\ meta' = Synced(meta, place, titles, dates')
      /\ ~isUploading
      /\ UNCHANGED <<place, titles, stamps, analyzing, analyzed, batches,
                     walk, sent, answer, results, server, polled, polls>>
  BY DEF TypeDate, InputsShown, sendVars, pollVars
<1>2. d \in Days \cup {Blank} /\ d # NoDay
  BY UploadAssumption
<1>3. /\ dates' \in [Files -> Days \cup {NoDay, Blank}]
      /\ typed' \in [Files -> Days \cup {NoDay, Blank}]
  BY <1>1, <1>2 DEF IInv, TypeOK
<1>4. /\ meta' \in [Files -> Meta]
      /\ \A g \in Chosen' : InSync(g)'
  <2>1. /\ Synced(meta, place, titles, dates') \in [Files -> Meta]
        /\ \A g \in Files : place[g] > 0 =>
             /\ titles[g] # NoTitle => Synced(meta, place, titles, dates')[g].title = titles[g]
             /\ dates'[g] \in Days => Synced(meta, place, titles, dates')[g].day = dates'[g]
    BY <1>3, PlaceType, SyncedType DEF IInv, TypeOK
  <2> QED
    BY <1>1, <2>1 DEF Chosen, InSync
<1>5. TypeOK'
  BY <1>1, <1>3, <1>4 DEF IInv, TypeOK
<1>6. Rows'
  <2>1. \A g \in Files : /\ dates'[g] = IF g = f THEN d ELSE dates[g]
                         /\ typed'[g] = IF g = f THEN d ELSE typed[g]
    BY <1>1 DEF IInv, TypeOK
  <2>2. f \in Chosen /\ Chosen' = Chosen /\ Chosen \subseteq Files
    BY <1>1 DEF TypeDate, InputsShown, Chosen
  <2>3. EntriesFollowFiles'
    BY <1>1, <1>2, <2>1, <2>2 DEF IInv, Rows, EntriesFollowFiles
  <2>4. TypedDateStays'
    BY <1>2, <2>1 DEF IInv, Rows, TypedDateStays
  <2> QED
    BY <1>1, <1>4, <2>2, <2>3, <2>4 DEF IInv, Rows
<1> QED
  BY <1>1, <1>5, <1>6, IdleStep

\* The user removes a file.
LEMMA RemoveFileStep ==
  ASSUME IInv, NEW f \in Files, RemoveFile(f)
  PROVE  IInv'
<1>1. /\ place' = Without(f)
      /\ titles' = [titles EXCEPT ![f] = NoTitle]
      /\ dates' = [dates EXCEPT ![f] = NoDay]
      /\ stamps' = [stamps EXCEPT ![f] = NoDay]
      /\ typed' = [typed EXCEPT ![f] = NoDay]
      /\ analyzed' = analyzed \ {f}
      /\ meta' = Synced(meta, place', titles', dates')
      /\ f \in Chosen /\ ~isUploading
      /\ UNCHANGED <<analyzing, batches, walk, sent, answer, results, server, polled, polls>>
  BY DEF RemoveFile, sendVars, pollVars
<1>2. /\ place' \in [Files -> 0..Cardinality(Files)]
      /\ place' \in [Files -> Nat]
      /\ Chosen' = Chosen \ {f}
  <2>1. \A g \in Files : place[g] \in 0..Cardinality(Files)
    BY DEF IInv, TypeOK
  <2>2. \A g \in Files : /\ place'[g] \in 0..Cardinality(Files)
                         /\ place'[g] > 0 <=> place[g] > 0 /\ g # f
    BY <1>1, <2>1, PlaceType DEF Without, Chosen, IInv
  <2>3. place' = [g \in Files |-> place'[g]]
    BY <1>1 DEF Without
  <2> QED
    BY <2>2, <2>3, PlaceType DEF Chosen, IInv
<1>3. /\ titles' \in [Files -> Titles \cup {NoTitle}]
      /\ dates' \in [Files -> Days \cup {NoDay, Blank}]
      /\ stamps' \in [Files -> Nat \cup {NoTag, NoDay}]
      /\ typed' \in [Files -> Days \cup {NoDay, Blank}]
  BY <1>1 DEF IInv, TypeOK
<1>4. /\ meta' \in [Files -> Meta]
      /\ \A g \in Chosen' : InSync(g)'
  <2>1. /\ Synced(meta, place', titles', dates') \in [Files -> Meta]
        /\ \A g \in Files : place'[g] > 0 =>
             /\ titles'[g] # NoTitle => Synced(meta, place', titles', dates')[g].title = titles'[g]
             /\ dates'[g] \in Days => Synced(meta, place', titles', dates')[g].day = dates'[g]
    BY <1>2, <1>3, SyncedType DEF IInv, TypeOK
  <2> QED
    BY <1>1, <2>1 DEF Chosen, InSync
<1>5. TypeOK'
  BY <1>1, <1>2, <1>3, <1>4 DEF IInv, TypeOK
<1>6. Rows'
  <2>1. \A g \in Files \ {f} : dates'[g] = dates[g] /\ stamps'[g] = stamps[g]
                               /\ typed'[g] = typed[g] /\ titles'[g] = titles[g]
    BY <1>1 DEF IInv, TypeOK
  <2>2. typed'[f] = NoDay /\ titles'[f] = NoTitle
    BY <1>1 DEF IInv, TypeOK
  <2>3. EntriesFollowFiles'
    BY <1>1, <1>2, <2>1, <2>2 DEF IInv, Rows, EntriesFollowFiles, Chosen
  <2>4. TypedDateStays'
    BY <2>1, <2>2 DEF IInv, Rows, TypedDateStays
  <2> QED
    BY <1>1, <1>2, <1>4, <2>3, <2>4 DEF IInv, Rows
<1> QED
  BY <1>1, <1>5, <1>6, IdleStep

\* Clear All and Upload more: nothing is chosen, whatever is still analysed.
LEMMA ForgetStep ==
  ASSUME IInv, ~isUploading, Forget, UNCHANGED <<sent, answer>>,
         results' \in [Files -> Answers] \cup {NoResults}, server' = server,
         polled' \in [Ids -> Steps], polls' \in [Polls -> Poll]
  PROVE  IInv'
<1>1. NoMeta \in Meta
  BY DEF NoMeta, Meta
<1>2. TypeOK'
  BY <1>1, PlaceType DEF IInv, TypeOK, Forget
<1>3. Chosen' = {}
  BY DEF Chosen, Forget
<1>4. Rows'
  BY <1>3 DEF Rows, EntriesFollowFiles, TypedDateStays, Forget
<1> QED
  BY <1>2, <1>4, IdleStep

\* The user clears the list, or uploads more.
LEMMA ClearStep == ASSUME IInv, ClearAll \/ Reset PROVE IInv'
<1>1. CASE ClearAll
  BY <1>1, ForgetStep DEF ClearAll, sendVars, pollVars, IInv, TypeOK
<1>2. CASE Reset
  <2>1. ~isUploading
    BY <1>2 DEF Reset, IInv, Upload
  <2>2. polled' \in [Ids -> Steps]
    BY <1>2 DEF Reset, Steps
  <2>3. polls' \in [Polls -> Poll]
    <3>1. \A p \in Polls : polls[p] \in Poll /\ [polls[p] EXCEPT !.live = FALSE] \in Poll
      BY DEF IInv, TypeOK, Poll
    <3>2. NoPoll \in Poll
      BY DEF NoPoll, Poll, Steps
    <3> QED
      BY <1>2, <3>1, <3>2 DEF Reset
  <2> QED
    BY <1>2, <2>1, <2>2, <2>3, ForgetStep DEF Reset, sendVars
<1> QED
  BY <1>1, <1>2

----------------------------------------------------------------------------
(* Uploading. *)

\* Rebuilding Uppy's list in sorted order sorts it, ties included.
LEMMA SortedAfterwards ==
  ASSUME TypeOK, place' = SortedPlace, UNCHANGED <<dates, stamps>>,
         NEW f \in Chosen, NEW g \in Chosen, SortedBefore(f, g)'
  PROVE  place'[f] < place'[g]
<1>1. CASE SortedBefore(f, g)
  BY <1>1, SortedPlaceOrder
<1>2. CASE ~SortedBefore(f, g)
  BY <1>2 DEF SortedBefore, DayKey, SameDayBefore, HasStamp
<1> QED
  BY <1>1, <1>2

\* The user clicks Upload.
LEMMA ClickUploadStep == ASSUME IInv, ClickUpload PROVE IInv'
<1>1. /\ place' = SortedPlace
      /\ sent' = meta
      /\ answer' = [f \in Files |-> IF f \in Chosen THEN Waiting ELSE NotSent]
      /\ FormShown /\ analyzing = {}
      /\ UNCHANGED <<meta, titles, dates, stamps, analyzing, analyzed, batches, typed,
                     walk, results, server, polled, polls>>
  BY DEF ClickUpload, StartRequests, UploadOffered, formVars, pollVars
<1>2. Chosen' = Chosen /\ Sending' = Chosen /\ Chosen \subseteq Files
  BY <1>1, SortedPlaceOrder, UploadAssumption DEF IInv, Chosen, Sending
<1>3. TypeOK'
  <2>1. place' \in [Files -> 0..Cardinality(Files)]
    BY <1>1, SortedPlaceOrder DEF IInv
  <2>2. answer' \in [Files -> Answers]
    BY <1>1 DEF Answers
  <2> QED
    BY <1>1, <2>1, <2>2 DEF IInv, TypeOK
<1>4. Rows'
  BY <1>1, <1>2 DEF IInv, Rows, EntriesFollowFiles, TypedDateStays, Dated, InSync
<1>5. \A f \in Chosen : Dated(f) /\ InSync(f)
  BY <1>1 DEF IInv, Rows, EntriesFollowFiles, Dated
<1>6. Upload'
  <2>1. SentAsShown'
    BY <1>1, <1>2, <1>5 DEF SentAsShown, InSync
  <2>2. \A f, g \in Chosen : SortedBefore(f, g)' => place'[f] < place'[g]
    BY <1>1, SortedAfterwards DEF IInv
  <2>3. \A f \in Chosen : Dated(f)'
    BY <1>1, <1>5 DEF Dated
  <2> QED
    BY <1>1, <1>2, <2>1, <2>2, <2>3 DEF Upload, FormShown
<1> QED
  BY <1>3, <1>4, <1>6 DEF IInv

\* An answer for a file: it is still being sent.
LEMMA AnswerStep ==
  ASSUME IInv, NEW f \in Files, NEW a \in Answers \ {NotSent}, answer[f] = Waiting,
         answer' = [answer EXCEPT ![f] = a],
         UNCHANGED <<place, meta, formVars, walk, sent, results, polled, polls>>,
         server' \in [Ids -> Steps]
  PROVE  IInv'
<1>1. TypeOK'
  BY DEF IInv, TypeOK, formVars
<1>2. Sending' = Sending
  BY UploadAssumption DEF Sending, IInv, TypeOK
<1>3. Rows'
  BY DEF IInv, Rows, EntriesFollowFiles, TypedDateStays, Chosen, Dated, InSync, formVars
<1>4. Upload'
  BY <1>2 DEF IInv, Upload, isUploading, Chosen, Dated, FormShown, formVars,
              SentAsShown, SortedBefore, DayKey, SameDayBefore, HasStamp
<1> QED
  BY <1>1, <1>3, <1>4 DEF IInv

\* The server stores or refuses a file.
LEMMA AnswersStep ==
  ASSUME IInv, NEW f \in Files, Stored(f) \/ UploadFails(f)
  PROVE  IInv'
<1>1. CASE Stored(f)
  <2>1. PICK i \in Ids : /\ server' = [server EXCEPT ![i] = "queued"]
                         /\ answer' = [answer EXCEPT ![f] = i]
    BY <1>1 DEF Stored
  <2>2. i \in Answers \ {NotSent}
    BY UploadAssumption DEF Answers, Ids
  <2>3. server' \in [Ids -> Steps]
    BY <2>1 DEF IInv, TypeOK, Steps
  <2> QED
    BY <1>1, <2>1, <2>2, <2>3, AnswerStep DEF Stored
<1>2. CASE UploadFails(f)
  <2>1. Failed \in Answers \ {NotSent}
    BY UploadAssumption DEF Answers
  <2> QED
    BY <1>2, <2>1, AnswerStep DEF UploadFails, pollVars, IInv, TypeOK
<1> QED
  BY <1>1, <1>2

\* Uppy reports that all files are answered.
LEMMA CompleteStep == ASSUME IInv, UploadComplete PROVE IInv'
<1>1. /\ results' = answer
      /\ answer' = [f \in Files |-> NotSent]
      /\ sent' = [f \in Files |-> NoMeta]
      /\ UNCHANGED <<place, meta, titles, dates, stamps, analyzing, analyzed, batches,
                     typed, walk, server, polled, polls>>
  BY DEF UploadComplete, formVars, pollVars
<1>2. NoMeta \in Meta /\ NotSent \in Answers
  BY DEF NoMeta, Meta, Answers
<1>3. TypeOK'
  BY <1>1, <1>2 DEF IInv, TypeOK
<1>4. Rows'
  BY <1>1 DEF IInv, Rows, EntriesFollowFiles, TypedDateStays, Chosen, Dated, InSync
<1>5. Sending' = {}
  BY <1>1 DEF Sending
<1> QED
  BY <1>3, <1>4, <1>5 DEF IInv, Upload, isUploading, SentAsShown

----------------------------------------------------------------------------
(* Polling. *)

\* The server processes a recording, or a poll begins, asks, is answered or fails.
LEMMA PollStep ==
  ASSUME IInv,
         \/ \E i \in Ids, step \in Done : Process(i, step)
         \/ PollTick
         \/ \E p \in Polls : Read(p) \/ Deliver(p) \/ LoseAnswer(p)
  PROVE  IInv'
<1>1. UNCHANGED mainVars /\ UNCHANGED <<batches, walk>>
  BY DEF Process, PollTick, Read, Deliver, LoseAnswer, mainVars, formVars, sendVars
<1>2. server' \in [Ids -> Steps] /\ polled' \in [Ids -> Steps] /\ polls' \in [Polls -> Poll]
  <2>1. /\ server \in [Ids -> Steps] /\ polled \in [Ids -> Steps] /\ polls \in [Polls -> Poll]
        /\ NoPoll \in Poll
    BY DEF IInv, TypeOK, NoPoll, Poll, Steps
  <2>2. ASSUME NEW i \in Ids, NEW step \in Done, Process(i, step)
        PROVE  server' \in [Ids -> Steps] /\ UNCHANGED <<polled, polls>>
    BY <2>1, <2>2 DEF Process, Done, Steps
  <2>3. CASE PollTick
    <3>1. [todo |-> Pending, seen |-> "absent", live |-> TRUE] \in Poll
      BY DEF Poll, Steps, Pending, SuccessfulIds
    <3> QED
      BY <2>1, <2>3, <3>1 DEF PollTick
  <2>4. ASSUME NEW p \in Polls, Read(p)
        PROVE  polls' \in [Polls -> Poll] /\ UNCHANGED <<server, polled>>
    <3>1. Asked(p) \in Ids
      BY <2>4, AskedType DEF IInv, Read
    <3>2. [polls[p] EXCEPT !.seen = server[Asked(p)]] \in Poll
      BY <2>1, <3>1 DEF Poll
    <3> QED
      BY <2>1, <2>4, <3>2 DEF Read
  <2>5. ASSUME NEW p \in Polls, Advance(p) PROVE polls' \in [Polls -> Poll]
    <3>1. [todo |-> polls[p].todo \ {Asked(p)}, seen |-> "absent", live |-> TRUE] \in Poll
      BY <2>1 DEF Poll, Steps
    <3> QED
      BY <2>1, <2>5, <3>1 DEF Advance
  <2>6. ASSUME NEW p \in Polls, Deliver(p) PROVE polled' \in [Ids -> Steps]
    <3>1. Asked(p) \in Ids /\ polls[p].seen \in Steps
      BY <2>1, <2>6, AskedType DEF IInv, Deliver, Poll
    <3> QED
      BY <2>1, <2>6, <3>1 DEF Deliver
  <2> QED
    BY <2>1, <2>2, <2>3, <2>4, <2>5, <2>6 DEF PollTick, Deliver, LoseAnswer
<1>3. TypeOK'
  BY <1>1, <1>2 DEF IInv, TypeOK, mainVars
<1> QED
  BY <1>1, <1>3, BesideStep

----------------------------------------------------------------------------
(* The theorems. *)

\* The empty form satisfies the invariant.
LEMMA InitOK == Init => IInv
<1> SUFFICES ASSUME Init PROVE IInv
  OBVIOUS
<1>1. Chosen = {} /\ Sending = {}
  BY DEF Init, Chosen, Sending
<1>2. NoMeta \in Meta /\ NoPoll \in Poll
  BY DEF NoMeta, Meta, NoPoll, Poll, Steps
<1>3. 0 \in 0..Cardinality(Files)
  BY UploadAssumption, FS_CardinalityType
<1>4. TypeOK
  BY <1>2, <1>3 DEF Init, TypeOK, Answers, Steps
<1>5. Rows
  BY <1>1 DEF Init, Rows, EntriesFollowFiles, TypedDateStays
<1> QED
  BY <1>1, <1>4, <1>5 DEF IInv, Upload, isUploading, SentAsShown

\* Every step preserves the invariant.
LEMMA StepOK == IInv /\ [Next]_vars => IInv'
<1> SUFFICES ASSUME IInv, [Next]_vars PROVE IInv'
  OBVIOUS
<1>1. CASE UNCHANGED vars
  <2>1. TypeOK' /\ UNCHANGED mainVars
    BY <1>1 DEF vars, IInv, TypeOK, mainVars
  <2> QED
    BY <2>1, BesideStep
<1>2. CASE (\E S \in SUBSET Files : SelectFiles(S)) \/ DropCollected
  BY <1>2, ChooseStep
<1>3. CASE (\E S \in Folders : Drop(S)) \/ DropFails
  BY <1>3, DropStep
<1>4. ASSUME NEW b \in Batches, FinishAnalysis(b) PROVE IInv'
  BY <1>4, FinishStep
<1>5. ASSUME NEW f \in Files, NEW t \in Titles \cup {NoTitle}, TypeTitle(f, t) PROVE IInv'
  BY <1>5, TypeTitleStep
<1>6. ASSUME NEW f \in Files, NEW d \in DateInputs, TypeDate(f, d) PROVE IInv'
  BY <1>6, TypeDateStep
<1>7. ASSUME NEW f \in Files, RemoveFile(f) PROVE IInv'
  BY <1>7, RemoveFileStep
<1>8. ASSUME NEW f \in Files, Stored(f) \/ UploadFails(f) PROVE IInv'
  BY <1>8, AnswersStep
<1>9. CASE ClearAll \/ Reset
  BY <1>9, ClearStep
<1>10. CASE ClickUpload
  BY <1>10, ClickUploadStep
<1>11. CASE UploadComplete
  BY <1>11, CompleteStep
<1>12. CASE \/ \E i \in Ids, step \in Done : Process(i, step)
            \/ PollTick
            \/ \E p \in Polls : Read(p) \/ Deliver(p) \/ LoseAnswer(p)
  BY <1>12, PollStep
<1> QED
  BY <1>1, <1>2, <1>3, <1>4, <1>5, <1>6, <1>7, <1>8, <1>9, <1>10, <1>11, <1>12 DEF Next

\* The invariant holds throughout.
LEMMA Invariance == Spec => []IInv
  BY InitOK, StepOK, PTL DEF Spec

\* Every variable of the form keeps its type.
THEOREM TypesHold == Spec => []TypeOK
<1>1. IInv => TypeOK
  BY DEF IInv
<1> QED
  BY <1>1, Invariance, PTL

\* A date the user has typed is never replaced by an analysis
\* (UploadForm.tsx:189-197), however many of the file are in flight.
THEOREM TypedDatesStay == Spec => []TypedDateStays
<1>1. IInv => TypedDateStays
  BY DEF IInv, Rows
<1> QED
  BY <1>1, Invariance, PTL

\* An upload sends the title and the date of each row that shows one
\* (UploadForm.tsx:219-226 and 568-596), also when folders and analyses of other
\* files arrive while it runs; of a title or date that was cleared it says
\* nothing.
THEOREM SentAsRowsShow == Spec => []SentAsShown
<1>1. IInv => SentAsShown
  BY DEF IInv, Upload
<1> QED
  BY <1>1, Invariance, PTL

\* Files are sent in the order of their rows (UploadForm.tsx:627-650 and
\* 701-715), for every set of files, tags and names.
THEOREM SentInOrder == Spec => []SentInShownOrder
<1>1. IInv => SentInShownOrder
  BY DEF IInv, Upload, SentInShownOrder, ShownBefore
<1> QED
  BY <1>1, Invariance, PTL

\* A file whose row can be edited has its entries, and one that is not in the
\* list has nothing the user typed, whatever was removed, chosen again or
\* cleared while it was analysed (UploadForm.tsx:157-217 and 547-565).
THEOREM EntriesFollow == Spec => []EntriesFollowFiles
<1>1. IInv => EntriesFollowFiles
  BY DEF IInv, Rows
<1> QED
  BY <1>1, Invariance, PTL

=============================================================================
