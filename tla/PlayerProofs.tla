---------------------------- MODULE PlayerProofs ----------------------------
(***************************************************************************)
(* Safety of the players, for recordings of any length with any marks and  *)
(* any number of changes between video and audio.  The strengthening says  *)
(* when the React state may differ from the element - only while an event  *)
(* waits - and what a change hands over.                                   *)
(***************************************************************************)
EXTENDS Player, WellFoundedInduction, TLAPS

Steady == player.playNews \/ player.playing = el.playing
Timely == player.timeNews \/ player.time = el.time

\* A recording with a video changes its player only once it is processed, and
\* its waveform waits for the peaks at most once.
Mirror ==
  media = "video" =>
    /\ Steady /\ Timely
    /\ step = "working" => showVideo
    /\ player.fetching => ~player.peaksLoaded

\* What a settled player has handed over is still to be applied, by a player
\* that can.
Handed ==
  left.settled =>
    /\ media = "video" /\ PlayerShown
    /\ transfer.time = left.time /\ transfer.playing = left.playing
    /\ isVideo => player.attached

IInv == TypeOK /\ AudioIsAttached /\ Mirror /\ Handed

----------------------------------------------------------------------------
(* Operators. *)

\* Seeking stays within the recording.
LEMMA ClampType == \A t \in Int : Clamp(t) \in Times
  BY PlayerAssumption DEF Clamp, Min, Times

\* A set of natural numbers that is not empty has a least member.
LEMMA LeastNumber ==
  ASSUME NEW S \in SUBSET Nat, S # {}
  PROVE  \E n \in S : \A k \in S : n <= k
<1> DEFINE Less == {ss \in Nat \X Nat : ss[1] < ss[2]}
<1>1. IsWellFoundedOn(Less, Nat)
  BY NatLessThanWellFounded DEF OpToRel
<1>2. \E n \in S : \A k \in S : ~(<<k, n>> \in Less)
  BY <1>1, WFMin
<1>3. \A n, k \in Nat : ~(<<k, n>> \in Less) => n <= k
  OBVIOUS
<1> HIDE DEF Less
<1> QED
  BY <1>2, <1>3

\* A set of times that is not empty has a last member.
LEMMA GreatestTime ==
  ASSUME NEW S \in SUBSET Times, S # {}
  PROVE  \E n \in S : \A k \in S : k <= n
<1>1. PICK d \in {Duration - k : k \in S} : \A e \in {Duration - k : k \in S} : d <= e
  <2>1. \A k \in S : k \in Int /\ 0 <= k /\ k <= Duration
    BY PlayerAssumption DEF Times
  <2>2. Duration \in Int /\ \A k \in S : Duration - k \in Nat
    BY <2>1, PlayerAssumption
  <2>3. {Duration - k : k \in S} \in SUBSET Nat
    BY <2>2
  <2>4. {Duration - k : k \in S} # {}
    OBVIOUS
  <2> QED
    BY <2>3, <2>4, LeastNumber
<1>2. PICK n \in S : d = Duration - n
  BY <1>1
<1>3. ASSUME NEW k \in S PROVE k <= n
  <2>1. d <= Duration - k
    BY <1>1
  <2> QED
    BY <1>2, <2>1, PlayerAssumption DEF Times
<1> QED
  BY <1>3

\* The marks the buttons go to are in the recording.
LEMMA TrackType ==
  ASSUME TypeOK
  PROVE  /\ PreviousTrack \in Times
         /\ Later # {} => NextTrack \in Times
<1>1. songs \subseteq Times /\ 0 \in Times
  <2>1. songs = {} \/ songs = Marks
    BY DEF TypeOK
  <2>2. Marks \subseteq Times
    BY PlayerAssumption DEF Times
  <2>3. 0 \in Times
    BY PlayerAssumption DEF Times
  <2> QED
    BY <2>1, <2>2, <2>3
<1>2. PreviousTrack \in Times
  <2> DEFINE before == {m \in songs : m < player.time - 2}
  <2>1. before # {} => \E m \in before : \A n \in before : n <= m
    BY <1>1, GreatestTime
  <2>2. PreviousTrack =
          IF before = {} THEN 0 ELSE CHOOSE m \in before : \A n \in before : n <= m
    BY DEF PreviousTrack
  <2>3. before \subseteq Times
    BY <1>1
  <2> HIDE DEF before
  <2>4. CASE before = {}
    BY <1>1, <2>2, <2>4
  <2>5. CASE before # {}
    <3>1. (CHOOSE m \in before : \A n \in before : n <= m) \in before
      BY <2>1, <2>5
    <3> QED
      BY <2>2, <2>3, <2>5, <3>1
  <2> QED
    BY <2>4, <2>5
<1>3. ASSUME Later # {} PROVE NextTrack \in Times
  <2>1. Later \in SUBSET Times /\ Later \in SUBSET Nat
    <3>1. Later \subseteq songs
      BY DEF Later
    <3>2. Times \subseteq Nat
      BY PlayerAssumption DEF Times
    <3> QED
      BY <1>1, <3>1, <3>2
  <2>2. \E m \in Later : \A n \in Later : m <= n
    BY <1>3, <2>1, LeastNumber
  <2>3. NextTrack \in Later
    BY <2>2 DEF NextTrack
  <2> QED
    BY <2>1, <2>3
<1> QED
  BY <1>2, <1>3

\* The effects of a mount.
LEMMA MountedType ==
  ASSUME NEW m, NEW h, NEW s, NEW w, NEW v
  PROVE  Mounted(m, h, s, w, v) \in PlayerState
  BY PlayerAssumption DEF Mounted, PlayerState, Times, PeaksUrl, VideoShown

----------------------------------------------------------------------------
(* The steps. *)

\* A page that opens satisfies the invariant.
LEMMA InitOK == Init => IInv
<1> SUFFICES ASSUME Init PROVE IInv
  OBVIOUS
<1>1. 0 \in Times /\ 0 \in 0..MaxToggles
  BY PlayerAssumption DEF Times
<1>2. TypeOK
  BY <1>1, MountedType DEF Init, TypeOK, Start, Place, NewElement, Left
<1>3. AudioIsAttached
  BY DEF Init, AudioIsAttached, PlayerShown, Mounted
<1>4. Mirror
  BY DEF Init, Mirror, Steady, Timely, Mounted, NewElement
<1>5. Handed
  BY DEF Init, Handed
<1> QED
  BY <1>2, <1>3, <1>4, <1>5 DEF IInv

\* A step of a player that stays.
LEMMA PlayerKept ==
  ASSUME IInv, player' \in PlayerState,
         el' \in [time : Times, playing : BOOLEAN, loaded : BOOLEAN],
         UNCHANGED <<pageVars, viewVars>>,
         player.attached => player'.attached,
         media = "audio" /\ PlayerShown /\ player'.peaksLoaded => player'.attached,
         media = "video" => /\ Steady' /\ Timely'
                            /\ player'.fetching => ~player'.peaksLoaded
  PROVE  IInv'
<1>1. TypeOK'
  BY DEF IInv, TypeOK, pageVars, viewVars
<1>2. AudioIsAttached'
  BY DEF AudioIsAttached, PlayerShown, pageVars
<1>3. Mirror'
  BY DEF IInv, Mirror, pageVars, viewVars
<1>4. Handed'
  BY DEF IInv, Handed, isVideo, VideoShown, PlayerShown, pageVars, viewVars
<1> QED
  BY <1>1, <1>2, <1>3, <1>4 DEF IInv

\* One that may only be heard of later.
LEMMA NewsKept ==
  ASSUME IInv, NEW n \in BOOLEAN, NEW t \in BOOLEAN, NEW r \in BOOLEAN,
         player' = [player EXCEPT !.playNews = n, !.timeNews = t, !.ready = r],
         el' \in [time : Times, playing : BOOLEAN, loaded : BOOLEAN],
         n \/ (~player.playNews /\ el'.playing = el.playing),
         t \/ (~player.timeNews /\ el'.time = el.time),
         UNCHANGED <<pageVars, viewVars>>
  PROVE  IInv'
<1>1. player' \in PlayerState
  BY DEF IInv, TypeOK, PlayerState
<1>2. UNCHANGED <<player.attached, player.peaksLoaded, player.fetching, player.playing, player.time>>
  BY DEF IInv, TypeOK, PlayerState
<1>3. player'.playNews = n /\ player'.timeNews = t
  BY DEF IInv, TypeOK, PlayerState
<1>4. media = "video" => Steady' /\ Timely'
  BY <1>2, <1>3 DEF IInv, Mirror, Steady, Timely
<1> QED
  BY <1>1, <1>2, <1>4, PlayerKept DEF IInv, AudioIsAttached, Mirror

\* Processing ends while the page is open, or closed.
LEMMA ProcessingStep == ASSUME IInv, NEW w \in BOOLEAN, ProcessingEnds(w) PROVE IInv'
<1>1. player' \in PlayerState /\ UNCHANGED <<media, songs, el, showVideo, transfer, left, toggles>>
  BY DEF IInv, TypeOK, ProcessingEnds, PlayerState, viewVars
<1>2. TypeOK'
  BY <1>1 DEF IInv, TypeOK, ProcessingEnds
<1>3. AudioIsAttached'
  <2>1. media = "audio" => ~isVideo
    BY DEF isVideo, VideoShown
  <2>2. ~isVideo => player'.attached
    BY DEF IInv, TypeOK, PlayerState, ProcessingEnds
  <2> QED
    BY <1>1, <2>1, <2>2 DEF AudioIsAttached
<1>4. media = "video" => UNCHANGED <<player, el, media, showVideo>>
  BY <1>1 DEF IInv, Mirror, ProcessingEnds, isVideo, VideoShown
<1>5. Mirror'
  BY <1>1, <1>4 DEF IInv, Mirror, Steady, Timely, ProcessingEnds
<1>6. Handed'
  BY <1>1 DEF IInv, Handed, PlayerShown, ProcessingEnds
<1> QED
  BY <1>2, <1>3, <1>5, <1>6 DEF IInv

\* The peaks arrive or fail.
LEMMA PeaksStep == ASSUME IInv, NEW b \in BOOLEAN, PeaksSettle(b) PROVE IInv'
<1>1. /\ player \in PlayerState /\ PlayerShown \in BOOLEAN
      /\ el \in [time : Times, playing : BOOLEAN, loaded : BOOLEAN]
      /\ NewElement \in [time : Times, playing : BOOLEAN, loaded : BOOLEAN]
      /\ UNCHANGED <<pageVars, viewVars>>
  BY PlayerAssumption DEF IInv, TypeOK, Times, PlayerShown, NewElement, PeaksSettle
<1>2. player.fetching
  BY DEF PeaksSettle
<1>3. CASE ~player.peaksLoaded
  <2>1. /\ player' = [player EXCEPT !.fetching = FALSE, !.peaksLoaded = TRUE,
                                    !.attached = PlayerShown]
        /\ el' = el
    BY <1>3 DEF PeaksSettle
  <2>2. /\ player' \in PlayerState /\ ~player'.fetching /\ player'.attached = PlayerShown
        /\ player'.playNews = player.playNews /\ player'.timeNews = player.timeNews
        /\ player'.playing = player.playing /\ player'.time = player.time
    BY <1>1, <2>1 DEF PlayerState
  <2>3. media = "video" => Steady' /\ Timely'
    BY <2>1, <2>2 DEF IInv, Mirror, Steady, Timely
  <2>4. TypeOK' /\ Mirror'
    BY <1>1, <2>1, <2>2, <2>3 DEF IInv, TypeOK, Mirror, pageVars, viewVars
  <2>5. AudioIsAttached' /\ Handed'
    BY <1>1, <2>2 DEF IInv, AudioIsAttached, Handed, PlayerShown, pageVars, viewVars
  <2> QED
    BY <2>4, <2>5 DEF IInv
<1>4. CASE player.peaksLoaded
  <2>1. media = "audio"
    BY <1>2, <1>4 DEF IInv, Mirror, TypeOK
  <2>2. /\ player' \in PlayerState /\ player'.attached = player.attached
        /\ player'.peaksLoaded = player.peaksLoaded
        /\ el' \in [time : Times, playing : BOOLEAN, loaded : BOOLEAN]
    <3>1. CASE b
      <4>1. /\ player' = [player EXCEPT !.fetching = FALSE, !.playNews = FALSE,
                                        !.timeNews = FALSE]
            /\ el' = NewElement
        BY <1>4, <3>1 DEF PeaksSettle
      <4> QED
        BY <1>1, <4>1 DEF PlayerState
    <3>2. CASE ~b
      <4>1. player' = [player EXCEPT !.fetching = FALSE] /\ el' = el
        BY <1>4, <3>2 DEF PeaksSettle
      <4> QED
        BY <1>1, <4>1 DEF PlayerState
    <3> QED
      BY <3>1, <3>2
  <2> QED
    BY <1>1, <2>1, <2>2, PlayerKept DEF IInv, AudioIsAttached
<1> QED
  BY <1>3, <1>4

\* WaveSurfer is ready.
LEMMA ReadyStep == ASSUME IInv, WaveReady PROVE IInv'
<1>1. /\ player \in PlayerState /\ UNCHANGED <<pageVars, viewVars, el>>
      /\ el \in [time : Times, playing : BOOLEAN, loaded : BOOLEAN]
      /\ player' = [player EXCEPT !.ready = TRUE]
  BY DEF IInv, TypeOK, WaveReady
<1>2. /\ player' \in PlayerState
      /\ UNCHANGED <<player.attached, player.peaksLoaded, player.fetching, player.playing,
                     player.time, player.playNews, player.timeNews>>
  BY <1>1 DEF PlayerState
<1> QED
  BY <1>1, <1>2, PlayerKept DEF IInv, Mirror, Steady, Timely, AudioIsAttached

\* The element can play, and takes over what was handed to it.
LEMMA LoadStep == ASSUME IInv, MediaLoads PROVE IInv'
<1>1. /\ player \in PlayerState /\ transfer \in Place
      /\ el \in [time : Times, playing : BOOLEAN, loaded : BOOLEAN]
      /\ UNCHANGED <<pageVars, viewVars>>
  BY DEF IInv, TypeOK, MediaLoads
<1>2. CASE player.attached
  <2>1. el' = [time |-> IF transfer.time > 0 THEN transfer.time ELSE el.time,
               playing |-> el.playing \/ transfer.playing, loaded |-> TRUE]
    BY <1>2 DEF MediaLoads
  <2>2. el' \in [time : Times, playing : BOOLEAN, loaded : BOOLEAN]
    BY <1>1, <2>1 DEF Place
  <2>3. PICK n \in BOOLEAN, t \in BOOLEAN, r \in BOOLEAN :
          /\ r <=> player.ready \/ isVideo
          /\ n <=> player.playNews \/ el'.playing # el.playing
          /\ t <=> player.timeNews \/ el'.time # el.time
    OBVIOUS
  <2>4. player' = [player EXCEPT !.playNews = n, !.timeNews = t, !.ready = r]
    BY <1>1, <1>2, <2>3 DEF MediaLoads, PlayerState
  <2> QED
    BY <1>1, <2>2, <2>3, <2>4, NewsKept
<1>3. CASE ~player.attached
  <2>1. el' = [el EXCEPT !.loaded = TRUE] /\ player' = player
    BY <1>3 DEF MediaLoads
  <2> QED
    BY <1>1, <2>1, PlayerKept DEF IInv, Mirror, Steady, Timely, AudioIsAttached
<1> QED
  BY <1>2, <1>3

\* The element plays on, or comes to its end.
LEMMA TickStep == ASSUME IInv, Tick PROVE IInv'
<1>1. /\ player \in PlayerState /\ UNCHANGED <<pageVars, viewVars>>
      /\ el \in [time : Times, playing : BOOLEAN, loaded : BOOLEAN]
  BY DEF IInv, TypeOK, Tick
<1>2. CASE el.time < Duration
  <2>1. el' = [el EXCEPT !.time = @ + 1] /\ player' = [player EXCEPT !.timeNews = TRUE]
    BY <1>2 DEF Tick
  <2>2. el.time + 1 \in Times
    BY <1>1, <1>2, PlayerAssumption DEF Times
  <2>3. /\ el' \in [time : Times, playing : BOOLEAN, loaded : BOOLEAN]
        /\ el'.playing = el.playing
    BY <1>1, <2>1, <2>2
  <2>4. /\ player' \in PlayerState /\ player'.timeNews
        /\ UNCHANGED <<player.attached, player.peaksLoaded, player.fetching, player.playing,
                       player.playNews>>
    BY <1>1, <2>1 DEF PlayerState
  <2> QED
    BY <1>1, <2>3, <2>4, PlayerKept DEF IInv, Mirror, Steady, Timely, AudioIsAttached
<1>3. CASE ~(el.time < Duration)
  <2>1. el' = [el EXCEPT !.playing = FALSE] /\ player' = [player EXCEPT !.playNews = TRUE]
    BY <1>3 DEF Tick
  <2>2. el' \in [time : Times, playing : BOOLEAN, loaded : BOOLEAN] /\ el'.time = el.time
    BY <1>1, <2>1
  <2>3. /\ player' \in PlayerState /\ player'.playNews
        /\ UNCHANGED <<player.attached, player.peaksLoaded, player.fetching, player.time,
                       player.timeNews>>
    BY <1>1, <2>1 DEF PlayerState
  <2> QED
    BY <1>1, <2>2, <2>3, PlayerKept DEF IInv, Mirror, Steady, Timely, AudioIsAttached
<1> QED
  BY <1>2, <1>3

\* React handles an event of the element.
LEMMA EventStep == ASSUME IInv, PlayEvent \/ TimeEvent PROVE IInv'
<1>1. /\ player \in PlayerState /\ UNCHANGED <<pageVars, viewVars, el>>
      /\ el \in [time : Times, playing : BOOLEAN, loaded : BOOLEAN]
  BY DEF IInv, TypeOK, PlayEvent, TimeEvent
<1>2. /\ player' \in PlayerState
      /\ UNCHANGED <<player.attached, player.peaksLoaded, player.fetching>>
  BY <1>1 DEF PlayerState, PlayEvent, TimeEvent
<1>3. media = "video" => Steady' /\ Timely'
  BY <1>1 DEF IInv, Mirror, Steady, Timely, PlayerState, PlayEvent, TimeEvent
<1> QED
  BY <1>1, <1>2, <1>3, PlayerKept DEF IInv, Mirror, AudioIsAttached

\* A control plays or pauses the element.
LEMMA SetPlayingStep == ASSUME IInv, NEW p \in BOOLEAN, SetPlaying(p) PROVE IInv'
<1>1. /\ player \in PlayerState /\ UNCHANGED <<pageVars, viewVars>>
      /\ el \in [time : Times, playing : BOOLEAN, loaded : BOOLEAN]
      /\ el' = [el EXCEPT !.playing = p]
  BY DEF IInv, TypeOK, SetPlaying
<1>2. PICK n \in BOOLEAN : n <=> p # el.playing \/ player.playNews
  OBVIOUS
<1>3. player' = [player EXCEPT !.playNews = n]
  BY <1>1, <1>2 DEF SetPlaying, PlayerState
<1>4. /\ player' \in PlayerState
      /\ player'.playNews = n
      /\ UNCHANGED <<player.attached, player.peaksLoaded, player.fetching, player.playing,
                     player.time, player.timeNews>>
  BY <1>1, <1>3 DEF PlayerState
<1>5. el'.playing = p /\ el'.time = el.time
  BY <1>1
<1>6. media = "video" => Steady' /\ Timely'
  BY <1>1, <1>2, <1>4, <1>5 DEF IInv, Mirror, Steady, Timely
<1> QED
  BY <1>1, <1>4, <1>6, PlayerKept DEF IInv, Mirror, AudioIsAttached

\* A control moves the element.
LEMMA SeekStep == ASSUME IInv, NEW t \in Int, SeekTo(t) PROVE IInv'
<1>1. /\ player \in PlayerState /\ UNCHANGED <<pageVars, viewVars>>
      /\ el \in [time : Times, playing : BOOLEAN, loaded : BOOLEAN]
      /\ player' = [player EXCEPT !.timeNews = TRUE]
  BY DEF IInv, TypeOK, SeekTo
<1>2. (IF isVideo /\ ~el.loaded THEN 0 ELSE Clamp(t)) \in Times
  BY ClampType, PlayerAssumption DEF Times
<1>3. /\ el' \in [time : Times, playing : BOOLEAN, loaded : BOOLEAN]
      /\ el'.playing = el.playing
  BY <1>1, <1>2 DEF SeekTo
<1>4. /\ player' \in PlayerState /\ player'.timeNews
      /\ UNCHANGED <<player.attached, player.peaksLoaded, player.fetching, player.playing,
                     player.playNews>>
  BY <1>1 DEF PlayerState
<1> QED
  BY <1>1, <1>3, <1>4, PlayerKept DEF IInv, Mirror, Steady, Timely, AudioIsAttached

\* Buttons, keys and the media session.
LEMMA ControlStep ==
  ASSUME IInv,
         \/ TogglePlayButton \/ SpaceKey \/ SessionPlay \/ SessionPause \/ SessionStop
         \/ \E t \in Times : SeekBar(t)
         \/ \E d \in {-5, 5} : ArrowKey(d)
         \/ PreviousButton \/ NextButton \/ SessionPrevious \/ SessionNext
         \/ \E d \in {-10, 10} : SessionSkip(d)
         \/ \E t \in songs : HandleSeek(t)
  PROVE  IInv'
<1>1. player.time \in Times /\ el.playing \in BOOLEAN /\ Times \subseteq Int
  BY PlayerAssumption DEF IInv, TypeOK, PlayerState, Times
<1>2. songs \subseteq Times
  BY PlayerAssumption DEF IInv, TypeOK, Times
<1>3. CASE TogglePlayButton \/ SpaceKey \/ SessionPlay \/ SessionPause \/ SessionStop
  <2>1. \E p \in BOOLEAN : SetPlaying(p)
    BY <1>1, <1>3 DEF TogglePlayButton, SpaceKey, SessionPlay, SessionPause, SessionStop
  <2> QED
    BY <2>1, SetPlayingStep
<1>4. CASE \/ PreviousButton \/ NextButton \/ SessionPrevious \/ SessionNext
  <2>1. SeekTo(PreviousTrack) \/ (Later # {} /\ SeekTo(NextTrack))
    BY <1>4 DEF PreviousButton, NextButton, SessionPrevious, SessionNext
  <2>2. PreviousTrack \in Int /\ (Later # {} => NextTrack \in Int)
    BY <1>1, TrackType DEF IInv
  <2> QED
    BY <2>1, <2>2, SeekStep
<1>5. CASE (\E t \in Times : SeekBar(t)) \/ (\E t \in songs : HandleSeek(t))
  <2>1. \E t \in Int : SeekTo(t)
    BY <1>1, <1>2, <1>5 DEF SeekBar, HandleSeek
  <2> QED
    BY <2>1, SeekStep
<1>6. CASE (\E d \in {-5, 5} : ArrowKey(d)) \/ (\E d \in {-10, 10} : SessionSkip(d))
  <2>1. PICK d \in Int : SeekTo(player.time + d) \/ SeekTo(Clamp(player.time + d))
    <3>1. \A d \in {-5, 5} \cup {-10, 10} : d \in Int
      OBVIOUS
    <3>2. \E d \in {-5, 5} \cup {-10, 10} :
            SeekTo(player.time + d) \/ SeekTo(Clamp(player.time + d))
      BY <1>6 DEF ArrowKey, SessionSkip
    <3> QED
      BY <3>1, <3>2
  <2>2. player.time + d \in Int
    <3>1. player.time \in Int
      BY <1>1
    <3> QED
      BY <3>1
  <2>3. Clamp(player.time + d) \in Int
    BY <1>1, <2>2, ClampType
  <2> QED
    BY <2>1, <2>2, <2>3, SeekStep
<1> QED
  BY <1>3, <1>4, <1>5, <1>6

\* What is handed over is what the element does, if the old player was settled.
LEMMA ToggleStep == ASSUME IInv, Toggle PROVE IInv'
<1>1. /\ media = "video" /\ PlayerShown /\ toggles < MaxToggles
      /\ transfer' = [time |-> player.time, playing |-> player.playing]
      /\ left' = [time |-> el.time, playing |-> el.playing,
                  settled |-> player.ready /\ ~player.playNews /\ ~player.timeNews
                              /\ player.attached]
      /\ showVideo' = ~showVideo
      /\ player' = Mounted(media, host, step, waveform, ~showVideo)
      /\ el' = NewElement
      /\ toggles' = toggles + 1
      /\ UNCHANGED <<media, host, step, watched, waveform, songs>>
  BY DEF Toggle, CanToggle, Switch, pageVars
<1>2. /\ player \in PlayerState /\ toggles \in 0..MaxToggles
      /\ el \in [time : Times, playing : BOOLEAN, loaded : BOOLEAN]
      /\ 0 \in Times
  BY PlayerAssumption DEF IInv, TypeOK, Times
<1>3. TypeOK'
  <2>1. transfer' \in Place
    BY <1>1, <1>2 DEF Place, PlayerState
  <2>2. left' \in Left
    BY <1>1, <1>2 DEF Left, PlayerState
  <2>3. el' \in [time : Times, playing : BOOLEAN, loaded : BOOLEAN]
    BY <1>1, <1>2 DEF NewElement
  <2>4. player' \in PlayerState
    BY <1>1, MountedType
  <2>5. toggles' \in 0..MaxToggles
    BY <1>1, <1>2, PlayerAssumption
  <2> QED
    BY <1>1, <2>1, <2>2, <2>3, <2>4, <2>5 DEF IInv, TypeOK
<1>4. AudioIsAttached'
  BY <1>1 DEF AudioIsAttached
<1>5. Mirror'
  BY <1>1 DEF Mirror, Steady, Timely, Mounted, NewElement, PlayerShown
<1>6. Handed'
  <2>1. SUFFICES ASSUME left'.settled
                 PROVE  /\ transfer'.time = left'.time /\ transfer'.playing = left'.playing
                        /\ isVideo' => player'.attached
    BY <1>1 DEF Handed, PlayerShown
  <2>2. player.time = el.time /\ player.playing = el.playing
    BY <1>1, <2>1 DEF IInv, Mirror, Steady, Timely
  <2>3. isVideo' => player'.attached
    BY <1>1 DEF isVideo, VideoShown, Mounted, PlayerShown
  <2> QED
    BY <1>1, <2>2, <2>3
<1> QED
  BY <1>3, <1>4, <1>5, <1>6 DEF IInv

----------------------------------------------------------------------------
(* The invariants and the handover. *)

\* Every step preserves the invariant.
LEMMA NextOK == IInv /\ [Next]_vars => IInv'
<1> SUFFICES ASSUME IInv, [Next]_vars PROVE IInv'
  OBVIOUS
<1>1. CASE UNCHANGED vars
  BY <1>1 DEF vars, IInv, TypeOK, AudioIsAttached, Mirror, Handed, Steady, Timely, isVideo,
              VideoShown, PlayerShown
<1>2. CASE \E b \in BOOLEAN : ProcessingEnds(b) \/ PeaksSettle(b)
  BY <1>2, ProcessingStep, PeaksStep
<1>3. CASE WaveReady \/ MediaLoads \/ Tick \/ PlayEvent \/ TimeEvent
  BY <1>3, ReadyStep, LoadStep, TickStep, EventStep
<1>4. CASE Toggle
  BY <1>4, ToggleStep
<1> QED
  BY <1>1, <1>2, <1>3, <1>4, ControlStep DEF Next

\* IInv holds initially and every step preserves it.
THEOREM Invariance == Spec => []IInv
  BY InitOK, NextOK, PTL DEF Spec

\* Type correctness: seeks, marks, skips and keys stay within the recording
\* (Clamp, useAudioPlayer.ts:176-177, useVideoPlayer.ts:42-58).
THEOREM TypesHold == Spec => []TypeOK
<1>1. IInv => TypeOK
  BY DEF IInv
<1> QED
  BY <1>1, Invariance, PTL

\* An audio recording has its WaveSurfer once its peaks are settled and it is
\* processed, in whatever order (useAudioPlayer.ts:80-147).
THEOREM AlwaysAttached == Spec => []AudioIsAttached
<1>1. IInv => AudioIsAttached
  BY DEF IInv
<1> QED
  BY <1>1, Invariance, PTL

\* Every change between video and audio goes on where a settled player was
\* (RecordingDetail.tsx:100-117, useAudioPlayer.ts:106-120).
THEOREM PlaceIsKept == Spec => HandoffKeepsPlace
<1>1. ASSUME IInv, [Next]_vars, ~el.loaded, el'.loaded, left.settled
      PROVE  /\ left.time > 0 => el'.time = left.time
             /\ left.playing => el'.playing
  <2>1. MediaLoads
    <3>1. CASE Toggle
      BY <1>1, <3>1 DEF Toggle, Switch, NewElement
    <3>2. CASE \E b \in BOOLEAN : ProcessingEnds(b) \/ PeaksSettle(b)
      BY <1>1, <3>2 DEF ProcessingEnds, PeaksSettle, NewElement
    <3>3. ASSUME NEW p, SetPlaying(p) PROVE FALSE
      BY <1>1, <3>3 DEF SetPlaying, IInv, TypeOK
    <3>4. ASSUME NEW t, SeekTo(t) PROVE FALSE
      BY <1>1, <3>4 DEF SeekTo, IInv, TypeOK
    <3>5. CASE WaveReady \/ Tick \/ PlayEvent \/ TimeEvent \/ UNCHANGED vars
      BY <1>1, <3>5 DEF WaveReady, Tick, PlayEvent, TimeEvent, vars
    <3> QED
      BY <1>1, <3>1, <3>2, <3>3, <3>4, <3>5
      DEF Next, TogglePlayButton, SpaceKey, SessionPlay, SessionPause, SessionStop, SeekBar,
          ArrowKey, PreviousButton, NextButton, SessionPrevious, SessionNext, SessionSkip,
          HandleSeek
  <2>2. player.attached
    BY <1>1, <2>1 DEF IInv, Handed, MediaLoads, HasElement
  <2>3. transfer.time = left.time /\ transfer.playing = left.playing
    BY <1>1 DEF IInv, Handed
  <2>4. el' = [time |-> IF transfer.time > 0 THEN transfer.time ELSE el.time,
               playing |-> el.playing \/ transfer.playing, loaded |-> TRUE]
    BY <2>1, <2>2 DEF MediaLoads
  <2>5. left.time > 0 => el'.time = left.time
    BY <2>3, <2>4
  <2>6. left.playing => el'.playing
    BY <2>3, <2>4
  <2> QED
    BY <2>5, <2>6
<1>2. IInv /\ [Next]_vars =>
        [~el.loaded /\ el'.loaded /\ left.settled =>
           /\ left.time > 0 => el'.time = left.time
           /\ left.playing => el'.playing]_vars
  BY <1>1
<1> QED
  BY <1>2, Invariance, PTL DEF Spec, HandoffKeepsPlace

=============================================================================
