------------------------------- MODULE Player -------------------------------
(***************************************************************************)
(* Playing a recording on its own page or on a share's: RecordingDetail    *)
(* and SharePage mount a VideoPlayer or a WaveformPlayer and hand over     *)
(* between the two; useVideoPlayer and useAudioPlayer keep React state     *)
(* next to a media element that loads, plays and reports by events.  The   *)
(* media element and WaveSurfer are external.                              *)
(***************************************************************************)
EXTENDS Integers

CONSTANTS
  Duration,    \* of the recording, in seconds
  Marks,       \* where its songs start, if it has any
  MaxToggles   \* changes between video and audio explored

ASSUME PlayerAssumption ==
  /\ Duration \in Nat \ {0}
  /\ Marks \subseteq 0..Duration
  /\ MaxToggles \in Nat

VARIABLES
  media,      \* media_type
  host,       \* the page: "detail" polls while processing goes on
  step,       \* processing_step as the page knows it, "working" or "complete"
  watched,    \* history: the page was open when processing ended
  waveform,   \* waveform_ready as the page knows it
  songs,      \* the songs' starts
  showVideo,
  transfer,   \* transferTime and transferPlaying
  player,     \* the mounted player: React state, effects and pending events
  el,         \* its media element
  left,       \* history: the element as the last toggle left it
  toggles

vars == <<media, host, step, watched, waveform, songs, showVideo, transfer, player,
          el, left, toggles>>
pageVars == <<media, host, step, watched, waveform, songs>>
viewVars == <<showVideo, transfer, left, toggles>>

Times == 0..Duration
Place == [time : Times, playing : BOOLEAN]
Start == [time |-> 0, playing |-> FALSE]

\* attached: the video's listeners are there, or a WaveSurfer instance is.
\* playNews, timeNews: events of the element not handled yet.
PlayerState ==
  [fetching : BOOLEAN, peaksLoaded : BOOLEAN, attached : BOOLEAN,
   ready : BOOLEAN, time : Times, playing : BOOLEAN,
   playNews : BOOLEAN, timeNews : BOOLEAN]

\* settled: the old player was ready and had no events left to handle.
Left == [time : Times, playing : BOOLEAN, settled : BOOLEAN]

TypeOK ==
  /\ media \in {"audio", "video"}
  /\ host \in {"detail", "share"}
  /\ step \in {"working", "complete"}
  /\ watched \in BOOLEAN /\ waveform \in BOOLEAN /\ showVideo \in BOOLEAN
  /\ songs \in {{}, Marks}
  /\ transfer \in Place
  /\ player \in PlayerState
  /\ el \in [time : Times, playing : BOOLEAN, loaded : BOOLEAN]
  /\ left \in Left
  /\ toggles \in 0..MaxToggles

NewElement == [time |-> 0, playing |-> FALSE, loaded |-> FALSE]

VideoShown(m, v) == m = "video" /\ v

\* useAudioPlayer without a peaks URL has its peaks at once; with one it waits
\* for them.  A share's page always has the URL.
PeaksUrl(h, s, w) == h = "share" \/ (s = "complete" /\ w)

\* The effects of a mount.  While the recording is processed the element is
\* not rendered, and an effect without its element returns.
Mounted(m, h, s, w, v) ==
  LET wave == ~VideoShown(m, v)
      wait == wave /\ PeaksUrl(h, s, w) IN
  [fetching |-> wait, peaksLoaded |-> ~wait,
   attached |-> s = "complete" /\ ~wait,
   ready |-> FALSE, time |-> 0, playing |-> FALSE,
   playNews |-> FALSE, timeNews |-> FALSE]

Init ==
  /\ media \in {"audio", "video"}
  /\ host \in {"detail", "share"}
  /\ step \in {"working", "complete"}
  /\ waveform \in {w \in BOOLEAN : step = "working" => ~w}
  /\ songs \in {{}, Marks}
  /\ watched = FALSE
  /\ showVideo = TRUE
  /\ transfer = Start
  /\ player = Mounted(media, host, step, waveform, TRUE)
  /\ el = NewElement
  /\ left = [time |-> 0, playing |-> FALSE, settled |-> FALSE]
  /\ toggles = 0

----------------------------------------------------------------------------

isVideo == VideoShown(media, showVideo)

\* Both players show ProcessingStatus instead of an element until processing
\* has ended.
PlayerShown == step = "complete"

\* videoRef.current or wavesurferRef.current is there.
HasElement == PlayerShown /\ (isVideo \/ player.attached)

Min(a, b) == IF a < b THEN a ELSE b

\* Bug form: no lower bound.
ClampAbove(t) == Min(t, Duration)

Clamp(t) == IF t < 0 THEN 0 ELSE Min(t, Duration)

\* Bug form: the waveform effect depends on the peaks alone.
ProcessingEndsUnseen(w) ==
  /\ host = "detail"
  /\ step = "working"
  /\ step' = "complete"
  /\ waveform' = w
  /\ watched' = TRUE
  /\ player' = IF isVideo THEN player ELSE [player EXCEPT !.fetching = w]
  /\ UNCHANGED <<media, host, songs, el, viewVars>>

\* The poll of useRecording finds processing ended.  The result is written in
\* one statement, so that waveform_ready and duration_seconds come with the
\* step.  The video effect depends on neither and does not run again; the
\* waveform effect does, for the duration.
ProcessingEnds(w) ==
  /\ host = "detail"
  /\ step = "working"
  /\ step' = "complete"
  /\ waveform' = w
  /\ watched' = TRUE
  /\ player' = IF isVideo THEN player
               ELSE [player EXCEPT !.attached = TRUE, !.fetching = w]
  /\ UNCHANGED <<media, host, songs, el, viewVars>>

\* Bug form: peaks that cannot be fetched are waited for.
PeaksRequired(found) ==
  /\ player.fetching
  /\ IF ~player.peaksLoaded
     THEN /\ player' = [player EXCEPT !.fetching = FALSE, !.peaksLoaded = found,
                                      !.attached = PlayerShown /\ found]
          /\ UNCHANGED el
     ELSE /\ player' = [player EXCEPT !.fetching = FALSE]
          /\ el' = el
  /\ UNCHANGED <<pageVars, viewVars>>

\* fetchPeaks ends.  The first time WaveSurfer is created; peaks that arrive
\* for an instance created without them replace it, and the events of the old
\* one are dropped.
PeaksSettle(found) ==
  /\ player.fetching
  /\ IF ~player.peaksLoaded
     THEN /\ player' = [player EXCEPT !.fetching = FALSE, !.peaksLoaded = TRUE,
                                      !.attached = PlayerShown]
          /\ UNCHANGED el
     ELSE IF found
     THEN /\ player' = [player EXCEPT !.fetching = FALSE, !.playNews = FALSE,
                                      !.timeNews = FALSE]
          /\ el' = NewElement
     ELSE /\ player' = [player EXCEPT !.fetching = FALSE]
          /\ UNCHANGED el
  /\ UNCHANGED <<pageVars, viewVars>>

\* WaveSurfer is ready, with or before its media; one that replaces another
\* finds isReady set.
WaveReady ==
  /\ ~isVideo /\ HasElement
  /\ ~player.ready
  /\ player' = [player EXCEPT !.ready = TRUE]
  /\ UNCHANGED <<pageVars, viewVars, el>>

\* The media can play.  The handler of the video's loadedmetadata, or of the
\* canplay of WaveSurfer's element, goes to initialTime and plays if asked to;
\* the video's is ready with it.
MediaLoads ==
  /\ HasElement
  /\ ~el.loaded
  /\ IF player.attached
     THEN /\ el' = [time |-> IF transfer.time > 0 THEN transfer.time ELSE el.time,
                    playing |-> el.playing \/ transfer.playing, loaded |-> TRUE]
          /\ player' = [player EXCEPT !.ready = @ \/ isVideo,
                                      !.playNews = @ \/ el'.playing # el.playing,
                                      !.timeNews = @ \/ el'.time # el.time]
     ELSE /\ el' = [el EXCEPT !.loaded = TRUE]
          /\ UNCHANGED player
  /\ UNCHANGED <<pageVars, viewVars>>

\* A second of playback; the end pauses.
Tick ==
  /\ HasElement /\ el.loaded /\ el.playing
  /\ IF el.time < Duration
     THEN /\ el' = [el EXCEPT !.time = @ + 1]
          /\ player' = [player EXCEPT !.timeNews = TRUE]
     ELSE /\ el' = [el EXCEPT !.playing = FALSE]
          /\ player' = [player EXCEPT !.playNews = TRUE]
  /\ UNCHANGED <<pageVars, viewVars>>

\* Bug form: only play is listened to.
PlayEventOnly ==
  /\ player.attached /\ player.playNews
  /\ player' = [player EXCEPT !.playNews = FALSE, !.playing = @ \/ el.playing]
  /\ UNCHANGED <<pageVars, viewVars, el>>

\* play, pause, ended and finish.
PlayEvent ==
  /\ player.attached /\ player.playNews
  /\ player' = [player EXCEPT !.playNews = FALSE, !.playing = el.playing]
  /\ UNCHANGED <<pageVars, viewVars, el>>

\* timeupdate.
TimeEvent ==
  /\ player.attached /\ player.timeNews
  /\ player' = [player EXCEPT !.timeNews = FALSE, !.time = el.time]
  /\ UNCHANGED <<pageVars, viewVars, el>>

----------------------------------------------------------------------------
\* Controls.

SetPlaying(p) ==
  /\ el' = [el EXCEPT !.playing = p]
  /\ player' = [player EXCEPT !.playNews = p # el.playing \/ @]
  /\ UNCHANGED <<pageVars, viewVars>>

\* The button waits for isReady; the space bar does not.
TogglePlayButton == HasElement /\ player.ready /\ SetPlaying(~el.playing)
SpaceKey == HasElement /\ SetPlaying(~el.playing)

\* The media session's handlers go by the React state.
SessionPlay == HasElement /\ ~player.playing /\ SetPlaying(~el.playing)
SessionPause == HasElement /\ player.playing /\ SetPlaying(~el.playing)
SessionStop == HasElement /\ el.playing /\ SetPlaying(FALSE)

\* seekToTime: before the metadata a video has no duration and goes to 0.  The
\* silent play and pause of the first seek cancel out.  On the detail page a
\* video's onSeek is handleSeek, which calls seekToTime again and so on, until
\* the stack is full; the time is set by then.
SeekTo(t) ==
  /\ HasElement
  /\ el' = [el EXCEPT !.time =
       IF isVideo /\ ~el.loaded THEN 0 ELSE Clamp(t)]
  /\ player' = [player EXCEPT !.timeNews = TRUE]
  /\ UNCHANGED <<pageVars, viewVars>>

SeekBar(t) == SeekTo(t)
ArrowKey(d) == SeekTo(player.time + d)

\* handlePreviousTrack and handleNextTrack, of the buttons and of the media
\* session: two seconds into a song "previous" still means the song before.
PreviousTrack ==
  LET before == {m \in songs : m < player.time - 2} IN
  IF before = {} THEN 0 ELSE CHOOSE m \in before : \A n \in before : n <= m
Later == {m \in songs : m > player.time + 1}
NextTrack == CHOOSE m \in Later : \A n \in Later : m <= n

PreviousButton == songs # {} /\ player.ready /\ SeekTo(PreviousTrack)
NextButton == Later # {} /\ player.ready /\ SeekTo(NextTrack)
SessionPrevious == songs # {} /\ SeekTo(PreviousTrack)
SessionNext == Later # {} /\ SeekTo(NextTrack)

\* Without songs the session skips ten seconds.
SessionSkip(d) == songs = {} /\ SeekTo(Clamp(player.time + d))

\* Markers, the song list and comments call handleSeek.
HandleSeek(t) == SeekTo(t)

----------------------------------------------------------------------------
\* Changing between video and audio.

CanToggle == media = "video" /\ PlayerShown /\ toggles < MaxToggles

Switch(place) ==
  /\ transfer' = place
  /\ left' = [time |-> el.time, playing |-> el.playing,
              settled |-> player.ready /\ ~player.playNews /\ ~player.timeNews
                          /\ player.attached]
  /\ showVideo' = ~showVideo
  /\ player' = Mounted(media, host, step, waveform, ~showVideo)
  /\ el' = NewElement
  /\ toggles' = toggles + 1
  /\ UNCHANGED pageVars

\* Bug form: the state is read after the old player is gone.
ToggleAfterwards == CanToggle /\ Switch(Start)

\* handleVideoToggle: the old player's React state is what is handed over.
Toggle ==
  CanToggle /\ Switch([time |-> player.time, playing |-> player.playing])

----------------------------------------------------------------------------

Next ==
  \/ \E b \in BOOLEAN : ProcessingEnds(b) \/ PeaksSettle(b)
  \/ WaveReady \/ MediaLoads \/ Tick \/ PlayEvent \/ TimeEvent
  \/ TogglePlayButton \/ SpaceKey
  \/ SessionPlay \/ SessionPause \/ SessionStop
  \/ \E t \in Times : SeekBar(t)
  \/ \E d \in {-5, 5} : ArrowKey(d)
  \/ PreviousButton \/ NextButton \/ SessionPrevious \/ SessionNext
  \/ \E d \in {-10, 10} : SessionSkip(d)
  \/ \E t \in songs : HandleSeek(t)
  \/ Toggle

Spec == Init /\ [][Next]_vars

\* Requests end, media load and the browser dispatches events.
FairSpec ==
  /\ Spec
  /\ WF_vars(\E b \in BOOLEAN : PeaksSettle(b))
  /\ WF_vars(WaveReady)
  /\ WF_vars(MediaLoads)
  /\ WF_vars(PlayEvent)
  /\ WF_vars(TimeEvent)

----------------------------------------------------------------------------

\* Whoever changes between video and audio goes on where the old element was,
\* if its player was ready and had told where; a waveform that is ready before
\* its media can play is not yet where the one before it was (handleVideoToggle,
\* RecordingDetail.tsx:100-117, useVideoPlayer.ts:77-86, useAudioPlayer.ts:106-120).
HandoffKeepsPlace ==
  [][~el.loaded /\ el'.loaded /\ left.settled =>
       /\ left.time > 0 => el'.time = left.time
       /\ left.playing => el'.playing]_vars

\* An audio recording gets its WaveSurfer whatever order the step, the
\* duration and the peaks arrive in (the effect's dependencies,
\* useAudioPlayer.ts:80-147).
AudioIsAttached ==
  media = "audio" /\ PlayerShown /\ player.peaksLoaded => player.attached

\* A player becomes ready, and its controls with it; a video page left open
\* while processing ends is the exception (useVideoPlayer.ts:73-75).
BecomesReady ==
  PlayerShown /\ (media = "audio" \/ ~watched) ~> player.ready

\* What the controls show agrees with the element again and again, on a page
\* opened after processing (useVideoPlayer.ts:87-94, useAudioPlayer.ts:122-137).
DisplayFollows ==
  ~watched /\ player.playing # el.playing ~> player.playing = el.playing

=============================================================================
