---------------------------- MODULE VoiceScreen ----------------------------
(***************************************************************************)
(* Talking and listening on the app's voice screen                         *)
(* (frontend/lib/features/voice/screens/voice_screen.dart), with its       *)
(* AudioService and StreamAudioPlayer.  Every action is what the screen    *)
(* does from one await to the next: _startTalking waits for the microphone *)
(* permission and for the recorder, _stopTalking for the recorder, and     *)
(* meanwhile the user, the socket and the timers go on.                    *)
(* The recorder answers in the order in which it starts and stops.         *)
(* What arrives over the socket is any sequence of messages;               *)
(* VoiceConnection is about which.                                         *)
(***************************************************************************)
EXTENDS AudioQueue

CONSTANTS
  Calls,         \* bound: the calls of _startTalking (_stopTalking) under way
  MaxMessages,   \* bound: the messages that arrive
  MaxPresses     \* bound: how often the button is pressed

ASSUME ScreenAssumption == MaxMessages \in Nat /\ MaxPresses \in Nat

VARIABLES
  mounted,        \* the screen is shown
  receiving,      \* _isReceiving
  transmitting,   \* _isTransmitting
  busy,           \* _isChannelBusy
  inSegment,      \* StreamAudioPlayer._inSegment
  idleTimer,      \* _receiveIdleTimer is armed
  recording,      \* AudioService._isRecording
  capturing,      \* the recorder delivers chunks, which are sent
  starts,         \* starts[i]: what call i of _startTalking waits for
  stops,          \* the calls of _stopTalking that wait for the recorder
  touch,          \* the finger on the button: "none", a "tap", or "cancelled"
  messages,       \* how many messages may still arrive
  presses         \* how often the button may still be pressed

listenVars == <<receiving, inSegment, idleTimer>>
talkVars == <<transmitting, recording, capturing, starts, stops>>
boundVars == <<messages, presses>>
vars == <<queueVars, listenVars, talkVars, boundVars, mounted, busy, touch>>

Init ==
  /\ QueueInit
  /\ mounted = TRUE
  /\ receiving = FALSE /\ inSegment = FALSE /\ idleTimer = FALSE
  /\ transmitting = FALSE /\ recording = FALSE /\ capturing = FALSE
  /\ busy = FALSE
  /\ starts = [i \in Calls |-> "none"]
  /\ stops = {}
  /\ touch = "none"
  /\ messages = MaxMessages
  /\ presses = MaxPresses

-----------------------------------------------------------------------------
(***************************************************************************)
(* Listening: _handleAudioMessage, _onQueueAudio, _endReceiveSegment.      *)
(***************************************************************************)
Arrives ==
  /\ mounted
  /\ messages > 0
  /\ messages' = messages - 1

OnAudio(n) ==
  /\ Arrives
  /\ Enqueue(n)
  /\ StartPlayback
  /\ UNCHANGED <<listenVars, talkVars, presses, mounted, busy, touch>>

\* is_ptt = false; the end of a segment without audio.
OnEndOfSegment ==
  /\ Arrives
  /\ EnqueueEndOfSegment
  /\ UNCHANGED <<playing, listenVars, talkVars, presses, mounted, busy, touch>>

\* Mutant: the end of a segment frees the channel whoever is talking.
FreeAnyway == FALSE

\* Listening has ended; the channel stays busy while the user talks.
StillBusy == transmitting /\ busy

EndReceiveSegment ==
  /\ idleTimer' = FALSE
  /\ inSegment' = FALSE
  /\ receiving' = FALSE
  /\ busy' = StillBusy

OnDisconnected ==
  /\ Arrives
  /\ EndReceiveSegment
  /\ UNCHANGED <<queueVars, talkVars, presses, mounted, touch>>

\* Mutant: the idle timer is never armed.
LeaveIdleTimer == UNCHANGED idleTimer

ResetReceiveIdleTimer == idleTimer' = TRUE

\* _onQueueAudio: a chunk is fed to the player.
PlayChunk ==
  /\ \E n \in Lengths : ProcessNextChunk(Chunk(n))
  /\ inSegment' = TRUE
  /\ receiving' = (receiving \/ ~inSegment)
  /\ busy' = (busy \/ ~inSegment)
  /\ ResetReceiveIdleTimer
  /\ UNCHANGED <<talkVars, boundVars, mounted, touch>>

PlayMarker ==
  /\ ProcessNextChunk(EndMarker)
  /\ EndReceiveSegment
  /\ UNCHANGED <<talkVars, boundVars, mounted, touch>>

PlaybackEnds ==
  /\ StopPlayback
  /\ UNCHANGED <<listenVars, talkVars, boundVars, mounted, busy, touch>>

\* 2.5 s without a chunk fed to the player.  The queue may be playing again: a
\* chunk that has just arrived waits for the timer's first tick, 50 ms later,
\* and does not reset this one.
ReceiveIdle ==
  /\ idleTimer
  /\ EndReceiveSegment
  /\ UNCHANGED <<queueVars, talkVars, boundVars, mounted, touch>>

\* The stop button of the player, shown while receiving and not transmitting.
StopListening ==
  /\ mounted
  /\ receiving /\ ~transmitting
  /\ Clear
  /\ EndReceiveSegment
  /\ UNCHANGED <<talkVars, boundVars, mounted, touch>>

-----------------------------------------------------------------------------
(***************************************************************************)
(* Talking: the button, _startTalking and _stopTalking.                    *)
(***************************************************************************)
CanTransmit == ~busy \/ transmitting

Press ==
  /\ mounted /\ touch = "none" /\ CanTransmit
  /\ presses > 0
  /\ presses' = presses - 1
  /\ touch' = "tap"
  /\ UNCHANGED <<queueVars, listenVars, messages, mounted, busy>>

\* _startTalking returns at once.
PressIgnored ==
  /\ Press
  /\ transmitting
  /\ UNCHANGED talkVars

PressToTalk(i) ==
  /\ Press
  /\ ~transmitting
  /\ starts[i] = "none"
  /\ starts' = [starts EXCEPT ![i] = "permission"]
  /\ UNCHANGED <<transmitting, recording, capturing, stops>>

\* Mutant: a transmission is not shown if the channel became busy meanwhile.
TransmittingUnlessBusy ==
  IF mounted /\ ~busy
  THEN transmitting' = TRUE /\ busy' = TRUE
  ELSE UNCHANGED <<transmitting, busy>>

\* The recorder runs, for this call or an earlier one: the end of _startTalking.
NowTransmitting ==
  IF mounted
  THEN transmitting' = TRUE /\ busy' = TRUE
  ELSE UNCHANGED <<transmitting, busy>>

EndStart(i) == starts' = [starts EXCEPT ![i] = "none"]

PermissionDenied(i) ==
  /\ starts[i] = "permission"
  /\ EndStart(i)
  /\ UNCHANGED <<queueVars, listenVars, boundVars, mounted, busy, touch>>
  /\ UNCHANGED <<transmitting, recording, capturing, stops>>

\* startRecording returns at once if it is recording.
AlreadyRecording(i) ==
  /\ starts[i] = "permission"
  /\ recording
  /\ EndStart(i)
  /\ NowTransmitting
  /\ UNCHANGED <<queueVars, listenVars, boundVars, mounted, touch>>
  /\ UNCHANGED <<recording, capturing, stops>>

PermissionGranted(i) ==
  /\ starts[i] = "permission"
  /\ ~recording
  /\ starts' = [starts EXCEPT ![i] = "recorder"]
  /\ UNCHANGED <<queueVars, listenVars, boundVars, mounted, busy, touch>>
  /\ UNCHANGED <<transmitting, recording, capturing, stops>>

RecorderStarted(i) ==
  /\ starts[i] = "recorder"
  /\ EndStart(i)
  /\ recording' = TRUE
  /\ capturing' = TRUE
  /\ NowTransmitting
  /\ UNCHANGED <<queueVars, listenVars, boundVars, mounted, touch, stops>>

\* The recorder fails to start, or permission is denied when asked again;
\* another call may have been successful.
RecorderFailed(i) ==
  /\ starts[i] = "recorder"
  /\ EndStart(i)
  /\ IF recording THEN NowTransmitting ELSE UNCHANGED <<transmitting, busy>>
  /\ UNCHANGED <<queueVars, listenVars, boundVars, mounted, touch>>
  /\ UNCHANGED <<recording, capturing, stops>>

\* What _stopTalking leaves behind at its end.
EndStop ==
  IF mounted
  THEN transmitting' = FALSE /\ busy' = (receiving /\ busy)
  ELSE UNCHANGED <<transmitting, busy>>

\* The button hears of the end of a tap when the finger leaves the screen, and
\* when the tap is cancelled: it slid off, or the button was disabled or taken
\* away.
EndTap ==
  /\ mounted
  /\ touch = "tap"
  /\ touch' \in {"none", "cancelled"}
  /\ UNCHANGED <<queueVars, listenVars, boundVars, mounted>>

\* Nothing is being recorded: _stopTalking runs to its end.
StopAtOnce ==
  /\ EndTap
  /\ ~recording
  /\ EndStop
  /\ UNCHANGED <<recording, capturing, starts, stops>>

StopRecording(i) ==
  /\ EndTap
  /\ recording
  /\ i \notin stops
  /\ recording' = FALSE
  /\ stops' = stops \cup {i}
  /\ UNCHANGED <<transmitting, busy, capturing, starts>>

\* The button hears nothing after a cancelled tap, nor, maybe, when it has no
\* handlers any more (ptt_button.dart:54).
ReleaseUnheard ==
  /\ \/ touch = "cancelled"
     \/ touch = "tap" /\ ~(mounted /\ CanTransmit)
  /\ touch' = "none"
  /\ UNCHANGED <<queueVars, listenVars, boundVars, mounted, talkVars, busy>>

RecorderStopped(i) ==
  /\ i \in stops
  /\ stops' = stops \ {i}
  /\ capturing' = FALSE
  /\ EndStop
  /\ UNCHANGED <<queueVars, listenVars, boundVars, mounted, touch>>
  /\ UNCHANGED <<recording, starts>>

-----------------------------------------------------------------------------
\* dispose: timers and subscriptions are cancelled, the queue is cleared and
\* the recorder and the player are given back.
Dispose ==
  /\ mounted
  /\ mounted' = FALSE
  /\ Clear
  /\ idleTimer' = FALSE
  /\ inSegment' = FALSE
  /\ recording' = FALSE
  /\ capturing' = FALSE
  /\ UNCHANGED <<receiving, busy, transmitting, starts, stops, boundVars, touch>>

\* The recorder's answers and the timers come without anybody's doing.
Playback == PlayChunk \/ PlayMarker \/ PlaybackEnds

Next ==
  \/ \E n \in Lengths : OnAudio(n)
  \/ OnEndOfSegment \/ OnDisconnected
  \/ Playback
  \/ ReceiveIdle \/ StopListening
  \/ PressIgnored \/ StopAtOnce \/ ReleaseUnheard
  \/ \E i \in Calls :
       \/ PressToTalk(i)
       \/ PermissionDenied(i) \/ AlreadyRecording(i) \/ PermissionGranted(i)
       \/ RecorderStarted(i) \/ RecorderFailed(i)
       \/ StopRecording(i) \/ RecorderStopped(i)
  \/ Dispose

Spec == Init /\ [][Next]_vars

\* The timers fire; of the idle timer this is assumed once the queue has stopped
\* playing, for every chunk played sets it back.
FairSpec == Spec /\ WF_vars(Playback) /\ WF_vars(~playing /\ ReceiveIdle)

-----------------------------------------------------------------------------
FlagsTypeOK ==
  /\ mounted \in BOOLEAN /\ busy \in BOOLEAN
  /\ receiving \in BOOLEAN /\ inSegment \in BOOLEAN /\ idleTimer \in BOOLEAN
  /\ transmitting \in BOOLEAN /\ recording \in BOOLEAN /\ capturing \in BOOLEAN

(***************************************************************************)
(* RF03, "Indicacao de canal ocupado": the button is blocked exactly while *)
(* the screen receives or transmits, although a dozen handlers set and     *)
(* clear three flags around their awaits; and whenever it receives, the    *)
(* idle timer runs, so that a speaker who is lost cannot block the screen. *)
(***************************************************************************)
BusyIffActive ==
  mounted =>
    /\ busy <=> receiving \/ transmitting
    /\ receiving <=> idleTimer
    /\ receiving <=> inSegment

\* No call is waiting for the recorder.
Settled == stops = {} /\ \A i \in Calls : starts[i] = "none"

(***************************************************************************)
(* The screen never hides an open microphone: once every pending call has  *)
(* come to its end, a user who is being recorded is shown as transmitting, *)
(* and the next release ends it.                                           *)
(***************************************************************************)
OpenMicShown == mounted /\ Settled /\ capturing => transmitting /\ recording

(***************************************************************************)
(* docs/requisitos.md:52, "Pressionar para falar / Soltar para ouvir": the *)
(* microphone is open only while the button is held down, calls that are   *)
(* still pending aside.                                                    *)
(***************************************************************************)
MicOnlyWhilePressed == mounted /\ Settled /\ capturing => touch # "none"

(***************************************************************************)
(* Reception ends, with or without an end-of-segment packet: of a speaker  *)
(* who is lost, or of one whose packet the queue dropped or holds back     *)
(* after it stopped playing.                                               *)
(***************************************************************************)
ReceptionEnds == receiving ~> (~receiving \/ ~mounted)
=============================================================================
