---------------------------- MODULE VoiceService ----------------------------
(***************************************************************************)
(* The push-to-talk lock of the server: VoiceService and its VoiceHub      *)
(* (backend/internal/voice/service.go).  Every operation runs under        *)
(* VoiceHub.mu from its first line to its last, so each is one action.     *)
(* LastActivity is read by CleanupInactiveChannels alone and is abstracted *)
(* to the choice of the rooms that have been silent for longer than the    *)
(* timeout: any, for nothing refreshes it while a speaker merely holds the *)
(* floor.                                                                  *)
(***************************************************************************)
EXTENDS Shared

CONSTANTS
  NoUser,   \* CurrentSpeaker = ""
  Absent    \* VoiceHub.channels has no entry for the room

ChannelState == [speaker : Users \cup {NoUser}, transmitting : BOOLEAN]

ASSUME VoiceAssumption == NoUser \notin Users /\ Absent \notin ChannelState

VARIABLE channels   \* VoiceHub.channels, with Absent for the missing entries

\* The state GetChannelStatus and the other readers report for a missing entry.
Silent == [speaker |-> NoUser, transmitting |-> FALSE]

VoiceTypeOK == channels \in [Rooms -> ChannelState \cup {Absent}]

VoiceInit == channels = [r \in Rooms |-> Absent]

Status(r) == IF channels[r] = Absent THEN Silent ELSE channels[r]

IsChannelBusy(r) == Status(r).transmitting

GetCurrentSpeaker(r) == Status(r).speaker

CanTransmit(u, r) == IsChannelBusy(r) => GetCurrentSpeaker(r) = u

ActiveChannels == {r \in Rooms : IsChannelBusy(r)}

-----------------------------------------------------------------------------
\* Mutant: a start that does not test whether somebody else is speaking.
MayStartOverSpeaker(u, r) == TRUE

\* The guard of StartTransmission; its negation is the ErrChannelBusy return.
MayStart(u, r) == CanTransmit(u, r)

StartTransmission(u, r) ==
  /\ MayStart(u, r)
  /\ channels' = [channels EXCEPT ![r] = [speaker |-> u, transmitting |-> TRUE]]

StartRejected(u, r) ==
  /\ ~MayStart(u, r)
  /\ UNCHANGED channels

Holds(u, r) == channels[r] # Absent /\ channels[r].speaker = u

Released(s) == Silent

\* ErrChannelNotFound and ErrNotSpeaker leave everything as it is.
StopTransmission(u, r) ==
  IF Holds(u, r)
  THEN channels' = [channels EXCEPT ![r] = Released(@)]
  ELSE UNCHANGED channels

CleanupInactiveChannels(idle) ==
  channels' = [r \in Rooms |-> IF r \in idle THEN Absent ELSE channels[r]]

VoiceNext ==
  \/ \E u \in Users, r \in Rooms :
       \/ StartTransmission(u, r)
       \/ StartRejected(u, r)
       \/ StopTransmission(u, r)
  \/ \E idle \in SUBSET Rooms : CleanupInactiveChannels(idle)

VoiceSpec == VoiceInit /\ [][VoiceNext]_channels

-----------------------------------------------------------------------------
(***************************************************************************)
(* A room has a recorded speaker exactly while it is transmitting.         *)
(* StartTransmission tests the flag and StopTransmission the speaker: if   *)
(* the two ever disagreed, a user who stopped could not start again, or    *)
(* the floor would be taken with nobody able to free it.                   *)
(***************************************************************************)
SpeakerIffTransmitting ==
  \A r \in Rooms : GetCurrentSpeaker(r) # NoUser <=> IsChannelBusy(r)

\* The floors of the rooms, as the readers of the service see them.
FloorOf == [r \in Rooms |-> IF IsChannelBusy(r) THEN GetCurrentSpeaker(r) ELSE NoUser]

F == INSTANCE Floor WITH holder <- FloorOf

(***************************************************************************)
(* The service implements the abstract floor: only a free floor is taken,  *)
(* and no call passes it from one user straight to another.                *)
(***************************************************************************)
ImplementsFloor == F!Spec
=============================================================================
