-------------------------- MODULE VoiceRelayProofs --------------------------
(***************************************************************************)
(* Theorems of the audio server.  The server is shown to use the lock, the *)
(* buffer and the hub only by their operations, which gives it their       *)
(* theorems; then what it promises across them is proved from an inductive *)
(* invariant of its own.                                                   *)
(***************************************************************************)
EXTENDS VoiceRelay, AudioBufferProofs

-----------------------------------------------------------------------------
(* The push-to-talk lock by itself, for any users and any rooms.           *)

(* What every operation relies on and keeps.                               *)
VoiceInv == VoiceTypeOK /\ SpeakerIffTransmitting

LEMMA VoiceInitInv == VoiceInit => VoiceInv
  BY DEF VoiceInit, VoiceInv, VoiceTypeOK, SpeakerIffTransmitting,
         GetCurrentSpeaker, IsChannelBusy, Status, Silent

(* Each operation of the service preserves the invariant, stated so that   *)
(* a system that uses the service can cite it.                             *)
LEMMA StartKeepsInv ==
  ASSUME NEW u \in Users, NEW r \in Rooms, VoiceInv, StartTransmission(u, r)
  PROVE  VoiceInv'
<1>1. [speaker |-> u, transmitting |-> TRUE] \in ChannelState
  BY DEF ChannelState
<1>2. VoiceTypeOK'
  BY <1>1 DEF VoiceInv, VoiceTypeOK, StartTransmission
<1>3. SpeakerIffTransmitting'
  BY VoiceAssumption DEF VoiceInv, VoiceTypeOK, SpeakerIffTransmitting,
     StartTransmission, GetCurrentSpeaker, IsChannelBusy, Status, Silent
<1> QED
  BY <1>2, <1>3 DEF VoiceInv

LEMMA StopKeepsInv ==
  ASSUME NEW u \in Users, NEW r \in Rooms, VoiceInv, StopTransmission(u, r)
  PROVE  VoiceInv'
<1>1. Silent \in ChannelState
  BY DEF ChannelState, Silent
<1>2. CASE Holds(u, r)
  <2>1. VoiceTypeOK'
    BY <1>1, <1>2 DEF VoiceInv, VoiceTypeOK, StopTransmission, Released
  <2>2. SpeakerIffTransmitting'
    BY <1>2 DEF VoiceInv, VoiceTypeOK, SpeakerIffTransmitting, StopTransmission,
       Released, GetCurrentSpeaker, IsChannelBusy, Status, Silent
  <2> QED
    BY <2>1, <2>2 DEF VoiceInv
<1>3. CASE ~Holds(u, r)
  BY <1>3 DEF VoiceInv, VoiceTypeOK, SpeakerIffTransmitting, StopTransmission,
     GetCurrentSpeaker, IsChannelBusy, Status
<1> QED
  BY <1>2, <1>3

LEMMA CleanupKeepsInv ==
  ASSUME NEW idle \in SUBSET Rooms, VoiceInv, CleanupInactiveChannels(idle)
  PROVE  VoiceInv'
<1>1. VoiceTypeOK'
  BY DEF VoiceInv, VoiceTypeOK, CleanupInactiveChannels
<1>2. SpeakerIffTransmitting'
  BY DEF VoiceInv, VoiceTypeOK, SpeakerIffTransmitting, CleanupInactiveChannels,
     GetCurrentSpeaker, IsChannelBusy, Status, Silent
<1> QED
  BY <1>1, <1>2 DEF VoiceInv

LEMMA VoiceStepInv == VoiceInv /\ [VoiceNext]_channels => VoiceInv'
<1> SUFFICES ASSUME VoiceInv, [VoiceNext]_channels
             PROVE  VoiceInv'
  OBVIOUS
<1>1. CASE UNCHANGED channels
  BY <1>1 DEF VoiceInv, VoiceTypeOK, SpeakerIffTransmitting, GetCurrentSpeaker,
     IsChannelBusy, Status
<1>2. ASSUME NEW u \in Users, NEW r \in Rooms,
             \/ StartTransmission(u, r)
             \/ StartRejected(u, r)
             \/ StopTransmission(u, r)
      PROVE  VoiceInv'
  <2>1. CASE StartTransmission(u, r)
    BY <2>1, StartKeepsInv
  <2>2. CASE StartRejected(u, r)
    BY <2>2, <1>1 DEF StartRejected
  <2>3. CASE StopTransmission(u, r)
    BY <2>3, StopKeepsInv
  <2> QED
    BY <1>2, <2>1, <2>2, <2>3
<1>3. ASSUME NEW idle \in SUBSET Rooms, CleanupInactiveChannels(idle)
      PROVE  VoiceInv'
  BY <1>3, CleanupKeepsInv
<1> QED
  BY <1>1, <1>2, <1>3 DEF VoiceNext

LEMMA VoiceInvariant == VoiceSpec => []VoiceInv
<1> QED
  BY VoiceInitInv, VoiceStepInv, PTL DEF VoiceSpec

(***************************************************************************)
(* The speaker field and the transmitting flag of every channel agree at   *)
(* all times (service.go sets them in two assignments and tests only one   *)
(* of them in each operation).                                             *)
(***************************************************************************)
THEOREM SpeakerTheorem == VoiceSpec => []SpeakerIffTransmitting
<1>1. VoiceInv => SpeakerIffTransmitting
  BY DEF VoiceInv
<1> QED
  BY <1>1, VoiceInvariant, PTL

-----------------------------------------------------------------------------
(***************************************************************************)
(* The service refines the abstract floor.                                 *)
(***************************************************************************)
LEMMA InitRefines == VoiceInit => F!Init
  BY DEF VoiceInit, F!Init, FloorOf, IsChannelBusy, GetCurrentSpeaker, Status, Silent

(* A start takes a floor nobody holds, or is a repeat by its holder.       *)
LEMMA StartRefines ==
  ASSUME NEW u \in Users, NEW r \in Rooms, VoiceInv, StartTransmission(u, r)
  PROVE  [F!Next]_FloorOf
<1>1. channels \in [Rooms -> ChannelState \cup {Absent}]
  BY DEF VoiceInv, VoiceTypeOK
<1>2. FloorOf' = [FloorOf EXCEPT ![r] = u]
  <2>1. [speaker |-> u, transmitting |-> TRUE] \in ChannelState
    BY DEF ChannelState
  <2>2. [speaker |-> u, transmitting |-> TRUE] # Absent
    BY <2>1, VoiceAssumption, Zenon
  <2> QED
    BY <1>1, <2>2 DEF StartTransmission, FloorOf, IsChannelBusy, GetCurrentSpeaker, Status
<1>3. FloorOf[r] = NoUser \/ FloorOf[r] = u
  BY DEF StartTransmission, MayStart, CanTransmit, FloorOf
<1>4. CASE FloorOf[r] = NoUser
  BY <1>2, <1>4 DEF F!Next, F!Take
<1>5. CASE FloorOf[r] = u
  <2>1. FloorOf' = FloorOf
    BY <1>2, <1>5 DEF FloorOf
  <2> QED
    BY <2>1
<1> QED
  BY <1>3, <1>4, <1>5

LEMMA StopRefines ==
  ASSUME NEW u \in Users, NEW r \in Rooms, VoiceInv, StopTransmission(u, r)
  PROVE  [F!Next]_FloorOf
<1>1. channels \in [Rooms -> ChannelState \cup {Absent}]
  BY DEF VoiceInv, VoiceTypeOK
<1>2. CASE Holds(u, r)
  <2>1. F!Free({r})
    BY <1>1, <1>2 DEF F!Free, StopTransmission, Released, FloorOf, IsChannelBusy,
       GetCurrentSpeaker, Status, Silent
  <2> QED
    BY <2>1 DEF F!Next
<1>3. CASE ~Holds(u, r)
  BY <1>3 DEF StopTransmission, FloorOf, IsChannelBusy, GetCurrentSpeaker, Status
<1> QED
  BY <1>2, <1>3

LEMMA CleanupRefines ==
  ASSUME NEW idle \in SUBSET Rooms, VoiceInv, CleanupInactiveChannels(idle)
  PROVE  F!Next
<1>1. F!Free(idle)
  BY DEF F!Free, CleanupInactiveChannels, FloorOf, IsChannelBusy, GetCurrentSpeaker,
     Status, Silent
<1> QED
  BY <1>1 DEF F!Next

LEMMA StepRefines == VoiceInv /\ [VoiceNext]_channels => [F!Next]_FloorOf
<1> SUFFICES ASSUME VoiceInv, [VoiceNext]_channels
             PROVE  [F!Next]_FloorOf
  OBVIOUS
<1>1. CASE UNCHANGED channels
  BY <1>1 DEF FloorOf, IsChannelBusy, GetCurrentSpeaker, Status
<1>2. ASSUME NEW u \in Users, NEW r \in Rooms,
             \/ StartTransmission(u, r)
             \/ StartRejected(u, r)
             \/ StopTransmission(u, r)
      PROVE  [F!Next]_FloorOf
  <2>1. CASE StartTransmission(u, r)
    BY <2>1, StartRefines
  <2>2. CASE StartRejected(u, r)
    BY <2>2, <1>1 DEF StartRejected
  <2>3. CASE StopTransmission(u, r)
    BY <2>3, StopRefines
  <2> QED
    BY <1>2, <2>1, <2>2, <2>3
<1>3. ASSUME NEW idle \in SUBSET Rooms, CleanupInactiveChannels(idle)
      PROVE  F!Next
  BY <1>3, CleanupRefines
<1> QED
  BY <1>1, <1>2, <1>3 DEF VoiceNext

(***************************************************************************)
(* The lock of VoiceService is an exclusive floor in every room: it is     *)
(* taken only when free and changes hands only by way of being free.       *)
(***************************************************************************)
THEOREM FloorRefinement == VoiceSpec => ImplementsFloor
<1> QED
  BY VoiceInvariant, InitRefines, StepRefines, PTL DEF VoiceSpec, ImplementsFloor, F!Spec

-----------------------------------------------------------------------------
(* The operations of the hub keep the types of its state, whoever calls    *)
(* them, and with them the capacities of its Go channels.                  *)
LEMMA HubInitTypes == HubInit => HubTypeOK
<1> SUFFICES ASSUME HubInit PROVE HubTypeOK
  OBVIOUS
<1>1. << >> \in Seq(Message) /\ Len(<< >>) <= BroadcastCap /\ Len(<< >>) <= SendCap
  BY HubAssumption DEF HubAssumption
<1>2. broadcast = << >> /\ send = [c \in Conns |-> << >>]
  BY DEF HubInit
<1>3. send \in [Conns -> Seq(Message)] /\ \A c \in Conns : Len(send[c]) <= SendCap
  BY <1>1, <1>2
<1>4. hubTask \in HubTask
  BY DEF HubInit, HubTask, Idle
<1> QED
  BY <1>1, <1>2, <1>3, <1>4 DEF HubInit, HubTypeOK

(* Appending to a queue, and taking its first message.                     *)
LEMMA QueueTypes ==
  ASSUME NEW q \in Seq(Message), NEW m \in Message
  PROVE  Append(q, m) \in Seq(Message) /\ Len(Append(q, m)) = Len(q) + 1
  OBVIOUS

LEMMA HeadTail ==
  ASSUME NEW q \in Seq(Message), q # << >>
  PROVE  /\ Head(q) \in Message
         /\ Tail(q) \in Seq(Message) /\ Len(Tail(q)) <= Len(q)
  OBVIOUS

LEMMA TasksStepTypes ==
  ASSUME HubTypeOK, NEW c \in Conns,
         \/ AcceptRegister(c) \/ Register(c)
         \/ AcceptUnregister(c) \/ Unregister(c) \/ UnregisterPanics(c)
  PROVE  HubTypeOK'
<1>1. CASE AcceptRegister(c)
  BY <1>1 DEF AcceptRegister, HubTypeOK, HubTask, Registering
<1>2. CASE Register(c)
  BY <1>2 DEF Register, HubTypeOK, HubTask, Idle
<1>3. CASE AcceptUnregister(c)
  BY <1>3 DEF AcceptUnregister, HubTypeOK, HubTask, Unregistering
<1>4. CASE Unregister(c)
  <2>1. CASE c \in clients
    <3>1. members' \in [Rooms -> SUBSET Conns]
      BY <1>4, <2>1 DEF Unregister, Forget, HubTypeOK
    <3> QED
      BY <1>4, <2>1, <3>1 DEF Unregister, Forget, HubTypeOK, HubTask, Idle
  <2>2. CASE c \notin clients
    BY <1>4, <2>2 DEF Unregister, HubTypeOK, HubTask, Idle
  <2> QED
    BY <2>1, <2>2
<1>5. CASE UnregisterPanics(c)
  BY <1>5 DEF UnregisterPanics, Panic, HubTypeOK
<1> QED
  BY <1>1, <1>2, <1>3, <1>4, <1>5

LEMMA PanicTypes ==
  ASSUME HubTypeOK, RelayPanics
  PROVE  HubTypeOK'
  BY DEF RelayPanics, Panic, HubTypeOK

LEMMA RoomsStepTypes ==
  ASSUME HubTypeOK, NEW c \in Conns, NEW r \in Rooms, JoinRoom(c, r) \/ LeaveRoom(c, r)
  PROVE  HubTypeOK'
<1>1. CASE JoinRoom(c, r)
  BY <1>1 DEF JoinRoom, HubTypeOK
<1>2. CASE LeaveRoom(c, r)
  BY <1>2 DEF LeaveRoom, Emptied, HubTypeOK
<1> QED
  BY <1>1, <1>2

LEMMA BroadcastTypes ==
  ASSUME HubTypeOK, NEW m \in Message, BroadcastToRoom(m)
  PROVE  HubTypeOK'
<1>1. /\ broadcast' \in Seq(Message)
      /\ Len(broadcast') <= BroadcastCap
  BY QueueTypes, HubAssumption DEF BroadcastToRoom, HubTypeOK, HubAssumption
<1> QED
  BY <1>1 DEF BroadcastToRoom, HubTypeOK

LEMMA TakeTypes ==
  ASSUME HubTypeOK, TakeBroadcast
  PROVE  HubTypeOK'
<1>1. /\ Head(broadcast) \in Message
      /\ broadcast' \in Seq(Message) /\ Len(broadcast') <= BroadcastCap
  BY HeadTail, HubAssumption DEF TakeBroadcast, HubTypeOK, HubAssumption
<1>2. hubTask' \in HubTask
  BY <1>1 DEF TakeBroadcast, HubTask, Relaying
<1> QED
  BY <1>1, <1>2 DEF TakeBroadcast, HubTypeOK

(* The queue of a client grows by one message when it is not full.         *)
LEMMA SendTypes ==
  ASSUME HubTypeOK, NEW c \in Conns, NEW m \in Message, ~Full(c)
  PROVE  Append(send[c], m) \in Seq(Message) /\ Len(Append(send[c], m)) <= SendCap
<1>1. send[c] \in Seq(Message) /\ Len(send[c]) < SendCap
  BY HubAssumption DEF Full, HubTypeOK, HubAssumption
<1> QED
  BY <1>1, QueueTypes, HubAssumption DEF HubAssumption

LEMMA SafeSendTypes ==
  ASSUME HubTypeOK, NEW c \in Conns, NEW m \in Message, SafeSend(c, m)
  PROVE  HubTypeOK'
<1>1. Append(send[c], m) \in Seq(Message) /\ Len(Append(send[c], m)) <= SendCap
  BY SendTypes DEF SafeSend, CanSend
<1>2. send' \in [Conns -> Seq(Message)] /\ \A d \in Conns : Len(send'[d]) <= SendCap
  BY <1>1 DEF SafeSend, HubTypeOK
<1> QED
  BY <1>2 DEF SafeSend, HubTypeOK

LEMMA ReceiveTypes ==
  ASSUME HubTypeOK, NEW c \in Conns, Receive(c)
  PROVE  HubTypeOK'
<1>1. send[c] \in Seq(Message) /\ Len(send[c]) <= SendCap /\ send[c] # << >>
  BY DEF HubTypeOK, Receive
<1>2. Tail(send[c]) \in Seq(Message) /\ Len(Tail(send[c])) <= SendCap
  BY <1>1, HeadTail, HubAssumption DEF HubAssumption
<1>3. send' \in [Conns -> Seq(Message)] /\ \A d \in Conns : Len(send'[d]) <= SendCap
  BY <1>2 DEF Receive, HubTypeOK
<1> QED
  BY <1>3 DEF Receive, HubTypeOK

LEMMA RelayTypes ==
  ASSUME HubTypeOK, Relay
  PROVE  HubTypeOK'
<1> DEFINE m == hubTask.message
           slow == {c \in Recipients(m) : Full(c)}
<1>1. m \in Message
  BY DEF Relay, HubTypeOK, HubTask
<1>2. Recipients(m) \subseteq Conns /\ slow \subseteq Recipients(m) /\ m.room \in Rooms
  BY <1>1 DEF Recipients, HubTypeOK, Message
<1>3. \A c \in Conns : send'[c] \in Seq(Message) /\ Len(send'[c]) <= SendCap
  <2> TAKE c \in Conns
  <2>1. CASE c \in Recipients(m) \ slow
    BY <2>1, <1>1, SendTypes DEF Relay
  <2>2. CASE c \notin Recipients(m) \ slow
    BY <2>2 DEF Relay, HubTypeOK
  <2> QED
    BY <2>1, <2>2
<1>4. send' \in [Conns -> Seq(Message)]
  <2>1. send' = [c \in Conns |->
                   IF c \in Recipients(m) \ slow THEN Append(send[c], m) ELSE send[c]]
    BY DEF Relay
  <2> QED
    BY <2>1, <1>3
<1>5. closed' \subseteq Conns /\ members' \in [Rooms -> SUBSET Conns] /\ hubTask' \in HubTask
  BY <1>2 DEF Relay, HubTypeOK, HubTask, Idle
<1> QED
  BY <1>3, <1>4, <1>5 DEF Relay, HubTypeOK

(***************************************************************************)
(* No operation of the hub leaves its types: in particular no Go channel   *)
(* ever holds more than its capacity.                                      *)
(***************************************************************************)
LEMMA HubStepTypes == HubTypeOK /\ (HubNext \/ UNCHANGED hubVars) => HubTypeOK'
<1> SUFFICES ASSUME HubTypeOK, HubNext \/ UNCHANGED hubVars
             PROVE  HubTypeOK'
  OBVIOUS
<1>1. CASE UNCHANGED hubVars
  BY <1>1 DEF hubVars, HubTypeOK
<1>2. CASE HubNext
  <2>1. ASSUME NEW c \in Conns, NEW r \in Rooms, JoinRoom(c, r) \/ LeaveRoom(c, r)
        PROVE  HubTypeOK'
    BY <2>1, RoomsStepTypes
  <2>2. ASSUME NEW c \in Conns,
               \/ AcceptRegister(c) \/ Register(c)
               \/ AcceptUnregister(c) \/ Unregister(c) \/ UnregisterPanics(c)
        PROVE  HubTypeOK'
    BY <2>2, TasksStepTypes
  <2> QED
    BY <1>2, <2>1, <2>2, PanicTypes, BroadcastTypes, TakeTypes, SafeSendTypes, ReceiveTypes,
       RelayTypes DEF HubNext
<1> QED
  BY <1>1, <1>2

-----------------------------------------------------------------------------

TypeInv == VoiceInv /\ BufferInv /\ HubTypeOK /\ PumpTypeOK

(* What the users of the types need of them.                               *)
LEMMA PumpFacts ==
  ASSUME TypeInv, NEW c \in Conns
  PROVE  /\ UserOf[c] \in Users /\ Channel[c] \in Rooms /\ Named(c) \subseteq Rooms
         /\ packet[c] \in Message /\ packet[c].room \in Rooms
         /\ joined[c] \subseteq Rooms /\ toRelease[c] \subseteq Rooms
  BY RelayAssumption DEF RelayAssumption, TypeInv, PumpTypeOK, HubTypeOK, Named, Message

LEMMA InitTypes == Init => TypeInv
<1> SUFFICES ASSUME Init PROVE TypeInv
  OBVIOUS
<1>1. VoiceInv /\ BufferInv /\ HubTypeOK
  BY VoiceInitInv, BufferInitInv, HubInitTypes DEF Init
<1>2. \A c \in Conns : Blank(c) \in Message
  BY RelayAssumption, HubAssumption DEF RelayAssumption, HubAssumption, Blank, Packet, Message
<1>3. PumpTypeOK
  BY <1>2, RelayAssumption DEF RelayAssumption, Init, PumpTypeOK, ReaderStates
<1> QED
  BY <1>1, <1>3 DEF TypeInv

-----------------------------------------------------------------------------
(***************************************************************************)
(* The server is a client of the lock.                                     *)
(***************************************************************************)
LEMMA VoiceSteps ==
  ASSUME TypeInv, Next
  PROVE  VoiceNext \/ UNCHANGED channels
<1>1. ASSUME NEW c \in Conns, HandleMessage(c)
      PROVE  VoiceNext \/ UNCHANGED channels
  <2>1. UserOf[c] \in Users /\ Named(c) \subseteq Rooms
    BY PumpFacts
  <2> QED
    BY <1>1, <2>1 DEF HandleMessage, StartTalking, TalkRejected, StopTalking, HandleJoinRoom,
       HandleLeaveRoom, ReplayRefused, RequestReplay, NothingToReplay, VoiceNext
<1>2. ASSUME NEW c \in Conns, ReaderStep(c)
      PROVE  VoiceNext \/ UNCHANGED channels
  <2>1. UserOf[c] \in Users /\ toRelease[c] \subseteq Rooms
    BY PumpFacts
  <2> QED
    BY <1>2, <2>1 DEF ReaderStep, RegisterClient, StartPumps, BufferAudio, RelayPacket, ReplayNext,
       ReplayTruncated, ReplayDone, ReleaseVoice, VoiceReleased, UnregisterClient, VoiceNext
<1>3. ASSUME NEW c \in Conns,
             Connect(c) \/ Disconnect(c) \/ WriteFails(c) \/ ReadFails(c) \/ WriterStep(c)
      PROVE  UNCHANGED channels
  BY <1>3 DEF Connect, Disconnect, WriteFails, EndWritePump, ReadFails, WriterStep, WriteMessage,
     QueueClosed
<1>4. ASSUME HubStep \/ CleanupBuffer \/ ClockTick
      PROVE  UNCHANGED channels
  BY <1>4 DEF HubStep, CleanupBuffer, ClockTick
<1> QED
  BY <1>1, <1>2, <1>3, <1>4 DEF Next

(***************************************************************************)
(* And of the buffer.                                                      *)
(***************************************************************************)
LEMMA BufferSteps ==
  ASSUME TypeInv, Next
  PROVE  BufferNext \/ UNCHANGED bufferVars
<1>1. ASSUME NEW c \in Conns, HandleMessage(c)
      PROVE  UNCHANGED bufferVars
  BY <1>1 DEF HandleMessage, StartTalking, TalkRejected, StopTalking, HandleJoinRoom,
     HandleLeaveRoom, ReplayRefused, RequestReplay, NothingToReplay
<1>2. ASSUME NEW c \in Conns, ReaderStep(c)
      PROVE  BufferNext \/ UNCHANGED bufferVars
  <2>1. UserOf[c] \in Users /\ packet[c].room \in Rooms
    BY PumpFacts
  <2> QED
    BY <1>2, <2>1 DEF ReaderStep, RegisterClient, StartPumps, BufferAudio, RelayPacket, ReplayNext,
       ReplayTruncated, ReplayDone, ReleaseVoice, VoiceReleased, UnregisterClient, BufferNext
<1>3. ASSUME NEW c \in Conns,
             Connect(c) \/ Disconnect(c) \/ WriteFails(c) \/ ReadFails(c) \/ WriterStep(c)
      PROVE  UNCHANGED bufferVars
  BY <1>3 DEF Connect, Disconnect, WriteFails, EndWritePump, ReadFails, WriterStep, WriteMessage,
     QueueClosed
<1>4. ASSUME HubStep \/ CleanupBuffer \/ ClockTick
      PROVE  BufferNext \/ UNCHANGED bufferVars
  BY <1>4 DEF HubStep, CleanupBuffer, ClockTick, BufferNext
<1> QED
  BY <1>1, <1>2, <1>3, <1>4 DEF Next

(***************************************************************************)
(* And of the hub.                                                         *)
(***************************************************************************)
LEMMA HubSteps ==
  ASSUME TypeInv, Next
  PROVE  HubNext \/ UNCHANGED hubVars
<1>1. ASSUME NEW c \in Conns, HandleMessage(c)
      PROVE  HubNext \/ UNCHANGED hubVars
  <2>1. Named(c) \subseteq Rooms
    BY PumpFacts
  <2> QED
    BY <1>1, <2>1 DEF HandleMessage, StartTalking, TalkRejected, StopTalking, HandleJoinRoom,
       HandleLeaveRoom, ReplayRefused, RequestReplay, NothingToReplay, HubNext
<1>2. ASSUME NEW c \in Conns, ReaderStep(c)
      PROVE  HubNext \/ UNCHANGED hubVars
  <2>1. packet[c] \in Message /\ Channel[c] \in Rooms
    BY PumpFacts
  <2>2. ASSUME NEW seq \in toReplay[c]
        PROVE  Packet(packet[c].room, "audio", seq, Replay) \in Message
    BY <2>1, <2>2, HubAssumption DEF HubAssumption, Packet, Message, TypeInv, PumpTypeOK
  <2>3. Packet(packet[c].room, "end", 0, Replay) \in Message
    BY <2>1, HubAssumption DEF HubAssumption, Packet, Message
  <2> QED
    BY <1>2, <2>1, <2>2, <2>3 DEF ReaderStep, RegisterClient, StartPumps, BufferAudio, RelayPacket,
       ReplayNext, ReplayTruncated, ReplayDone, ReleaseVoice, VoiceReleased, UnregisterClient,
       HubNext
<1>3. ASSUME NEW c \in Conns,
             Connect(c) \/ Disconnect(c) \/ WriteFails(c) \/ ReadFails(c) \/ WriterStep(c)
      PROVE  HubNext \/ UNCHANGED hubVars
  BY <1>3 DEF Connect, Disconnect, WriteFails, EndWritePump, ReadFails, WriterStep, WriteMessage,
     QueueClosed, HubNext
<1>4. ASSUME HubStep \/ CleanupBuffer \/ ClockTick
      PROVE  HubNext \/ UNCHANGED hubVars
  BY <1>4 DEF HubStep, CleanupBuffer, ClockTick, HubNext
<1> QED
  BY <1>1, <1>2, <1>3, <1>4 DEF Next

-----------------------------------------------------------------------------
(* The types of the goroutines' own state.                                 *)
LEMMA MessageTypes ==
  ASSUME TypeInv, NEW c \in Conns, NEW r \in Named(c)
  PROVE  r \in Rooms /\ Blank(c) \in Message /\ Packet(r, "audio", 0, c) \in Message
         /\ \A q \in 0 .. MaxSeq : Packet(r, "end", q, c) \in Message
<1>1. r \in Rooms /\ Channel[c] \in Rooms
  BY PumpFacts
<1> QED
  BY <1>1, HubAssumption DEF HubAssumption, Blank, Packet, Message

LEMMA MessageKeepsTypes ==
  ASSUME TypeInv, NEW c \in Conns, HandleMessage(c)
  PROVE  PumpTypeOK'
<1>1. PICK r \in Named(c) :
        \/ \E buffered \in BOOLEAN : StartTalking(c, r, buffered)
        \/ TalkRejected(c, r) \/ StopTalking(c, r)
        \/ HandleJoinRoom(c, r) \/ HandleLeaveRoom(c, r) \/ ReplayRefused(c, r)
        \/ \E since \in Since : RequestReplay(c, r, since) \/ NothingToReplay(c, r, since)
  BY DEF HandleMessage
<1>2. CASE \E buffered \in BOOLEAN : StartTalking(c, r, buffered)
  BY <1>2, MessageTypes, RelayAssumption
     DEF RelayAssumption, StartTalking, ReadCounted, Goto, ReaderStates, TypeInv, PumpTypeOK
<1>3. CASE StopTalking(c, r)
  BY <1>3, MessageTypes, RelayAssumption, HubAssumption
     DEF HubAssumption, RelayAssumption, StopTalking, ReadCounted, Goto, ReaderStates, TypeInv,
         PumpTypeOK
<1>4. CASE TalkRejected(c, r) \/ HandleJoinRoom(c, r) \/ HandleLeaveRoom(c, r)
             \/ ReplayRefused(c, r)
  BY <1>4 DEF TalkRejected, HandleJoinRoom, HandleLeaveRoom, ReplayRefused, TypeInv, PumpTypeOK
<1>5. ASSUME NEW since \in Since, RequestReplay(c, r, since)
      PROVE  PumpTypeOK'
  <2>1. since \in 0 .. MaxSeq /\ r \in Rooms /\ Packet(r, "end", since, c) \in Message
    BY MessageTypes, RelayAssumption DEF RelayAssumption
  <2>2. Snapshot(r, since) \subseteq 1 .. MaxSeq
    BY <2>1, BufferAssumption DEF BufferAssumption, Snapshot, GetMessages, TypeInv, BufferInv,
       BufferTypeOK, SequencesGivenOut
  <2> QED
    BY <1>5, <2>1, <2>2, RelayAssumption DEF RelayAssumption, RequestReplay, ReadCounted, Goto,
       ReaderStates, TypeInv, PumpTypeOK
<1>6. ASSUME NEW since \in Since, NothingToReplay(c, r, since)
      PROVE  PumpTypeOK'
  <2>1. since \in 0 .. MaxSeq
    BY RelayAssumption DEF RelayAssumption
  <2> QED
    BY <1>6, <2>1, RelayAssumption DEF RelayAssumption, NothingToReplay, CatchUp, ReadCounted,
       TypeInv, PumpTypeOK
<1> QED
  BY <1>1, <1>2, <1>3, <1>4, <1>5, <1>6

LEMMA ReaderKeepsTypes ==
  ASSUME TypeInv, NEW c \in Conns, ReaderStep(c)
  PROVE  PumpTypeOK'
<1>1. Blank(c) \in Message /\ packet[c] \in Message /\ packet[c].room \in Rooms
      /\ packet[c].seq \in 0 .. MaxSeq
  BY PumpFacts, RelayAssumption, HubAssumption
     DEF RelayAssumption, HubAssumption, Blank, Packet, Message
<1>2. CASE RegisterClient(c) \/ StartPumps(c) \/ VoiceReleased(c) \/ UnregisterClient(c)
  BY <1>2 DEF RegisterClient, StartPumps, VoiceReleased, UnregisterClient, Goto, ReaderStates,
     TypeInv, PumpTypeOK
<1>3. ASSUME NEW n \in Sizes, BufferAudio(c, n)
      PROVE  PumpTypeOK'
  <2>1. sequenceMap[packet[c].room] + 1 \in 0 .. MaxSeq
    BY <1>1, <1>3, BufferAssumption DEF BufferAssumption, BufferAudio, AddMessage, TypeInv,
       BufferInv, BufferTypeOK
  <2>2. [packet[c] EXCEPT !.seq = sequenceMap[packet[c].room] + 1] \in Message
    BY <1>1, <2>1 DEF Message
  <2> DEFINE stamped == [packet[c] EXCEPT !.seq = sequenceMap[packet[c].room] + 1]
  <2>3. packet' = [packet EXCEPT ![c] = stamped]
    BY <1>3 DEF BufferAudio
  <2>4. stamped \in Message
    BY <2>2
  <2> HIDE DEF stamped
  <2> QED
    BY <1>3, <2>3, <2>4 DEF BufferAudio, Goto, ReaderStates, TypeInv, PumpTypeOK
<1>4. CASE RelayPacket(c)
  BY <1>1, <1>4 DEF RelayPacket, Goto, ReaderStates, TypeInv, PumpTypeOK
<1>5. CASE \E seq \in toReplay[c] : ReplayNext(c, seq)
  BY <1>5 DEF ReplayNext, TypeInv, PumpTypeOK
<1>6. CASE ReplayTruncated(c)
  BY <1>1, <1>6 DEF ReplayTruncated, EndReplay, Goto, ReaderStates, TypeInv, PumpTypeOK
<1>7. CASE ReplayDone(c)
  <2>1. caughtUp' \in [Conns -> SUBSET (0 .. MaxSeq)]
    BY <1>1, <1>7 DEF ReplayDone, CatchUp, TypeInv, PumpTypeOK
  <2> QED
    BY <1>1, <1>7, <2>1 DEF ReplayDone, EndReplay, Goto, ReaderStates, TypeInv, PumpTypeOK
<1>8. CASE \E r \in toRelease[c] : ReleaseVoice(c, r)
  BY <1>8 DEF ReleaseVoice, TypeInv, PumpTypeOK
<1> QED
  BY <1>2, <1>3, <1>4, <1>5, <1>6, <1>7, <1>8 DEF ReaderStep

LEMMA PumpKeepsTypes ==
  ASSUME TypeInv, Next
  PROVE  PumpTypeOK'
<1>1. ASSUME NEW c \in Conns, Connect(c) \/ Disconnect(c) \/ WriteFails(c) \/ QueueClosed(c)
      PROVE  PumpTypeOK'
  BY <1>1 DEF Connect, Disconnect, WriteFails, QueueClosed, EndWritePump, Goto, ReaderStates,
     TypeInv, PumpTypeOK
<1>2. ASSUME NEW c \in Conns, ReadFails(c)
      PROVE  PumpTypeOK'
  <2>1. RoomsToRelease(c) \subseteq Rooms
    BY PumpFacts DEF RoomsToRelease
  <2> QED
    BY <1>2, <2>1 DEF ReadFails, Goto, ReaderStates, TypeInv, PumpTypeOK
<1>3. ASSUME NEW c \in Conns, WriteMessage(c)
      PROVE  PumpTypeOK'
  <2>1. Head(send[c]) \in Message
    BY <1>3, HeadTail DEF WriteMessage, Receive, TypeInv, HubTypeOK
  <2>2. Head(send[c]).seq \in 0 .. MaxSeq
    BY <2>1 DEF Message
  <2> QED
    BY <1>3, <2>2 DEF WriteMessage, TypeInv, PumpTypeOK
<1>4. CASE HubStep \/ CleanupBuffer \/ ClockTick
  BY <1>4 DEF HubStep, CleanupBuffer, ClockTick, pumpVars, TypeInv, PumpTypeOK
<1> QED
  BY <1>1, <1>2, <1>3, <1>4, MessageKeepsTypes, ReaderKeepsTypes DEF Next, WriterStep

LEMMA StepTypes == TypeInv /\ [Next]_vars => TypeInv'
<1> SUFFICES ASSUME TypeInv, [Next]_vars
             PROVE  TypeInv'
  OBVIOUS
<1>1. CASE Next
  <2>1. VoiceInv'
    BY <1>1, VoiceSteps, VoiceStepInv DEF TypeInv
  <2>2. BufferInv'
    BY <1>1, BufferSteps, BufferStepInv DEF TypeInv
  <2>3. HubTypeOK'
    BY <1>1, HubSteps, HubStepTypes DEF TypeInv
  <2> QED
    BY <1>1, <2>1, <2>2, <2>3, PumpKeepsTypes DEF TypeInv
<1>2. CASE UNCHANGED vars
  <2>1. UNCHANGED channels /\ UNCHANGED bufferVars /\ UNCHANGED hubVars /\ UNCHANGED pumpVars
    BY <1>2 DEF vars
  <2>2. PumpTypeOK'
    BY <2>1 DEF pumpVars, TypeInv, PumpTypeOK
  <2> QED
    BY <2>1, <2>2, VoiceStepInv, BufferStepInv, HubStepTypes DEF TypeInv
<1> QED
  BY <1>1, <1>2

LEMMA TypeInvariant == Spec => []TypeInv
<1> QED
  BY InitTypes, StepTypes, PTL DEF Spec

(***************************************************************************)
(* Type correctness: in particular no queue of the hub ever holds more     *)
(* than its capacity, whatever the number of connections and rooms.        *)
(***************************************************************************)
THEOREM TypeCorrect == Spec => []TypeOK
<1>1. TypeInv => TypeOK
  BY DEF TypeInv, TypeOK, VoiceInv, BufferInv
<1> QED
  BY <1>1, TypeInvariant, PTL

(***************************************************************************)
(* The server implements the floor: no interleaving of its goroutines      *)
(* passes the floor of a room from one user straight to another.           *)
(***************************************************************************)
THEOREM RelayImplementsFloor == Spec => ImplementsFloor
<1>1. Init => VoiceInit
  BY DEF Init
<1>2. TypeInv /\ [Next]_vars => [VoiceNext]_channels
  BY VoiceSteps DEF vars
<1>3. Spec => VoiceSpec
  BY <1>1, <1>2, TypeInvariant, PTL DEF Spec, VoiceSpec
<1> QED
  BY <1>3, FloorRefinement

(***************************************************************************)
(* The server changes the replay buffer by its operations only: seen from  *)
(* the buffer, whatever the goroutines do is a sequence of its operations. *)
(***************************************************************************)
THEOREM RelayImplementsBuffer == Spec => BufferSpec
<1>1. Init => BufferInit
  BY DEF Init
<1>2. TypeInv /\ [Next]_vars => [BufferNext]_bufferVars
  BY BufferSteps DEF vars
<1> QED
  BY <1>1, <1>2, TypeInvariant, PTL DEF Spec, BufferSpec

(***************************************************************************)
(* So the buffer keeps its promises in the server: a replay has no hole in *)
(* its middle, the memory of a room is bounded in bytes and in time, and   *)
(* the chunk a client relays is replayable, whichever clients are talking, *)
(* asking for replays or being lost meanwhile.                             *)
(***************************************************************************)
THEOREM RelayKeepsBuffer ==
  Spec => []NoHoles /\ []SizeBounded /\ []RetentionBounded /\ LatestKept
<1> QED
  BY RelayImplementsBuffer, NoHolesTheorem, SizeTheorem, RetentionTheorem,
     LatestKeptTheorem

-----------------------------------------------------------------------------
(***************************************************************************)
(* Membership.  Why the hub closes no queue twice and sends to no closed   *)
(* one, but for the clients it dropped: whoever is in a room has recorded  *)
(* it, so that Unregister takes it out, and is registered, or is just      *)
(* being; and nobody joins a room any more once it unregisters.            *)
(***************************************************************************)
InHub(c) == c \in clients \/ hubTask = Registering(c)

MembershipInv ==
  /\ \A r \in Rooms : \A c \in members[r] : r \in joined[c] /\ InHub(c)
  /\ \A c \in Conns :
       /\ reader[c] \notin {"none", "register", "done"} => InHub(c)
       /\ hubTask = Unregistering(c) => reader[c] = "done"
  /\ PanicOnlyAfterDrop

LEMMA MembershipInit == Init => MembershipInv
  BY DEF Init, HubInit, MembershipInv, PanicOnlyAfterDrop, Idle, Unregistering

(* Nothing changes but where a goroutine is, and it stays in the hub.      *)
LEMMA MembershipUnchanged ==
  ASSUME TypeInv, MembershipInv, UNCHANGED hubVars,
         NEW c \in Conns,
         \/ reader[c] \notin {"none", "register", "done"}
         \/ reader[c] = "none" /\ reader'[c] = "register",
         \A d \in Conns \ {c} : reader'[d] = reader[d]
  PROVE  MembershipInv'
  BY DEF hubVars, MembershipInv, InHub, PanicOnlyAfterDrop

LEMMA MembershipMessage ==
  ASSUME TypeInv, MembershipInv, NEW c \in Conns, HandleMessage(c)
  PROVE  MembershipInv'
<1>1. PICK r \in Named(c) :
        \/ \E buffered \in BOOLEAN : StartTalking(c, r, buffered)
        \/ TalkRejected(c, r) \/ StopTalking(c, r)
        \/ HandleJoinRoom(c, r) \/ HandleLeaveRoom(c, r) \/ ReplayRefused(c, r)
        \/ \E since \in Since : RequestReplay(c, r, since) \/ NothingToReplay(c, r, since)
  BY DEF HandleMessage
<1>2. reader[c] = "read" /\ r \in Rooms
  BY <1>1, MessageTypes DEF StartTalking, StopTalking, TalkRejected, HandleJoinRoom, HandleLeaveRoom,
     ReplayRefused, RequestReplay, NothingToReplay, ReadCounted, ReadMessage
<1>3. CASE HandleJoinRoom(c, r)
  BY <1>2, <1>3 DEF HandleJoinRoom, JoinRoom, TypeInv, HubTypeOK, PumpTypeOK, MembershipInv, InHub,
     PanicOnlyAfterDrop
<1>4. CASE HandleLeaveRoom(c, r)
  BY <1>2, <1>4 DEF HandleLeaveRoom, LeaveRoom, TypeInv, HubTypeOK, PumpTypeOK, MembershipInv, InHub,
     PanicOnlyAfterDrop
<1>5. CASE UNCHANGED hubVars /\ \A d \in Conns \ {c} : reader'[d] = reader[d]
  BY <1>2, <1>5, MembershipUnchanged
<1>6. PumpTypeOK
  BY DEF TypeInv
<1>7. ASSUME NEW buffered \in BOOLEAN, StartTalking(c, r, buffered)
      PROVE  UNCHANGED hubVars /\ \A d \in Conns \ {c} : reader'[d] = reader[d]
  BY <1>6, <1>7 DEF StartTalking, Goto, PumpTypeOK
<1>8. ASSUME NEW since \in Since, RequestReplay(c, r, since) \/ NothingToReplay(c, r, since)
      PROVE  UNCHANGED hubVars /\ \A d \in Conns \ {c} : reader'[d] = reader[d]
  BY <1>6, <1>8 DEF RequestReplay, NothingToReplay, Goto, PumpTypeOK
<1>9. ASSUME TalkRejected(c, r) \/ StopTalking(c, r) \/ ReplayRefused(c, r)
      PROVE  UNCHANGED hubVars /\ \A d \in Conns \ {c} : reader'[d] = reader[d]
  BY <1>6, <1>9 DEF TalkRejected, StopTalking, ReplayRefused, Goto, PumpTypeOK
<1> QED
  BY <1>1, <1>3, <1>4, <1>5, <1>7, <1>8, <1>9

LEMMA MembershipReader ==
  ASSUME TypeInv, MembershipInv, NEW c \in Conns, ReaderStep(c)
  PROVE  MembershipInv'
<1>1. PumpTypeOK /\ HubTypeOK /\ Channel[c] \in Rooms
  BY PumpFacts DEF TypeInv
<1>2. CASE RegisterClient(c)
  BY <1>1, <1>2 DEF RegisterClient, AcceptRegister, Goto, PumpTypeOK, HubTypeOK, MembershipInv, InHub,
     PanicOnlyAfterDrop, Idle, Registering, Unregistering
<1>3. CASE StartPumps(c)
  BY <1>1, <1>3 DEF StartPumps, JoinRoom, Goto, PumpTypeOK, HubTypeOK, MembershipInv, InHub,
     PanicOnlyAfterDrop
<1>4. CASE UnregisterClient(c)
  BY <1>1, <1>4 DEF UnregisterClient, AcceptUnregister, Goto, PumpTypeOK, HubTypeOK, MembershipInv,
     InHub, PanicOnlyAfterDrop, Idle, Registering, Unregistering
<1>5. CASE RelayPacket(c)
  BY <1>1, <1>5 DEF RelayPacket, BroadcastToRoom, Goto, PumpTypeOK, HubTypeOK, MembershipInv, InHub,
     PanicOnlyAfterDrop
<1>6. CASE \E seq \in toReplay[c] : ReplayNext(c, seq)
  BY <1>1, <1>6 DEF ReplayNext, SafeSend, PumpTypeOK, HubTypeOK, MembershipInv, InHub,
     PanicOnlyAfterDrop
<1>7. CASE ReplayDone(c)
  BY <1>1, <1>7 DEF ReplayDone, EndReplay, SafeSend, hubVars, Goto, PumpTypeOK, HubTypeOK,
     MembershipInv, InHub, PanicOnlyAfterDrop
<1>8. ASSUME \/ \E n \in Sizes : BufferAudio(c, n)
             \/ ReplayTruncated(c)
             \/ \E r \in toRelease[c] : ReleaseVoice(c, r)
             \/ VoiceReleased(c)
      PROVE  MembershipInv'
  <2>1. /\ reader[c] \in {"buffer", "replay", "release"}
        /\ UNCHANGED hubVars
        /\ \A d \in Conns \ {c} : reader'[d] = reader[d]
    BY <1>1, <1>8 DEF BufferAudio, ReplayTruncated, EndReplay, ReleaseVoice, VoiceReleased, Goto,
       PumpTypeOK
  <2> QED
    BY <2>1, MembershipUnchanged
<1> QED
  BY <1>2, <1>3, <1>4, <1>5, <1>6, <1>7, <1>8 DEF ReaderStep

LEMMA MembershipHub ==
  ASSUME TypeInv, MembershipInv, ~panicked, HubStep
  PROVE  MembershipInv'
<1>1. HubTypeOK /\ UNCHANGED reader
  BY DEF TypeInv, HubStep, pumpVars
<1>2. ASSUME NEW c \in Conns, Register(c)
      PROVE  MembershipInv'
  BY <1>1, <1>2 DEF Register, HubTypeOK, MembershipInv, InHub, PanicOnlyAfterDrop, Idle, Registering,
     Unregistering
<1>3. ASSUME NEW c \in Conns, Unregister(c)
      PROVE  MembershipInv'
  <2>1. \A r \in Rooms : \A d \in members'[r] : r \in joined'[d] /\ InHub(d)'
    <3>1. CASE c \in clients
      BY <1>1, <1>3, <3>1, ZenonT(40) DEF Unregister, Forget, HubTypeOK, MembershipInv, InHub, Registering,
         Unregistering
    <3>2. CASE c \notin clients
      BY <1>1, <1>3, <3>2 DEF Unregister, HubTypeOK, MembershipInv, InHub, Registering,
         Unregistering
    <3> QED
      BY <3>1, <3>2
  <2>2. reader[c] = "done" /\ ~panicked /\ ~panicked'
    BY <1>1, <1>3 DEF Unregister, MembershipInv
  <2> QED
    BY <1>1, <1>3, <2>1, <2>2 DEF Unregister, Forget, MembershipInv, InHub, PanicOnlyAfterDrop, Idle,
       Registering, Unregistering
<1>4. ASSUME NEW c \in Conns, UnregisterPanics(c)
      PROVE  MembershipInv'
  BY <1>1, <1>4 DEF UnregisterPanics, Panic, MembershipInv, InHub, PanicOnlyAfterDrop
<1>5. CASE TakeBroadcast
  BY <1>1, <1>5 DEF TakeBroadcast, HubTypeOK, MembershipInv, InHub, PanicOnlyAfterDrop, Idle,
     Registering, Unregistering, Relaying
<1>6. CASE Relay
  BY <1>1, <1>6 DEF Relay, HubTypeOK, MembershipInv, InHub, PanicOnlyAfterDrop, Idle,
     Registering, Unregistering
<1>7. CASE RelayPanics
  <2>1. PICK c : c \in members[hubTask.message.room] \cap closed
    BY <1>7 DEF RelayPanics, Recipients
  <2>2. hubTask.message.room \in Rooms /\ c \in Conns
    BY <1>1, <1>7, <2>1 DEF RelayPanics, HubTypeOK, HubTask, Message
  <2>3. c \in clients \cap closed
    BY <1>7, <2>1, <2>2 DEF RelayPanics, MembershipInv, InHub, Registering
  <2> QED
    BY <1>1, <1>7, <2>3 DEF RelayPanics, Panic, MembershipInv, InHub, PanicOnlyAfterDrop
<1> QED
  BY <1>2, <1>3, <1>4, <1>5, <1>6, <1>7 DEF HubStep

LEMMA MembershipStep == TypeInv /\ MembershipInv /\ [Next]_vars => MembershipInv'
<1> SUFFICES ASSUME TypeInv, MembershipInv, [Next]_vars
             PROVE  MembershipInv'
  OBVIOUS
<1>1. ASSUME NEW c \in Conns, Connect(c)
      PROVE  MembershipInv'
  <2>1. /\ reader[c] = "none" /\ reader'[c] = "register"
        /\ UNCHANGED hubVars
        /\ \A d \in Conns \ {c} : reader'[d] = reader[d]
    BY <1>1 DEF Connect, Goto, TypeInv, PumpTypeOK
  <2> QED
    BY <2>1, MembershipUnchanged
<1>2. ASSUME NEW c \in Conns, ReadFails(c)
      PROVE  MembershipInv'
  <2>1. /\ reader[c] = "read"
        /\ UNCHANGED hubVars
        /\ \A d \in Conns \ {c} : reader'[d] = reader[d]
    BY <1>2 DEF ReadFails, Goto, TypeInv, PumpTypeOK
  <2> QED
    BY <2>1, MembershipUnchanged
<1>3. ASSUME UNCHANGED <<clients, members, joined, closed, hubTask, panicked, reader>>
      PROVE  MembershipInv'
  BY <1>3 DEF MembershipInv, InHub, PanicOnlyAfterDrop
<1>4. ASSUME NEW c \in Conns, Disconnect(c) \/ WriteFails(c) \/ WriterStep(c)
      PROVE  MembershipInv'
  BY <1>3, <1>4 DEF Disconnect, WriteFails, WriterStep, WriteMessage, Receive, QueueClosed,
     EndWritePump, hubVars
<1>5. CASE CleanupBuffer \/ ClockTick \/ UNCHANGED vars
  BY <1>3, <1>5 DEF CleanupBuffer, ClockTick, vars, hubVars, pumpVars
<1>6. ASSUME Next, NEW c \in Conns, HandleMessage(c) \/ ReaderStep(c)
      PROVE  MembershipInv'
  BY <1>6, MembershipMessage, MembershipReader
<1>7. CASE Next /\ HubStep
  BY <1>7, MembershipHub DEF Next
<1> QED
  BY <1>1, <1>2, <1>4, <1>5, <1>6, <1>7 DEF Next

LEMMA Membership == Spec => []MembershipInv
<1>1. Spec => Init /\ []TypeInv /\ [][Next]_vars
  BY TypeInvariant, PTL DEF Spec
<1> QED
  BY <1>1, MembershipInit, MembershipStep, PTL

(***************************************************************************)
(* The server panics over nothing but a client it has dropped, for any     *)
(* connections that join and leave rooms in any order.                     *)
(***************************************************************************)
THEOREM PanicTheorem == Spec => []PanicOnlyAfterDrop
<1>1. MembershipInv => PanicOnlyAfterDrop
  BY DEF MembershipInv
<1> QED
  BY <1>1, Membership, PTL

-----------------------------------------------------------------------------
(***************************************************************************)
(* Floors.  A client of the app is a member of its own room for as long as *)
(* its ReadPump lives, and speaks in no other: so its releaseVoice frees   *)
(* whatever it holds.                                                      *)
(***************************************************************************)
FloorInv ==
  /\ \A c \in Conns \ Roaming :
       reader[c] \in {"read", "buffer", "relay", "replay"} => Channel[c] \in joined[c]
  /\ NoOrphanFloor

LEMMA FloorInit == Init => FloorInv
  BY DEF Init, VoiceInit, FloorInv, NoOrphanFloor, IsChannelBusy, Status, Silent

(* A step that takes no floor and keeps every promise to free one.         *)
LEMMA FloorKept ==
  ASSUME FloorInv,
         \A r \in Rooms : IsChannelBusy(r)' =>
           IsChannelBusy(r) /\ GetCurrentSpeaker(r)' = GetCurrentSpeaker(r),
         \A c \in Conns \ Roaming :
           /\ reader'[c] \in {"read", "buffer", "relay", "replay"} => Channel[c] \in joined'[c]
           /\ \A r \in Rooms :
                WillRelease(c, r) => \/ WillRelease(c, r)'
                                    \/ ~(IsChannelBusy(r)' /\ GetCurrentSpeaker(r)' = UserOf[c])
  PROVE  FloorInv'
<1>1. SUFFICES NoOrphanFloor'
  BY DEF FloorInv
<1>2. SUFFICES ASSUME NEW r \in Rooms, IsChannelBusy(r)', AppUser(GetCurrentSpeaker(r)')
               PROVE  \E c \in ConnsOf(GetCurrentSpeaker(r)') : WillRelease(c, r)'
  BY DEF NoOrphanFloor, AppUser, ConnsOf
<1>3. IsChannelBusy(r) /\ GetCurrentSpeaker(r)' = GetCurrentSpeaker(r)
  BY <1>2
<1>4. PICK c \in ConnsOf(GetCurrentSpeaker(r)) : WillRelease(c, r)
  BY <1>2, <1>3 DEF FloorInv, NoOrphanFloor
<1>5. c \in Conns \ Roaming /\ UserOf[c] = GetCurrentSpeaker(r)'
  BY <1>2, <1>3, <1>4 DEF AppUser, ConnsOf
<1> QED
  BY <1>2, <1>3, <1>4, <1>5

(* What giving a floor back changes, and taking one.                       *)
LEMMA StopFloors ==
  ASSUME VoiceInv, NEW u \in Users, NEW r \in Rooms, StopTransmission(u, r)
  PROVE  /\ \A q \in Rooms : IsChannelBusy(q)' =>
              IsChannelBusy(q) /\ GetCurrentSpeaker(q)' = GetCurrentSpeaker(q)
         /\ ~(IsChannelBusy(r)' /\ GetCurrentSpeaker(r)' = u)
<1>1. CASE Holds(u, r)
  <2>1. /\ channels'[r] = Silent
        /\ \A q \in Rooms \ {r} : channels'[q] = channels[q]
    BY <1>1 DEF StopTransmission, Released, VoiceInv, VoiceTypeOK
  <2> QED
    BY <2>1 DEF IsChannelBusy, GetCurrentSpeaker, Status, Silent
<1>2. CASE ~Holds(u, r)
  <2>1. channels' = channels
    BY <1>2 DEF StopTransmission
  <2> QED
    BY <1>2, <2>1 DEF Holds, IsChannelBusy, GetCurrentSpeaker, Status, Silent
<1> QED
  BY <1>1, <1>2

LEMMA StartFloors ==
  ASSUME VoiceInv, NEW u \in Users, NEW r \in Rooms, StartTransmission(u, r)
  PROVE  /\ IsChannelBusy(r)' /\ GetCurrentSpeaker(r)' = u
         /\ IsChannelBusy(r) => GetCurrentSpeaker(r) = u
         /\ \A q \in Rooms \ {r} :
              /\ IsChannelBusy(q)' = IsChannelBusy(q)
              /\ GetCurrentSpeaker(q)' = GetCurrentSpeaker(q)
<1>1. /\ channels'[r] = [speaker |-> u, transmitting |-> TRUE]
      /\ \A q \in Rooms \ {r} : channels'[q] = channels[q]
  BY DEF StartTransmission, VoiceInv, VoiceTypeOK
<1>2. [speaker |-> u, transmitting |-> TRUE] \in ChannelState
  BY DEF ChannelState
<1>3. [speaker |-> u, transmitting |-> TRUE] # Absent
  BY <1>2, VoiceAssumption, Zenon DEF VoiceAssumption
<1>4. Status(r)' = [speaker |-> u, transmitting |-> TRUE]
  BY <1>1, <1>3 DEF Status
<1>5. IsChannelBusy(r) => GetCurrentSpeaker(r) = u
  BY DEF StartTransmission, MayStart, CanTransmit
<1>6. \A q \in Rooms \ {r} : Status(q)' = Status(q)
  BY <1>1 DEF Status
<1> QED
  BY <1>4, <1>5, <1>6 DEF IsChannelBusy, GetCurrentSpeaker

LEMMA FloorTaken ==
  ASSUME TypeInv, FloorInv, NEW c \in Conns, NEW r \in Named(c), NEW buffered \in BOOLEAN,
         StartTalking(c, r, buffered)
  PROVE  FloorInv'
<1>1. /\ UserOf[c] \in Users /\ r \in Rooms /\ VoiceInv
      /\ reader \in [Conns -> ReaderStates]
  BY PumpFacts DEF TypeInv, PumpTypeOK
<1>2. /\ StartTransmission(UserOf[c], r)
      /\ reader[c] = "read" /\ reader'[c] \in {"buffer", "relay"}
      /\ \A d \in Conns \ {c} : reader'[d] = reader[d]
      /\ joined' = joined /\ toRelease' = toRelease
  BY <1>1 DEF StartTalking, ReadCounted, ReadMessage, Goto, hubVars
<1>3. \A d \in Conns \ Roaming :
        reader'[d] \in {"read", "buffer", "relay", "replay"} => Channel[d] \in joined'[d]
  BY <1>2 DEF FloorInv
<1>4. \A d \in Conns, q \in Rooms : WillRelease(d, q) => WillRelease(d, q)'
  BY <1>2 DEF WillRelease
<1>5. SUFFICES ASSUME NEW q \in Rooms, IsChannelBusy(q)', AppUser(GetCurrentSpeaker(q)')
               PROVE  \E d \in ConnsOf(GetCurrentSpeaker(q)') : WillRelease(d, q)'
  BY <1>3 DEF FloorInv, NoOrphanFloor, AppUser, ConnsOf
<1>6. CASE q = r
  <2>1. GetCurrentSpeaker(q)' = UserOf[c] /\ c \notin Roaming
    BY <1>1, <1>2, <1>5, <1>6, StartFloors DEF AppUser, ConnsOf
  <2>2. r = Channel[c] /\ r \in joined[c]
    BY <1>2, <2>1 DEF Named, FloorInv
  <2> QED
    BY <1>2, <1>6, <2>1, <2>2 DEF ConnsOf, WillRelease
<1>7. CASE q # r
  <2>1. IsChannelBusy(q) /\ GetCurrentSpeaker(q)' = GetCurrentSpeaker(q)
    BY <1>1, <1>2, <1>5, <1>7, StartFloors
  <2> QED
    BY <1>4, <1>5, <2>1 DEF FloorInv, NoOrphanFloor, ConnsOf
<1> QED
  BY <1>6, <1>7

(* A step of goroutine c that touches no floor.                            *)
LEMMA FloorQuiet ==
  ASSUME FloorInv, NEW c \in Conns, UNCHANGED channels,
         \A d \in Conns \ {c} :
           reader'[d] = reader[d] /\ joined'[d] = joined[d] /\ toRelease'[d] = toRelease[d],
         c \notin Roaming =>
           /\ reader'[c] \in {"read", "buffer", "relay", "replay"} => Channel[c] \in joined'[c]
           /\ \A r \in Rooms : WillRelease(c, r) => WillRelease(c, r)'
  PROVE  FloorInv'
<1>1. \A r \in Rooms : IsChannelBusy(r)' = IsChannelBusy(r)
                       /\ GetCurrentSpeaker(r)' = GetCurrentSpeaker(r)
  BY DEF IsChannelBusy, GetCurrentSpeaker, Status
<1>2. \A d \in Conns \ Roaming :
        /\ reader'[d] \in {"read", "buffer", "relay", "replay"} => Channel[d] \in joined'[d]
        /\ \A r \in Rooms : WillRelease(d, r) => WillRelease(d, r)'
  BY DEF FloorInv, WillRelease
<1> QED
  BY <1>1, <1>2, FloorKept

LEMMA FloorMessage ==
  ASSUME TypeInv, FloorInv, NEW c \in Conns, HandleMessage(c)
  PROVE  FloorInv'
<1>1. PICK r \in Named(c) :
        \/ \E buffered \in BOOLEAN : StartTalking(c, r, buffered)
        \/ TalkRejected(c, r) \/ StopTalking(c, r)
        \/ HandleJoinRoom(c, r) \/ HandleLeaveRoom(c, r) \/ ReplayRefused(c, r)
        \/ \E since \in Since : RequestReplay(c, r, since) \/ NothingToReplay(c, r, since)
  BY DEF HandleMessage
<1>2. /\ UserOf[c] \in Users /\ r \in Rooms /\ VoiceInv
      /\ reader \in [Conns -> ReaderStates] /\ joined \in [Conns -> SUBSET Rooms]
  BY PumpFacts DEF TypeInv, PumpTypeOK, HubTypeOK
<1>3. CASE \E buffered \in BOOLEAN : StartTalking(c, r, buffered)
  BY <1>3, FloorTaken
<1>4. CASE StopTalking(c, r)
  <2>1. /\ StopTransmission(UserOf[c], r)
        /\ reader[c] = "read" /\ reader'[c] = "relay"
        /\ \A d \in Conns \ {c} : reader'[d] = reader[d]
        /\ joined' = joined /\ toRelease' = toRelease
    BY <1>2, <1>4 DEF StopTalking, ReadCounted, ReadMessage, Goto, hubVars
  <2>2. \A d \in Conns \ Roaming :
          /\ reader'[d] \in {"read", "buffer", "relay", "replay"} => Channel[d] \in joined'[d]
          /\ \A q \in Rooms : WillRelease(d, q) => WillRelease(d, q)'
    BY <2>1 DEF FloorInv, WillRelease
  <2>3. \A q \in Rooms : IsChannelBusy(q)' =>
          IsChannelBusy(q) /\ GetCurrentSpeaker(q)' = GetCurrentSpeaker(q)
    BY <1>2, <2>1, StopFloors
  <2> QED
    BY <2>2, <2>3, FloorKept
<1>5. CASE HandleJoinRoom(c, r)
  <2>1. /\ UNCHANGED <<channels, reader, toRelease>>
        /\ joined[c] \subseteq joined'[c]
        /\ \A d \in Conns \ {c} : joined'[d] = joined[d]
    BY <1>2, <1>5 DEF HandleJoinRoom, JoinRoom
  <2>2. c \notin Roaming =>
          /\ reader'[c] \in {"read", "buffer", "relay", "replay"} => Channel[c] \in joined'[c]
          /\ \A q \in Rooms : WillRelease(c, q) => WillRelease(c, q)'
    BY <2>1 DEF FloorInv, WillRelease
  <2> QED
    BY <2>1, <2>2, FloorQuiet
<1>6. CASE HandleLeaveRoom(c, r)
  <2>1. /\ UNCHANGED <<channels, reader, toRelease>> /\ c \in Roaming
        /\ \A d \in Conns \ {c} : joined'[d] = joined[d]
    BY <1>2, <1>6 DEF HandleLeaveRoom, LeaveRoom
  <2> QED
    BY <2>1, FloorQuiet
<1>7. ASSUME /\ reader[c] = "read" /\ reader'[c] \in {"read", "replay"}
             /\ \A d \in Conns \ {c} : reader'[d] = reader[d]
             /\ UNCHANGED <<channels, joined, toRelease>>
      PROVE  FloorInv'
  <2>1. c \notin Roaming =>
          /\ reader'[c] \in {"read", "buffer", "relay", "replay"} => Channel[c] \in joined'[c]
          /\ \A q \in Rooms : WillRelease(c, q) => WillRelease(c, q)'
    BY <1>7 DEF FloorInv, WillRelease
  <2> QED
    BY <1>7, <2>1, FloorQuiet
<1>8. CASE TalkRejected(c, r) \/ ReplayRefused(c, r)
  BY <1>7, <1>8 DEF TalkRejected, StartRejected, ReplayRefused, ReadMessage, hubVars
<1>9. ASSUME NEW since \in Since, RequestReplay(c, r, since) \/ NothingToReplay(c, r, since)
      PROVE  FloorInv'
  BY <1>2, <1>7, <1>9 DEF RequestReplay, NothingToReplay, ReadCounted, ReadMessage, Goto, hubVars
<1> QED
  BY <1>1, <1>3, <1>4, <1>5, <1>6, <1>8, <1>9

LEMMA FloorReader ==
  ASSUME TypeInv, FloorInv, NEW c \in Conns, ReaderStep(c)
  PROVE  FloorInv'
<1>1. /\ UserOf[c] \in Users /\ Channel[c] \in Rooms /\ VoiceInv
      /\ reader \in [Conns -> ReaderStates] /\ joined \in [Conns -> SUBSET Rooms]
      /\ toRelease \in [Conns -> SUBSET Rooms]
  BY PumpFacts DEF TypeInv, PumpTypeOK, HubTypeOK
<1>2. CASE StartPumps(c)
  <2>1. /\ UNCHANGED <<channels, toRelease>> /\ reader[c] = "join" /\ Channel[c] \in joined'[c]
        /\ \A d \in Conns \ {c} : reader'[d] = reader[d] /\ joined'[d] = joined[d]
    BY <1>1, <1>2 DEF StartPumps, JoinRoom, Goto
  <2>2. c \notin Roaming =>
          /\ reader'[c] \in {"read", "buffer", "relay", "replay"} => Channel[c] \in joined'[c]
          /\ \A q \in Rooms : WillRelease(c, q) => WillRelease(c, q)'
    BY <2>1 DEF WillRelease
  <2> QED
    BY <2>1, <2>2, FloorQuiet
<1>3. ASSUME /\ UNCHANGED <<channels, joined, toRelease>>
             /\ \A d \in Conns \ {c} : reader'[d] = reader[d]
             /\ \/ reader[c] \in {"buffer", "relay", "replay"} /\ reader'[c] \in {"relay", "read", "replay"}
                \/ reader[c] \in {"register", "unregister"} /\ reader'[c] \in {"join", "done"}
                \/ toRelease[c] = {} /\ reader[c] = "release" /\ reader'[c] = "unregister"
      PROVE  FloorInv'
  <2>1. c \notin Roaming =>
          /\ reader'[c] \in {"read", "buffer", "relay", "replay"} => Channel[c] \in joined'[c]
          /\ \A q \in Rooms : WillRelease(c, q) => WillRelease(c, q)'
    BY <1>3 DEF FloorInv, WillRelease
  <2> QED
    BY <1>3, <2>1, FloorQuiet
<1>4. CASE RegisterClient(c) \/ UnregisterClient(c) \/ VoiceReleased(c)
  BY <1>1, <1>3, <1>4 DEF RegisterClient, AcceptRegister, UnregisterClient, AcceptUnregister,
     VoiceReleased, Goto, hubVars
<1>5. CASE RelayPacket(c) \/ ReplayTruncated(c) \/ \E n \in Sizes : BufferAudio(c, n)
  BY <1>1, <1>3, <1>5 DEF RelayPacket, BroadcastToRoom, ReplayTruncated, EndReplay, BufferAudio, Goto,
     hubVars
<1>6. CASE ReplayDone(c) \/ \E seq \in toReplay[c] : ReplayNext(c, seq)
  BY <1>1, <1>3, <1>6 DEF ReplayDone, EndReplay, ReplayNext, SafeSend, Goto, hubVars
<1>7. ASSUME NEW r \in toRelease[c], ReleaseVoice(c, r)
      PROVE  FloorInv'
  <2>1. /\ r \in Rooms /\ StopTransmission(UserOf[c], r)
        /\ reader' = reader /\ joined' = joined
        /\ reader[c] = "release" /\ toRelease'[c] = toRelease[c] \ {r}
        /\ \A d \in Conns \ {c} : toRelease'[d] = toRelease[d]
    BY <1>1, <1>7 DEF ReleaseVoice, hubVars
  <2>2. /\ \A q \in Rooms : IsChannelBusy(q)' =>
             IsChannelBusy(q) /\ GetCurrentSpeaker(q)' = GetCurrentSpeaker(q)
        /\ ~(IsChannelBusy(r)' /\ GetCurrentSpeaker(r)' = UserOf[c])
    BY <1>1, <2>1, StopFloors
  <2>3. \A d \in Conns \ Roaming :
          /\ reader'[d] \in {"read", "buffer", "relay", "replay"} => Channel[d] \in joined'[d]
          /\ \A q \in Rooms :
               WillRelease(d, q) => \/ WillRelease(d, q)'
                                   \/ ~(IsChannelBusy(q)' /\ GetCurrentSpeaker(q)' = UserOf[d])
    BY <2>1, <2>2 DEF FloorInv, WillRelease
  <2> QED
    BY <2>2, <2>3, FloorKept
<1> QED
  BY <1>2, <1>4, <1>5, <1>6, <1>7 DEF ReaderStep

LEMMA FloorStep == TypeInv /\ FloorInv /\ [Next]_vars => FloorInv'
<1> SUFFICES ASSUME TypeInv, FloorInv, [Next]_vars
             PROVE  FloorInv'
  OBVIOUS
<1>1. ASSUME UNCHANGED <<channels, reader, joined, toRelease>>
      PROVE  FloorInv'
  BY <1>1 DEF FloorInv, NoOrphanFloor, IsChannelBusy, GetCurrentSpeaker, Status, WillRelease,
     AppUser, ConnsOf
<1>2. ASSUME NEW c \in Conns, Connect(c) \/ ReadFails(c)
      PROVE  FloorInv'
  <2>1. /\ UNCHANGED <<channels, joined>>
        /\ \A d \in Conns \ {c} : reader'[d] = reader[d] /\ toRelease'[d] = toRelease[d]
        /\ \/ reader[c] = "none" /\ reader'[c] = "register"
           \/ reader[c] = "read" /\ reader'[c] = "release" /\ toRelease'[c] = joined[c]
    BY <1>2 DEF Connect, ReadFails, RoomsToRelease, Goto, hubVars, TypeInv, PumpTypeOK
  <2>2. c \notin Roaming =>
          /\ reader'[c] \in {"read", "buffer", "relay", "replay"} => Channel[c] \in joined'[c]
          /\ \A q \in Rooms : WillRelease(c, q) => WillRelease(c, q)'
    BY <2>1 DEF WillRelease
  <2> QED
    BY <2>1, <2>2, FloorQuiet
<1>3. ASSUME NEW c \in Conns, Disconnect(c) \/ WriteFails(c) \/ WriterStep(c)
      PROVE  FloorInv'
  BY <1>1, <1>3 DEF Disconnect, WriteFails, WriterStep, WriteMessage, Receive, QueueClosed,
     EndWritePump, hubVars
<1>4. CASE CleanupBuffer \/ ClockTick \/ UNCHANGED vars
  BY <1>1, <1>4 DEF CleanupBuffer, ClockTick, vars, hubVars, pumpVars
<1>5. CASE HubStep
  BY <1>1, <1>5 DEF HubStep, Register, Unregister, UnregisterPanics, TakeBroadcast, Relay,
     RelayPanics, Panic, pumpVars
<1> QED
  BY <1>2, <1>3, <1>4, <1>5, FloorMessage, FloorReader DEF Next

(***************************************************************************)
(* No floor of a user of the app outlives the user's connections, however  *)
(* many rooms and connections there are and whenever they are lost.        *)
(***************************************************************************)
THEOREM NoOrphanTheorem == Spec => []NoOrphanFloor
<1>1. Spec => Init /\ []TypeInv /\ [][Next]_vars
  BY TypeInvariant, PTL DEF Spec
<1>2. FloorInv => NoOrphanFloor
  BY DEF FloorInv
<1> QED
  BY <1>1, <1>2, FloorInit, FloorStep, PTL

-----------------------------------------------------------------------------
(***************************************************************************)
(* One speaker at a time.  While a user has one connection, only the       *)
(* goroutine that passed the guard could free the floor under its audio,   *)
(* and it is busy with that audio.                                         *)
(***************************************************************************)
OneConnectionEach == \A c, d \in Conns : UserOf[c] = UserOf[d] => c = d

HoldsFloor(c) ==
  IsChannelBusy(packet[c].room) /\ GetCurrentSpeaker(packet[c].room) = UserOf[c]

TalkerInv == \A c \in Conns : Talking(c) => HoldsFloor(c)

LEMMA TalkerInit == Init => TalkerInv
  BY DEF Init, TalkerInv, Talking

(* A step of goroutine c that touches no floor and starts no audio.        *)
LEMMA TalkerQuiet ==
  ASSUME TalkerInv, NEW c \in Conns, UNCHANGED channels,
         \A d \in Conns \ {c} : reader'[d] = reader[d] /\ packet'[d] = packet[d],
         Talking(c)' => Talking(c) /\ packet'[c].room = packet[c].room
  PROVE  TalkerInv'
  BY DEF TalkerInv, Talking, HoldsFloor, IsChannelBusy, GetCurrentSpeaker, Status

(* A goroutine that is not handling audio gives a floor back.              *)
LEMMA TalkerStops ==
  ASSUME OneConnectionEach, TypeInv, TalkerInv, NEW c \in Conns, NEW r \in Rooms,
         StopTransmission(UserOf[c], r), ~Talking(c), ~Talking(c)',
         \A d \in Conns \ {c} : reader'[d] = reader[d] /\ packet'[d] = packet[d]
  PROVE  TalkerInv'
<1>1. SUFFICES ASSUME NEW d \in Conns, Talking(d)'
               PROVE  HoldsFloor(d)'
  BY DEF TalkerInv
<1>2. d # c /\ Talking(d) /\ HoldsFloor(d) /\ packet'[d] = packet[d]
  BY <1>1 DEF TalkerInv, Talking
<1>3. /\ packet[d].room \in Rooms /\ UserOf[d] # UserOf[c]
      /\ channels \in [Rooms -> ChannelState \cup {Absent}]
  BY <1>2, PumpFacts DEF OneConnectionEach, TypeInv, VoiceInv, VoiceTypeOK
<1>4. channels'[packet[d].room] = channels[packet[d].room]
  <2>1. CASE Holds(UserOf[c], r)
    <3>1. r # packet[d].room
      BY <1>2, <1>3, <2>1 DEF Holds, HoldsFloor, IsChannelBusy, GetCurrentSpeaker, Status
    <3> QED
      BY <1>3, <2>1, <3>1 DEF StopTransmission
  <2>2. CASE ~Holds(UserOf[c], r)
    BY <2>2 DEF StopTransmission
  <2> QED
    BY <2>1, <2>2
<1> QED
  BY <1>2, <1>4 DEF HoldsFloor, IsChannelBusy, GetCurrentSpeaker, Status

LEMMA TalkerStarts ==
  ASSUME TypeInv, TalkerInv, NEW c \in Conns, NEW r \in Named(c), NEW buffered \in BOOLEAN,
         StartTalking(c, r, buffered)
  PROVE  TalkerInv'
<1>1. /\ UserOf[c] \in Users /\ r \in Rooms /\ VoiceInv
      /\ reader \in [Conns -> ReaderStates] /\ packet \in [Conns -> Message]
  BY PumpFacts DEF TypeInv, PumpTypeOK
<1>2. /\ StartTransmission(UserOf[c], r) /\ packet'[c].room = r
      /\ \A d \in Conns \ {c} : reader'[d] = reader[d] /\ packet'[d] = packet[d]
  BY <1>1 DEF StartTalking, Goto, Packet
<1>3. SUFFICES ASSUME NEW d \in Conns, Talking(d)'
               PROVE  HoldsFloor(d)'
  BY DEF TalkerInv
<1>4. CASE d = c
  BY <1>1, <1>2, <1>4, StartFloors DEF HoldsFloor
<1>5. CASE d # c
  <2>1. Talking(d) /\ HoldsFloor(d) /\ packet'[d] = packet[d] /\ packet[d].room \in Rooms
    BY <1>2, <1>3, <1>5, PumpFacts DEF TalkerInv, Talking
  <2> QED
    BY <1>1, <1>2, <2>1, StartFloors DEF HoldsFloor
<1> QED
  BY <1>4, <1>5

LEMMA TalkerMessage ==
  ASSUME OneConnectionEach, TypeInv, TalkerInv, NEW c \in Conns, HandleMessage(c)
  PROVE  TalkerInv'
<1>1. PICK r \in Named(c) :
        \/ \E buffered \in BOOLEAN : StartTalking(c, r, buffered)
        \/ TalkRejected(c, r) \/ StopTalking(c, r)
        \/ HandleJoinRoom(c, r) \/ HandleLeaveRoom(c, r) \/ ReplayRefused(c, r)
        \/ \E since \in Since : RequestReplay(c, r, since) \/ NothingToReplay(c, r, since)
  BY DEF HandleMessage
<1>2. /\ r \in Rooms
      /\ reader \in [Conns -> ReaderStates] /\ packet \in [Conns -> Message]
  BY PumpFacts DEF TypeInv, PumpTypeOK
<1>3. CASE \E buffered \in BOOLEAN : StartTalking(c, r, buffered)
  BY <1>3, TalkerStarts
<1>4. CASE StopTalking(c, r)
  <2>1. /\ StopTransmission(UserOf[c], r) /\ ~Talking(c) /\ ~Talking(c)'
        /\ \A d \in Conns \ {c} : reader'[d] = reader[d] /\ packet'[d] = packet[d]
    BY <1>2, <1>4 DEF StopTalking, ReadCounted, ReadMessage, Goto, Packet, Talking
  <2> QED
    BY <1>2, <2>1, TalkerStops
<1>5. CASE \/ TalkRejected(c, r) \/ HandleJoinRoom(c, r) \/ HandleLeaveRoom(c, r)
           \/ ReplayRefused(c, r)
  BY <1>5, TalkerQuiet DEF TalkRejected, StartRejected, HandleJoinRoom, HandleLeaveRoom,
     ReplayRefused, Talking
<1>6. ASSUME NEW since \in Since, RequestReplay(c, r, since) \/ NothingToReplay(c, r, since)
      PROVE  TalkerInv'
  <2>1. /\ UNCHANGED channels /\ ~Talking(c)'
        /\ \A d \in Conns \ {c} : reader'[d] = reader[d] /\ packet'[d] = packet[d]
    BY <1>2, <1>6 DEF RequestReplay, NothingToReplay, ReadCounted, ReadMessage, Goto, Talking
  <2> QED
    BY <2>1, TalkerQuiet
<1> QED
  BY <1>1, <1>3, <1>4, <1>5, <1>6

LEMMA TalkerReader ==
  ASSUME OneConnectionEach, TypeInv, TalkerInv, NEW c \in Conns, ReaderStep(c)
  PROVE  TalkerInv'
<1>1. reader \in [Conns -> ReaderStates] /\ packet \in [Conns -> Message]
  BY DEF TypeInv, PumpTypeOK
<1>2. ASSUME NEW r \in toRelease[c], ReleaseVoice(c, r)
      PROVE  TalkerInv'
  <2>1. /\ r \in Rooms /\ StopTransmission(UserOf[c], r)
        /\ reader' = reader /\ packet' = packet /\ reader[c] = "release"
    BY <1>2, PumpFacts DEF ReleaseVoice
  <2> QED
    BY <2>1, TalkerStops DEF Talking
<1>3. ASSUME NEW n \in Sizes, BufferAudio(c, n)
      PROVE  TalkerInv'
  <2>1. packet[c] \in Message
    BY <1>1
  <2>2. /\ UNCHANGED channels
        /\ \A d \in Conns \ {c} : reader'[d] = reader[d] /\ packet'[d] = packet[d]
        /\ reader[c] = "buffer" /\ reader'[c] = "relay"
        /\ packet'[c].room = packet[c].room /\ packet'[c].kind = packet[c].kind
    BY <1>1, <1>3, <2>1 DEF BufferAudio, Goto, Message
  <2> QED
    BY <2>2, TalkerQuiet DEF Talking
<1>4. ASSUME /\ UNCHANGED channels
             /\ reader'[c] \notin {"buffer", "relay"}
             /\ \A d \in Conns \ {c} : reader'[d] = reader[d] /\ packet'[d] = packet[d]
      PROVE  TalkerInv'
  BY <1>4, TalkerQuiet DEF Talking
<1>5. CASE RegisterClient(c) \/ StartPumps(c) \/ VoiceReleased(c) \/ UnregisterClient(c)
  BY <1>1, <1>4, <1>5 DEF RegisterClient, StartPumps, VoiceReleased, UnregisterClient, Goto
<1>6. CASE RelayPacket(c) \/ ReplayTruncated(c) \/ ReplayDone(c)
  BY <1>1, <1>4, <1>6 DEF RelayPacket, ReplayTruncated, ReplayDone, EndReplay, Goto
<1>7. CASE \E seq \in toReplay[c] : ReplayNext(c, seq)
  BY <1>4, <1>7 DEF ReplayNext
<1> QED
  BY <1>2, <1>3, <1>5, <1>6, <1>7 DEF ReaderStep

LEMMA TalkerStep == OneConnectionEach /\ TypeInv /\ TalkerInv /\ [Next]_vars => TalkerInv'
<1> SUFFICES ASSUME OneConnectionEach, TypeInv, TalkerInv, [Next]_vars
             PROVE  TalkerInv'
  OBVIOUS
<1>1. ASSUME UNCHANGED <<channels, reader, packet>>
      PROVE  TalkerInv'
  BY <1>1 DEF TalkerInv, Talking, HoldsFloor, IsChannelBusy, GetCurrentSpeaker, Status
<1>2. ASSUME NEW c \in Conns, Connect(c) \/ ReadFails(c)
      PROVE  TalkerInv'
  <2>1. /\ UNCHANGED channels /\ ~Talking(c)'
        /\ \A d \in Conns \ {c} : reader'[d] = reader[d] /\ packet'[d] = packet[d]
    BY <1>2 DEF Connect, ReadFails, Goto, Talking, TypeInv, PumpTypeOK
  <2> QED
    BY <2>1, TalkerQuiet
<1>3. ASSUME NEW c \in Conns, Disconnect(c) \/ WriteFails(c) \/ WriterStep(c)
      PROVE  TalkerInv'
  BY <1>1, <1>3 DEF Disconnect, WriteFails, WriterStep, WriteMessage, QueueClosed, EndWritePump
<1>4. CASE HubStep \/ CleanupBuffer \/ ClockTick \/ UNCHANGED vars
  BY <1>1, <1>4 DEF HubStep, CleanupBuffer, ClockTick, vars, pumpVars
<1> QED
  BY <1>2, <1>3, <1>4, TalkerMessage, TalkerReader DEF Next

(***************************************************************************)
(* As long as no user has two connections, the audio of two users is never *)
(* on its way to a room together.  With two, it can be: a connection that  *)
(* ends frees the floor under the audio of the other one.                  *)
(***************************************************************************)
THEOREM OneSpeakerTheorem ==
  ASSUME OneConnectionEach
  PROVE  Spec => []OneSpeakerAtATime
<1>1. Spec => Init /\ []TypeInv /\ [][Next]_vars
  BY TypeInvariant, PTL DEF Spec
<1>2. TalkerInv => OneSpeakerAtATime
  BY DEF TalkerInv, HoldsFloor, OneSpeakerAtATime
<1>3. TypeInv /\ TalkerInv /\ [Next]_vars => TalkerInv'
  BY OneConnectionEach, TalkerStep
<1> QED
  BY <1>1, <1>2, <1>3, TalkerInit, PTL
-----------------------------------------------------------------------------
(***************************************************************************)
(* The live rooms.  A room is kept while it has members, and one without   *)
(* members only if the hub dropped somebody who is still registered.       *)
(***************************************************************************)
LiveInv ==
  /\ \A r \in Rooms : members[r] # {} => r \in liveRooms
  /\ clients \cap closed = {} => \A r \in liveRooms : members[r] # {}

LEMMA LiveInit == Init => LiveInv
  BY DEF Init, HubInit, LiveInv

(* The hub forgets a client that is registered and was not dropped.        *)
LEMMA LiveForget ==
  ASSUME TypeInv, MembershipInv, LiveInv, NEW c \in clients, c \notin closed, Forget(c)
  PROVE  LiveInv'
<1>1. HubTypeOK
  BY DEF TypeInv
<1>2. \A r \in Rooms : members'[r] # {} => r \in liveRooms'
  <2>1. SUFFICES ASSUME NEW r \in Rooms, members'[r] # {}
                 PROVE  r \in liveRooms'
    OBVIOUS
  <2>2. members'[r] \subseteq members[r] /\ r \in liveRooms
    BY <2>1 DEF Forget, LiveInv
  <2>3. r \in joined[c] => ~(members[r] \subseteq {c})
    BY <2>1 DEF Forget
  <2> QED
    BY <2>2, <2>3 DEF Forget, Emptied
<1>3. ASSUME clients' \cap closed' = {}, NEW r \in liveRooms'
      PROVE  members'[r] # {}
  <2>1. clients \cap closed = {}
    BY <1>3 DEF Forget
  <2>2. r \in Rooms /\ r \in liveRooms /\ members[r] # {}
    BY <1>1, <1>3, <2>1 DEF Forget, LiveInv, HubTypeOK
  <2>3. r \in joined[c] => ~(members[r] \subseteq {c})
    BY <1>3, <2>2 DEF Forget, Emptied
  <2> QED
    BY <2>2, <2>3 DEF Forget
<1> QED
  BY <1>2, <1>3 DEF LiveInv

(* A client the hub drops from the room it relays to stays registered.     *)
LEMMA LiveRelay ==
  ASSUME TypeInv, MembershipInv, LiveInv, Relay
  PROVE  LiveInv'
<1> DEFINE m == hubTask.message
           slow == {c \in Recipients(m) : Full(c)}
<1>1. /\ m.room \in Rooms /\ members \in [Rooms -> SUBSET Conns] /\ liveRooms \subseteq Rooms
      /\ members' = [members EXCEPT ![m.room] = @ \ slow]
      /\ closed' = closed \cup slow /\ UNCHANGED <<clients, liveRooms>>
  BY DEF Relay, TypeInv, HubTypeOK, HubTask, Message
<1>2. slow \subseteq clients
  <2>1. slow \subseteq members[m.room] /\ \A c \in Conns : hubTask # Registering(c)
    BY DEF Recipients, Relay, Registering
  <2> QED
    BY <1>1, <2>1 DEF MembershipInv, InHub
<1> HIDE DEF m, slow
<1>3. \A r \in Rooms : members'[r] \subseteq members[r]
  BY <1>1
<1>4. clients' \cap closed' = {} => clients \cap closed = {} /\ slow = {}
  BY <1>1, <1>2
<1> QED
  BY <1>1, <1>3, <1>4 DEF LiveInv

LEMMA LiveStep == TypeInv /\ MembershipInv /\ LiveInv /\ [Next]_vars => LiveInv'
<1> SUFFICES ASSUME TypeInv, MembershipInv, LiveInv, [Next]_vars
             PROVE  LiveInv'
  OBVIOUS
<1>1. HubTypeOK /\ (HubNext \/ UNCHANGED hubVars)
  BY HubSteps DEF TypeInv, vars
<1>2. CASE UNCHANGED <<members, liveRooms, clients, closed>>
  BY <1>2 DEF LiveInv
<1>3. ASSUME NEW c \in Conns, NEW r \in Rooms, JoinRoom(c, r)
      PROVE  LiveInv'
  BY <1>1, <1>3 DEF JoinRoom, HubTypeOK, LiveInv
<1>4. ASSUME NEW c \in Conns, NEW r \in Rooms, LeaveRoom(c, r)
      PROVE  LiveInv'
  BY <1>1, <1>4 DEF LeaveRoom, Emptied, HubTypeOK, LiveInv
<1>5. ASSUME NEW c \in Conns, Register(c)
      PROVE  LiveInv'
  BY <1>5 DEF Register, LiveInv
<1>6. ASSUME NEW c \in Conns, Unregister(c)
      PROVE  LiveInv'
  BY <1>2, <1>6, LiveForget DEF Unregister
<1>7. CASE Relay
  BY <1>7, LiveRelay
<1>8. ASSUME NEW c \in Conns,
             AcceptRegister(c) \/ AcceptUnregister(c) \/ UnregisterPanics(c) \/ Receive(c)
             \/ \E m \in Message : SafeSend(c, m)
      PROVE  LiveInv'
  BY <1>2, <1>8 DEF AcceptRegister, AcceptUnregister, UnregisterPanics, Panic, Receive, SafeSend
<1>9. CASE TakeBroadcast \/ RelayPanics \/ \E m \in Message : BroadcastToRoom(m)
  BY <1>2, <1>9 DEF TakeBroadcast, RelayPanics, Panic, BroadcastToRoom
<1>10. CASE UNCHANGED hubVars
  BY <1>2, <1>10 DEF hubVars
<1> QED
  BY <1>1, <1>3, <1>4, <1>5, <1>6, <1>7, <1>8, <1>9, <1>10 DEF HubNext

(***************************************************************************)
(* What the admin panel counts as live rooms are the rooms with clients,   *)
(* unless the hub dropped somebody, for any number of rooms and clients.   *)
(***************************************************************************)
THEOREM LiveRoomsTheorem == Spec => []LiveRoomsCounted
<1>1. ASSUME TypeInv, LiveInv
      PROVE  LiveRoomsCounted
  <2> DEFINE inUse == {r \in Rooms : members[r] # {}}
  <2>1. inUse \subseteq liveRooms
    BY <1>1 DEF LiveInv
  <2>2. clients \cap closed = {} => liveRooms = inUse
    BY <1>1, <2>1 DEF LiveInv, TypeInv, HubTypeOK
  <2> QED
    BY <2>1, <2>2 DEF LiveRoomsCounted, GetLiveRoomCount
<1>2. Spec => Init /\ []TypeInv /\ []MembershipInv /\ [][Next]_vars
  BY TypeInvariant, Membership, PTL DEF Spec
<1> QED
  BY <1>1, <1>2, LiveInit, LiveStep, PTL

-----------------------------------------------------------------------------
(***************************************************************************)
(* What a connection leaves behind.  The hub has registered a client by    *)
(* the time it unregisters it, once, and then closes its queue, which ends *)
(* its WritePump.                                                          *)
(***************************************************************************)
LeftInv ==
  \A c \in Conns :
    /\ hubTask = Registering(c) => reader[c] \notin {"none", "register", "done"}
    /\ hubTask = Unregistering(c) => c \in clients
    /\ reader[c] = "done" /\ hubTask # Unregistering(c) => c \notin clients /\ c \in closed

LEMMA LeftInit == Init => LeftInv
  BY DEF Init, HubInit, LeftInv, Idle, Registering, Unregistering

(* The hub does nothing, and no goroutine passes its registration or its   *)
(* unregistration.                                                         *)
LEMMA LeftQuiet ==
  ASSUME LeftInv, UNCHANGED <<clients, closed, hubTask>>,
         \A c \in Conns :
           \/ reader'[c] = reader[c] \/ reader'[c] \notin {"none", "register", "done"}
           \/ reader[c] = "none" /\ reader'[c] = "register"
  PROVE  LeftInv'
  BY DEF LeftInv

LEMMA LeftReader ==
  ASSUME TypeInv, MembershipInv, LeftInv, NEW c \in Conns, ReaderStep(c)
  PROVE  LeftInv'
<1>1. PumpTypeOK /\ HubTypeOK
  BY DEF TypeInv
<1>2. CASE RegisterClient(c)
  <2>1. /\ hubTask' = Registering(c) /\ hubTask = Idle /\ UNCHANGED <<clients, closed>>
        /\ \A d \in Conns : reader'[d] = IF d = c THEN "join" ELSE reader[d]
    BY <1>1, <1>2 DEF RegisterClient, AcceptRegister, Goto, PumpTypeOK
  <2> QED
    BY <1>2, <2>1 DEF RegisterClient, LeftInv, Idle, Registering, Unregistering
<1>3. CASE UnregisterClient(c)
  <2>1. /\ hubTask' = Unregistering(c) /\ hubTask = Idle /\ UNCHANGED <<clients, closed>>
        /\ \A d \in Conns : reader'[d] = IF d = c THEN "done" ELSE reader[d]
    BY <1>1, <1>3 DEF UnregisterClient, AcceptUnregister, Goto, PumpTypeOK
  <2>2. c \in clients
    BY <1>3, <2>1 DEF UnregisterClient, MembershipInv, InHub, Idle, Registering
  <2> QED
    BY <2>1, <2>2 DEF LeftInv, Idle, Registering, Unregistering
<1>4. CASE /\ reader'[c] = reader[c] \/ reader'[c] \notin {"none", "register", "done"}
           /\ \A d \in Conns \ {c} : reader'[d] = reader[d]
           /\ UNCHANGED <<clients, closed, hubTask>>
  BY <1>4, LeftQuiet
<1>5. ASSUME \/ StartPumps(c) \/ RelayPacket(c) \/ ReplayTruncated(c) \/ VoiceReleased(c)
             \/ \E n \in Sizes : BufferAudio(c, n)
      PROVE  LeftInv'
  BY <1>1, <1>4, <1>5 DEF StartPumps, JoinRoom, RelayPacket, BroadcastToRoom, ReplayTruncated,
     EndReplay, VoiceReleased, BufferAudio, Goto, PumpTypeOK, hubVars
<1>6. ASSUME ReplayDone(c) PROVE LeftInv'
  BY <1>1, <1>4, <1>6 DEF ReplayDone, EndReplay, SafeSend, Goto, PumpTypeOK, hubVars
<1>7. ASSUME \/ \E seq \in toReplay[c] : ReplayNext(c, seq)
             \/ \E r \in toRelease[c] : ReleaseVoice(c, r)
      PROVE  LeftInv'
  BY <1>4, <1>7 DEF ReplayNext, SafeSend, ReleaseVoice, hubVars
<1> QED
  BY <1>2, <1>3, <1>5, <1>6, <1>7 DEF ReaderStep

LEMMA LeftHub ==
  ASSUME TypeInv, LeftInv, HubStep
  PROVE  LeftInv'
<1>1. HubTypeOK /\ UNCHANGED reader
  BY DEF TypeInv, HubStep, pumpVars
<1>2. CASE UNCHANGED <<clients, closed, hubTask>>
  BY <1>1, <1>2, LeftQuiet
<1>3. ASSUME NEW c \in Conns, Register(c) PROVE LeftInv'
  BY <1>1, <1>3 DEF Register, LeftInv, Idle, Registering, Unregistering
<1>4. ASSUME NEW c \in Conns, Unregister(c) PROVE LeftInv'
  <2>1. c \in clients /\ clients' = clients \ {c} /\ closed' = closed \cup {c} /\ hubTask' = Idle
        /\ hubTask = Unregistering(c)
    BY <1>4 DEF Unregister, Forget, LeftInv
  <2> QED
    BY <1>1, <2>1 DEF LeftInv, Idle, Registering, Unregistering
<1>5. CASE TakeBroadcast
  BY <1>1, <1>5 DEF TakeBroadcast, LeftInv, Idle, Registering, Unregistering, Relaying
<1>6. CASE Relay
  <2>1. closed \subseteq closed' /\ hubTask' = Idle /\ clients' = clients
        /\ \A c \in Conns : hubTask # Unregistering(c)
    BY <1>6 DEF Relay, Unregistering
  <2> QED
    BY <1>1, <2>1 DEF LeftInv, Idle, Registering, Unregistering
<1>7. ASSUME RelayPanics \/ \E c \in Conns : UnregisterPanics(c) PROVE LeftInv'
  BY <1>2, <1>7 DEF RelayPanics, UnregisterPanics, Panic
<1> QED
  BY <1>3, <1>4, <1>5, <1>6, <1>7 DEF HubStep

LEMMA LeftStep == TypeInv /\ MembershipInv /\ LeftInv /\ [Next]_vars => LeftInv'
<1> SUFFICES ASSUME TypeInv, MembershipInv, LeftInv, [Next]_vars
             PROVE  LeftInv'
  OBVIOUS
<1>1. PumpTypeOK
  BY DEF TypeInv
<1>2. ASSUME NEW c \in Conns, Connect(c) \/ ReadFails(c) PROVE LeftInv'
  BY <1>1, <1>2, LeftQuiet DEF Connect, ReadFails, Goto, PumpTypeOK, hubVars
<1>3. ASSUME NEW c \in Conns, HandleMessage(c) PROVE LeftInv'
  <2>1. \A d \in Conns : reader'[d] = reader[d] \/ reader'[d] \in {"buffer", "relay", "replay"}
    BY <1>1, <1>3 DEF HandleMessage, StartTalking, TalkRejected, StopTalking, HandleJoinRoom,
       HandleLeaveRoom, ReplayRefused, RequestReplay, NothingToReplay, Goto, PumpTypeOK
  <2>2. UNCHANGED <<clients, closed, hubTask>>
    BY <1>3 DEF HandleMessage, StartTalking, TalkRejected, StopTalking, HandleJoinRoom, JoinRoom,
       HandleLeaveRoom, LeaveRoom, ReplayRefused, RequestReplay, NothingToReplay, hubVars
  <2> QED
    BY <2>1, <2>2, LeftQuiet
<1>4. ASSUME NEW c \in Conns, Disconnect(c) \/ WriteFails(c) \/ WriterStep(c) PROVE LeftInv'
  BY <1>4, LeftQuiet DEF Disconnect, WriteFails, WriterStep, WriteMessage, Receive, QueueClosed,
     EndWritePump, hubVars
<1>5. CASE CleanupBuffer \/ ClockTick \/ UNCHANGED vars
  BY <1>5, LeftQuiet DEF CleanupBuffer, ClockTick, vars, hubVars, pumpVars
<1> QED
  BY <1>2, <1>3, <1>4, <1>5, LeftReader, LeftHub DEF Next

(***************************************************************************)
(* A connection leaves nothing behind: once its ReadPump has ended and the *)
(* hub has taken its unregistration, it is in no room and not in the hub,  *)
(* its queue is closed, and, if its user is of the app and has no other    *)
(* connection, no room is held by the user.  This holds whatever the       *)
(* client joined, left and was dropped from.                               *)
(***************************************************************************)
NothingLeftBehind ==
  \A c \in Conns : reader[c] = "done" /\ hubTask # Unregistering(c) =>
    /\ c \notin clients /\ c \in closed
    /\ \A r \in Rooms : c \notin members[r]
    /\ AppUser(UserOf[c]) /\ ConnsOf(UserOf[c]) = {c} =>
         \A r \in Rooms : ~(IsChannelBusy(r) /\ GetCurrentSpeaker(r) = UserOf[c])

THEOREM NothingLeftTheorem == Spec => []NothingLeftBehind
<1>1. ASSUME MembershipInv, LeftInv, NoOrphanFloor
      PROVE  NothingLeftBehind
  <2>1. SUFFICES ASSUME NEW c \in Conns, reader[c] = "done", hubTask # Unregistering(c)
                 PROVE  /\ c \notin clients /\ c \in closed
                        /\ \A r \in Rooms : c \notin members[r]
                        /\ AppUser(UserOf[c]) /\ ConnsOf(UserOf[c]) = {c} =>
                             \A r \in Rooms : ~(IsChannelBusy(r) /\ GetCurrentSpeaker(r) = UserOf[c])
    BY DEF NothingLeftBehind
  <2>2. c \notin clients /\ c \in closed /\ hubTask # Registering(c)
    BY <1>1, <2>1 DEF LeftInv
  <2>3. \A r \in Rooms : c \notin members[r]
    BY <1>1, <2>2 DEF MembershipInv, InHub
  <2>4. \A r \in Rooms : ~WillRelease(c, r)
    BY <2>1 DEF WillRelease
  <2> QED
    BY <1>1, <2>2, <2>3, <2>4 DEF NoOrphanFloor
<1>2. Spec => Init /\ []TypeInv /\ []MembershipInv /\ []NoOrphanFloor /\ [][Next]_vars
  BY TypeInvariant, Membership, NoOrphanTheorem, PTL DEF Spec
<1> QED
  BY <1>1, <1>2, LeftInit, LeftStep, PTL

-----------------------------------------------------------------------------
(***************************************************************************)
(* What is on its way to a room: the packets of the goroutines about to    *)
(* broadcast them, then those in the hub's queue, oldest first, then the   *)
(* one the hub relays.                                                     *)
(***************************************************************************)
OnTheirWay ==
  {Stream[i] : i \in DOMAIN Stream} \cup {packet[d] : d \in {e \in Conns : reader[e] = "relay"}}

(* Sequences of messages: one more at the front, and at the end.           *)
LEMMA PrependItems ==
  ASSUME NEW q \in Seq(Message), NEW m \in Message
  PROVE  /\ <<m>> \o q \in Seq(Message) /\ Len(<<m>> \o q) = Len(q) + 1
         /\ (<<m>> \o q)[1] = m /\ \A i \in 1 .. Len(q) : (<<m>> \o q)[i + 1] = q[i]
         /\ Tail(<<m>> \o q) = q
  OBVIOUS

LEMMA AppendItems ==
  ASSUME NEW q \in Seq(Message), NEW m \in Message
  PROVE  /\ Append(q, m) \in Seq(Message) /\ Len(Append(q, m)) = Len(q) + 1
         /\ Append(q, m)[Len(q) + 1] = m /\ \A i \in 1 .. Len(q) : Append(q, m)[i] = q[i]
  OBVIOUS

LEMMA StreamTypes ==
  ASSUME TypeInv
  PROVE  /\ Stream \in Seq(Message)
         /\ hubTask.op = "relay" => hubTask.message \in Message /\ Stream = <<hubTask.message>> \o broadcast
         /\ hubTask.op # "relay" => Stream = broadcast
<1>1. broadcast \in Seq(Message) /\ hubTask \in HubTask
  BY DEF TypeInv, HubTypeOK
<1>2. hubTask.op = "relay" => hubTask.message \in Message
  BY <1>1 DEF HubTask
<1>3. << >> \o broadcast = broadcast
  BY <1>1
<1> QED
  BY <1>1, <1>2, <1>3, PrependItems DEF Stream

(* The hub takes a packet from its queue: it stays the first.              *)
LEMMA StreamTaken ==
  ASSUME TypeInv, TakeBroadcast
  PROVE  Stream' = Stream
<1>1. broadcast \in Seq(Message) /\ broadcast # << >> /\ hubTask = Idle
  BY DEF TypeInv, HubTypeOK, TakeBroadcast
<1>2. Stream = broadcast
  BY <1>1, StreamTypes DEF Idle
<1>3. Stream' = <<Head(broadcast)>> \o Tail(broadcast)
  BY DEF TakeBroadcast, Stream, Relaying
<1>4. <<Head(broadcast)>> \o Tail(broadcast) = broadcast
  BY <1>1
<1> QED
  BY <1>2, <1>3, <1>4

LEMMA StreamRelayed ==
  ASSUME TypeInv, Relay
  PROVE  Stream' = Tail(Stream) /\ Len(Stream) > 0 /\ Stream[1] = hubTask.message
<1>1. broadcast \in Seq(Message) /\ hubTask.message \in Message /\ Stream = <<hubTask.message>> \o broadcast
  BY StreamTypes DEF TypeInv, HubTypeOK, Relay
<1>2. Stream' = << >> \o broadcast
  BY DEF Relay, Stream, Idle
<1> QED
  BY <1>1, <1>2, PrependItems

LEMMA StreamGrown ==
  ASSUME TypeInv, NEW m \in Message, BroadcastToRoom(m)
  PROVE  Stream' = Append(Stream, m)
<1>1. /\ broadcast \in Seq(Message) /\ UNCHANGED hubTask /\ broadcast' = Append(broadcast, m)
  BY DEF TypeInv, HubTypeOK, BroadcastToRoom
<1>2. CASE hubTask.op = "relay"
  <2>1. Stream' = <<hubTask.message>> \o Append(broadcast, m)
    BY <1>1, <1>2 DEF Stream
  <2>2. hubTask.message \in Message /\ Stream = <<hubTask.message>> \o broadcast
    BY <1>2, StreamTypes
  <2> QED
    BY <1>1, <2>1, <2>2
<1>3. CASE hubTask.op # "relay"
  <2>1. Stream' = << >> \o Append(broadcast, m)
    BY <1>1, <1>3 DEF Stream
  <2> QED
    BY <1>1, <1>3, <2>1, StreamTypes
<1> QED
  BY <1>2, <1>3

(* Nothing else touches the stream.                                        *)
LEMMA StreamSteps ==
  ASSUME TypeInv, [Next]_vars
  PROVE  Stream' = Stream \/ (Relay /\ HubStep) \/ \E c \in Conns : RelayPacket(c)
<1>1. CASE UNCHANGED <<hubTask, broadcast>>
  BY <1>1 DEF Stream
<1>2. ASSUME NEW c \in Conns, HandleMessage(c)
      PROVE  UNCHANGED <<hubTask, broadcast>>
  BY <1>2 DEF HandleMessage, StartTalking, TalkRejected, StopTalking, HandleJoinRoom, JoinRoom,
     HandleLeaveRoom, LeaveRoom, ReplayRefused, RequestReplay, NothingToReplay, hubVars
<1>3. ASSUME NEW c \in Conns, RegisterClient(c) \/ UnregisterClient(c)
      PROVE  Stream' = Stream
  BY <1>3 DEF RegisterClient, AcceptRegister, UnregisterClient, AcceptUnregister, Stream, Idle,
     Registering, Unregistering
<1>4. ASSUME NEW c \in Conns, ReaderStep(c), ~RegisterClient(c), ~UnregisterClient(c),
             ~RelayPacket(c)
      PROVE  UNCHANGED <<hubTask, broadcast>>
  BY <1>4 DEF ReaderStep, StartPumps, JoinRoom, BufferAudio, ReplayNext, SafeSend, ReplayTruncated,
     ReplayDone, ReleaseVoice, VoiceReleased, hubVars
<1>5. ASSUME NEW c \in Conns,
             Connect(c) \/ Disconnect(c) \/ WriteFails(c) \/ ReadFails(c) \/ WriterStep(c)
      PROVE  UNCHANGED <<hubTask, broadcast>>
  BY <1>5 DEF Connect, Disconnect, WriteFails, EndWritePump, ReadFails, WriterStep, WriteMessage,
     Receive, QueueClosed, hubVars
<1>6. CASE HubStep
  <2>1. ASSUME NEW c \in Conns, Register(c) \/ Unregister(c)
        PROVE  Stream' = Stream
    BY <2>1 DEF Register, Unregister, Stream, Idle, Registering, Unregistering
  <2>2. ASSUME (\E c \in Conns : UnregisterPanics(c)) \/ RelayPanics
        PROVE  UNCHANGED <<hubTask, broadcast>>
    BY <2>2 DEF UnregisterPanics, RelayPanics, Panic
  <2> QED
    BY <1>1, <1>6, <2>1, <2>2, StreamTaken DEF HubStep
<1>7. CASE CleanupBuffer \/ ClockTick \/ UNCHANGED vars
  BY <1>1, <1>7 DEF CleanupBuffer, ClockTick, vars, hubVars
<1> QED
  BY <1>1, <1>2, <1>3, <1>4, <1>5, <1>6, <1>7 DEF Next

(* A step that neither numbers a chunk nor queues one for the hub: the     *)
(* goroutines that were to broadcast are, and who else is has no number.   *)
QuietReaders ==
  /\ sequenceMap' = sequenceMap
  /\ \A r \in Rooms : buffers'[r] \subseteq buffers[r]
  /\ \A d \in Conns :
       \/ reader[d] = "relay" /\ reader'[d] = "relay" /\ packet'[d] = packet[d]
       \/ reader[d] # "relay" /\ (reader'[d] = "relay" => packet'[d].seq = 0)

(* One of whose goroutines alone moves.                                    *)
LEMMA OneReaderQuiet ==
  ASSUME UNCHANGED bufferVars, NEW c \in Conns, reader[c] # "relay",
         reader'[c] = "relay" => packet'[c].seq = 0,
         \A d \in Conns \ {c} : reader'[d] = reader[d] /\ packet'[d] = packet[d]
  PROVE  QuietReaders
  BY DEF QuietReaders, bufferVars

LEMMA AllReadersQuiet ==
  ASSUME UNCHANGED <<sequenceMap, reader, packet>>,
         \A r \in Rooms : buffers'[r] \subseteq buffers[r]
  PROVE  QuietReaders
  BY DEF QuietReaders

LEMMA QuietMessage ==
  ASSUME TypeInv, NEW c \in Conns, HandleMessage(c)
  PROVE  QuietReaders
<1>1. reader \in [Conns -> ReaderStates] /\ packet \in [Conns -> Message]
  BY DEF TypeInv, PumpTypeOK
<1>2. UNCHANGED bufferVars /\ reader[c] = "read"
  BY DEF HandleMessage, StartTalking, TalkRejected, StopTalking, HandleJoinRoom, HandleLeaveRoom,
     ReplayRefused, RequestReplay, NothingToReplay, ReadCounted, ReadMessage
<1>3. \A d \in Conns \ {c} : reader'[d] = reader[d] /\ packet'[d] = packet[d]
  BY <1>1 DEF HandleMessage, StartTalking, TalkRejected, StopTalking, HandleJoinRoom,
     HandleLeaveRoom, ReplayRefused, RequestReplay, NothingToReplay, Goto
<1>4. reader'[c] = "relay" => packet'[c].seq = 0
  BY <1>1, <1>2 DEF HandleMessage, StartTalking, TalkRejected, StopTalking, HandleJoinRoom,
     HandleLeaveRoom, ReplayRefused, RequestReplay, NothingToReplay, Goto, Packet
<1> QED
  BY <1>2, <1>3, <1>4, OneReaderQuiet

LEMMA QuietReader ==
  ASSUME TypeInv, NEW c \in Conns, ReaderStep(c), ~RelayPacket(c),
         ~\E n \in Sizes : BufferAudio(c, n)
  PROVE  QuietReaders
<1>1. reader \in [Conns -> ReaderStates] /\ packet \in [Conns -> Message]
  BY DEF TypeInv, PumpTypeOK
<1>2. UNCHANGED bufferVars /\ reader[c] # "relay"
  BY DEF ReaderStep, RegisterClient, StartPumps, ReplayNext, ReplayTruncated, ReplayDone,
     ReleaseVoice, VoiceReleased, UnregisterClient
<1>3. \A d \in Conns \ {c} : reader'[d] = reader[d] /\ packet'[d] = packet[d]
  BY <1>1 DEF ReaderStep, RegisterClient, StartPumps, ReplayNext, ReplayTruncated, ReplayDone,
     ReleaseVoice, VoiceReleased, UnregisterClient, EndReplay, Goto
<1>4. reader'[c] # "relay"
  BY <1>1, <1>2 DEF ReaderStep, RegisterClient, StartPumps, ReplayNext, ReplayTruncated, ReplayDone,
     ReleaseVoice, VoiceReleased, UnregisterClient, EndReplay, Goto
<1> QED
  BY <1>2, <1>3, <1>4, OneReaderQuiet

LEMMA ReadersSteps ==
  ASSUME TypeInv, [Next]_vars
  PROVE  \/ QuietReaders
         \/ \E c \in Conns : RelayPacket(c) \/ \E n \in Sizes : BufferAudio(c, n)
<1>1. reader \in [Conns -> ReaderStates] /\ packet \in [Conns -> Message]
  BY DEF TypeInv, PumpTypeOK
<1>2. ASSUME NEW c \in Conns, Connect(c) \/ ReadFails(c)
      PROVE  QuietReaders
  <2>1. /\ UNCHANGED bufferVars /\ reader[c] # "relay" /\ reader'[c] # "relay"
        /\ \A d \in Conns \ {c} : reader'[d] = reader[d] /\ packet'[d] = packet[d]
    BY <1>1, <1>2 DEF Connect, ReadFails, Goto
  <2> QED
    BY <2>1, OneReaderQuiet
<1>3. ASSUME NEW c \in Conns, Disconnect(c) \/ WriteFails(c) \/ WriterStep(c)
      PROVE  QuietReaders
  BY <1>3, AllReadersQuiet DEF Disconnect, WriteFails, WriterStep, WriteMessage, QueueClosed,
     EndWritePump, bufferVars
<1>4. CASE HubStep \/ ClockTick \/ UNCHANGED vars
  BY <1>4, AllReadersQuiet DEF HubStep, ClockTick, Tick, vars, pumpVars, bufferVars
<1>5. CASE CleanupBuffer
  <2>1. \A r \in Rooms : buffers'[r] \subseteq buffers[r]
    BY <1>5, CleanupSubset DEF CleanupBuffer, CleanupAllChannels
  <2> QED
    BY <1>5, <2>1, AllReadersQuiet DEF CleanupBuffer, CleanupAllChannels, pumpVars
<1> QED
  BY <1>2, <1>3, <1>4, <1>5, QuietMessage, QuietReader DEF Next
(***************************************************************************)
(* What the steps do to the packets on their way.                          *)
(***************************************************************************)
LEMMA WayQuiet ==
  ASSUME TypeInv, QuietReaders, Stream' = Stream
  PROVE  /\ OnTheirWay \subseteq OnTheirWay'
         /\ \A m \in OnTheirWay' : m \in OnTheirWay \/ m.seq = 0
  BY DEF QuietReaders, OnTheirWay

LEMMA WayRelayed ==
  ASSUME TypeInv, QuietReaders, Relay
  PROVE  /\ OnTheirWay \subseteq OnTheirWay' \cup {hubTask.message}
         /\ \A m \in OnTheirWay' : m \in OnTheirWay \/ m.seq = 0
         /\ hubTask.message \in OnTheirWay
<1>1. /\ Stream \in Seq(Message) /\ Len(Stream) > 0
      /\ Stream' = Tail(Stream) /\ Stream[1] = hubTask.message
  BY StreamTypes, StreamRelayed
<1>2. DOMAIN Stream' = 1 .. Len(Stream) - 1 /\ \A i \in DOMAIN Stream' : Stream'[i] = Stream[i + 1]
  BY <1>1
<1>3. DOMAIN Stream = 1 .. Len(Stream) /\ Len(Stream) \in Nat
  BY <1>1
<1>4. \A i \in DOMAIN Stream : i = 1 \/ (Stream[i] = Stream'[i - 1] /\ i - 1 \in DOMAIN Stream')
  BY <1>1, <1>2, <1>3
<1>5. \A i \in DOMAIN Stream' : i + 1 \in DOMAIN Stream
  BY <1>2, <1>3
<1>6. {Stream[i] : i \in DOMAIN Stream}
        \subseteq {Stream'[i] : i \in DOMAIN Stream'} \cup {hubTask.message}
  BY <1>1, <1>4
<1>7. {Stream'[i] : i \in DOMAIN Stream'} \subseteq {Stream[i] : i \in DOMAIN Stream}
  BY <1>2, <1>5
<1>8. hubTask.message \in {Stream[i] : i \in DOMAIN Stream}
  BY <1>1, <1>3
<1> QED
  BY <1>6, <1>7, <1>8 DEF QuietReaders, OnTheirWay

(* A goroutine hands its packet to the hub.                                *)
LEMMA WaySent ==
  ASSUME TypeInv, NEW c \in Conns, RelayPacket(c)
  PROVE  OnTheirWay' = OnTheirWay
<1>1. /\ packet[c] \in Message /\ reader \in [Conns -> ReaderStates] /\ packet \in [Conns -> Message]
      /\ Stream \in Seq(Message)
  BY PumpFacts, StreamTypes DEF TypeInv, PumpTypeOK
<1>2. Stream' = Append(Stream, packet[c])
  BY <1>1, StreamGrown DEF RelayPacket
<1>3. {Stream'[i] : i \in DOMAIN Stream'} = {Stream[i] : i \in DOMAIN Stream} \cup {packet[c]}
  <2>1. /\ DOMAIN Stream' = 1 .. Len(Stream) + 1 /\ DOMAIN Stream = 1 .. Len(Stream)
        /\ Stream'[Len(Stream) + 1] = packet[c]
        /\ \A i \in DOMAIN Stream : Stream'[i] = Stream[i]
        /\ Len(Stream) \in Nat
    BY <1>1, <1>2, AppendItems
  <2>2. DOMAIN Stream' = DOMAIN Stream \cup {Len(Stream) + 1}
    BY <2>1
  <2> QED
    BY <2>1, <2>2
<1>4. /\ reader[c] = "relay" /\ reader'[c] = "read"
      /\ \A d \in Conns \ {c} : reader'[d] = reader[d] /\ packet'[d] = packet[d]
  BY <1>1 DEF RelayPacket, Goto
<1>5. {packet[d] : d \in {e \in Conns : reader[e] = "relay"}}
        = {packet'[d] : d \in {e \in Conns : reader'[e] = "relay"}} \cup {packet[c]}
  BY <1>4
<1> QED
  BY <1>3, <1>5 DEF OnTheirWay

(* A chunk gets its number.                                                *)
LEMMA WayNumbered ==
  ASSUME TypeInv, NEW c \in Conns, NEW n \in Sizes, BufferAudio(c, n)
  PROVE  /\ OnTheirWay' = OnTheirWay \cup {packet'[c]}
         /\ Stream' = Stream
         /\ packet'[c].room = packet[c].room /\ packet'[c].sender = packet[c].sender
         /\ packet'[c].kind = packet[c].kind
         /\ packet'[c].seq = sequenceMap[packet[c].room] + 1
         /\ reader[c] = "buffer" /\ reader'[c] = "relay"
         /\ \A d \in Conns \ {c} : reader'[d] = reader[d] /\ packet'[d] = packet[d]
<1>1. /\ packet[c] \in Message /\ reader \in [Conns -> ReaderStates] /\ packet \in [Conns -> Message]
  BY PumpFacts DEF TypeInv, PumpTypeOK
<1>2. Stream' = Stream
  BY DEF BufferAudio, hubVars, Stream
<1>3. /\ packet'[c].room = packet[c].room /\ packet'[c].sender = packet[c].sender
      /\ packet'[c].kind = packet[c].kind
      /\ packet'[c].seq = sequenceMap[packet[c].room] + 1
  BY <1>1 DEF BufferAudio, Message
<1>4. /\ reader[c] = "buffer" /\ reader'[c] = "relay"
      /\ \A d \in Conns \ {c} : reader'[d] = reader[d] /\ packet'[d] = packet[d]
  BY <1>1 DEF BufferAudio, Goto
<1>5. {packet'[d] : d \in {e \in Conns : reader'[e] = "relay"}}
        = {packet[d] : d \in {e \in Conns : reader[e] = "relay"}} \cup {packet'[c]}
  BY <1>4
<1> QED
  BY <1>2, <1>3, <1>4, <1>5 DEF OnTheirWay
(***************************************************************************)
(* The packets on their way carry numbers given out in their room, 0 for   *)
(* none.                                                                   *)
(***************************************************************************)
NumberInv == \A m \in OnTheirWay : m.seq <= sequenceMap[m.room]

WayTypeOK ==
  \A m \in OnTheirWay :
    m \in Message /\ m.room \in Rooms /\ m.seq \in Nat /\ sequenceMap[m.room] \in Nat

LEMMA WayTypes == TypeInv => WayTypeOK
<1> SUFFICES ASSUME TypeInv, NEW m \in OnTheirWay
             PROVE  m \in Message /\ m.room \in Rooms /\ m.seq \in Nat /\ sequenceMap[m.room] \in Nat
  BY DEF WayTypeOK
<1>1. Stream \in Seq(Message) /\ \A d \in Conns : packet[d] \in Message
  BY StreamTypes, PumpFacts
<1>2. m \in Message
  BY <1>1 DEF OnTheirWay
<1>3. m.room \in Rooms /\ m.seq \in Nat
  BY <1>2, HubAssumption DEF Message, HubAssumption
<1> QED
  BY <1>2, <1>3, BufferAssumption DEF BufferAssumption, TypeInv, BufferInv, BufferTypeOK

LEMMA WayTypesNext == TypeInv /\ [Next]_vars => WayTypeOK'
<1>1. TypeInv' => WayTypeOK'
  BY WayTypes, PTL
<1> QED
  BY <1>1, StepTypes

LEMMA EmptyWay == Init => OnTheirWay = {} /\ Stream = << >>
<1> SUFFICES ASSUME Init PROVE OnTheirWay = {} /\ Stream = << >>
  OBVIOUS
<1>1. Stream = << >>
  BY DEF Init, HubInit, Stream, Idle
<1> QED
  BY <1>1 DEF Init, OnTheirWay

(* How a step changes what is on its way: nothing numbered is added, or a  *)
(* chunk that just got its number; nothing is taken but what was relayed.  *)
LEMMA WaySteps ==
  ASSUME TypeInv, [Next]_vars
  PROVE  \/ /\ QuietReaders
            /\ \A m \in OnTheirWay' : m \in OnTheirWay \/ m.seq = 0
            /\ \/ OnTheirWay \subseteq OnTheirWay'
               \/ /\ Relay /\ HubStep
                  /\ OnTheirWay \subseteq OnTheirWay' \cup {hubTask.message}
         \/ /\ UNCHANGED bufferVars /\ OnTheirWay' = OnTheirWay
            /\ \E c \in Conns : RelayPacket(c)
         \/ \E c \in Conns, n \in Sizes : BufferAudio(c, n)
<1>1. CASE \E c \in Conns : RelayPacket(c)
  BY <1>1, WaySent DEF RelayPacket
<1>2. CASE QuietReaders /\ Relay /\ HubStep
  BY <1>2, WayRelayed
<1>3. CASE QuietReaders /\ Stream' = Stream
  BY <1>3, WayQuiet
<1> QED
  BY <1>1, <1>2, <1>3, ReadersSteps, StreamSteps

LEMMA NumberStep == TypeInv /\ NumberInv /\ [Next]_vars => NumberInv'
<1> SUFFICES ASSUME TypeInv, NumberInv, [Next]_vars
             PROVE  NumberInv'
  OBVIOUS
<1>1. WayTypeOK /\ WayTypeOK'
  BY WayTypes, WayTypesNext
<1>2. ASSUME sequenceMap' = sequenceMap, \A m \in OnTheirWay' : m \in OnTheirWay \/ m.seq = 0
      PROVE  NumberInv'
  BY <1>1, <1>2 DEF NumberInv, WayTypeOK
<1>3. ASSUME NEW c \in Conns, NEW n \in Sizes, BufferAudio(c, n)
      PROVE  NumberInv'
  <2>1. /\ OnTheirWay' = OnTheirWay \cup {packet'[c]} /\ packet'[c].room = packet[c].room
        /\ packet'[c].seq = sequenceMap[packet[c].room] + 1
    BY <1>3, WayNumbered
  <2>2. /\ packet[c].room \in Rooms /\ sequenceMap \in [Rooms -> Nat]
        /\ sequenceMap' = [sequenceMap EXCEPT ![packet[c].room] = @ + 1]
    BY <1>3, PumpFacts, BufferAssumption
    DEF BufferAssumption, BufferAudio, AddMessage, TypeInv, BufferInv, BufferTypeOK
  <2> QED
    BY <1>1, <2>1, <2>2 DEF NumberInv, WayTypeOK
<1> QED
  BY <1>2, <1>3, WaySteps DEF QuietReaders, bufferVars

LEMMA Numbers == Spec => []NumberInv
<1>1. Init => NumberInv
  BY EmptyWay DEF NumberInv
<1>2. Spec => Init /\ []TypeInv /\ [][Next]_vars
  BY TypeInvariant, PTL DEF Spec
<1> QED
  BY <1>1, <1>2, NumberStep, PTL

-----------------------------------------------------------------------------
(***************************************************************************)
(* The order of the relay.  A chunk is numbered above all that is on its   *)
(* way, and as long as one goroutine talks to a room at a time, it is      *)
(* queued before the next one is numbered.                                 *)
(***************************************************************************)
LEMMA OrderBuffered ==
  ASSUME TypeInv, NumberInv, RelayOrder, NEW c \in Conns, NEW n \in Sizes, BufferAudio(c, n)
  PROVE  RelayOrder'
<1>1. /\ Stream' = Stream
      /\ packet'[c].room = packet[c].room /\ packet'[c].seq = sequenceMap[packet[c].room] + 1
      /\ \A d \in Conns \ {c} : reader'[d] = reader[d] /\ packet'[d] = packet[d]
  BY WayNumbered
<1>2. \A i \in DOMAIN Stream : InOrder(Stream[i], packet'[c])
  <2> TAKE i \in DOMAIN Stream
  <2>1. Stream[i].seq <= sequenceMap[Stream[i].room]
    BY DEF NumberInv, OnTheirWay
  <2>2. Stream[i].seq \in Nat /\ sequenceMap[Stream[i].room] \in Nat
    BY WayTypes DEF WayTypeOK, OnTheirWay
  <2> QED
    BY <1>1, <2>1, <2>2 DEF InOrder
<1> QED
  BY <1>1, <1>2 DEF RelayOrder, InOrder, Sequenced

LEMMA OrderSent ==
  ASSUME OneConnectionEach, TypeInv, TalkerInv, RelayOrder, NEW c \in Conns, RelayPacket(c)
  PROVE  RelayOrder'
<1>1. /\ packet[c] \in Message /\ reader \in [Conns -> ReaderStates] /\ packet \in [Conns -> Message]
      /\ Stream \in Seq(Message)
  BY PumpFacts, StreamTypes DEF TypeInv, PumpTypeOK
<1>2. Stream' = Append(Stream, packet[c])
  BY <1>1, StreamGrown DEF RelayPacket
<1>3. /\ DOMAIN Stream' = 1 .. Len(Stream) + 1 /\ DOMAIN Stream = 1 .. Len(Stream)
      /\ Stream'[Len(Stream) + 1] = packet[c] /\ Len(Stream) \in Nat
      /\ \A i \in DOMAIN Stream : Stream'[i] = Stream[i]
  BY <1>1, <1>2, AppendItems
<1>4. /\ reader[c] = "relay" /\ reader'[c] = "read"
      /\ \A d \in Conns \ {c} : reader'[d] = reader[d] /\ packet'[d] = packet[d]
  BY <1>1 DEF RelayPacket, Goto
<1>5. ASSUME NEW d \in Conns, reader'[d] = "relay"
      PROVE  InOrder(packet[c], packet[d])
  <2>1. d # c /\ reader[d] = "relay"
    BY <1>4, <1>5
  <2> SUFFICES ASSUME Sequenced(packet[c]), Sequenced(packet[d]), packet[c].room = packet[d].room
               PROVE  FALSE
    BY DEF InOrder
  <2>2. Talking(c) /\ Talking(d)
    BY <1>4, <2>1 DEF Sequenced, Talking
  <2> QED
    BY <2>1, <2>2 DEF TalkerInv, HoldsFloor, OneConnectionEach
<1>6. ASSUME NEW i \in DOMAIN Stream', NEW j \in DOMAIN Stream', i < j
      PROVE  InOrder(Stream'[i], Stream'[j])
  <2>1. i \in DOMAIN Stream
    BY <1>3, <1>6
  <2>2. j \in DOMAIN Stream \/ j = Len(Stream) + 1
    BY <1>3
  <2> QED
    BY <1>3, <1>4, <1>6, <2>1, <2>2 DEF RelayOrder
<1>7. ASSUME NEW d \in Conns, reader'[d] = "relay", NEW i \in DOMAIN Stream'
      PROVE  InOrder(Stream'[i], packet'[d])
  <2>1. i \in DOMAIN Stream \/ i = Len(Stream) + 1
    BY <1>3
  <2>2. reader[d] = "relay" /\ packet'[d] = packet[d]
    BY <1>4, <1>7
  <2> QED
    BY <1>3, <1>5, <1>7, <2>1, <2>2 DEF RelayOrder
<1> QED
  BY <1>6, <1>7 DEF RelayOrder, InOrder, Sequenced

LEMMA OrderQuiet ==
  ASSUME TypeInv, RelayOrder, QuietReaders, Stream' = Stream \/ Relay
  PROVE  RelayOrder'
<1>1. CASE Stream' = Stream
  BY <1>1 DEF RelayOrder, QuietReaders, InOrder, Sequenced
<1>2. CASE Relay
  <2>1. Stream \in Seq(Message) /\ Stream' = Tail(Stream) /\ Len(Stream) > 0
    BY <1>2, StreamTypes, StreamRelayed
  <2>2. \A i \in DOMAIN Stream' :
          i \in Nat /\ i + 1 \in DOMAIN Stream /\ Stream'[i] = Stream[i + 1]
    BY <2>1
  <2>3. ASSUME NEW i \in DOMAIN Stream', NEW j \in DOMAIN Stream', i < j
        PROVE  InOrder(Stream'[i], Stream'[j])
    <3>1. i + 1 < j + 1 /\ i + 1 \in DOMAIN Stream /\ j + 1 \in DOMAIN Stream
      BY <2>2, <2>3
    <3>2. InOrder(Stream[i + 1], Stream[j + 1])
      BY <3>1 DEF RelayOrder
    <3> QED
      BY <2>2, <3>2
  <2> QED
    BY <2>2, <2>3 DEF RelayOrder, QuietReaders, InOrder, Sequenced
<1> QED
  BY <1>1, <1>2

LEMMA OrderStep ==
  OneConnectionEach /\ TypeInv /\ NumberInv /\ TalkerInv /\ RelayOrder /\ [Next]_vars => RelayOrder'
<1> SUFFICES ASSUME OneConnectionEach, TypeInv, NumberInv, TalkerInv, RelayOrder, [Next]_vars
             PROVE  RelayOrder'
  OBVIOUS
<1>1. CASE QuietReaders /\ (Stream' = Stream \/ Relay)
  BY <1>1, OrderQuiet
<1>2. CASE \E c \in Conns : RelayPacket(c)
  BY <1>2, OrderSent
<1>3. CASE \E c \in Conns, n \in Sizes : BufferAudio(c, n)
  BY <1>3, OrderBuffered
<1> QED
  BY <1>1, <1>2, <1>3, ReadersSteps, StreamSteps

(***************************************************************************)
(* As long as no user has two connections, every room is sent its chunks   *)
(* in the order of their sequences, whatever the queues and the rooms.     *)
(***************************************************************************)
THEOREM RelayOrderTheorem ==
  ASSUME OneConnectionEach
  PROVE  Spec => []RelayOrder
<1>1. Spec => Init /\ []TypeInv /\ [][Next]_vars
  BY TypeInvariant, PTL DEF Spec
<1>2. Init => RelayOrder
  BY EmptyWay DEF Init, RelayOrder
<1>3. TypeInv /\ TalkerInv /\ [Next]_vars => TalkerInv'
  BY OneConnectionEach, TalkerStep
<1>4. TypeInv /\ NumberInv /\ TalkerInv /\ RelayOrder /\ [Next]_vars => RelayOrder'
  BY OneConnectionEach, OrderStep
<1> QED
  BY <1>1, <1>2, <1>3, <1>4, Numbers, TalkerInit, PTL
-----------------------------------------------------------------------------
(***************************************************************************)
(* No gap between the replay and the live audio.  The queue of a client    *)
(* that stays in its room gets whatever the hub relays to the room, but    *)
(* its own; what is not relayed yet is on its way; and what was on neither *)
(* when the replay began was in the buffer, from which the replay is made. *)
(***************************************************************************)
\* The buffer and the packets on their way agree on who said what.
SpeakersInv ==
  /\ \A d \in Conns : packet[d].sender = d
  /\ \A r \in Rooms : \A e \in buffers[r] : ~e.replayed
  /\ \A m \in OnTheirWay : m.seq > 0 =>
       \A e \in buffers[m.room] : e.seq = m.seq => e.user = UserOf[m.sender]

\* A client of the app that has joined its room is a member, or was dropped.
StaysIn ==
  \A c \in Conns \ Roaming :
    Channel[c] \in joined[c] => c \in closed \/ c \in members[Channel[c]]

\* Only who is in the room gets a replay of it.
ReplaysIn ==
  \A c \in Conns \ Roaming :
    /\ caughtUp[c] # {} => Channel[c] \in joined[c]
    /\ reader[c] = "replay" => Channel[c] \in joined[c] /\ packet[c].room = Channel[c]

\* What somebody else said in the room of c.
Others(c) == {m \in buffers[Channel[c]] : m.user # UserOf[c]}

\* During a replay, the same holds of what is still to be sent.
ReplayCovers ==
  \A c \in Conns \ (closed \cup Roaming) : reader[c] = "replay" =>
    \A m \in Others(c) : m.seq > packet[c].seq => m.seq \in Reaching(c) \cup toReplay[c]

GapInv == SpeakersInv /\ StaysIn /\ ReplaysIn /\ ReplayCovers /\ NoReplayGap

LEMMA GapInit == Init => GapInv
<1> SUFFICES ASSUME Init PROVE GapInv
  OBVIOUS
<1>1. SpeakersInv
  BY EmptyWay DEF Init, BufferInit, SpeakersInv, Blank, Packet
<1>2. StaysIn /\ ReplaysIn /\ ReplayCovers
  BY RelayAssumption
  DEF RelayAssumption, Init, HubInit, StaysIn, ReplaysIn, ReplayCovers
<1>3. NoReplayGap
  BY DEF Init, NoReplayGap
<1> QED
  BY <1>1, <1>2, <1>3 DEF GapInv

LEMMA SpeakersNumbered ==
  ASSUME TypeInv, NumberInv, SpeakersInv, NEW c \in Conns, NEW n \in Sizes, BufferAudio(c, n)
  PROVE  SpeakersInv'
<1> DEFINE r == packet[c].room
           e == NewEntry(r, UserOf[c], n)
<1>1. /\ OnTheirWay' = OnTheirWay \cup {packet'[c]}
      /\ packet'[c].room = r /\ packet'[c].sender = packet[c].sender
      /\ packet'[c].seq = sequenceMap[r] + 1
      /\ \A d \in Conns \ {c} : packet'[d] = packet[d]
  BY WayNumbered
<1>2. /\ r \in Rooms /\ buffers \in [Rooms -> SUBSET Entry] /\ sequenceMap[r] \in Nat
      /\ \A m \in buffers[r] : m.seq <= sequenceMap[r] /\ m.seq \in Nat
  BY PumpFacts, BufferAssumption
  DEF BufferAssumption, TypeInv, BufferInv, BufferTypeOK, SequencesGivenOut
<1>3. \A q \in Rooms : q # r => buffers'[q] = buffers[q]
  BY <1>2 DEF BufferAudio, AddMessage
<1>4. buffers'[r] \subseteq buffers[r] \cup {e}
  BY <1>2, CleanupSubset DEF BufferAudio, AddMessage
<1>5. e.seq = sequenceMap[r] + 1 /\ e.user = UserOf[c] /\ ~e.replayed
  BY DEF NewEntry
<1> HIDE DEF r, e
<1>6. \A d \in Conns : packet'[d].sender = d
  BY <1>1 DEF SpeakersInv
<1>7. \A q \in Rooms : \A m \in buffers'[q] : ~m.replayed
  BY <1>3, <1>4, <1>5 DEF SpeakersInv
<1>8. ASSUME NEW m \in OnTheirWay', m.seq > 0, NEW k \in buffers'[m.room], k.seq = m.seq
      PROVE  k.user = UserOf[m.sender]
  <2>1. CASE m = packet'[c]
    <3>1. k \notin buffers[r]
      BY <1>1, <1>2, <1>8, <2>1
    <3> QED
      BY <1>1, <1>4, <1>5, <1>6, <1>8, <2>1, <3>1
  <2>2. CASE m \in OnTheirWay
    <3>1. m.room \in Rooms /\ m.seq \in Nat /\ sequenceMap[m.room] \in Nat
          /\ m.seq <= sequenceMap[m.room]
      BY <2>2, WayTypes DEF WayTypeOK, NumberInv
    <3>2. k \in buffers[m.room]
      BY <1>3, <1>4, <1>5, <1>8, <3>1
    <3> QED
      BY <1>8, <2>2, <3>2 DEF SpeakersInv
  <2> QED
    BY <1>1, <1>8, <2>1, <2>2
<1> QED
  BY <1>6, <1>7, <1>8 DEF SpeakersInv

(* A goroutine only ever handles packets of its own client.                *)
LEMMA SendersKept ==
  ASSUME TypeInv, SpeakersInv, [Next]_vars
  PROVE  \A d \in Conns : packet'[d].sender = d
<1>1. packet \in [Conns -> Message] /\ \A d \in Conns : packet[d].sender = d
  BY DEF TypeInv, PumpTypeOK, SpeakersInv
<1>2. CASE UNCHANGED packet
  BY <1>1, <1>2
<1>3. ASSUME NEW c \in Conns, HandleMessage(c)
      PROVE  \A d \in Conns : packet'[d].sender = d
  BY <1>1, <1>3 DEF HandleMessage, StartTalking, TalkRejected, StopTalking, HandleJoinRoom,
     HandleLeaveRoom, ReplayRefused, RequestReplay, NothingToReplay, Packet
<1>4. ASSUME NEW c \in Conns, NEW n \in Sizes, BufferAudio(c, n)
      PROVE  \A d \in Conns : packet'[d].sender = d
  BY <1>1, <1>4, WayNumbered
<1>5. ASSUME NEW c \in Conns, ReaderStep(c), ~\E n \in Sizes : BufferAudio(c, n)
      PROVE  \A d \in Conns : packet'[d].sender = d
  <2>1. CASE packet' = [packet EXCEPT ![c] = Blank(c)]
    BY <1>1, <2>1 DEF Blank, Packet
  <2>2. ASSUME RelayPacket(c) \/ ReplayTruncated(c) \/ ReplayDone(c)
        PROVE  packet' = [packet EXCEPT ![c] = Blank(c)]
    BY <2>2 DEF RelayPacket, ReplayTruncated, ReplayDone, EndReplay
  <2>3. ASSUME \/ RegisterClient(c) \/ StartPumps(c) \/ VoiceReleased(c) \/ UnregisterClient(c)
               \/ \E seq \in toReplay[c] : ReplayNext(c, seq)
               \/ \E r \in toRelease[c] : ReleaseVoice(c, r)
        PROVE  UNCHANGED packet
    BY <2>3 DEF RegisterClient, StartPumps, VoiceReleased, UnregisterClient, ReplayNext, ReleaseVoice
  <2> QED
    BY <1>2, <1>5, <2>1, <2>2, <2>3 DEF ReaderStep
<1>6. ASSUME NEW c \in Conns,
             Connect(c) \/ Disconnect(c) \/ WriteFails(c) \/ ReadFails(c) \/ WriterStep(c)
      PROVE  UNCHANGED packet
  BY <1>6 DEF Connect, Disconnect, WriteFails, EndWritePump, ReadFails, WriterStep, WriteMessage,
     QueueClosed
<1>7. CASE HubStep \/ CleanupBuffer \/ ClockTick \/ UNCHANGED vars
  BY <1>2, <1>7 DEF HubStep, CleanupBuffer, ClockTick, vars, pumpVars
<1> QED
  BY <1>2, <1>3, <1>4, <1>5, <1>6, <1>7 DEF Next

LEMMA SpeakersStep ==
  ASSUME TypeInv, NumberInv, SpeakersInv, [Next]_vars
  PROVE  SpeakersInv'
<1>1. ASSUME \A r \in Rooms : buffers'[r] \subseteq buffers[r],
             \A m \in OnTheirWay' : m \in OnTheirWay \/ m.seq = 0
      PROVE  SpeakersInv'
  <2>1. \A d \in Conns : packet'[d].sender = d
    BY SendersKept
  <2>2. \A r \in Rooms : \A e \in buffers'[r] : ~e.replayed
    BY <1>1 DEF SpeakersInv
  <2>3. ASSUME NEW m \in OnTheirWay', m.seq > 0, NEW e \in buffers'[m.room], e.seq = m.seq
        PROVE  e.user = UserOf[m.sender]
    <3>1. m \in OnTheirWay
      BY <1>1, <2>3
    <3>2. e \in buffers[m.room]
      BY <1>1, <2>3, <3>1, WayTypes DEF WayTypeOK
    <3> QED
      BY <2>3, <3>1, <3>2 DEF SpeakersInv
  <2> QED
    BY <2>1, <2>2, <2>3 DEF SpeakersInv
<1>2. CASE \E c \in Conns, n \in Sizes : BufferAudio(c, n)
  BY <1>2, SpeakersNumbered
<1> QED
  BY <1>1, <1>2, WaySteps DEF QuietReaders, bufferVars
LEMMA StaysStep ==
  ASSUME TypeInv, StaysIn, [Next]_vars
  PROVE  StaysIn'
<1>1. HubTypeOK /\ PumpTypeOK /\ \A c \in Conns : Channel[c] \in Rooms
  BY PumpFacts DEF TypeInv
<1>2. CASE UNCHANGED <<joined, members, closed>>
  BY <1>2 DEF StaysIn
<1>3. ASSUME NEW c \in Conns, NEW r \in Rooms, JoinRoom(c, r)
      PROVE  StaysIn'
  BY <1>1, <1>3 DEF JoinRoom, HubTypeOK, StaysIn
<1>4. ASSUME NEW c \in Conns, NEW r \in Named(c), HandleLeaveRoom(c, r)
      PROVE  StaysIn'
  BY <1>1, <1>4 DEF HandleLeaveRoom, LeaveRoom, Named, HubTypeOK, StaysIn
<1>5. ASSUME NEW c \in Conns, HandleMessage(c)
      PROVE  StaysIn'
  <2>1. PICK r \in Named(c) :
          \/ \E buffered \in BOOLEAN : StartTalking(c, r, buffered)
          \/ TalkRejected(c, r) \/ StopTalking(c, r)
          \/ HandleJoinRoom(c, r) \/ HandleLeaveRoom(c, r) \/ ReplayRefused(c, r)
          \/ \E since \in Since : RequestReplay(c, r, since) \/ NothingToReplay(c, r, since)
    BY <1>5 DEF HandleMessage
  <2>2. CASE HandleJoinRoom(c, r)
    BY <1>3, <2>2, MessageTypes DEF HandleJoinRoom
  <2>3. CASE ~HandleJoinRoom(c, r) /\ ~HandleLeaveRoom(c, r)
    BY <1>2, <2>1, <2>3 DEF StartTalking, TalkRejected, StopTalking, ReplayRefused, RequestReplay,
       NothingToReplay, hubVars
  <2> QED
    BY <1>4, <2>2, <2>3
<1>6. ASSUME NEW c \in Conns, ReaderStep(c)
      PROVE  StaysIn'
  <2>1. CASE StartPumps(c)
    BY <1>1, <1>3, <2>1 DEF StartPumps
  <2>2. CASE ~StartPumps(c)
    BY <1>2, <1>6, <2>2 DEF ReaderStep, RegisterClient, AcceptRegister, BufferAudio, RelayPacket,
       BroadcastToRoom, ReplayNext, SafeSend, ReplayTruncated, ReplayDone, ReleaseVoice,
       VoiceReleased, UnregisterClient, AcceptUnregister, hubVars
  <2> QED
    BY <2>1, <2>2
<1>7. ASSUME NEW c \in Conns,
             Connect(c) \/ Disconnect(c) \/ WriteFails(c) \/ ReadFails(c) \/ WriterStep(c)
      PROVE  StaysIn'
  BY <1>2, <1>7 DEF Connect, Disconnect, WriteFails, EndWritePump, ReadFails, WriterStep,
     WriteMessage, Receive, QueueClosed, hubVars
<1>8. ASSUME NEW c \in Conns, Unregister(c)
      PROVE  StaysIn'
  <2>1. CASE c \in clients
    <3>1. /\ joined' = joined /\ closed' = closed \cup {c}
          /\ \A r \in Rooms : members[r] \ {c} \subseteq members'[r]
      BY <1>1, <1>8, <2>1 DEF Unregister, Forget, HubTypeOK
    <3> QED
      BY <1>1, <3>1 DEF StaysIn
  <2>2. CASE c \notin clients
    BY <1>2, <1>8, <2>2 DEF Unregister
  <2> QED
    BY <2>1, <2>2
<1>9. CASE Relay
  <2> DEFINE m == hubTask.message
             slow == {c \in Recipients(m) : Full(c)}
  <2>1. /\ members' = [members EXCEPT ![m.room] = @ \ slow]
        /\ closed' = closed \cup slow /\ joined' = joined
    BY <1>9 DEF Relay
  <2> HIDE DEF m, slow
  <2> QED
    BY <1>1, <2>1 DEF HubTypeOK, StaysIn
<1>10. CASE \/ \E c \in Conns : Register(c) \/ UnregisterPanics(c)
            \/ TakeBroadcast \/ RelayPanics \/ CleanupBuffer \/ ClockTick \/ UNCHANGED vars
  BY <1>2, <1>10 DEF Register, UnregisterPanics, Panic, TakeBroadcast, RelayPanics, CleanupBuffer,
     ClockTick, vars, hubVars
<1> QED
  BY <1>5, <1>6, <1>7, <1>8, <1>9, <1>10 DEF Next, HubStep
(* What a client of the app has joined it has joined for good.             *)
LEMMA JoinedKept ==
  ASSUME TypeInv, [Next]_vars, NEW c \in Conns \ Roaming
  PROVE  joined[c] \subseteq joined'[c]
<1>1. joined \in [Conns -> SUBSET Rooms]
  BY DEF TypeInv, HubTypeOK
<1>2. ASSUME NEW d \in Conns, HandleMessage(d)
      PROVE  joined[c] \subseteq joined'[c]
  BY <1>1, <1>2 DEF HandleMessage, StartTalking, TalkRejected, StopTalking, HandleJoinRoom, JoinRoom,
     HandleLeaveRoom, LeaveRoom, ReplayRefused, RequestReplay, NothingToReplay, hubVars
<1>3. ASSUME NEW d \in Conns, ReaderStep(d)
      PROVE  joined[c] \subseteq joined'[c]
  BY <1>1, <1>3 DEF ReaderStep, RegisterClient, AcceptRegister, StartPumps, JoinRoom, BufferAudio,
     RelayPacket, BroadcastToRoom, ReplayNext, SafeSend, ReplayTruncated, ReplayDone, ReleaseVoice,
     VoiceReleased, UnregisterClient, AcceptUnregister, hubVars
<1>4. ASSUME NEW d \in Conns,
             Connect(d) \/ Disconnect(d) \/ WriteFails(d) \/ ReadFails(d) \/ WriterStep(d)
      PROVE  UNCHANGED joined
  BY <1>4 DEF Connect, Disconnect, WriteFails, EndWritePump, ReadFails, WriterStep, WriteMessage,
     Receive, QueueClosed, hubVars
<1>5. CASE HubStep \/ CleanupBuffer \/ ClockTick \/ UNCHANGED vars
  BY <1>5 DEF HubStep, Register, Unregister, UnregisterPanics, TakeBroadcast, Relay, RelayPanics,
     Panic, CleanupBuffer, ClockTick, vars, hubVars
<1> QED
  BY <1>2, <1>3, <1>4, <1>5 DEF Next

-----------------------------------------------------------------------------
(* What the queue of a client, and its socket, have got.                   *)
SeqsOf(q) == {q[i].seq : i \in DOMAIN q}

Delivered(c) == heard[c] \cup SeqsOf(send[c])

LEMMA ReachingParts == \A c \in Conns : Reaching(c) = Delivered(c) \cup Underway(Channel[c])
  BY DEF Reaching, Delivered, SeqsOf

LEMMA UnderwayItems ==
  \A r \in Rooms : \A q : q \in Underway(r) <=> \E m \in OnTheirWay : m.room = r /\ m.seq = q
  BY DEF Underway, OnTheirWay

LEMMA SeqsAppended ==
  ASSUME NEW q \in Seq(Message), NEW m \in Message
  PROVE  SeqsOf(Append(q, m)) = SeqsOf(q) \cup {m.seq}
<1>1. /\ DOMAIN Append(q, m) = DOMAIN q \cup {Len(q) + 1}
      /\ Append(q, m)[Len(q) + 1] = m
      /\ \A i \in DOMAIN q : Append(q, m)[i] = q[i]
  OBVIOUS
<1> QED
  BY <1>1 DEF SeqsOf

LEMMA SeqsTaken ==
  ASSUME NEW q \in Seq(Message), q # << >>
  PROVE  SeqsOf(q) \subseteq SeqsOf(Tail(q)) \cup {Head(q).seq}
<1>1. /\ DOMAIN Tail(q) = 1 .. Len(q) - 1 /\ DOMAIN q = 1 .. Len(q) /\ Len(q) \in Nat \ {0}
      /\ \A i \in DOMAIN Tail(q) : Tail(q)[i] = q[i + 1]
      /\ Head(q) = q[1]
  OBVIOUS
<1>2. ASSUME NEW i \in DOMAIN q, i # 1
      PROVE  i - 1 \in DOMAIN Tail(q) /\ Tail(q)[i - 1] = q[i]
  BY <1>1, <1>2
<1> QED
  BY <1>1, <1>2 DEF SeqsOf

LEMMA DeliveredKept ==
  ASSUME TypeInv, [Next]_vars, NEW c \in Conns
  PROVE  Delivered(c) \subseteq Delivered(c)'
<1>1. /\ send \in [Conns -> Seq(Message)] /\ heard \in [Conns -> SUBSET (0 .. MaxSeq)]
      /\ \A d \in Conns : packet[d] \in Message
  BY PumpFacts DEF TypeInv, HubTypeOK, PumpTypeOK
<1>2. CASE UNCHANGED <<heard, send>>
  BY <1>2 DEF Delivered
<1>3. ASSUME NEW d \in Conns, HandleMessage(d)
      PROVE  UNCHANGED <<heard, send>>
  BY <1>3 DEF HandleMessage, StartTalking, TalkRejected, StopTalking, HandleJoinRoom, JoinRoom,
     HandleLeaveRoom, LeaveRoom, ReplayRefused, RequestReplay, NothingToReplay, hubVars
<1>4. ASSUME NEW d \in Conns, NEW m \in Message, SafeSend(d, m), UNCHANGED heard
      PROVE  Delivered(c) \subseteq Delivered(c)'
  <2>1. SeqsOf(send[c]) \subseteq SeqsOf(send'[c])
    BY <1>1, <1>4, SeqsAppended DEF SafeSend
  <2> QED
    BY <1>4, <2>1 DEF Delivered
<1>5. ASSUME NEW d \in Conns, ReaderStep(d)
      PROVE  Delivered(c) \subseteq Delivered(c)'
  <2>1. ASSUME NEW seq \in toReplay[d], ReplayNext(d, seq)
        PROVE  Delivered(c) \subseteq Delivered(c)'
    <3>1. Packet(packet[d].room, "audio", seq, Replay) \in Message
      BY <1>1, <2>1, HubAssumption DEF HubAssumption, Packet, Message, TypeInv, PumpTypeOK
    <3> QED
      BY <1>4, <2>1, <3>1 DEF ReplayNext
  <2>2. CASE ReplayDone(d)
    <3>1. Packet(packet[d].room, "end", 0, Replay) \in Message
      BY <1>1, HubAssumption DEF HubAssumption, Packet, Message
    <3> QED
      BY <1>2, <1>4, <2>2, <3>1 DEF ReplayDone, hubVars
  <2>3. ASSUME ~ReplayDone(d), ~\E seq \in toReplay[d] : ReplayNext(d, seq)
        PROVE  UNCHANGED <<heard, send>>
    <3>1. ASSUME NEW n \in Sizes, BufferAudio(d, n)
          PROVE  UNCHANGED <<heard, send>>
      BY <3>1 DEF BufferAudio, hubVars
    <3>2. ASSUME NEW r \in toRelease[d], ReleaseVoice(d, r)
          PROVE  UNCHANGED <<heard, send>>
      BY <3>2 DEF ReleaseVoice, hubVars
    <3>3. ASSUME RegisterClient(d) \/ StartPumps(d) \/ RelayPacket(d)
          PROVE  UNCHANGED <<heard, send>>
      BY <3>3 DEF RegisterClient, AcceptRegister, StartPumps, JoinRoom, RelayPacket, BroadcastToRoom
    <3>4. ASSUME ReplayTruncated(d) \/ VoiceReleased(d) \/ UnregisterClient(d)
          PROVE  UNCHANGED <<heard, send>>
      BY <3>4 DEF ReplayTruncated, VoiceReleased, UnregisterClient, AcceptUnregister, hubVars
    <3> QED
      BY <1>5, <2>3, <3>1, <3>2, <3>3, <3>4 DEF ReaderStep
  <2> QED
    BY <1>2, <2>1, <2>2, <2>3
<1>6. ASSUME NEW d \in Conns, WriteMessage(d)
      PROVE  Delivered(c) \subseteq Delivered(c)'
  <2>1. CASE c = d
    <3>1. /\ send[c] # << >> /\ send'[c] = Tail(send[c])
          /\ heard'[c] = heard[c] \cup {Head(send[c]).seq}
      BY <1>1, <1>6, <2>1 DEF WriteMessage, Receive
    <3> QED
      BY <1>1, <3>1, SeqsTaken DEF Delivered
  <2>2. CASE c # d
    BY <1>1, <1>6, <2>2 DEF WriteMessage, Receive, Delivered
  <2> QED
    BY <2>1, <2>2
<1>7. ASSUME NEW d \in Conns,
             Connect(d) \/ Disconnect(d) \/ WriteFails(d) \/ ReadFails(d) \/ QueueClosed(d)
      PROVE  UNCHANGED <<heard, send>>
  BY <1>7 DEF Connect, Disconnect, WriteFails, EndWritePump, ReadFails, QueueClosed, hubVars
<1>8. CASE Relay /\ HubStep
  <2>1. hubTask.message \in Message
    BY <1>8, StreamTypes DEF Relay
  <2>2. send'[c] = Append(send[c], hubTask.message) \/ send'[c] = send[c]
    BY <1>1, <1>8 DEF Relay
  <2>3. SeqsOf(send[c]) \subseteq SeqsOf(send'[c])
    <3>1. SeqsOf(Append(send[c], hubTask.message)) = SeqsOf(send[c]) \cup {hubTask.message.seq}
      BY <1>1, <2>1, SeqsAppended
    <3> QED
      BY <2>2, <3>1
  <2> QED
    BY <1>8, <2>3 DEF Delivered, HubStep, pumpVars
<1>9. ASSUME (HubStep /\ ~Relay) \/ CleanupBuffer \/ ClockTick \/ UNCHANGED vars
      PROVE  UNCHANGED <<heard, send>>
  BY <1>9 DEF HubStep, Register, Unregister, UnregisterPanics, TakeBroadcast, RelayPanics, Panic,
     CleanupBuffer, ClockTick, vars, hubVars, pumpVars
<1> QED
  BY <1>2, <1>3, <1>5, <1>6, <1>7, <1>8, <1>9 DEF Next, WriterStep
(***************************************************************************)
(* What reaches a client goes on to reach it, and so does what is newly    *)
(* buffered, as long as the client is in the room and not dropped.         *)
(***************************************************************************)
LEMMA ReachKept ==
  ASSUME TypeInv, SpeakersInv, StaysIn, [Next]_vars,
         NEW c \in Conns \ Roaming, c \notin closed', Channel[c] \in joined[c],
         NEW m \in Others(c)'
  PROVE  m.seq \in Reaching(c)' \/ (m \in Others(c) /\ m.seq \notin Reaching(c))
<1> DEFINE r == Channel[c]
<1>1. /\ r \in Rooms /\ Delivered(c) \subseteq Delivered(c)'
      /\ Reaching(c) = Delivered(c) \cup Underway(r)
      /\ m \in buffers'[r] /\ m.user # UserOf[c]
  BY PumpFacts, DeliveredKept, ReachingParts DEF Others
<1>2. Reaching(c)' = Delivered(c)' \cup Underway(r)'
  BY DEF Reaching, Delivered, SeqsOf
<1>3. \A q : q \in Underway(r)' <=> \E k \in OnTheirWay' : k.room = r /\ k.seq = q
  BY DEF Underway, OnTheirWay
<1>4. /\ m.seq \in Nat \ {0}
  <2>1. TypeInv'
    BY StepTypes
  <2> QED
    BY <1>1, <2>1, BufferAssumption
    DEF BufferAssumption, TypeInv, BufferInv, BufferTypeOK, SequencesGivenOut
<1> HIDE DEF r
<1>5. ASSUME m \in buffers[r], OnTheirWay \subseteq OnTheirWay'
      PROVE  m \in Others(c) /\ (m.seq \in Reaching(c) => m.seq \in Reaching(c)')
  BY <1>1, <1>2, <1>3, <1>5, UnderwayItems DEF Others, r
<1>6. ASSUME m \in buffers[r], Relay, OnTheirWay \subseteq OnTheirWay' \cup {hubTask.message},
             m.seq \in Underway(r)
      PROVE  m.seq \in Reaching(c)'
  <2> DEFINE k == hubTask.message
  <2>1. PICK x \in OnTheirWay : x.room = r /\ x.seq = m.seq
    BY <1>1, <1>6, UnderwayItems
  <2>2. CASE x \in OnTheirWay'
    BY <1>2, <1>3, <2>1, <2>2
  <2>3. CASE x = k
    <3>1. k \in Message /\ c \in Conns /\ c \notin closed /\ send \in [Conns -> Seq(Message)]
      BY <1>6, StreamTypes DEF Relay, TypeInv, HubTypeOK
    <3>2. c \in members[r]
      BY <3>1 DEF StaysIn, r
    <3>3. k.sender # c
      BY <1>1, <1>4, <1>6, <2>1, <2>3 DEF SpeakersInv
    <3>4. c \in Recipients(k)
      BY <2>1, <2>3, <3>2, <3>3 DEF Recipients
    <3>5. ~Full(c)
      BY <1>6, <3>4 DEF Relay
    <3>6. send'[c] = Append(send[c], k)
      BY <1>6, <3>1, <3>4, <3>5 DEF Relay
    <3>7. m.seq \in SeqsOf(send'[c])
      BY <2>1, <2>3, <3>1, <3>6, SeqsAppended
    <3> QED
      BY <1>2, <3>7 DEF Delivered, SeqsOf
  <2> QED
    BY <1>6, <2>1, <2>2, <2>3
<1>7. ASSUME NEW d \in Conns, NEW n \in Sizes, BufferAudio(d, n), m \notin buffers[r]
      PROVE  m.seq \in Reaching(c)'
  <2> DEFINE p == packet[d].room
  <2>1. /\ OnTheirWay' = OnTheirWay \cup {packet'[d]} /\ packet'[d].room = p
        /\ packet'[d].seq = sequenceMap[p] + 1
    BY <1>7, WayNumbered
  <2>2. /\ p \in Rooms /\ buffers \in [Rooms -> SUBSET Entry]
        /\ buffers' = [buffers EXCEPT ![p] =
                         CleanupOldMessages(@ \cup {NewEntry(p, UserOf[d], n)})]
    BY <1>7, PumpFacts DEF BufferAudio, AddMessage, TypeInv, BufferInv, BufferTypeOK
  <2>3. buffers'[p] \subseteq buffers[p] \cup {NewEntry(p, UserOf[d], n)}
    BY <2>2, CleanupSubset
  <2>4. p = r
    BY <1>1, <1>7, <2>2
  <2>5. m.seq = sequenceMap[p] + 1
    BY <1>1, <1>7, <2>3, <2>4 DEF NewEntry
  <2> QED
    BY <1>2, <1>3, <2>1, <2>4, <2>5
<1>8. CASE \E d \in Conns, n \in Sizes : BufferAudio(d, n)
  <2>1. OnTheirWay \subseteq OnTheirWay'
    BY <1>8, WayNumbered
  <2> QED
    BY <1>5, <1>7, <1>8, <2>1
<1>9. CASE m \in buffers[r]
  BY <1>1, <1>2, <1>5, <1>6, <1>8, <1>9, WaySteps DEF Others, r
<1>10. CASE m \notin buffers[r]
  BY <1>1, <1>7, <1>10, WaySteps DEF QuietReaders, bufferVars
<1> QED
  BY <1>9, <1>10
LEMMA ReplaysStep ==
  ASSUME TypeInv, ReplaysIn, [Next]_vars
  PROVE  ReplaysIn'
<1>1. PumpTypeOK /\ \A c \in Conns \ Roaming : joined[c] \subseteq joined'[c]
  BY JoinedKept DEF TypeInv
<1>2. ASSUME UNCHANGED caughtUp,
             \A c \in Conns : reader'[c] = "replay" => reader[c] = "replay" /\ packet'[c] = packet[c]
      PROVE  ReplaysIn'
  BY <1>1, <1>2 DEF ReplaysIn
<1>3. ASSUME NEW c \in Conns, NEW r \in Named(c), NEW since \in Since,
             RequestReplay(c, r, since) \/ NothingToReplay(c, r, since)
      PROVE  ReplaysIn'
  <2>1. c \notin Roaming => r = Channel[c] /\ Channel[c] \in joined[c]
    BY <1>3 DEF RequestReplay, NothingToReplay, Named
  <2>2. CASE RequestReplay(c, r, since)
    <3>1. /\ UNCHANGED caughtUp /\ packet'[c].room = r
          /\ \A d \in Conns \ {c} : reader'[d] = reader[d] /\ packet'[d] = packet[d]
      BY <1>1, <2>2 DEF RequestReplay, Goto, Packet, PumpTypeOK
    <3> QED
      BY <1>1, <2>1, <3>1 DEF ReplaysIn
  <2>3. CASE NothingToReplay(c, r, since)
    <3>1. /\ UNCHANGED <<reader, packet>>
          /\ \A d \in Conns \ {c} : caughtUp'[d] = caughtUp[d]
      BY <1>1, <2>3 DEF NothingToReplay, CatchUp, PumpTypeOK
    <3> QED
      BY <1>1, <2>1, <3>1 DEF ReplaysIn
  <2> QED
    BY <1>3, <2>2, <2>3
<1>4. ASSUME NEW c \in Conns, ReplayDone(c)
      PROVE  ReplaysIn'
  <2>1. /\ reader[c] = "replay" /\ reader'[c] = "read"
        /\ \A d \in Conns \ {c} :
             reader'[d] = reader[d] /\ packet'[d] = packet[d] /\ caughtUp'[d] = caughtUp[d]
    BY <1>1, <1>4 DEF ReplayDone, EndReplay, Goto, CatchUp, PumpTypeOK
  <2> QED
    BY <1>1, <2>1 DEF ReplaysIn
<1>5. ASSUME NEW c \in Conns, UNCHANGED caughtUp, reader'[c] # "replay",
             \A d \in Conns \ {c} : reader'[d] = reader[d] /\ packet'[d] = packet[d]
      PROVE  ReplaysIn'
  BY <1>2, <1>5
<1>6. CASE UNCHANGED <<reader, packet, caughtUp>>
  BY <1>2, <1>6
<1>7. ASSUME NEW c \in Conns, NEW r \in Named(c),
             \/ \E buffered \in BOOLEAN : StartTalking(c, r, buffered)
             \/ StopTalking(c, r)
      PROVE  ReplaysIn'
  <2>1. /\ UNCHANGED caughtUp /\ reader'[c] # "replay"
        /\ \A d \in Conns \ {c} : reader'[d] = reader[d] /\ packet'[d] = packet[d]
    BY <1>1, <1>7 DEF StartTalking, StopTalking, Goto, PumpTypeOK
  <2> QED
    BY <1>5, <2>1
<1>8. ASSUME NEW c \in Conns, HandleMessage(c)
      PROVE  ReplaysIn'
  <2>1. ASSUME NEW r \in Named(c),
               TalkRejected(c, r) \/ HandleJoinRoom(c, r) \/ HandleLeaveRoom(c, r) \/ ReplayRefused(c, r)
        PROVE  UNCHANGED <<reader, packet, caughtUp>>
    BY <2>1 DEF TalkRejected, HandleJoinRoom, HandleLeaveRoom, ReplayRefused
  <2> QED
    BY <1>3, <1>6, <1>7, <1>8, <2>1 DEF HandleMessage
<1>9. ASSUME NEW c \in Conns, ReaderStep(c)
      PROVE  ReplaysIn'
  <2>1. ASSUME \/ \E seq \in toReplay[c] : ReplayNext(c, seq)
               \/ \E r \in toRelease[c] : ReleaseVoice(c, r)
        PROVE  UNCHANGED <<reader, packet, caughtUp>>
    BY <2>1 DEF ReplayNext, ReleaseVoice
  <2>2. ASSUME RegisterClient(c) \/ StartPumps(c) \/ VoiceReleased(c) \/ UnregisterClient(c)
        PROVE  ReplaysIn'
    BY <1>1, <1>5, <2>2 DEF RegisterClient, StartPumps, VoiceReleased, UnregisterClient, Goto, PumpTypeOK
  <2>3. ASSUME \/ RelayPacket(c) \/ ReplayTruncated(c) \/ \E n \in Sizes : BufferAudio(c, n)
        PROVE  ReplaysIn'
    BY <1>1, <1>5, <2>3 DEF RelayPacket, ReplayTruncated, EndReplay, BufferAudio, Goto, PumpTypeOK
  <2> QED
    BY <1>4, <1>6, <1>9, <2>1, <2>2, <2>3 DEF ReaderStep
<1>10. ASSUME NEW c \in Conns, Connect(c) \/ ReadFails(c)
       PROVE  ReplaysIn'
  BY <1>1, <1>5, <1>10 DEF Connect, ReadFails, Goto, PumpTypeOK
<1>11. ASSUME NEW c \in Conns, Disconnect(c) \/ WriteFails(c) \/ WriterStep(c)
       PROVE  ReplaysIn'
  BY <1>6, <1>11 DEF Disconnect, WriteFails, EndWritePump, WriterStep, WriteMessage, QueueClosed
<1>12. CASE HubStep \/ CleanupBuffer \/ ClockTick \/ UNCHANGED vars
  BY <1>6, <1>12 DEF HubStep, CleanupBuffer, ClockTick, vars, pumpVars
<1> QED
  BY <1>8, <1>9, <1>10, <1>11, <1>12 DEF Next
(* How a replay goes on, and how one comes to its end.                     *)
LEMMA ReplayGoesOn ==
  ASSUME TypeInv, [Next]_vars, NEW c \in Conns, reader'[c] = "replay"
  PROVE  \/ \E r \in Named(c), since \in Since : RequestReplay(c, r, since)
         \/ /\ reader[c] = "replay" /\ packet'[c] = packet[c]
            /\ \/ toReplay'[c] = toReplay[c]
               \/ \E seq \in toReplay[c] : ReplayNext(c, seq)
<1>1. /\ reader \in [Conns -> ReaderStates] /\ packet \in [Conns -> Message]
      /\ toReplay \in [Conns -> SUBSET (1 .. MaxSeq)]
  BY DEF TypeInv, PumpTypeOK
<1>2. CASE reader'[c] = reader[c] /\ packet'[c] = packet[c] /\ toReplay'[c] = toReplay[c]
  BY <1>2
<1>3. ASSUME NEW d \in Conns, HandleMessage(d), ~\E r \in Named(d), since \in Since : RequestReplay(d, r, since)
      PROVE  reader'[c] = reader[c] /\ packet'[c] = packet[c] /\ toReplay'[c] = toReplay[c]
  <2>1. /\ UNCHANGED toReplay
        /\ \/ UNCHANGED <<reader, packet>>
           \/ d # c /\ \A e \in Conns \ {d} : reader'[e] = reader[e] /\ packet'[e] = packet[e]
    <3>1. PICK r \in Named(d) :
            \/ \E buffered \in BOOLEAN : StartTalking(d, r, buffered)
            \/ TalkRejected(d, r) \/ StopTalking(d, r)
            \/ HandleJoinRoom(d, r) \/ HandleLeaveRoom(d, r) \/ ReplayRefused(d, r)
            \/ \E since \in Since : NothingToReplay(d, r, since)
      BY <1>3 DEF HandleMessage
    <3>2. ASSUME (\E buffered \in BOOLEAN : StartTalking(d, r, buffered)) \/ StopTalking(d, r)
          PROVE  /\ UNCHANGED toReplay /\ d # c
                 /\ \A e \in Conns \ {d} : reader'[e] = reader[e] /\ packet'[e] = packet[e]
      BY <1>1, <3>2 DEF StartTalking, StopTalking, Goto
    <3>3. ASSUME \/ TalkRejected(d, r) \/ HandleJoinRoom(d, r) \/ HandleLeaveRoom(d, r)
                 \/ ReplayRefused(d, r) \/ \E since \in Since : NothingToReplay(d, r, since)
          PROVE  UNCHANGED <<toReplay, reader, packet>>
      BY <3>3 DEF TalkRejected, HandleJoinRoom, HandleLeaveRoom, ReplayRefused, NothingToReplay
    <3> QED
      BY <3>1, <3>2, <3>3
  <2> QED
    BY <2>1
<1>4. ASSUME NEW d \in Conns, NEW r \in Named(d), NEW since \in Since, RequestReplay(d, r, since), d # c
      PROVE  reader'[c] = reader[c] /\ packet'[c] = packet[c] /\ toReplay'[c] = toReplay[c]
  BY <1>1, <1>4 DEF RequestReplay, Goto
<1>5. ASSUME NEW d \in Conns, ReaderStep(d), ~\E seq \in toReplay[d] : ReplayNext(d, seq)
      PROVE  reader'[c] = reader[c] /\ packet'[c] = packet[c] /\ toReplay'[c] = toReplay[c]
  <2>1. ASSUME NEW r \in toRelease[d], ReleaseVoice(d, r)
        PROVE  UNCHANGED <<toReplay, reader, packet>>
    BY <2>1 DEF ReleaseVoice
  <2>2. ASSUME RegisterClient(d) \/ StartPumps(d) \/ VoiceReleased(d) \/ UnregisterClient(d)
        PROVE  reader'[c] = reader[c] /\ packet'[c] = packet[c] /\ toReplay'[c] = toReplay[c]
    BY <1>1, <2>2 DEF RegisterClient, StartPumps, VoiceReleased, UnregisterClient, Goto
  <2>3. ASSUME RelayPacket(d) \/ ReplayTruncated(d) \/ ReplayDone(d)
        PROVE  reader'[c] = reader[c] /\ packet'[c] = packet[c] /\ toReplay'[c] = toReplay[c]
    BY <1>1, <2>3 DEF RelayPacket, ReplayTruncated, ReplayDone, EndReplay, Goto
  <2>4. ASSUME NEW n \in Sizes, BufferAudio(d, n)
        PROVE  reader'[c] = reader[c] /\ packet'[c] = packet[c] /\ toReplay'[c] = toReplay[c]
    BY <1>1, <2>4 DEF BufferAudio, Goto
  <2> QED
    BY <1>5, <2>1, <2>2, <2>3, <2>4 DEF ReaderStep
<1>6. ASSUME NEW d \in Conns, NEW seq \in toReplay[d], ReplayNext(d, seq), d # c
      PROVE  reader'[c] = reader[c] /\ packet'[c] = packet[c] /\ toReplay'[c] = toReplay[c]
  BY <1>1, <1>6 DEF ReplayNext
<1>7. ASSUME NEW seq \in toReplay[c], ReplayNext(c, seq)
      PROVE  reader[c] = "replay" /\ packet'[c] = packet[c]
  BY <1>7 DEF ReplayNext
<1>8. ASSUME NEW d \in Conns, Connect(d) \/ ReadFails(d)
      PROVE  reader'[c] = reader[c] /\ packet'[c] = packet[c] /\ toReplay'[c] = toReplay[c]
  BY <1>1, <1>8 DEF Connect, ReadFails, Goto
<1>9. ASSUME NEW d \in Conns, Disconnect(d) \/ WriteFails(d) \/ WriterStep(d)
      PROVE  UNCHANGED <<toReplay, reader, packet>>
  BY <1>9 DEF Disconnect, WriteFails, EndWritePump, WriterStep, WriteMessage, QueueClosed
<1>10. ASSUME HubStep \/ CleanupBuffer \/ ClockTick \/ UNCHANGED vars
       PROVE  UNCHANGED <<toReplay, reader, packet>>
  BY <1>10 DEF HubStep, CleanupBuffer, ClockTick, vars, pumpVars
<1> QED
  BY <1>2, <1>3, <1>4, <1>5, <1>6, <1>7, <1>8, <1>9, <1>10 DEF Next

LEMMA CaughtUpSteps ==
  ASSUME TypeInv, [Next]_vars, NEW c \in Conns, NEW since \in caughtUp'[c]
  PROVE  \/ since \in caughtUp[c]
         \/ NothingToReplay(c, Channel[c], since)
         \/ ReplayDone(c) /\ since = packet[c].seq
<1>1. caughtUp \in [Conns -> SUBSET (0 .. MaxSeq)]
  BY DEF TypeInv, PumpTypeOK
<1>2. ASSUME NEW d \in Conns, NEW r \in Named(d), NEW s \in Since, NothingToReplay(d, r, s)
      PROVE  since \in caughtUp[c] \/ NothingToReplay(c, Channel[c], since)
  BY <1>1, <1>2 DEF NothingToReplay, CatchUp
<1>3. ASSUME NEW d \in Conns, ReplayDone(d)
      PROVE  since \in caughtUp[c] \/ (ReplayDone(c) /\ since = packet[c].seq)
  BY <1>1, <1>3 DEF ReplayDone, CatchUp
<1>4. ASSUME NEW d \in Conns, HandleMessage(d), ~\E r \in Named(d), s \in Since : NothingToReplay(d, r, s)
      PROVE  UNCHANGED caughtUp
  BY <1>4 DEF HandleMessage, StartTalking, TalkRejected, StopTalking, HandleJoinRoom,
     HandleLeaveRoom, ReplayRefused, RequestReplay
<1>5. ASSUME NEW d \in Conns, ReaderStep(d), ~ReplayDone(d)
      PROVE  UNCHANGED caughtUp
  <2>1. ASSUME \/ \E n \in Sizes : BufferAudio(d, n)
               \/ \E seq \in toReplay[d] : ReplayNext(d, seq)
               \/ \E r \in toRelease[d] : ReleaseVoice(d, r)
        PROVE  UNCHANGED caughtUp
    BY <2>1 DEF BufferAudio, ReplayNext, ReleaseVoice
  <2>2. ASSUME \/ RegisterClient(d) \/ StartPumps(d) \/ RelayPacket(d) \/ ReplayTruncated(d)
               \/ VoiceReleased(d) \/ UnregisterClient(d)
        PROVE  UNCHANGED caughtUp
    BY <2>2 DEF RegisterClient, StartPumps, RelayPacket, ReplayTruncated, VoiceReleased,
       UnregisterClient
  <2> QED
    BY <1>5, <2>1, <2>2 DEF ReaderStep
<1>6. ASSUME NEW d \in Conns,
             Connect(d) \/ Disconnect(d) \/ WriteFails(d) \/ ReadFails(d) \/ WriterStep(d)
      PROVE  UNCHANGED caughtUp
  BY <1>6 DEF Connect, Disconnect, WriteFails, EndWritePump, ReadFails, WriterStep, WriteMessage,
     QueueClosed
<1>7. ASSUME HubStep \/ CleanupBuffer \/ ClockTick \/ UNCHANGED vars
      PROVE  UNCHANGED caughtUp
  BY <1>7 DEF HubStep, CleanupBuffer, ClockTick, vars, pumpVars
<1> QED
  BY <1>2, <1>3, <1>4, <1>5, <1>6, <1>7 DEF Next

LEMMA DropsStay ==
  ASSUME TypeInv, [Next]_vars
  PROVE  closed \subseteq closed'
<1>1. HubNext \/ UNCHANGED hubVars
  BY HubSteps DEF vars
<1>2. ASSUME NEW c \in Conns, 
             \/ AcceptRegister(c) \/ Register(c) \/ AcceptUnregister(c) \/ Unregister(c)
             \/ UnregisterPanics(c) \/ Receive(c)
             \/ \E r \in Rooms : JoinRoom(c, r) \/ LeaveRoom(c, r)
             \/ \E m \in Message : SafeSend(c, m)
      PROVE  closed \subseteq closed'
  BY <1>2 DEF AcceptRegister, Register, AcceptUnregister, Unregister, Forget, UnregisterPanics,
     Panic, Receive, JoinRoom, LeaveRoom, SafeSend
<1>3. ASSUME TakeBroadcast \/ Relay \/ RelayPanics \/ \E m \in Message : BroadcastToRoom(m)
      PROVE  closed \subseteq closed'
  BY <1>3 DEF TakeBroadcast, Relay, RelayPanics, Panic, BroadcastToRoom
<1>4. CASE UNCHANGED hubVars
  BY <1>4 DEF hubVars
<1> QED
  BY <1>1, <1>2, <1>3, <1>4 DEF HubNext
LEMMA CoversStep ==
  ASSUME TypeInv, GapInv, [Next]_vars
  PROVE  ReplayCovers'
<1>1. SUFFICES ASSUME NEW c \in Conns \ Roaming, c \notin closed', reader'[c] = "replay",
                      NEW m \in Others(c)', m.seq > packet'[c].seq,
                      m.seq \notin Reaching(c)'
               PROVE  m.seq \in toReplay'[c]
  BY DEF ReplayCovers
<1>2. c \notin closed
  BY <1>1, DropsStay
<1>3. ASSUME NEW r \in Named(c), NEW since \in Since, RequestReplay(c, r, since)
      PROVE  m.seq \in toReplay'[c]
  <2>1. /\ r = Channel[c] /\ UNCHANGED bufferVars /\ r \in Rooms
        /\ toReplay' = [toReplay EXCEPT ![c] = Snapshot(r, since)]
        /\ packet' = [packet EXCEPT ![c] = Packet(r, "end", since, c)]
    BY <1>1, <1>3, MessageTypes DEF Named, RequestReplay
  <2>2. m \in buffers[r] /\ ~m.replayed
    BY <1>1, <2>1 DEF Others, bufferVars, GapInv, SpeakersInv
  <2>3. m.seq > since
    BY <1>1, <2>1 DEF Packet, TypeInv, PumpTypeOK
  <2> QED
    BY <2>1, <2>2, <2>3 DEF Snapshot, GetMessages, TypeInv, PumpTypeOK
<1>4. ASSUME reader[c] = "replay", packet'[c] = packet[c]
      PROVE  m.seq \in toReplay[c]
  <2>1. Channel[c] \in joined[c]
    BY <1>4 DEF GapInv, ReplaysIn
  <2>2. m \in Others(c) /\ m.seq \notin Reaching(c)
    BY <1>1, <2>1, ReachKept DEF GapInv
  <2> QED
    BY <1>1, <1>2, <1>4, <2>2 DEF GapInv, ReplayCovers
<1>5. ASSUME NEW seq \in toReplay[c], ReplayNext(c, seq), m.seq \in toReplay[c]
      PROVE  m.seq \in toReplay'[c]
  <2> DEFINE k == Packet(packet[c].room, "audio", seq, Replay)
  <2>1. toReplay' = [toReplay EXCEPT ![c] = @ \ {seq}] /\ send' = [send EXCEPT ![c] = Append(@, k)]
    BY <1>5 DEF ReplayNext, SafeSend
  <2>2. send \in [Conns -> Seq(Message)] /\ toReplay \in [Conns -> SUBSET (1 .. MaxSeq)]
    BY DEF TypeInv, PumpTypeOK, HubTypeOK
  <2>3. packet[c].room \in Rooms /\ seq \in 1 .. MaxSeq
    BY <2>2 DEF TypeInv, PumpTypeOK, Message
  <2>4. seq \in 0 .. MaxSeq
    BY <2>3, HubAssumption DEF HubAssumption
  <2>5. /\ k \in Message /\ send \in [Conns -> Seq(Message)]
        /\ toReplay \in [Conns -> SUBSET (1 .. MaxSeq)]
    BY <2>2, <2>3, <2>4 DEF Packet, Message
  <2>6. k.seq = seq
    BY DEF Packet
  <2> HIDE DEF k
  <2>7. seq \in SeqsOf(send'[c])
    BY <2>1, <2>5, <2>6, SeqsAppended
  <2>8. seq \in Reaching(c)'
    BY <2>7 DEF Reaching, SeqsOf
  <2> QED
    BY <1>1, <1>5, <2>1, <2>5, <2>8
<1> QED
  BY <1>1, <1>3, <1>4, <1>5, ReplayGoesOn

LEMMA NoGapStep ==
  ASSUME TypeInv, GapInv, [Next]_vars
  PROVE  NoReplayGap'
<1>1. SUFFICES ASSUME NEW c \in Conns \ Roaming, c \notin closed', NEW since \in caughtUp'[c],
                      NEW m \in Others(c)', m.seq > since
               PROVE  m.seq \in Reaching(c)'
  BY DEF NoReplayGap, Others
<1>2. c \notin closed
  BY <1>1, DropsStay
<1>3. CASE since \in caughtUp[c]
  <2>1. Channel[c] \in joined[c]
    BY <1>3 DEF GapInv, ReplaysIn
  <2>2. m \in Others(c) => m.seq \in Reaching(c)
    BY <1>1, <1>2, <1>3 DEF GapInv, NoReplayGap, Others
  <2> QED
    BY <1>1, <2>1, <2>2, ReachKept DEF GapInv
<1>4. CASE NothingToReplay(c, Channel[c], since)
  <2>1. m \in buffers[Channel[c]] /\ ~m.replayed
    BY <1>1, <1>4, PumpFacts DEF NothingToReplay, Others, bufferVars, GapInv, SpeakersInv
  <2>2. m.seq \in Snapshot(Channel[c], since)
    BY <1>1, <2>1 DEF Snapshot, GetMessages
  <2> QED
    BY <1>4, <2>2 DEF NothingToReplay
<1>5. CASE ReplayDone(c) /\ since = packet[c].seq
  <2>1. Channel[c] \in joined[c] /\ toReplay[c] = {} /\ reader[c] = "replay"
    BY <1>5 DEF ReplayDone, GapInv, ReplaysIn
  <2>2. m \in Others(c) => m.seq \in Reaching(c)
    BY <1>1, <1>2, <1>5, <2>1 DEF GapInv, ReplayCovers
  <2> QED
    BY <1>1, <2>1, <2>2, ReachKept DEF GapInv
<1> QED
  BY <1>3, <1>4, <1>5, CaughtUpSteps

LEMMA GapStep == TypeInv /\ NumberInv /\ GapInv /\ [Next]_vars => GapInv'
<1> SUFFICES ASSUME TypeInv, NumberInv, GapInv, [Next]_vars
             PROVE  GapInv'
  OBVIOUS
<1> QED
  BY SpeakersStep, StaysStep, ReplaysStep, CoversStep, NoGapStep DEF GapInv

(***************************************************************************)
(* No chunk is missing between the replay and the live audio, for any      *)
(* number of speakers, clients and rooms and whatever is lost or evicted.  *)
(***************************************************************************)
THEOREM NoReplayGapTheorem == Spec => []NoReplayGap
<1>1. Spec => Init /\ []TypeInv /\ [][Next]_vars
  BY TypeInvariant, PTL DEF Spec
<1>2. GapInv => NoReplayGap
  BY DEF GapInv
<1> QED
  BY <1>1, <1>2, Numbers, GapInit, GapStep, PTL
=============================================================================
