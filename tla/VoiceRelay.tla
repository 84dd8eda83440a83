----------------------------- MODULE VoiceRelay -----------------------------
(***************************************************************************)
(* The audio server as its clients see it: every WebSocket connection has  *)
(* a ReadPump and a WritePump goroutine (backend/pkg/websocket/client.go)  *)
(* that share the push-to-talk lock (VoiceService), the replay buffer      *)
(* (AudioBuffer) and the hub (Hub) with all the others.  A step of a pump  *)
(* is what it does under one lock or with one channel operation; anything  *)
(* may happen between two of them.                                         *)
(*                                                                         *)
(* What a client sends is chosen when ReadMessage returns it.  The clients *)
(* outside Roaming behave as the Flutter app does: they stay in the room   *)
(* of the URL and name no other.                                           *)
(***************************************************************************)
EXTENDS VoiceService, AudioBuffer, Hub

CONSTANTS
  UserOf,        \* UserOf[c]: the authenticated user of connection c
  Channel,       \* Channel[c]: the room named in its URL
  Roaming,       \* the connections that use leave_room and name any room
  Since,         \* the sequences clients ask for a replay from
  MaxPackets     \* bound: audio packets and replay requests of the clients

ASSUME RelayAssumption ==
  /\ UserOf \in [Conns -> Users]
  /\ Channel \in [Conns -> Rooms]
  /\ Roaming \subseteq Conns
  /\ MaxPackets \in Nat
  /\ MaxSeq >= MaxPackets   \* so that the bound of the buffer is not met here
  /\ Since \subseteq 0 .. MaxSeq

VARIABLES
  reader,      \* reader[c]: where HandleWebSocket and ReadPump are
  packet,      \* packet[c]: the audio message being handled
  toReplay,    \* toReplay[c]: sequences sendReplay has still to send
  toRelease,   \* toRelease[c]: rooms releaseVoice has still to free
  writer,      \* writer[c]: whether WritePump runs
  open,        \* the connections whose socket is open
  quota,       \* how many of those may still come
  heard,       \* heard[c]: sequences written to the socket of c
  caughtUp     \* caughtUp[c]: replays of its room c got to the end of, by since_sequence

pumpVars == <<reader, packet, toReplay, toRelease, writer, open, quota, heard, caughtUp>>
vars == <<channels, bufferVars, hubVars, pumpVars>>

Packet(r, kind, seq, c) == [room |-> r, kind |-> kind, seq |-> seq, sender |-> c]

\* The content of packet[c] when ReadPump is not handling audio.
Blank(c) == Packet(Channel[c], "end", 0, c)

ReaderStates ==
  {"none", "register", "join", "read", "buffer", "relay", "replay", "release",
   "unregister", "done"}

Init ==
  /\ VoiceInit /\ BufferInit /\ HubInit
  /\ reader = [c \in Conns |-> "none"]
  /\ packet = [c \in Conns |-> Blank(c)]
  /\ toReplay = [c \in Conns |-> {}]
  /\ toRelease = [c \in Conns |-> {}]
  /\ writer = [c \in Conns |-> "none"]
  /\ open = {}
  /\ quota = MaxPackets
  /\ heard = [c \in Conns |-> {}]
  /\ caughtUp = [c \in Conns |-> {}]

-----------------------------------------------------------------------------
(***************************************************************************)
(* HandleWebSocket (backend/internal/voice/handler.go): upgrade, register  *)
(* with the hub (a rendezvous), join the room, start the pumps.            *)
(***************************************************************************)
Goto(c, state) == reader' = [reader EXCEPT ![c] = state]

Connect(c) ==
  /\ reader[c] = "none"
  /\ Goto(c, "register")
  /\ open' = open \cup {c}
  /\ UNCHANGED <<channels, bufferVars, hubVars>>
  /\ UNCHANGED <<packet, toReplay, toRelease, writer, quota, heard, caughtUp>>

RegisterClient(c) ==
  /\ reader[c] = "register"
  /\ AcceptRegister(c)
  /\ Goto(c, "join")
  /\ UNCHANGED <<channels, bufferVars>>
  /\ UNCHANGED <<packet, toReplay, toRelease, writer, open, quota, heard, caughtUp>>

StartPumps(c) ==
  /\ reader[c] = "join"
  /\ JoinRoom(c, Channel[c])
  /\ Goto(c, "read")
  /\ writer' = [writer EXCEPT ![c] = "run"]
  /\ UNCHANGED <<channels, bufferVars>>
  /\ UNCHANGED <<packet, toReplay, toRelease, open, quota, heard, caughtUp>>

-----------------------------------------------------------------------------
(***************************************************************************)
(* ReadPump and handleMessage.                                             *)
(***************************************************************************)
\* ReadMessage returns the client's next message, if the socket is still open.
ReadMessage(c) == reader[c] = "read" /\ c \in open

\* The message is one that the bound counts: audio, or a request for a replay.
ReadCounted(c) ==
  /\ ReadMessage(c)
  /\ quota > 0
  /\ quota' = quota - 1

\* The rooms the messages of client c name.
Named(c) == IF c \in Roaming THEN Rooms ELSE {Channel[c]}

\* PTT audio in room r: the guard.  A chunk that is empty or does not decode
\* is not buffered and goes straight on to the relay.
StartTalking(c, r, buffered) ==
  /\ ReadCounted(c)
  /\ StartTransmission(UserOf[c], r)
  /\ Goto(c, IF buffered THEN "buffer" ELSE "relay")
  /\ packet' = [packet EXCEPT ![c] = Packet(r, "audio", 0, c)]
  /\ UNCHANGED <<bufferVars, hubVars>>
  /\ UNCHANGED <<toReplay, toRelease, writer, open, heard, caughtUp>>

TalkRejected(c, r) ==
  /\ ReadMessage(c)
  /\ StartRejected(UserOf[c], r)
  /\ UNCHANGED <<bufferVars, hubVars>>
  /\ UNCHANGED <<reader, packet, toReplay, toRelease, writer, open, quota, heard, caughtUp>>

\* is_ptt = false: the lock is given back, whoever holds it the packet goes on.
StopTalking(c, r) ==
  /\ ReadCounted(c)
  /\ StopTransmission(UserOf[c], r)
  /\ Goto(c, "relay")
  /\ packet' = [packet EXCEPT ![c] = Packet(r, "end", 0, c)]
  /\ UNCHANGED <<bufferVars, hubVars>>
  /\ UNCHANGED <<toReplay, toRelease, writer, open, heard, caughtUp>>

BufferAudio(c, n) ==
  /\ reader[c] = "buffer"
  /\ AddMessage(packet[c].room, UserOf[c], n)
  /\ packet' = [packet EXCEPT ![c].seq = sequenceMap[packet[c].room] + 1]
  /\ Goto(c, "relay")
  /\ UNCHANGED <<channels, hubVars>>
  /\ UNCHANGED <<toReplay, toRelease, writer, open, quota, heard, caughtUp>>

RelayPacket(c) ==
  /\ reader[c] = "relay"
  /\ BroadcastToRoom(packet[c])
  /\ Goto(c, "read")
  /\ packet' = [packet EXCEPT ![c] = Blank(c)]
  /\ UNCHANGED <<channels, bufferVars>>
  /\ UNCHANGED <<toReplay, toRelease, writer, open, quota, heard, caughtUp>>

\* The app joins its room again whenever its user starts to talk.
HandleJoinRoom(c, r) ==
  /\ ReadMessage(c)
  /\ JoinRoom(c, r)
  /\ UNCHANGED <<channels, bufferVars>>
  /\ UNCHANGED <<reader, packet, toReplay, toRelease, writer, open, quota, heard, caughtUp>>

HandleLeaveRoom(c, r) ==
  /\ c \in Roaming
  /\ ReadMessage(c)
  /\ LeaveRoom(c, r)
  /\ UNCHANGED <<channels, bufferVars>>
  /\ UNCHANGED <<reader, packet, toReplay, toRelease, writer, open, quota, heard, caughtUp>>

\* Mutant: the entry the client asked to start after is sent and the next is not.
SnapshotAfterNext(r, since) == {m.seq : m \in GetMessages(r, since + 1)}

\* What sendReplay takes from the buffer, in the order of the sequences.
Snapshot(r, since) == {m.seq : m \in GetMessages(r, since)}

\* packet[c] keeps the room, and in seq the sequence the client asked from.
RequestReplay(c, r, since) ==
  /\ ReadCounted(c)
  /\ r \in joined[c]
  /\ Snapshot(r, since) # {}
  /\ Goto(c, "replay")
  /\ toReplay' = [toReplay EXCEPT ![c] = Snapshot(r, since)]
  /\ packet' = [packet EXCEPT ![c] = Packet(r, "end", since, c)]
  /\ UNCHANGED <<channels, bufferVars, hubVars>>
  /\ UNCHANGED <<toRelease, writer, open, heard, caughtUp>>

\* The client has missed nothing newer than since in room r.
CatchUp(c, r, since) ==
  caughtUp' = [caughtUp EXCEPT ![c] = IF r = Channel[c] THEN @ \cup {since} ELSE @]

NothingToReplay(c, r, since) ==
  /\ ReadCounted(c)
  /\ r \in joined[c]
  /\ Snapshot(r, since) = {}
  /\ CatchUp(c, r, since)
  /\ UNCHANGED <<channels, bufferVars, hubVars>>
  /\ UNCHANGED <<reader, packet, toReplay, toRelease, writer, open, heard>>

\* sendReplay checks that the client is in the room.
ReplayRefused(c, r) ==
  /\ ReadMessage(c)
  /\ r \notin joined[c]
  /\ UNCHANGED <<channels, bufferVars, hubVars>>
  /\ UNCHANGED <<reader, packet, toReplay, toRelease, writer, open, quota, heard, caughtUp>>

IsNext(seq, S) == seq \in S /\ \A other \in S : seq <= other

ReplayNext(c, seq) ==
  /\ reader[c] = "replay"
  /\ IsNext(seq, toReplay[c])
  /\ SafeSend(c, Packet(packet[c].room, "audio", seq, Replay))
  /\ toReplay' = [toReplay EXCEPT ![c] = @ \ {seq}]
  /\ UNCHANGED <<channels, bufferVars>>
  /\ UNCHANGED <<reader, packet, toRelease, writer, open, quota, heard, caughtUp>>

EndReplay(c) ==
  /\ Goto(c, "read")
  /\ toReplay' = [toReplay EXCEPT ![c] = {}]
  /\ packet' = [packet EXCEPT ![c] = Blank(c)]

\* The queue of the client is full or closed: the rest is not sent.
ReplayTruncated(c) ==
  /\ reader[c] = "replay"
  /\ toReplay[c] # {}
  /\ ~CanSend(c)
  /\ EndReplay(c)
  /\ UNCHANGED <<channels, bufferVars, hubVars>>
  /\ UNCHANGED <<toRelease, writer, open, quota, heard, caughtUp>>

\* Everything was sent; the end packet follows if the queue has room for it.
ReplayDone(c) ==
  /\ reader[c] = "replay"
  /\ toReplay[c] = {}
  /\ \/ SafeSend(c, Packet(packet[c].room, "end", 0, Replay))
     \/ ~CanSend(c) /\ UNCHANGED hubVars
  /\ EndReplay(c)
  /\ CatchUp(c, packet[c].room, packet[c].seq)
  /\ UNCHANGED <<channels, bufferVars>>
  /\ UNCHANGED <<toRelease, writer, open, quota, heard>>

-----------------------------------------------------------------------------
(***************************************************************************)
(* The end of a connection.  Disconnect is whatever ends it for the pumps, *)
(* once ReadPump has read all there was: the peer closed, the network is   *)
(* gone, no pong for 60 s, a write that took longer than 10 s.  Then the   *)
(* deferred calls of ReadPump run.                                         *)
(***************************************************************************)
Disconnect(c) ==
  /\ c \in open
  /\ open' = open \ {c}
  /\ UNCHANGED <<channels, bufferVars, hubVars>>
  /\ UNCHANGED <<reader, packet, toReplay, toRelease, writer, quota, heard, caughtUp>>

\* Mutant: a connection that is lost without a close frame frees nothing.
RoomsToReleaseIfOpen(c) == IF c \in open THEN joined[c] ELSE {}

RoomsToRelease(c) == joined[c]

ReadFails(c) ==
  /\ reader[c] = "read"
  /\ c \notin open
  /\ Goto(c, "release")
  /\ toRelease' = [toRelease EXCEPT ![c] = RoomsToRelease(c)]
  /\ UNCHANGED <<channels, bufferVars, hubVars>>
  /\ UNCHANGED <<packet, toReplay, writer, open, quota, heard, caughtUp>>

\* releaseVoice: one StopTransmission per room.
ReleaseVoice(c, r) ==
  /\ reader[c] = "release"
  /\ r \in toRelease[c]
  /\ StopTransmission(UserOf[c], r)
  /\ toRelease' = [toRelease EXCEPT ![c] = @ \ {r}]
  /\ UNCHANGED <<bufferVars, hubVars>>
  /\ UNCHANGED <<reader, packet, toReplay, writer, open, quota, heard, caughtUp>>

VoiceReleased(c) ==
  /\ reader[c] = "release"
  /\ toRelease[c] = {}
  /\ Goto(c, "unregister")
  /\ UNCHANGED <<channels, bufferVars, hubVars>>
  /\ UNCHANGED <<packet, toReplay, toRelease, writer, open, quota, heard, caughtUp>>

UnregisterClient(c) ==
  /\ reader[c] = "unregister"
  /\ AcceptUnregister(c)
  /\ Goto(c, "done")
  /\ open' = open \ {c}
  /\ UNCHANGED <<channels, bufferVars>>
  /\ UNCHANGED <<packet, toReplay, toRelease, writer, quota, heard, caughtUp>>

-----------------------------------------------------------------------------
(***************************************************************************)
(* WritePump.                                                              *)
(***************************************************************************)
\* A write may well succeed after the peer is gone.
WriteMessage(c) ==
  /\ writer[c] = "run"
  /\ Receive(c)
  /\ heard' = [heard EXCEPT ![c] = @ \cup {Head(send[c]).seq}]
  /\ UNCHANGED <<channels, bufferVars>>
  /\ UNCHANGED <<reader, packet, toReplay, toRelease, writer, open, quota, caughtUp>>

EndWritePump(c) ==
  /\ writer[c] = "run"
  /\ writer' = [writer EXCEPT ![c] = "done"]
  /\ open' = open \ {c}
  /\ UNCHANGED <<channels, bufferVars, hubVars>>
  /\ UNCHANGED <<reader, packet, toReplay, toRelease, quota, heard, caughtUp>>

\* A write or a ping fails.
WriteFails(c) ==
  /\ c \notin open
  /\ EndWritePump(c)

\* The hub closed the queue and it is drained.
QueueClosed(c) ==
  /\ c \in closed
  /\ send[c] = << >>
  /\ EndWritePump(c)

-----------------------------------------------------------------------------
(***************************************************************************)
(* The goroutine of the hub, and the ticker of the buffer.                 *)
(***************************************************************************)
HubStep ==
  /\ \/ \E c \in Conns : Register(c) \/ Unregister(c) \/ UnregisterPanics(c)
     \/ TakeBroadcast
     \/ Relay
     \/ RelayPanics
  /\ UNCHANGED <<channels, bufferVars, pumpVars>>

CleanupBuffer ==
  /\ CleanupAllChannels
  /\ UNCHANGED <<channels, hubVars, pumpVars>>

ClockTick ==
  /\ Tick
  /\ UNCHANGED <<channels, hubVars, pumpVars>>

HandleMessage(c) ==
  \/ \E r \in Named(c) :
       \/ \E buffered \in BOOLEAN : StartTalking(c, r, buffered)
       \/ TalkRejected(c, r)
       \/ StopTalking(c, r)
       \/ HandleJoinRoom(c, r)
       \/ HandleLeaveRoom(c, r)
       \/ ReplayRefused(c, r)
       \/ \E since \in Since :
            RequestReplay(c, r, since) \/ NothingToReplay(c, r, since)

\* What the goroutines of connection c do without waiting for its client.
ReaderStep(c) ==
  \/ RegisterClient(c)
  \/ StartPumps(c)
  \/ \E n \in Sizes : BufferAudio(c, n)
  \/ RelayPacket(c)
  \/ \E seq \in toReplay[c] : ReplayNext(c, seq)
  \/ ReplayTruncated(c)
  \/ ReplayDone(c)
  \/ \E r \in toRelease[c] : ReleaseVoice(c, r)
  \/ VoiceReleased(c)
  \/ UnregisterClient(c)

WriterStep(c) == WriteMessage(c) \/ QueueClosed(c)

Next ==
  /\ ~panicked
  /\ \/ \E c \in Conns :
          \/ Connect(c) \/ Disconnect(c) \/ WriteFails(c)
          \/ HandleMessage(c) \/ ReadFails(c)
          \/ ReaderStep(c) \/ WriterStep(c)
     \/ HubStep
     \/ CleanupBuffer
     \/ ClockTick

(***************************************************************************)
(* The Go scheduler runs every goroutine that can run, and the select of   *)
(* the hub, choosing at random, passes over none of its channels for ever. *)
(* A pump whose socket is closed gets an error.  Nothing is assumed of the *)
(* clients.                                                                *)
(***************************************************************************)
Fairness ==
  /\ WF_vars(~panicked /\ HubStep)
  /\ \A c \in Conns :
       /\ WF_vars(~panicked /\ ReaderStep(c))
       /\ WF_vars(~panicked /\ ReadFails(c))
       /\ WF_vars(~panicked /\ QueueClosed(c))

Spec == Init /\ [][Next]_vars

FairSpec == Spec /\ Fairness

-----------------------------------------------------------------------------
PumpTypeOK ==
  /\ reader \in [Conns -> ReaderStates]
  /\ packet \in [Conns -> Message]
  /\ toReplay \in [Conns -> SUBSET (1 .. MaxSeq)]
  /\ toRelease \in [Conns -> SUBSET Rooms]
  /\ writer \in [Conns -> {"none", "run", "done"}]
  /\ open \subseteq Conns
  /\ quota \in 0 .. MaxPackets
  /\ heard \in [Conns -> SUBSET (0 .. MaxSeq)]
  /\ caughtUp \in [Conns -> SUBSET (0 .. MaxSeq)]

TypeOK == VoiceTypeOK /\ BufferTypeOK /\ HubTypeOK /\ PumpTypeOK

-----------------------------------------------------------------------------
\* Connection c has passed the guard and its audio is not yet with the hub.
Talking(c) == reader[c] \in {"buffer", "relay"} /\ packet[c].kind = "audio"

(***************************************************************************)
(* RF03, one speaker at a time (docs/requisitos.md:57), for the audio and  *)
(* not only for the lock: whenever packets of two connections are on their *)
(* way to the same room, they are of the same user.  handleMessage takes   *)
(* the lock long before it broadcasts, and others may free it in between.  *)
(***************************************************************************)
OneSpeakerAtATime ==
  \A c, d \in Conns :
    Talking(c) /\ Talking(d) /\ packet[c].room = packet[d].room => UserOf[c] = UserOf[d]

\* What the hub has received and not yet passed on, oldest first.
Stream ==
  (IF hubTask.op = "relay" THEN <<hubTask.message>> ELSE << >>) \o broadcast

Sequenced(m) == m.kind = "audio" /\ m.seq > 0

\* m is sent before n, both to the same room.
InOrder(m, n) == Sequenced(m) /\ Sequenced(n) /\ m.room = n.room => m.seq < n.seq

(***************************************************************************)
(* A room is sent its chunks in the order of their sequences, although the *)
(* number is given out and the packet queued in two steps of as many       *)
(* goroutines as there are speakers.  This takes users with one connection *)
(* each: two connections of a speaker may queue in another order than they *)
(* number.                                                                 *)
(***************************************************************************)
RelayOrder ==
  /\ \A i, j \in DOMAIN Stream : i < j => InOrder(Stream[i], Stream[j])
  /\ \A c \in Conns : reader[c] = "relay" =>
       \A i \in DOMAIN Stream : InOrder(Stream[i], packet[c])

ConnsOf(u) == {c \in Conns : UserOf[c] = u}

\* A user who connects with the app alone.
AppUser(u) == ConnsOf(u) \cap Roaming = {}

\* The goroutines of c will still free the floor of room r if its user holds it.
WillRelease(c, r) ==
  \/ reader[c] \in {"read", "buffer", "relay", "replay"} /\ r \in joined[c]
  \/ reader[c] = "release" /\ r \in toRelease[c]

(***************************************************************************)
(* No floor of a user of the app outlives the user's connections: for      *)
(* every room busy with one, some connection of the speaker is still to    *)
(* end, and will free the room when it does.                               *)
(***************************************************************************)
NoOrphanFloor ==
  \A r \in Rooms : IsChannelBusy(r) /\ AppUser(GetCurrentSpeaker(r)) =>
    \E c \in ConnsOf(GetCurrentSpeaker(r)) : WillRelease(c, r)

(***************************************************************************)
(* The process only ever panics over a client that the hub dropped and     *)
(* that is still registered: of the many orders of joining, leaving,       *)
(* unregistering and relaying, no other closes a queue twice or sends to a *)
(* closed one.                                                             *)
(***************************************************************************)
PanicOnlyAfterDrop == panicked => clients \cap closed # {}

(***************************************************************************)
(* What the admin panel counts as live rooms (hub.go:136) are the rooms    *)
(* with clients, whatever order the clients come and go in, and as long as *)
(* the hub has dropped nobody: a room emptied by a drop is never deleted.  *)
(***************************************************************************)
LiveRoomsCounted ==
  LET inUse == {r \in Rooms : members[r] # {}}
  IN  /\ inUse \subseteq liveRooms
      /\ clients \cap closed = {} => GetLiveRoomCount = Cardinality(inUse)

(***************************************************************************)
(* client.go:313 takes a slow consumer dropped by the hub for something    *)
(* the server survives.                                                    *)
(***************************************************************************)
NoPanic == ~panicked

\* What c got, or will get if it lives: sequences written, queued, or on the way.
Underway(r) ==
  {Stream[i].seq : i \in {j \in DOMAIN Stream : Stream[j].room = r}}
    \cup {packet[d].seq : d \in {e \in Conns : reader[e] = "relay" /\ packet[e].room = r}}

Reaching(c) ==
  heard[c] \cup {send[c][i].seq : i \in DOMAIN send[c]} \cup Underway(Channel[c])

(***************************************************************************)
(* RF06: once the replay since a sequence has been sent to its end, no     *)
(* chunk is missing between the replay and the live audio: whatever of its *)
(* room is buffered after that sequence has reached the client or is on    *)
(* its way, its own audio aside.  This rests on the order join room, take  *)
(* the snapshot (client) against buffer, broadcast (every speaker).        *)
(***************************************************************************)
NoReplayGap ==
  \A c \in Conns \ (closed \cup Roaming) : \A since \in caughtUp[c] :
    \A m \in buffers[Channel[c]] :
      m.seq > since /\ m.user # UserOf[c] => m.seq \in Reaching(c)

\* The connection was made and is gone.
Over(c) == reader[c] # "none" /\ c \notin open

(***************************************************************************)
(* A user of the app all of whose connections are gone ends up holding no  *)
(* floor, even when lost in the middle of an utterance.                    *)
(***************************************************************************)
FloorFreed ==
  \A u \in {v \in Users : AppUser(v)} :
    (\A c \in ConnsOf(u) : Over(c))
      ~> (panicked \/ \A r \in Rooms : GetCurrentSpeaker(r) # u)

(***************************************************************************)
(* A connection that is gone ends up out of the hub and of every room.     *)
(***************************************************************************)
GoneForgotten ==
  \A c \in Conns :
    Over(c) ~> (panicked \/ (c \notin clients /\ \A r \in Rooms : c \notin members[r]))
=============================================================================
