-------------------------------- MODULE Hub ---------------------------------
(***************************************************************************)
(* The hub of the audio sockets (backend/pkg/websocket/hub.go): one        *)
(* goroutine, Run, takes registrations, unregistrations and broadcasts     *)
(* from three Go channels, while other goroutines join and leave rooms     *)
(* under Hub.mu.  Run first receives and then takes the lock: two steps    *)
(* here, with hubTask what it has received and not yet handled.  The loop  *)
(* over the members of a room is one step: it holds the lock, it never     *)
(* waits, and each member's queue is touched once, so what the readers of  *)
(* those queues do in between commutes with it.                            *)
(*                                                                         *)
(* A send on a closed Go channel, or closing one again, panics.  Nothing   *)
(* recovers in this goroutine, so the whole process ends: panicked.        *)
(***************************************************************************)
EXTENDS Shared, Naturals, Sequences, FiniteSets

CONSTANTS
  Conns,         \* the clients, one per WebSocket connection
  SendCap,       \* capacity of Client.send, 256
  BroadcastCap,  \* capacity of Hub.broadcast, 256
  Replay         \* the sender of replayed packets ("sender": "replay")

ASSUME HubAssumption ==
  /\ SendCap \in Nat
  /\ BroadcastCap \in Nat
  /\ MaxSeq \in Nat

VARIABLES
  clients,    \* Hub.clients
  members,    \* members[r]: the clients of Hub.rooms[r]
  liveRooms,  \* the keys of Hub.rooms
  joined,     \* joined[c]: Client.rooms, the client's own record
  broadcast,  \* Hub.broadcast
  send,       \* send[c]: what Client.send holds
  closed,     \* the clients whose send channel has been closed
  hubTask,    \* what Run received last, until it is handled
  panicked

hubVars == <<clients, members, liveRooms, joined, broadcast, send, closed, hubTask, panicked>>

(* An audio packet, or the end of a segment (is_ptt = false).  seq is 0    *)
(* when the packet was not buffered and carries no sequence.               *)
Message ==
  [room : Rooms, kind : {"audio", "end"}, seq : 0 .. MaxSeq, sender : Conns \cup {Replay}]

HubTask ==
  [op : {"idle"}] \cup [op : {"register", "unregister"}, client : Conns]
    \cup [op : {"relay"}, message : Message]

HubTypeOK ==
  /\ clients \subseteq Conns
  /\ members \in [Rooms -> SUBSET Conns]
  /\ liveRooms \subseteq Rooms
  /\ joined \in [Conns -> SUBSET Rooms]
  /\ broadcast \in Seq(Message) /\ Len(broadcast) <= BroadcastCap
  /\ send \in [Conns -> Seq(Message)]
  /\ \A c \in Conns : Len(send[c]) <= SendCap
  /\ closed \subseteq Conns
  /\ hubTask \in HubTask
  /\ panicked \in BOOLEAN

Idle == [op |-> "idle"]
Registering(c) == [op |-> "register", client |-> c]
Unregistering(c) == [op |-> "unregister", client |-> c]
Relaying(m) == [op |-> "relay", message |-> m]

HubInit ==
  /\ clients = {}
  /\ members = [r \in Rooms |-> {}]
  /\ liveRooms = {}
  /\ joined = [c \in Conns |-> {}]
  /\ broadcast = << >>
  /\ send = [c \in Conns |-> << >>]
  /\ closed = {}
  /\ hubTask = Idle
  /\ panicked = FALSE

Panic ==
  /\ panicked' = TRUE
  /\ UNCHANGED <<clients, members, liveRooms, joined, broadcast, send, closed, hubTask>>

-----------------------------------------------------------------------------
(***************************************************************************)
(* Run: the three cases of its select, each a receive and a handling.      *)
(***************************************************************************)
AcceptRegister(c) ==
  /\ hubTask = Idle
  /\ hubTask' = Registering(c)
  /\ UNCHANGED <<clients, members, liveRooms, joined, broadcast, send, closed, panicked>>

Register(c) ==
  /\ hubTask = Registering(c)
  /\ clients' = clients \cup {c}
  /\ hubTask' = Idle
  /\ UNCHANGED <<members, liveRooms, joined, broadcast, send, closed, panicked>>

AcceptUnregister(c) ==
  /\ hubTask = Idle
  /\ hubTask' = Unregistering(c)
  /\ UNCHANGED <<clients, members, liveRooms, joined, broadcast, send, closed, panicked>>

\* Mutant: a room is deleted when its last client is looked up, not removed.
EmptiedBefore(c, R) == {r \in R \cap liveRooms : members[r] = {}}

\* The rooms left without members when client c leaves the rooms R.
Emptied(c, R) == {r \in R \cap liveRooms : members[r] \subseteq {c}}

\* Mutant: the rooms of the client keep it as a member.
ForgetButNotInRooms(c) ==
  /\ clients' = clients \ {c}
  /\ closed' = closed \cup {c}
  /\ UNCHANGED <<members, liveRooms>>

\* The client leaves the hub and every room it recorded; joined[c] is left as it is.
Forget(c) ==
  /\ clients' = clients \ {c}
  /\ closed' = closed \cup {c}
  /\ members' = [r \in Rooms |-> IF r \in joined[c] THEN members[r] \ {c} ELSE members[r]]
  /\ liveRooms' = liveRooms \ Emptied(c, joined[c])

Unregister(c) ==
  /\ hubTask = Unregistering(c)
  /\ c \in clients => c \notin closed
  /\ IF c \in clients THEN Forget(c) ELSE UNCHANGED <<clients, closed, members, liveRooms>>
  /\ hubTask' = Idle
  /\ UNCHANGED <<joined, broadcast, send, panicked>>

\* close(client.send) of a channel already closed when the client was dropped.
UnregisterPanics(c) ==
  /\ hubTask = Unregistering(c)
  /\ c \in clients \cap closed
  /\ Panic

TakeBroadcast ==
  /\ hubTask = Idle
  /\ broadcast # << >>
  /\ hubTask' = Relaying(Head(broadcast))
  /\ broadcast' = Tail(broadcast)
  /\ UNCHANGED <<clients, members, liveRooms, joined, send, closed, panicked>>

Recipients(m) == members[m.room] \ {m.sender}

\* Mutant: one message too many.
FullOneLater(c) == Len(send[c]) > SendCap

Full(c) == Len(send[c]) >= SendCap

\* Everyone in the room but the sender gets the message; a client whose queue
\* is full is dropped: its queue is closed and it leaves this room, though not
\* Hub.clients nor its own record, and the room stays even when now empty.
Relay ==
  /\ hubTask.op = "relay"
  /\ LET m == hubTask.message
         slow == {c \in Recipients(m) : Full(c)}
     IN  /\ Recipients(m) \cap closed = {}
         /\ send' = [c \in Conns |->
                       IF c \in Recipients(m) \ slow THEN Append(send[c], m) ELSE send[c]]
         /\ closed' = closed \cup slow
         /\ members' = [members EXCEPT ![m.room] = @ \ slow]
  /\ hubTask' = Idle
  /\ UNCHANGED <<clients, liveRooms, joined, broadcast, panicked>>

\* A member of the room was dropped from another room before, or has joined
\* this one again since: its queue is closed.
RelayPanics ==
  /\ hubTask.op = "relay"
  /\ Recipients(hubTask.message) \cap closed # {}
  /\ Panic

-----------------------------------------------------------------------------
(***************************************************************************)
(* What the goroutines of the connections call.                            *)
(***************************************************************************)
JoinRoom(c, r) ==
  /\ members' = [members EXCEPT ![r] = @ \cup {c}]
  /\ liveRooms' = liveRooms \cup {r}
  /\ joined' = [joined EXCEPT ![c] = @ \cup {r}]
  /\ UNCHANGED <<clients, broadcast, send, closed, hubTask, panicked>>

LeaveRoom(c, r) ==
  /\ members' = [members EXCEPT ![r] = @ \ {c}]
  /\ liveRooms' = liveRooms \ Emptied(c, {r})
  /\ joined' = [joined EXCEPT ![c] = @ \ {r}]
  /\ UNCHANGED <<clients, broadcast, send, closed, hubTask, panicked>>

\* Waits while the queue is full.
BroadcastToRoom(m) ==
  /\ Len(broadcast) < BroadcastCap
  /\ broadcast' = Append(broadcast, m)
  /\ UNCHANGED <<clients, members, liveRooms, joined, send, closed, hubTask, panicked>>

\* Client.safeSend (client.go:315): true when there is room, false when the
\* queue is full or closed; the panic of a closed queue is recovered from.
CanSend(c) == c \notin closed /\ ~Full(c)

SafeSend(c, m) ==
  /\ CanSend(c)
  /\ send' = [send EXCEPT ![c] = Append(@, m)]
  /\ UNCHANGED <<clients, members, liveRooms, joined, broadcast, closed, hubTask, panicked>>

\* WritePump receives from Client.send.
Receive(c) ==
  /\ send[c] # << >>
  /\ send' = [send EXCEPT ![c] = Tail(@)]
  /\ UNCHANGED <<clients, members, liveRooms, joined, broadcast, closed, hubTask, panicked>>

\* Everything that happens to the hub.
HubNext ==
  \/ \E c \in Conns :
       \/ AcceptRegister(c) \/ Register(c)
       \/ AcceptUnregister(c) \/ Unregister(c) \/ UnregisterPanics(c)
       \/ \E r \in Rooms : JoinRoom(c, r) \/ LeaveRoom(c, r)
       \/ \E m \in Message : SafeSend(c, m)
       \/ Receive(c)
  \/ \E m \in Message : BroadcastToRoom(m)
  \/ TakeBroadcast
  \/ Relay
  \/ RelayPanics

\* GetRoomCount, GetClientCount and GetLiveRoomCount report these counts.
GetRoomCount(r) == Cardinality(members[r])
GetClientCount == Cardinality(clients)
GetLiveRoomCount == Cardinality(liveRooms)
=============================================================================
