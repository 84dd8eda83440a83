-------------------------- MODULE VoiceConnection --------------------------
(***************************************************************************)
(* The app's connection to a channel: WebSocketService                     *)
(* (frontend/lib/core/websocket/websocket_service.dart) and the part of    *)
(* VoiceScreen that connects, reconnects and asks for what was missed.     *)
(* Every action is what runs from one await to the next; a call of         *)
(* _connectWebSocket waits for the old socket to close, for a token and    *)
(* for the handshake, and the timers, the sockets, the button and dispose  *)
(* do not wait for it.                                                     *)
(*                                                                         *)
(* The server is what VoiceRelay shows of it to a client: chunks are       *)
(* numbered, buffered, and relayed in order of their numbers (RelayOrder)  *)
(* to all but their sender; a replay is what the buffer has after a number,*)
(* without holes (NoHoles), queued one by one while live audio goes on,    *)
(* and may be cut short.  A server that restarts has nothing buffered and  *)
(* numbers from 1 again, while the app keeps its _lastSequence.            *)
(***************************************************************************)
EXTENDS Naturals, Sequences, FiniteSets, SequencesExt

CONSTANTS
  Calls,         \* bound: the calls of _connectWebSocket
  Sockets,       \* bound: the sockets that are not closed
  NoSocket,      \* _channel = null; a sender other than the app
  MaxAttempts,   \* _maxReconnectAttempts, 5
  MaxSeq,        \* bound: the chunks sent to one server
  MaxRestarts    \* bound: the restarts of the server

ASSUME ConnectionAssumption ==
  /\ NoSocket \notin Sockets
  /\ MaxAttempts \in Nat \ {0}
  /\ MaxSeq \in Nat
  /\ MaxRestarts \in Nat

VARIABLES
  mounted,       \* the screen is shown
  opened,        \* _init has come to its call of _connectWebSocket
  call,          \* call[c]: what call c of _connectWebSocket waits for
  opening,       \* opening[c]: the socket it waits for
  timer,         \* _reconnectTimer is armed
  attempts,      \* _reconnectAttempts
  failed,        \* _connectionFailed: the retry button is shown
  error,         \* _connectionError: the user is told
  subscribed,    \* _wsSubscription listens to the service's messages
  connected,     \* WebSocketService._isConnected
  channel,       \* WebSocketService._channel
  disposing,     \* dispose waits for the socket to close
  socket,        \* socket[s]: the state of a socket
  inbox,         \* inbox[s]: the sequences on their way; 0 ends a replay
  asked,         \* asked[s]: the sequence a replay was asked from, 0 for none
  replay,        \* replay[s]: what of a replay is still to be queued, 0 the last
  lastSequence,  \* _lastSequence
  buffered, relayed, evicted,   \* the server has numbered, sent, forgotten up to
  restarts,      \* the restarts of the server
  received,      \* the sequences of this server the screen handled
  excused,       \* those the app sent, and those forgotten when it asked for them
  whole,         \* every replay of this server was received to its end
  before         \* the highest sequence heard of a server before this one

screenVars == <<mounted, opened, timer, attempts, failed, error, subscribed>>
callVars == <<call, opening>>
serviceVars == <<connected, channel, disposing, socket>>
wireVars == <<inbox, asked, replay>>
serverVars == <<buffered, relayed, evicted, restarts>>
heardVars == <<lastSequence, received, excused, whole, before>>
vars == <<screenVars, callVars, serviceVars, wireVars, serverVars, heardVars>>

Init ==
  /\ mounted = TRUE
  /\ opened = FALSE
  /\ call = [c \in Calls |-> "idle"]
  /\ opening = [c \in Calls |-> NoSocket]
  /\ timer = FALSE /\ attempts = 0 /\ failed = FALSE /\ error = FALSE
  /\ subscribed = FALSE
  /\ connected = FALSE /\ channel = NoSocket /\ disposing = FALSE
  /\ socket = [s \in Sockets |-> "closed"]
  /\ inbox = [s \in Sockets |-> << >>]
  /\ asked = [s \in Sockets |-> 0]
  /\ replay = [s \in Sockets |-> {}]
  /\ buffered = 0 /\ relayed = 0 /\ evicted = 0 /\ restarts = 0
  /\ lastSequence = 0 /\ received = {} /\ excused = {} /\ whole = TRUE /\ before = 0

\* "orphaned": of a server that is gone, which the app does not know yet.
Open(s) == socket[s] \in {"open", "joined", "orphaned"}

\* The socket is not yet done with, as far as the app knows.
Live(s) == Open(s) \/ socket[s] = "failing"

\* A replay was asked for over socket s and has not been received to its end.
ReplayPending(s) ==
  socket[s] # "orphaned" /\ (asked[s] > 0 \/ 0 \in replay[s] \cup ToSet(inbox[s]))

-----------------------------------------------------------------------------
(***************************************************************************)
(* _connectWebSocket.                                                      *)
(***************************************************************************)
\* disconnect, up to its await: sink.close.
CloseChannel ==
  socket' = [s \in Sockets |-> IF s = channel /\ Live(s) THEN "closing" ELSE socket[s]]

BeginConnect(c) ==
  /\ call[c] = "idle"
  /\ IF connected
     THEN UNCHANGED <<call, subscribed, socket>>
     ELSE /\ call' = [call EXCEPT ![c] = "closing"]
          /\ subscribed' = FALSE
          /\ CloseChannel
  /\ UNCHANGED <<opening, connected, channel, disposing>>

\* The end of disconnect.
ForgetChannel ==
  /\ channel' = NoSocket
  /\ connected' = FALSE

OldChannelClosed(c) ==
  /\ call[c] = "closing"
  /\ ForgetChannel
  /\ call' = [call EXCEPT ![c] = "token"]
  /\ UNCHANGED <<opening, disposing, socket, screenVars, wireVars, serverVars, heardVars>>

\* Mutant: the limit of the attempts is tested when there is nothing to test.
OutOfAttemptsLate == attempts > MaxAttempts

OutOfAttempts == attempts >= MaxAttempts

\* _scheduleReconnect
ScheduleReconnect ==
  IF ~mounted \/ timer
  THEN UNCHANGED <<timer, attempts, failed, error>>
  ELSE /\ error' = TRUE
       /\ IF OutOfAttempts
          THEN failed' = TRUE /\ UNCHANGED <<timer, attempts>>
          ELSE timer' = TRUE /\ attempts' = attempts + 1 /\ UNCHANGED failed

\* Mutant: without a session nothing is scheduled.
GiveUp == UNCHANGED <<timer, attempts, failed, error>>

RetryWithoutToken == ScheduleReconnect

\* getValidToken returns null: there is no session, or it cannot be renewed.
NoToken(c) ==
  /\ call[c] = "token"
  /\ call' = [call EXCEPT ![c] = "idle"]
  /\ RetryWithoutToken
  /\ UNCHANGED <<opening, mounted, opened, subscribed>>
  /\ UNCHANGED <<serviceVars, wireVars, serverVars, heardVars>>

\* The access token has expired and the request that renews it throws.
TokenThrows(c) ==
  /\ call[c] = "token"
  /\ call' = [call EXCEPT ![c] = "threw"]
  /\ UNCHANGED <<opening, screenVars, serviceVars, wireVars, serverVars, heardVars>>

\* connect opens a socket.  It would first close one still connected, which
\* there is none of while no other call is under way (OneConnection).
TokenValid(c, s) ==
  /\ call[c] = "token"
  /\ socket[s] = "closed"
  /\ call' = [call EXCEPT ![c] = "ready"]
  /\ opening' = [opening EXCEPT ![c] = s]
  /\ socket' = [socket EXCEPT ![s] = "opening"]
  /\ UNCHANGED <<connected, channel, disposing, screenVars, wireVars, serverVars, heardVars>>

EndCall(c) ==
  /\ call' = [call EXCEPT ![c] = "idle"]
  /\ opening' = [opening EXCEPT ![c] = NoSocket]

\* The handshake fails or takes longer than apiTimeout.
HandshakeFails(c) ==
  /\ call[c] = "ready"
  /\ EndCall(c)
  /\ socket' = [socket EXCEPT ![opening[c]] = "closed"]
  /\ ScheduleReconnect
  /\ UNCHANGED <<connected, channel, disposing, mounted, opened, subscribed>>
  /\ UNCHANGED <<wireVars, serverVars, heardVars>>

\* Mutant: the replay starts after the first chunk that was missed.
ReplayFromNext == lastSequence + 1

\* since_sequence of requestReplay; 0 stands for no request.
ReplaySince == lastSequence

\* When the screen is gone, the service's closed stream refuses the message
\* "connected", and the socket stays.
HandshakeDone(c) ==
  /\ call[c] = "ready"
  /\ EndCall(c)
  /\ socket' = [socket EXCEPT ![opening[c]] = "open"]
  /\ channel' = opening[c]
  /\ connected' = TRUE
  /\ IF mounted
     THEN /\ subscribed' = TRUE
          /\ asked' = [asked EXCEPT ![opening[c]] = ReplaySince]
          /\ error' = FALSE /\ failed' = FALSE /\ attempts' = 0
     ELSE UNCHANGED <<subscribed, asked, error, failed, attempts>>
  /\ UNCHANGED <<disposing, mounted, opened, timer, inbox, replay, serverVars, heardVars>>

-----------------------------------------------------------------------------
(***************************************************************************)
(* Who calls _connectWebSocket: _init, the timer, the retry button.        *)
(***************************************************************************)
OpenScreen(c) ==
  /\ ~opened
  /\ opened' = TRUE
  /\ BeginConnect(c)
  /\ UNCHANGED <<mounted, timer, attempts, failed, error, wireVars, serverVars, heardVars>>

TimerFires(c) ==
  /\ timer
  /\ timer' = FALSE
  /\ BeginConnect(c)
  /\ UNCHANGED <<mounted, opened, attempts, failed, error, wireVars, serverVars, heardVars>>

\* Mutant: the retry button stays while the connection is retried.
KeepRetryButton == UNCHANGED failed

HideRetryButton == failed' = FALSE

RetryConnection(c) ==
  /\ mounted /\ failed /\ ~timer
  /\ HideRetryButton
  /\ error' = FALSE
  /\ attempts' = 0
  /\ BeginConnect(c)
  /\ UNCHANGED <<mounted, opened, timer, wireVars, serverVars, heardVars>>

-----------------------------------------------------------------------------
(***************************************************************************)
(* What the sockets deliver.                                               *)
(***************************************************************************)
MaxOf(m, n) == IF m > n THEN m ELSE n

\* Nobody listens to a message while the screen is not subscribed.
Receive(s) ==
  /\ Open(s)
  /\ inbox[s] # << >>
  /\ inbox' = [inbox EXCEPT ![s] = Tail(@)]
  /\ LET seq == Head(inbox[s])
     IN  IF subscribed /\ seq > 0
         THEN /\ lastSequence' = MaxOf(lastSequence, seq)
              /\ IF socket[s] = "orphaned"
                 THEN before' = MaxOf(before, seq) /\ UNCHANGED received
                 ELSE received' = received \cup {seq} /\ UNCHANGED before
         ELSE UNCHANGED <<lastSequence, received, before>>
  /\ UNCHANGED <<asked, replay, excused, whole>>
  /\ UNCHANGED <<screenVars, callVars, serviceVars, serverVars>>

\* Whatever was on its way is lost.
Lose(s) ==
  /\ inbox' = [inbox EXCEPT ![s] = << >>]
  /\ asked' = [asked EXCEPT ![s] = 0]
  /\ replay' = [replay EXCEPT ![s] = {}]
  /\ whole' = (whole /\ ~ReplayPending(s))
  /\ UNCHANGED <<lastSequence, received, excused, before>>

OnError(s) ==
  /\ Open(s)
  /\ socket' = [socket EXCEPT ![s] = "failing"]
  /\ connected' = FALSE
  /\ error' = (error \/ subscribed)
  /\ Lose(s)
  /\ UNCHANGED <<channel, disposing, mounted, opened, timer, attempts, failed, subscribed>>
  /\ UNCHANGED <<callVars, serverVars>>

\* The socket is closed, by the network, the server or the app.
OnDone(s) ==
  /\ Live(s) \/ socket[s] = "closing"
  /\ socket' = [socket EXCEPT ![s] = "closed"]
  /\ connected' = FALSE
  /\ IF subscribed
     THEN ScheduleReconnect
     ELSE UNCHANGED <<timer, attempts, failed, error>>
  /\ Lose(s)
  /\ UNCHANGED <<channel, disposing, mounted, opened, subscribed, callVars, serverVars>>

-----------------------------------------------------------------------------
Dispose ==
  /\ mounted
  /\ mounted' = FALSE
  /\ timer' = FALSE
  /\ subscribed' = FALSE
  /\ CloseChannel
  /\ disposing' = TRUE
  /\ UNCHANGED <<opened, attempts, failed, error, connected, channel>>
  /\ UNCHANGED <<callVars, wireVars, serverVars, heardVars>>

Disposed ==
  /\ disposing
  /\ disposing' = FALSE
  /\ ForgetChannel
  /\ UNCHANGED <<socket, screenVars, callVars, wireVars, serverVars, heardVars>>

-----------------------------------------------------------------------------
(***************************************************************************)
(* The server.                                                             *)
(***************************************************************************)
BufferChunk ==
  /\ buffered < MaxSeq
  /\ buffered' = buffered + 1
  /\ UNCHANGED <<relayed, evicted, restarts, screenVars, callVars, serviceVars, wireVars, heardVars>>

EvictChunk ==
  /\ evicted < buffered
  /\ evicted' = evicted + 1
  /\ UNCHANGED <<buffered, relayed, restarts, screenVars, callVars, serviceVars, wireVars, heardVars>>

\* The sender, which may be the app, does not get its own chunk.
RelayChunk(sender) ==
  /\ sender # NoSocket => socket[sender] = "joined"
  /\ relayed < buffered
  /\ relayed' = relayed + 1
  /\ inbox' = [s \in Sockets |-> IF socket[s] = "joined" /\ s # sender
                                 THEN Append(inbox[s], relayed + 1)
                                 ELSE inbox[s]]
  /\ excused' = IF sender # NoSocket THEN excused \cup {relayed + 1} ELSE excused
  /\ UNCHANGED <<asked, replay, buffered, evicted, restarts, screenVars, callVars, serviceVars>>
  /\ UNCHANGED <<lastSequence, received, whole, before>>

\* Everything the server knows is in its memory.  The app keeps its sequence
\* and learns of the restart from its sockets, when what was sent has arrived.
RestartServer ==
  /\ restarts < MaxRestarts
  /\ restarts' = restarts + 1
  /\ buffered' = 0 /\ relayed' = 0 /\ evicted' = 0
  /\ socket' = [s \in Sockets |-> IF Open(s) THEN "orphaned" ELSE socket[s]]
  /\ asked' = [s \in Sockets |-> 0]
  /\ replay' = [s \in Sockets |-> {}]
  /\ received' = {} /\ excused' = {} /\ whole' = TRUE
  /\ before' = lastSequence
  /\ UNCHANGED <<connected, channel, disposing, inbox, lastSequence, screenVars, callVars>>

JoinRoom(s) ==
  /\ socket[s] = "open"
  /\ socket' = [socket EXCEPT ![s] = "joined"]
  /\ UNCHANGED <<connected, channel, disposing, screenVars, callVars, wireVars>>
  /\ UNCHANGED <<serverVars, heardVars>>

\* What the buffer has after asked[s].
Missed(s) == MaxOf(asked[s], evicted) + 1 .. buffered

\* The chunks are copied, and an end packet is to follow them.
StartReplay(s) ==
  /\ socket[s] = "joined"
  /\ asked[s] > 0
  /\ asked' = [asked EXCEPT ![s] = 0]
  /\ replay' = [replay EXCEPT ![s] = IF Missed(s) = {} THEN {} ELSE Missed(s) \cup {0}]
  /\ excused' = excused \cup (asked[s] + 1 .. evicted)
  /\ UNCHANGED <<inbox, lastSequence, received, whole, before>>
  /\ UNCHANGED <<screenVars, callVars, serviceVars, serverVars>>

\* One of them after the other is queued for the client.
PushReplay(s) ==
  /\ \E m \in replay[s] :
       /\ \A n \in replay[s] \ {m} : n = 0 \/ (0 < m /\ m < n)
       /\ replay' = [replay EXCEPT ![s] = @ \ {m}]
       /\ inbox' = [inbox EXCEPT ![s] = Append(@, m)]
  /\ UNCHANGED <<asked, screenVars, callVars, serviceVars, serverVars, heardVars>>

\* The client's queue in the server is full.
ReplayCutShort(s) ==
  /\ replay[s] # {}
  /\ replay' = [replay EXCEPT ![s] = {}]
  /\ whole' = FALSE
  /\ UNCHANGED <<inbox, asked, lastSequence, received, excused, before>>
  /\ UNCHANGED <<screenVars, callVars, serviceVars, serverVars>>

-----------------------------------------------------------------------------
\* What a call of _connectWebSocket does without the user.
ConnectStep(c) ==
  \/ OldChannelClosed(c)
  \/ NoToken(c) \/ TokenThrows(c) \/ \E s \in Sockets : TokenValid(c, s)
  \/ HandshakeFails(c) \/ HandshakeDone(c)

Next ==
  \/ \E c \in Calls :
       OpenScreen(c) \/ TimerFires(c) \/ RetryConnection(c) \/ ConnectStep(c)
  \/ \E s \in Sockets :
       \/ Receive(s) \/ OnError(s) \/ OnDone(s)
       \/ JoinRoom(s) \/ StartReplay(s) \/ PushReplay(s) \/ ReplayCutShort(s)
  \/ Dispose \/ Disposed
  \/ BufferChunk \/ EvictChunk \/ RestartServer
  \/ \E sender \in Sockets \cup {NoSocket} : RelayChunk(sender)

(***************************************************************************)
(* The event loop runs what is due, the requests for a token and for a     *)
(* handshake end after apiTimeout at the latest, and a socket that failed  *)
(* is done.  Nothing is assumed of the network and the user.               *)
(***************************************************************************)
Fairness ==
  /\ \A c \in Calls :
       WF_vars(ConnectStep(c)) /\ WF_vars(OpenScreen(c)) /\ WF_vars(TimerFires(c))
  /\ \A s \in Sockets : WF_vars(socket[s] = "failing" /\ OnDone(s))

Spec == Init /\ [][Next]_vars

FairSpec == Spec /\ Fairness

-----------------------------------------------------------------------------
CallStates == {"idle", "closing", "token", "ready", "threw"}
SocketStates == {"closed", "opening", "open", "joined", "orphaned", "failing", "closing"}

AppTypeOK ==
  /\ mounted \in BOOLEAN /\ opened \in BOOLEAN /\ timer \in BOOLEAN
  /\ failed \in BOOLEAN /\ error \in BOOLEAN /\ subscribed \in BOOLEAN
  /\ connected \in BOOLEAN /\ disposing \in BOOLEAN
  /\ attempts \in 0 .. MaxAttempts
  /\ call \in [Calls -> CallStates]
  /\ opening \in [Calls -> Sockets \cup {NoSocket}]
  /\ channel \in Sockets \cup {NoSocket}
  /\ socket \in [Sockets -> SocketStates]

WireTypeOK ==
  /\ inbox \in [Sockets -> Seq(0 .. MaxSeq)]
  /\ asked \in [Sockets -> 0 .. MaxSeq]
  /\ replay \in [Sockets -> SUBSET (0 .. MaxSeq)]
  /\ lastSequence \in 0 .. MaxSeq
  /\ buffered \in 0 .. MaxSeq /\ relayed \in 0 .. buffered /\ evicted \in 0 .. buffered
  /\ received \subseteq 1 .. MaxSeq
  /\ excused \subseteq 1 .. MaxSeq
  /\ whole \in BOOLEAN
  /\ restarts \in 0 .. MaxRestarts
  /\ before \in 0 .. lastSequence

ConnectionTypeOK == AppTypeOK /\ WireTypeOK

Underway == {c \in Calls : call[c] \in {"closing", "token", "ready"}}

(***************************************************************************)
(* One connection at a time: while the screen is shown, only one call      *)
(* connects, none does while connected or with the timer set, and the one  *)
(* socket that is open is the one the screen listens to and sends over.    *)
(* Nothing in the code locks this: it rests on who calls when.             *)
(***************************************************************************)
OneConnection ==
  mounted =>
    /\ Cardinality(Underway) <= 1
    /\ connected \/ timer \/ failed => Underway = {}
    /\ \A s \in Sockets : Live(s) => s = channel /\ subscribed /\ ~timer
    /\ connected <=> \E s \in Sockets : Open(s)

\* The screen is shown, is not connected, and nothing is under way.
Waiting ==
  /\ mounted /\ opened /\ ~connected
  /\ Underway = {}
  /\ \A s \in Sockets : ~Live(s)

\* The timer or the user will try again, and the user knows.
WillReconnect == (timer \/ failed) /\ error

(***************************************************************************)
(* Whatever goes wrong, the screen either has its timer set or offers the  *)
(* retry button, and says so; unless a call ended with an exception.       *)
(***************************************************************************)
ReconnectPending ==
  Waiting /\ (\A c \in Calls : call[c] # "threw") => WillReconnect

(***************************************************************************)
(* RF06: as long as every replay was received to its end before the next   *)
(* loss, nothing between the first chunk heard and the last is missing but *)
(* what the app sent itself and what the server had forgotten, however the *)
(* losses, the replays and the live audio, which moves _lastSequence ahead *)
(* of the replay, interleave.                                              *)
(* After a restart the app takes the new server's chunks for old ones up   *)
(* to the number it had come to, and never asks for those it lost of them; *)
(* from there on nothing is missing again.                                 *)
(***************************************************************************)
Missing ==
  {q \in before + 1 .. lastSequence :
     q \notin received \cup excused /\ (before > 0 \/ \E p \in received : p < q)}

NoPendingReplay == \A s \in Sockets : ~ReplayPending(s)

NothingMissing == whole /\ NoPendingReplay => Missing = {}

(***************************************************************************)
(* A screen that lost its connection gets it back or ends up offering the  *)
(* retry button, within the attempts it has, unless a call threw.          *)
(***************************************************************************)
ReconnectsOrOffers ==
  (mounted /\ ~connected) ~>
    (connected \/ failed \/ ~mounted \/ \E c \in Calls : call[c] = "threw")
=============================================================================
