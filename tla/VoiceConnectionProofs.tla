----------------------- MODULE VoiceConnectionProofs -----------------------
(***************************************************************************)
(* The app's connection, for any number of calls of _connectWebSocket,     *)
(* sockets, attempts and chunks.                                           *)
(***************************************************************************)
EXTENDS VoiceConnection, FiniteSetTheorems, SequenceTheorems, TLAPS

Connecting(c) == call[c] \in {"closing", "token", "ready"}

NoCall == \A c \in Calls : ~Connecting(c)

(***************************************************************************)
(* While the screen is shown: one call connects at most, and whatever may  *)
(* start another (the timer, the retry button, a socket that is still to   *)
(* end) is not there while it does, nor two of them at a time.             *)
(***************************************************************************)
ConnectionInv ==
  mounted =>
    /\ \A c, d \in Calls : Connecting(c) /\ Connecting(d) => c = d
    /\ \A c \in Calls :
         call[c] = "ready" => opening[c] \in Sockets /\ socket[opening[c]] = "opening"
    /\ \A s \in Sockets :
         Live(s) => s = channel /\ subscribed /\ opened /\ ~timer /\ ~failed /\ NoCall
    /\ connected <=> \E s \in Sockets : Open(s)
    /\ \A s \in Sockets : socket[s] # "closing"
    /\ timer \/ failed => opened /\ NoCall
    /\ ~(timer /\ failed)
    /\ ~opened => NoCall
    /\ ~disposing

(* The screen that waits will try again, or a call ended with an exception.*)
PendingInv ==
  mounted /\ opened /\ ~connected /\ NoCall /\ (\A s \in Sockets : ~Live(s)) =>
    WillReconnect \/ \E c \in Calls : call[c] = "threw"

AppInv == AppTypeOK /\ ConnectionInv /\ PendingInv

AppVarsUnchanged == UNCHANGED <<screenVars, callVars, serviceVars>>

-----------------------------------------------------------------------------
(* The attempts stay within their limit.                                   *)
LEMMA NoAttempts == 0 \in 0 .. MaxAttempts
  BY ConnectionAssumption DEF ConnectionAssumption

LEMMA NextAttempt ==
  ASSUME attempts \in 0 .. MaxAttempts, ~OutOfAttempts
  PROVE  attempts + 1 \in 0 .. MaxAttempts
  BY ConnectionAssumption DEF ConnectionAssumption, OutOfAttempts

LEMMA ScheduleTypes ==
  ASSUME AppTypeOK, ScheduleReconnect
  PROVE  /\ attempts' \in 0 .. MaxAttempts
         /\ timer' \in BOOLEAN /\ failed' \in BOOLEAN /\ error' \in BOOLEAN
  BY NextAttempt DEF AppTypeOK, ScheduleReconnect

LEMMA InitAppInv == Init => AppInv
<1> SUFFICES ASSUME Init PROVE AppInv
  OBVIOUS
<1>1. AppTypeOK
  BY NoAttempts DEF Init, AppTypeOK, CallStates, SocketStates
<1>2. ConnectionInv
  BY DEF Init, ConnectionInv, Connecting, NoCall, Live, Open
<1>3. PendingInv
  BY DEF Init, PendingInv
<1> QED
  BY <1>1, <1>2, <1>3 DEF AppInv

(* Messages, chunks and the server do not touch the app's connection.      *)
LEMMA AppUnchanged ==
  ASSUME AppInv, AppVarsUnchanged
  PROVE  AppInv'
  BY DEF AppVarsUnchanged, screenVars, callVars, serviceVars, AppInv, AppTypeOK,
         ConnectionInv, PendingInv, WillReconnect, Connecting, NoCall, Live, Open

(* The timer, the retry button and _init start a call: there was none.     *)
LEMMA BeginConnectKeepsAppInv ==
  ASSUME AppInv, NEW c \in Calls,
         OpenScreen(c) \/ TimerFires(c) \/ RetryConnection(c)
  PROVE  AppInv'
<1> USE DEF AppInv, BeginConnect, CloseChannel, HideRetryButton
<1>1. AppTypeOK'
  BY NoAttempts DEF AppTypeOK, CallStates, SocketStates,
    OpenScreen, TimerFires, RetryConnection
<1>2. ConnectionInv'
  BY ZenonT(40) DEF AppTypeOK, ConnectionInv, Connecting, NoCall, Live, Open,
    OpenScreen, TimerFires, RetryConnection
<1>3. PendingInv'
  BY DEF AppTypeOK, ConnectionInv, PendingInv, WillReconnect, Connecting, NoCall, Live, Open,
    OpenScreen, TimerFires, RetryConnection
<1> QED
  BY <1>1, <1>2, <1>3

(* A call of _connectWebSocket at one of its awaits.                       *)
LEMMA ConnectStepKeepsAppInv ==
  ASSUME AppInv, NEW c \in Calls, ConnectStep(c)
  PROVE  AppInv'
<1> USE DEF AppInv, AppTypeOK, CallStates, SocketStates, screenVars
<1>1. CASE OldChannelClosed(c)
  BY <1>1 DEF OldChannelClosed, ForgetChannel, ConnectionInv, PendingInv, WillReconnect,
    Connecting, NoCall, Live, Open
<1>2. CASE NoToken(c)
  <2>1. AppTypeOK'
    BY <1>2, ScheduleTypes DEF NoToken, RetryWithoutToken, serviceVars
  <2>2. ConnectionInv' /\ PendingInv'
    BY <1>2 DEF NoToken, RetryWithoutToken, ScheduleReconnect, serviceVars,
      ConnectionInv, PendingInv, WillReconnect, Connecting, NoCall, Live, Open
  <2> QED
    BY <2>1, <2>2
<1>3. CASE TokenThrows(c)
  BY <1>3 DEF TokenThrows, serviceVars, ConnectionInv, PendingInv, WillReconnect,
    Connecting, NoCall, Live, Open
<1>4. ASSUME NEW s \in Sockets, TokenValid(c, s)
      PROVE  AppInv'
  BY <1>4 DEF TokenValid, ConnectionInv, PendingInv, WillReconnect,
    Connecting, NoCall, Live, Open
<1>5. CASE HandshakeFails(c)
  <2>1. AppTypeOK'
    BY <1>5, ScheduleTypes DEF HandshakeFails, EndCall
  <2>2. ConnectionInv' /\ PendingInv'
    BY <1>5 DEF HandshakeFails, EndCall, ScheduleReconnect,
      ConnectionInv, PendingInv, WillReconnect, Connecting, NoCall, Live, Open
  <2> QED
    BY <2>1, <2>2
<1>6. CASE HandshakeDone(c)
  <2>1. AppTypeOK'
    BY <1>6, NoAttempts DEF HandshakeDone, EndCall, ConnectionInv
  <2>2. ConnectionInv' /\ PendingInv'
    BY <1>6 DEF HandshakeDone, EndCall,
      ConnectionInv, PendingInv, WillReconnect, Connecting, NoCall, Live, Open
  <2> QED
    BY <2>1, <2>2
<1> QED
  BY <1>1, <1>2, <1>3, <1>4, <1>5, <1>6 DEF ConnectStep

(* A socket that fails, and one that is done.                              *)
LEMMA SocketEndKeepsAppInv ==
  ASSUME AppInv, NEW s \in Sockets, OnError(s) \/ OnDone(s)
  PROVE  AppInv'
<1> USE DEF AppInv, AppTypeOK, CallStates, SocketStates, callVars
<1>1. CASE OnError(s)
  BY <1>1 DEF OnError, ConnectionInv, PendingInv, WillReconnect,
    Connecting, NoCall, Live, Open
<1>2. CASE OnDone(s)
  <2>1. AppTypeOK'
    BY <1>2, ScheduleTypes DEF OnDone
  <2>2. ConnectionInv'
    BY <1>2 DEF OnDone, ScheduleReconnect, ConnectionInv, Connecting, NoCall, Live, Open
  <2>3. PendingInv'
    BY <1>2 DEF OnDone, ScheduleReconnect, ConnectionInv, PendingInv, WillReconnect,
      Connecting, NoCall, Live, Open
  <2> QED
    BY <2>1, <2>2, <2>3
<1> QED
  BY <1>1, <1>2

(* What is left: dispose, and the server that takes a socket into its room *)
(* or restarts, which the app does not notice.                             *)
LEMMA OtherStepsKeepAppInv ==
  ASSUME AppInv, Dispose \/ Disposed \/ RestartServer \/ \E s \in Sockets : JoinRoom(s)
  PROVE  AppInv'
<1> USE DEF AppInv, AppTypeOK, CallStates, SocketStates, callVars, screenVars
<1>1. CASE Dispose
  BY <1>1 DEF Dispose, CloseChannel, ConnectionInv, PendingInv
<1>2. CASE Disposed
  BY <1>2, ConnectionAssumption DEF Disposed, ForgetChannel, ConnectionInv, PendingInv
<1>3. ASSUME NEW s \in Sockets, JoinRoom(s)
      PROVE  AppInv'
  BY <1>3 DEF JoinRoom, ConnectionInv, PendingInv, WillReconnect,
    Connecting, NoCall, Live, Open
<1>4. CASE RestartServer
  BY <1>4 DEF RestartServer, ConnectionInv, PendingInv, WillReconnect,
    Connecting, NoCall, Live, Open
<1> QED
  BY <1>1, <1>2, <1>3, <1>4

LEMMA StepKeepsAppInv ==
  ASSUME AppInv, [Next]_vars
  PROVE  AppInv'
<1>1. ASSUME NEW c \in Calls, OpenScreen(c) \/ TimerFires(c) \/ RetryConnection(c)
      PROVE  AppInv'
  BY <1>1, BeginConnectKeepsAppInv
<1>2. ASSUME NEW c \in Calls, ConnectStep(c)
      PROVE  AppInv'
  BY <1>2, ConnectStepKeepsAppInv
<1>3. ASSUME NEW s \in Sockets, OnError(s) \/ OnDone(s)
      PROVE  AppInv'
  BY <1>3, SocketEndKeepsAppInv
<1>4. ASSUME NEW s \in Sockets,
             Receive(s) \/ StartReplay(s) \/ PushReplay(s) \/ ReplayCutShort(s)
      PROVE  AppInv'
  BY <1>4, AppUnchanged
  DEF Receive, StartReplay, PushReplay, ReplayCutShort, AppVarsUnchanged,
      screenVars, callVars, serviceVars
<1>5. CASE \/ BufferChunk \/ EvictChunk \/ UNCHANGED vars
           \/ \E sender \in Sockets \cup {NoSocket} : RelayChunk(sender)
  BY <1>5, AppUnchanged
  DEF BufferChunk, EvictChunk, RelayChunk, vars, AppVarsUnchanged,
      screenVars, callVars, serviceVars
<1>6. CASE Dispose \/ Disposed \/ RestartServer \/ \E s \in Sockets : JoinRoom(s)
  BY <1>6, OtherStepsKeepAppInv
<1> QED
  BY <1>1, <1>2, <1>3, <1>4, <1>5, <1>6 DEF Next

(* The invariant of the app's side of the connection.                      *)
THEOREM AppInvariant == Spec => []AppInv
<1>1. Init => AppInv
  BY InitAppInv
<1>2. AppInv /\ [Next]_vars => AppInv'
  BY StepKeepsAppInv
<1> QED
  BY <1>1, <1>2, PTL DEF Spec

-----------------------------------------------------------------------------
(* At most one call connects at a time, and the one socket that is open is *)
(* the one the screen uses, however losses, timers, the retry button and   *)
(* slow handshakes interleave.                                             *)
THEOREM OneConnectionTheorem == Spec => []OneConnection
<1>1. ASSUME AppInv
      PROVE  OneConnection
  <2> SUFFICES ASSUME mounted PROVE OneConnection
    BY DEF OneConnection
  <2>1. Cardinality(Underway) <= 1
    <3>1. CASE Underway = {}
      BY <3>1, FS_EmptySet
    <3>2. CASE Underway # {}
      <4>1. PICK c \in Underway : TRUE
        BY <3>2
      <4>2. Underway = {c}
        BY <1>1, <4>1 DEF AppInv, ConnectionInv, Connecting, Underway
      <4>3. Cardinality(Underway) = 1
        BY <4>2, FS_Singleton
      <4> QED
        BY <4>3
    <3> QED
      BY <3>1, <3>2
  <2>2. NoCall => Underway = {}
    BY DEF NoCall, Connecting, Underway
  <2>3. connected => NoCall
    BY <1>1 DEF AppInv, ConnectionInv, Live
  <2> QED
    BY <1>1, <2>1, <2>2, <2>3 DEF AppInv, ConnectionInv, OneConnection
<1> QED
  BY <1>1, AppInvariant, PTL

(* A screen without a connection has its timer set or offers the retry     *)
(* button, unless renewing the token threw.                                *)
THEOREM ReconnectTheorem == Spec => []ReconnectPending
<1>1. AppInv => ReconnectPending
  BY DEF AppInv, PendingInv, ReconnectPending, Waiting, Underway, NoCall, Connecting
<1> QED
  BY <1>1, AppInvariant, PTL

-----------------------------------------------------------------------------
(* What is on the wire, at the server and heard.                           *)
LEMMA InitWireTypes == Init => WireTypeOK
<1> SUFFICES ASSUME Init PROVE WireTypeOK
  OBVIOUS
<1>1. /\ 0 \in 0 .. MaxSeq /\ 0 \in 0 .. 0 /\ 0 \in 0 .. MaxRestarts
      /\ << >> \in Seq(0 .. MaxSeq)
  BY ConnectionAssumption DEF ConnectionAssumption
<1> QED
  BY <1>1 DEF Init, WireTypeOK

WireUnchanged == UNCHANGED <<wireVars, serverVars, heardVars>>

LEMMA WireKept ==
  ASSUME WireTypeOK, WireUnchanged
  PROVE  WireTypeOK'
  BY DEF WireUnchanged, wireVars, serverVars, heardVars, WireTypeOK

LEMMA ReceiveKeepsWireTypes ==
  ASSUME WireTypeOK, NEW s \in Sockets, Receive(s)
  PROVE  WireTypeOK'
<1> DEFINE seq == Head(inbox[s])
<1>1. seq \in 0 .. MaxSeq /\ Tail(inbox[s]) \in Seq(0 .. MaxSeq)
  <2>1. inbox[s] \in Seq(0 .. MaxSeq) /\ inbox[s] # << >>
    BY DEF WireTypeOK, Receive
  <2> QED
    BY <2>1, HeadTailProperties
<1>2. inbox' \in [Sockets -> Seq(0 .. MaxSeq)]
  BY <1>1 DEF WireTypeOK, Receive
<1>3. lastSequence' \in 0 .. MaxSeq /\ before' \in 0 .. lastSequence'
  BY <1>1 DEF WireTypeOK, Receive, MaxOf
<1>4. seq > 0 => seq \in 1 .. MaxSeq
  BY <1>1
<1>5. received' \subseteq 1 .. MaxSeq
  BY <1>4 DEF WireTypeOK, Receive
<1> QED
  BY <1>2, <1>3, <1>5 DEF WireTypeOK, Receive, serverVars

LEMMA LossKeepsWireTypes ==
  ASSUME WireTypeOK, NEW s \in Sockets, OnError(s) \/ OnDone(s)
  PROVE  WireTypeOK'
<1>1. 0 \in 0 .. MaxSeq /\ << >> \in Seq(0 .. MaxSeq)
  BY ConnectionAssumption DEF ConnectionAssumption
<1>2. Lose(s) /\ UNCHANGED serverVars
  BY DEF OnError, OnDone
<1>3. /\ inbox' \in [Sockets -> Seq(0 .. MaxSeq)] /\ asked' \in [Sockets -> 0 .. MaxSeq]
      /\ replay' \in [Sockets -> SUBSET (0 .. MaxSeq)]
  BY <1>1, <1>2 DEF Lose, WireTypeOK
<1>4. whole' \in BOOLEAN
  BY <1>2 DEF Lose, WireTypeOK
<1> QED
  BY <1>2, <1>3, <1>4 DEF Lose, WireTypeOK, serverVars

LEMMA ServerKeepsWireTypes ==
  ASSUME WireTypeOK,
         \/ BufferChunk \/ EvictChunk \/ RestartServer
         \/ \E sender \in Sockets \cup {NoSocket} : RelayChunk(sender)
  PROVE  WireTypeOK'
<1>1. CASE BufferChunk
  <2>1. buffered' \in 0 .. MaxSeq /\ relayed \in 0 .. buffered' /\ evicted \in 0 .. buffered'
    BY <1>1, ConnectionAssumption DEF ConnectionAssumption, BufferChunk, WireTypeOK
  <2> QED
    BY <1>1, <2>1 DEF BufferChunk, WireTypeOK, wireVars, heardVars
<1>3. CASE EvictChunk
  <2>1. evicted' \in 0 .. buffered
    BY <1>3 DEF EvictChunk, WireTypeOK
  <2> QED
    BY <1>3, <2>1 DEF EvictChunk, WireTypeOK, wireVars, heardVars
<1>2. ASSUME NEW sender \in Sockets \cup {NoSocket}, RelayChunk(sender)
      PROVE  WireTypeOK'
  <2>1. relayed + 1 \in 1 .. MaxSeq /\ relayed + 1 \in 0 .. buffered
    BY <1>2, ConnectionAssumption DEF ConnectionAssumption, RelayChunk, WireTypeOK
  <2>2. \A s \in Sockets : Append(inbox[s], relayed + 1) \in Seq(0 .. MaxSeq)
    BY <2>1 DEF WireTypeOK
  <2>3. inbox' \in [Sockets -> Seq(0 .. MaxSeq)]
    BY <1>2, <2>2 DEF RelayChunk, WireTypeOK
  <2>4. excused' \subseteq 1 .. MaxSeq
    BY <1>2, <2>1 DEF RelayChunk, WireTypeOK
  <2> QED
    BY <1>2, <2>1, <2>3, <2>4 DEF RelayChunk, WireTypeOK
<1>4. CASE RestartServer
  <2>1. 0 \in 0 .. MaxSeq /\ 0 \in 0 .. 0
    BY ConnectionAssumption DEF ConnectionAssumption
  <2>2. restarts' \in 0 .. MaxRestarts /\ before' \in 0 .. lastSequence'
    BY <1>4, ConnectionAssumption DEF ConnectionAssumption, RestartServer, WireTypeOK
  <2> QED
    BY <1>4, <2>1, <2>2 DEF RestartServer, WireTypeOK
<1> QED
  BY <1>1, <1>2, <1>3, <1>4

(* What was missed is some of the chunks in the buffer.                    *)
LEMMA MissedTypes ==
  ASSUME WireTypeOK, NEW s \in Sockets
  PROVE  Missed(s) \subseteq 1 .. MaxSeq
  BY ConnectionAssumption DEF ConnectionAssumption, WireTypeOK, Missed, MaxOf

LEMMA ReplayKeepsWireTypes ==
  ASSUME WireTypeOK, NEW s \in Sockets,
         StartReplay(s) \/ PushReplay(s) \/ ReplayCutShort(s)
  PROVE  WireTypeOK'
<1>1. CASE StartReplay(s)
  <2>1. asked' \in [Sockets -> 0 .. MaxSeq] /\ replay' \in [Sockets -> SUBSET (0 .. MaxSeq)]
    <3>1. 0 \in 0 .. MaxSeq /\ 1 .. MaxSeq \subseteq 0 .. MaxSeq
      BY ConnectionAssumption DEF ConnectionAssumption
    <3> QED
      BY <1>1, <3>1, MissedTypes DEF StartReplay, WireTypeOK
  <2>2. excused' \subseteq 1 .. MaxSeq
    <3>1. asked[s] \in Nat /\ evicted \in 0 .. MaxSeq
      BY ConnectionAssumption DEF ConnectionAssumption, WireTypeOK
    <3>2. asked[s] + 1 .. evicted \subseteq 1 .. MaxSeq
      BY <3>1, ConnectionAssumption DEF ConnectionAssumption
    <3> QED
      BY <1>1, <3>2 DEF StartReplay, WireTypeOK
  <2> QED
    BY <1>1, <2>1, <2>2 DEF StartReplay, WireTypeOK, serverVars
<1>2. ASSUME NEW m \in replay[s],
             replay' = [replay EXCEPT ![s] = @ \ {m}], inbox' = [inbox EXCEPT ![s] = Append(@, m)],
             UNCHANGED <<asked, serverVars, heardVars>>
      PROVE  WireTypeOK'
  <2>1. Append(inbox[s], m) \in Seq(0 .. MaxSeq) /\ replay[s] \ {m} \in SUBSET (0 .. MaxSeq)
    BY DEF WireTypeOK
  <2>2. inbox' \in [Sockets -> Seq(0 .. MaxSeq)] /\ replay' \in [Sockets -> SUBSET (0 .. MaxSeq)]
    BY <1>2, <2>1 DEF WireTypeOK
  <2> QED
    BY <1>2, <2>2 DEF WireTypeOK, serverVars, heardVars
<1>3. CASE PushReplay(s)
  BY <1>2, <1>3 DEF PushReplay
<1>4. CASE ReplayCutShort(s)
  BY <1>4 DEF ReplayCutShort, WireTypeOK, serverVars
<1> QED
  BY <1>1, <1>3, <1>4

LEMMA ConnectKeepsWireTypes ==
  ASSUME WireTypeOK, NEW c \in Calls,
         OpenScreen(c) \/ TimerFires(c) \/ RetryConnection(c) \/ ConnectStep(c)
  PROVE  WireTypeOK'
<1>1. CASE HandshakeDone(c)
  <2>1. asked' \in [Sockets -> 0 .. MaxSeq]
    BY <1>1 DEF HandshakeDone, ReplaySince, WireTypeOK
  <2> QED
    BY <1>1, <2>1 DEF HandshakeDone, WireTypeOK, serverVars, heardVars
<1>2. CASE ~HandshakeDone(c)
  BY <1>2, WireKept
  DEF OpenScreen, TimerFires, RetryConnection, ConnectStep, OldChannelClosed, NoToken,
      TokenThrows, TokenValid, HandshakeFails, WireUnchanged
<1> QED
  BY <1>1, <1>2

(* Type correctness of the app's connection and of the server it sees.     *)
THEOREM ConnectionTypes == Spec => []ConnectionTypeOK
<1>1. ASSUME WireTypeOK, [Next]_vars
      PROVE  WireTypeOK'
  <2>1. CASE Dispose \/ Disposed \/ (\E s \in Sockets : JoinRoom(s)) \/ UNCHANGED vars
    BY <1>1, <2>1, WireKept
    DEF Dispose, Disposed, JoinRoom, vars, wireVars, heardVars, WireUnchanged
  <2> QED
    BY <1>1, <2>1, ConnectKeepsWireTypes, ReceiveKeepsWireTypes, LossKeepsWireTypes,
       ReplayKeepsWireTypes, ServerKeepsWireTypes DEF Next
<1>2. Spec => []WireTypeOK
  BY <1>1, InitWireTypes, PTL DEF Spec
<1>3. AppInv /\ WireTypeOK => ConnectionTypeOK
  BY DEF AppInv, ConnectionTypeOK
<1> QED
  BY <1>2, <1>3, AppInvariant, PTL
-----------------------------------------------------------------------------
(***************************************************************************)
(* Nothing is missing: what is so while messages are under way.            *)
(***************************************************************************)
\* A call that waits for a handshake has a socket of its own.
OpeningInv ==
  \A c \in Calls : call[c] = "ready" =>
    /\ opening[c] \in Sockets /\ socket[opening[c]] = "opening"
    /\ \A d \in Calls : call[d] = "ready" /\ opening[d] = opening[c] => d = c

\* Nothing is under way over a socket that is not open.
SilentInv ==
  \A s \in Sockets :
    socket[s] \in {"closed", "opening", "failing"} =>
      asked[s] = 0 /\ inbox[s] = << >> /\ replay[s] = {}

\* A replay that is not over has its end packet to come.
ReplayInv == \A s \in Sockets : replay[s] # {} => 0 \in replay[s]

\* A screen that was left listens to nothing and asks for nothing.
GoneInv ==
  ~mounted =>
    /\ ~subscribed /\ NothingMissing
    /\ \A s \in Sockets :
         Open(s) => asked[s] = 0 /\ 0 \notin ToSet(inbox[s]) /\ replay[s] = {}

\* The chunk heard first of the first server was a live one.
FirstInv ==
  before = 0 =>
    \/ \E p \in received : p <= relayed
    \/ /\ received = {} /\ lastSequence = 0
       /\ \A s \in Sockets : socket[s] = "joined" =>
            /\ asked[s] = 0 /\ replay[s] = {}
            /\ \A m \in ToSet(inbox[s]) : 0 < m /\ m <= relayed

\* What the app has heard when i more messages have arrived over s.
Given(s, i) == (received \cup {inbox[s][j] : j \in 1 .. i}) \ {0}

\* What it has heard in the end, with what is still to be queued.
All(s) == (Given(s, Len(inbox[s])) \cup replay[s]) \ {0}

\* Who hears G, and that is the last of it, misses nothing.
Closed(G) ==
  \A q \in before + 1 .. MaxSeq :
    /\ q <= lastSequence \/ \E h \in G : q <= h
    /\ before > 0 \/ \E p \in G : p < q
    => q \in G \cup excused

\* When i messages have arrived, the replay, if there was one, is over.
EndedBy(s, i) == replay[s] = {} /\ \A j \in i + 1 .. Len(inbox[s]) : inbox[s][j] # 0

\* The server has yet to answer: up to the number asked for nothing is missing.
AskedInv(s) ==
  asked[s] > 0 =>
    /\ before <= asked[s] /\ asked[s] <= lastSequence /\ replay[s] = {}
    /\ lastSequence <= asked[s] \/ lastSequence <= buffered
    /\ \A m \in ToSet(inbox[s]) : 0 < m /\ m <= relayed
    /\ whole => \A q \in before + 1 .. asked[s] :
         before > 0 \/ (\E p \in All(s) : p < q) => q \in received \cup excused

\* It has answered: nothing will be missing in the end, and nothing is from the end
\* of the replay on; and what was relayed has been heard or is to come, so that the
\* next chunk leaves no gap.
AnsweredInv(s) ==
  asked[s] = 0 /\ whole =>
    /\ Closed(All(s))
    /\ \A i \in 0 .. Len(inbox[s]) : EndedBy(s, i) => Closed(Given(s, i))
    /\ \A q \in before + 1 .. relayed :
         before > 0 \/ (\E p \in All(s) : p < q) => q \in All(s) \cup excused

ShownInv ==
  mounted =>
    /\ FirstInv
    /\ whole /\ (\A s \in Sockets : socket[s] # "joined") => Missing = {}
    /\ \A s \in Sockets :
         /\ socket[s] = "orphaned" => before = lastSequence /\ replay[s] = {}
         /\ socket[s] = "open" =>
              inbox[s] = << >> /\ asked[s] = lastSequence /\ replay[s] = {}
         /\ socket[s] = "joined" => AskedInv(s) /\ AnsweredInv(s)

HeardInv ==
  /\ received \subseteq 1 .. lastSequence
  /\ OpeningInv /\ SilentInv /\ ReplayInv /\ GoneInv /\ ShownInv

LEMMA InitHeard == Init => HeardInv
<1> SUFFICES ASSUME Init PROVE HeardInv
  OBVIOUS
<1>1. /\ received \subseteq 1 .. lastSequence
      /\ OpeningInv /\ SilentInv /\ ReplayInv /\ GoneInv /\ FirstInv
  BY DEF Init, OpeningInv, SilentInv, ReplayInv, GoneInv, FirstInv
<1>2. Missing = {}
  BY DEF Init, Missing
<1> QED
  BY <1>1, <1>2 DEF Init, HeardInv, ShownInv

LEMMA GivenTypes ==
  ASSUME WireTypeOK, NEW s \in Sockets
  PROVE  /\ Len(inbox[s]) \in Nat /\ \A j \in 1 .. Len(inbox[s]) : inbox[s][j] \in 0 .. MaxSeq
         /\ \A i \in 0 .. Len(inbox[s]) : Given(s, i) \subseteq 1 .. MaxSeq
         /\ All(s) = (received \cup ToSet(inbox[s]) \cup replay[s]) \ {0}
         /\ received \subseteq All(s)
         /\ Given(s, 0) = received
<1>1. inbox[s] \in Seq(0 .. MaxSeq) /\ received \subseteq 1 .. MaxSeq
  BY DEF WireTypeOK
<1>2. Len(inbox[s]) \in Nat /\ \A j \in 1 .. Len(inbox[s]) : inbox[s][j] \in 0 .. MaxSeq
  BY <1>1, LenProperties, ElementOfSeq
<1>3. \A i \in 0 .. Len(inbox[s]) : Given(s, i) \subseteq 1 .. MaxSeq
  <2> TAKE i \in 0 .. Len(inbox[s])
  <2>1. \A j \in 1 .. i : inbox[s][j] \in 0 .. MaxSeq
    BY <1>2
  <2>2. \A x \in 0 .. MaxSeq : x # 0 => x \in 1 .. MaxSeq
    BY ConnectionAssumption DEF ConnectionAssumption
  <2> QED
    BY <1>1, <2>1, <2>2 DEF Given
<1>4. All(s) = (received \cup ToSet(inbox[s]) \cup replay[s]) \ {0}
  BY <1>1 DEF All, Given, ToSet
<1> QED
  BY <1>1, <1>2, <1>3, <1>4 DEF Given

LEMMA AllTypes ==
  ASSUME WireTypeOK, NEW s \in Sockets
  PROVE  All(s) \subseteq 1 .. MaxSeq /\ ToSet(inbox[s]) \subseteq 0 .. MaxSeq
<1>1. Len(inbox[s]) \in 0 .. Len(inbox[s])
  BY GivenTypes
<1>2. DOMAIN inbox[s] = 1 .. Len(inbox[s])
  BY DEF WireTypeOK
<1>3. replay[s] \ {0} \subseteq 1 .. MaxSeq
  BY ConnectionAssumption DEF ConnectionAssumption, WireTypeOK
<1> QED
  BY <1>1, <1>2, <1>3, GivenTypes DEF All, ToSet

(* Steps of the calls and of dispose that lose nothing.                    *)
LEMMA SocketsChange ==
  ASSUME WireTypeOK, HeardInv, OpeningInv',
         UNCHANGED <<mounted, wireVars, serverVars, heardVars>>, subscribed' => subscribed,
         \A s \in Sockets :
           \/ socket'[s] = socket[s]
           \/ socket'[s] \in {"closed", "opening"} /\ socket[s] \in {"closed", "opening"}
           \/ ~mounted /\ socket'[s] = "closing"
  PROVE  HeardInv'
<1> USE DEF wireVars, serverVars, heardVars
<1>1. SilentInv' /\ ReplayInv'
  BY DEF HeardInv, SilentInv, ReplayInv
<1>2. ASSUME ~mounted
      PROVE  NothingMissing' /\ \A s \in Sockets : Open(s)' => Open(s)
  <2>1. \A s \in Sockets : ReplayPending(s) => ReplayPending(s)'
    BY DEF HeardInv, SilentInv, ReplayPending, ToSet
  <2>2. NoPendingReplay' => NoPendingReplay
    BY <2>1 DEF NoPendingReplay
  <2>3. Missing' = Missing
    BY DEF Missing
  <2>4. NothingMissing
    BY <1>2 DEF HeardInv, GoneInv
  <2>5. \A s \in Sockets : Open(s)' => Open(s)
    BY DEF Open
  <2> QED
    BY <2>2, <2>3, <2>4, <2>5 DEF NothingMissing
<1>3. GoneInv'
  BY <1>2 DEF HeardInv, GoneInv
<1>4. ShownInv'
  <2>1. SUFFICES ASSUME mounted PROVE ShownInv'
    BY DEF ShownInv
  <2>2. /\ FirstInv /\ (whole /\ (\A s \in Sockets : socket[s] # "joined") => Missing = {})
        /\ \A s \in Sockets :
             /\ socket[s] = "orphaned" => before = lastSequence /\ replay[s] = {}
             /\ socket[s] = "open" =>
                  inbox[s] = << >> /\ asked[s] = lastSequence /\ replay[s] = {}
             /\ socket[s] = "joined" => AskedInv(s) /\ AnsweredInv(s)
    BY <2>1 DEF HeardInv, ShownInv
  <2>3. \A s \in Sockets : \A state \in {"joined", "open", "orphaned"} :
          socket'[s] = state <=> socket[s] = state
    BY <2>1
  <2>4. FirstInv' /\ Missing' = Missing
    BY <2>2, <2>3 DEF FirstInv, Missing
  <2>5. \A s \in Sockets : (AskedInv(s) => AskedInv(s)') /\ (AnsweredInv(s) => AnsweredInv(s)')
    <3> TAKE s \in Sockets
    <3>1. All(s)' = All(s)
      BY DEF All, Given
    <3>2. AskedInv(s) => AskedInv(s)'
      BY <3>1 DEF AskedInv
    <3>3. /\ Closed(All(s))' <=> Closed(All(s))
          /\ \A i \in 0 .. Len(inbox[s]) :
               (EndedBy(s, i)' <=> EndedBy(s, i)) /\ (Closed(Given(s, i))' <=> Closed(Given(s, i)))
      BY <3>1 DEF Closed, Given, EndedBy
    <3> QED
      BY <3>1, <3>2, <3>3 DEF AnsweredInv
  <2> QED
    BY <2>2, <2>3, <2>4, <2>5 DEF ShownInv
<1> QED
  BY <1>1, <1>3, <1>4 DEF HeardInv

(* No socket is open when a call begins while the screen is shown.         *)
LEMMA BeginKeepsHeard ==
  ASSUME AppInv, WireTypeOK, HeardInv, NEW c \in Calls,
         OpenScreen(c) \/ TimerFires(c) \/ RetryConnection(c)
  PROVE  HeardInv'
<1> USE DEF BeginConnect, CloseChannel
<1>1. mounted => \A s \in Sockets : ~Live(s)
  BY DEF AppInv, ConnectionInv, OpenScreen, TimerFires, RetryConnection
<1>2. \A s \in Sockets : socket'[s] = socket[s] \/ (~mounted /\ Live(s) /\ socket'[s] = "closing")
  BY <1>1 DEF AppInv, AppTypeOK, OpenScreen, TimerFires, RetryConnection
<1>3. OpeningInv'
  <2>1. opening' = opening /\ \A d \in Calls : call'[d] = "ready" => call[d] = "ready"
    BY DEF AppInv, AppTypeOK, OpenScreen, TimerFires, RetryConnection
  <2> QED
    BY <1>2, <2>1 DEF HeardInv, OpeningInv, Live, Open
<1> QED
  BY <1>2, <1>3, SocketsChange DEF OpenScreen, TimerFires, RetryConnection

LEMMA CallKeepsHeard ==
  ASSUME AppInv, WireTypeOK, HeardInv, NEW c \in Calls, ConnectStep(c), ~HandshakeDone(c)
  PROVE  HeardInv'
<1> USE DEF AppInv, AppTypeOK
<1>1. /\ UNCHANGED <<mounted, wireVars, serverVars, heardVars>> /\ subscribed' = subscribed
  BY DEF ConnectStep, OldChannelClosed, NoToken, TokenThrows, TokenValid, HandshakeFails, screenVars
<1>2. OpeningInv' /\ \A s \in Sockets :
           \/ socket'[s] = socket[s]
           \/ socket'[s] \in {"closed", "opening"} /\ socket[s] \in {"closed", "opening"}
  <2>1. CASE OldChannelClosed(c) \/ NoToken(c) \/ TokenThrows(c)
    BY <2>1 DEF OldChannelClosed, NoToken, TokenThrows, HeardInv, OpeningInv, serviceVars
  <2>2. ASSUME NEW s \in Sockets, TokenValid(c, s)
        PROVE  OpeningInv' /\ \A t \in Sockets :
                 \/ socket'[t] = socket[t]
                 \/ socket'[t] \in {"closed", "opening"} /\ socket[t] \in {"closed", "opening"}
    BY <2>2 DEF TokenValid, HeardInv, OpeningInv
  <2>3. CASE HandshakeFails(c)
    BY <2>3 DEF HandshakeFails, EndCall, HeardInv, OpeningInv
  <2> QED
    BY <2>1, <2>2, <2>3 DEF ConnectStep
<1> QED
  BY <1>1, <1>2, SocketsChange

(* While the screen is shown it has one socket at most.                    *)
LEMMA OneLive ==
  ASSUME AppInv, WireTypeOK, HeardInv, mounted, NEW s \in Sockets, Live(s)
  PROVE  /\ subscribed
         /\ \A t \in Sockets \ {s} :
              /\ socket[t] \in {"closed", "opening", "failing"} /\ ~Live(t)
              /\ asked[t] = 0 /\ inbox[t] = << >> /\ replay[t] = {} /\ ~ReplayPending(t)
<1>1. subscribed /\ \A t \in Sockets \ {s} : ~Live(t) /\ socket[t] # "closing"
  BY DEF AppInv, ConnectionInv
<1>2. \A t \in Sockets \ {s} : socket[t] \in {"closed", "opening", "failing"}
  BY <1>1 DEF AppInv, AppTypeOK, SocketStates, Live, Open
<1> QED
  BY <1>1, <1>2 DEF HeardInv, SilentInv, ReplayPending, ToSet

(* The invariant says what the property does.                              *)
LEMMA HeardMissesNothing ==
  ASSUME WireTypeOK, HeardInv
  PROVE  NothingMissing
<1>1. SUFFICES ASSUME mounted, whole, NoPendingReplay, NEW s \in Sockets, socket[s] = "joined"
               PROVE  Missing = {}
  BY DEF HeardInv, GoneInv, ShownInv, NothingMissing
<1>2. asked[s] = 0 /\ 0 \notin ToSet(inbox[s]) /\ replay[s] = {}
  BY <1>1 DEF NoPendingReplay, ReplayPending, WireTypeOK, HeardInv, ReplayInv
<1>3. EndedBy(s, 0) /\ 0 \in 0 .. Len(inbox[s])
  BY <1>2, GivenTypes DEF EndedBy, ToSet, WireTypeOK
<1>4. Closed(Given(s, 0)) /\ Given(s, 0) = received
  BY <1>1, <1>2, <1>3, GivenTypes DEF HeardInv, ShownInv, AnsweredInv
<1>5. \A q \in before + 1 .. lastSequence : q \in before + 1 .. MaxSeq /\ q <= lastSequence
  <2>1. MaxSeq \in Nat /\ lastSequence \in 0 .. MaxSeq /\ before \in Nat
    BY ConnectionAssumption DEF ConnectionAssumption, WireTypeOK
  <2> QED
    BY <2>1
<1> QED
  BY <1>4, <1>5 DEF Closed, Missing

LEMMA HandshakeKeepsHeard ==
  ASSUME AppInv, WireTypeOK, HeardInv, NEW c \in Calls, HandshakeDone(c)
  PROVE  HeardInv'
<1> DEFINE o == opening[c]
<1>1. /\ o \in Sockets /\ socket[o] = "opening" /\ asked[o] = 0 /\ inbox[o] = << >>
      /\ replay[o] = {} /\ socket' = [socket EXCEPT ![o] = "open"] /\ call[c] = "ready"
      /\ UNCHANGED <<mounted, inbox, replay, serverVars, heardVars>>
  BY DEF HandshakeDone, HeardInv, OpeningInv, SilentInv
<1>2. OpeningInv' /\ SilentInv' /\ ReplayInv'
  <2>1. \A d \in Calls : call'[d] = "ready" =>
          /\ call[d] = "ready" /\ opening'[d] = opening[d]
          /\ opening[d] # o
    BY <1>1 DEF HandshakeDone, EndCall, HeardInv, OpeningInv, AppInv, AppTypeOK
  <2>2. \A s \in Sockets \ {o} : socket'[s] = socket[s] /\ asked'[s] = asked[s]
    BY <1>1 DEF HandshakeDone, AppInv, AppTypeOK, WireTypeOK
  <2>3. OpeningInv'
    BY <2>1, <2>2 DEF HeardInv, OpeningInv
  <2>4. socket'[o] = "open"
    BY <1>1 DEF AppInv, AppTypeOK
  <2> QED
    BY <1>1, <2>2, <2>3, <2>4 DEF HeardInv, SilentInv, ReplayInv
<1>3. CASE mounted
  <2>1. \A s \in Sockets : ~Live(s)
    BY <1>1, <1>3 DEF AppInv, ConnectionInv, NoCall, Connecting
  <2>2. whole => Missing = {}
    BY <1>3, <2>1 DEF HeardInv, ShownInv, Live, Open
  <2>3. Missing' = Missing
    BY <1>1 DEF Missing, heardVars
  <2>4. asked'[o] = lastSequence
    BY <1>1, <1>3 DEF HandshakeDone, ReplaySince, WireTypeOK
  <2>5. \A s \in Sockets : socket'[s] \notin {"orphaned", "joined"} /\ (socket'[s] = "open" => s = o)
    BY <1>1, <2>1 DEF Live, Open, AppInv, AppTypeOK
  <2>6. FirstInv'
    BY <1>1, <1>3, <2>5 DEF HeardInv, ShownInv, FirstInv, heardVars, serverVars
  <2> QED
    BY <1>1, <1>2, <1>3, <2>2, <2>3, <2>4, <2>5, <2>6 DEF HeardInv, ShownInv, GoneInv, heardVars
<1>4. CASE ~mounted
  <2>1. asked' = asked /\ subscribed' = subscribed
    BY <1>4 DEF HandshakeDone
  <2>2. \A s \in Sockets : ReplayPending(s)' = ReplayPending(s)
    BY <1>1, <2>1 DEF ReplayPending, AppInv, AppTypeOK
  <2>3. NothingMissing'
    BY <1>1, <1>4, <2>2 DEF HeardInv, GoneInv, NothingMissing, NoPendingReplay, Missing, heardVars
  <2>4. \A s \in Sockets : Open(s)' =>
          asked[s] = 0 /\ 0 \notin ToSet(inbox[s]) /\ replay[s] = {}
    BY <1>1, <1>4 DEF Open, HeardInv, GoneInv, AppInv, AppTypeOK, ToSet
  <2> QED
    BY <1>1, <1>2, <1>4, <2>1, <2>3, <2>4 DEF HeardInv, GoneInv, ShownInv, heardVars
<1> QED
  BY <1>3, <1>4

LEMMA DisposeKeepsHeard ==
  ASSUME AppInv, WireTypeOK, HeardInv, Dispose
  PROVE  HeardInv'
<1>1. mounted /\ ~mounted' /\ ~subscribed' /\ UNCHANGED <<callVars, wireVars, serverVars, heardVars>>
  BY DEF Dispose
<1>2. \A s \in Sockets : socket'[s] = IF Live(s) THEN "closing" ELSE socket[s]
  BY <1>1 DEF Dispose, CloseChannel, AppInv, ConnectionInv
<1>3. OpeningInv' /\ SilentInv' /\ ReplayInv'
  BY <1>1, <1>2 DEF HeardInv, OpeningInv, SilentInv, ReplayInv, Live, Open, callVars, wireVars
<1>4. \A s \in Sockets : ~Open(s)'
  BY <1>2 DEF Live, Open
<1>5. \A s \in Sockets : ReplayPending(s) => ReplayPending(s)'
  BY <1>1, <1>2 DEF ReplayPending, wireVars
<1>6. NothingMissing'
  BY <1>1, <1>5, HeardMissesNothing DEF NothingMissing, NoPendingReplay, Missing, heardVars
<1> QED
  BY <1>1, <1>3, <1>4, <1>6 DEF HeardInv, GoneInv, ShownInv, heardVars

(* Whatever was under way over a socket is lost: it must not be a replay.  *)
LEMMA LossKeepsHeard ==
  ASSUME AppInv, WireTypeOK, HeardInv, NEW s \in Sockets, OnError(s) \/ OnDone(s)
  PROVE  HeardInv'
<1>1. /\ Lose(s) /\ (Live(s) \/ socket[s] = "closing")
      /\ UNCHANGED <<mounted, subscribed, callVars, serverVars>>
  BY DEF OnError, OnDone, Live
<1>2. /\ socket'[s] \in {"closed", "failing"}
      /\ asked'[s] = 0 /\ inbox'[s] = << >> /\ replay'[s] = {}
      /\ \A t \in Sockets \ {s} :
           /\ socket'[t] = socket[t] /\ asked'[t] = asked[t]
           /\ inbox'[t] = inbox[t] /\ replay'[t] = replay[t]
  BY DEF OnError, OnDone, Lose, AppInv, AppTypeOK, WireTypeOK
<1>3. /\ UNCHANGED <<received, lastSequence, before, relayed, excused>> /\ Missing' = Missing
      /\ whole' = (whole /\ ~ReplayPending(s))
  BY <1>1, <1>2 DEF OnError, OnDone, Lose, serverVars, Missing
<1>4. OpeningInv' /\ SilentInv' /\ ReplayInv'
  <2>1. \A t \in Sockets : socket[t] = "opening" => socket'[t] = "opening"
    BY <1>1, <1>2 DEF Live, Open
  <2> QED
    BY <1>1, <1>2, <2>1 DEF HeardInv, OpeningInv, SilentInv, ReplayInv, callVars
<1>5. CASE ~mounted
  <2>1. \A t \in Sockets \ {s} : ReplayPending(t)' = ReplayPending(t)
    BY <1>2 DEF ReplayPending
  <2>2. whole' /\ NoPendingReplay' => whole /\ NoPendingReplay
    BY <1>3, <2>1 DEF NoPendingReplay
  <2>3. NothingMissing'
    BY <1>3, <2>2, HeardMissesNothing DEF NothingMissing
  <2> QED
    BY <1>1, <1>2, <1>3, <1>4, <1>5, <2>3 DEF HeardInv, GoneInv, ShownInv, Open
<1>6. CASE mounted
  <2>1. Live(s)
    BY <1>1, <1>6 DEF AppInv, ConnectionInv
  <2>2. \A t \in Sockets : socket'[t] \notin {"joined", "orphaned", "open"}
    BY <1>2, <1>6, <2>1, OneLive
  <2>3. whole' => Missing' = {}
    BY <1>3, <1>6, <2>1, OneLive, HeardMissesNothing DEF NothingMissing, NoPendingReplay
  <2>4. FirstInv'
    BY <1>3, <1>6, <2>2 DEF HeardInv, ShownInv, FirstInv
  <2> QED
    BY <1>1, <1>3, <1>4, <1>6, <2>2, <2>3, <2>4 DEF HeardInv, GoneInv, ShownInv
<1> QED
  BY <1>5, <1>6

(* With its one socket in the room, the invariant speaks of that one.      *)
LEMMA ShownByOne ==
  ASSUME AppInv, WireTypeOK, HeardInv, mounted, NEW s \in Sockets, Live(s),
         socket'[s] = "joined", \A t \in Sockets \ {s} : socket'[t] = socket[t],
         FirstInv', AskedInv(s)', AnsweredInv(s)'
  PROVE  ShownInv'
<1>1. \A t \in Sockets \ {s} : socket'[t] \notin {"joined", "open", "orphaned"}
  BY OneLive
<1> QED
  BY <1>1 DEF ShownInv

LEMMA JoinKeepsHeard ==
  ASSUME AppInv, WireTypeOK, HeardInv, NEW s \in Sockets, JoinRoom(s)
  PROVE  HeardInv'
<1>1. /\ socket[s] = "open" /\ socket'[s] = "joined" /\ Live(s)
      /\ \A t \in Sockets \ {s} : socket'[t] = socket[t]
      /\ UNCHANGED <<mounted, subscribed, call, opening, wireVars, serverVars, heardVars>>
  BY DEF JoinRoom, Live, Open, AppInv, AppTypeOK, screenVars, callVars
<1>2. OpeningInv' /\ SilentInv' /\ ReplayInv'
  BY <1>1 DEF HeardInv, OpeningInv, SilentInv, ReplayInv, wireVars
<1>3. CASE ~mounted
  <2>1. \A t \in Sockets : ReplayPending(t)' = ReplayPending(t) /\ Open(t)' = Open(t)
    BY <1>1 DEF ReplayPending, Open, wireVars
  <2>2. NothingMissing'
    BY <1>1, <2>1, HeardMissesNothing DEF NothingMissing, NoPendingReplay, Missing, heardVars
  <2> QED
    BY <1>1, <1>2, <1>3, <2>1, <2>2 DEF HeardInv, GoneInv, ShownInv, heardVars, wireVars
<1>4. CASE mounted
  <2>1. /\ inbox[s] = << >> /\ asked[s] = lastSequence /\ replay[s] = {} /\ FirstInv
        /\ \A t \in Sockets : socket[t] # "joined"
    <3>1. \A t \in Sockets \ {s} : socket[t] # "joined"
      BY <1>1, <1>4, OneLive
    <3> QED
      BY <1>1, <1>4, <3>1 DEF HeardInv, ShownInv
  <2>2. whole => Missing = {}
    BY <1>4, <2>1 DEF HeardInv, ShownInv
  <2>3. /\ Len(inbox[s]) = 0 /\ ToSet(inbox[s]) = {} /\ received \subseteq 1 .. lastSequence
        /\ All(s) = received /\ Given(s, 0) = received
    BY <2>1, GivenTypes DEF ToSet, HeardInv, All
  <2>4. lastSequence \in 0 .. MaxSeq /\ before \in 0 .. lastSequence
    BY DEF WireTypeOK
  <2>5. lastSequence = 0 => received = {} /\ before = 0
    BY <2>3, <2>4
  <2>6. FirstInv'
    BY <1>1, <2>1, <2>3, <2>5 DEF FirstInv, wireVars, serverVars, heardVars
  <2>7. AskedInv(s)'
    <3>1. ASSUME whole, NEW q \in before + 1 .. lastSequence, before > 0 \/ \E p \in received : p < q
          PROVE  q \in received \cup excused
      BY <2>2, <3>1 DEF Missing
    <3>2. before <= lastSequence /\ lastSequence <= lastSequence
      BY <2>4
    <3>3. AskedInv(s)
      BY <2>1, <2>3, <3>1, <3>2 DEF AskedInv
    <3> QED
      BY <1>1, <3>3 DEF AskedInv, All, Given, wireVars, serverVars, heardVars
  <2>8. AnsweredInv(s)'
    <3>1. asked[s] = 0 => before = 0 /\ All(s) = {} /\ Given(s, 0) = {}
      BY <2>1, <2>3, <2>5
    <3>2. asked[s] = 0 => Closed({})
      BY <2>1, <2>4 DEF Closed
    <3>4. 0 .. Len(inbox[s]) = {0}
      BY <2>3
    <3>3. AnsweredInv(s)
      <4>1. asked[s] = 0 => \A q \in before + 1 .. relayed : ~(before > 0 \/ \E p \in All(s) : p < q)
        BY <3>1
      <4> QED
        BY <3>1, <3>2, <3>4, <4>1 DEF AnsweredInv
    <3>5. /\ inbox' = inbox /\ asked' = asked /\ replay' = replay
          /\ relayed' = relayed /\ received' = received
          /\ lastSequence' = lastSequence /\ excused' = excused /\ before' = before /\ whole' = whole
      BY <1>1 DEF wireVars, serverVars, heardVars
    <3>6. All(s)' = All(s)
      BY <3>5 DEF All, Given
    <3>7. \A i \in 0 .. Len(inbox[s]) : EndedBy(s, i)' <=> EndedBy(s, i)
      BY <3>5 DEF EndedBy
    <3>8. \A i \in 0 .. Len(inbox[s]) : Closed(Given(s, i))' <=> Closed(Given(s, i))
      BY <3>5 DEF Closed, Given
    <3>9. Closed(All(s))' <=> Closed(All(s))
      BY <3>5, <3>6 DEF Closed
    <3> QED
      BY <3>3, <3>5, <3>6, <3>7, <3>8, <3>9 DEF AnsweredInv
  <2>9. ShownInv'
    BY <1>1, <1>4, <2>6, <2>7, <2>8, ShownByOne
  <2> QED
    BY <1>1, <1>2, <1>4, <2>9 DEF HeardInv, GoneInv, heardVars
<1> QED
  BY <1>3, <1>4

LEMMA HeadAndTail ==
  ASSUME NEW S, NEW q \in Seq(S), q # << >>
  PROVE  /\ Len(q) \in Nat \ {0} /\ DOMAIN q = 1 .. Len(q)
         /\ DOMAIN Tail(q) = 1 .. Len(q) - 1 /\ Len(Tail(q)) = Len(q) - 1
         /\ \A i \in DOMAIN Tail(q) : Tail(q)[i] = q[i + 1]
         /\ Head(q) = q[1] /\ Head(q) \in S
  OBVIOUS

(* The oldest message moves from the socket to what was heard.             *)
LEMMA GivenReceived ==
  ASSUME WireTypeOK, NEW s \in Sockets, Receive(s), subscribed, socket[s] = "joined"
  PROVE  /\ Len(inbox[s]) > 0 /\ Len(inbox'[s]) = Len(inbox[s]) - 1
         /\ \A j \in 1 .. Len(inbox'[s]) : inbox'[s][j] = inbox[s][j + 1]
         /\ \A i \in 0 .. Len(inbox'[s]) : Given(s, i)' = Given(s, i + 1)
         /\ All(s)' = All(s)
<1>1. inbox[s] \in Seq(0 .. MaxSeq) /\ inbox[s] # << >>
  BY DEF WireTypeOK, Receive
<1>2. /\ inbox'[s] = Tail(inbox[s]) /\ Head(inbox[s]) = inbox[s][1] /\ Head(inbox[s]) \in Nat
      /\ received' \ {0} = (received \cup {Head(inbox[s])}) \ {0}
  <2>1. Head(inbox[s]) = inbox[s][1] /\ Head(inbox[s]) \in 0 .. MaxSeq
    <3>1. Head(inbox[s]) \in 0 .. MaxSeq
      BY <1>1, HeadTailProperties
    <3> QED
      BY <1>1, <3>1
  <2> QED
    BY <2>1 DEF Receive, WireTypeOK
<1>3. /\ Len(inbox[s]) \in Nat /\ Len(inbox[s]) > 0 /\ Len(inbox'[s]) = Len(inbox[s]) - 1
      /\ \A j \in 1 .. Len(inbox'[s]) : inbox'[s][j] = inbox[s][j + 1]
  BY <1>1, <1>2, HeadTailProperties, EmptySeq, LenProperties
<1>4. \A i \in 0 .. Len(inbox'[s]) : Given(s, i)' = Given(s, i + 1)
  <2> TAKE i \in 0 .. Len(inbox'[s])
  <2>1. {inbox[s][j] : j \in 1 .. i + 1} = {inbox[s][1]} \cup {inbox'[s][j] : j \in 1 .. i}
    <3>1. \A j \in 1 .. i : inbox'[s][j] = inbox[s][j + 1] /\ j + 1 \in 1 .. i + 1
      BY <1>3
    <3>2. \A j \in 1 .. i + 1 : j = 1 \/ (j - 1 \in 1 .. i /\ inbox[s][j] = inbox'[s][j - 1])
      BY <1>3
    <3>3. 1 \in 1 .. i + 1
      BY <1>3
    <3>4. ASSUME NEW x \in {inbox[s][j] : j \in 1 .. i + 1}
          PROVE  x \in {inbox[s][1]} \cup {inbox'[s][j] : j \in 1 .. i}
      BY <3>2
    <3>5. ASSUME NEW x \in {inbox'[s][j] : j \in 1 .. i}
          PROVE  x \in {inbox[s][j] : j \in 1 .. i + 1}
      BY <3>1
    <3>6. inbox[s][1] \in {inbox[s][j] : j \in 1 .. i + 1}
      BY <3>3
    <3> QED
      BY <3>4, <3>5, <3>6
  <2> QED
    BY <1>2, <2>1 DEF Given
<1> QED
  <2>1. Given(s, Len(inbox[s]))' = Given(s, Len(inbox[s])) /\ replay' = replay
    BY <1>3, <1>4 DEF Receive
  <2> QED
    BY <1>3, <1>4, <2>1 DEF All

LEMMA ReceiveKeepsHeard ==
  ASSUME AppInv, WireTypeOK, HeardInv, NEW s \in Sockets, Receive(s)
  PROVE  HeardInv'
<1> DEFINE m == Head(inbox[s])
<1>1. /\ Open(s) /\ Live(s) /\ inbox[s] # << >> /\ m \in 0 .. MaxSeq /\ m \in ToSet(inbox[s])
      /\ inbox' = [inbox EXCEPT ![s] = Tail(@)]
      /\ ToSet(Tail(inbox[s])) \subseteq ToSet(inbox[s])
  <2>1. inbox[s] \in Seq(0 .. MaxSeq) /\ inbox[s] # << >>
    BY DEF WireTypeOK, Receive
  <2>2. /\ 1 \in DOMAIN inbox[s] /\ m = inbox[s][1] /\ m \in 0 .. MaxSeq
        /\ \A j \in DOMAIN Tail(inbox[s]) :
             j + 1 \in DOMAIN inbox[s] /\ Tail(inbox[s])[j] = inbox[s][j + 1]
    <3>1. Len(inbox[s]) \in Nat \ {0} /\ DOMAIN inbox[s] = 1 .. Len(inbox[s])
      BY <2>1, HeadAndTail
    <3>2. 1 \in DOMAIN inbox[s] /\ \A j \in 1 .. Len(inbox[s]) - 1 : j + 1 \in DOMAIN inbox[s]
      BY <3>1
    <3> QED
      BY <2>1, <3>2, HeadAndTail
  <2> QED
    BY <2>1, <2>2 DEF Receive, Live, ToSet
<1>2. /\ UNCHANGED <<mounted, subscribed, call, opening, socket, asked, replay, excused, whole>>
      /\ UNCHANGED <<buffered, relayed>>
      /\ \A t \in Sockets \ {s} : inbox'[t] = inbox[t]
  BY DEF Receive, screenVars, callVars, serviceVars, serverVars, WireTypeOK
<1>3. OpeningInv' /\ SilentInv' /\ ReplayInv'
  BY <1>1, <1>2 DEF HeardInv, OpeningInv, SilentInv, ReplayInv, Open
<1>4. received' \subseteq 1 .. lastSequence'
  <2>1. lastSequence \in Nat /\ received \subseteq 1 .. lastSequence /\ m \in Nat
    BY <1>1 DEF HeardInv, WireTypeOK
  <2>2. \/ received' \subseteq received /\ lastSequence' \in Nat /\ lastSequence <= lastSequence'
        \/ received' = received \cup {m} /\ m > 0 /\ lastSequence' = MaxOf(lastSequence, m)
    <3>1. CASE subscribed /\ m > 0
      <4>1. /\ lastSequence' = MaxOf(lastSequence, m)
            /\ received' = received \/ received' = received \cup {m}
        BY <3>1 DEF Receive
      <4> QED
        BY <2>1, <3>1, <4>1 DEF MaxOf
    <3>2. CASE ~(subscribed /\ m > 0)
      BY <2>1, <3>2 DEF Receive
    <3> QED
      BY <3>1, <3>2
  <2>3. ASSUME NEW x \in received'
        PROVE  x \in 1 .. lastSequence'
    <3>1. x \in received \/ (x = m /\ m > 0 /\ lastSequence' = MaxOf(lastSequence, m))
      BY <2>2, <2>3
    <3>2. x \in received => x \in 1 .. lastSequence
      BY <2>1
    <3>3. lastSequence' \in Nat /\ lastSequence <= lastSequence'
      BY <2>1, <2>2 DEF MaxOf
    <3> HIDE DEF m
    <3> QED
      BY <2>1, <3>1, <3>2, <3>3 DEF MaxOf
  <2> QED
    BY <2>3
<1>5. CASE ~mounted
  <2>1. ~subscribed /\ UNCHANGED heardVars
    BY <1>2, <1>5 DEF HeardInv, GoneInv, Receive, heardVars
  <2>2. asked[s] = 0 /\ 0 \notin ToSet(inbox[s]) /\ 0 \notin ToSet(inbox'[s])
    BY <1>1, <1>5 DEF HeardInv, GoneInv, WireTypeOK
  <2>3. \A t \in Sockets : ReplayPending(t)' = ReplayPending(t)
    BY <1>2, <2>2 DEF ReplayPending
  <2>4. NothingMissing'
    BY <2>1, <2>3, HeardMissesNothing DEF NothingMissing, NoPendingReplay, Missing, heardVars
  <2>5. \A t \in Sockets : Open(t)' =>
          asked'[t] = 0 /\ 0 \notin ToSet(inbox'[t]) /\ replay'[t] = {}
    BY <1>2, <1>5, <2>2 DEF HeardInv, GoneInv, Open
  <2> QED
    BY <1>2, <1>3, <1>4, <1>5, <2>1, <2>4, <2>5 DEF HeardInv, GoneInv, ShownInv
<1>6. CASE mounted /\ socket[s] = "orphaned"
  <2>1. /\ before = lastSequence /\ replay[s] = {} /\ FirstInv
        /\ \A t \in Sockets \ {s} : ~Live(t)
    BY <1>1, <1>6, OneLive DEF HeardInv, ShownInv
  <2>2. before' = lastSequence' /\ received' = received /\ (before' = 0 => lastSequence' = lastSequence /\ before = 0)
    BY <1>1, <1>6, <2>1 DEF Receive, MaxOf, WireTypeOK
  <2>3. Missing' = {}
    BY <2>2, ReceiveKeepsWireTypes DEF Missing, WireTypeOK
  <2>4. FirstInv'
    BY <1>2, <1>6, <2>1, <2>2 DEF FirstInv
  <2>5. \A t \in Sockets : socket'[t] \notin {"joined", "open"}
    BY <1>2, <1>6, <2>1 DEF Live, Open
  <2> QED
    BY <1>2, <1>3, <1>4, <1>6, <2>2, <2>3, <2>4, <2>5 DEF HeardInv, GoneInv, ShownInv
<1>7. CASE mounted /\ socket[s] = "joined"
  <2>1. /\ subscribed /\ \A t \in Sockets \ {s} : ~Live(t)
        /\ FirstInv /\ AskedInv(s) /\ AnsweredInv(s)
    BY <1>1, <1>7, OneLive DEF HeardInv, ShownInv
  <2>2. /\ before' = before /\ received' = IF m > 0 THEN received \cup {m} ELSE received
        /\ lastSequence' = MaxOf(lastSequence, m)
    BY <1>1, <1>7, <2>1 DEF Receive, MaxOf, WireTypeOK
  <2>3. relayed \in Nat /\ buffered \in Nat /\ relayed <= buffered /\ lastSequence \in Nat
        /\ before \in Nat /\ MaxSeq \in Nat /\ asked[s] \in Nat
    BY ConnectionAssumption DEF ConnectionAssumption, WireTypeOK
  <2>4. inbox'[s] = Tail(inbox[s])
    BY <1>1 DEF WireTypeOK
  <2>5. FirstInv'
    <3>1. CASE \E p \in received : p <= relayed
      BY <1>2, <2>2, <3>1 DEF FirstInv
    <3>2. CASE before = 0 /\ ~\E p \in received : p <= relayed
      <4>1. 0 < m /\ m <= relayed
        BY <1>1, <1>7, <2>1, <3>2 DEF FirstInv
      <4> QED
        BY <1>2, <2>2, <4>1 DEF FirstInv
    <3> QED
      BY <2>2, <3>1, <3>2 DEF FirstInv
  <2>6. AskedInv(s)'
    <3>1. SUFFICES ASSUME asked[s] > 0
                   PROVE  AskedInv(s)'
      BY <1>2 DEF AskedInv
    <3>2. 0 < m /\ m <= relayed /\ m <= buffered
      BY <1>1, <2>1, <2>3, <3>1 DEF AskedInv
    <3>3. asked[s] <= lastSequence' /\ (lastSequence' <= asked[s] \/ lastSequence' <= buffered)
      BY <1>1, <2>1, <2>2, <2>3, <3>1, <3>2 DEF AskedInv, MaxOf
    <3>4. All(s)' = All(s) /\ received \subseteq received'
      BY <1>7, <2>1, <2>2, GivenReceived
    <3> QED
      BY <1>1, <1>2, <2>1, <2>2, <2>4, <3>1, <3>3, <3>4 DEF AskedInv
  <2>7. AnsweredInv(s)'
    <3>1. SUFFICES ASSUME asked[s] = 0, whole
                   PROVE  AnsweredInv(s)'
      BY <1>2 DEF AnsweredInv
    <3>2. ASSUME NEW i \in 0 .. Len(inbox'[s]), EndedBy(s, i)'
          PROVE  Closed(Given(s, i))'
      <4>1. /\ i + 1 \in 0 .. Len(inbox[s]) /\ Len(inbox[s]) \in Nat /\ i \in Nat
            /\ Len(inbox'[s]) = Len(inbox[s]) - 1
        BY <1>7, <2>1, <3>2, GivenReceived, GivenTypes
      <4>2. \A j \in i + 2 .. Len(inbox[s]) : inbox[s][j] # 0
        <5> TAKE j \in i + 2 .. Len(inbox[s])
        <5>1. j - 1 \in i + 1 .. Len(inbox'[s]) /\ j - 1 \in 1 .. Len(inbox'[s]) /\ (j - 1) + 1 = j
          BY <4>1
        <5> QED
          BY <1>7, <2>1, <3>2, <5>1, GivenReceived DEF EndedBy
      <4>3. EndedBy(s, i + 1)
        BY <1>2, <3>2, <4>1, <4>2 DEF EndedBy
      <4>4. Closed(Given(s, i + 1)) /\ Given(s, i)' = Given(s, i + 1)
        BY <1>7, <2>1, <3>1, <3>2, <4>1, <4>3, GivenReceived DEF AnsweredInv
      <4>5. m > 0 => m \in Given(s, i)'
        BY <2>2 DEF Given
      <4>6. ASSUME NEW q \in before + 1 .. MaxSeq, q <= lastSequence'
            PROVE  q <= lastSequence \/ \E h \in Given(s, i + 1) : q <= h
        BY <1>1, <2>2, <2>3, <4>4, <4>5, <4>6 DEF MaxOf
      <4> QED
        BY <1>2, <2>2, <4>4, <4>6 DEF Closed
    <3>3. All(s)' = All(s)
      BY <1>7, <2>1, GivenReceived
    <3>4. Closed(All(s))'
      <4>1. Closed(All(s)) /\ (m > 0 => m \in All(s))
        BY <1>1, <2>1, <3>1, GivenTypes DEF AnsweredInv
      <4>2. ASSUME NEW q \in before + 1 .. MaxSeq, q <= lastSequence'
            PROVE  q <= lastSequence \/ \E h \in All(s) : q <= h
        BY <1>1, <2>2, <2>3, <4>1, <4>2 DEF MaxOf
      <4> QED
        BY <1>2, <2>2, <3>3, <4>1, <4>2 DEF Closed
    <3> QED
      BY <1>2, <2>1, <2>2, <3>1, <3>2, <3>3, <3>4 DEF AnsweredInv
  <2>8. ShownInv'
    BY <1>1, <1>2, <1>7, <2>5, <2>6, <2>7, ShownByOne
  <2> QED
    BY <1>2, <1>3, <1>4, <1>7, <2>8 DEF HeardInv, GoneInv
<1>8. ~(mounted /\ socket[s] = "open")
  BY <1>1 DEF HeardInv, ShownInv
<1> QED
  BY <1>1, <1>5, <1>6, <1>7, <1>8 DEF Open

LEMMA BufferKeepsHeard ==
  ASSUME WireTypeOK, HeardInv, BufferChunk \/ EvictChunk
  PROVE  HeardInv'
<1>1. /\ UNCHANGED <<mounted, subscribed, call, opening, socket, wireVars, heardVars, relayed>>
      /\ buffered \in Nat /\ lastSequence \in Nat /\ buffered' \in Nat /\ buffered <= buffered'
  BY ConnectionAssumption
  DEF ConnectionAssumption, BufferChunk, EvictChunk, screenVars, callVars, serviceVars, WireTypeOK
<1>2. /\ OpeningInv' /\ SilentInv' /\ ReplayInv'
      /\ Missing' = Missing /\ (FirstInv => FirstInv')
  BY <1>1 DEF HeardInv, OpeningInv, SilentInv, ReplayInv, FirstInv, Missing, wireVars, heardVars
<1>3. GoneInv'
  BY <1>1, <1>2 DEF HeardInv, GoneInv, NothingMissing, NoPendingReplay, ReplayPending, Open,
     wireVars, heardVars
<1>4. ASSUME NEW s \in Sockets
      PROVE  (AnsweredInv(s) => AnsweredInv(s)') /\ (AskedInv(s) => AskedInv(s)')
  <2>1. All(s)' = All(s)
    BY <1>1 DEF All, Given, wireVars, heardVars
  <2>2. AnsweredInv(s) => AnsweredInv(s)'
    BY <1>1, <2>1 DEF AnsweredInv, Given, Closed, EndedBy, wireVars, heardVars
  <2>3. lastSequence <= buffered => lastSequence' <= buffered'
    BY <1>1 DEF heardVars
  <2> QED
    BY <1>1, <2>1, <2>2, <2>3 DEF AskedInv, wireVars, heardVars
<1>5. ShownInv'
  BY <1>1, <1>2, <1>4 DEF HeardInv, ShownInv, wireVars, heardVars
<1> QED
  BY <1>1, <1>2, <1>3, <1>5 DEF HeardInv, heardVars

(* The next chunk is under way after all others, but not to its sender.    *)
LEMMA GivenRelayed ==
  ASSUME WireTypeOK, NEW sender \in Sockets \cup {NoSocket}, RelayChunk(sender),
         NEW s \in Sockets \ {sender}, socket[s] = "joined"
  PROVE  /\ Len(inbox'[s]) = Len(inbox[s]) + 1 /\ inbox'[s][Len(inbox[s]) + 1] = relayed + 1
         /\ \A j \in 1 .. Len(inbox[s]) : inbox'[s][j] = inbox[s][j]
         /\ \A i \in 0 .. Len(inbox[s]) : Given(s, i)' = Given(s, i)
         /\ All(s)' = All(s) \cup {relayed + 1}
         /\ \A i \in Nat : i = Len(inbox[s]) + 1 /\ replay[s] = {} => Given(s, i)' = All(s)'
         /\ ToSet(inbox'[s]) = ToSet(inbox[s]) \cup {relayed + 1}
<1> DEFINE q == inbox[s]
           m == relayed + 1
<1>1. /\ q \in Seq(0 .. MaxSeq) /\ m \in 0 .. MaxSeq /\ m > 0
      /\ received' = received /\ replay' = replay
  BY ConnectionAssumption DEF ConnectionAssumption, RelayChunk, WireTypeOK
<1>2. inbox'[s] = Append(q, m)
  BY DEF RelayChunk
<1> HIDE DEF q, m
<1>3. /\ Len(Append(q, m)) = Len(q) + 1 /\ Append(q, m)[Len(q) + 1] = m /\ Len(q) \in Nat
      /\ \A j \in 1 .. Len(q) : Append(q, m)[j] = q[j]
      /\ DOMAIN q = 1 .. Len(q) /\ DOMAIN Append(q, m) = 1 .. Len(q) + 1
  BY <1>1
<1>4. 1 .. Len(q) + 1 = 1 .. Len(q) \cup {Len(q) + 1}
  BY <1>3
<1>5. \A i \in 0 .. Len(q) : Given(s, i)' = Given(s, i)
  <2> TAKE i \in 0 .. Len(q)
  <2>1. \A j \in 1 .. i : Append(q, m)[j] = q[j]
    BY <1>3
  <2> QED
    BY <1>1, <1>2, <2>1 DEF Given, q
<1>6. ToSet(Append(q, m)) = ToSet(q) \cup {m}
  <2>1. \A x : x \in ToSet(Append(q, m)) <=> x \in ToSet(q) \/ x = m
    BY <1>3, <1>4 DEF ToSet
  <2> QED
    BY <2>1
<1>7. All(s)' = (received' \cup ToSet(inbox'[s]) \cup replay'[s]) \ {0}
  <2>1. Given(s, Len(inbox[s]))' = (received' \cup ToSet(inbox'[s])) \ {0}
    BY <1>2, <1>3 DEF Given, ToSet
  <2> QED
    BY <2>1 DEF All
<1>8. All(s) = (received \cup ToSet(q) \cup replay[s]) \ {0}
  BY GivenTypes DEF q
<1>9. All(s)' = All(s) \cup {m}
  BY <1>1, <1>2, <1>6, <1>7, <1>8
<1>10. \A i \in Nat : i = Len(q) + 1 /\ replay[s] = {} => Given(s, i)' = All(s)'
  BY <1>1, <1>2, <1>3 DEF All, Given, q
<1> QED
  BY <1>2, <1>3, <1>5, <1>6, <1>9, <1>10 DEF q, m

LEMMA RelayKeepsAnswered ==
  ASSUME WireTypeOK, HeardInv, NEW sender \in Sockets \cup {NoSocket}, RelayChunk(sender),
         mounted, NEW s \in Sockets, socket[s] = "joined"
  PROVE  AnsweredInv(s)'
<1> DEFINE m == relayed + 1
           n == Len(inbox[s])
<1>1. /\ UNCHANGED <<asked, whole, received, before, lastSequence, replay>> /\ relayed' = m
      /\ excused \subseteq excused' /\ (s = sender => m \in excused')
  BY ConnectionAssumption DEF ConnectionAssumption, RelayChunk, WireTypeOK
<1>2. SUFFICES ASSUME asked[s] = 0, whole
               PROVE  AnsweredInv(s)'
  BY <1>1 DEF AnsweredInv
<1>3. /\ relayed \in Nat /\ n \in Nat /\ MaxSeq \in Nat /\ before \in Nat /\ lastSequence \in Nat
      /\ All(s) \subseteq 1 .. MaxSeq /\ received \subseteq All(s)
      /\ All(s) = (received \cup ToSet(inbox[s]) \cup replay[s]) \ {0}
  BY GivenTypes, AllTypes, ConnectionAssumption DEF ConnectionAssumption, WireTypeOK
<1>4. FirstInv /\ AnsweredInv(s) /\ Closed(All(s))
  BY <1>2 DEF HeardInv, ShownInv, AnsweredInv
<1>5. \A q \in before + 1 .. relayed :
        before > 0 \/ (\E p \in All(s) : p < q) => q \in All(s) \cup excused
  BY <1>2, <1>4 DEF AnsweredInv
<1>6. ASSUME NEW q \in before + 1 .. relayed + 1, q # m,
             before > 0 \/ \E p \in All(s) \cup {m} : p < q
      PROVE  q \in All(s) \cup excused
  <2>1. q \in before + 1 .. relayed /\ q < m
    BY <1>3, <1>6
  <2>2. before > 0 \/ \E p \in All(s) : p < q
    BY <1>3, <1>6, <2>1
  <2> QED
    BY <1>5, <2>1, <2>2
<1>7. ASSUME s # sender
      PROVE  AnsweredInv(s)'
  <2>1. ASSUME NEW q \in before + 1 .. MaxSeq, q # m,
               q <= lastSequence \/ \E h \in All(s) \cup {m} : q <= h,
               before > 0 \/ \E p \in All(s) \cup {m} : p < q
        PROVE  q \in All(s) \cup excused
    <3>1. CASE q < m
      <4>1. q \in before + 1 .. relayed + 1
        BY <1>3, <3>1
      <4> QED
        BY <1>6, <2>1, <4>1
    <3>2. CASE q > m
      <4>1. q <= lastSequence \/ \E h \in All(s) : q <= h
        BY <1>3, <2>1, <3>2
      <4>2. before > 0 \/ \E p \in All(s) : p <= relayed
        <5>1. CASE \E p \in received : p <= relayed
          BY <1>3, <5>1
        <5>2. CASE before = 0 /\ ~\E p \in received : p <= relayed
          <6>1. /\ received = {} /\ lastSequence = 0 /\ replay[s] = {}
                /\ \A x \in ToSet(inbox[s]) : 0 < x /\ x <= relayed
            BY <1>4, <5>2 DEF FirstInv
          <6>2. \E h \in All(s) : q <= h
            BY <1>3, <4>1, <6>1
          <6> QED
            BY <1>3, <6>1, <6>2
        <5> QED
          BY <1>3, <5>1, <5>2
      <4>3. before > 0 \/ \E p \in All(s) : p < q
        BY <1>3, <3>2, <4>2
      <4> QED
        BY <1>4, <4>1, <4>3 DEF Closed
    <3> QED
      BY <1>3, <2>1, <3>1, <3>2
  <2>2. All(s)' = All(s) \cup {m} /\ Len(inbox'[s]) = n + 1
    BY <1>7, GivenRelayed
  <2>3. Closed(All(s))'
    BY <1>1, <2>1, <2>2 DEF Closed
  <2>4. ASSUME NEW i \in 0 .. Len(inbox'[s]), EndedBy(s, i)'
        PROVE  Closed(Given(s, i))'
    <3>1. CASE i \in 0 .. n
      <4>1. \A j \in i + 1 .. n : inbox'[s][j] = inbox[s][j] /\ j \in i + 1 .. Len(inbox'[s])
        <5>1. \A j \in i + 1 .. n : j \in 1 .. n /\ j \in i + 1 .. Len(inbox'[s])
          BY <1>3, <2>2, <3>1
        <5> QED
          BY <1>7, <5>1, GivenRelayed
      <4>2. EndedBy(s, i)
        BY <1>1, <2>4, <4>1 DEF EndedBy
      <4>3. Closed(Given(s, i)) /\ Given(s, i)' = Given(s, i)
        BY <1>2, <1>4, <1>7, <3>1, <4>2, GivenRelayed DEF AnsweredInv
      <4> QED
        BY <1>1, <4>3 DEF Closed
    <3>2. CASE i = n + 1
      <4>1. replay[s] = {} /\ i \in Nat
        BY <1>1, <1>3, <2>4, <3>2 DEF EndedBy
      <4>2. Given(s, i)' = All(s)'
        BY <1>7, <3>2, <4>1, GivenRelayed
      <4> QED
        BY <2>3, <4>2 DEF Closed
    <3> QED
      BY <1>3, <2>2, <3>1, <3>2
  <2> QED
    BY <1>1, <1>6, <2>2, <2>3, <2>4 DEF AnsweredInv
<1>8. ASSUME s = sender
      PROVE  AnsweredInv(s)'
  <2>1. inbox'[s] = inbox[s]
    BY <1>8 DEF RelayChunk
  <2>2. All(s)' = All(s) /\ \A i \in 0 .. n : Given(s, i)' = Given(s, i)
    BY <1>1, <2>1 DEF All, Given
  <2>3. Closed(All(s))'
    BY <1>1, <1>4, <2>2 DEF Closed
  <2>4. ASSUME NEW i \in 0 .. n, EndedBy(s, i)'
        PROVE  Closed(Given(s, i))'
    <3>1. EndedBy(s, i)
      BY <1>1, <2>1, <2>4 DEF EndedBy
    <3>2. Closed(Given(s, i))
      BY <1>2, <1>4, <3>1 DEF AnsweredInv
    <3> QED
      BY <1>1, <2>2, <3>2 DEF Closed
  <2> QED
    BY <1>1, <1>6, <1>8, <2>1, <2>2, <2>3, <2>4 DEF AnsweredInv
<1> QED
  BY <1>7, <1>8

LEMMA RelayKeepsHeard ==
  ASSUME AppInv, WireTypeOK, HeardInv, NEW sender \in Sockets \cup {NoSocket}, RelayChunk(sender)
  PROVE  HeardInv'
<1>1. /\ UNCHANGED <<mounted, subscribed, call, opening, socket, asked, replay>>
      /\ UNCHANGED <<lastSequence, received, whole, before>>
      /\ relayed \in Nat /\ relayed' = relayed + 1 /\ buffered' = buffered
      /\ excused \subseteq excused'
      /\ \A s \in Sockets : socket[s] # "joined" \/ s = sender => inbox'[s] = inbox[s]
  BY DEF RelayChunk, screenVars, callVars, serviceVars, WireTypeOK
<1>2. \A s \in Sockets : 0 \in ToSet(inbox'[s]) <=> 0 \in ToSet(inbox[s])
  <2> TAKE s \in Sockets
  <2>1. ASSUME socket[s] = "joined", s # sender
        PROVE  0 \in ToSet(inbox'[s]) <=> 0 \in ToSet(inbox[s])
    BY <1>1, <2>1, GivenRelayed
  <2> QED
    BY <1>1, <2>1
<1>3. OpeningInv' /\ SilentInv' /\ ReplayInv' /\ Missing' \subseteq Missing
  BY <1>1 DEF HeardInv, OpeningInv, SilentInv, ReplayInv, Missing
<1>4. \A s \in Sockets : ReplayPending(s)' = ReplayPending(s)
  BY <1>1, <1>2 DEF ReplayPending
<1>5. GoneInv'
  <2>1. NothingMissing => NothingMissing'
    BY <1>1, <1>3, <1>4 DEF NothingMissing, NoPendingReplay
  <2> QED
    BY <1>1, <1>2, <2>1 DEF HeardInv, GoneInv, Open
<1>6. CASE mounted /\ \A s \in Sockets : socket[s] # "joined"
  <2>1. FirstInv'
    <3>1. FirstInv /\ received \subseteq 1 .. MaxSeq
      BY <1>6 DEF HeardInv, ShownInv, WireTypeOK
    <3>2. ASSUME NEW p \in received, p <= relayed PROVE p <= relayed'
      BY <1>1, <3>1, <3>2, ConnectionAssumption DEF ConnectionAssumption
    <3> QED
      BY <1>1, <1>6, <3>1, <3>2 DEF FirstInv
  <2> QED
    BY <1>1, <1>3, <1>5, <1>6, <2>1 DEF HeardInv, ShownInv
<1>7. ASSUME mounted, NEW s \in Sockets, socket[s] = "joined"
      PROVE  HeardInv'
  <2>1. /\ Live(s) /\ FirstInv /\ AskedInv(s) /\ received \subseteq 1 .. MaxSeq
        /\ \A t \in Sockets \ {s} : socket'[t] # "joined" /\ socket'[t] = socket[t]
    BY <1>1, <1>7, OneLive DEF HeardInv, ShownInv, Live, Open, WireTypeOK
  <2>2. /\ ToSet(inbox'[s]) \subseteq ToSet(inbox[s]) \cup {relayed + 1}
        /\ All(s)' \subseteq All(s) \cup {relayed + 1} /\ received \subseteq All(s)
    <3>1. CASE s = sender
      <4>1. inbox'[s] = inbox[s]
        BY <1>1, <3>1
      <4>2. All(s)' = All(s)
        BY <1>1, <4>1 DEF All, Given
      <4> QED
        BY <4>1, <4>2, GivenTypes
    <3>2. CASE s # sender
      BY <1>7, <3>2, GivenRelayed, GivenTypes
    <3> QED
      BY <3>1, <3>2
  <2>3. FirstInv'
    <3>1. CASE \E p \in received : p <= relayed
      <4>1. \E p \in received : p <= relayed'
        BY <1>1, <2>1, <3>1
      <4> QED
        BY <1>1, <4>1 DEF FirstInv
    <3>2. CASE before = 0 /\ ~\E p \in received : p <= relayed
      <4>1. /\ received = {} /\ lastSequence = 0 /\ asked[s] = 0 /\ replay[s] = {}
            /\ \A x \in ToSet(inbox[s]) : 0 < x /\ x <= relayed
        BY <1>7, <2>1, <3>2 DEF FirstInv
      <4>2. ToSet(inbox[s]) \subseteq 0 .. MaxSeq
        BY AllTypes
      <4>3. \A x \in ToSet(inbox'[s]) : 0 < x /\ x <= relayed'
        BY <1>1, <2>2, <4>1, <4>2, ConnectionAssumption DEF ConnectionAssumption
      <4> QED
        BY <1>1, <2>1, <4>1, <4>3 DEF FirstInv
    <3> QED
      BY <1>1, <3>1, <3>2 DEF FirstInv
  <2>4. AskedInv(s)'
    <3>1. SUFFICES ASSUME asked[s] > 0
                   PROVE  AskedInv(s)'
      BY <1>1 DEF AskedInv
    <3>2. before > 0 \/ \E p \in received : p <= relayed
      BY <2>1, <3>1 DEF AskedInv, FirstInv, WireTypeOK
    <3>3. ASSUME NEW q \in before + 1 .. asked[s], \E p \in All(s)' : p < q
          PROVE  before > 0 \/ \E p \in All(s) : p < q
      <4>1. q \in Nat
        BY DEF WireTypeOK
      <4>2. PICK p \in All(s) \cup {relayed + 1} : p < q
        BY <2>2, <3>3
      <4>3. CASE p = relayed + 1
        <5>1. ASSUME NEW r \in received, r <= relayed PROVE r \in All(s) /\ r < q
          BY <1>1, <2>1, <2>2, <4>1, <4>2, <4>3, <5>1
        <5> QED
          BY <3>2, <5>1
      <4> QED
        BY <4>2, <4>3
    <3>4. ToSet(inbox[s]) \subseteq 0 .. MaxSeq
      BY AllTypes
    <3>5. \A x \in ToSet(inbox'[s]) : 0 < x /\ x <= relayed'
      BY <1>1, <2>1, <2>2, <3>1, <3>4, ConnectionAssumption DEF AskedInv, ConnectionAssumption
    <3>6. whole => \A q \in before + 1 .. asked[s] :
            before > 0 \/ (\E p \in All(s)' : p < q) => q \in received \cup excused'
      BY <1>1, <2>1, <3>1, <3>3 DEF AskedInv
    <3> QED
      BY <1>1, <2>1, <3>1, <3>5, <3>6 DEF AskedInv
  <2>5. AnsweredInv(s)'
    BY <1>7, RelayKeepsAnswered
  <2>6. ShownInv'
    BY <1>1, <1>7, <2>1, <2>3, <2>4, <2>5, ShownByOne
  <2> QED
    BY <1>1, <1>3, <1>5, <1>7, <2>6 DEF HeardInv
<1>8. CASE ~mounted
  BY <1>1, <1>3, <1>5, <1>8 DEF HeardInv, ShownInv
<1> QED
  BY <1>6, <1>7, <1>8

LEMMA RestartKeepsHeard ==
  ASSUME WireTypeOK, HeardInv, RestartServer
  PROVE  HeardInv'
<1>1. /\ UNCHANGED <<mounted, subscribed, call, opening, inbox, lastSequence>>
      /\ received' = {} /\ before' = lastSequence
      /\ \A s \in Sockets : asked'[s] = 0 /\ replay'[s] = {}
      /\ \A s \in Sockets : socket'[s] = IF Open(s) THEN "orphaned" ELSE socket[s]
  BY DEF RestartServer, screenVars, callVars
<1>2. Missing' = {}
  BY <1>1 DEF Missing, WireTypeOK
<1>3. OpeningInv' /\ SilentInv' /\ ReplayInv'
  BY <1>1 DEF HeardInv, OpeningInv, SilentInv, ReplayInv, Open
<1>4. \A s \in Sockets : socket'[s] \notin {"open", "joined"} /\ (Open(s)' => Open(s))
  BY <1>1 DEF Open
<1>5. GoneInv'
  BY <1>1, <1>2, <1>4 DEF HeardInv, GoneInv, NothingMissing
<1>6. FirstInv'
  BY <1>1, <1>4 DEF FirstInv
<1> QED
  BY <1>1, <1>2, <1>3, <1>4, <1>5, <1>6 DEF HeardInv, ShownInv

(* A whole replay closes every gap: what follows the number asked for is   *)
(* in it or excused, and the rest had been heard.                          *)
LEMMA ReplayCloses ==
  ASSUME WireTypeOK, HeardInv, NEW s \in Sockets, asked[s] > 0, whole, AskedInv(s),
         NEW G \in SUBSET Nat, received \subseteq G, Missed(s) \subseteq G,
         G \subseteq All(s) \cup Missed(s),
         NEW q \in before + 1 .. MaxSeq,
         q <= lastSequence \/ q <= buffered \/ \E h \in G : q <= h,
         before > 0 \/ \E p \in G : p < q
  PROVE  q \in G \cup excused \cup (asked[s] + 1 .. evicted)
<1>1. /\ asked[s] \in Nat /\ evicted \in Nat /\ buffered \in Nat /\ relayed \in Nat
      /\ lastSequence \in Nat /\ before \in Nat /\ q \in Nat /\ relayed <= buffered
      /\ MaxSeq \in Nat
  BY ConnectionAssumption DEF ConnectionAssumption, WireTypeOK
<1>2. /\ lastSequence <= asked[s] \/ lastSequence <= buffered
      /\ replay[s] = {}
      /\ \A x \in ToSet(inbox[s]) : 0 < x /\ x <= relayed
  BY DEF AskedInv
<1>3. All(s) = (received \cup ToSet(inbox[s])) \ {0} /\ received \subseteq 1 .. lastSequence
      /\ All(s) \subseteq 1 .. MaxSeq
  BY <1>2, GivenTypes, AllTypes DEF HeardInv
<1>4. q <= asked[s] \/ q <= buffered
  <2>1. ASSUME NEW h \in G, q <= h
        PROVE  q <= lastSequence \/ q <= buffered
    <3>1. CASE h \in Missed(s)
      BY <1>1, <2>1, <3>1 DEF Missed
    <3>2. CASE h \in received
      BY <1>1, <1>3, <2>1, <3>2
    <3>3. CASE h \in ToSet(inbox[s]) /\ h \in Nat
      BY <1>1, <1>2, <2>1, <3>3
    <3> QED
      BY <1>3, <2>1, <3>1, <3>2, <3>3
  <2>2. q <= lastSequence \/ q <= buffered
    BY <2>1
  <2> QED
    BY <1>1, <1>2, <2>2
<1>5. CASE q <= asked[s]
  <2>1. ASSUME NEW p \in G, p < q
        PROVE  p \in All(s)
    <3>1. p \notin Missed(s)
      BY <1>1, <1>5, <2>1 DEF Missed, MaxOf
    <3> QED
      BY <2>1, <3>1
  <2>2. before > 0 \/ \E p \in All(s) : p < q
    BY <2>1
  <2>3. q \in before + 1 .. asked[s]
    BY <1>1, <1>5
  <2> QED
    BY <2>2, <2>3 DEF AskedInv
<1>6. CASE q > asked[s] /\ q <= buffered
  <2>1. CASE q <= evicted
    BY <1>1, <1>6, <2>1
  <2>2. CASE q > evicted
    BY <1>1, <1>6, <2>2 DEF Missed, MaxOf
  <2> QED
    BY <1>1, <2>1, <2>2
<1> QED
  BY <1>1, <1>4, <1>5, <1>6

LEMMA StartKeepsAnswered ==
  ASSUME WireTypeOK, HeardInv, NEW s \in Sockets, StartReplay(s), AskedInv(s)
  PROVE  AnsweredInv(s)'
<1>1. /\ asked[s] > 0 /\ UNCHANGED <<inbox, whole, received, before, lastSequence, relayed>>
      /\ excused' = excused \cup (asked[s] + 1 .. evicted)
      /\ replay[s] = {}
      /\ replay'[s] = IF Missed(s) = {} THEN {} ELSE Missed(s) \cup {0}
  BY DEF StartReplay, serverVars, AskedInv, WireTypeOK
<1>2. SUFFICES ASSUME whole
               PROVE  AnsweredInv(s)'
  BY <1>1 DEF AnsweredInv
<1>3. /\ All(s) \cup Missed(s) \subseteq Nat /\ received \subseteq All(s) /\ MaxSeq \in Nat
      /\ 0 \notin Missed(s) /\ buffered \in Nat
  BY AllTypes, GivenTypes, MissedTypes, ConnectionAssumption DEF ConnectionAssumption, WireTypeOK
<1>4. ASSUME NEW G \in SUBSET Nat, received \subseteq G, Missed(s) \subseteq G,
             G \subseteq All(s) \cup Missed(s)
      PROVE  \A q \in before + 1 .. MaxSeq :
               /\ q <= lastSequence \/ q <= buffered \/ \E h \in G : q <= h
               /\ before > 0 \/ \E p \in G : p < q
               => q \in G \cup excused'
  BY <1>1, <1>2, <1>4, ReplayCloses
<1>5. All(s)' = All(s) \cup Missed(s) /\ \A i \in 0 .. Len(inbox[s]) : Given(s, i)' = Given(s, i)
  <2>1. \A i \in 0 .. Len(inbox[s]) : Given(s, i)' = Given(s, i)
    BY <1>1 DEF Given
  <2>2. Given(s, Len(inbox[s]))' = Given(s, Len(inbox[s]))
    BY <1>1 DEF Given
  <2> QED
    BY <1>1, <1>3, <2>1, <2>2 DEF All
<1>6. \A q \in before + 1 .. MaxSeq :
        /\ q <= lastSequence \/ q <= buffered \/ \E h \in All(s)' : q <= h
        /\ before > 0 \/ \E p \in All(s)' : p < q
        => q \in All(s)' \cup excused'
  <2> DEFINE G == All(s) \cup Missed(s)
  <2>1. G \in SUBSET Nat /\ received \subseteq G /\ Missed(s) \subseteq G /\ G \subseteq All(s) \cup Missed(s)
    BY <1>3
  <2> HIDE DEF G
  <2>2. \A q \in before + 1 .. MaxSeq :
          /\ q <= lastSequence \/ q <= buffered \/ \E h \in G : q <= h
          /\ before > 0 \/ \E p \in G : p < q
          => q \in G \cup excused'
    BY <1>4, <2>1
  <2> QED
    BY <1>5, <2>2 DEF G
<1>7. Closed(All(s))'
  BY <1>1, <1>6 DEF Closed
<1>8. ASSUME NEW i \in 0 .. Len(inbox'[s]), EndedBy(s, i)'
      PROVE  Closed(Given(s, i))'
  <2> DEFINE G == Given(s, i)
  <2>1. Missed(s) = {} /\ G = Given(s, i)'
    BY <1>1, <1>5, <1>8 DEF EndedBy
  <2>2. G \in SUBSET Nat /\ received \subseteq G /\ G \subseteq All(s)
    <3>1. \A j \in 1 .. i : j \in 1 .. Len(inbox[s])
      BY <1>1, GivenTypes
    <3>2. 0 \notin received
      BY <1>3 DEF WireTypeOK
    <3>3. G \subseteq All(s)
      BY <3>1 DEF All, Given
    <3> QED
      BY <1>3, <3>2, <3>3 DEF Given
  <2> HIDE DEF G
  <2>3. \A q \in before + 1 .. MaxSeq :
          /\ q <= lastSequence \/ q <= buffered \/ \E h \in G : q <= h
          /\ before > 0 \/ \E p \in G : p < q
          => q \in G \cup excused'
    BY <1>4, <2>1, <2>2
  <2> QED
    BY <1>1, <2>1, <2>3 DEF Closed
<1>9. ASSUME NEW q \in before + 1 .. relayed, before > 0 \/ \E p \in All(s)' : p < q
      PROVE  q \in All(s)' \cup excused'
  <2>1. q \in before + 1 .. MaxSeq /\ q <= buffered
    BY ConnectionAssumption DEF ConnectionAssumption, WireTypeOK
  <2> QED
    BY <1>6, <1>9, <2>1
<1> QED
  BY <1>1, <1>7, <1>8, <1>9 DEF AnsweredInv

(* The chunk that is queued is under way, after all that was.              *)
LEMMA PushKeepsAnswered ==
  ASSUME WireTypeOK, HeardInv, NEW s \in Sockets, PushReplay(s), AnsweredInv(s), ReplayInv'
  PROVE  AnsweredInv(s)'
<1> DEFINE q == inbox[s]
<1>1. PICK m \in replay[s] :
        /\ replay' = [replay EXCEPT ![s] = @ \ {m}]
        /\ inbox' = [inbox EXCEPT ![s] = Append(@, m)]
  BY DEF PushReplay
<1>2. /\ q \in Seq(0 .. MaxSeq) /\ m \in 0 .. MaxSeq
      /\ inbox'[s] = Append(q, m) /\ replay'[s] = replay[s] \ {m}
      /\ UNCHANGED <<asked, received, relayed, lastSequence, excused, whole, before>>
  BY <1>1 DEF PushReplay, WireTypeOK, serverVars, heardVars
<1> HIDE DEF q
<1>3. /\ Len(Append(q, m)) = Len(q) + 1 /\ Append(q, m)[Len(q) + 1] = m /\ Len(q) \in Nat
      /\ \A j \in 1 .. Len(q) : Append(q, m)[j] = q[j]
  BY <1>2
<1>4. \A x : x \in {inbox'[s][j] : j \in 1 .. Len(inbox'[s])} <=>
               x \in {q[j] : j \in 1 .. Len(q)} \/ x = m
  <2>1. 1 .. Len(q) + 1 = 1 .. Len(q) \cup {Len(q) + 1}
    BY <1>3
  <2> QED
    BY <1>2, <1>3, <2>1
<1>5. All(s)' = All(s)
  <2>1. Given(s, Len(inbox[s]))' = Given(s, Len(q)) \cup ({m} \ {0})
    BY <1>2, <1>4 DEF Given, q
  <2> QED
    BY <1>2, <2>1 DEF All, q
<1>6. ASSUME NEW i \in 0 .. Len(inbox'[s]), EndedBy(s, i)'
      PROVE  Given(s, i)' = All(s)'
  <2>1. replay'[s] = {} /\ m = 0
    <3>1. replay'[s] = {} /\ 0 \in replay[s]
      BY <1>6 DEF EndedBy, HeardInv, ReplayInv
    <3> QED
      BY <1>2, <3>1
  <2>2. i = Len(inbox'[s])
    <3>1. SUFFICES ASSUME i # Len(inbox'[s])
                   PROVE  FALSE
      OBVIOUS
    <3>2. Len(inbox'[s]) \in i + 1 .. Len(inbox'[s]) /\ inbox'[s][Len(inbox'[s])] = 0
      BY <1>2, <1>3, <1>6, <2>1, <3>1
    <3> QED
      BY <1>6, <3>2 DEF EndedBy
  <2> QED
    BY <2>1, <2>2 DEF All, Given
<1>7. asked[s] = 0 /\ whole => Closed(All(s))'
  BY <1>2, <1>5 DEF AnsweredInv, Closed
<1>8. asked[s] = 0 /\ whole =>
        \A i \in 0 .. Len(inbox'[s]) : EndedBy(s, i)' => Closed(Given(s, i))'
  BY <1>6, <1>7 DEF Closed
<1> QED
  BY <1>2, <1>5, <1>7, <1>8 DEF AnsweredInv

LEMMA ReplayKeepsHeard ==
  ASSUME AppInv, WireTypeOK, HeardInv, NEW s \in Sockets,
         StartReplay(s) \/ PushReplay(s) \/ ReplayCutShort(s)
  PROVE  HeardInv'
<1>1. /\ UNCHANGED <<mounted, subscribed, call, opening, socket, received, lastSequence, before>>
      /\ UNCHANGED relayed
      /\ \A t \in Sockets \ {s} :
           asked'[t] = asked[t] /\ inbox'[t] = inbox[t] /\ replay'[t] = replay[t]
  BY DEF StartReplay, PushReplay, ReplayCutShort, screenVars, callVars, serviceVars,
     serverVars, heardVars, WireTypeOK
<1>2. \/ socket[s] = "joined" /\ StartReplay(s) /\ asked[s] > 0
      \/ replay[s] # {} /\ (PushReplay(s) \/ ReplayCutShort(s))
  BY DEF StartReplay, PushReplay, ReplayCutShort
<1>3. socket[s] \notin {"closed", "opening", "failing"}
  BY <1>2 DEF HeardInv, SilentInv
<1>4. OpeningInv' /\ SilentInv'
  BY <1>1, <1>3 DEF HeardInv, OpeningInv, SilentInv
<1>5. ReplayInv'
  <2>1. CASE StartReplay(s)
    BY <1>1, <2>1 DEF StartReplay, HeardInv, ReplayInv, WireTypeOK
  <2>2. CASE PushReplay(s)
    <3>1. PICK m \in replay[s] :
            /\ \A n \in replay[s] \ {m} : n = 0 \/ (0 < m /\ m < n)
            /\ replay' = [replay EXCEPT ![s] = @ \ {m}]
      BY <2>2 DEF PushReplay
    <3>2. replay'[s] = replay[s] \ {m} /\ 0 \in replay[s] /\ replay[s] \subseteq 0 .. MaxSeq
      BY <3>1 DEF HeardInv, ReplayInv, WireTypeOK
    <3>3. m = 0 => replay'[s] = {}
      BY <3>1, <3>2
    <3> QED
      BY <1>1, <3>2, <3>3 DEF HeardInv, ReplayInv
  <2>3. CASE ReplayCutShort(s)
    BY <1>1, <2>3 DEF ReplayCutShort, HeardInv, ReplayInv, WireTypeOK
  <2> QED
    BY <1>2, <2>1, <2>2, <2>3
<1>6. CASE ~mounted
  <2>1. ~Open(s) /\ (PushReplay(s) \/ ReplayCutShort(s)) /\ 0 \in replay[s] /\ socket[s] # "orphaned"
    BY <1>2, <1>6 DEF HeardInv, GoneInv, ReplayInv, Open
  <2>2. NothingMissing'
    <3>1. CASE PushReplay(s)
      <4>1. PICK m \in replay[s] :
              /\ replay' = [replay EXCEPT ![s] = @ \ {m}]
              /\ inbox' = [inbox EXCEPT ![s] = Append(@, m)]
        BY <3>1 DEF PushReplay
      <4>2. inbox[s] \in Seq(0 .. MaxSeq) /\ m \in 0 .. MaxSeq
        BY DEF WireTypeOK
      <4>3. m \in ToSet(Append(inbox[s], m))
        <5>1. /\ DOMAIN Append(inbox[s], m) = 1 .. Len(inbox[s]) + 1 /\ Len(inbox[s]) \in Nat
              /\ Append(inbox[s], m)[Len(inbox[s]) + 1] = m
          BY <4>2
        <5> QED
          BY <5>1 DEF ToSet
      <4>4. 0 \in replay'[s] \cup ToSet(inbox'[s])
        BY <2>1, <4>1, <4>3 DEF WireTypeOK
      <4> QED
        BY <1>1, <2>1, <4>4 DEF NothingMissing, NoPendingReplay, ReplayPending
    <3>2. CASE ReplayCutShort(s)
      BY <3>2 DEF ReplayCutShort, NothingMissing
    <3> QED
      BY <2>1, <3>1, <3>2
  <2>3. \A t \in Sockets : Open(t)' => Open(t) /\ t # s
    BY <1>1, <2>1 DEF Open
  <2> QED
    BY <1>1, <1>4, <1>5, <1>6, <2>2, <2>3 DEF HeardInv, GoneInv, ShownInv
<1>7. CASE mounted
  <2>1. socket[s] = "joined"
    <3>1. socket[s] \notin {"orphaned", "open", "closing"}
      BY <1>2, <1>7 DEF HeardInv, ShownInv, AppInv, ConnectionInv
    <3> QED
      BY <1>3, <3>1 DEF AppInv, AppTypeOK, SocketStates
  <2>2. Live(s) /\ AskedInv(s) /\ AnsweredInv(s) /\ FirstInv
    BY <1>7, <2>1 DEF HeardInv, ShownInv, Live, Open
  <2>3. FirstInv'
    <3>1. before = 0 => \E p \in received : p <= relayed
      BY <1>2, <2>1, <2>2 DEF FirstInv, WireTypeOK
    <3> QED
      BY <1>1, <3>1 DEF FirstInv
  <2>4. AskedInv(s)'
    <3>1. asked'[s] = 0
      BY <1>2, <2>2 DEF StartReplay, PushReplay, ReplayCutShort, AskedInv, WireTypeOK
    <3> QED
      BY <3>1 DEF AskedInv
  <2>5. AnsweredInv(s)'
    <3>1. CASE ReplayCutShort(s)
      BY <3>1 DEF ReplayCutShort, AnsweredInv
    <3> QED
      BY <1>2, <1>5, <2>2, <3>1, StartKeepsAnswered, PushKeepsAnswered
  <2>6. ShownInv'
    BY <1>1, <1>7, <2>1, <2>2, <2>3, <2>4, <2>5, ShownByOne
  <2> QED
    BY <1>1, <1>4, <1>5, <1>7, <2>6 DEF HeardInv, GoneInv
<1> QED
  BY <1>6, <1>7

LEMMA StepKeepsHeard ==
  ASSUME AppInv, WireTypeOK, HeardInv, [Next]_vars
  PROVE  HeardInv'
<1>1. ASSUME NEW c \in Calls, OpenScreen(c) \/ TimerFires(c) \/ RetryConnection(c) \/ ConnectStep(c)
      PROVE  HeardInv'
  BY <1>1, BeginKeepsHeard, CallKeepsHeard, HandshakeKeepsHeard
<1>2. ASSUME NEW s \in Sockets,
             \/ Receive(s) \/ OnError(s) \/ OnDone(s) \/ JoinRoom(s)
             \/ StartReplay(s) \/ PushReplay(s) \/ ReplayCutShort(s)
      PROVE  HeardInv'
  BY <1>2, ReceiveKeepsHeard, LossKeepsHeard, JoinKeepsHeard, ReplayKeepsHeard
<1>3. CASE Disposed \/ UNCHANGED vars
  <2>1. UNCHANGED <<mounted, subscribed, call, opening, socket, wireVars, serverVars, heardVars>>
    BY <1>3 DEF Disposed, vars, screenVars, callVars, serviceVars
  <2>2. OpeningInv'
    BY <2>1 DEF HeardInv, OpeningInv
  <2> QED
    BY <2>1, <2>2, SocketsChange
<1>4. CASE Dispose \/ BufferChunk \/ EvictChunk \/ RestartServer
  BY <1>4, DisposeKeepsHeard, BufferKeepsHeard, RestartKeepsHeard
<1>5. ASSUME NEW sender \in Sockets \cup {NoSocket}, RelayChunk(sender)
      PROVE  HeardInv'
  BY <1>5, RelayKeepsHeard
<1> QED
  BY <1>1, <1>2, <1>3, <1>4, <1>5 DEF Next

(* As long as every replay is received to its end, the app has heard what  *)
(* the server had, for any number of chunks, losses and restarts and       *)
(* however live audio, replays and evictions interleave.                   *)
THEOREM NothingMissingTheorem == Spec => []NothingMissing
<1>1. Spec => []WireTypeOK
  <2>1. ConnectionTypeOK => WireTypeOK
    BY DEF ConnectionTypeOK
  <2> QED
    BY <2>1, ConnectionTypes, PTL
<1>2. AppInv /\ WireTypeOK /\ HeardInv /\ [Next]_vars => HeardInv'
  BY StepKeepsHeard
<1>3. WireTypeOK /\ HeardInv => NothingMissing
  BY HeardMissesNothing
<1> QED
  BY <1>1, <1>2, <1>3, AppInvariant, InitHeard, PTL DEF Spec
=============================================================================
