# RadioPX in TLA+

RadioPX is a push-to-talk radio: a Go server (`backend/`) and a Flutter app
(`frontend/`). This directory holds TLA+ modules of the program, the TLC
configurations that check them on small instances, and proofs for instances of
any size that the TLA+ proof system checks. `PROJECT.json` maps every
definition to the lines it models.

What is here models the two ends of the radio: the audio server, which is
everything that happens between a WebSocket message of one client and the same
audio on the sockets of the others; and the app's voice screen, which is
everything between the socket, the button, the microphone and the loudspeaker;
and, of the REST side, who is a member of which channel, the accounts of the users with
what admins do to them, and the session of an app, from the login over the refresh of
its tokens to the logout.
The plan at the end says what is left.

## 1. The system

| Component | State | Operations | Status |
|---|---|---|---|
| Push-to-talk lock, `voice/service.go` | per room: speaker, transmitting | start, stop, sweep of idle rooms | modelled, proved |
| Replay buffer, `voice/buffer_service.go` | per room: list of chunks, last sequence | add, read since, mark replayed, clear, expire by age and size, ticker | modelled, proved |
| Hub, `pkg/websocket/hub.go` | clients, rooms, broadcast queue, a send queue per client | register, unregister, join, leave, relay, drop | modelled, proved |
| Connections, `pkg/websocket/client.go`, `voice/handler.go` | per connection: goroutines ReadPump and WritePump, its rooms | connect, talk, stop, replay, join, leave, lose, clean up | modelled, proved |
| App: connection, `websocket_service.dart`, `voice_screen.dart` | socket, last sequence, attempts, reconnect timer | connect, reconnect, retry, ask for a replay, dispose | modelled, proved |
| App: talking and listening, `voice_screen.dart`, `audio_service.dart` | receiving, transmitting, busy, recorder, idle timer | press, release, start and stop recording, receive, stop, dispose | modelled, proved |
| App: receive queue, `audio_queue.dart` | bounded queue of chunks and end markers | enqueue, drop, play, clear | modelled, proved |
| App: `ptt_service.dart` | - | - | dead code: nothing uses it |
| Channels, `channel/` | channels, membership rows | create, join, leave; update and delete, which are routed nowhere | modelled, proved |
| Users, `user/` | user rows | register, update, change the password, delete, bootstrap of admins | modelled, proved |
| Admin panel, `admin/` | - | suspend, promote, delete | handlers that change users modelled, proved |
| Authentication, `auth/` | none in the server; tokens at the clients | login, validate, refresh | modelled, proved |
| Middleware, `middleware/` | requests per address in a window | allow, clean up; require a token, an admin | modelled, proved |
| App: session, `auth_service.dart`, `app.dart` | three preferences, session flag, screen shown | login, register, refresh, logout, check at the start | modelled, proved |
| Buffer manager, `voice/buffer_manager.go` | per user replay positions | - | dead code: nothing constructs it |
| Migrations, `db/` | recorded versions | apply | not modelled: one transaction each, before the server listens |
| Location, `location/` | - | distance | not modelled: floating point |
| Other screens of the app, the admin page | presentation | - | not modelled |

### How the parts of the audio server interact

`HandleWebSocket` upgrades a connection, hands its client to the hub over an
unbuffered channel, joins it to the room of the URL and starts two goroutines.

* **ReadPump** reads one message at a time and handles it to its end. For an
  audio chunk it takes the floor of the room (lock), numbers and buffers the
  chunk (buffer), and puts the packet on the hub's broadcast queue: three
  steps, each under its own lock, with the other goroutines running in between.
  For a replay request it copies the buffer and pushes the chunks into the
  client's own send queue. When the socket fails, deferred calls free the floors
  of the client's rooms one by one and hand the client to the hub for removal.
* **The hub's goroutine** receives from three channels (register, unregister,
  broadcast) and then handles what it received under the hub's lock. A client
  whose send queue is full is dropped: its queue is closed.
* **WritePump** empties the client's send queue into the socket.
* **The buffer's ticker** expires old chunks every 5 minutes.

Joining and leaving rooms is done by ReadPump directly, under the hub's lock, at
any time, also between the hub's receiving something and its handling it.

### How the app's voice screen works

Dart runs one callback at a time, and every `await` is a point at which any other
callback may run: a message or the end of a socket, a timer, the button, or
`dispose`. The screen holds no lock; what keeps its callbacks apart is which
of them calls which, and a handful of flags.

* **Connecting.** `_connectWebSocket` closes the old socket, asks
  `AuthService` for a token (which may renew it over the network) and opens a socket: three
  awaits. It is called when the screen opens, by the reconnection timer and by
  the retry button. A socket that ends sets the timer, five times at most, and then the
  retry button is shown.
* **Catching up.** Once connected, the screen asks the server for what came after
  the highest sequence it has heard.
* **Talking.** The button starts a recording (two awaits: permission and
  recorder) and stops it (one await).
* **Listening.** A chunk goes into `AudioQueue`, which a periodic timer empties
  into the player. The first chunk opens a segment and blocks the button; an
  end-of-segment marker, the stop button, the end of the socket or 2.5 s of
  silence close it.

The two ends meet in the messages of the socket. `VoiceConnection` takes from
`VoiceRelay` what that module shows of the server: chunks are numbered, buffered
and relayed in the order of their numbers (`RelayOrder`), and a replay is a suffix of
the buffer without holes (`NoHoles`), which a full queue may cut short. `RestartServer` is
a new process: the sockets are lost, the buffer is empty, and chunks are numbered from 1
again (`NewAudioBufferService`), while the app keeps its last sequence.

### How the channels work

Every request runs in a goroutine of its own and keeps its state in PostgreSQL. Creating a channel
and joining it are transactions, leaving is two or three statements
without one, and updating and deleting check the creator in one statement and act in the
next. `main.go` (196-208) routes nothing to these last two: their handlers exist, but a request of theirs
is taken for a lookup of the channel and answered 405. What orders concurrent requests is the lock that `AddMember` takes on the
channel's row (`SELECT ... FOR UPDATE`), and the tables' references and unique key. The deletion of an account takes the account's row and then, in the same statement, cascades to
memberships and channels; it waits for joins of the user, and joins of the user wait for it. The voice server does not
look at memberships: it relays to whoever connects.

### How accounts and sessions work

A request of the REST side carries an access token, and the server asks nothing but whether that is signed and
not expired; the admin routes also read the sender's row. Every change of an account reads its row in one
statement, changes a column and writes the whole row in another, without a transaction: suspensions,
promotions, passwords and e-mails share one `UPDATE`. When the server starts it makes the accounts of
`ADMIN_EMAILS` admins.

The app keeps a pair of tokens and the user in three preferences, which are written one after the other with an
await between. Whoever needs headers for a request renews an expired token first; a
refresh that is refused logs out. `AuthGate` shows the login or the main screen: it
looks at the preferences when the app starts and whenever `sessionState` changes its value. Login,
registration and refresh pass a rate limiter that counts by address.

### What is hard about it

* Floor, sequence and broadcast are taken in three steps by as many goroutines
  as there are speakers; the floor may be freed under a speaker by another
  connection of the same user.
* A replay is a snapshot taken while live audio goes on.
* Floors are freed by the rooms a connection recorded, not by the floors it
  took; the record changes with join and leave.
* A send queue is closed by the hub in two places and written to by two
  goroutines.
* Everything must be undone when a connection is lost at any of these points.
* In the app, starting and stopping a recording overlap; listening and talking share the flag that
  blocks the button; the queue drops markers as well as audio.
* The timer, the retry button, a slow handshake and `dispose` race for one connection, and
  live audio races the replay for the last sequence.
* Joins count the members after they have inserted themselves, and do not see each other's rows before
  they are committed; users are deleted in between, and a join and a deletion may wait for each other.
* A row that is written whole may be stale; two admins who act on each other pass the same check.
* Logins, refreshes and logouts of the app overlap at every await, outlive the screen that began
  them, and meet the end of the app between two writes.
* What is shown follows a flag and not what is stored; tokens outlive the account.

`PROJECT.json` lists the hazards line by line, those of the unmodelled parts too.

## 2. The modules

| Module | Models | Uses |
|---|---|---|
| `Shared` | the constants the parts have in common | |
| `Floor` | abstract: who holds the floor of each room | |
| `VoiceService` | the lock; implements `Floor` | `Shared`, `Floor` (refinement mapping `FloorOf`) |
| `AudioBuffer` | the replay buffer and its ticker | `Shared` |
| `Hub` | the hub's goroutine, rooms and queues | `Shared` |
| `VoiceRelay` | the connections, and the server they make up with the three above | `VoiceService`, `AudioBuffer`, `Hub` |
| `AudioQueue` | the app's queue of received audio | |
| `VoiceScreen` | talking and listening on the app's voice screen | `AudioQueue` |
| `VoiceConnection` | the app's connection to a channel, its losses and replays | |
| `Groups` | abstract: channels with members, up to a limit | |
| `Membership` | channels, joins and leaves as SQL statements; implements `Groups` | `Groups` |
| `Accounts` | the table of users and the requests that change it, bootstrap and restart | |
| `RateLimiter` | the requests let through per address | |
| `Sessions` | the app's session and gate, against login and refresh | `RateLimiter` |
| `MCAudioBuffer`, `MCVoiceRelay`, `MCVoiceScreen`, `MCVoiceConnection`, `MCMembership`, `MCAccounts`, `MCSessions` | instances for TLC | |
| `VoiceConnectionProofs`, `MembershipProofs`, `AccountsProofs` | theorems about the module of that name | the module, `TLAPS` |
| `AudioBufferProofs` | theorems about `AudioBuffer` | `SumProofs` |
| `VoiceRelayProofs` | theorems about `VoiceService` and `VoiceRelay` | `AudioBufferProofs` |
| `VoiceScreenProofs` | theorems about `VoiceScreen` and `AudioQueue` | `SumProofs` |
| `SessionsProofs` | theorems about `Sessions` and `RateLimiter` | `SumProofs` |
| `SumProofs` | lemmas: induction over naturals, sums over finite sets | `TLAPS` |

### Correspondence with the code

**The server.**

*Locks.* `VoiceService` and `AudioBufferService` hold their mutex from the first
line of an operation to the last, so an operation is one action. `Hub.mu` is
held for the handling of one event, `JoinRoom` and `LeaveRoom`, and not for the
receive before the handling; `hubTask` is what was received and not handled yet.

*Goroutines.* `reader[c]` is where HandleWebSocket and ReadPump are: `none`,
`register` (at the rendezvous), `join`, `read`, and for audio `buffer` and
`relay`, for a replay `replay`, after the socket failed `release`,
`unregister`, `done`. `writer[c]` is the same of WritePump. Between any two steps
everything else may happen.

*Messages.* What a client sends is chosen when `ReadMessage` returns it: any
message it may send at all. Clients outside `Roaming` behave as the app does and
name the room of their URL only (the app joins that room again whenever its user
starts to talk); those in `Roaming` name any room and leave rooms.
A chunk is its sequence, room and sender, and its content is left out.

*Data.* Rooms, users and connections are model values. The buffer's list is a
set, ordered by sequence. Of time only what the buffer compares is kept: a
clock that ticks up to the next run of the ticker. `LastActivity` of the lock is
read by `CleanupInactiveChannels` alone and becomes a free choice of rooms.
`cleanupBySize` is the choice of the first suffix within the limit.

*Failures.* `Disconnect` is any end of a socket: close, network loss, a pong
or a write that timed out. `WriteFails` and `ReadFails` are how the goroutines
learn of it. A panic of the hub is not recovered from and ends the process:
after `panicked` nothing happens.

*Left out.* `CleanupInactiveChannels` is never started by `main.go`: it is in
`VoiceSpec`, and not in the server. The HTTP handlers for the lock and
`BroadcastAudio` in `voice/handler.go` are not routed. Marking chunks as replayed
and clearing a room are used by nothing but tests and the unused buffer manager: they
are in `BufferSpec` and not in the server. Pings are not
modelled. Memory of `VoiceHub.channels`, which never shrinks, is not either.

**The app.**

*Awaits.* An action is what runs from one await to the next. `starts[i]` and `stops` are
the calls of `_startTalking` and `_stopTalking` that wait, `call[c]` those of
`_connectWebSocket`. `Calls` and `Sockets` bound how many there may be at a time:
that there is never a second connecting call is a property, not a bound.

*The button.* `touch` is the finger: none, a tap, or a tap that was cancelled
while the finger stays down. Flutter tells the button of the end of a tap and of its cancelling,
and cancels a tap when the button is disabled or taken away; a release after
that, or one that finds the button without handlers, is `ReleaseUnheard`. A press is handled with the state the
button was last drawn with, which is the current one.

*The recorder* answers its calls in the order it got them, and may deny the
permission or fail to start.

*The queue* keeps the lengths of its chunks and drops the oldest until they fit,
as `enqueue` does. Its timer is `playing`; a tick takes one element.

*The socket.* `socket[s]` goes from `opening` over `open` and `joined` (the server has put
the client into the room) to `failing` (onError was called), `closing` and `closed` (onDone was called).
`inbox[s]` holds the chunks on their way. What a lost socket had under way is
lost with it. Disconnecting and forgetting the channel are two steps with the
await of `sink.close` in between, in `dispose` as well.

*The server* is three counters, what it has numbered, sent and forgotten, for
a chunk is its number. It evicts whenever it likes, so age and size are not
needed. The user's own audio is among the chunks: `RelayChunk(sender)` passes a chunk to every
joined socket but its sender's (`hub.go:63-67`).

*A replay* is copied at once (`StartReplay`) and queued chunk by chunk, with the end packet last (`PushReplay`);
`replay[s]` is what is still to be queued, and 0 in it stands for the end packet. Live chunks are queued in between, and
the client's queue may be full before any of it (`ReplayCutShort`).

*History.* `received` is what was heard, `excused` what the app is not owed, because it sent it itself or
the server had forgotten it when the replay began, `whole` whether no replay was cut short. No guard reads them.

*Time.* A timer that is armed fires at any time. That goes for the idle timer while the queue is playing, too: a chunk
that arrives just before the 2.5 s are over starts the queue's timer (`voice_screen.dart:170`), whose first tick comes
50 ms later (`audio_queue.dart:68`), and only that tick sets the idle timer back (`voice_screen.dart:190`).

**The channels.**

*Statements.* An action is one statement, for at READ COMMITTED a statement sees what
is committed when it starts and what its own transaction did. `request[r].at` is
what the request does next. An uncommitted insert is not in `members`: it is
a request that is `Inserted`. `lock` is the row lock of a transaction; updates and deletes of that
row wait for it.

*The deletion of a user* is one statement that takes its locks one after the other. `LockUser` takes the user's row, for which it
waits until inserts that refer to the user are committed or rolled back; from there on such inserts wait for the deletion
(`Leaving`). `DeleteUser` is the rest, the cascade to memberships and to the creator of channels, which waits for
the rows of those channels. A join holds its channel's row and may wait for its user's, so the two can wait for
each other, also in a circle of several (`Entangled`). PostgreSQL finds a circle and aborts one of those in it: `CancelDeletion` or `Fail`.

*Requests.* `Asks[r]` is what request `r` may be for. `main.go` (196-208) routes nothing to `HandleUpdateChannel`
and `HandleDeleteChannel`, so no request to the deployed server asks for `own`. The service has both operations, the
integration test calls one (`db/pg_integration_test.go:165-169`), and what is checked and proved holds with them and without.

*Failures.* `Fail` is any statement that fails, a lost connection to the database and the
end of the server: the transaction is rolled back, and what was committed before stays. A commit whose
confirmation is lost is a commit.

*Left out.* Names, descriptions, positions, timestamps and the lists of channels, which only read. `JoinChannelOrCreate`
is routed nowhere, and `MemoryChannelStore` serves the unit tests.

**The accounts.**

*Statements.* As with the channels an action is a statement. `request[r]` holds what the handler does next, the row it
has read (of its columns the four that decide anything: e-mail, password,
admin, active) and the edits it still has to write: a PATCH with both flags is two edits, each a read and a
write. Who sends a request is any account there ever was, for a token is valid after suspension
and deletion. `IsAdmin` does not look at `is_active`.

*History.* `given` collects what somebody asked for; `alone` is false once another request has changed the table
under a request. No guard reads either.

*Failures.* `Fail` is any statement that fails. `Restart` ends the server with all requests under way; then
`BootstrapAdmins` runs before the server listens, and may fail at any account,
which is only logged.

*Left out.* Names, avatars and positions (`UpdateLastLocation` writes columns of its own, so it races with nothing);
input that is refused before any statement; `CreateOAuthUser`, which is routed nowhere.

**The sessions.**

*Awaits.* `call[c]` is a call of `AuthService` that has not ended: `ask` (a login, a registration or a refresh
is with the server), `found` (the server has found the user and is to make the pair), `answered`, `write` (one of the three writes is with the plugin), `send` (a request with headers is
on its way). Nothing cancels a call. A registration differs from a login in its route only. `_refreshingSession`
belongs to an instance of `AuthService`, and the gate makes a new one for every
check, so that it never holds anything back: it is left out.

*Preferences.* The plugin is external: it changes its cache at the call, writes to the disk later and answers in the order of the
calls. An app that ends keeps a prefix of its writes (`Stop`); `torn` records that, since a mixture is
then what the code allows.

*The gate.* `told` is a check that is due: at the start and when `sessionState` changes its value, not when it
is set to the value it has. A listener runs before any other event.

*The server* is the status of the accounts, when the last access token of each runs out, and the limiter. A refusal
is one answer, whether of the limiter, of wrong credentials or of a database that fails: `handleRefresh` answers
all but the first with 401, and the app logs out at any of them.

Looking the user up (`ServeLogin`, `ServeRefresh`) and issuing the pair (`ServePair`) are two steps, with a suspension or a
deletion in between: the pair is issued all the same.
A call that is given up at `found` (its timeout, or the end of the app) gets no pair: to the app that is the same as an answer
that comes too late, and the token that would have been issued is one that nobody has.

*Time* passes in ticks against which the lives of tokens are measured; a call lasts for less than two of them, and from
the lookup to the issue of a pair there is none: a request takes seconds and a token lives for 24 hours. By as much
`DeletedRunsOut` is inexact.

*Left out.* Tokens that are no JWTs, which this server does not issue.

## 3. The runs

| Run | Question | Instance | States |
|---|---|---|---|
| `audio_buffer` | Is a room's buffer always a gap-free suffix of its audio, within its limits, and is the newest chunk in it? | 1 room, chunks of 1, 2, 4 against a limit of 3, 4 sequences, 7 units of time: two runs of the ticker | 3.5 k |
| `relay` | Do floor, relay order, replay, rooms and panics stay as they should in every interleaving of an app client and one that joins, leaves and speaks anywhere? Does a lost connection end up with no floor and in no room? Does the server implement `Floor`? | 2 connections of 2 users, one roaming, 2 packets, replays since 0 and 1, a buffer of one chunk, fairness | 0.25 M |
| `voice_screen` | Do queue, button and microphone stay consistent while calls overlap, and does reception end? | 2 calls, chunks of 1 and 2 against a limit, fairness | 93 k |
| `voice_connection` | One connection at a time, a retry always pending, nothing missing after whole replays, and does it reconnect, whatever is lost and when the server restarts? | 2 calls, 2 sockets, 2 attempts, 3 chunks of the user and of others, a restart, fairness | 0.78 M |
| `membership` | Do concurrent requests keep channels within their seats, use every seat, and all get an answer? | 1 channel with 2 seats, 5 requests and 2 deletions of 3 users, any failures, fairness | 0.19 M |
| `accounts` | What do updates that race undo, and what never? Who remains an admin? | 3 users, one or two of them admins, 2 e-mails, 2 passwords, 2 requests, any failures, deletions and restarts | 0.28 M |
| `sessions` | Are sessions stored whole and shown as they are, however calls overlap? Does the limiter count right? Do tokens of deleted accounts run out? | 1 account, 2 calls, 2 starts of the app, limit 1 in a window of 2, tokens of 2 and 3 ticks, 4 ticks, fairness | 1.5 M |
| `hub_panic` | Does the server survive dropping a slow client? | 2 app connections | violated |
| `two_speakers` | Is the audio of two users ever under way to one room? | 3 connections, two of them of one user | violated |
| `hot_mic` | Is the microphone open only while the button is held? | as `voice_screen` | violated |
| `suspended_refresh` | Do the tokens of a suspended user run out? | as `sessions` | violated |
| `logout_unseen` | Does the app show a logout? | as `sessions` | violated |

### Properties

* `NoHoles`: expiry and the size limit remove from the old end only, so
  a replay lacks nothing in its middle.
* `SizeBounded`, `RetentionBounded`, `LatestKept`: the limits as the code
  enforces them: a chunk stays for less than `MaxDuration + CleanupInterval`, and the chunk
  that was just relayed can be replayed even if it alone is over the limit.
* `ImplementsFloor`: start tests one field of the lock and stop the
  other; nobody ever gets the floor from another speaker but by way of its
  being free.
* `OneSpeakerAtATime`: RF03 for the audio and not only for the lock. It holds
  while no user has two connections.
* `RelayOrder`: what the hub relays to a room is in order of sequence, although
  numbering and queueing are two steps. This rests on the lock: one speaker,
  who numbers and queues one chunk at a time. With two connections of one user it fails as
  `OneSpeakerAtATime` does (TLC finds the run when it is given such an instance): one numbers a chunk before
  the other and queues it after.
* `NoOrphanFloor`, `FloorFreed`: whoever of the app holds a floor has a connection
  whose end will free it; and the floor is freed in the end.
* `PanicOnlyAfterDrop`: no order of joining, leaving, unregistering and relaying
  panics, but for clients dropped for being slow.
* `NoReplayGap`: once a replay has been sent to its end, every chunk of the room
  after the sequence it started from has reached the client or is on its way
  (its own audio aside): the client joins before the snapshot, and every chunk is
  buffered before it is broadcast.
* `LiveRoomsCounted`: the admin panel's count of live rooms is right as long as
  nobody was dropped.
* `GoneForgotten`: a lost connection leaves the hub and every room, so ReadPump
  and the hub never wait for each other for ever.

Of the app:

* `QueueConsistent`: the byte count kept beside the queue is right, the queue is within its
  limit, and audio in it is being played.
* `BusyIffActive`: the button is blocked exactly while the screen receives or
  transmits, and nothing blocks it without the idle timer running.
* `OpenMicShown`: once all calls have ended, an open microphone is shown and
  ends with the next release. (That it is open only while the button is held
  is what `hot_mic` refutes.)
* `ReceptionEnds`: whatever became of the end-of-segment marker.
* `OneConnection`: no second call connects, no second socket is open, and the timer is not set
  while connected: the reason why a late `onDone` of an old socket cannot end the new one.
* `ReconnectPending`, `ReconnectsOrOffers`: after any failure but an exception
  from renewing the token, the timer is set or the retry button shown, and the screen ends up
  connected or with the button.
* `NothingMissing`: as long as every replay was received to its end, all chunks
  between the first heard and the last have been heard, or the app sent them, or the server had forgotten them,
  although live audio moves the last sequence ahead of the replay. After a restart of the server this
  holds of the numbers above the one the app had come to (`before`); below it, see section 4.

Of the channels:

* `NotOversubscribed`, `FullOnlyWhenFull`: the count after the insert is neither too
  late nor too early: no channel has more members than seats, and nobody is refused for a seat that
  a join under way may yet give back.
* `ImplementsGroups`: whatever fails where, channels and members change one at a time as `Groups`
  has it. `MembershipTypeOK` adds that rows refer to what exists.
* `RequestsEnd`: every early return gives the row back, and no request is left in a circle with the deletion of an account.

Of the accounts:

* `NothingInvented`: updates that race undo each other, but every value in the table, and every value a request may
  yet write, was asked for by somebody for that account: nobody is an admin without having been promoted.
* `DeletedForGood`: an update that has read a row does not bring it back after its deletion.
* `LastAdminLostInRaceOnly`: the guard against acting on oneself keeps an admin as long as requests do not
  overlap. Two admins who demote each other at once may leave none, and so may an admin who deletes its own account.
* `BootstrapPromotes`: then the next start makes the accounts of `ADMIN_EMAILS` admins again, before any
  request. `AccountsTypeOK` adds that e-mails are unique.

Of the sessions:

* `LimitExact`: in no window are more requests let through than the limit, and whoever has made fewer
  is let through, whatever was refused or cleaned up before.
* `AllOrNothing`: the three preferences are never left as a mixture of two sessions, in the cache or
  on the disk, although nothing keeps two calls apart: writes are answered in their order, so that the writes
  of one call follow those of another one by one.
* `GateFollows`: when all is quiet, an announced session is stored and shown, and whoever sees the login screen has no
  session that would do. `GateDecides`: the app does not stay on the spinner.
* `FreshHeaders`: a request never goes out with an expired token.
* `DeletedRunsOut`: access tokens are not revoked, but none is issued that lasts for longer than its life from
  the deletion of the account, but for the moment that a request takes. (For a suspension `suspended_refresh` refutes the same.)

### Bounds, and why they are enough

* `SendCap` and `BroadcastCap` are 1 for the 256 of the code. A full queue is what matters
  and one message fills it; the proofs hold for every capacity.
* `MaxPackets` bounds the audio packets and replay requests, all clients
  together: two are a chunk and a replay, or two speakers
  with the release between them (and three in `two_speakers`, which needs them). Joins, leaves, refused starts and losses are not bounded.
* `MaxSeq` is never met in the relay (`MaxSeq >= MaxPackets`); in
  `audio_buffer` four chunks are twice what the size limit holds.
* `MaxTime` is 0 where age does not matter, and covers an expiry and two runs of
  the ticker where it does.
* One room: rooms meet only in the record of a client's rooms and in the hub's
  drop, which the proofs cover for any number of rooms.
* Every connection is made once. A user who comes back is another connection of
  the same user.
* `CHECK_DEADLOCK FALSE` in the relay: the server stops when every
  connection is over or it has panicked. In the app: the screen was left.
* `MaxMessages` and `MaxPresses` bound what the others and the user do. `MaxMessages` also
  stands for the others falling silent in the end, which `ReceptionEnds` needs: while
  somebody talks, reception goes on.
* `MaxAttempts` is 2 for the 5 of the code: a first failure, a last attempt and one too
  many. Losses and retries are not bounded.
* `Calls` and `Sockets` are two each, so that a second one would be possible.
* Five requests are a creation, a second join of the creator, two joins for the last seat, and a leave or
  a deletion by the creator; two deletions of accounts are the two sides of a circle through one channel, whose creator
  and whose joiner leave at once. Channels meet only in the deletion of a user, which the proofs cover for any number.
  In `membership` nothing is left to do when all requests are answered, hence no check for deadlock; that none waits for
  ever is `RequestsEnd`.
* Two requests on accounts, each of several statements, are a read and a write with another's write, deletion or
  restart between; `alone` says why a third adds nothing: a property speaks of one request and of
  whether any other came in between. The theorems hold for any number.
* Two calls of `AuthService` are any two that overlap; three calls and two accounts were checked without the liveness
  property (5 M states each). Four ticks are the end of an access token, of the refresh token and of both after a
  renewal; `MaxStarts` is a first start and one that finds a stored session.
* `CHECK_DEADLOCK FALSE` in `sessions`: the app was ended for the last time and time is over.
* In `voice_connection`, `MaxSeq` is 3: a chunk heard before the loss, one missed, and one live before or during
  the replay, any of them the app's own. `MaxRestarts` is 1: chunks of the old server, then of the new one, below and above
  the number the app had come to. `NothingMissingTheorem` holds for any number of both.

### Fairness

`FairSpec` assumes weak fairness of the hub's goroutine, of every ReadPump once it
has a message or its socket has failed, and of a WritePump whose queue was closed. Go runs
every goroutine that can run; the select of the hub picks at random among its
ready channels, which is more than what is assumed, since at a rendezvous
weak fairness of ReadPump does not promise its turn. That it
is enough follows from the bound on packets: there is nothing for ever to prefer. Nothing is
assumed of clients: they may stay silent, never read and never leave.
WritePump's writes are not fair, for a peer may stop reading.

In the app, `VoiceScreen` assumes that its two timers fire, of the idle timer only once the queue has stopped playing,
since every chunk played sets it back, and nothing of the user, the recorder and the others. `VoiceConnection` assumes that the event loop runs what is
due, that the timer fires, that requests for a token and handshakes come to an end (both have
a timeout), and that a socket that reported an error is closed; nothing of the network and
the user.

`Membership` assumes that a request, or a deletion, whose next statement can run goes on: PostgreSQL grants a row lock
that is free, and handlers do not stop. It does not assume that anything fails, but for the deletion that is
`Entangled`: PostgreSQL looks for circles after `deadlock_timeout` and aborts one of those in them.
It may pick a join instead, which ends that join as well.

`Sessions` assumes that the preferences plugin answers, that a check that is due runs, and that a call comes to its answer or to the
timeout of 10 s (`apiTimeout`). It assumes nothing of the server and the user. `Accounts` has no liveness.

## 4. Divergences found

1. *Panic after a drop* (`hub_panic`). The hub closes the queue of a slow client and
   leaves the client registered: its unregistration closes the queue again. The
   comment at `client.go:313` takes the drop for survivable.
2. *Two speakers* (`two_speakers`). The end of a user's old connection frees the floor under
   the user's new one. `OneSpeakerTheorem` shows that it takes two connections of one user.
3. *Open microphone* (`hot_mic`). A button released before the permission or the
   recorder has answered leaves the microphone open, and the user shown as
   transmitting, until it is pressed and released again.
4. *Suspension without end of access* (`suspended_refresh`). `docs/decisoes.md:470` accepts that a suspended user's token
   is valid until it expires. But a refresh does not ask whether the user is active, and gives new tokens every time.
5. *Logout not shown* (`logout_unseen`). A session that was stored when the app started is accepted without setting
   `sessionState`; the logout from it sets the flag to the value it has, nobody is told, and
   the main screen stays, with every request failing, until the app is started again.

Met on the way, and not runs of their own:

* A client that leaves a room it is speaking in, or that speaks in a room it never joined, keeps the
  floor after it is gone: `releaseVoice` frees the rooms on its record (`client.go:257`). The app does neither, and for
  it `NoOrphanFloor` is proved.
* When the access token has expired and the network is down, `getValidToken` throws, where its comment
  (`auth_service.dart:199`) says it returns null; the call is outside the `try` of `_connectWebSocket`
  (`voice_screen.dart:98`), and neither timer nor retry button are left. `ReconnectPending` and `ReconnectsOrOffers` except
  this case.
* Live audio moves the last sequence past what a replay has not brought yet (`voice_screen.dart:161`). If that replay is cut
  short, the gap is never asked for again; hence the condition of `NothingMissing`.
* After a restart of the server the app still asks for what follows the last sequence of the old one: what it misses of
  the new server's chunks up to that number is never asked for. The requirements (`docs/requisitos.md:106`) do not speak
  of a restart; `NothingMissing` excepts it.
* Two updates of one account that overlap lose one: a profile saved during a suspension lifts it. The comment at
  `user/service.go:36` has concurrency control in the store, which has none for this.
* `BootstrapAdmins` does not lift a suspension, and takes any error of the lookup for an account that does not exist.
* A PATCH with both flags whose second update fails has applied the first, and reports a failure.
* A profile update does not validate the e-mail as the registration does.
* Any refusal of a refresh logs out, one by the rate limiter or for a database that is down as well.
* The answer of a refresh that arrives after a logout stores the session again.
* An app that ends between two writes may keep the token of one session with the user of another.

* The requirements (`docs/requisitos.md:101`) discard chunks after 30 s. A room that fell silent
  keeps and replays them for up to 5 min 30 s; `RetentionBounded` is the bound that holds.
* A replay contains the user's own audio, and chunks that also arrive live; the
  app plays both.
* A start and a stop of the recorder that overlap can leave `_isRecording` set
  with no chunks coming, until the next release.
* `docs/requisitos.md:86-87` has users sent on to a new channel when one is full;
  `JoinChannel` refuses them, and the code that would create one is not routed.
* No route leads to the update and the deletion of a channel (`main.go:196-208`), though service, handlers and a test have them.
* A leave whose second statement fails is reported as failed, though the member is gone.
* A screen left during a handshake leaves that socket open: nothing closes it.

## 5. The proofs

All theorems hold for every value of the constants that satisfies the named
assumptions (`VoiceAssumption`, `BufferAssumption`, `HubAssumption`,
`RelayAssumption`, `QueueAssumption`, `ScreenAssumption`, `ConnectionAssumption`,
`MembershipAssumption`, `AccountsAssumption`, `SessionsAssumption`, `LimiterAssumption`), which
only say what the constants are. Every invariant that a passing run checks is a theorem, and so is every
property of its steps.

* `SumProofs`. Some operators add up a list or filter it, and what they do for lists of any length takes
  induction. The library's rule of induction takes the property as an operator, which the
  provers cannot instantiate. Here the property is a set, that of the naturals that have it: it is all of `Nat`,
  because otherwise there would be a least element outside (`Induction`, from the library's fact that `<` is
  well-founded). A sum over a set is `SumFunctionOnSet`, which takes the elements in the order of `CHOOSE`. `SumUnique` says that
  the order makes no difference, and from it come the sum without an element (`SumRemove`) and the sum of
  a renumbered set (`SumImage`).

* `VoiceRelayProofs`, first part: the lock alone. `VoiceInv` (types, and a speaker exactly when
  transmitting) is inductive. With it every step of the lock is a step of `Floor` or a
  stutter: `FloorRefinement`.
* `AudioBufferProofs`. `NoHoles` alone is not inductive: removing a prefix by age
  is removing a prefix by sequence only because ages are ordered as
  sequences are (`AgesOrdered`), and the next sequence is new only because those present were given out
  (`SequencesGivenOut`); `SweptOnTime` adds what the ticker did. Together
  they are `BufferInv`, which is inductive, and from which `NoHolesTheorem`,
  `RetentionTheorem` and `LatestKeptTheorem` follow. `SizeTheorem` adds that dropping chunks, by age or from the
  front, never makes the sum of the sizes greater, that marking them as replayed leaves it as it is, and that eviction ends below the limit
  or at the one chunk that was just added.
* `VoiceRelayProofs`, second part: the server. Every step of the hub keeps its types, and no queue exceeds its
  capacity. `TypeInv` joins this and the two invariants above with the types of
  the goroutines (`TypeCorrect`); since the server changes the lock and the buffer
  by their operations only, it implements `Floor` (`RelayImplementsFloor`) and
  the specification of the buffer (`RelayImplementsBuffer`), so everything proved about the buffer alone holds of it in the running
  server (`RelayKeepsBuffer`). On it rest
  * `MembershipInv`: a member of a room has the room on its record and is in the
    hub or about to be; a client being unregistered has run its last step. It gives
    `PanicTheorem`: a queue that is closed and that anybody could still send to belongs to
    a client still registered.
  * `FloorInv`: a client of the app never leaves its room before it frees the
    floors. It gives `NoOrphanTheorem`.
  * `TalkerInv`, under `OneConnectionEach`: whoever has audio under way holds
    the floor. It gives `OneSpeakerTheorem`; the assumption is needed, as
    `two_speakers` shows.
  * `LiveInv`: the rooms kept are those with members, and an empty one is kept only if somebody
    dropped is still registered. It gives `LiveRoomsTheorem`.
  * `NumberInv`: no packet on its way has a number that was not given out, so a new number is greater than all that are under way
    (`Stream`). With `TalkerInv`, by which nobody else numbers or queues in the meantime, it gives `RelayOrderTheorem`, again
    under `OneConnectionEach`.
  * `GapInv`, for `NoReplayGapTheorem`: during a replay, what the room's buffer holds after the sequence it
    started from has reached the client, is on its way to it or is still in the replay (`ReplayCovers`). What is on its way
    stays so until it is heard because the client is a member for as long as it is not dropped (`StaysIn`); a new
    chunk is on its way from the moment it is buffered (`ReachKept` is the step of both).
  * `LeftInv`: what the hub takes for removal it has registered before, and removing closes the queue, also of
    a client it had dropped. With `MembershipInv` and `NoOrphanFloor` it gives `NothingLeftTheorem`: a connection that is over and unregistered is
    in no room and holds no floor. `GoneForgotten` and `FloorFreed` say that this is reached.

* `VoiceScreenProofs`. `BusyIffActive` and the types of the flags are inductive together.
  `OpenMicShown` speaks of the moments at which no call is under way;
  `MicAccounted` says what holds in between: an open microphone is
  recorded and shown, or a call that has not ended answers for it.
  `QueueInv` is for `QueueTheorem`: the bytes of a queue are those of its first part and its rest (`SumImage`), so `Enqueue`,
  which drops the oldest until the rest fits or only the new chunk is left, keeps the count exact and the queue within its limit.
* `VoiceConnectionProofs`. `ConnectionInv` lists what may be present together: a call under
  way excludes a connection, the timer, the retry button and a live socket, so whatever could start a second
  call is absent until the first is over; `PendingInv` says what must be present when nothing is. Both with the types
  are `AppInv`, which is inductive, and give `OneConnectionTheorem` and
  `ReconnectTheorem`. `ConnectionTypes` adds the messages under way.
  `HeardInv` is for `NothingMissingTheorem`. `AskedInv`: until the server answers a request, nothing is missing up
  to the number asked for, though live audio goes on above it. `AnsweredInv`: afterwards, nothing is
  missing as soon as the end of the replay has arrived, after every further message, and the next live chunk
  leaves no gap (`Closed`); what is on its way and what is still to be queued count for it. `ReplayInv` says that a replay that has
  begun still has its end packet to come, so that none counts as answered half-way. `FirstInv` says that what was heard first came live, so that a chunk relayed late never is a
  new first one. That the two halves fit is `ReplayCloses`; all speak of the one live socket, which
  is `AppInv`.
* `MembershipProofs`. That no channel has too many members is not inductive: `TransactionInv` says
  that a join under way holds its channel's row, that the row it inserted is new, and that
  once it has counted there is a seat for it, which only leaves and deletions can touch before it commits; `CreateInv`
  that an identifier is inserted once. It gives `NotOversubscribedTheorem`, `FullTheorem` and, step
  by step, `GroupsRefinement`. `HeldInv`, that only a transaction under way holds a row, gives `NoDeadlockTheorem`: who waits,
  waits for a request that needs no channel's row any more, at most its user's. `NearerTheorem` counts the statements left to a request, which every step of it
  makes fewer. Together they are what `RequestsEnd` rests on, besides fairness. The first step of a deletion changes no row, but
  `MembershipTypeOK` says that an account that is leaving is still there, and with it that the insert that
  waits for it refers to something.

* `AccountsProofs`. `AccountsInv` adds to the three invariants, per request, `Sound`, what it carries when it is about to use it (the
  row it will write consists of values that were given), and `StillTrue`, what its checks still say as long as it was `alone`: the
  actor is an admin, and the row it read is the row there. The second is what `LastAdminLostInRaceOnly` needs: a
  request that was alone writes a row in which only its own edit is new, and that edit is of somebody else.
  `ContinueKeeps` and `ChangeKeeps` carry the invariant over a step that changes nothing but the request, and over one that changes the
  table; every action is one of the two.
* `SessionsProofs`. `SessionInv` adds to the types that each write in the plugin's queue is of a call that waits for it,
  with the pair it carries, that no call has two, and that a pair is whole or stands for a logout (`Storable`).
  * `StoredInv` is why three writes that are not a transaction still are all or nothing: calls take turns in the
    queue, so they finish in the order in which they began. What is stored under a key is of the last call whose turn at
    that key has come (`Top`): four pairs, from the newest to the one that was last written as a whole,
    describe the preferences and the disk at every moment. It gives `AllOrNothingTheorem`.
  * `FreshInv`: a pair on its way to the preferences outlasts the call. With `StoredInv`, by which a call that has
    written finds the token of one that still writes, it gives `FreshHeadersTheorem`.
  * `GateInv`, for `GateFollowsTheorem`: behind the spinner runs nothing but the check (`LoadingInv`); at the
    login screen, an announced session is being removed, and a token that would do belongs to the
    write that will be answered last, after every removal (`LoginInv`), so its session will be announced.
  * `RunsOutInv`: nothing is issued to an account once it is deleted, but to one that a request had found just before: whoever
    is about to get a pair was there at the same tick (`FoundInv`). It gives `DeletedRunsOutTheorem`.
  * `WaitersQueued`, the converse of `SessionInv`: who waits for the plugin has a write in its queue. With `GateInv` it gives
    `NoneStrandedTheorem`: every call under way waits for something that comes, and a spinner has a check that removes it, from
    which `GateDecides` follows under fairness.
  * `LimiterInv`, for `LimitTheorem`: the limiter forgets requests that the record of those let through keeps, but what both have in the window
    is the same. Filtering by a later window what was filtered by an earlier one is filtering by the
    later (`ValidSince`, by induction over the list); hence neither a refusal nor the cleanup changes who is let through.

Only model-checked: `RequestsEnd`, `GateDecides`, `GoneForgotten`, `FloorFreed`, `ReconnectsOrOffers` and
`ReceptionEnds`. They are liveness, which needs `ENABLED`, and the prover cannot do that. What is proved is the safety they rest on: that whatever waits
waits for something that is under way, and that what has ended has left nothing. This is `NoDeadlock` and
`NearerToAnswer` for the first, `NoneStranded` for the second, `NothingLeftBehind` for the third and fourth, `ReconnectPending` for the fifth and
`BusyIffActive` for the last.

## 6. Plan

In order of what matters to the users of the system:

1. **Audio server** (done): `Shared`, `Floor`, `VoiceService`, `AudioBuffer`, `Hub`, `VoiceRelay`.
2. **App** (done): `AudioQueue`, `VoiceScreen`, `VoiceConnection`.
3. **Channels** (done): `Groups`, `Membership`.
4. **Accounts** (done): `Accounts`, `RateLimiter`, `Sessions`.
5. **Proofs** (done): the safety of every module. What may be added is the abstract specification of more of them, and what holds
   of several at once.

### Not modelled

* `voice/buffer_manager.go`, `ptt_service.dart`, `JoinChannelOrCreate`, `CreateOAuthUser` and the HTTP handlers for the lock: dead code.
* The migrations: each runs with its record in a transaction, once, before the server listens.
* The distance of two positions: floating point.
* Statistics and lists of the admin panel, its page, CORS and logging: they keep no state.
* The app's screens for channels, profile, places and settings: presentation around single requests.
