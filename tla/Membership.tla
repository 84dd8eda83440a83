----------------------------- MODULE Membership -----------------------------
(***************************************************************************)
(* Channels and their members: ChannelService and PGChannelStore           *)
(* (backend/internal/channel/service.go, repository.go), and the deletion  *)
(* of a user, which PostgreSQL extends to the user's memberships.          *)
(*                                                                         *)
(* The operations are those of the service.  cmd/server/main.go has routes *)
(* for creating, joining and leaving a channel only: HandleUpdateChannel   *)
(* and HandleDeleteChannel are reached by none, so the deployed server is  *)
(* the case in which no request asks for "own".                            *)
(*                                                                         *)
(* Requests run concurrently.  A statement is one action, as READ COMMITTED*)
(* has it: it sees what is committed and what its own transaction did.     *)
(* SELECT ... FOR UPDATE locks the channel's row until the transaction     *)
(* ends, and a statement that needs a locked row waits.                    *)
(***************************************************************************)
EXTENDS Naturals, FiniteSets

CONSTANTS
  Users,
  Channels,      \* the identifiers the service generates
  Requests,      \* bound: the requests that are made
  UserOf,        \* UserOf[r]: who makes request r
  Asks,          \* Asks[r]: what request r may be for, by its first step
  Dismissed,     \* bound: the users whose deletion is asked for, once each
  MaxUsers,      \* max_users of every channel, MaxUsersPerChannel
  NoUser,        \* created_by is NULL
  NoRequest      \* the channel's row is not locked

ASSUME MembershipAssumption ==
  /\ UserOf \in [Requests -> Users]
  /\ Asks \in [Requests -> SUBSET {"create", "find", "remove", "own"}]
  /\ Dismissed \subseteq Users
  /\ NoUser \notin Users
  /\ NoRequest \notin Requests
  /\ MaxUsers \in Nat \ {0}

VARIABLES
  accounts,    \* the rows of users
  rows,        \* the rows of channels
  generated,   \* the identifiers given out
  createdBy,   \* channels.created_by
  members,     \* the rows of user_channels, by channel
  lock,        \* the request whose transaction holds the channel's row
  request,     \* request[r]: its channel, and how far it is
  deletion     \* deletion[u]: how far the request to delete user u is

tableVars == <<accounts, rows, generated, createdBy, members>>
vars == <<tableVars, lock, request, deletion>>

\* What a request does next, or the answer it was given.
Steps == {"create", "find", "lock", "insert", "count", "commit",
          "remove", "exists", "stamp", "own", "update", "erase"}
Answers == {"created", "joined", "already", "full", "left", "notMember",
            "updated", "deleted", "forbidden", "notFound", "failed"}

Init ==
  /\ accounts = Users
  /\ rows = {} /\ generated = {}
  /\ createdBy = [ch \in Channels |-> NoUser]
  /\ members = [ch \in Channels |-> {}]
  /\ lock = [ch \in Channels |-> NoRequest]
  /\ request \in [Requests -> [channel : Channels, at : {"new"}]]
  /\ deletion = [u \in Users |-> "none"]

At(r, step) == request[r].at = step
Move(r, step) == request' = [request EXCEPT ![r].at = step]

\* The transaction of AddMember is open; Inserted, if it has a row of its own.
InTransaction(r) == request[r].at \in {"insert", "count", "commit"}
Inserted(r) == request[r].at \in {"count", "commit"}

\* No transaction holds the row of the channel.
Free(ch) == lock[ch] = NoRequest

\* The row of the user is being deleted: an insert that refers to it waits.
Leaving(u) == deletion[u] = "started"

-----------------------------------------------------------------------------
(***************************************************************************)
(* A request arrives: a join, a leave, or what only the creator may ask.   *)
(***************************************************************************)
Receive(r) ==
  /\ At(r, "new")
  /\ \E step \in Asks[r] \ {"create"} : Move(r, step)
  /\ UNCHANGED <<tableVars, lock, deletion>>

(***************************************************************************)
(* CreateChannel: both inserts of Create concern rows nobody else can see  *)
(* before the commit, so the transaction is one step.                      *)
(***************************************************************************)
GenerateChannelID(r) ==
  /\ At(r, "new")
  /\ "create" \in Asks[r]
  /\ request[r].channel \notin generated
  /\ generated' = generated \cup {request[r].channel}
  /\ Move(r, "create")
  /\ UNCHANGED <<accounts, rows, createdBy, members, lock, deletion>>

Create(r) ==
  LET u == UserOf[r]
      ch == request[r].channel
  IN  /\ At(r, "create")
      /\ ~Leaving(u)
      /\ IF u \in accounts
         THEN /\ rows' = rows \cup {ch}
              /\ createdBy' = [createdBy EXCEPT ![ch] = u]
              /\ members' = [members EXCEPT ![ch] = {u}]
              /\ Move(r, "created")
         ELSE /\ Move(r, "failed")
              /\ UNCHANGED <<rows, createdBy, members>>
      /\ UNCHANGED <<accounts, generated, lock, deletion>>

-----------------------------------------------------------------------------
(***************************************************************************)
(* JoinChannel, and the transaction of AddMember.                          *)
(***************************************************************************)
FindChannel(r) ==
  /\ At(r, "find")
  /\ Move(r, IF request[r].channel \in rows THEN "lock" ELSE "notFound")
  /\ UNCHANGED <<tableVars, lock, deletion>>

\* Mutant: SELECT without FOR UPDATE.
SelectOnly(r) == UNCHANGED lock

TakeLock(r) == lock' = [lock EXCEPT ![request[r].channel] = r]

LockChannel(r) ==
  /\ At(r, "lock")
  /\ Free(request[r].channel)
  /\ IF request[r].channel \in rows
     THEN TakeLock(r) /\ Move(r, "insert")
     ELSE Move(r, "notFound") /\ UNCHANGED lock
  /\ UNCHANGED <<tableVars, deletion>>

\* Mutant: an early return forgets the rollback.
KeepTransaction(r, answer) == Move(r, answer) /\ UNCHANGED lock

\* The transaction ends, and its lock with it.
EndTransaction(r, answer) ==
  /\ Move(r, answer)
  /\ lock' = [ch \in Channels |-> IF lock[ch] = r THEN NoRequest ELSE lock[ch]]

Rollback(r, answer) == EndTransaction(r, answer)

\* The row is unique, and refers to the user's.
InsertMember(r) ==
  LET u == UserOf[r]
  IN  /\ At(r, "insert")
      /\ \/ /\ u \in members[request[r].channel]
            /\ Rollback(r, "already")
         \/ /\ u \notin members[request[r].channel] \cup accounts
            /\ Rollback(r, "failed")
         \/ /\ u \in accounts \ members[request[r].channel] /\ ~Leaving(u)
            /\ Move(r, "count") /\ UNCHANGED lock
      /\ UNCHANGED <<tableVars, deletion>>

\* Mutant: a channel is full when its last seat is taken.
TooManyOrEnough(n) == n >= MaxUsers

TooMany(n) == n > MaxUsers

CountMembers(r) ==
  LET counted == members[request[r].channel] \cup {UserOf[r]}
  IN  /\ At(r, "count")
      /\ \/ /\ TooMany(Cardinality(counted))
            /\ Rollback(r, "full")
         \/ /\ ~TooMany(Cardinality(counted))
            /\ Move(r, "commit") /\ UNCHANGED lock
      /\ UNCHANGED <<tableVars, deletion>>

CommitMember(r) ==
  /\ At(r, "commit")
  /\ members' = [members EXCEPT ![request[r].channel] = @ \cup {UserOf[r]}]
  /\ EndTransaction(r, "joined")
  /\ UNCHANGED <<accounts, rows, generated, createdBy, deletion>>

-----------------------------------------------------------------------------
(***************************************************************************)
(* LeaveChannel: RemoveMember has no transaction.                          *)
(***************************************************************************)
\* Mutant: DELETE without the user.
RemainingButAll(ch, u) == {}

Remaining(ch, u) == members[ch] \ {u}

\* A row that is not committed is not there yet.
RemoveMember(r) ==
  LET u == UserOf[r]
      ch == request[r].channel
  IN  /\ At(r, "remove")
      /\ members' = [members EXCEPT ![ch] = Remaining(ch, u)]
      /\ Move(r, IF u \in members[ch] THEN "stamp" ELSE "exists")
      /\ UNCHANGED <<accounts, rows, generated, createdBy, lock, deletion>>

ChannelExists(r) ==
  /\ At(r, "exists")
  /\ Move(r, IF request[r].channel \in rows THEN "notMember" ELSE "notFound")
  /\ UNCHANGED <<tableVars, lock, deletion>>

\* UPDATE channels SET updated_at, which may find no row any more.
StampChannel(r) ==
  /\ At(r, "stamp")
  /\ Free(request[r].channel)
  /\ Move(r, "left")
  /\ UNCHANGED <<tableVars, lock, deletion>>

-----------------------------------------------------------------------------
(***************************************************************************)
(* UpdateChannel and DeleteChannel: only the creator may, as of the first  *)
(* statement.  The name and the description are left out.                  *)
(***************************************************************************)
FindOwnChannel(r) ==
  LET ch == request[r].channel
  IN  /\ At(r, "own")
      /\ \/ ch \notin rows /\ Move(r, "notFound")
         \/ ch \in rows /\ createdBy[ch] # UserOf[r] /\ Move(r, "forbidden")
         \/ ch \in rows /\ createdBy[ch] = UserOf[r] /\ (Move(r, "update") \/ Move(r, "erase"))
      /\ UNCHANGED <<tableVars, lock, deletion>>

UpdateChannel(r) ==
  LET ch == request[r].channel
  IN  /\ At(r, "update")
      /\ Free(ch)
      /\ Move(r, IF ch \in rows THEN "updated" ELSE "notFound")
      /\ UNCHANGED <<tableVars, lock, deletion>>

\* The memberships go with the channel.
DeleteChannel(r) ==
  LET ch == request[r].channel
  IN  /\ At(r, "erase")
      /\ Free(ch)
      /\ rows' = rows \ {ch}
      /\ members' = [members EXCEPT ![ch] = {}]
      /\ Move(r, IF ch \in rows THEN "deleted" ELSE "notFound")
      /\ UNCHANGED <<accounts, generated, createdBy, lock, deletion>>

-----------------------------------------------------------------------------
\* A statement fails, or the connection to the database is lost.
Fail(r) ==
  /\ request[r].at \in Steps
  /\ EndTransaction(r, "failed")
  /\ UNCHANGED <<tableVars, deletion>>

(***************************************************************************)
(* DELETE FROM users.  The statement takes the user's row first, and waits *)
(* for inserts that refer to it; then it extends to the other tables.      *)
(***************************************************************************)
LockUser(u) ==
  /\ u \in Dismissed \cap accounts /\ deletion[u] = "none"
  /\ \A r \in Requests : Inserted(r) => UserOf[r] # u
  /\ deletion' = [deletion EXCEPT ![u] = "started"]
  /\ UNCHANGED <<tableVars, lock, request>>

\* Mutant: the table does not cascade.
KeepMembers(u) == members

MembersWithout(u) == [ch \in Channels |-> members[ch] \ {u}]

\* The memberships go with the user, and the channels the user made have no
\* creator any more.  It waits for the rows of those channels.
DeleteUser(u) ==
  /\ Leaving(u)
  /\ \A ch \in rows : createdBy[ch] = u => Free(ch)
  /\ accounts' = accounts \ {u}
  /\ members' = MembersWithout(u)
  /\ createdBy' = [ch \in Channels |-> IF createdBy[ch] = u THEN NoUser ELSE createdBy[ch]]
  /\ deletion' = [deletion EXCEPT ![u] = "ended"]
  /\ UNCHANGED <<rows, generated, lock, request>>

\* The statement fails.
CancelDeletion(u) ==
  /\ Leaving(u)
  /\ deletion' = [deletion EXCEPT ![u] = "ended"]
  /\ UNCHANGED <<tableVars, lock, request>>

\* The deletion waits for a row whose transaction waits for a deletion, maybe
\* for this one.
Entangled(u) ==
  /\ Leaving(u)
  /\ \E r \in Requests :
       At(r, "insert") /\ createdBy[request[r].channel] = u /\ Leaving(UserOf[r])

AddMember(r) == LockChannel(r) \/ InsertMember(r) \/ CountMembers(r) \/ CommitMember(r)

Handle(r) ==
  \/ Create(r)
  \/ FindChannel(r) \/ AddMember(r)
  \/ RemoveMember(r) \/ ChannelExists(r) \/ StampChannel(r)
  \/ FindOwnChannel(r) \/ UpdateChannel(r) \/ DeleteChannel(r)

Next ==
  \/ \E r \in Requests : Receive(r) \/ GenerateChannelID(r) \/ Handle(r) \/ Fail(r)
  \/ \E u \in Users : LockUser(u) \/ DeleteUser(u) \/ CancelDeletion(u)

Spec == Init /\ [][Next]_vars

\* Statements end; a request that waits for a row gets it when it is free, and
\* PostgreSQL breaks a circle of those that wait for each other.
FairSpec ==
  /\ Spec
  /\ \A r \in Requests : WF_vars(Handle(r))
  /\ \A u \in Users : WF_vars(DeleteUser(u)) /\ WF_vars(Entangled(u) /\ CancelDeletion(u))

-----------------------------------------------------------------------------
\* The types, and what the rows refer to: accounts and channels there are.
MembershipTypeOK ==
  /\ accounts \subseteq Users
  /\ rows \subseteq generated /\ generated \subseteq Channels
  /\ createdBy \in [Channels -> accounts \cup {NoUser}]
  /\ members \in [Channels -> SUBSET accounts]
  /\ \A ch \in Channels \ rows : members[ch] = {}
  /\ lock \in [Channels -> Requests \cup {NoRequest}]
  /\ request \in [Requests -> [channel : Channels,
                               at : {"new"} \cup Steps \cup Answers]]
  /\ deletion \in [Users -> {"none", "started", "ended"}]
  /\ \A u \in Users : deletion[u] # "ended" => u \in accounts

(***************************************************************************)
(* docs/requisitos.md:81, "Maximo 10 usuarios por canal", as the comment   *)
(* at repository.go:10 has it: concurrent joins cannot oversubscribe a     *)
(* channel.  The seats are counted after the insert, and other joins may   *)
(* have counted before it was committed.                                   *)
(***************************************************************************)
NotOversubscribed == \A ch \in Channels : Cardinality(members[ch]) <= MaxUsers

(***************************************************************************)
(* A join is refused as full only when MaxUsers others have their seats:   *)
(* a join that is under way, and may yet fail, refuses nobody, and nor     *)
(* does a seat that was given up meanwhile.                                *)
(***************************************************************************)
FullOnlyWhenFull ==
  [][\A r \in Requests :
       ~At(r, "full") /\ At(r, "full")' =>
         Cardinality(members[request[r].channel] \ {UserOf[r]}) = MaxUsers]_vars

(***************************************************************************)
(* Whatever the requests and deletions, and wherever they fail, channels   *)
(* and members change as Groups allows: one member at a time, into open    *)
(* channels with a free seat only, and all at once with the channel.       *)
(***************************************************************************)
G == INSTANCE Groups WITH open <- rows

ImplementsGroups == G!Spec

(***************************************************************************)
(* Every request is answered: no transaction keeps its row, no two         *)
(* requests wait for each other, and a join that waits for a deletion of   *)
(* its user which waits for the join's channel is not left waiting.        *)
(***************************************************************************)
RequestsEnd == \A r \in Requests : request[r].at \in Steps ~> request[r].at \in Answers
=============================================================================
