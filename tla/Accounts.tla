------------------------------ MODULE Accounts ------------------------------
(***************************************************************************)
(* The table of users and the requests that change it: UserService and     *)
(* PGUserStore (backend/internal/user), the admin handlers                 *)
(* (backend/internal/admin/handler.go), registration and login, and the    *)
(* bootstrap of the admins when the server starts (cmd/server/main.go).    *)
(*                                                                         *)
(* Requests run concurrently, and a statement is one action.  Every update *)
(* reads a row, changes one column of what it read, and writes the whole   *)
(* row back in another statement, without a transaction.  Input that fails *)
(* validation is answered before any statement, and is left out.           *)
(***************************************************************************)
EXTENDS Sequences

CONSTANTS
  Users,        \* the identifiers generateUserID gives out
  Emails,       \* normalized e-mails
  Passwords,
  Requests,     \* bound: the requests that are made
  AdminEmails,  \* ADMIN_EMAILS
  Tables,       \* the tables a behaviour may start with
  Absent        \* there is no such row

Columns == {"email", "password", "admin", "active"}

Row == [email : Emails, password : Passwords, admin : BOOLEAN, active : BOOLEAN]

\* The unique column of a table.
UniqueEmails(table) ==
  \A u, v \in Users :
    u # v /\ table[u] # Absent /\ table[v] # Absent => table[u].email # table[v].email

ASSUME AccountsAssumption ==
  /\ Absent \notin Row
  /\ AdminEmails \subseteq Emails
  /\ Tables \subseteq [Users -> Row \cup {Absent}]
  /\ \A table \in Tables : UniqueEmails(table)

VARIABLES
  users,    \* the rows, by identifier
  born,     \* the identifiers given out
  up,       \* the server has started and takes requests
  pending,  \* the e-mails of admins not bootstrapped: not reached, or failed
  request,  \* request[r]: what it does next, and what it has read
  given     \* history: <<u, column, value>> that somebody asked for

vars == <<users, born, up, pending, request, given>>

\* What a request still has to change in the row of its target.
Edit == [column : {"email"}, value : Emails] \cup [column : {"password"}, value : Passwords]
          \cup [column : {"admin", "active"}, value : BOOLEAN]

Steps == {"create", "login", "authorize", "read", "write", "erase", "show"}
Answers == {"ok", "token", "refused", "forbidden", "notFound", "conflict", "failed", "lost"}

\* alone is history: nobody else has changed the table since the request began.
Idle(answer) == [at |-> answer, actor |-> Absent, target |-> Absent, row |-> Absent,
                 edits |-> <<>>, alone |-> TRUE]

Present(u) == users[u] # Absent
At(r, step) == request[r].at = step
Holder(email) == {u \in Users : Present(u) /\ users[u].email = email}
Values(u, row) == {<<u, c, row[c]>> : c \in Columns}

Init ==
  /\ users \in Tables
  /\ born = {u \in Users : Present(u)}
  /\ up = TRUE /\ pending = {}
  /\ request = [r \in Requests |-> Idle("new")]
  /\ given = UNION {Values(u, users[u]) : u \in born}

-----------------------------------------------------------------------------
\* A request goes on, having changed nothing.
Continue(r, next) ==
  /\ request' = [request EXCEPT ![r] = next]
  /\ UNCHANGED <<users, born, up, pending, given>>

Answer(r, answer) == Continue(r, Idle(answer))
Move(r, step) == Continue(r, [request[r] EXCEPT !.at = step])

\* A statement of r changes the table, under the other requests.
Change(r, table, next) ==
  /\ users' = table
  /\ request' = [q \in Requests |->
                   IF q = r THEN next
                   ELSE IF request[q].at \in Steps THEN [request[q] EXCEPT !.alone = FALSE]
                   ELSE request[q]]
  /\ UNCHANGED <<up, pending>>

(***************************************************************************)
(* A request arrives.  The actor is who its access token names: nothing    *)
(* asks whether that account is suspended, or still there.                 *)
(***************************************************************************)
Begin(r, step, actor, target, row, edits) ==
  /\ up /\ At(r, "new")
  /\ Continue(r, [at |-> step, actor |-> actor, target |-> target, row |-> row,
                  edits |-> edits, alone |-> TRUE])

NewRow(email, password) ==
  [email |-> email, password |-> password, admin |-> FALSE, active |-> TRUE]

Register(r) ==
  \E u \in Users \ born, e \in Emails, p \in Passwords :
    Begin(r, "create", u, u, NewRow(e, p), <<>>)

UpdateUser(r) ==
  \E u \in born, e \in Emails :
    Begin(r, "read", u, u, Absent, <<[column |-> "email", value |-> e]>>)

ChangePassword(r) ==
  \E u \in born, p \in Passwords :
    Begin(r, "read", u, u, Absent, <<[column |-> "password", value |-> p]>>)

DeleteOwnUser(r) == \E u \in born : Begin(r, "erase", u, u, Absent, <<>>)

\* PATCH with is_active, is_admin or both, in the order they are applied.
Patches ==
  LET SetActive(b) == [column |-> "active", value |-> b]
      SetAdmin(b)  == [column |-> "admin", value |-> b]
  IN  {<<SetActive(b)>> : b \in BOOLEAN} \cup {<<SetAdmin(b)>> : b \in BOOLEAN}
        \cup {<<SetActive(b), SetAdmin(c)>> : b, c \in BOOLEAN}

HandleUser(r) ==
  \E a, u \in born, edits \in Patches : Begin(r, "authorize", a, u, Absent, edits)

HandleDeleteUser(r) == \E a, u \in born : Begin(r, "authorize", a, u, Absent, <<>>)

\* Mutant: the e-mail of an update is not checked.
FreeForNew(email, u) == ~Present(u) => Holder(email) = {}

\* No other row has the e-mail: the unique key of users.
FreeFor(email, u) == Holder(email) \subseteq {u}

\* Authenticate reads once: the row that has the e-mail, if any.
Authenticated(email, password) ==
  \E u \in Holder(email) : users[u].password = password /\ users[u].active

Login(r) ==
  /\ up /\ At(r, "new")
  /\ \E e \in Emails, p \in Passwords :
       Answer(r, IF Authenticated(e, p) THEN "token" ELSE "refused")

-----------------------------------------------------------------------------
(***************************************************************************)
(* Registration: the row, and then a login with the same e-mail.           *)
(***************************************************************************)
Create(r) ==
  LET u == request[r].target
      row == request[r].row
  IN  /\ At(r, "create")
      /\ \/ /\ FreeFor(row.email, u) /\ u \notin born
            /\ Change(r, [users EXCEPT ![u] = row], [request[r] EXCEPT !.at = "login"])
            /\ born' = born \cup {u}
            /\ given' = given \cup Values(u, row)
         \/ ~FreeFor(row.email, u) /\ Answer(r, "conflict")

LoginRegistered(r) ==
  /\ At(r, "login")
  /\ Answer(r, IF Authenticated(request[r].row.email, request[r].row.password)
               THEN "token" ELSE "refused")

(***************************************************************************)
(* RequireAdmin, and then the guard against acting on oneself, which the   *)
(* handler or the service applies before any statement of its own.         *)
(***************************************************************************)
\* Mutant: an admin may act on itself.
MayManageAnyone(r) == Present(request[r].actor) /\ users[request[r].actor].admin

MayManage(r) ==
  /\ Present(request[r].actor) /\ users[request[r].actor].admin
  /\ request[r].actor # request[r].target

Authorize(r) ==
  /\ At(r, "authorize")
  /\ IF MayManage(r)
     THEN Move(r, IF request[r].edits = <<>> THEN "erase" ELSE "read")
     ELSE Answer(r, "forbidden")

(***************************************************************************)
(* An update: GetByID, and Update of every column.                         *)
(***************************************************************************)
\* A change of the password checks the old one, which may be wrong.
Read(r) ==
  /\ At(r, "read")
  /\ \/ /\ Present(request[r].target)
        /\ Continue(r, [request[r] EXCEPT !.at = "write", !.row = users[request[r].target]])
     \/ ~Present(request[r].target) /\ Answer(r, "notFound")
     \/ /\ Present(request[r].target) /\ Head(request[r].edits).column = "password"
        /\ Answer(r, "refused")

\* Mutant: what the body does not name counts as false.
EditedWithDefaults(row, edit) ==
  [row EXCEPT !.admin = FALSE, ![edit.column] = edit.value]

Edited(row, edit) == [row EXCEPT ![edit.column] = edit.value]

\* Mutant: Update inserts a row that is not there.
AlwaysAffected(u) == TRUE

\* UPDATE ... WHERE id affects a row.
Affected(u) == Present(u)

\* What follows when an edit is written: the next one, or the answer.
Written(r) ==
  LET rest == Tail(request[r].edits)
  IN  IF Head(request[r].edits).column = "password" THEN Idle("ok")
      ELSE [request[r] EXCEPT !.at = IF rest = <<>> THEN "show" ELSE "read",
                              !.row = Absent, !.edits = rest]

Write(r) ==
  LET u == request[r].target
      edit == Head(request[r].edits)
      row == Edited(request[r].row, edit)
  IN  /\ At(r, "write")
      /\ \/ /\ Affected(u) /\ FreeFor(row.email, u)
            /\ Change(r, [users EXCEPT ![u] = row], Written(r))
            /\ given' = given \cup {<<u, edit.column, edit.value>>}
            /\ UNCHANGED born
         \/ Affected(u) /\ ~FreeFor(row.email, u) /\ Answer(r, "conflict")
         \/ ~Affected(u) /\ Answer(r, "notFound")

\* GetUser, for the answer.
Show(r) ==
  /\ At(r, "show")
  /\ Answer(r, IF Present(request[r].target) THEN "ok" ELSE "notFound")

Delete(r) ==
  LET u == request[r].target
  IN  /\ At(r, "erase")
      /\ \/ /\ Present(u)
            /\ Change(r, [users EXCEPT ![u] = Absent], Idle("ok"))
            /\ UNCHANGED <<born, given>>
         \/ ~Present(u) /\ Answer(r, "notFound")

\* A statement fails: what earlier ones of the request did stays.
Fail(r) == request[r].at \in Steps /\ Answer(r, "failed")

-----------------------------------------------------------------------------
(***************************************************************************)
(* The server ends, with the requests under way, and starts again.  It     *)
(* takes requests after BootstrapAdmins.                                   *)
(***************************************************************************)
Restart ==
  /\ up' = FALSE /\ pending' = AdminEmails
  /\ request' = [r \in Requests |->
                   IF request[r].at \in Steps THEN Idle("lost") ELSE request[r]]
  /\ UNCHANGED <<users, born, given>>

\* Mutant: the loop ends at an e-mail nobody has.
StopAtUnknown(e) == IF Holder(e) = {} THEN {} ELSE pending \ {e}

Remaining(e) == pending \ {e}

BootstrapAdmin(e) ==
  /\ ~up /\ e \in pending
  /\ users' = [u \in Users |-> IF u \in Holder(e) THEN [users[u] EXCEPT !.admin = TRUE]
                               ELSE users[u]]
  /\ given' = given \cup {<<u, "admin", TRUE>> : u \in Holder(e)}
  /\ pending' = Remaining(e)
  /\ UNCHANGED <<born, up, request>>

\* The bootstrap ends, or fails, which is logged only.
Serve ==
  /\ ~up /\ up' = TRUE
  /\ UNCHANGED <<users, born, pending, request, given>>

Receive(r) ==
  \/ Register(r) \/ Login(r) \/ UpdateUser(r) \/ ChangePassword(r) \/ DeleteOwnUser(r)
  \/ HandleUser(r) \/ HandleDeleteUser(r)

Handle(r) ==
  \/ Create(r) \/ LoginRegistered(r) \/ Authorize(r)
  \/ Read(r) \/ Write(r) \/ Show(r) \/ Delete(r)

Next ==
  \/ \E r \in Requests : Receive(r) \/ Handle(r) \/ Fail(r)
  \/ Restart \/ (\E e \in AdminEmails : BootstrapAdmin(e)) \/ Serve

Spec == Init /\ [][Next]_vars

-----------------------------------------------------------------------------
\* The types, the unique e-mails, and rows under known identifiers only.
AccountsTypeOK ==
  /\ users \in [Users -> Row \cup {Absent}] /\ UniqueEmails(users)
  /\ born \subseteq Users /\ \A u \in Users : Present(u) => u \in born
  /\ up \in BOOLEAN /\ pending \subseteq AdminEmails
  /\ request \in [Requests -> [at : {"new"} \cup Steps \cup Answers,
                               actor : Users \cup {Absent}, target : Users \cup {Absent},
                               row : Row \cup {Absent}, edits : Seq(Edit), alone : BOOLEAN]]

(***************************************************************************)
(* Updates write rows that may be stale, and so undo each other; but they  *)
(* never make up a value: whatever a row says, and whatever a request has  *)
(* read and may yet write, somebody asked for that value of that column of *)
(* that account.  No admin without a promotion, no password but one that   *)
(* was chosen.                                                             *)
(***************************************************************************)
NothingInvented ==
  /\ \A u \in Users : Present(u) => Values(u, users[u]) \subseteq given
  /\ \A r \in Requests : At(r, "write") => Values(request[r].target, request[r].row) \subseteq given

(***************************************************************************)
(* A deleted account does not come back: an update that has read its row   *)
(* affects none, and identifiers are not used again.                       *)
(***************************************************************************)
DeletedForGood == [][\A u \in born : ~Present(u) => ~Present(u)']_vars

AnAdmin == \E u \in Users : Present(u) /\ users[u].admin

(***************************************************************************)
(* The guard on acting on oneself is there so that somebody can always     *)
(* administer (service.go:135, docs/decisoes.md:455).  It keeps an admin   *)
(* as long as requests do not overlap: the last one is lost only to a      *)
(* request under which another changed the table, or by deleting itself.   *)
(***************************************************************************)
LastAdminLostInRaceOnly ==
  [][AnAdmin /\ ~AnAdmin' =>
       \E r \in Requests :
         /\ request'[r].at # request[r].at
         /\ ~request[r].alone \/ (At(r, "erase") /\ request[r].actor = request[r].target)]_vars

(***************************************************************************)
(* Whatever races and whoever was demoted before, a restart makes every    *)
(* registered account of ADMIN_EMAILS that the bootstrap has not failed on *)
(* an admin again, before the first request is taken.                      *)
(***************************************************************************)
BootstrapPromotes ==
  ~up => \A u \in Users :
           Present(u) /\ users[u].email \in AdminEmails \ pending => users[u].admin
=============================================================================
