--------------------------- MODULE AccountsProofs ---------------------------
(***************************************************************************)
(* The table of users and its requests, for any users, e-mails, passwords  *)
(* and requests.                                                           *)
(***************************************************************************)
EXTENDS Accounts, TLAPS

AllSteps == {"new"} \cup Steps \cup Answers

RequestType ==
  [at : AllSteps, actor : Users \cup {Absent}, target : Users \cup {Absent},
   row : Row \cup {Absent}, edits : Seq(Edit), alone : BOOLEAN]

(***************************************************************************)
(* What a request carries when it is about to use it; a server that is     *)
(* down has no request under way.                                          *)
(***************************************************************************)
Sound(q) ==
  /\ q.at = "create" => q.target \in Users /\ q.row \in Row
  /\ q.at \in {"authorize", "read", "write", "erase", "show"} => q.target \in Users
  /\ q.at = "authorize" => q.actor \in Users
  /\ q.at \in {"read", "write"} => q.edits # <<>>
  /\ q.at = "write" => q.row \in Row /\ Values(q.target, q.row) \subseteq given
  /\ q.at \in Steps => up

(***************************************************************************)
(* What the checks of a request still say of the table, if nobody else has *)
(* changed it since: who acts on another user is an admin, the row read is *)
(* the row there, and nobody demotes itself.                               *)
(***************************************************************************)
StillTrue(q) ==
  q.alone =>
    /\ q.at \in {"read", "write", "erase"} /\ q.actor # q.target =>
         q.actor \in Users /\ Present(q.actor) /\ users[q.actor].admin
    /\ q.at \in {"read", "write"} /\ q.actor = q.target =>
         Head(q.edits).column # "admin" /\ Tail(q.edits) = <<>>
    /\ q.at = "write" => Present(q.target) /\ q.row = users[q.target]

AccountsInv ==
  /\ AccountsTypeOK /\ NothingInvented /\ BootstrapPromotes
  /\ \A r \in Requests : Sound(request[r]) /\ StillTrue(request[r])

-----------------------------------------------------------------------------
LEMMA AbsentIsNoRow == Absent \notin Row
  BY AccountsAssumption

(* What an edit makes of a row, column by column.                          *)
LEMMA EditedFacts ==
  ASSUME NEW row \in Row, NEW edit \in Edit
  PROVE  /\ Edited(row, edit) \in Row
         /\ edit.column \in Columns
         /\ \A c \in Columns : Edited(row, edit)[c] = IF c = edit.column THEN edit.value ELSE row[c]
<1>1. CASE edit.column = "email"
  BY <1>1 DEF Edited, Row, Edit, Columns
<1>2. CASE edit.column = "password"
  BY <1>2 DEF Edited, Row, Edit, Columns
<1>3. CASE edit.column = "admin"
  BY <1>3 DEF Edited, Row, Edit, Columns
<1>4. CASE edit.column = "active"
  BY <1>4 DEF Edited, Row, Edit, Columns
<1> QED BY <1>1, <1>2, <1>3, <1>4 DEF Edit

(* A step that changes nothing but where a request is.                     *)
LEMMA ContinueKeeps ==
  ASSUME AccountsInv, NEW r \in Requests, NEW next \in RequestType, Continue(r, next),
         Sound(next), StillTrue(next)
  PROVE  AccountsInv'
<1>1. request \in [Requests -> RequestType]
  BY DEF AccountsInv, AccountsTypeOK, RequestType, AllSteps
<1>2. request' \in [Requests -> RequestType]
      /\ \A q \in Requests : request'[q] = IF q = r THEN next ELSE request[q]
  BY <1>1 DEF Continue
<1>3. UNCHANGED <<users, born, up, pending, given>>
  BY DEF Continue
<1>4. AccountsTypeOK'
  BY <1>2, <1>3 DEF AccountsInv, AccountsTypeOK, RequestType, AllSteps, Present, UniqueEmails
<1>5. \A q \in Requests : (Sound(request[q]) /\ StillTrue(request[q]))'
  BY <1>2, <1>3 DEF AccountsInv, Sound, StillTrue, Present
<1>6. NothingInvented'
  BY <1>2, <1>3, <1>5 DEF AccountsInv, NothingInvented, Present, Sound, At, Values
<1>7. BootstrapPromotes'
  BY <1>3 DEF AccountsInv, BootstrapPromotes, Present
<1> QED BY <1>4, <1>5, <1>6, <1>7 DEF AccountsInv

(* A statement that changes the table.                                     *)
LEMMA ChangeKeeps ==
  ASSUME AccountsInv, NEW r \in Requests, NEW table \in [Users -> Row \cup {Absent}],
         NEW next \in RequestType, Change(r, table, next), request[r].at \in Steps,
         UniqueEmails(table), born \subseteq born', born' \subseteq Users, given \subseteq given',
         \A u \in Users : table[u] # Absent => u \in born' /\ Values(u, table[u]) \subseteq given',
         next.at \notin {"create", "authorize", "write"}, next.at = "read" => next.edits # <<>>,
         next.at \in {"read", "erase", "show"} => next.target \in Users,
         next.alone /\ next.at \in {"read", "erase"} =>
            /\ next.actor # next.target
            /\ next.actor \in Users /\ table[next.actor] # Absent /\ table[next.actor].admin
  PROVE  AccountsInv'
<1>1. request \in [Requests -> RequestType]
  BY DEF AccountsInv, AccountsTypeOK, RequestType, AllSteps
<1>2. up /\ UNCHANGED <<up, pending>> /\ users' = table
  BY DEF Change, AccountsInv, Sound
<1>3. \A q \in Requests :
        request'[q] = IF q = r THEN next
                      ELSE IF request[q].at \in Steps THEN [request[q] EXCEPT !.alone = FALSE]
                      ELSE request[q]
  BY DEF Change
<1>4. request' \in [Requests -> RequestType]
  <2> DEFINE after(q) == IF q = r THEN next
                         ELSE IF request[q].at \in Steps THEN [request[q] EXCEPT !.alone = FALSE]
                         ELSE request[q]
  <2>1. request' = [q \in Requests |-> after(q)]
    BY DEF Change
  <2>2. \A q \in Requests : after(q) \in RequestType
    BY <1>1 DEF RequestType
  <2> HIDE DEF after
  <2> QED BY <2>1, <2>2
<1>5. AccountsTypeOK'
  BY <1>2, <1>4 DEF AccountsInv, AccountsTypeOK, RequestType, AllSteps, Present, UniqueEmails
<1>6. \A q \in Requests \ {r} : (Sound(request[q]) /\ StillTrue(request[q]))'
  <2> SUFFICES ASSUME NEW q \in Requests \ {r} PROVE (Sound(request[q]) /\ StillTrue(request[q]))'
    OBVIOUS
  <2>1. Sound(request[q]) /\ request[q] \in RequestType
    BY <1>1 DEF AccountsInv
  <2>2. CASE request[q].at \in Steps
    <3>1. /\ request'[q].at = request[q].at /\ request'[q].target = request[q].target
          /\ request'[q].row = request[q].row /\ request'[q].edits = request[q].edits
          /\ request'[q].actor = request[q].actor /\ request'[q].alone = FALSE
      BY <2>1, <2>2, <1>3 DEF RequestType
    <3> QED BY <2>1, <3>1, <1>2 DEF Sound, StillTrue, Values
  <2>3. CASE request[q].at \notin Steps
    BY <2>1, <2>3, <1>2, <1>3 DEF Sound, StillTrue, Values, Steps
  <2> QED BY <2>2, <2>3
<1>7. (Sound(request[r]) /\ StillTrue(request[r]))'
  BY <1>2, <1>3 DEF Sound, StillTrue, Steps, Present
<1>8. NothingInvented'
  <2>1. \A u \in Users : Present(u)' => Values(u, users[u])' \subseteq given'
    BY <1>2 DEF Present, Values
  <2>2. \A q \in Requests :
          At(q, "write")' => Values(request[q].target, request[q].row)' \subseteq given'
    BY <1>6, <1>7 DEF Sound, At, Values
  <2> QED BY <2>1, <2>2 DEF NothingInvented
<1>9. BootstrapPromotes'
  BY <1>2 DEF BootstrapPromotes
<1> QED BY <1>5, <1>6, <1>7, <1>8, <1>9 DEF AccountsInv

-----------------------------------------------------------------------------
LEMMA IdleIsRequest ==
  ASSUME NEW answer \in AllSteps
  PROVE  Idle(answer) \in RequestType
  BY DEF Idle, RequestType

LEMMA RequestTyped ==
  ASSUME AccountsInv, NEW r \in Requests
  PROVE  request[r] \in RequestType
  BY DEF AccountsInv, AccountsTypeOK, RequestType, AllSteps

(* An answer without a change of the table.                                *)
LEMMA AnswerKeeps ==
  ASSUME AccountsInv, NEW r \in Requests, NEW answer \in Answers, Answer(r, answer)
  PROVE  AccountsInv'
<1>1. Idle(answer) \in RequestType
  BY IdleIsRequest DEF AllSteps
<1>2. Sound(Idle(answer)) /\ StillTrue(Idle(answer))
  BY DEF Idle, Sound, StillTrue, Answers, Steps
<1> QED BY <1>1, <1>2, ContinueKeeps DEF Answer

(* The arrival of a request that has tested nothing yet.                   *)
LEMMA BeginKeeps ==
  ASSUME AccountsInv, NEW r \in Requests, NEW step \in {"create", "authorize", "read", "erase"},
         NEW actor \in Users, NEW target \in Users, NEW row \in Row \cup {Absent},
         NEW edits \in Seq(Edit), Begin(r, step, actor, target, row, edits),
         step = "create" => row \in Row,
         step \in {"read", "erase"} => actor = target,
         step = "read" => edits # <<>> /\ Head(edits).column # "admin" /\ Tail(edits) = <<>>
  PROVE  AccountsInv'
<1> DEFINE next == [at |-> step, actor |-> actor, target |-> target, row |-> row,
                    edits |-> edits, alone |-> TRUE]
<1>1. next \in RequestType
  BY DEF RequestType, AllSteps, Steps
<1>2. Sound(next) /\ StillTrue(next)
  BY DEF Begin, Sound, StillTrue
<1>3. Continue(r, next)
  BY DEF Begin
<1> QED BY <1>1, <1>2, <1>3, ContinueKeeps

LEMMA PatchesAreEdits == Patches \subseteq Seq(Edit)
<1>1. \A b \in BOOLEAN : /\ [column |-> "active", value |-> b] \in Edit
                        /\ [column |-> "admin", value |-> b] \in Edit
  BY DEF Edit
<1>2. \A x, y \in Edit : <<x>> \in Seq(Edit) /\ <<x, y>> \in Seq(Edit)
  OBVIOUS
<1> SUFFICES ASSUME NEW p \in Patches PROVE p \in Seq(Edit)
  OBVIOUS
<1>3. \/ \E b \in BOOLEAN : p = <<[column |-> "active", value |-> b]>>
      \/ \E b \in BOOLEAN : p = <<[column |-> "admin", value |-> b]>>
      \/ \E b, c \in BOOLEAN : p = <<[column |-> "active", value |-> b], [column |-> "admin", value |-> c]>>
  BY DEF Patches
<1> QED BY <1>1, <1>2, <1>3

LEMMA NoEdits == <<>> \in Seq(Edit)
  OBVIOUS

LEMMA OwnEdit ==
  ASSUME NEW column \in {"email", "password"}, NEW value,
         [column |-> column, value |-> value] \in Edit
  PROVE  LET edits == <<[column |-> column, value |-> value]>>
         IN  /\ edits \in Seq(Edit) /\ edits # <<>>
             /\ Head(edits).column # "admin" /\ Tail(edits) = <<>>
  OBVIOUS

LEMMA ReceiveKeeps ==
  ASSUME AccountsInv, NEW r \in Requests, Receive(r)
  PROVE  AccountsInv'
<1>0. born \subseteq Users
  BY DEF AccountsInv, AccountsTypeOK
<1>1. CASE Register(r)
  <2>1. \A e \in Emails, p \in Passwords : NewRow(e, p) \in Row
    BY DEF NewRow, Row
  <2> QED BY <1>1, <2>1, NoEdits, BeginKeeps DEF Register
<1>2. CASE Login(r)
  BY <1>2, AnswerKeeps DEF Login, Answers
<1>3. CASE UpdateUser(r)
  <2> PICK u \in born, e \in Emails :
        Begin(r, "read", u, u, Absent, <<[column |-> "email", value |-> e]>>)
    BY <1>3 DEF UpdateUser
  <2>1. [column |-> "email", value |-> e] \in Edit
    BY DEF Edit
  <2> QED BY <1>0, <2>1, OwnEdit, BeginKeeps
<1>4. CASE ChangePassword(r)
  <2> PICK u \in born, p \in Passwords :
        Begin(r, "read", u, u, Absent, <<[column |-> "password", value |-> p]>>)
    BY <1>4 DEF ChangePassword
  <2>1. [column |-> "password", value |-> p] \in Edit
    BY DEF Edit
  <2> QED BY <1>0, <2>1, OwnEdit, BeginKeeps
<1>5. CASE DeleteOwnUser(r)
  BY <1>0, <1>5, NoEdits, BeginKeeps DEF DeleteOwnUser
<1>6. CASE HandleUser(r)
  BY <1>0, <1>6, PatchesAreEdits, BeginKeeps DEF HandleUser
<1>7. CASE HandleDeleteUser(r)
  BY <1>0, <1>7, NoEdits, BeginKeeps DEF HandleDeleteUser
<1> QED BY <1>1, <1>2, <1>3, <1>4, <1>5, <1>6, <1>7 DEF Receive

-----------------------------------------------------------------------------
(* The statements of requests.                                             *)
LEMMA CreateKeeps ==
  ASSUME AccountsInv, NEW r \in Requests, Create(r)
  PROVE  AccountsInv'
<1> DEFINE u == request[r].target  row == request[r].row
           next == [request[r] EXCEPT !.at = "login"]
<1>1. request[r] \in RequestType /\ u \in Users /\ row \in Row
  BY RequestTyped DEF Create, At, AccountsInv, Sound
<1>2. CASE ~FreeFor(row.email, u) /\ Answer(r, "conflict")
  BY <1>2, AnswerKeeps DEF Answers
<1>3. CASE /\ FreeFor(row.email, u) /\ u \notin born
           /\ Change(r, [users EXCEPT ![u] = row], next)
           /\ born' = born \cup {u} /\ given' = given \cup Values(u, row)
  <2> DEFINE table == [users EXCEPT ![u] = row]
  <2>1. /\ table \in [Users -> Row \cup {Absent}]
        /\ \A v \in Users : table[v] = IF v = u THEN row ELSE users[v]
    BY <1>1 DEF AccountsInv, AccountsTypeOK
  <2>2. UniqueEmails(table)
    BY <1>1, <1>3, <2>1, AbsentIsNoRow
       DEF AccountsInv, AccountsTypeOK, UniqueEmails, FreeFor, Holder, Present
  <2>3. \A v \in Users : table[v] # Absent => v \in born' /\ Values(v, table[v]) \subseteq given'
    BY <1>3, <2>1 DEF AccountsInv, AccountsTypeOK, NothingInvented, Present
  <2>4. next \in RequestType /\ next.at = "login"
    BY <1>1 DEF RequestType, AllSteps, Steps
  <2>5. request[r].at \in Steps
    BY DEF Create, At, Steps
  <2> HIDE DEF table, next
  <2>6. born' \subseteq Users
    BY <1>1, <1>3 DEF AccountsInv, AccountsTypeOK
  <2> QED BY <1>3, <2>1, <2>2, <2>3, <2>4, <2>5, <2>6, ChangeKeeps DEF table
<1> QED BY <1>2, <1>3 DEF Create

LEMMA AuthorizeKeeps ==
  ASSUME AccountsInv, NEW r \in Requests, Authorize(r)
  PROVE  AccountsInv'
<1>1. request[r] \in RequestType /\ request[r].target \in Users /\ up
  BY RequestTyped DEF Authorize, At, AccountsInv, Sound, Steps
<1>2. CASE ~MayManage(r)
  BY <1>2, AnswerKeeps DEF Authorize, Answers
<1>3. CASE MayManage(r)
  <2> DEFINE step == IF request[r].edits = <<>> THEN "erase" ELSE "read"
             next == [request[r] EXCEPT !.at = step]
  <2>1. next \in RequestType
    BY <1>1 DEF RequestType, AllSteps, Steps
  <2>2. /\ next.at = step /\ next.actor = request[r].actor /\ next.target = request[r].target
        /\ next.edits = request[r].edits
    BY <1>1 DEF RequestType
  <2>3. MayManage(r) /\ request[r].actor \in Users \cup {Absent}
    BY <1>1, <1>3 DEF RequestType
  <2>4. Continue(r, next)
    BY <1>3 DEF Authorize, Move
  <2>5. request[r].actor \in Users
    BY DEF Authorize, At, AccountsInv, Sound
  <2>6. Sound(next) /\ StillTrue(next)
    BY <1>1, <2>2, <2>3, <2>5 DEF Sound, StillTrue, MayManage
  <2> HIDE DEF next
  <2> QED BY <2>1, <2>4, <2>6, ContinueKeeps
<1> QED BY <1>2, <1>3

LEMMA ReadKeeps ==
  ASSUME AccountsInv, NEW r \in Requests, Read(r)
  PROVE  AccountsInv'
<1> DEFINE u == request[r].target
           next == [request[r] EXCEPT !.at = "write", !.row = users[request[r].target]]
<1>1. request[r] \in RequestType /\ u \in Users
  BY RequestTyped DEF Read, At, AccountsInv, Sound
<1>2. CASE Answer(r, "notFound") \/ Answer(r, "refused")
  BY <1>2, AnswerKeeps DEF Answers
<1>3. CASE Present(u) /\ Continue(r, next)
  <2>1. users[u] \in Row /\ Values(u, users[u]) \subseteq given
    BY <1>1, <1>3 DEF Present, AccountsInv, AccountsTypeOK, NothingInvented
  <2>2. next \in RequestType
    BY <1>1, <2>1 DEF RequestType, AllSteps, Steps
  <2>3. /\ next.at = "write" /\ next.actor = request[r].actor /\ next.target = u
        /\ next.row = users[u] /\ next.edits = request[r].edits /\ next.alone = request[r].alone
    BY <1>1 DEF RequestType
  <2>4. Sound(request[r]) /\ StillTrue(request[r]) /\ request[r].at = "read"
    BY DEF AccountsInv, Read, At
  <2> HIDE DEF next
  <2>5. Sound(next)
    BY <1>1, <2>1, <2>3, <2>4 DEF Sound, Steps
  <2>6. StillTrue(next)
    BY <1>3, <2>3, <2>4 DEF StillTrue
  <2> QED BY <1>3, <2>2, <2>5, <2>6, ContinueKeeps
<1> QED BY <1>2, <1>3 DEF Read

(* An edit written leaves the other rows, and keeps to the columns given.  *)
LEMMA WriteKeeps ==
  ASSUME AccountsInv, NEW r \in Requests, Write(r)
  PROVE  AccountsInv'
<1> DEFINE u == request[r].target
           edits == request[r].edits
           edit == Head(edits)
           row == Edited(request[r].row, edit)
<1>1. /\ request[r] \in RequestType /\ u \in Users /\ request[r].at = "write"
      /\ request[r].row \in Row /\ Values(u, request[r].row) \subseteq given
      /\ edits \in Seq(Edit) /\ edits # <<>>
  BY RequestTyped DEF Write, At, AccountsInv, Sound, RequestType
<1>2. edit \in Edit /\ Tail(edits) \in Seq(Edit)
  BY <1>1
<1>3. /\ row \in Row /\ edit.column \in Columns
      /\ \A c \in Columns : row[c] = IF c = edit.column THEN edit.value ELSE request[r].row[c]
  BY <1>1, <1>2, EditedFacts
<1>4. CASE Answer(r, "conflict") \/ Answer(r, "notFound")
  BY <1>4, AnswerKeeps DEF Answers
<1>5. CASE /\ Affected(u) /\ FreeFor(row.email, u)
           /\ Change(r, [users EXCEPT ![u] = row], Written(r))
           /\ given' = given \cup {<<u, edit.column, edit.value>>} /\ UNCHANGED born
  <2> DEFINE table == [users EXCEPT ![u] = row]
  <2>0. Values(u, row) \subseteq given'
    BY <1>1, <1>3, <1>5 DEF Values
  <2> HIDE DEF row, edit
  <2>1. /\ table \in [Users -> Row \cup {Absent}]
        /\ \A v \in Users : table[v] = IF v = u THEN row ELSE users[v]
    BY <1>1, <1>3 DEF AccountsInv, AccountsTypeOK
  <2>2. UniqueEmails(table)
    BY <1>1, <1>3, <1>5, <2>1, AbsentIsNoRow
       DEF AccountsInv, AccountsTypeOK, UniqueEmails, FreeFor, Holder, Present
  <2>3. \A v \in Users : table[v] # Absent => v \in born' /\ Values(v, table[v]) \subseteq given'
    BY <1>1, <1>5, <2>0, <2>1 DEF AccountsInv, AccountsTypeOK, NothingInvented, Present, Affected
  <2>4. Written(r) \in RequestType
    BY <1>1, <1>2, IdleIsRequest DEF Written, RequestType, AllSteps, Steps, Answers
  <2>5. /\ Written(r).at \in {"ok", "show", "read"}
        /\ Written(r).at = "read" =>
             /\ Written(r).edits = Tail(edits) /\ Tail(edits) # <<>>
             /\ Written(r).target = u /\ Written(r).actor = request[r].actor
             /\ Written(r).alone = request[r].alone
        /\ Written(r).at = "show" => Written(r).target = u
    BY <1>1 DEF Written, RequestType, Idle
  <2>6. Sound(request[r]) /\ StillTrue(request[r])
    BY DEF AccountsInv
  <2>7. Written(r).alone /\ Written(r).at = "read" =>
          /\ request[r].actor # u
          /\ request[r].actor \in Users /\ table[request[r].actor] # Absent
          /\ table[request[r].actor].admin
    BY <1>1, <2>1, <2>5, <2>6 DEF StillTrue, Present
  <2>8. request[r].at \in Steps /\ born' \subseteq Users /\ born \subseteq born' /\ given \subseteq given'
    BY <1>1, <1>5 DEF Steps, AccountsInv, AccountsTypeOK
  <2> HIDE DEF table, edits
  <2> QED BY <1>1, <1>5, <2>1, <2>2, <2>3, <2>4, <2>5, <2>7, <2>8, ChangeKeeps, ZenonT(40) DEF table
<1> QED BY <1>4, <1>5 DEF Write

LEMMA DeleteKeeps ==
  ASSUME AccountsInv, NEW r \in Requests, Delete(r)
  PROVE  AccountsInv'
<1> DEFINE u == request[r].target
           table == [users EXCEPT ![u] = Absent]
<1>1. u \in Users /\ request[r].at \in Steps
  BY DEF Delete, At, AccountsInv, Sound, Steps
<1>2. CASE Answer(r, "notFound")
  BY <1>2, AnswerKeeps DEF Answers
<1>3. CASE Change(r, table, Idle("ok")) /\ UNCHANGED <<born, given>>
  <2>1. /\ table \in [Users -> Row \cup {Absent}]
        /\ \A v \in Users : table[v] = IF v = u THEN Absent ELSE users[v]
    BY <1>1 DEF AccountsInv, AccountsTypeOK
  <2>2. UniqueEmails(table)
    BY <2>1 DEF AccountsInv, AccountsTypeOK, UniqueEmails
  <2>3. \A v \in Users : table[v] # Absent => v \in born' /\ Values(v, table[v]) \subseteq given'
    BY <1>3, <2>1 DEF AccountsInv, AccountsTypeOK, NothingInvented, Present
  <2>4. Idle("ok") \in RequestType /\ Idle("ok").at = "ok"
    BY IdleIsRequest DEF AllSteps, Answers, Idle
  <2>5. born' \subseteq Users
    BY <1>3 DEF AccountsInv, AccountsTypeOK
  <2> HIDE DEF table
  <2> QED BY <1>1, <1>3, <2>1, <2>2, <2>3, <2>4, <2>5, ChangeKeeps
<1> QED BY <1>2, <1>3 DEF Delete

LEMMA HandleKeeps ==
  ASSUME AccountsInv, NEW r \in Requests, Handle(r) \/ Fail(r)
  PROVE  AccountsInv'
<1>1. CASE LoginRegistered(r)
  BY <1>1, AnswerKeeps DEF LoginRegistered, Answers
<1>2. CASE Show(r)
  BY <1>2, AnswerKeeps DEF Show, Answers
<1>3. CASE Fail(r)
  BY <1>3, AnswerKeeps DEF Fail, Answers
<1> QED BY <1>1, <1>2, <1>3, CreateKeeps, AuthorizeKeeps, ReadKeeps, WriteKeeps, DeleteKeeps DEF Handle

-----------------------------------------------------------------------------
(* The server ends, bootstraps its admins, and takes requests.             *)
LEMMA RestartKeeps ==
  ASSUME AccountsInv, Restart
  PROVE  AccountsInv'
<1>1. request \in [Requests -> RequestType]
  BY DEF AccountsInv, AccountsTypeOK, RequestType, AllSteps
<1>2. /\ ~up' /\ pending' = AdminEmails /\ UNCHANGED <<users, born, given>>
      /\ \A r \in Requests :
           request'[r] = IF request[r].at \in Steps THEN Idle("lost") ELSE request[r]
  BY DEF Restart
<1>3. Idle("lost") \in RequestType /\ Idle("lost").at = "lost"
  BY IdleIsRequest DEF AllSteps, Answers, Idle
<1>4. request' \in [Requests -> RequestType] /\ up' \in BOOLEAN
  BY <1>1, <1>3 DEF Restart
<1>5. \A r \in Requests : request'[r].at \notin Steps
  BY <1>2, <1>3 DEF Steps
<1>6. AccountsTypeOK'
  BY <1>2, <1>4 DEF AccountsInv, AccountsTypeOK, RequestType, AllSteps, Present, UniqueEmails
<1>7. \A r \in Requests : (Sound(request[r]) /\ StillTrue(request[r]))'
  BY <1>5 DEF Sound, StillTrue, Steps
<1>8. NothingInvented'
  BY <1>2, <1>5 DEF AccountsInv, NothingInvented, Present, At, Values, Steps
<1>9. BootstrapPromotes'
  BY <1>2, <1>6 DEF BootstrapPromotes, AccountsTypeOK, Present, Row
<1> QED BY <1>6, <1>7, <1>8, <1>9 DEF AccountsInv

LEMMA ServeKeeps ==
  ASSUME AccountsInv, Serve
  PROVE  AccountsInv'
<1>1. up' /\ UNCHANGED <<users, born, pending, request, given>> /\ up' \in BOOLEAN
  BY DEF Serve
<1>2. AccountsTypeOK' /\ NothingInvented' /\ BootstrapPromotes'
  BY <1>1 DEF AccountsInv, AccountsTypeOK, NothingInvented, BootstrapPromotes,
              Present, UniqueEmails, At, Values
<1>3. \A r \in Requests : (Sound(request[r]) /\ StillTrue(request[r]))'
  BY <1>1 DEF AccountsInv, Sound, StillTrue, Present, Values
<1> QED BY <1>2, <1>3 DEF AccountsInv

(* What the bootstrap of an admin does to the table.                       *)
LEMMA PromotedFacts ==
  ASSUME AccountsInv, NEW e \in AdminEmails, BootstrapAdmin(e), NEW u \in Users
  PROVE  /\ users'[u] \in Row \cup {Absent}
         /\ Present(u)' <=> Present(u)
         /\ Present(u) => /\ users'[u].email = users[u].email
                          /\ users[u].admin => users'[u].admin
                          /\ users[u].email = e => users'[u].admin
                          /\ Values(u, users[u])' \subseteq given'
<1>1. users[u] \in Row \cup {Absent}
  BY DEF AccountsInv, AccountsTypeOK
<1>2. users'[u] = IF u \in Holder(e) THEN [users[u] EXCEPT !.admin = TRUE] ELSE users[u]
  BY DEF BootstrapAdmin
<1>3. CASE u \notin Holder(e)
  BY <1>1, <1>2, <1>3 DEF Holder, Present, Values, BootstrapAdmin, AccountsInv, NothingInvented
<1>4. CASE u \in Holder(e)
  <2>1. users[u] \in Row
    BY <1>1, <1>4 DEF Holder, Present
  <2>2. /\ users'[u] \in Row /\ users'[u].email = users[u].email /\ users'[u].admin
        /\ \A c \in Columns : users'[u][c] = IF c = "admin" THEN TRUE ELSE users[u][c]
    BY <1>2, <1>4, <2>1 DEF Row, Columns
  <2>3. Values(u, users[u]) \subseteq given /\ <<u, "admin", TRUE>> \in given' /\ given \subseteq given'
    BY <1>4 DEF BootstrapAdmin, Holder, AccountsInv, NothingInvented
  <2>4. Values(u, users[u])' \subseteq given'
    BY <2>2, <2>3 DEF Values
  <2> QED BY <1>4, <2>2, <2>4, AbsentIsNoRow DEF Holder, Present
<1> QED BY <1>3, <1>4

LEMMA BootstrapKeeps ==
  ASSUME AccountsInv, NEW e \in AdminEmails, BootstrapAdmin(e)
  PROVE  AccountsInv'
<1>1. /\ ~up /\ UNCHANGED <<born, up, request>> /\ given \subseteq given'
      /\ pending' = pending \ {e}
  BY DEF BootstrapAdmin, Remaining
<1>2. users' \in [Users -> Row \cup {Absent}]
  BY PromotedFacts DEF BootstrapAdmin
<1>3. \A r \in Requests : request[r].at \notin Steps
  BY <1>1 DEF AccountsInv, Sound
<1>4. UniqueEmails(users)'
  BY PromotedFacts DEF AccountsInv, AccountsTypeOK, UniqueEmails, Present
<1>5. AccountsTypeOK'
  BY <1>1, <1>2, <1>4, PromotedFacts DEF AccountsInv, AccountsTypeOK
<1>6. \A r \in Requests : (Sound(request[r]) /\ StillTrue(request[r]))'
  BY <1>1, <1>3 DEF Sound, StillTrue, Steps
<1>7. NothingInvented'
  <2>1. \A u \in Users : Present(u)' => Values(u, users[u])' \subseteq given'
    BY PromotedFacts
  <2>2. \A r \in Requests : ~At(r, "write")'
    BY <1>1, <1>3 DEF At, Steps
  <2> QED BY <2>1, <2>2 DEF NothingInvented
<1>8. BootstrapPromotes'
  <2> SUFFICES ASSUME NEW u \in Users, Present(u)', users'[u].email \in AdminEmails \ pending'
               PROVE  users'[u].admin
    BY DEF BootstrapPromotes
  <2>1. Present(u) /\ users'[u].email = users[u].email
    BY PromotedFacts
  <2>2. CASE users[u].email = e
    BY <2>1, <2>2, PromotedFacts
  <2>3. CASE users[u].email # e
    BY <1>1, <2>1, <2>3, PromotedFacts DEF AccountsInv, BootstrapPromotes
  <2> QED BY <2>2, <2>3
<1> QED BY <1>5, <1>6, <1>7, <1>8 DEF AccountsInv

-----------------------------------------------------------------------------
LEMMA InitAccounts == Init => AccountsInv
<1> SUFFICES ASSUME Init PROVE AccountsInv
  OBVIOUS
<1>1. users \in [Users -> Row \cup {Absent}] /\ UniqueEmails(users)
  BY AccountsAssumption DEF Init
<1>2. Idle("new") \in RequestType /\ Idle("new").at = "new"
  BY IdleIsRequest DEF AllSteps, Idle
<1>3. request \in [Requests -> RequestType] /\ \A r \in Requests : request[r].at = "new"
  BY <1>2 DEF Init
<1>4. AccountsTypeOK
  BY <1>1, <1>3 DEF Init, AccountsTypeOK, RequestType, AllSteps
<1>5. \A r \in Requests : Sound(request[r]) /\ StillTrue(request[r])
  BY <1>3 DEF Sound, StillTrue, Steps
<1>6. NothingInvented
  <2>1. \A u \in Users : Present(u) => Values(u, users[u]) \subseteq given
    BY DEF Init
  <2> QED BY <1>3, <2>1 DEF NothingInvented, At
<1>7. BootstrapPromotes
  BY DEF Init, BootstrapPromotes
<1> QED BY <1>4, <1>5, <1>6, <1>7 DEF AccountsInv

LEMMA NextAccounts == AccountsInv /\ [Next]_vars => AccountsInv'
<1> SUFFICES ASSUME AccountsInv, [Next]_vars PROVE AccountsInv'
  OBVIOUS
<1>1. CASE UNCHANGED vars
  <2>1. UNCHANGED <<users, born, up, pending, request, given>>
    BY <1>1 DEF vars
  <2>2. AccountsTypeOK' /\ NothingInvented' /\ BootstrapPromotes'
    BY <2>1 DEF AccountsInv, AccountsTypeOK, NothingInvented, BootstrapPromotes,
                Present, UniqueEmails, At, Values
  <2>3. \A r \in Requests : (Sound(request[r]) /\ StillTrue(request[r]))'
    BY <2>1 DEF AccountsInv, Sound, StillTrue, Present, Values
  <2> QED BY <2>2, <2>3 DEF AccountsInv
<1>2. CASE Next
  BY <1>2, ReceiveKeeps, HandleKeeps, RestartKeeps, BootstrapKeeps, ServeKeeps DEF Next
<1> QED BY <1>1, <1>2

(***************************************************************************)
(* The types, and that no two accounts have an e-mail in common, of        *)
(* PGUserStore's unique key and the statements over it.                    *)
(***************************************************************************)
THEOREM AccountsTypes == Spec => []AccountsTypeOK
<1>1. AccountsInv => AccountsTypeOK
  BY DEF AccountsInv
<1> QED BY InitAccounts, NextAccounts, <1>1, PTL DEF Spec

(***************************************************************************)
(* Whole-row updates (repository.go:63) may bring back old values, but     *)
(* never make one up.                                                      *)
(***************************************************************************)
THEOREM AccountsNothingInvented == Spec => []NothingInvented
<1>1. AccountsInv => NothingInvented
  BY DEF AccountsInv
<1> QED BY InitAccounts, NextAccounts, <1>1, PTL DEF Spec

(***************************************************************************)
(* BootstrapAdmins (service.go:169): before the first request, every       *)
(* registered admin of ADMIN_EMAILS that it reached is an admin.           *)
(***************************************************************************)
THEOREM AccountsBootstrap == Spec => []BootstrapPromotes
<1>1. AccountsInv => BootstrapPromotes
  BY DEF AccountsInv
<1> QED BY InitAccounts, NextAccounts, <1>1, PTL DEF Spec

-----------------------------------------------------------------------------
(***************************************************************************)
(* A deleted account does not come back: Update (repository.go:63) affects *)
(* rows that are there, and Create inserts new identifiers.                *)
(***************************************************************************)
THEOREM AccountsDeleted == Spec => DeletedForGood
<1>1. AccountsInv /\ [Next]_vars => [\A u \in born : ~Present(u) => ~Present(u)']_vars
  <2> SUFFICES ASSUME AccountsInv, Next, NEW u \in born, ~Present(u) PROVE ~Present(u)'
    BY DEF vars
  <2>0. u \in Users /\ users \in [Users -> Row \cup {Absent}]
    BY DEF AccountsInv, AccountsTypeOK
  <2>1. CASE users' = users
    BY <2>1 DEF Present
  <2>2. ASSUME NEW r \in Requests, Create(r) PROVE ~Present(u)'
    BY <2>0, <2>2 DEF Create, Change, Answer, Continue, Present
  <2>3. ASSUME NEW r \in Requests, Write(r) PROVE ~Present(u)'
    BY <2>0, <2>3 DEF Write, Affected, Change, Answer, Continue, Present
  <2>4. ASSUME NEW r \in Requests, Delete(r) PROVE ~Present(u)'
    BY <2>0, <2>4 DEF Delete, Change, Answer, Continue, Present
  <2>5. ASSUME NEW e \in AdminEmails, BootstrapAdmin(e) PROVE ~Present(u)'
    BY <2>0, <2>5, PromotedFacts
  <2>6. ASSUME NEW r \in Requests,
               Receive(r) \/ LoginRegistered(r) \/ Authorize(r) \/ Read(r) \/ Show(r) \/ Fail(r)
        PROVE  users' = users
    BY <2>6 DEF Receive, Register, Login, UpdateUser, ChangePassword, DeleteOwnUser, HandleUser,
                HandleDeleteUser, Begin, LoginRegistered, Authorize, Read, Show, Fail, Move,
                Answer, Continue
  <2>7. Restart \/ Serve => users' = users
    BY DEF Restart, Serve
  <2> QED BY <2>1, <2>2, <2>3, <2>4, <2>5, <2>6, <2>7 DEF Next, Handle
<1> QED BY InitAccounts, NextAccounts, <1>1, PTL DEF Spec, DeletedForGood

-----------------------------------------------------------------------------
(* A written edit takes the last admin away only in a race.                *)
LEMMA WriteKeepsAnAdmin ==
  ASSUME AccountsInv, NEW r \in Requests, Write(r), AnAdmin, ~AnAdmin'
  PROVE  request'[r].at # request[r].at /\ ~request[r].alone
<1> DEFINE u == request[r].target
           edit == Head(request[r].edits)
           row == Edited(request[r].row, edit)
<1>1. /\ request[r] \in RequestType /\ u \in Users /\ request[r].at = "write"
      /\ request[r].row \in Row /\ request[r].edits \in Seq(Edit) /\ request[r].edits # <<>>
  BY RequestTyped DEF Write, At, AccountsInv, Sound, RequestType
<1>2. edit \in Edit
  BY <1>1
<1>3. row.admin = IF edit.column = "admin" THEN edit.value ELSE request[r].row.admin
  BY <1>1, <1>2, EditedFacts DEF Columns
<1>4. users' # users
  BY DEF AnAdmin, Present
<1>5. Change(r, [users EXCEPT ![u] = row], Written(r))
  BY <1>4 DEF Write, Answer, Continue
<1> HIDE DEF row, edit
<1>6. \A v \in Users : users'[v] = IF v = u THEN row ELSE users[v]
  BY <1>1, <1>5 DEF Change, AccountsInv, AccountsTypeOK
<1>7. request'[r] = Written(r)
  BY <1>5 DEF Change
<1>8. Written(r).at # "write"
  BY <1>1 DEF Written, Idle, RequestType
<1>9. ~request[r].alone
  <2> SUFFICES ASSUME request[r].alone PROVE FALSE
    OBVIOUS
  <2>1. StillTrue(request[r])
    BY DEF AccountsInv
  <2>2. CASE request[r].actor # u
    BY <1>1, <1>6, <2>1, <2>2 DEF StillTrue, AnAdmin, Present
  <2>3. CASE request[r].actor = u
    <3>1. row.admin = users[u].admin /\ row \in Row
      BY <1>1, <1>2, <1>3, <2>1, <2>3, EditedFacts DEF StillTrue, row, edit
    <3> QED BY <1>1, <1>6, <3>1, AbsentIsNoRow DEF AnAdmin, Present
  <2> QED BY <2>2, <2>3
<1> QED BY <1>1, <1>7, <1>8, <1>9

(***************************************************************************)
(* The guard on acting on oneself (service.go:135) loses the last admin    *)
(* only to requests that overlap, or to an admin deleting its own account. *)
(***************************************************************************)
THEOREM AccountsLastAdmin == Spec => LastAdminLostInRaceOnly
<1> DEFINE Lost(r) == /\ request'[r].at # request[r].at
                      /\ ~request[r].alone \/ (At(r, "erase") /\ request[r].actor = request[r].target)
<1>1. AccountsInv /\ [Next]_vars =>
        [AnAdmin /\ ~AnAdmin' => \E r \in Requests : Lost(r)]_vars
  <2> SUFFICES ASSUME AccountsInv, Next, AnAdmin, ~AnAdmin' PROVE \E r \in Requests : Lost(r)
    BY DEF vars
  <2>0. users \in [Users -> Row \cup {Absent}]
    BY DEF AccountsInv, AccountsTypeOK
  <2>1. users' # users
    BY DEF AnAdmin, Present
  <2>2. ASSUME NEW r \in Requests, Create(r) PROVE FALSE
    <3>1. request[r].target \notin born /\ users' = [users EXCEPT ![request[r].target] = request[r].row]
      BY <2>1, <2>2 DEF Create, Change, Answer, Continue
    <3>2. \A v \in Users : Present(v) => v \in born
      BY DEF AccountsInv, AccountsTypeOK
    <3>3. PICK v \in Users : Present(v) /\ users[v].admin
      BY DEF AnAdmin
    <3>4. users'[v] = users[v]
      BY <2>0, <3>1, <3>2, <3>3
    <3> QED BY <3>3, <3>4 DEF AnAdmin, Present
  <2>3. ASSUME NEW r \in Requests, Write(r) PROVE Lost(r)
    BY <2>3, WriteKeepsAnAdmin
  <2>4. ASSUME NEW r \in Requests, Delete(r) PROVE Lost(r)
    <3>1. Change(r, [users EXCEPT ![request[r].target] = Absent], Idle("ok")) /\ request[r].at = "erase"
      BY <2>1, <2>4 DEF Delete, Answer, Continue, At
    <3>2. request'[r].at = "ok"
      BY <3>1 DEF Change, Idle
    <3>3. CASE request[r].alone /\ request[r].actor # request[r].target
      <4>1. StillTrue(request[r])
        BY DEF AccountsInv
      <4> QED BY <2>0, <3>1, <3>3, <4>1 DEF StillTrue, Change, AnAdmin, Present
    <3> QED BY <3>1, <3>2, <3>3 DEF At
  <2>5. ASSUME NEW e \in AdminEmails, BootstrapAdmin(e) PROVE FALSE
    BY <2>5, PromotedFacts DEF AnAdmin
  <2>6. ASSUME NEW r \in Requests,
               Receive(r) \/ LoginRegistered(r) \/ Authorize(r) \/ Read(r) \/ Show(r) \/ Fail(r)
        PROVE  users' = users
    BY <2>6 DEF Receive, Register, Login, UpdateUser, ChangePassword, DeleteOwnUser, HandleUser,
                HandleDeleteUser, Begin, LoginRegistered, Authorize, Read, Show, Fail, Move,
                Answer, Continue
  <2>7. Restart \/ Serve => users' = users
    BY DEF Restart, Serve
  <2> QED BY <2>1, <2>2, <2>3, <2>4, <2>5, <2>6, <2>7 DEF Next, Handle
<1> QED BY InitAccounts, NextAccounts, <1>1, PTL DEF Spec, LastAdminLostInRaceOnly
=============================================================================
