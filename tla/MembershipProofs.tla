-------------------------- MODULE MembershipProofs --------------------------
(***************************************************************************)
(* Channels and members, for any users, channels, requests and capacity.   *)
(***************************************************************************)
EXTENDS Membership, FiniteSetTheorems, TLAPS

RequestType ==
  [Requests -> [channel : Channels, at : {"new"} \cup Steps \cup Answers]]

(* An identifier that was generated and not inserted yet is its request's. *)
CreateInv ==
  \A r \in Requests :
    At(r, "create") =>
      /\ request[r].channel \in generated \ rows
      /\ \A s \in Requests :
           At(s, "create") /\ request[s].channel = request[r].channel => s = r

(***************************************************************************)
(* A join under way holds the row of its channel, which is there; once it  *)
(* has inserted its user, the user is a new one, whose account nobody can  *)
(* delete; and once it has counted, there is a seat for the user, for      *)
(* nobody else can take one.                                               *)
(***************************************************************************)
TransactionInv ==
  \A r \in Requests :
    LET ch == request[r].channel
    IN  /\ InTransaction(r) => lock[ch] = r /\ ch \in rows
        /\ Inserted(r) => UserOf[r] \in accounts \ members[ch] /\ ~Leaving(UserOf[r])
        /\ At(r, "commit") => Cardinality(members[ch]) < MaxUsers

SeatsInv ==
  \A ch \in Channels : IsFiniteSet(members[ch]) /\ Cardinality(members[ch]) <= MaxUsers

MembershipInv == MembershipTypeOK /\ CreateInv /\ TransactionInv /\ SeatsInv

-----------------------------------------------------------------------------
(* What Move does to the requests.                                         *)
LEMMA MoveFacts ==
  ASSUME request \in RequestType, NEW r \in Requests,
         NEW step \in {"new"} \cup Steps \cup Answers, Move(r, step)
  PROVE  /\ request' \in RequestType
         /\ \A s \in Requests :
              /\ request'[s].channel = request[s].channel
              /\ request'[s].at = IF s = r THEN step ELSE request[s].at
  BY DEF Move, RequestType

(* A request is for what it may be for.                                    *)
LEMMA ReceiveFacts ==
  ASSUME NEW r \in Requests, Receive(r)
  PROVE  /\ At(r, "new") /\ UNCHANGED <<tableVars, lock, deletion>>
         /\ \E step \in {"find", "remove", "own"} : Move(r, step)
  BY MembershipAssumption DEF Receive, MembershipAssumption

(* What EndTransaction does to the locks.                                  *)
LEMMA EndFacts ==
  ASSUME MembershipTypeOK, NEW r \in Requests, NEW answer \in Answers,
         EndTransaction(r, answer)
  PROVE  /\ lock' \in [Channels -> Requests \cup {NoRequest}]
         /\ \A ch \in Channels : lock[ch] # r => lock'[ch] = lock[ch]
         /\ Move(r, answer)
  BY DEF EndTransaction, MembershipTypeOK

(***************************************************************************)
(* A step that leaves the tables alone: it moves one request, whose claim  *)
(* is to be shown, and takes away nobody else's lock.                      *)
(***************************************************************************)
LEMMA TablesUnchanged ==
  ASSUME MembershipInv, NEW r \in Requests,
         NEW step \in Steps \cup Answers, Move(r, step), UNCHANGED <<tableVars, deletion>>,
         step # "create",
         lock' \in [Channels -> Requests \cup {NoRequest}],
         \A s \in Requests \ {r} :
           InTransaction(s) => lock'[request[s].channel] = lock[request[s].channel],
         step \in {"insert", "count", "commit"} =>
           lock'[request[r].channel] = r /\ request[r].channel \in rows,
         step \in {"count", "commit"} =>
           UserOf[r] \in accounts \ members[request[r].channel] /\ ~Leaving(UserOf[r]),
         step = "commit" => Cardinality(members[request[r].channel]) < MaxUsers
  PROVE  MembershipInv'
<1>0. request \in RequestType /\ step \in {"new"} \cup Steps \cup Answers
  BY DEF MembershipInv, MembershipTypeOK, RequestType
<1>1. request' \in RequestType
      /\ \A s \in Requests :
           /\ request'[s].channel = request[s].channel
           /\ request'[s].at = IF s = r THEN step ELSE request[s].at
  BY <1>0, MoveFacts
<1>2. MembershipTypeOK'
  BY <1>1 DEF MembershipInv, MembershipTypeOK, tableVars, RequestType
<1>3. CreateInv'
  BY <1>1 DEF MembershipInv, CreateInv, At, tableVars
<1>4. TransactionInv'
  BY <1>1 DEF MembershipInv, TransactionInv, InTransaction, Inserted, At, Leaving, tableVars
<1>5. SeatsInv'
  BY DEF MembershipInv, SeatsInv, tableVars
<1> QED BY <1>2, <1>3, <1>4, <1>5 DEF MembershipInv

(* The steps that keep the lock and claim nothing.                         *)
LEMMA QuietSteps ==
  ASSUME MembershipInv, NEW r \in Requests,
         \/ Receive(r) \/ FindChannel(r) \/ ChannelExists(r) \/ StampChannel(r)
         \/ FindOwnChannel(r) \/ UpdateChannel(r)
  PROVE  MembershipInv'
<1>1. \E step \in Steps \cup Answers :
        /\ step \notin {"create", "insert", "count", "commit"}
        /\ Move(r, step) /\ UNCHANGED <<tableVars, lock, deletion>>
  <2>1. CASE Receive(r)
    BY <2>1, ReceiveFacts DEF Steps
  <2>2. CASE \/ FindChannel(r) \/ ChannelExists(r) \/ StampChannel(r)
             \/ FindOwnChannel(r) \/ UpdateChannel(r)
    BY <2>2 DEF FindChannel, ChannelExists, StampChannel, FindOwnChannel, UpdateChannel,
                Steps, Answers
  <2> QED BY <2>1, <2>2
<1>2. PICK step \in Steps \cup Answers :
        /\ step \notin {"create", "insert", "count", "commit"}
        /\ Move(r, step) /\ UNCHANGED <<tableVars, lock, deletion>>
  BY <1>1
<1>3. lock' \in [Channels -> Requests \cup {NoRequest}]
  BY <1>2 DEF MembershipInv, MembershipTypeOK
<1> QED BY <1>2, <1>3, TablesUnchanged

(* A transaction that is rolled back.                                      *)
LEMMA RollbackKeepsInv ==
  ASSUME MembershipInv, NEW r \in Requests, NEW answer \in Answers,
         EndTransaction(r, answer), UNCHANGED <<tableVars, deletion>>
  PROVE  MembershipInv'
<1>1. lock' \in [Channels -> Requests \cup {NoRequest}] /\ Move(r, answer)
  BY EndFacts DEF MembershipInv
<1>2. \A s \in Requests \ {r} :
        InTransaction(s) => lock'[request[s].channel] = lock[request[s].channel]
  BY EndFacts DEF MembershipInv, TransactionInv, MembershipTypeOK
<1>3. answer \in Steps \cup Answers
      /\ answer \notin {"create", "insert", "count", "commit"}
  BY DEF Answers
<1> QED BY <1>1, <1>2, <1>3, TablesUnchanged, SMTT(60)

-----------------------------------------------------------------------------
(* The steps of a join but the last.                                       *)
LEMMA LockKeepsInv ==
  ASSUME MembershipInv, NEW r \in Requests, LockChannel(r)
  PROVE  MembershipInv'
<1> DEFINE ch == request[r].channel
<1>1. ch \in Channels /\ Free(ch) /\ UNCHANGED <<tableVars, deletion>>
  BY DEF LockChannel, MembershipInv, MembershipTypeOK
<1>2. CASE ch \in rows
  <2>1. lock' = [lock EXCEPT ![ch] = r] /\ Move(r, "insert")
    BY <1>2 DEF LockChannel, TakeLock
  <2>2. lock' \in [Channels -> Requests \cup {NoRequest}] /\ lock'[ch] = r
    BY <1>1, <2>1 DEF MembershipInv, MembershipTypeOK
  <2>3. \A s \in Requests \ {r} :
          InTransaction(s) => lock'[request[s].channel] = lock[request[s].channel]
    <3>1. \A s \in Requests : InTransaction(s) => request[s].channel # ch
      BY <1>1, MembershipAssumption
      DEF MembershipInv, TransactionInv, Free, MembershipAssumption
    <3>2. \A s \in Requests : request[s].channel \in Channels
      BY DEF MembershipInv, MembershipTypeOK
    <3> QED BY <2>1, <3>1, <3>2 DEF MembershipInv, MembershipTypeOK
  <2>4. "insert" \in Steps \cup Answers
    BY DEF Steps
  <2> QED BY <1>1, <1>2, <2>1, <2>2, <2>3, <2>4, TablesUnchanged
<1>3. CASE ch \notin rows
  <2>1. Move(r, "notFound") /\ UNCHANGED lock
    BY <1>3 DEF LockChannel
  <2>2. "notFound" \in Steps \cup Answers
    BY DEF Answers
  <2>3. lock' \in [Channels -> Requests \cup {NoRequest}]
    BY <2>1 DEF MembershipInv, MembershipTypeOK
  <2> QED BY <1>1, <2>1, <2>2, <2>3, TablesUnchanged
<1> QED BY <1>2, <1>3

LEMMA InsertKeepsInv ==
  ASSUME MembershipInv, NEW r \in Requests, InsertMember(r)
  PROVE  MembershipInv'
<1>1. CASE Rollback(r, "already") \/ Rollback(r, "failed")
  BY <1>1, RollbackKeepsInv DEF InsertMember, Rollback, Answers
<1>2. CASE /\ UserOf[r] \in accounts \ members[request[r].channel] /\ ~Leaving(UserOf[r])
           /\ Move(r, "count") /\ UNCHANGED lock
  <2>1. lock' \in [Channels -> Requests \cup {NoRequest}]
    BY <1>2 DEF MembershipInv, MembershipTypeOK
  <2>2. lock[request[r].channel] = r /\ request[r].channel \in rows
    BY DEF MembershipInv, TransactionInv, InsertMember, InTransaction, At
  <2>3. "count" \in Steps \cup Answers
    BY DEF Steps
  <2>4. UNCHANGED <<tableVars, deletion>>
    BY DEF InsertMember
  <2> QED BY <1>2, <2>1, <2>2, <2>3, <2>4, TablesUnchanged
<1> QED BY <1>1, <1>2 DEF InsertMember

LEMMA CountKeepsInv ==
  ASSUME MembershipInv, NEW r \in Requests, CountMembers(r)
  PROVE  MembershipInv'
<1> DEFINE ch == request[r].channel
           seats == Cardinality(members[ch] \cup {UserOf[r]})
<1>1. CASE TooMany(seats)
  BY <1>1, RollbackKeepsInv DEF CountMembers, Rollback, Answers
<1>2. CASE ~TooMany(seats)
  <2>1. Move(r, "commit") /\ UNCHANGED <<lock, tableVars, deletion>>
    BY <1>2 DEF CountMembers
  <2>2. lock' \in [Channels -> Requests \cup {NoRequest}]
    BY <2>1 DEF MembershipInv, MembershipTypeOK
  <2>3. /\ lock[ch] = r /\ ch \in rows
        /\ UserOf[r] \in accounts \ members[ch] /\ ~Leaving(UserOf[r])
    BY DEF MembershipInv, TransactionInv, CountMembers, InTransaction, Inserted, At
  <2>4. ch \in Channels
    BY DEF MembershipInv, MembershipTypeOK
  <2>5. Cardinality(members[ch]) < MaxUsers
    <3>1. IsFiniteSet(members[ch])
      BY <2>4 DEF MembershipInv, SeatsInv
    <3>2. seats = Cardinality(members[ch]) + 1 /\ Cardinality(members[ch]) \in Nat
      BY <2>3, <3>1, FS_AddElement, FS_CardinalityType
    <3> QED BY <1>2, <3>2, MembershipAssumption DEF TooMany, MembershipAssumption
  <2>6. "commit" \in Steps \cup Answers
    BY DEF Steps
  <2> QED BY <2>1, <2>2, <2>3, <2>5, <2>6, TablesUnchanged
<1> QED BY <1>1, <1>2

-----------------------------------------------------------------------------
(* The steps that change the tables.                                       *)
LEMMA GenerateKeepsInv ==
  ASSUME MembershipInv, NEW r \in Requests, GenerateChannelID(r)
  PROVE  MembershipInv'
<1>1. request \in RequestType /\ "create" \in {"new"} \cup Steps \cup Answers
  BY DEF MembershipInv, MembershipTypeOK, RequestType, Steps
<1>2. request' \in RequestType
      /\ \A s \in Requests :
           /\ request'[s].channel = request[s].channel
           /\ request'[s].at = IF s = r THEN "create" ELSE request[s].at
  BY <1>1, MoveFacts DEF GenerateChannelID
<1>3. MembershipTypeOK'
  BY <1>2 DEF MembershipInv, MembershipTypeOK, GenerateChannelID, RequestType
<1>4. CreateInv'
  BY <1>2 DEF MembershipInv, MembershipTypeOK, CreateInv, At, GenerateChannelID
<1>5. TransactionInv'
  BY <1>2 DEF MembershipInv, TransactionInv, InTransaction, Inserted, At, Leaving, GenerateChannelID
<1>6. SeatsInv'
  BY DEF MembershipInv, SeatsInv, GenerateChannelID
<1> QED BY <1>3, <1>4, <1>5, <1>6 DEF MembershipInv

LEMMA CreateKeepsInv ==
  ASSUME MembershipInv, NEW r \in Requests, Create(r)
  PROVE  MembershipInv'
<1> DEFINE u == UserOf[r]
           ch == request[r].channel
<1>1. CASE u \notin accounts
  <2>1. Move(r, "failed") /\ UNCHANGED <<tableVars, lock, deletion>>
    BY <1>1 DEF Create, tableVars
  <2>2. lock' \in [Channels -> Requests \cup {NoRequest}] /\ "failed" \in Steps \cup Answers
    BY <2>1 DEF MembershipInv, MembershipTypeOK, Answers
  <2> QED BY <2>1, <2>2, TablesUnchanged
<1>2. CASE u \in accounts
  <2>1. request \in RequestType /\ "created" \in {"new"} \cup Steps \cup Answers
    BY DEF MembershipInv, MembershipTypeOK, RequestType, Answers
  <2>2. request' \in RequestType
        /\ \A s \in Requests :
             /\ request'[s].channel = request[s].channel
             /\ request'[s].at = IF s = r THEN "created" ELSE request[s].at
    BY <1>2, <2>1, MoveFacts DEF Create
  <2>3. /\ ch \in generated \ rows /\ ch \in Channels
        /\ \A s \in Requests :
             /\ InTransaction(s) => request[s].channel # ch
             /\ s # r /\ At(s, "create") => request[s].channel # ch
    BY DEF MembershipInv, MembershipTypeOK, CreateInv, TransactionInv, Create
  <2>4. MembershipTypeOK'
    <3>1. /\ UNCHANGED <<accounts, generated, lock, deletion>>
          /\ rows' = rows \cup {ch}
          /\ createdBy' = [createdBy EXCEPT ![ch] = u]
          /\ members' = [members EXCEPT ![ch] = {u}]
      BY <1>2 DEF Create
    <3>2. /\ createdBy' \in [Channels -> accounts \cup {NoUser}]
          /\ members' \in [Channels -> SUBSET accounts]
          /\ \A c \in Channels \ rows' : members'[c] = {}
      BY <1>2, <2>3, <3>1 DEF MembershipInv, MembershipTypeOK
    <3> HIDE DEF ch, u
    <3> QED
      BY <2>2, <2>3, <3>1, <3>2 DEF MembershipInv, MembershipTypeOK, RequestType
  <2>5. CreateInv'
    BY <1>2, <2>2, <2>3 DEF MembershipInv, CreateInv, At, Create
  <2>6. TransactionInv'
    <3>1. \A s \in Requests :
            InTransaction(s)' => InTransaction(s) /\ members'[request[s].channel] = members[request[s].channel]
      BY <1>2, <2>2, <2>3 DEF MembershipInv, MembershipTypeOK, InTransaction, Create
    <3> QED
      BY <1>2, <2>2, <3>1 DEF MembershipInv, TransactionInv, InTransaction, Inserted, At, Leaving, Create
  <2>7. SeatsInv'
    <3>1. IsFiniteSet({u}) /\ Cardinality({u}) <= MaxUsers
      <4>1. IsFiniteSet({u}) /\ Cardinality({u}) = 1
        BY FS_Singleton
      <4> QED BY <4>1, MembershipAssumption DEF MembershipAssumption
    <3>2. \A c \in Channels : members'[c] = IF c = ch THEN {u} ELSE members[c]
      BY <1>2, <2>3 DEF MembershipInv, MembershipTypeOK, Create
    <3> QED BY <3>1, <3>2 DEF MembershipInv, SeatsInv
  <2> QED BY <2>4, <2>5, <2>6, <2>7 DEF MembershipInv
<1> QED BY <1>1, <1>2

LEMMA CommitKeepsInv ==
  ASSUME MembershipInv, NEW r \in Requests, CommitMember(r)
  PROVE  MembershipInv'
<1> DEFINE u == UserOf[r]
           ch == request[r].channel
<1>1. /\ ch \in Channels /\ ch \in rows
      /\ u \in accounts \ members[ch]
      /\ Cardinality(members[ch]) < MaxUsers
      /\ lock[ch] = r
  BY DEF MembershipInv, MembershipTypeOK, TransactionInv, InTransaction, Inserted, At,
         CommitMember
<1>2. /\ lock' \in [Channels -> Requests \cup {NoRequest}]
      /\ \A c \in Channels : lock[c] # r => lock'[c] = lock[c]
      /\ Move(r, "joined")
  BY EndFacts DEF MembershipInv, CommitMember, Answers
<1>3. request \in RequestType /\ "joined" \in {"new"} \cup Steps \cup Answers
  BY DEF MembershipInv, MembershipTypeOK, RequestType, Answers
<1>4. request' \in RequestType
      /\ \A s \in Requests :
           /\ request'[s].channel = request[s].channel
           /\ request'[s].at = IF s = r THEN "joined" ELSE request[s].at
  BY <1>2, <1>3, MoveFacts
<1>5. MembershipTypeOK'
  BY <1>1, <1>2, <1>4 DEF MembershipInv, MembershipTypeOK, CommitMember, RequestType
<1>6. CreateInv'
  BY <1>4 DEF MembershipInv, CreateInv, At, CommitMember
<1>7. TransactionInv'
  <2>1. \A s \in Requests :
          InTransaction(s)' =>
            /\ InTransaction(s)
            /\ lock[request[s].channel] = s /\ s # r
            /\ members'[request[s].channel] = members[request[s].channel]
    BY <1>1, <1>4 DEF MembershipInv, MembershipTypeOK, TransactionInv, InTransaction, CommitMember
  <2>2. UNCHANGED <<accounts, rows, deletion>>
    BY DEF CommitMember
  <2>3. ASSUME NEW s \in Requests, InTransaction(s)'
        PROVE  /\ lock'[request[s].channel] = s /\ request[s].channel \in rows
               /\ Inserted(s)' => Inserted(s)
               /\ At(s, "commit")' => At(s, "commit")
    BY <1>2, <1>4, <2>1, <2>3
    DEF MembershipInv, MembershipTypeOK, TransactionInv, InTransaction, Inserted, At
  <2>4. ASSUME NEW s \in Requests, ~InTransaction(s)'
        PROVE  ~Inserted(s)' /\ ~At(s, "commit")'
    BY <2>4 DEF InTransaction, Inserted, At
  <2> QED
    BY <1>4, <2>1, <2>2, <2>3, <2>4 DEF MembershipInv, TransactionInv, Leaving
<1>8. SeatsInv'
  <2>1. IsFiniteSet(members[ch]) /\ Cardinality(members[ch]) \in Nat
    BY <1>1, FS_CardinalityType DEF MembershipInv, SeatsInv
  <2>2. /\ IsFiniteSet(members[ch] \cup {u})
        /\ Cardinality(members[ch] \cup {u}) <= MaxUsers
    <3>1. /\ IsFiniteSet(members[ch] \cup {u})
          /\ Cardinality(members[ch] \cup {u}) = Cardinality(members[ch]) + 1
      BY <1>1, <2>1, FS_AddElement
    <3>2. MaxUsers \in Nat
      BY MembershipAssumption DEF MembershipAssumption
    <3> HIDE DEF ch, u
    <3> QED BY <1>1, <2>1, <3>1, <3>2
  <2>3. \A c \in Channels :
          members'[c] = IF c = ch THEN members[ch] \cup {u} ELSE members[c]
    BY <1>1 DEF MembershipInv, MembershipTypeOK, CommitMember
  <2> QED
    BY <2>2, <2>3 DEF MembershipInv, SeatsInv
<1> QED BY <1>5, <1>6, <1>7, <1>8 DEF MembershipInv

(* Members who go leave the channels within their limits.                  *)
LEMMA FewerMembers ==
  ASSUME SeatsInv, MembershipTypeOK, \A ch \in Channels : members'[ch] \subseteq members[ch]
  PROVE  SeatsInv' /\ \A ch \in Channels : Cardinality(members'[ch]) <= Cardinality(members[ch])
<1> SUFFICES ASSUME NEW ch \in Channels
             PROVE  /\ IsFiniteSet(members'[ch])
                    /\ Cardinality(members'[ch]) <= MaxUsers
                    /\ Cardinality(members'[ch]) <= Cardinality(members[ch])
  BY DEF SeatsInv
<1>1. IsFiniteSet(members[ch]) /\ Cardinality(members[ch]) <= MaxUsers
  BY DEF SeatsInv
<1>2. members'[ch] \in SUBSET members[ch]
  OBVIOUS
<1>3. /\ IsFiniteSet(members'[ch])
      /\ Cardinality(members'[ch]) <= Cardinality(members[ch])
  BY <1>1, <1>2, FS_Subset
<1>4. Cardinality(members'[ch]) \in Nat /\ Cardinality(members[ch]) \in Nat
  BY <1>1, <1>3, FS_CardinalityType
<1> QED BY <1>1, <1>3, <1>4, MembershipAssumption DEF MembershipAssumption

(***************************************************************************)
(* A step of a request outside any transaction that only takes members     *)
(* away, and maybe the channel, if no transaction holds it.                *)
(***************************************************************************)
LEMMA MembersGone ==
  ASSUME MembershipInv, NEW r \in Requests,
         NEW step \in (Steps \cup Answers) \ {"create", "insert", "count", "commit"},
         Move(r, step), UNCHANGED <<accounts, generated, createdBy, lock, deletion>>,
         members' \in [Channels -> SUBSET accounts],
         \A ch \in Channels : members'[ch] \subseteq members[ch],
         rows' \subseteq rows,
         \A ch \in rows \ rows' : Free(ch) /\ members'[ch] = {}
  PROVE  MembershipInv'
<1>0. request \in RequestType /\ step \in {"new"} \cup Steps \cup Answers
  BY DEF MembershipInv, MembershipTypeOK, RequestType
<1>1. request' \in RequestType
      /\ \A s \in Requests :
           /\ request'[s].channel = request[s].channel
           /\ request'[s].at = IF s = r THEN step ELSE request[s].at
  BY <1>0, MoveFacts
<1>2. SeatsInv' /\ \A ch \in Channels : Cardinality(members'[ch]) <= Cardinality(members[ch])
  BY FewerMembers DEF MembershipInv
<1>3. MembershipTypeOK'
  <2>1. \A ch \in Channels \ rows' : members'[ch] = {}
    BY DEF MembershipInv, MembershipTypeOK
  <2> QED BY <1>1, <2>1 DEF MembershipInv, MembershipTypeOK, RequestType
<1>4. CreateInv'
  BY <1>1 DEF MembershipInv, CreateInv, At
<1>5. TransactionInv'
  <2>1. SUFFICES ASSUME NEW s \in Requests
                 PROVE  LET ch == request'[s].channel
                        IN  /\ InTransaction(s)' => lock'[ch] = s /\ ch \in rows'
                            /\ Inserted(s)' => UserOf[s] \in accounts' \ members'[ch] /\ ~Leaving(UserOf[s])
                            /\ At(s, "commit")' => Cardinality(members'[ch]) < MaxUsers
    BY DEF TransactionInv, Leaving
  <2> DEFINE ch == request[s].channel
  <2>2. /\ InTransaction(s)' => InTransaction(s)
        /\ Inserted(s)' => Inserted(s)
        /\ At(s, "commit")' => At(s, "commit")
    BY <1>1 DEF InTransaction, Inserted, At
  <2>3. /\ ch \in Channels /\ request'[s].channel = ch
        /\ InTransaction(s) => lock[ch] = s /\ ch \in rows
        /\ Inserted(s) => UserOf[s] \in accounts \ members[ch] /\ ~Leaving(UserOf[s])
        /\ At(s, "commit") => Cardinality(members[ch]) < MaxUsers
    BY <1>1 DEF MembershipInv, MembershipTypeOK, TransactionInv
  <2>4. InTransaction(s) => ch \in rows'
    BY <2>3, MembershipAssumption DEF Free, MembershipAssumption
  <2>5. At(s, "commit") => Cardinality(members'[ch]) < MaxUsers
    <3>1. Cardinality(members'[ch]) \in Nat /\ Cardinality(members[ch]) \in Nat
      BY <1>2, <2>3, FS_CardinalityType DEF MembershipInv, SeatsInv
    <3> QED BY <1>2, <2>3, <3>1, MembershipAssumption DEF MembershipAssumption
  <2> QED BY <2>2, <2>3, <2>4, <2>5
<1> QED BY <1>2, <1>3, <1>4, <1>5 DEF MembershipInv

LEMMA RemoveKeepsInv ==
  ASSUME MembershipInv, NEW r \in Requests, RemoveMember(r)
  PROVE  MembershipInv'
<1> DEFINE ch == request[r].channel
           step == IF UserOf[r] \in members[ch] THEN "stamp" ELSE "exists"
<1>1. step \in (Steps \cup Answers) \ {"create", "insert", "count", "commit"}
  BY DEF Steps
<1>2. Move(r, step) /\ UNCHANGED <<accounts, rows, generated, createdBy, lock, deletion>>
  BY DEF RemoveMember
<1>3. /\ members' \in [Channels -> SUBSET accounts]
      /\ \A c \in Channels : members'[c] \subseteq members[c]
  BY DEF MembershipInv, MembershipTypeOK, RemoveMember, Remaining
<1> HIDE DEF step
<1> QED BY <1>1, <1>2, <1>3, MembersGone

LEMMA DeleteChannelKeepsInv ==
  ASSUME MembershipInv, NEW r \in Requests, DeleteChannel(r)
  PROVE  MembershipInv'
<1> DEFINE ch == request[r].channel
           step == IF ch \in rows THEN "deleted" ELSE "notFound"
<1>1. step \in (Steps \cup Answers) \ {"create", "insert", "count", "commit"}
  BY DEF Answers
<1>2. Move(r, step) /\ UNCHANGED <<accounts, generated, createdBy, lock, deletion>>
  BY DEF DeleteChannel
<1>3. /\ members' \in [Channels -> SUBSET accounts]
      /\ \A c \in Channels : members'[c] \subseteq members[c]
  BY DEF MembershipInv, MembershipTypeOK, DeleteChannel
<1>4. /\ rows' \subseteq rows
      /\ \A c \in rows \ rows' : Free(c) /\ members'[c] = {}
  BY DEF MembershipInv, MembershipTypeOK, DeleteChannel
<1> HIDE DEF step
<1> QED BY <1>1, <1>2, <1>3, <1>4, MembersGone

LEMMA DeleteUserKeepsInv ==
  ASSUME MembershipInv, NEW u \in Users, DeleteUser(u)
  PROVE  MembershipInv'
<1>1. \A ch \in Channels : members'[ch] = members[ch] \ {u}
  BY DEF DeleteUser, MembersWithout
<1>2. SeatsInv' /\ \A ch \in Channels : Cardinality(members'[ch]) <= Cardinality(members[ch])
  BY <1>1, FewerMembers DEF MembershipInv
<1>3. MembershipTypeOK'
  BY DEF MembershipInv, MembershipTypeOK, DeleteUser, MembersWithout
<1>4. CreateInv'
  BY DEF MembershipInv, CreateInv, At, DeleteUser
<1>5. TransactionInv'
  <2>1. SUFFICES ASSUME NEW s \in Requests
                 PROVE  LET ch == request[s].channel
                        IN  /\ InTransaction(s) => lock[ch] = s /\ ch \in rows
                            /\ Inserted(s) => UserOf[s] \in accounts' \ members'[ch] /\ ~Leaving(UserOf[s])'
                            /\ At(s, "commit") => Cardinality(members'[ch]) < MaxUsers
    BY DEF TransactionInv, DeleteUser, InTransaction, Inserted, At
  <2> DEFINE ch == request[s].channel
  <2>2. /\ ch \in Channels
        /\ InTransaction(s) => lock[ch] = s /\ ch \in rows
        /\ Inserted(s) => UserOf[s] \in accounts \ members[ch] /\ ~Leaving(UserOf[s])
        /\ At(s, "commit") => Cardinality(members[ch]) < MaxUsers
    BY DEF MembershipInv, MembershipTypeOK, TransactionInv, DeleteUser
  <2>3. Cardinality(members'[ch]) \in Nat /\ Cardinality(members[ch]) \in Nat
    BY <1>2, <2>2, FS_CardinalityType DEF MembershipInv, SeatsInv
  <2>4. At(s, "commit") => Cardinality(members'[ch]) < MaxUsers
    BY <1>2, <2>2, <2>3, MembershipAssumption DEF MembershipAssumption
  <2>5. accounts' = accounts \ {u} /\ Leaving(u)
    BY DEF DeleteUser
  <2>6. \A v \in Users : Leaving(v)' => Leaving(v)
    BY DEF DeleteUser, Leaving, MembershipInv, MembershipTypeOK
  <2>7. UserOf[s] \in Users
    BY MembershipAssumption DEF MembershipAssumption
  <2> QED BY <1>1, <2>2, <2>4, <2>5, <2>6, <2>7
<1> QED BY <1>2, <1>3, <1>4, <1>5 DEF MembershipInv

(* A deletion begins, or is given up: no join that has inserted its row is *)
(* the user's.                                                             *)
LEMMA DeletionKeepsInv ==
  ASSUME MembershipInv, NEW u \in Users, LockUser(u) \/ CancelDeletion(u)
  PROVE  MembershipInv'
<1>1. /\ UNCHANGED <<tableVars, lock, request>>
      /\ \E step \in {"started", "ended"} : deletion' = [deletion EXCEPT ![u] = step]
      /\ u \in accounts /\ deletion[u] \in {"none", "started"}
  BY DEF LockUser, CancelDeletion, Leaving, MembershipInv, MembershipTypeOK
<1>2. MembershipTypeOK'
  BY <1>1 DEF MembershipInv, MembershipTypeOK, tableVars
<1>3. CreateInv' /\ SeatsInv'
  BY <1>1 DEF MembershipInv, CreateInv, SeatsInv, At, tableVars
<1>4. \A r \in Requests : Inserted(r) /\ ~Leaving(UserOf[r]) => ~Leaving(UserOf[r])'
  <2>1. ASSUME NEW r \in Requests, Inserted(r), ~Leaving(UserOf[r])
        PROVE  ~Leaving(UserOf[r])'
    <3>1. UserOf[r] \in Users
      BY MembershipAssumption DEF MembershipAssumption
    <3>2. CASE LockUser(u)
      BY <2>1, <3>1, <3>2 DEF LockUser, Leaving, MembershipInv, MembershipTypeOK
    <3>3. CASE CancelDeletion(u)
      BY <2>1, <3>1, <3>3 DEF CancelDeletion, Leaving, MembershipInv, MembershipTypeOK
    <3> QED BY <3>2, <3>3
  <2> QED BY <2>1
<1>5. TransactionInv'
  <2>1. UNCHANGED <<accounts, rows, members, lock, request>>
    BY <1>1 DEF tableVars
  <2> QED
    BY <1>4, <2>1 DEF MembershipInv, TransactionInv, InTransaction, Inserted, At
<1> QED BY <1>2, <1>3, <1>5 DEF MembershipInv

-----------------------------------------------------------------------------
LEMMA InitMembershipInv == Init => MembershipInv
<1> SUFFICES ASSUME Init PROVE MembershipInv
  OBVIOUS
<1>1. \A r \in Requests : request[r].at = "new" /\ request[r].channel \in Channels
  BY DEF Init
<1>2. MembershipTypeOK
  BY MembershipAssumption DEF Init, MembershipTypeOK, MembershipAssumption
<1>3. CreateInv /\ TransactionInv
  BY <1>1 DEF CreateInv, TransactionInv, InTransaction, Inserted, At
<1>4. SeatsInv
  BY FS_EmptySet, MembershipAssumption DEF Init, SeatsInv, MembershipAssumption
<1> QED BY <1>2, <1>3, <1>4 DEF MembershipInv

LEMMA StepMembershipInv == MembershipInv /\ [Next]_vars => MembershipInv'
<1> SUFFICES ASSUME MembershipInv, [Next]_vars PROVE MembershipInv'
  OBVIOUS
<1>1. ASSUME NEW r \in Requests, Receive(r) PROVE MembershipInv'
  BY <1>1, QuietSteps
<1>2. ASSUME NEW r \in Requests, GenerateChannelID(r) PROVE MembershipInv'
  BY <1>2, GenerateKeepsInv
<1>3. ASSUME NEW r \in Requests, Handle(r) PROVE MembershipInv'
  BY <1>3, CreateKeepsInv, QuietSteps, LockKeepsInv, InsertKeepsInv, CountKeepsInv,
     CommitKeepsInv, RemoveKeepsInv, DeleteChannelKeepsInv
  DEF Handle, AddMember
<1>4. ASSUME NEW r \in Requests, Fail(r) PROVE MembershipInv'
  BY <1>4, RollbackKeepsInv DEF Fail, Answers
<1>5. ASSUME NEW u \in Users, LockUser(u) \/ DeleteUser(u) \/ CancelDeletion(u)
      PROVE  MembershipInv'
  BY <1>5, DeleteUserKeepsInv, DeletionKeepsInv
<1>6. CASE UNCHANGED vars
  <2>1. MembershipTypeOK'
    BY <1>6 DEF vars, tableVars, MembershipInv, MembershipTypeOK
  <2>2. CreateInv' /\ TransactionInv' /\ SeatsInv'
    BY <1>6 DEF vars, tableVars, MembershipInv, CreateInv, TransactionInv, SeatsInv,
                InTransaction, Inserted, At, Leaving
  <2> QED BY <2>1, <2>2 DEF MembershipInv
<1> QED BY <1>1, <1>2, <1>3, <1>4, <1>5, <1>6 DEF Next

(***************************************************************************)
(* The inductive invariant of the channels, which their rows keep in every *)
(* interleaving of PGChannelStore's statements.                            *)
(***************************************************************************)
THEOREM MembershipInvariant == Spec => []MembershipInv
<1>1. Init => MembershipInv
  BY InitMembershipInv
<1>2. MembershipInv /\ [Next]_vars => MembershipInv'
  BY StepMembershipInv
<1> QED BY <1>1, <1>2, PTL DEF Spec

(***************************************************************************)
(* Type correctness of the tables, and that they refer to rows that exist. *)
(***************************************************************************)
THEOREM MembershipTypes == Spec => []MembershipTypeOK
<1>1. MembershipInv => MembershipTypeOK
  BY DEF MembershipInv
<1> QED BY <1>1, MembershipInvariant, PTL

(***************************************************************************)
(* Concurrent joins never take a channel past its seats (AddMember's       *)
(* SELECT ... FOR UPDATE), however many they are.                          *)
(***************************************************************************)
THEOREM NotOversubscribedTheorem == Spec => []NotOversubscribed
<1>1. MembershipInv => NotOversubscribed
  BY DEF MembershipInv, SeatsInv, NotOversubscribed
<1> QED BY <1>1, MembershipInvariant, PTL

-----------------------------------------------------------------------------
(* Only CountMembers answers that a channel is full.                       *)
LEMMA OnlyCountRefuses ==
  ASSUME request \in RequestType, NEW r \in Requests, NEW s \in Requests,
         ~At(r, "full"), At(r, "full")',
         Receive(s) \/ GenerateChannelID(s) \/ Handle(s) \/ Fail(s)
  PROVE  s = r /\ CountMembers(r) /\ EndTransaction(r, "full")
<1>0. CASE Receive(s)
  BY <1>0, ReceiveFacts DEF Move, At, RequestType
<1>1. CASE GenerateChannelID(s) \/ Create(s) \/ FindChannel(s) \/ LockChannel(s)
  BY <1>1 DEF GenerateChannelID, Create, FindChannel, LockChannel, Move, At, RequestType
<1>2. CASE InsertMember(s) \/ CommitMember(s) \/ Fail(s)
  BY <1>2 DEF InsertMember, CommitMember, Fail, Rollback, EndTransaction, Move, At, RequestType
<1>3. CASE RemoveMember(s) \/ ChannelExists(s) \/ StampChannel(s)
  BY <1>3 DEF RemoveMember, ChannelExists, StampChannel, Move, At, RequestType
<1>4. CASE FindOwnChannel(s) \/ UpdateChannel(s) \/ DeleteChannel(s)
  BY <1>4 DEF FindOwnChannel, UpdateChannel, DeleteChannel, Move, At, RequestType
<1>5. CASE CountMembers(s)
  BY <1>5 DEF CountMembers, Rollback, EndTransaction, Move, At, RequestType
<1> QED BY <1>0, <1>1, <1>2, <1>3, <1>4, <1>5 DEF Handle, AddMember

LEMMA RefusedWhenFull ==
  ASSUME MembershipInv, [Next]_vars, NEW r \in Requests, ~At(r, "full"), At(r, "full")'
  PROVE  Cardinality(members[request[r].channel] \ {UserOf[r]}) = MaxUsers
<1> DEFINE ch == request[r].channel
           u == UserOf[r]
<1>1. request \in RequestType /\ ch \in Channels
  BY DEF MembershipInv, MembershipTypeOK, RequestType
<1>2. request' # request
  BY DEF At
<1>3. PICK s \in Requests : Receive(s) \/ GenerateChannelID(s) \/ Handle(s) \/ Fail(s)
  BY <1>2 DEF Next, vars, LockUser, DeleteUser, CancelDeletion
<1>4. CountMembers(r) /\ EndTransaction(r, "full")
  BY <1>1, <1>3, OnlyCountRefuses
<1>5. TooMany(Cardinality(members[ch] \cup {u}))
  <2>1. ~Move(r, "commit")
    BY <1>1 DEF Move, At, RequestType
  <2> QED BY <1>4, <2>1 DEF CountMembers
<1>6. u \notin members[ch]
  BY <1>4 DEF CountMembers, MembershipInv, TransactionInv, Inserted, At
<1>7. IsFiniteSet(members[ch]) /\ Cardinality(members[ch]) <= MaxUsers
  BY <1>1 DEF MembershipInv, SeatsInv
<1>8. /\ Cardinality(members[ch] \cup {u}) = Cardinality(members[ch]) + 1
      /\ Cardinality(members[ch]) \in Nat
  BY <1>6, <1>7, FS_AddElement, FS_CardinalityType
<1>9. members[ch] \ {u} = members[ch]
  BY <1>6
<1>10. Cardinality(members[ch]) + 1 > MaxUsers /\ MaxUsers \in Nat
  BY <1>5, <1>8, MembershipAssumption DEF TooMany, MembershipAssumption
<1>11. Cardinality(members[ch]) = MaxUsers
  BY <1>7, <1>8, <1>10
<1> QED BY <1>9, <1>11

(***************************************************************************)
(* A join is refused as full (ErrChannelFull) only when all seats are      *)
(* taken by others whose joins are committed.                              *)
(***************************************************************************)
THEOREM FullTheorem == Spec => FullOnlyWhenFull
<1>1. MembershipInv /\ [Next]_vars =>
        [\A r \in Requests :
           ~At(r, "full") /\ At(r, "full")' =>
             Cardinality(members[request[r].channel] \ {UserOf[r]}) = MaxUsers]_vars
  BY RefusedWhenFull
<1> QED BY <1>1, MembershipInvariant, PTL DEF Spec, FullOnlyWhenFull

-----------------------------------------------------------------------------
(* The steps of Membership are steps of Groups, or change nothing there.   *)
(* Groups counts as Membership does.                                       *)
LEMMA SameCardinality == \A S : G!Cardinality(S) = Cardinality(S)
  BY DEF Cardinality, G!Cardinality

LEMMA JoinRefines ==
  ASSUME MembershipInv, NEW r \in Requests, CommitMember(r)
  PROVE  G!Join(request[r].channel, UserOf[r])
  BY SameCardinality
  DEF MembershipInv, TransactionInv, InTransaction, Inserted, At, CommitMember, G!Join

LEMMA CreateRefines ==
  ASSUME MembershipInv, NEW r \in Requests, Create(r)
  PROVE  G!Open(request[r].channel, UserOf[r]) \/ UNCHANGED <<rows, members>>
  BY DEF MembershipInv, CreateInv, Create, G!Open

LEMMA RemoveRefines ==
  ASSUME MembershipInv, NEW r \in Requests, RemoveMember(r)
  PROVE  G!Leave(request[r].channel, UserOf[r]) \/ UNCHANGED <<rows, members>>
<1>1. CASE UserOf[r] \in members[request[r].channel]
  BY <1>1 DEF RemoveMember, Remaining, G!Leave
<1>2. CASE UserOf[r] \notin members[request[r].channel]
  BY <1>2 DEF MembershipInv, MembershipTypeOK, RemoveMember, Remaining
<1> QED BY <1>1, <1>2

LEMMA DeleteRefines ==
  ASSUME MembershipInv, NEW r \in Requests, DeleteChannel(r)
  PROVE  G!Close(request[r].channel) \/ UNCHANGED <<rows, members>>
<1>1. CASE request[r].channel \in rows
  BY <1>1 DEF DeleteChannel, G!Close
<1>2. CASE request[r].channel \notin rows
  <2>1. request[r].channel \in Channels
    BY DEF MembershipInv, MembershipTypeOK
  <2> QED BY <1>2, <2>1 DEF MembershipInv, MembershipTypeOK, DeleteChannel
<1> QED BY <1>1, <1>2

LEMMA GroupStep == MembershipInv /\ [Next]_vars => [G!Next]_(G!groupVars)
<1> SUFFICES ASSUME MembershipInv, [Next]_vars
             PROVE  G!Next \/ UNCHANGED <<rows, members>>
  BY DEF G!groupVars
<1>1. \A r \in Requests : request[r].channel \in Channels /\ UserOf[r] \in Users
  BY MembershipAssumption DEF MembershipInv, MembershipTypeOK, MembershipAssumption
<1>2. ASSUME NEW r \in Requests, Receive(r) \/ GenerateChannelID(r) \/ Fail(r)
      PROVE  UNCHANGED <<rows, members>>
  BY <1>2 DEF Receive, GenerateChannelID, Fail, tableVars
<1>3. ASSUME NEW r \in Requests, Handle(r)
      PROVE  G!Next \/ UNCHANGED <<rows, members>>
  <2>1. CASE Create(r) \/ RemoveMember(r) \/ DeleteChannel(r) \/ CommitMember(r)
    BY <1>1, <2>1, CreateRefines, RemoveRefines, DeleteRefines, JoinRefines DEF G!Next
  <2>2. CASE FindChannel(r) \/ LockChannel(r) \/ InsertMember(r) \/ CountMembers(r)
    BY <2>2 DEF FindChannel, LockChannel, InsertMember, CountMembers, tableVars
  <2>3. CASE ChannelExists(r) \/ StampChannel(r) \/ FindOwnChannel(r) \/ UpdateChannel(r)
    BY <2>3 DEF ChannelExists, StampChannel, FindOwnChannel, UpdateChannel, tableVars
  <2> QED BY <1>3, <2>1, <2>2, <2>3 DEF Handle, AddMember
<1>4. ASSUME NEW u \in Users, LockUser(u) \/ DeleteUser(u) \/ CancelDeletion(u)
      PROVE  G!Next \/ UNCHANGED <<rows, members>>
  BY <1>4
  DEF LockUser, DeleteUser, CancelDeletion, MembersWithout, tableVars, G!Next, G!Expel
<1>5. CASE UNCHANGED vars
  BY <1>5 DEF vars, tableVars
<1> QED BY <1>2, <1>3, <1>4, <1>5 DEF Next

(***************************************************************************)
(* ChannelService and PGChannelStore implement Groups.                     *)
(***************************************************************************)
THEOREM GroupsRefinement == Spec => ImplementsGroups
<1>1. Init => G!Init
  BY DEF Init, G!Init
<1>2. MembershipInv /\ [Next]_vars => [G!Next]_(G!groupVars)
  BY GroupStep
<1> QED BY <1>1, <1>2, MembershipInvariant, PTL DEF Spec, ImplementsGroups, G!Spec
-----------------------------------------------------------------------------
(* What the end of every request rests on.  A row is locked by a           *)
(* transaction that is under way, and of a request for that channel: every *)
(* way out of AddMember ends its transaction.                              *)
HeldInv ==
  \A ch \in Channels : ~Free(ch) => InTransaction(lock[ch]) /\ request[lock[ch]].channel = ch

LEMMA HeldMoves ==
  ASSUME MembershipInv, HeldInv, NEW r \in Requests, NEW step \in {"new"} \cup Steps \cup Answers,
         Move(r, step), UNCHANGED lock,
         InTransaction(r) => step \in {"insert", "count", "commit"}
  PROVE  HeldInv'
<1>1. \A s \in Requests : /\ request'[s].channel = request[s].channel
                          /\ request'[s].at = IF s = r THEN step ELSE request[s].at
  BY MoveFacts DEF MembershipInv, MembershipTypeOK, RequestType
<1>2. \A ch \in Channels : lock[ch] # NoRequest => lock[ch] \in Requests
  BY DEF MembershipInv, MembershipTypeOK
<1> QED
  BY <1>1, <1>2 DEF HeldInv, Free, InTransaction

LEMMA HeldEnds ==
  ASSUME MembershipInv, HeldInv, NEW r \in Requests, NEW answer \in Answers,
         EndTransaction(r, answer)
  PROVE  HeldInv'
<1>1. \A s \in Requests : /\ request'[s].channel = request[s].channel
                          /\ s # r => request'[s].at = request[s].at
  <2>1. Move(r, answer) /\ request \in RequestType /\ answer \in {"new"} \cup Steps \cup Answers
    BY DEF EndTransaction, MembershipInv, MembershipTypeOK, RequestType
  <2> QED
    BY <2>1, MoveFacts
<1>2. \A ch \in Channels : lock[ch] # NoRequest => lock[ch] \in Requests
  BY DEF MembershipInv, MembershipTypeOK
<1>3. lock' = [ch \in Channels |-> IF lock[ch] = r THEN NoRequest ELSE lock[ch]]
  BY DEF EndTransaction
<1>4. ASSUME NEW ch \in Channels, lock'[ch] # NoRequest
      PROVE  lock'[ch] = lock[ch] /\ lock[ch] \in Requests /\ lock[ch] # r
  BY <1>2, <1>3, <1>4
<1>5. \A s \in Requests \ {r} : InTransaction(s) => request'[s].at \in {"insert", "count", "commit"}
  BY <1>1 DEF InTransaction
<1> QED
  BY <1>1, <1>4, <1>5 DEF HeldInv, Free, InTransaction

(* The row is locked for a request that goes on with its transaction.      *)
LEMMA HeldTaken ==
  ASSUME MembershipInv, HeldInv, NEW r \in Requests, LockChannel(r)
  PROVE  HeldInv'
<1> DEFINE row == request[r].channel
<1>1. row \in Channels /\ ~InTransaction(r)
  BY DEF LockChannel, At, InTransaction, MembershipInv, MembershipTypeOK
<1>2. CASE row \notin rows
  BY <1>1, <1>2, HeldMoves DEF LockChannel, Answers
<1>3. CASE row \in rows
  <2>1. Move(r, "insert") /\ lock' = [lock EXCEPT ![row] = r]
    BY <1>3 DEF LockChannel, TakeLock
  <2>2. \A s \in Requests : /\ request'[s].channel = request[s].channel
                            /\ request'[s].at = IF s = r THEN "insert" ELSE request[s].at
    BY <2>1, MoveFacts DEF MembershipInv, MembershipTypeOK, RequestType, Steps
  <2>3. \A ch \in Channels : lock[ch] # NoRequest => lock[ch] \in Requests
    BY DEF MembershipInv, MembershipTypeOK
  <2>4. \A ch \in Channels : lock'[ch] = IF ch = row THEN r ELSE lock[ch]
    BY <1>1, <2>1 DEF MembershipInv, MembershipTypeOK
  <2> HIDE DEF row
  <2>5. request'[r].channel = row /\ request'[r].at = "insert"
    BY <2>2 DEF row
  <2> QED
    BY <2>2, <2>3, <2>4, <2>5 DEF HeldInv, Free, InTransaction
<1> QED
  BY <1>2, <1>3

LEMMA HeldStep == MembershipInv /\ HeldInv /\ [Next]_vars => HeldInv'
<1> SUFFICES ASSUME MembershipInv, HeldInv, [Next]_vars PROVE HeldInv'
  OBVIOUS
<1>1. CASE UNCHANGED <<lock, request>>
  BY <1>1 DEF HeldInv, Free, InTransaction
<1>2. ASSUME NEW r \in Requests,
             \/ Receive(r) \/ GenerateChannelID(r) \/ Create(r)
             \/ FindChannel(r) \/ RemoveMember(r) \/ ChannelExists(r) \/ StampChannel(r)
             \/ FindOwnChannel(r) \/ UpdateChannel(r) \/ DeleteChannel(r)
      PROVE  HeldInv'
  <2>1. \E step \in {"new"} \cup Steps \cup Answers : Move(r, step) /\ UNCHANGED lock
    <3>1. CASE Receive(r)
      BY <3>1, ReceiveFacts DEF Steps
    <3>2. CASE ~Receive(r)
      BY <1>2, <3>2 DEF GenerateChannelID, Create, FindChannel, RemoveMember, ChannelExists,
         StampChannel, FindOwnChannel, UpdateChannel, DeleteChannel, Steps, Answers
    <3> QED BY <3>1, <3>2
  <2>2. ~InTransaction(r)
    BY <1>2 DEF Receive, GenerateChannelID, Create, FindChannel, RemoveMember, ChannelExists,
       StampChannel, FindOwnChannel, UpdateChannel, DeleteChannel, At, InTransaction
  <2> QED
    BY <2>1, <2>2, HeldMoves
<1>3. ASSUME NEW r \in Requests, NEW step \in {"count", "commit"}, Move(r, step), UNCHANGED lock
      PROVE  HeldInv'
  BY <1>3, HeldMoves DEF Steps
<1>4. ASSUME NEW r \in Requests, NEW answer \in Answers, EndTransaction(r, answer) PROVE HeldInv'
  BY <1>4, HeldEnds
<1>5. ASSUME NEW r \in Requests, AddMember(r) PROVE HeldInv'
  <2>1. {"already", "failed", "full", "joined"} \subseteq Answers
    BY DEF Answers
  <2>2. CASE LockChannel(r)
    BY <2>2, HeldTaken
  <2>3. CASE InsertMember(r) \/ CountMembers(r) \/ CommitMember(r)
    BY <1>3, <1>4, <2>1, <2>3 DEF InsertMember, CountMembers, CommitMember, Rollback
  <2> QED
    BY <1>5, <2>2, <2>3 DEF AddMember
<1>6. ASSUME NEW r \in Requests, Fail(r) PROVE HeldInv'
  BY <1>4, <1>6 DEF Fail, Answers
<1>7. CASE \E u \in Users : LockUser(u) \/ DeleteUser(u) \/ CancelDeletion(u)
  BY <1>1, <1>7 DEF LockUser, DeleteUser, CancelDeletion
<1>8. CASE UNCHANGED vars
  BY <1>1, <1>8 DEF vars
<1> QED
  BY <1>2, <1>5, <1>6, <1>7, <1>8 DEF Next, Handle

(***************************************************************************)
(* No deadlock: a request whose next statement waits for the row of its    *)
(* channel waits for a transaction of AddMember that is under way, and     *)
(* none of the statements left to that one waits for a channel's row.  It  *)
(* may wait for its user's: the one circle there can be is with the        *)
(* deletion of that user, and PostgreSQL breaks it (Entangled).            *)
(***************************************************************************)
NeedsRow(r) == request[r].at \in {"lock", "stamp", "update", "erase"}

NoDeadlock ==
  \A r \in Requests :
    NeedsRow(r) /\ ~Free(request[r].channel) =>
      \E s \in Requests \ {r} : lock[request[r].channel] = s /\ InTransaction(s) /\ ~NeedsRow(s)

THEOREM NoDeadlockTheorem == Spec => []NoDeadlock
<1>1. Init => HeldInv
  BY DEF Init, HeldInv, Free
<1>2. MembershipInv /\ HeldInv => NoDeadlock
  <2> SUFFICES ASSUME MembershipInv, HeldInv, NEW r \in Requests, NeedsRow(r),
                      ~Free(request[r].channel)
               PROVE  \E s \in Requests \ {r} :
                        lock[request[r].channel] = s /\ InTransaction(s) /\ ~NeedsRow(s)
    BY DEF NoDeadlock
  <2>1. request[r].channel \in Channels
    BY DEF MembershipInv, MembershipTypeOK
  <2>2. lock[request[r].channel] \in Requests /\ InTransaction(lock[request[r].channel])
    BY <2>1 DEF MembershipInv, MembershipTypeOK, HeldInv, Free
  <2> QED
    BY <2>2 DEF InTransaction, NeedsRow
<1> QED
  BY <1>1, <1>2, HeldStep, MembershipInvariant, PTL DEF Spec

(* At most how many statements a request still makes.                      *)
StepsLeft(at) ==
  CASE at = "new" -> 6
    [] at = "find" -> 5
    [] at = "lock" -> 4
    [] at = "insert" -> 3
    [] at \in {"count", "remove", "own"} -> 2
    [] at \in {"commit", "create", "exists", "stamp", "update", "erase"} -> 1
    [] OTHER -> 0

(***************************************************************************)
(* No request goes round in circles: whatever happens to it brings it      *)
(* nearer to its answer, and an answer is final.                           *)
(***************************************************************************)
NearerToAnswer ==
  [][\A r \in Requests : request'[r] # request[r] =>
       StepsLeft(request'[r].at) < StepsLeft(request[r].at)]_vars

THEOREM NearerTheorem == Spec => NearerToAnswer
<1> DEFINE Nearer == \A r \in Requests : request'[r] # request[r] =>
                       StepsLeft(request'[r].at) < StepsLeft(request[r].at)
<1>1. ASSUME MembershipInv, [Next]_vars PROVE Nearer \/ UNCHANGED vars
  <2> USE <1>1
  <2>1. ASSUME NEW r \in Requests, NEW step, Move(r, step),
               StepsLeft(step) < StepsLeft(request[r].at)
        PROVE  Nearer
    BY <2>1 DEF Move, MembershipInv, MembershipTypeOK
  <2>2. ASSUME NEW r \in Requests, At(r, "new"), NEW step \in {"find", "remove", "own", "create"},
               Move(r, step)
        PROVE  Nearer
    BY <2>1, <2>2 DEF At, StepsLeft
  <2>3. ASSUME NEW answer \in Answers PROVE StepsLeft(answer) = 0
    BY DEF StepsLeft, Answers
  <2>4. ASSUME NEW at \in Steps PROVE StepsLeft(at) \in Nat \ {0}
    BY DEF StepsLeft, Steps
  <2>5. ASSUME NEW r \in Requests, request[r].at \in Steps, NEW answer \in Answers, Move(r, answer)
        PROVE  Nearer
    BY <2>1, <2>3, <2>4, <2>5
  <2>6. ASSUME NEW r \in Requests, Fail(r) PROVE Nearer
    BY <2>5, <2>6 DEF Fail, EndTransaction, Answers
  <2>7. ASSUME NEW r \in Requests, Handle(r) PROVE Nearer
    <3>1. /\ request[r].at \in Steps
          /\ \/ \E answer \in Answers : Move(r, answer)
             \/ At(r, "find") /\ Move(r, "lock")
             \/ At(r, "lock") /\ Move(r, "insert")
             \/ At(r, "insert") /\ Move(r, "count")
             \/ At(r, "count") /\ Move(r, "commit")
             \/ At(r, "remove") /\ (Move(r, "stamp") \/ Move(r, "exists"))
             \/ At(r, "own") /\ (Move(r, "update") \/ Move(r, "erase"))
      BY <2>7 DEF Handle, AddMember, Create, FindChannel, LockChannel, InsertMember, CountMembers,
         CommitMember, RemoveMember, ChannelExists, StampChannel, FindOwnChannel, UpdateChannel,
         DeleteChannel, Rollback, EndTransaction, At, Steps, Answers
    <3>2. /\ StepsLeft("find") = 5 /\ StepsLeft("lock") = 4 /\ StepsLeft("insert") = 3
          /\ StepsLeft("count") = 2 /\ StepsLeft("commit") = 1
          /\ StepsLeft("remove") = 2 /\ StepsLeft("stamp") = 1 /\ StepsLeft("exists") = 1
          /\ StepsLeft("own") = 2 /\ StepsLeft("update") = 1 /\ StepsLeft("erase") = 1
      BY DEF StepsLeft
    <3> QED
      BY <2>1, <2>5, <3>1, <3>2 DEF At
  <2>8. ASSUME UNCHANGED request PROVE Nearer
    BY <2>8
  <2> QED
    BY <1>1, <2>2, <2>6, <2>7, <2>8, ReceiveFacts
    DEF Next, GenerateChannelID, LockUser, DeleteUser, CancelDeletion
<1> QED
  BY <1>1, MembershipInvariant, PTL DEF Spec, NearerToAnswer
=============================================================================
