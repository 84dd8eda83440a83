--------------------------- MODULE SessionsProofs ---------------------------
(***************************************************************************)
(* The sessions of an app, for any number of accounts, calls that overlap, *)
(* addresses, starts and lives of tokens.                                  *)
(***************************************************************************)
EXTENDS Sessions, SequenceTheorems, SumProofs

Write == [call : Calls, key : 1 .. 3, pair : Prefs]

CallRecord ==
  [kind : {"none", "check", "login", "logout", "api", "delete"},
   at : {"idle", "ask", "found", "answered", "write", "send"},
   arg : Token \cup Accounts \cup Prefs \cup {None}, aged : BOOLEAN]

\* A pair to store is one that was issued, or stands for a logout.
Storable(pair) == pair \in Prefs /\ (pair = Empty \/ Whole(pair))

\* What a call carries, by what it is about to do with it.
Typed(r) ==
  /\ r \in CallRecord
  /\ r.at = "ask" => IF r.kind = "login" THEN r.arg \in Accounts ELSE r.arg \in Token
  /\ r.at = "found" => r.arg \in Accounts
  /\ r.at = "send" => r.arg \in Token
  /\ r.at \in {"answered", "write"} => Storable(r.arg)

ServerTypeOK ==
  /\ now \in 0 .. MaxTime
  /\ status \in [Accounts -> {"new", "active", "suspended", "deleted"}]
  /\ since \in [Accounts -> Nat] /\ latest \in [Accounts -> Nat]

AppTypeOK ==
  /\ starts \in 0 .. MaxStarts
  /\ session \in BOOLEAN /\ told \in BOOLEAN
  /\ gate \in {"off", "loading", "login", "main"}

StoreTypeOK == prefs \in Prefs /\ disk \in Prefs /\ torn \in BOOLEAN

\* Whoever waits for the plugin has one write in its queue.
QueueOK ==
  /\ call \in [Calls -> CallRecord] /\ \A c \in Calls : Typed(call[c])
  /\ queue \in Seq(Write)
  /\ \A i \in DOMAIN queue :
       call[queue[i].call].at = "write" /\ call[queue[i].call].arg = queue[i].pair
  /\ \A i, j \in DOMAIN queue : queue[i].call = queue[j].call => i = j

SessionInv == ServerTypeOK /\ AppTypeOK /\ StoreTypeOK /\ QueueOK

-----------------------------------------------------------------------------
LEMMA EmptyTyped == Empty \in Prefs /\ Storable(Empty)
  BY DEF Empty, Prefs, TokenOrNone, Storable

LEMMA PairTyped ==
  ASSUME ServerTypeOK, NEW a \in Accounts
  PROVE  Storable(Pair(a)) /\ Pair(a) # Empty /\ Pair(a).token \in Token
         /\ Pair(a).token.exp = now + AccessLife
<1>1. now \in Nat /\ AccessLife \in Nat /\ RefreshLife \in Nat
  BY SessionsAssumption DEF SessionsAssumption, ServerTypeOK
<1>2. now + AccessLife \in Nat /\ now + RefreshLife \in Nat
  BY <1>1
<1>3. /\ Pair(a) \in Prefs /\ Pair(a).token \in Token /\ Pair(a).token.exp = now + AccessLife
      /\ Pair(a).refresh \in Token /\ Pair(a).refresh.exp = now + RefreshLife
      /\ Pair(a).user = a /\ Pair(a).token.user = a /\ Pair(a).refresh.user = a
  BY <1>2 DEF Pair, Prefs, TokenOrNone, Token
<1>4. Pair(a).token # None /\ Pair(a).refresh # None
  BY <1>3, SessionsAssumption DEF SessionsAssumption, Token
<1>5. (now + RefreshLife) - (now + AccessLife) = RefreshLife - AccessLife
  BY <1>1
<1>6. Pair(a) # Empty
  BY <1>4 DEF Empty
<1> QED
  BY <1>3, <1>4, <1>5, <1>6 DEF Storable, Whole

LEMMA KeyNames == Keys[1] = "token" /\ Keys[2] = "refresh" /\ Keys[3] = "user"
  BY DEF Keys

(* One preference is taken from another pair.                              *)
LEMMA PrefsChange ==
  ASSUME NEW p \in Prefs, NEW pair \in Prefs, NEW k \in 1 .. 3
  PROVE  [p EXCEPT ![Keys[k]] = pair[Keys[k]]] \in Prefs
<1>1. k = 1 \/ k = 2 \/ k = 3
  OBVIOUS
<1>2. CASE k = 1
  <2>1. [p EXCEPT !["token"] = pair["token"]] \in Prefs
    BY DEF Prefs
  <2> QED
    BY <1>2, <2>1, KeyNames
<1>3. CASE k = 2
  <2>1. [p EXCEPT !["refresh"] = pair["refresh"]] \in Prefs
    BY DEF Prefs
  <2> QED
    BY <1>3, <2>1, KeyNames
<1>4. CASE k = 3
  <2>1. [p EXCEPT !["user"] = pair["user"]] \in Prefs
    BY DEF Prefs
  <2> QED
    BY <1>4, <2>1, KeyNames
<1> QED
  BY <1>1, <1>2, <1>3, <1>4

LEMMA IdleTyped == Typed(Idle)
  BY DEF Idle, Typed, CallRecord

LEMMA DoTyped ==
  ASSUME NEW kind \in {"check", "login", "logout", "api", "delete"},
         NEW at \in {"ask", "send", "write"}, NEW arg,
         at = "ask" => IF kind = "login" THEN arg \in Accounts ELSE arg \in Token,
         at = "send" => arg \in Token, at = "write" => Storable(arg)
  PROVE  Typed(Do(kind, at, arg))
  BY DEF Typed, Do, CallRecord, Storable

LEMMA FreeIdle ==
  ASSUME QueueOK, NEW c \in Free
  PROVE  c \in Calls /\ call[c].at = "idle"
  BY DEF Free, Idle

LEMMA QueueEntry ==
  ASSUME QueueOK, NEW i \in DOMAIN queue
  PROVE  /\ queue[i] \in Write /\ queue[i].call \in Calls /\ queue[i].key \in 1 .. 3
         /\ queue[i].pair \in Prefs
         /\ call[queue[i].call].at = "write" /\ call[queue[i].call].arg = queue[i].pair
         /\ Storable(queue[i].pair)
<1>1. queue[i] \in Write
  BY DEF QueueOK
<1>2. queue[i].call \in Calls /\ queue[i].key \in 1 .. 3 /\ queue[i].pair \in Prefs
  BY <1>1 DEF Write
<1>3. call[queue[i].call].at = "write" /\ call[queue[i].call].arg = queue[i].pair
  BY DEF QueueOK
<1>4. Typed(call[queue[i].call])
  BY <1>2 DEF QueueOK
<1> QED
  BY <1>1, <1>2, <1>3, <1>4 DEF Typed

(* A call that does not wait for the plugin changes to one that does not.  *)
LEMMA CallChanges ==
  ASSUME QueueOK, NEW c \in Calls, NEW r, Typed(r), call' = [call EXCEPT ![c] = r],
         call[c].at # "write", UNCHANGED queue
  PROVE  QueueOK'
<1>1. r \in CallRecord
  BY DEF Typed
<1>2. call' \in [Calls -> CallRecord] /\ \A d \in Calls : Typed(call'[d])
  BY <1>1 DEF QueueOK
<1>3. \A i \in DOMAIN queue : queue[i].call \in Calls /\ queue[i].call # c
  BY QueueEntry
<1>4. \A i \in DOMAIN queue :
        call'[queue[i].call].at = "write" /\ call'[queue[i].call].arg = queue[i].pair
  BY <1>3, QueueEntry DEF QueueOK
<1> QED
  BY <1>2, <1>4 DEF QueueOK

(* A call begins to write.                                                 *)
LEMMA WriteBegins ==
  ASSUME QueueOK, StoreTypeOK, NEW c \in Calls, NEW r, Typed(r), r.at = "write",
         call' = [call EXCEPT ![c] = r], call[c].at # "write", Put(c, 1, r.arg)
  PROVE  QueueOK' /\ prefs' \in Prefs
<1> DEFINE w == [call |-> c, key |-> 1, pair |-> r.arg]
<1>1. r \in CallRecord /\ r.arg \in Prefs
  BY DEF Typed, Storable
<1>2. call' \in [Calls -> CallRecord] /\ \A d \in Calls : Typed(call'[d])
  BY <1>1 DEF QueueOK
<1>3. w \in Write /\ queue \in Seq(Write) /\ queue' = Append(queue, w)
  BY <1>1 DEF Write, QueueOK, Put
<1>4. w.call = c /\ w.pair = r.arg
  OBVIOUS
<1> HIDE DEF w
<1>5. /\ queue' \in Seq(Write) /\ DOMAIN queue' = 1 .. Len(queue) + 1 /\ DOMAIN queue = 1 .. Len(queue)
      /\ \A i \in DOMAIN queue : queue'[i] = queue[i]
      /\ queue'[Len(queue) + 1] = w /\ Len(queue) \in Nat
  BY <1>3
<1>6. \A i \in DOMAIN queue' : i \in DOMAIN queue \/ i = Len(queue) + 1
  BY <1>5
<1>7. \A i \in DOMAIN queue : queue[i].call \in Calls /\ queue[i].call # c
  BY QueueEntry
<1>8. \A i \in DOMAIN queue' :
        call'[queue'[i].call].at = "write" /\ call'[queue'[i].call].arg = queue'[i].pair
  BY <1>4, <1>5, <1>6, <1>7 DEF QueueOK
<1>9. \A i, j \in DOMAIN queue' : queue'[i].call = queue'[j].call => i = j
  BY <1>4, <1>5, <1>6, <1>7 DEF QueueOK
<1>10. prefs' \in Prefs
  <2>1. prefs \in Prefs /\ 1 \in 1 .. 3
    BY DEF StoreTypeOK
  <2>2. [prefs EXCEPT ![Keys[1]] = r.arg[Keys[1]]] \in Prefs
    BY <1>1, <2>1, PrefsChange
  <2> QED
    BY <2>2 DEF Put
<1> QED
  BY <1>2, <1>5, <1>8, <1>9, <1>10 DEF QueueOK

LEMMA InitTyped == Init => SessionInv
<1> SUFFICES ASSUME Init PROVE SessionInv
  OBVIOUS
<1>1. 0 \in 0 .. MaxTime /\ 0 \in Nat /\ MaxStarts \in 0 .. MaxStarts
  BY SessionsAssumption DEF SessionsAssumption
<1>2. QueueOK
  BY IdleTyped DEF Init, QueueOK, Typed
<1> QED
  BY <1>1, <1>2, EmptyTyped
  DEF Init, LimiterInit, SessionInv, ServerTypeOK, AppTypeOK, StoreTypeOK

-----------------------------------------------------------------------------
(* The steps keep the types.  First the steps of the server.               *)
LEMMA RespondTyped ==
  ASSUME SessionInv, NEW c \in Calls, NEW answer, Storable(answer),
         call[c].at \in {"ask", "found", "send"}, Respond(c, answer)
  PROVE  QueueOK' /\ StoreTypeOK' /\ AppTypeOK' /\ now' = now
<1> DEFINE r == [call[c] EXCEPT !.at = "answered", !.arg = answer]
<1>1. call[c] \in CallRecord /\ answer \in Prefs /\ call \in [Calls -> CallRecord]
  BY DEF SessionInv, QueueOK, Storable
<1>2. r \in CallRecord /\ r.at = "answered" /\ r.arg = answer
  BY <1>1 DEF CallRecord
<1>3. call' = [call EXCEPT ![c] = r]
  BY <1>1 DEF Respond
<1> HIDE DEF r
<1>4. Typed(r)
  BY <1>2 DEF Typed
<1>5. QueueOK'
  BY <1>3, <1>4, CallChanges DEF SessionInv, Respond, storeVars
<1> QED
  BY <1>5 DEF SessionInv, StoreTypeOK, AppTypeOK, Respond, storeVars

LEMMA SetTyped ==
  ASSUME ServerTypeOK, NEW a \in Accounts, Set(a, "active") \/ Set(a, "suspended") \/ Set(a, "deleted")
  PROVE  /\ status' \in [Accounts -> {"new", "active", "suspended", "deleted"}]
         /\ since' \in [Accounts -> Nat]
<1>1. now \in Nat
  BY SessionsAssumption DEF SessionsAssumption, ServerTypeOK
<1> QED
  BY <1>1 DEF Set, ServerTypeOK

LEMMA IssueTyped ==
  ASSUME ServerTypeOK, NEW a \in Accounts, Issue(a)
  PROVE  latest' \in [Accounts -> Nat]
<1>1. now + AccessLife \in Nat
  BY SessionsAssumption DEF SessionsAssumption, ServerTypeOK
<1> QED
  BY <1>1 DEF Issue, ServerTypeOK

LEMMA RejectTyped ==
  ASSUME SessionInv, NEW c \in Calls, Reject(c)
  PROVE  SessionInv'
<1>1. QueueOK' /\ StoreTypeOK' /\ AppTypeOK' /\ now' = now
  BY EmptyTyped, RespondTyped DEF Reject
<1> QED
  BY <1>1 DEF Reject, SessionInv, ServerTypeOK

LEMMA FoundTyped ==
  ASSUME SessionInv, NEW c \in Calls, NEW a \in Accounts, call[c].at = "ask", Found(c, a)
  PROVE  QueueOK' /\ StoreTypeOK' /\ AppTypeOK' /\ now' = now /\ latest' \in [Accounts -> Nat]
<1> DEFINE r == [call[c] EXCEPT !.at = "found", !.arg = a]
<1>1. call[c] \in CallRecord /\ call \in [Calls -> CallRecord]
  BY DEF SessionInv, QueueOK
<1>2. r \in CallRecord /\ r.at = "found" /\ r.arg = a
  BY <1>1 DEF CallRecord
<1>3. call' = [call EXCEPT ![c] = r]
  BY <1>1 DEF Found
<1> HIDE DEF r
<1>4. Typed(r)
  BY <1>2 DEF Typed
<1>5. QueueOK'
  BY <1>3, <1>4, CallChanges DEF SessionInv, Found, storeVars
<1> QED
  BY <1>5 DEF SessionInv, ServerTypeOK, StoreTypeOK, AppTypeOK, Found, storeVars

LEMMA ServeLoginTyped ==
  ASSUME SessionInv, NEW c \in Calls, ServeLogin(c)
  PROVE  SessionInv'
<1> DEFINE a == call[c].arg
<1>1. a \in Accounts /\ ServerTypeOK
  BY DEF ServeLogin, SessionInv, QueueOK, Typed
<1>2. QueueOK' /\ StoreTypeOK' /\ AppTypeOK' /\ now' = now /\ latest' \in [Accounts -> Nat]
  BY <1>1, FoundTyped DEF ServeLogin
<1>3. /\ status' \in [Accounts -> {"new", "active", "suspended", "deleted"}]
      /\ since' \in [Accounts -> Nat]
  <2>1. CASE Set(a, "active")
    BY <1>1, <2>1, SetTyped
  <2>2. CASE UNCHANGED <<status, since>>
    BY <1>1, <2>2 DEF ServerTypeOK
  <2> QED
    BY <2>1, <2>2 DEF ServeLogin
<1> QED
  BY <1>1, <1>2, <1>3 DEF SessionInv, ServerTypeOK

LEMMA ServeRefreshTyped ==
  ASSUME SessionInv, NEW c \in Calls, ServeRefresh(c)
  PROVE  SessionInv'
<1>1. call[c].arg.user \in Accounts
  BY DEF ServeRefresh, SessionInv, QueueOK, Typed, Token
<1>2. QueueOK' /\ StoreTypeOK' /\ AppTypeOK' /\ now' = now /\ latest' \in [Accounts -> Nat]
  BY <1>1, FoundTyped DEF ServeRefresh
<1> QED
  BY <1>2 DEF SessionInv, ServerTypeOK, ServeRefresh

LEMMA ServePairTyped ==
  ASSUME SessionInv, NEW c \in Calls, ServePair(c)
  PROVE  SessionInv'
<1> DEFINE a == call[c].arg
<1>1. a \in Accounts
  BY DEF ServePair, SessionInv, QueueOK, Typed
<1>2. ServerTypeOK /\ Storable(Pair(a))
  BY <1>1, PairTyped DEF SessionInv
<1>3. QueueOK' /\ StoreTypeOK' /\ AppTypeOK' /\ now' = now
  BY <1>2, RespondTyped DEF ServePair
<1>4. latest' \in [Accounts -> Nat]
  BY <1>1, <1>2, IssueTyped DEF ServePair
<1> QED
  BY <1>2, <1>3, <1>4 DEF SessionInv, ServerTypeOK, ServePair

LEMMA ServeDeleteTyped ==
  ASSUME SessionInv, NEW c \in Calls, ServeDelete(c)
  PROVE  SessionInv'
<1> DEFINE a == call[c].arg.user
<1>1. a \in Accounts
  BY DEF ServeDelete, SessionInv, QueueOK, Typed, Token
<1>2. QueueOK' /\ StoreTypeOK' /\ AppTypeOK' /\ now' = now
  BY EmptyTyped, RespondTyped DEF ServeDelete
<1>3. /\ status' \in [Accounts -> {"new", "active", "suspended", "deleted"}]
      /\ since' \in [Accounts -> Nat]
  BY <1>1, SetTyped DEF ServeDelete, SessionInv
<1> QED
  BY <1>2, <1>3 DEF SessionInv, ServerTypeOK, ServeDelete

LEMMA AdministerTyped ==
  ASSUME SessionInv, Administer
  PROVE  SessionInv'
<1>1. /\ status' \in [Accounts -> {"new", "active", "suspended", "deleted"}]
      /\ since' \in [Accounts -> Nat]
  BY SetTyped DEF Administer, SessionInv
<1>2. QueueOK'
  BY DEF Administer, SessionInv, QueueOK, storeVars, appVars
<1> QED
  BY <1>1, <1>2 DEF Administer, SessionInv, ServerTypeOK, AppTypeOK, StoreTypeOK, storeVars, appVars

LEMMA CrowdTyped ==
  ASSUME SessionInv, Crowd
  PROVE  SessionInv'
<1>1. QueueOK'
  BY DEF Crowd, SessionInv, QueueOK, storeVars, appVars
<1> QED
  BY <1>1 DEF Crowd, SessionInv, ServerTypeOK, AppTypeOK, StoreTypeOK, storeVars, appVars

-----------------------------------------------------------------------------
(* Then the steps of the app.                                              *)
LEMMA StartTyped ==
  ASSUME SessionInv, Start
  PROVE  SessionInv'
<1>1. QueueOK'
  BY DEF Start, SessionInv, QueueOK, storeVars
<1>2. starts' \in 0 .. MaxStarts
  BY SessionsAssumption DEF SessionsAssumption, Start, SessionInv, AppTypeOK
<1> QED
  BY <1>1, <1>2
  DEF Start, SessionInv, ServerTypeOK, AppTypeOK, StoreTypeOK, serverVars, storeVars

(* A call begins with a write.                                             *)
LEMMA BeginWriteTyped ==
  ASSUME SessionInv, NEW c \in Free, NEW kind \in {"check", "logout"},
         call' = [call EXCEPT ![c] = Do(kind, "write", Empty)], Put(c, 1, Empty)
  PROVE  QueueOK' /\ prefs' \in Prefs
<1> DEFINE r == Do(kind, "write", Empty)
<1>1. Typed(r) /\ r.at = "write" /\ r.arg = Empty
  BY DoTyped, EmptyTyped DEF Do
<1>2. c \in Calls /\ call[c].at # "write"
  BY FreeIdle DEF SessionInv
<1> HIDE DEF r
<1>3. call' = [call EXCEPT ![c] = r]
  BY DEF r
<1> QED
  BY <1>1, <1>2, <1>3, WriteBegins DEF SessionInv

(* A call begins with a request.                                           *)
LEMMA BeginTyped ==
  ASSUME SessionInv, NEW c \in Free, NEW r, Typed(r),
         call' = [call EXCEPT ![c] = r], UNCHANGED queue
  PROVE  QueueOK'
<1>1. c \in Calls /\ call[c].at # "write"
  BY FreeIdle DEF SessionInv
<1> QED
  BY <1>1, CallChanges DEF SessionInv

LEMMA StoredTyped ==
  ASSUME StoreTypeOK
  PROVE  /\ prefs.token # None => prefs.token \in Token
         /\ prefs.refresh # None => prefs.refresh \in Token
  BY DEF StoreTypeOK, Prefs, TokenOrNone

LEMMA CheckTyped ==
  ASSUME SessionInv, Check
  PROVE  SessionInv'
<1>1. QueueOK' /\ prefs' \in Prefs /\ gate' \in {"off", "loading", "login", "main"}
  <2>1. CASE UNCHANGED <<prefs, queue, call>> /\ gate' \in {"login", "main"}
    BY <2>1 DEF SessionInv, QueueOK, StoreTypeOK
  <2>2. ASSUME NEW c \in Free, UNCHANGED gate, prefs.refresh # None,
               call' = [call EXCEPT ![c] = Do("check", "ask", prefs.refresh)],
               UNCHANGED <<prefs, queue>>
        PROVE  QueueOK' /\ prefs' \in Prefs /\ gate' \in {"off", "loading", "login", "main"}
    <3>1. Typed(Do("check", "ask", prefs.refresh))
      BY <2>2, StoredTyped, DoTyped DEF SessionInv
    <3>2. QueueOK'
      BY <2>2, <3>1, BeginTyped
    <3> QED
      BY <2>2, <3>2 DEF SessionInv, StoreTypeOK, AppTypeOK
  <2>3. ASSUME NEW c \in Free, UNCHANGED gate,
               call' = [call EXCEPT ![c] = Do("check", "write", Empty)], Put(c, 1, Empty)
        PROVE  QueueOK' /\ prefs' \in Prefs /\ gate' \in {"off", "loading", "login", "main"}
    BY <2>3, BeginWriteTyped DEF SessionInv, AppTypeOK
  <2> QED
    BY <2>1, <2>2, <2>3 DEF Check
<1> QED
  BY <1>1 DEF Check, SessionInv, ServerTypeOK, AppTypeOK, StoreTypeOK, serverVars

LEMMA LoginTyped ==
  ASSUME SessionInv, Login
  PROVE  SessionInv'
<1>1. QueueOK'
  <2>1. PICK c \in Free, a \in Accounts : call' = [call EXCEPT ![c] = Do("login", "ask", a)]
    BY DEF Login
  <2>2. Typed(Do("login", "ask", a))
    BY DoTyped
  <2> QED
    BY <2>1, <2>2, BeginTyped DEF Login, storeVars
<1> QED
  BY <1>1 DEF Login, SessionInv, ServerTypeOK, AppTypeOK, StoreTypeOK, serverVars, storeVars

LEMMA LogoutTyped ==
  ASSUME SessionInv, Logout
  PROVE  SessionInv'
<1>1. QueueOK' /\ prefs' \in Prefs
  BY BeginWriteTyped DEF Logout
<1> QED
  BY <1>1 DEF Logout, SessionInv, ServerTypeOK, AppTypeOK, StoreTypeOK, serverVars

LEMMA RequestTyped ==
  ASSUME SessionInv, Request
  PROVE  SessionInv'
<1>1. QueueOK'
  <2>1. PICK c \in Free, kind \in {"api", "delete"} :
          \/ call' = [call EXCEPT ![c] = Do(kind, "send", prefs.token)]
          \/ /\ prefs.refresh # None
             /\ call' = [call EXCEPT ![c] = Do(kind, "ask", prefs.refresh)]
    BY DEF Request
  <2>2. Typed(Do(kind, "send", prefs.token))
    BY StoredTyped, DoTyped DEF Request, SessionInv
  <2>3. prefs.refresh # None => Typed(Do(kind, "ask", prefs.refresh))
    BY StoredTyped, DoTyped DEF SessionInv
  <2> QED
    BY <2>1, <2>2, <2>3, BeginTyped DEF Request, storeVars
<1> QED
  BY <1>1 DEF Request, SessionInv, ServerTypeOK, AppTypeOK, StoreTypeOK, serverVars, storeVars

LEMMA ReceiveTyped ==
  ASSUME SessionInv, NEW c \in Calls, Receive(c)
  PROVE  SessionInv'
<1>1. QueueOK' /\ prefs' \in Prefs
  <2>1. CASE call' = [call EXCEPT ![c] = Idle] /\ UNCHANGED <<prefs, queue>>
    <3>1. call[c].at # "write"
      BY DEF Receive
    <3> QED
      BY <2>1, <3>1, IdleTyped, CallChanges DEF SessionInv, StoreTypeOK
  <2>2. CASE call' = [call EXCEPT ![c].at = "write"] /\ Put(c, 1, call[c].arg)
    <3> DEFINE r == [call[c] EXCEPT !.at = "write"]
    <3>1. call[c] \in CallRecord /\ Typed(call[c]) /\ call[c].at = "answered"
      BY DEF SessionInv, QueueOK, Receive
    <3>2. r \in CallRecord /\ r.at = "write" /\ r.arg = call[c].arg
      BY <3>1 DEF CallRecord
    <3>3. call' = [call EXCEPT ![c] = r]
      BY <2>2
    <3> HIDE DEF r
    <3>4. Typed(r)
      BY <3>1, <3>2 DEF Typed
    <3> QED
      BY <2>2, <3>1, <3>2, <3>3, <3>4, WriteBegins DEF SessionInv
  <2> QED
    BY <2>1, <2>2 DEF Receive
<1> QED
  BY <1>1 DEF Receive, SessionInv, ServerTypeOK, AppTypeOK, StoreTypeOK, serverVars

LEMMA GiveUpTyped ==
  ASSUME SessionInv, NEW c \in Calls, GiveUp(c)
  PROVE  SessionInv'
<1>1. call[c].at # "write"
  BY DEF GiveUp, WaitsForServer
<1>2. QueueOK'
  BY <1>1, IdleTyped, CallChanges DEF GiveUp, SessionInv, storeVars
<1> QED
  BY <1>2
  DEF GiveUp, Thrown, SessionInv, ServerTypeOK, AppTypeOK, StoreTypeOK, serverVars, storeVars

LEMMA TickTyped ==
  ASSUME SessionInv, Tick
  PROVE  SessionInv'
<1>1. now' \in 0 .. MaxTime
  BY SessionsAssumption DEF SessionsAssumption, Tick, SessionInv, ServerTypeOK
<1>2. \A c \in Calls : /\ call'[c] \in CallRecord /\ call'[c].at = call[c].at
                       /\ call'[c].arg = call[c].arg /\ call'[c].kind = call[c].kind
  <2> SUFFICES ASSUME NEW c \in Calls
               PROVE  /\ call'[c] \in CallRecord /\ call'[c].at = call[c].at
                      /\ call'[c].arg = call[c].arg /\ call'[c].kind = call[c].kind
    OBVIOUS
  <2>1. call[c] \in CallRecord
    BY DEF SessionInv, QueueOK
  <2>2. call'[c] = IF call[c] = Idle THEN Idle ELSE [call[c] EXCEPT !.aged = TRUE]
    BY DEF Tick
  <2> QED
    BY <2>1, <2>2 DEF CallRecord
<1>3. call' \in [Calls -> CallRecord]
  BY <1>2 DEF Tick
<1>4. \A c \in Calls : Typed(call'[c])
  BY <1>2 DEF SessionInv, QueueOK, Typed
<1>5. \A i \in DOMAIN queue :
        call'[queue[i].call].at = "write" /\ call'[queue[i].call].arg = queue[i].pair
  BY <1>2, QueueEntry DEF SessionInv
<1>6. QueueOK'
  BY <1>3, <1>4, <1>5 DEF SessionInv, QueueOK, Tick, storeVars
<1> QED
  BY <1>1, <1>6
  DEF Tick, SessionInv, ServerTypeOK, AppTypeOK, StoreTypeOK, serverVars, storeVars

-----------------------------------------------------------------------------
(* Then the end of the app, and the writes.                                *)
LEMMA LeftTyped ==
  ASSUME SessionInv, NEW n \in 0 .. Len(queue)
  PROVE  [token |-> Left(n, 1), refresh |-> Left(n, 2), user |-> Left(n, 3)] \in Prefs
<1>1. \A k \in 1 .. 3 : \/ Left(n, k) = disk[Keys[k]]
                        \/ \E i \in DOMAIN queue : Left(n, k) = queue[i].pair[Keys[k]]
  <2> SUFFICES ASSUME NEW k \in 1 .. 3, LastWrite(n, k) # {}
               PROVE  \E i \in DOMAIN queue : Left(n, k) = queue[i].pair[Keys[k]]
    BY DEF Left
  <2> DEFINE i == CHOOSE i \in LastWrite(n, k) : TRUE
  <2>1. i \in LastWrite(n, k)
    OBVIOUS
  <2>2. i \in 1 .. n
    BY <2>1 DEF LastWrite
  <2>3. i \in DOMAIN queue
    BY <2>2 DEF SessionInv, QueueOK
  <2>4. Left(n, k) = queue[i].pair[Keys[k]]
    BY DEF Left
  <2> QED
    BY <2>3, <2>4
<1>2. \E p \in Prefs : Left(n, 1) = p.token
  <2>1. Left(n, 1) = disk.token \/ \E i \in DOMAIN queue : Left(n, 1) = queue[i].pair.token
    BY <1>1, KeyNames
  <2> QED
    BY <2>1, QueueEntry DEF SessionInv, StoreTypeOK
<1>3. \E p \in Prefs : Left(n, 2) = p.refresh
  <2>1. Left(n, 2) = disk.refresh \/ \E i \in DOMAIN queue : Left(n, 2) = queue[i].pair.refresh
    BY <1>1, KeyNames
  <2> QED
    BY <2>1, QueueEntry DEF SessionInv, StoreTypeOK
<1>4. \E p \in Prefs : Left(n, 3) = p.user
  <2>1. Left(n, 3) = disk.user \/ \E i \in DOMAIN queue : Left(n, 3) = queue[i].pair.user
    BY <1>1, KeyNames
  <2> QED
    BY <2>1, QueueEntry DEF SessionInv, StoreTypeOK
<1> QED
  BY <1>2, <1>3, <1>4 DEF Prefs

LEMMA StopTyped ==
  ASSUME SessionInv, Stop
  PROVE  SessionInv'
<1>1. disk' \in Prefs /\ prefs' \in Prefs
  BY LeftTyped DEF Stop
<1>2. call' = [c \in Calls |-> Idle] /\ Idle \in CallRecord
  BY IdleTyped DEF Stop, Typed
<1>3. QueueOK'
  BY <1>2, IdleTyped DEF Stop, QueueOK
<1>4. torn' \in BOOLEAN
  BY DEF Stop, SessionInv, StoreTypeOK
<1> QED
  BY <1>1, <1>3, <1>4
  DEF Stop, SessionInv, ServerTypeOK, AppTypeOK, StoreTypeOK, serverVars

(* The oldest entry is gone, and another may be at the end.                *)
LEMMA TailEntries ==
  ASSUME QueueOK, queue # <<>>
  PROVE  /\ Len(queue) \in Nat \ {0} /\ DOMAIN queue = 1 .. Len(queue) /\ 1 \in DOMAIN queue
         /\ Head(queue) = queue[1] /\ Tail(queue) \in Seq(Write)
         /\ Len(Tail(queue)) = Len(queue) - 1 /\ DOMAIN Tail(queue) = 1 .. Len(queue) - 1
         /\ \A i \in 1 .. Len(queue) - 1 : i + 1 \in DOMAIN queue /\ Tail(queue)[i] = queue[i + 1]
<1>1. queue \in Seq(Write)
  BY DEF QueueOK
<1>2. Len(queue) \in Nat \ {0} /\ DOMAIN queue = 1 .. Len(queue)
  BY <1>1
<1> QED
  BY <1>1, <1>2

LEMMA AppendEntries ==
  ASSUME NEW S, NEW t \in Seq(S), NEW w \in S
  PROVE  /\ Append(t, w) \in Seq(S) /\ Len(Append(t, w)) = Len(t) + 1
         /\ DOMAIN Append(t, w) = 1 .. Len(t) + 1
         /\ Append(t, w)[Len(t) + 1] = w /\ \A i \in 1 .. Len(t) : Append(t, w)[i] = t[i]
  OBVIOUS

(* A call makes its next write.                                            *)
LEMMA NextWriteTyped ==
  ASSUME QueueOK, StoreTypeOK, queue # <<>>, NEW k \in 2 .. 3, UNCHANGED call,
         prefs' = [prefs EXCEPT ![Keys[k]] = Head(queue).pair[Keys[k]]],
         queue' = Append(Tail(queue), [Head(queue) EXCEPT !.key = k])
  PROVE  QueueOK' /\ prefs' \in Prefs
<1> DEFINE w == [Head(queue) EXCEPT !.key = k]
           n == Len(queue)
<1>1. queue[1] \in Write /\ queue[1].pair \in Prefs /\ Head(queue) = queue[1]
  BY TailEntries, QueueEntry
<1>2. w \in Write /\ w.call = queue[1].call /\ w.pair = queue[1].pair
  BY <1>1 DEF Write
<1>3. prefs' \in Prefs
  <2>1. prefs \in Prefs /\ k \in 1 .. 3
    BY DEF StoreTypeOK
  <2>2. [prefs EXCEPT ![Keys[k]] = Head(queue).pair[Keys[k]]] \in Prefs
    BY <1>1, <2>1, PrefsChange
  <2> QED
    BY <2>2
<1>4. queue' = Append(Tail(queue), w)
  OBVIOUS
<1> HIDE DEF w
<1>5. /\ n \in Nat \ {0} /\ DOMAIN queue = 1 .. n /\ queue' \in Seq(Write)
      /\ Len(queue') = n /\ DOMAIN queue' = 1 .. n /\ queue'[n] = w
      /\ \A i \in 1 .. n - 1 : i + 1 \in DOMAIN queue /\ queue'[i] = queue[i + 1]
  <2> DEFINE t == Tail(queue)
  <2>1. /\ n \in Nat \ {0} /\ DOMAIN queue = 1 .. n /\ t \in Seq(Write) /\ Len(t) = n - 1
        /\ \A i \in 1 .. n - 1 : i + 1 \in DOMAIN queue /\ t[i] = queue[i + 1]
    BY TailEntries
  <2>2. queue' = Append(t, w)
    BY <1>4
  <2> HIDE DEF t, n
  <2>3. /\ Append(t, w) \in Seq(Write) /\ Len(Append(t, w)) = Len(t) + 1
        /\ DOMAIN Append(t, w) = 1 .. Len(t) + 1
        /\ Append(t, w)[Len(t) + 1] = w /\ \A i \in 1 .. Len(t) : Append(t, w)[i] = t[i]
    BY <1>2, <2>1, AppendEntries
  <2>4. Len(t) + 1 = n
    BY <2>1
  <2> QED
    BY <2>1, <2>2, <2>3, <2>4
<1>6. \A i \in DOMAIN queue' :
        \E j \in DOMAIN queue :
          /\ queue'[i].call = queue[j].call /\ queue'[i].pair = queue[j].pair
          /\ j = IF i = n THEN 1 ELSE i + 1
  <2> TAKE i \in DOMAIN queue'
  <2>1. CASE i = n
    BY <1>2, <1>5, <2>1
  <2>2. CASE i # n
    <3>1. i \in 1 .. n - 1
      BY <1>5, <2>2
    <3> QED
      BY <1>5, <2>2, <3>1
  <2> QED
    BY <2>1, <2>2
<1>7. \A i \in DOMAIN queue' :
        call'[queue'[i].call].at = "write" /\ call'[queue'[i].call].arg = queue'[i].pair
  BY <1>6, QueueEntry
<1>8. ASSUME NEW i \in DOMAIN queue', NEW j \in DOMAIN queue', queue'[i].call = queue'[j].call
      PROVE  i = j
  <2>1. PICK x \in DOMAIN queue : queue'[i].call = queue[x].call /\ x = IF i = n THEN 1 ELSE i + 1
    BY <1>6
  <2>2. PICK y \in DOMAIN queue : queue'[j].call = queue[y].call /\ y = IF j = n THEN 1 ELSE j + 1
    BY <1>6
  <2>3. x = y
    BY <1>8, <2>1, <2>2 DEF QueueOK
  <2> QED
    BY <1>5, <2>1, <2>2, <2>3
<1> QED
  BY <1>3, <1>5, <1>7, <1>8 DEF QueueOK

LEMMA AfterTyped ==
  ASSUME SessionInv, NEW c \in Calls
  PROVE  /\ Typed(After(c)) /\ After(c).at \in {"idle", "send"}
         /\ After(c).at = "send" => prefs.token # None /\ After(c).arg = prefs.token
<1>1. call[c] \in CallRecord /\ Idle.at = "idle"
  BY DEF SessionInv, QueueOK, Idle
<1>2. prefs.token # None => prefs.token \in Token
  BY StoredTyped DEF SessionInv
<1>3. CASE prefs.token # None /\ After(c) = [call[c] EXCEPT !.at = "send", !.arg = prefs.token]
  BY <1>1, <1>2, <1>3 DEF CallRecord, Typed
<1>4. CASE After(c) = Idle
  BY <1>1, <1>4, IdleTyped
<1> QED
  BY <1>3, <1>4 DEF After

(* The last write of a call.                                               *)
LEMMA LastWriteTyped ==
  ASSUME SessionInv, queue # <<>>, queue' = Tail(queue), Finish(Head(queue).call)
  PROVE  QueueOK' /\ session' \in BOOLEAN /\ told' \in BOOLEAN
         /\ gate' \in {"off", "loading", "login", "main"}
<1> DEFINE c == Head(queue).call
           n == Len(queue)
<1>1. c \in Calls /\ c = queue[1].call /\ 1 \in DOMAIN queue
  BY TailEntries, QueueEntry DEF SessionInv
<1>2. call' = [call EXCEPT ![c] = After(c)] /\ Typed(After(c)) /\ After(c) \in CallRecord
  BY <1>1, AfterTyped DEF Finish, Typed
<1>3. call' \in [Calls -> CallRecord] /\ \A d \in Calls : Typed(call'[d])
  BY <1>1, <1>2 DEF SessionInv, QueueOK
<1>4. /\ n \in Nat \ {0} /\ DOMAIN queue = 1 .. n /\ queue' \in Seq(Write) /\ DOMAIN queue' = 1 .. n - 1
      /\ \A i \in 1 .. n - 1 : i + 1 \in DOMAIN queue /\ queue'[i] = queue[i + 1]
  BY TailEntries DEF SessionInv
<1>5. \A i \in DOMAIN queue' : queue'[i].call # c /\ queue'[i].call \in Calls
  <2> SUFFICES ASSUME NEW i \in DOMAIN queue' PROVE queue'[i].call # c /\ queue'[i].call \in Calls
    OBVIOUS
  <2>1. i + 1 \in DOMAIN queue /\ queue'[i] = queue[i + 1] /\ i + 1 # 1
    BY <1>4
  <2> QED
    BY <1>1, <2>1, QueueEntry DEF SessionInv, QueueOK
<1>6. \A i \in DOMAIN queue' :
        call'[queue'[i].call].at = "write" /\ call'[queue'[i].call].arg = queue'[i].pair
  BY <1>2, <1>4, <1>5, QueueEntry DEF SessionInv, QueueOK
<1>7. \A i, j \in DOMAIN queue' : queue'[i].call = queue'[j].call => i = j
  <2> SUFFICES ASSUME NEW i \in DOMAIN queue', NEW j \in DOMAIN queue', queue'[i].call = queue'[j].call
               PROVE  i = j
    OBVIOUS
  <2>1. i + 1 = j + 1
    BY <1>4 DEF SessionInv, QueueOK
  <2> QED
    BY <1>4, <2>1
<1>8. QueueOK'
  BY <1>3, <1>4, <1>6, <1>7 DEF QueueOK
<1> QED
  BY <1>8 DEF Finish, Flag, SessionInv, AppTypeOK

LEMMA WrittenTyped ==
  ASSUME SessionInv, Written
  PROVE  SessionInv'
<1> DEFINE w == Head(queue)
           k == w.key + 1
<1>1. queue # <<>> /\ w \in Write /\ w.key \in 1 .. 3 /\ w.pair \in Prefs
  BY TailEntries, QueueEntry DEF Written, SessionInv
<1>2. disk' \in Prefs
  <2>1. disk' = [disk EXCEPT ![Keys[w.key]] = w.pair[Keys[w.key]]]
    BY DEF Written
  <2> QED
    BY <1>1, <2>1, PrefsChange DEF SessionInv, StoreTypeOK
<1>3. CASE /\ k <= 3 /\ prefs' = [prefs EXCEPT ![Keys[k]] = w.pair[Keys[k]]]
           /\ queue' = Append(Tail(queue), [w EXCEPT !.key = k])
           /\ UNCHANGED <<torn, appVars>>
  <2>1. k \in 2 .. 3
    BY <1>1, <1>3
  <2>2. QueueOK' /\ prefs' \in Prefs
    BY <1>1, <1>3, <2>1, NextWriteTyped DEF SessionInv, appVars
  <2> QED
    BY <1>2, <1>3, <2>2
    DEF Written, SessionInv, ServerTypeOK, AppTypeOK, StoreTypeOK, serverVars, appVars
<1>4. CASE queue' = Tail(queue) /\ UNCHANGED prefs /\ torn' = FALSE /\ Finish(w.call)
  <2>1. /\ QueueOK' /\ session' \in BOOLEAN /\ told' \in BOOLEAN
        /\ gate' \in {"off", "loading", "login", "main"}
    BY <1>1, <1>4, LastWriteTyped
  <2> QED
    BY <1>2, <1>4, <2>1
    DEF Written, SessionInv, ServerTypeOK, AppTypeOK, StoreTypeOK, serverVars
<1> QED
  BY <1>3, <1>4 DEF Written, Following

-----------------------------------------------------------------------------
LEMMA NextTyped == SessionInv /\ [Next]_vars => SessionInv'
<1> SUFFICES ASSUME SessionInv, [Next]_vars PROVE SessionInv'
  OBVIOUS
<1>1. ASSUME NEW c \in Calls, Server(c) PROVE SessionInv'
  BY <1>1, RejectTyped, ServeLoginTyped, ServeRefreshTyped, ServePairTyped, ServeDeleteTyped
  DEF Server
<1>2. ASSUME NEW c \in Calls, Receive(c) \/ GiveUp(c) PROVE SessionInv'
  BY <1>2, ReceiveTyped, GiveUpTyped
<1>3. CASE Administer \/ Crowd \/ Tick
  BY <1>3, AdministerTyped, CrowdTyped, TickTyped
<1>4. CASE Start \/ Stop \/ Check
  BY <1>4, StartTyped, StopTyped, CheckTyped
<1>5. CASE Login \/ Logout \/ Request \/ Written
  BY <1>5, LoginTyped, LogoutTyped, RequestTyped, WrittenTyped
<1>6. CASE UNCHANGED vars
  <2>1. QueueOK'
    BY <1>6 DEF SessionInv, QueueOK, vars, storeVars, appVars
  <2> QED
    BY <1>6, <2>1
    DEF SessionInv, ServerTypeOK, AppTypeOK, StoreTypeOK, vars, serverVars, storeVars, appVars
<1> QED
  BY <1>1, <1>2, <1>3, <1>4, <1>5, <1>6 DEF Next

(***************************************************************************)
(* Whatever overlaps, the variables keep their types, and each write that  *)
(* the plugin has not answered belongs to a call that waits for it.        *)
(***************************************************************************)
THEOREM SessionTypes == Spec => []SessionTypeOK
<1>1. SessionInv => SessionTypeOK
  BY DEF SessionInv, ServerTypeOK, AppTypeOK, StoreTypeOK, QueueOK, SessionTypeOK, Write, CallRecord
<1> QED
  BY <1>1, InitTyped, NextTyped, PTL DEF Spec

-----------------------------------------------------------------------------
(* No token of an account lasts beyond AccessLife from now, and none was    *)
(* issued since its account was deleted.                                    *)
LatestInv ==
  \A a \in Accounts :
    /\ latest[a] <= now + AccessLife
    /\ status[a] = "deleted" => latest[a] <= since[a] + AccessLife

(* A user who is about to get a pair was there a moment ago.                *)
FoundInv ==
  \A c \in Calls :
    call[c].at = "found" /\ status[call[c].arg] = "deleted" => since[call[c].arg] = now

RunsOutInv == LatestInv /\ FoundInv

LEMMA LatestIssue ==
  ASSUME ServerTypeOK, LatestInv, NEW a \in Accounts, Issue(a), UNCHANGED <<now, status, since>>,
         status[a] = "deleted" => since[a] = now
  PROVE  LatestInv'
<1> SUFFICES ASSUME NEW b \in Accounts
             PROVE  /\ latest'[b] <= now' + AccessLife
                    /\ status'[b] = "deleted" => latest'[b] <= since'[b] + AccessLife
  BY DEF LatestInv
<1>1. now \in Nat /\ AccessLife \in Nat /\ latest[b] \in Nat
  BY SessionsAssumption DEF SessionsAssumption, ServerTypeOK
<1>2. CASE b = a
  <2>1. latest'[b] = now + AccessLife
    BY <1>2 DEF Issue, ServerTypeOK
  <2> QED
    BY <1>1, <1>2, <2>1
<1>3. CASE b # a
  <2>1. latest'[b] = latest[b]
    BY <1>3 DEF Issue, ServerTypeOK
  <2> QED
    BY <2>1 DEF LatestInv
<1> QED
  BY <1>2, <1>3

(* The account changes, and one call at most, which is not found deleted.   *)
LEMMA RunsOutSet ==
  ASSUME SessionInv, RunsOutInv, UNCHANGED <<now, latest>>,
         \/ UNCHANGED <<status, since>>
         \/ \E a \in Accounts : Set(a, "suspended") \/ Set(a, "active") \/ Set(a, "deleted"),
         \A c \in Calls : call'[c].at = "found" =>
           \/ call'[c] = call[c]
           \/ call'[c].arg \in Accounts /\ status'[call'[c].arg] # "deleted"
  PROVE  RunsOutInv'
<1> USE DEF SessionInv, ServerTypeOK
<1>1. LatestInv'
  BY DEF RunsOutInv, LatestInv, Set
<1>2. ASSUME NEW c \in Calls, call'[c].at = "found", status'[call'[c].arg] = "deleted"
      PROVE  since'[call'[c].arg] = now'
  <2>1. call'[c] = call[c] /\ call[c].arg \in Accounts
    BY <1>2 DEF QueueOK, Typed
  <2>2. CASE UNCHANGED <<status, since>>
    BY <1>2, <2>1, <2>2 DEF RunsOutInv, FoundInv
  <2>3. ASSUME NEW a \in Accounts, Set(a, "suspended") \/ Set(a, "active") \/ Set(a, "deleted")
        PROVE  since'[call'[c].arg] = now'
    BY <1>2, <2>1, <2>3 DEF RunsOutInv, FoundInv, Set
  <2> QED
    BY <2>2, <2>3
<1> QED
  BY <1>1, <1>2 DEF RunsOutInv, FoundInv

LEMMA RunsOutTick ==
  ASSUME SessionInv, RunsOutInv, Tick
  PROVE  RunsOutInv'
<1>1. now \in Nat /\ AccessLife \in Nat /\ now' = now + 1 /\ \A a \in Accounts : latest[a] \in Nat
  BY SessionsAssumption DEF SessionsAssumption, SessionInv, ServerTypeOK, Tick
<1>2. LatestInv'
  BY <1>1 DEF RunsOutInv, LatestInv, Tick, serverVars
<1>3. \A c \in Calls : call'[c].at # "found"
  <2> TAKE c \in Calls
  <2>1. /\ call[c] \in CallRecord /\ call[c].at # "found"
        /\ call'[c] = IF call[c] = Idle THEN Idle ELSE [call[c] EXCEPT !.aged = TRUE]
    BY DEF SessionInv, QueueOK, Tick
  <2> QED
    BY <2>1 DEF CallRecord, Idle
<1> QED
  BY <1>2, <1>3 DEF RunsOutInv, FoundInv

LEMMA NextRunsOut == SessionInv /\ RunsOutInv /\ [Next]_vars => RunsOutInv'
<1> SUFFICES ASSUME SessionInv, RunsOutInv, [Next]_vars PROVE RunsOutInv'
  OBVIOUS
<1>1. call \in [Calls -> CallRecord] /\ Free \subseteq Calls
  BY DEF SessionInv, QueueOK, Free
<1>2. ASSUME UNCHANGED <<now, status, since, latest>>,
             \A c \in Calls : call'[c].at = "found" => call'[c] = call[c]
      PROVE  RunsOutInv'
  BY <1>2, RunsOutSet
<1>3. ASSUME NEW c \in Calls, NEW r, r.at # "found", call' = [call EXCEPT ![c] = r]
      PROVE  \A d \in Calls : call'[d].at = "found" => call'[d] = call[d]
  BY <1>1, <1>3
<1>4. ASSUME NEW c \in Calls, NEW answer, Respond(c, answer)
      PROVE  now' = now /\ \A d \in Calls : call'[d].at = "found" => call'[d] = call[d]
  <2>1. call'[c].at = "answered" /\ \A d \in Calls \ {c} : call'[d] = call[d]
    BY <1>1, <1>4 DEF Respond, CallRecord
  <2> QED
    BY <1>4, <2>1 DEF Respond
<1>5. ASSUME NEW c \in Calls, NEW a \in Accounts, Found(c, a), status'[a] # "deleted",
             UNCHANGED <<status, since>> \/ Set(a, "active")
      PROVE  RunsOutInv'
  <2>1. call'[c].arg = a /\ \A d \in Calls \ {c} : call'[d] = call[d]
    BY <1>1, <1>5 DEF Found, CallRecord
  <2> QED
    BY <1>5, <2>1, RunsOutSet DEF Found
<1>6. ASSUME NEW c \in Calls, ServeLogin(c) PROVE RunsOutInv'
  <2>1. call[c].arg \in Accounts
    BY <1>6 DEF ServeLogin, SessionInv, QueueOK, Typed
  <2>2. Found(c, call[c].arg) /\ (UNCHANGED <<status, since>> \/ Set(call[c].arg, "active"))
    BY <1>6 DEF ServeLogin
  <2>3. status'[call[c].arg] # "deleted"
    BY <1>6, <2>1 DEF ServeLogin, Set, SessionInv, ServerTypeOK
  <2> QED
    BY <1>5, <2>1, <2>2, <2>3
<1>7. ASSUME NEW c \in Calls, ServeRefresh(c) PROVE RunsOutInv'
  <2>1. call[c].arg.user \in Accounts /\ status'[call[c].arg.user] # "deleted"
    BY <1>7 DEF ServeRefresh, Refreshable, SessionInv, QueueOK, Typed, Token
  <2> QED
    BY <1>5, <1>7, <2>1 DEF ServeRefresh
<1>8. ASSUME NEW c \in Calls, ServePair(c) PROVE RunsOutInv'
  <2>1. /\ call[c].arg \in Accounts /\ Issue(call[c].arg) /\ Respond(c, Pair(call[c].arg))
        /\ status[call[c].arg] = "deleted" => since[call[c].arg] = now
    BY <1>8 DEF ServePair, SessionInv, QueueOK, Typed, RunsOutInv, FoundInv
  <2>2. now' = now /\ \A d \in Calls : call'[d].at = "found" => call'[d] = call[d]
    BY <1>4, <2>1
  <2>3. UNCHANGED <<status, since>>
    BY <1>8 DEF ServePair
  <2>4. LatestInv'
    BY <2>1, <2>2, <2>3, LatestIssue DEF SessionInv, RunsOutInv
  <2> QED
    BY <2>2, <2>3, <2>4 DEF RunsOutInv, FoundInv
<1>9. ASSUME NEW c \in Calls, ServeDelete(c) PROVE RunsOutInv'
  <2>1. /\ call[c].arg.user \in Accounts /\ UNCHANGED latest /\ Respond(c, Empty)
        /\ Set(call[c].arg.user, "deleted")
    BY <1>9 DEF ServeDelete, SessionInv, QueueOK, Typed, Token
  <2>2. now' = now /\ \A d \in Calls : call'[d].at = "found" => call'[d] = call[d]
    BY <1>4, <2>1
  <2> QED
    BY <2>1, <2>2, RunsOutSet
<1>10. ASSUME Administer PROVE RunsOutInv'
  <2>1. \E a \in Accounts : Set(a, "suspended") \/ Set(a, "active") \/ Set(a, "deleted")
    BY <1>10 DEF Administer
  <2> QED
    BY <1>10, <2>1, RunsOutSet DEF Administer, appVars
<1>11. ASSUME NEW c \in Calls, Reject(c) PROVE RunsOutInv'
  <2>1. Respond(c, Empty) /\ UNCHANGED <<status, since, latest>>
    BY <1>11 DEF Reject
  <2>2. now' = now /\ \A d \in Calls : call'[d].at = "found" => call'[d] = call[d]
    BY <1>4, <2>1
  <2> QED
    BY <1>2, <2>1, <2>2
<1>12. Idle.at # "found" /\ \A kind, arg : \A at \in {"ask", "write", "send"} : Do(kind, at, arg).at # "found"
  BY DEF Idle, Do
<1>13. ASSUME NEW c \in Calls, Receive(c) \/ GiveUp(c) PROVE RunsOutInv'
  <2>1. UNCHANGED <<now, status, since, latest>>
    BY <1>13 DEF Receive, GiveUp, serverVars
  <2>2. \A d \in Calls : call'[d].at = "found" => call'[d] = call[d]
    <3>1. CASE call' = [call EXCEPT ![c] = Idle]
      BY <1>3, <1>12, <3>1
    <3>2. CASE call' = [call EXCEPT ![c].at = "write"]
      <4>1. call'[c].at = "write" /\ \A d \in Calls \ {c} : call'[d] = call[d]
        BY <1>1, <3>2 DEF CallRecord
      <4> QED
        BY <4>1
    <3> QED
      BY <1>13, <3>1, <3>2 DEF Receive, GiveUp
  <2> QED
    BY <1>2, <2>1, <2>2
<1>14. ASSUME Crowd \/ Start \/ UNCHANGED vars PROVE RunsOutInv'
  <2>1. UNCHANGED <<now, status, since, latest, call>>
    BY <1>14 DEF Crowd, Start, vars, serverVars, appVars
  <2> QED
    BY <1>2, <2>1
<1>15. ASSUME Stop PROVE RunsOutInv'
  <2>1. UNCHANGED <<now, status, since, latest>> /\ \A d \in Calls : call'[d] = Idle
    BY <1>15 DEF Stop, serverVars
  <2> QED
    BY <1>2, <1>12, <2>1
<1>16. ASSUME Check \/ Login \/ Logout \/ Request PROVE RunsOutInv'
  <2>1. UNCHANGED <<now, status, since, latest>>
    BY <1>16 DEF Check, Login, Logout, Request, serverVars
  <2>2. \/ UNCHANGED call
        \/ \E c \in Free, at \in {"ask", "write", "send"} : \E kind, arg :
             call' = [call EXCEPT ![c] = Do(kind, at, arg)]
    BY <1>16 DEF Check, Login, Logout, Request
  <2>3. \A d \in Calls : call'[d].at = "found" => call'[d] = call[d]
    BY <1>1, <1>3, <1>12, <2>2
  <2> QED
    BY <1>2, <2>1, <2>3
<1>17. ASSUME Written PROVE RunsOutInv'
  <2>1. UNCHANGED <<now, status, since, latest>>
    BY <1>17 DEF Written, serverVars
  <2>2. CASE UNCHANGED call
    BY <1>2, <2>1, <2>2
  <2>3. ASSUME NEW c \in Calls, Finish(c) PROVE RunsOutInv'
    <3>1. After(c).at # "found"
      BY <1>1, <1>12 DEF After, CallRecord
    <3>2. \A d \in Calls : call'[d].at = "found" => call'[d] = call[d]
      BY <1>3, <2>3, <3>1 DEF Finish
    <3> QED
      BY <1>2, <2>1, <3>2
  <2>4. UNCHANGED call \/ \E c \in Calls : Finish(c)
    <3>1. queue # <<>> /\ queue \in Seq(Write)
      BY <1>17 DEF Written, SessionInv, QueueOK
    <3>2. Head(queue) \in Write
      BY <3>1
    <3> QED
      BY <1>17, <3>2 DEF Written, Write, appVars
  <2> QED
    BY <2>2, <2>3, <2>4
<1> QED
  BY <1>6, <1>7, <1>8, <1>9, <1>10, <1>11, <1>13, <1>14, <1>15, <1>16, <1>17, RunsOutTick
  DEF Next, Server

(***************************************************************************)
(* However long the server runs, no access token of a deleted account      *)
(* lasts beyond AccessLife from the deletion.                              *)
(***************************************************************************)
THEOREM DeletedRunsOutTheorem == Spec => []DeletedRunsOut
<1>1. Init => RunsOutInv
  <2> SUFFICES ASSUME Init
               PROVE  RunsOutInv
    OBVIOUS
  <2>1. ASSUME NEW a \in Accounts
        PROVE  latest[a] <= now + AccessLife /\ status[a] # "deleted"
    <3>1. latest[a] = 0 /\ now = 0 /\ AccessLife \in Nat
      BY SessionsAssumption DEF SessionsAssumption, Init, LimiterInit
    <3>2. status[a] \in {"new", "active"}
      BY DEF Init
    <3> QED
      BY <3>1, <3>2
  <2>2. LatestInv
    BY <2>1 DEF LatestInv
  <2>3. FoundInv
    BY DEF FoundInv, Init, Idle
  <2> QED
    BY <2>2, <2>3 DEF RunsOutInv
<1>2. RunsOutInv => DeletedRunsOut
  BY DEF RunsOutInv, LatestInv, DeletedRunsOut, RunsOut
<1> QED
  BY <1>1, <1>2, InitTyped, NextTyped, NextRunsOut, PTL DEF Spec

-----------------------------------------------------------------------------
(***************************************************************************)
(* The writes of one key reach the preferences in the order they reach the *)
(* disk.  So what is stored under a key is of the last write of that key,  *)
(* or, when none is under way, of the pair whose turn came before.         *)
(***************************************************************************)
IsLast(q, i, k) ==
  i \in DOMAIN q /\ q[i].key = k /\ \A j \in DOMAIN q : j > i => q[j].key # k

Top(q, k, pair, below) ==
  \/ \E i \in DOMAIN q : IsLast(q, i, k) /\ pair = q[i].pair
  \/ (\A i \in DOMAIN q : q[i].key # k) /\ pair = below

LEMMA TopAppended ==
  ASSUME NEW q \in Seq(Write), NEW w \in Write, NEW below
  PROVE  Top(Append(q, w), w.key, w.pair, below)
<1> DEFINE n == Len(q) + 1
<1>1. DOMAIN Append(q, w) = 1 .. n /\ Append(q, w)[n] = w /\ n \in 1 .. n
  BY AppendEntries
<1> HIDE DEF n
<1>2. IsLast(Append(q, w), n, w.key)
  BY <1>1 DEF IsLast
<1> QED
  BY <1>1, <1>2 DEF Top

LEMMA TopAppendOther ==
  ASSUME NEW q \in Seq(Write), NEW w \in Write, NEW k, NEW pair, NEW below,
         w.key # k, Top(q, k, pair, below)
  PROVE  Top(Append(q, w), k, pair, below)
<1> DEFINE r == Append(q, w)
<1>1. /\ Len(q) \in Nat /\ DOMAIN q = 1 .. Len(q) /\ DOMAIN r = 1 .. Len(q) + 1
      /\ r[Len(q) + 1] = w /\ \A i \in DOMAIN q : r[i] = q[i] /\ i \in DOMAIN r
  BY AppendEntries
<1>2. \A i \in DOMAIN r : i \in DOMAIN q \/ i = Len(q) + 1
  BY <1>1
<1> HIDE DEF r
<1>3. ASSUME NEW i \in DOMAIN q, IsLast(q, i, k), pair = q[i].pair
      PROVE  Top(r, k, pair, below)
  <2>1. IsLast(r, i, k)
    BY <1>1, <1>2, <1>3 DEF IsLast
  <2> QED
    BY <1>1, <1>3, <2>1 DEF Top
<1>4. ASSUME \A i \in DOMAIN q : q[i].key # k, pair = below
      PROVE  Top(r, k, pair, below)
  BY <1>1, <1>2, <1>4 DEF Top
<1>5. Top(r, k, pair, below)
  BY <1>3, <1>4 DEF Top
<1> QED
  BY <1>5 DEF r

LEMMA TopTail ==
  ASSUME NEW q \in Seq(Write), q # <<>>, NEW k, NEW pair, NEW below, Top(q, k, pair, below)
  PROVE  Top(Tail(q), k, pair, IF Head(q).key = k THEN Head(q).pair ELSE below)
<1> DEFINE r == Tail(q)
           b == IF Head(q).key = k THEN Head(q).pair ELSE below
           n == Len(q)
<1>1. /\ n \in Nat \ {0} /\ DOMAIN q = 1 .. n /\ DOMAIN r = 1 .. n - 1 /\ Head(q) = q[1]
      /\ \A i \in DOMAIN r : i + 1 \in DOMAIN q /\ r[i] = q[i + 1]
  OBVIOUS
<1>2. b = IF q[1].key = k THEN q[1].pair ELSE below
  BY <1>1
<1> HIDE DEF r, b, n
<1>3. ASSUME NEW i \in DOMAIN q, IsLast(q, i, k), pair = q[i].pair, i # 1
      PROVE  Top(r, k, pair, b)
  <2>1. i - 1 \in DOMAIN r /\ r[i - 1] = q[i]
    BY <1>1, <1>3
  <2>2. ASSUME NEW j \in DOMAIN r, j > i - 1 PROVE r[j].key # k
    BY <1>1, <1>3, <2>2 DEF IsLast
  <2>3. IsLast(r, i - 1, k)
    BY <1>3, <2>1, <2>2 DEF IsLast
  <2> QED
    BY <1>3, <2>1, <2>3 DEF Top
<1>4. ASSUME IsLast(q, 1, k), pair = q[1].pair
      PROVE  Top(r, k, pair, b)
  <2>1. ASSUME NEW j \in DOMAIN r PROVE r[j].key # k
    BY <1>1, <1>4, <2>1 DEF IsLast
  <2>2. pair = b
    BY <1>2, <1>4 DEF IsLast
  <2> QED
    BY <2>1, <2>2 DEF Top
<1>5. ASSUME \A i \in DOMAIN q : q[i].key # k, pair = below
      PROVE  Top(r, k, pair, b)
  BY <1>1, <1>2, <1>5 DEF Top
<1>6. Top(r, k, pair, b)
  BY <1>3, <1>4, <1>5 DEF Top
<1> QED
  BY <1>6 DEF r, b


\* What is stored, given the pairs whose turn it was last under each key,
\* and the pair that was written last as a whole, which a session announces.
StoredAs(p1, p2, p3, base) ==
  /\ Top(queue, 1, p1, p2) /\ Top(queue, 2, p2, p3) /\ Top(queue, 3, p3, base)
  /\ prefs = [token |-> p1.token, refresh |-> p2.refresh, user |-> p3.user]
  /\ disk = [token |-> p2.token, refresh |-> p3.refresh, user |-> base.user]
  /\ torn \/ base = Empty \/ Whole(base)
  /\ session => Whole(base)

StoredInv == \E p1, p2, p3, base \in Prefs : StoredAs(p1, p2, p3, base)

LEMMA StoredPut ==
  ASSUME SessionInv, StoredInv, NEW c \in Calls, NEW pair \in Prefs, Put(c, 1, pair),
         UNCHANGED <<disk, torn, session>>
  PROVE  StoredInv'
<1> DEFINE w == [call |-> c, key |-> 1, pair |-> pair]
<1>1. PICK p1 \in Prefs, p2 \in Prefs, p3 \in Prefs, base \in Prefs : StoredAs(p1, p2, p3, base)
  BY DEF StoredInv
<1>2. w \in Write /\ w.key = 1 /\ w.pair = pair /\ queue' = Append(queue, w) /\ queue \in Seq(Write)
  BY DEF Write, Put, SessionInv, QueueOK
<1> HIDE DEF w
<1>3. Top(queue', 1, pair, p2)
  BY <1>2, TopAppended
<1>4. Top(queue', 2, p2, p3)
  BY <1>1, <1>2, TopAppendOther DEF StoredAs
<1>5. Top(queue', 3, p3, base)
  BY <1>1, <1>2, TopAppendOther DEF StoredAs
<1>6. prefs' = [token |-> pair.token, refresh |-> p2.refresh, user |-> p3.user]
  <2>1. prefs' = [prefs EXCEPT !["token"] = pair["token"]]
    BY KeyNames DEF Put
  <2> QED
    BY <1>1, <2>1 DEF StoredAs
<1>7. StoredAs(pair, p2, p3, base)'
  BY <1>1, <1>3, <1>4, <1>5, <1>6 DEF StoredAs
<1> QED
  BY <1>7 DEF StoredInv

(* The turns after the oldest write, of key k, is followed by w.            *)
LEMMA TopAdvance ==
  ASSUME NEW q \in Seq(Write), q # <<>>, NEW w \in Write, NEW k, NEW pair, NEW below,
         Top(q, k, pair, below), w.key # k
  PROVE  Top(Append(Tail(q), w), k, pair, IF Head(q).key = k THEN Head(q).pair ELSE below)
<1>1. Tail(q) \in Seq(Write)
  OBVIOUS
<1>2. Top(Tail(q), k, pair, IF Head(q).key = k THEN Head(q).pair ELSE below)
  BY TopTail
<1> QED
  BY <1>1, <1>2, TopAppendOther

(* The plugin answers a token: the call writes its refresh token.          *)
LEMMA StoredSecond ==
  ASSUME SessionInv, StoredInv, queue # <<>>, NEW pair \in Prefs, NEW w \in Write,
         Head(queue).key = 1, Head(queue).pair = pair, w.key = 2, w.pair = pair,
         queue' = Append(Tail(queue), w), UNCHANGED <<torn, session>>,
         prefs' = [prefs EXCEPT !["refresh"] = pair["refresh"]],
         disk' = [disk EXCEPT !["token"] = pair["token"]]
  PROVE  StoredInv'
<1>1. PICK p1 \in Prefs, p2 \in Prefs, p3 \in Prefs, base \in Prefs : StoredAs(p1, p2, p3, base)
  BY DEF StoredInv
<1>2. queue \in Seq(Write) /\ Tail(queue) \in Seq(Write)
  BY DEF SessionInv, QueueOK
<1>3. Top(queue', 1, p1, pair)
  <2>1. Top(queue, 1, p1, p2)
    BY <1>1 DEF StoredAs
  <2>2. Top(Append(Tail(queue), w), 1, p1, IF Head(queue).key = 1 THEN Head(queue).pair ELSE p2)
    BY <1>2, <2>1, TopAdvance
  <2> QED
    BY <2>2
<1>4. Top(queue', 3, p3, base)
  <2>1. Top(queue, 3, p3, base)
    BY <1>1 DEF StoredAs
  <2>2. Top(Append(Tail(queue), w), 3, p3, IF Head(queue).key = 3 THEN Head(queue).pair ELSE base)
    BY <1>2, <2>1, TopAdvance
  <2> QED
    BY <2>2
<1>5. Top(queue', 2, pair, p3)
  <2>1. Top(Append(Tail(queue), w), w.key, w.pair, p3)
    BY <1>2, TopAppended
  <2> QED
    BY <2>1
<1>6. /\ prefs' = [token |-> p1.token, refresh |-> pair.refresh, user |-> p3.user]
      /\ disk' = [token |-> pair.token, refresh |-> p3.refresh, user |-> base.user]
  BY <1>1 DEF StoredAs
<1>7. StoredAs(p1, pair, p3, base)'
  BY <1>1, <1>3, <1>4, <1>5, <1>6 DEF StoredAs
<1> QED
  BY <1>7 DEF StoredInv

(* The plugin answers a refresh token: the call writes its user.           *)
LEMMA StoredThird ==
  ASSUME SessionInv, StoredInv, queue # <<>>, NEW pair \in Prefs, NEW w \in Write,
         Head(queue).key = 2, Head(queue).pair = pair, w.key = 3, w.pair = pair,
         queue' = Append(Tail(queue), w), UNCHANGED <<torn, session>>,
         prefs' = [prefs EXCEPT !["user"] = pair["user"]],
         disk' = [disk EXCEPT !["refresh"] = pair["refresh"]]
  PROVE  StoredInv'
<1>1. PICK p1 \in Prefs, p2 \in Prefs, p3 \in Prefs, base \in Prefs : StoredAs(p1, p2, p3, base)
  BY DEF StoredInv
<1>2. queue \in Seq(Write) /\ Tail(queue) \in Seq(Write)
  BY DEF SessionInv, QueueOK
<1>3. Top(queue', 1, p1, p2)
  <2>1. Top(queue, 1, p1, p2)
    BY <1>1 DEF StoredAs
  <2>2. Top(Append(Tail(queue), w), 1, p1, IF Head(queue).key = 1 THEN Head(queue).pair ELSE p2)
    BY <1>2, <2>1, TopAdvance
  <2> QED
    BY <2>2
<1>4. Top(queue', 2, p2, pair)
  <2>1. Top(queue, 2, p2, p3)
    BY <1>1 DEF StoredAs
  <2>2. Top(Append(Tail(queue), w), 2, p2, IF Head(queue).key = 2 THEN Head(queue).pair ELSE p3)
    BY <1>2, <2>1, TopAdvance
  <2> QED
    BY <2>2
<1>5. Top(queue', 3, pair, base)
  <2>1. Top(Append(Tail(queue), w), w.key, w.pair, base)
    BY <1>2, TopAppended
  <2> QED
    BY <2>1
<1>6. /\ prefs' = [token |-> p1.token, refresh |-> p2.refresh, user |-> pair.user]
      /\ disk' = [token |-> p2.token, refresh |-> pair.refresh, user |-> base.user]
  BY <1>1 DEF StoredAs
<1>7. StoredAs(p1, p2, pair, base)'
  BY <1>1, <1>3, <1>4, <1>5, <1>6 DEF StoredAs
<1> QED
  BY <1>7 DEF StoredInv

(* The plugin answers a user: the pair is written as a whole.              *)
LEMMA StoredLast ==
  ASSUME SessionInv, StoredInv, queue # <<>>, NEW pair \in Prefs, Storable(pair),
         Head(queue).key = 3, Head(queue).pair = pair, queue' = Tail(queue),
         session' => pair # Empty,
         UNCHANGED prefs, disk' = [disk EXCEPT !["user"] = pair["user"]]
  PROVE  StoredInv'
<1>1. PICK p1 \in Prefs, p2 \in Prefs, p3 \in Prefs, base \in Prefs : StoredAs(p1, p2, p3, base)
  BY DEF StoredInv
<1>2. queue \in Seq(Write)
  BY DEF SessionInv, QueueOK
<1>3. Top(queue', 1, p1, p2) /\ Top(queue', 2, p2, p3) /\ Top(queue', 3, p3, pair)
  <2>1. Top(queue, 1, p1, p2) /\ Top(queue, 2, p2, p3) /\ Top(queue, 3, p3, base)
    BY <1>1 DEF StoredAs
  <2>2. /\ Top(Tail(queue), 1, p1, IF Head(queue).key = 1 THEN Head(queue).pair ELSE p2)
        /\ Top(Tail(queue), 2, p2, IF Head(queue).key = 2 THEN Head(queue).pair ELSE p3)
        /\ Top(Tail(queue), 3, p3, IF Head(queue).key = 3 THEN Head(queue).pair ELSE base)
    BY <1>2, <2>1, TopTail
  <2> QED
    BY <2>2
<1>4. disk' = [token |-> p2.token, refresh |-> p3.refresh, user |-> pair.user]
  BY <1>1 DEF StoredAs
<1>5. StoredAs(p1, p2, p3, pair)'
  BY <1>1, <1>3, <1>4 DEF StoredAs, Storable
<1> QED
  BY <1>5 DEF StoredInv

(* With nothing under way, what is stored is one pair.                     *)
LEMMA StoredQuiet ==
  ASSUME SessionInv, StoredInv, queue = <<>>
  PROVE  disk = prefs /\ (torn \/ Storable(prefs)) /\ (session => Whole(prefs))
<1>1. PICK p1 \in Prefs, p2 \in Prefs, p3 \in Prefs, base \in Prefs : StoredAs(p1, p2, p3, base)
  BY DEF StoredInv
<1>2. DOMAIN queue = {}
  OBVIOUS
<1>3. p1 = p2 /\ p2 = p3 /\ p3 = base
  BY <1>1, <1>2 DEF StoredAs, Top
<1>4. base = [token |-> base.token, refresh |-> base.refresh, user |-> base.user]
  BY DEF Prefs
<1> QED
  BY <1>1, <1>3, <1>4 DEF StoredAs, Storable

LEMMA InitStored == Init => StoredInv
<1> SUFFICES ASSUME Init PROVE StoredInv
  OBVIOUS
<1>1. DOMAIN queue = {}
  BY DEF Init
<1>2. StoredAs(Empty, Empty, Empty, Empty)
  BY <1>1 DEF Init, StoredAs, Top, Empty
<1> QED
  BY <1>2, EmptyTyped DEF StoredInv

(* A store with nothing under way is as it is.                             *)
LEMMA StoredAtRest ==
  ASSUME NEW pair \in Prefs, prefs' = pair, disk' = pair, queue' = <<>>,
         ~session', torn' \/ Storable(pair)
  PROVE  StoredInv'
<1>1. pair = [token |-> pair.token, refresh |-> pair.refresh, user |-> pair.user]
  BY DEF Prefs
<1>2. DOMAIN queue' = {}
  OBVIOUS
<1>3. StoredAs(pair, pair, pair, pair)'
  BY <1>1, <1>2 DEF StoredAs, Top, Storable
<1> QED
  BY <1>3 DEF StoredInv

(* What an app that ends leaves is a mixture only if it was writing.       *)
LEMMA StoredStop ==
  ASSUME SessionInv, StoredInv, Stop
  PROVE  StoredInv'
<1>1. disk' \in Prefs /\ prefs' = disk' /\ queue' = <<>> /\ ~session'
  BY LeftTyped DEF Stop
<1>2. torn' \/ Storable(disk')
  <2> SUFFICES ASSUME ~torn, queue = <<>> PROVE Storable(disk')
    BY DEF Stop
  <2>1. disk \in Prefs /\ Storable(disk)
    BY StoredQuiet DEF SessionInv, StoreTypeOK
  <2>2. \A n \in 0 .. Len(queue), k \in 1 .. 3 : Left(n, k) = disk[Keys[k]]
    BY DEF Left, LastWrite
  <2>3. disk' = [token |-> disk["token"], refresh |-> disk["refresh"], user |-> disk["user"]]
    BY <2>2, KeyNames DEF Stop
  <2>4. disk' = disk
    BY <2>1, <2>3 DEF Prefs
  <2> QED
    BY <2>1, <2>4
<1> QED
  BY <1>1, <1>2, StoredAtRest

LEMMA StoredWritten ==
  ASSUME SessionInv, StoredInv, Written
  PROVE  StoredInv'
<1> DEFINE h == Head(queue)
           pair == h.pair
           k == h.key + 1
           w == [h EXCEPT !.key = k]
<1>1. queue # <<>> /\ h \in Write /\ h.key \in 1 .. 3 /\ pair \in Prefs /\ Storable(pair)
  BY TailEntries, QueueEntry DEF Written, SessionInv
<1>2. disk' = [disk EXCEPT ![Keys[h.key]] = pair[Keys[h.key]]]
  BY DEF Written
<1>3. \/ /\ k <= 3 /\ prefs' = [prefs EXCEPT ![Keys[k]] = pair[Keys[k]]]
         /\ queue' = Append(Tail(queue), w) /\ UNCHANGED <<torn, session>>
      \/ k > 3 /\ queue' = Tail(queue) /\ UNCHANGED prefs /\ (session' => pair # Empty)
  <2>1. Finish(h.call) => session' = (pair # Empty)
    BY <1>1, QueueEntry, TailEntries DEF Finish, Flag, SessionInv
  <2> QED
    BY <2>1 DEF Written, Following, appVars
<1>4. k <= 3 => w \in Write /\ w.key = k /\ w.pair = pair
  BY <1>1 DEF Write
<1> HIDE DEF w, pair, k
<1>5. CASE h.key = 1
  <2>0. k = 2 /\ Keys[k] = "refresh" /\ Keys[h.key] = "token"
    BY <1>5, KeyNames DEF k
  <2>1. /\ prefs' = [prefs EXCEPT !["refresh"] = pair["refresh"]]
        /\ disk' = [disk EXCEPT !["token"] = pair["token"]]
        /\ queue' = Append(Tail(queue), w) /\ UNCHANGED <<torn, session>>
    BY <1>2, <1>3, <2>0
  <2>2. w \in Write /\ w.key = 2 /\ w.pair = pair /\ h.pair = pair
    BY <1>4, <2>0 DEF pair
  <2> QED
    BY <1>1, <1>5, <2>1, <2>2, StoredSecond
<1>6. CASE h.key = 2
  <2>0. k = 3 /\ Keys[k] = "user" /\ Keys[h.key] = "refresh"
    BY <1>6, KeyNames DEF k
  <2>1. /\ prefs' = [prefs EXCEPT !["user"] = pair["user"]]
        /\ disk' = [disk EXCEPT !["refresh"] = pair["refresh"]]
        /\ queue' = Append(Tail(queue), w) /\ UNCHANGED <<torn, session>>
    BY <1>2, <1>3, <2>0
  <2>2. w \in Write /\ w.key = 3 /\ w.pair = pair /\ h.pair = pair
    BY <1>4, <2>0 DEF pair
  <2> QED
    BY <1>1, <1>6, <2>1, <2>2, StoredThird
<1>7. CASE h.key = 3
  <2>0. k = 4 /\ Keys[h.key] = "user"
    BY <1>7, KeyNames DEF k
  <2>1. /\ disk' = [disk EXCEPT !["user"] = pair["user"]]
        /\ queue' = Tail(queue) /\ UNCHANGED prefs /\ (session' => pair # Empty)
    BY <1>2, <1>3, <2>0
  <2>2. h.pair = pair
    BY DEF pair
  <2> QED
    BY <1>1, <1>7, <2>1, <2>2, StoredLast
<1> QED
  BY <1>1, <1>5, <1>6, <1>7

LEMMA NextStored == SessionInv /\ StoredInv /\ [Next]_vars => StoredInv'
<1> SUFFICES ASSUME SessionInv, StoredInv, [Next]_vars PROVE StoredInv'
  OBVIOUS
<1>1. ASSUME UNCHANGED <<storeVars, session>> PROVE StoredInv'
  <2>1. PICK p1 \in Prefs, p2 \in Prefs, p3 \in Prefs, base \in Prefs : StoredAs(p1, p2, p3, base)
    BY DEF StoredInv
  <2>2. queue' = queue /\ prefs' = prefs /\ disk' = disk /\ torn' = torn
        /\ session' = session
    BY <1>1 DEF storeVars
  <2>3. StoredAs(p1, p2, p3, base)'
    BY <2>1, <2>2 DEF StoredAs
  <2> QED
    BY <2>3 DEF StoredInv
<1>2. ASSUME NEW c \in Calls, NEW pair \in Prefs, Put(c, 1, pair), UNCHANGED <<disk, torn, session>>
      PROVE  StoredInv'
  BY <1>2, StoredPut
<1>3. ASSUME NEW c \in Calls, Server(c) \/ GiveUp(c) PROVE StoredInv'
  <2>1. UNCHANGED <<storeVars, session>>
    BY <1>3 DEF Server, Reject, ServeLogin, ServeRefresh, ServePair, ServeDelete, Found, Respond,
           GiveUp
  <2> QED
    BY <1>1, <2>1
<1>4. ASSUME NEW c \in Calls, Receive(c) PROVE StoredInv'
  <2>1. call[c].arg \in Prefs
    BY <1>4 DEF Receive, SessionInv, QueueOK, Typed, Storable
  <2>2. UNCHANGED <<storeVars, session>> \/ (Put(c, 1, call[c].arg) /\ UNCHANGED <<disk, torn, session>>)
    BY <1>4 DEF Receive, storeVars
  <2> QED
    BY <1>1, <1>2, <2>1, <2>2
<1>5. ASSUME Check \/ Logout PROVE StoredInv'
  <2>1. UNCHANGED <<storeVars, session>> \/ \E c \in Free : Put(c, 1, Empty) /\ UNCHANGED <<disk, torn, session>>
    BY <1>5 DEF Check, Logout, storeVars
  <2>2. \A c \in Free : c \in Calls
    BY DEF Free
  <2> QED
    BY <1>1, <1>2, <2>1, <2>2, EmptyTyped
<1>6. ASSUME Administer \/ Crowd \/ Start \/ Login \/ Request \/ Tick \/ UNCHANGED vars
      PROVE  StoredInv'
  <2>1. UNCHANGED <<storeVars, session>>
    BY <1>6 DEF Administer, Crowd, Start, Login, Request, Tick, vars, appVars
  <2> QED
    BY <1>1, <2>1
<1> QED
  BY <1>3, <1>4, <1>5, <1>6, StoredStop, StoredWritten DEF Next

(***************************************************************************)
(* However many logins, refreshes and logouts overlap, they leave one pair *)
(* of tokens with its user, or nothing, and the disk agrees.               *)
(***************************************************************************)
THEOREM AllOrNothingTheorem == Spec => []AllOrNothing
<1>1. SessionInv /\ StoredInv => AllOrNothing
  BY StoredQuiet DEF AllOrNothing, Storable
<1> QED
  BY <1>1, InitTyped, NextTyped, InitStored, NextStored, PTL DEF Spec

-----------------------------------------------------------------------------
\* A pair on its way to the preferences has not expired, and does not until
\* the call has waited long enough to be given up.
Fresh(r) ==
  r.at \in {"answered", "write"} /\ r.arg # Empty
    => r.arg.token.exp > now + (IF r.aged THEN 0 ELSE 1)

FreshInv == \A c \in Calls : Fresh(call[c])

SendsFresh == \A c \in Calls : call[c].at # "send" /\ call'[c].at = "send" => call'[c].arg.exp > now'

(* One call changes, while the clock stands still.                         *)
LEMMA FreshChange ==
  ASSUME SessionInv, FreshInv, NEW c \in Calls, NEW r, call' = [call EXCEPT ![c] = r],
         now' = now, Fresh(r), r.at = "send" => r.arg.exp > now
  PROVE  FreshInv' /\ SendsFresh
<1>1. \A d \in Calls : call'[d] = IF d = c THEN r ELSE call[d]
  BY DEF SessionInv, QueueOK
<1>2. FreshInv'
  BY <1>1 DEF FreshInv, Fresh
<1>3. SendsFresh
  BY <1>1 DEF SendsFresh
<1> QED
  BY <1>2, <1>3

LEMMA FreshSame ==
  ASSUME FreshInv, UNCHANGED <<call, now>>
  PROVE  FreshInv' /\ SendsFresh
  BY DEF FreshInv, Fresh, SendsFresh

LEMMA FreshRespond ==
  ASSUME SessionInv, FreshInv, NEW c \in Calls, NEW answer, Respond(c, answer),
         answer = Empty \/ (answer.token.exp \in Nat /\ answer.token.exp > now + 1)
  PROVE  FreshInv' /\ SendsFresh
<1> DEFINE r == [call[c] EXCEPT !.at = "answered", !.arg = answer]
<1>1. call[c] \in CallRecord /\ call \in [Calls -> CallRecord] /\ now \in Nat
  BY SessionsAssumption DEF SessionsAssumption, SessionInv, QueueOK, ServerTypeOK
<1>2. r.at = "answered" /\ r.arg = answer /\ r.aged \in BOOLEAN
  BY <1>1 DEF CallRecord
<1>3. call' = [call EXCEPT ![c] = r] /\ now' = now
  BY <1>1 DEF Respond
<1> HIDE DEF r
<1>4. answer # Empty => answer.token.exp > now + 0 /\ answer.token.exp > now + 1
  BY <1>1
<1>5. Fresh(r)
  BY <1>1, <1>2, <1>4 DEF Fresh
<1> QED
  BY <1>2, <1>3, <1>5, FreshChange

LEMMA FreshServer ==
  ASSUME SessionInv, FreshInv, NEW c \in Calls, Server(c)
  PROVE  FreshInv' /\ SendsFresh
<1>1. ASSUME NEW a \in Accounts, Respond(c, Pair(a)) PROVE FreshInv' /\ SendsFresh
  <2>1. Pair(a).token \in Token /\ Pair(a).token.exp = now + AccessLife
    BY PairTyped DEF SessionInv
  <2>2. now \in Nat /\ AccessLife \in Nat /\ AccessLife >= 2
    BY SessionsAssumption DEF SessionsAssumption, SessionInv, ServerTypeOK
  <2>3. Pair(a).token.exp \in Nat /\ Pair(a).token.exp > now + 1
    BY <2>1, <2>2
  <2> QED
    BY <1>1, <2>3, FreshRespond
<1>2. CASE Reject(c) \/ ServeDelete(c)
  BY <1>2, FreshRespond DEF Reject, ServeDelete
<1>3. CASE ServePair(c)
  <2>1. call[c].arg \in Accounts /\ Respond(c, Pair(call[c].arg))
    BY <1>3 DEF ServePair, SessionInv, QueueOK, Typed
  <2> QED
    BY <1>1, <2>1
<1>4. CASE ServeLogin(c) \/ ServeRefresh(c)
  <2>1. PICK a : Found(c, a)
    BY <1>4 DEF ServeLogin, ServeRefresh
  <2> DEFINE r == [call[c] EXCEPT !.at = "found", !.arg = a]
  <2>2. call' = [call EXCEPT ![c] = r] /\ now' = now /\ r.at = "found"
    BY <2>1 DEF Found, SessionInv, QueueOK, CallRecord
  <2> HIDE DEF r
  <2>3. Fresh(r)
    BY <2>2 DEF Fresh
  <2> QED
    BY <2>2, <2>3, FreshChange
<1> QED
  BY <1>2, <1>3, <1>4 DEF Server

LEMMA FreshBegins ==
  ASSUME SessionInv, FreshInv, Check \/ Login \/ Logout \/ Request
  PROVE  FreshInv' /\ SendsFresh
<1>1. now' = now
  BY DEF Check, Login, Logout, Request
<1>2. \/ UNCHANGED call
      \/ \E c \in Free : \E kind, at, arg :
           /\ call' = [call EXCEPT ![c] = Do(kind, at, arg)]
           /\ at = "ask" \/ (at = "write" /\ arg = Empty) \/ (at = "send" /\ arg.exp > now)
  <2>1. CASE Check
    BY <2>1 DEF Check
  <2>2. CASE Login
    BY <2>2 DEF Login
  <2>3. CASE Logout
    BY <2>3 DEF Logout
  <2>4. CASE Request
    <3>1. Current(prefs.token) => prefs.token.exp > now
      <4>1. Current(prefs.token) => prefs.token.exp \in Nat /\ ~(prefs.token.exp <= now)
        BY StoredTyped DEF Current, Expired, SessionInv, Token
      <4> QED
        BY <4>1, SessionsAssumption DEF SessionsAssumption, SessionInv, ServerTypeOK
    <3> QED
      BY <2>4, <3>1 DEF Request
  <2> QED
    BY <2>1, <2>2, <2>3, <2>4
<1>3. ASSUME NEW c \in Free, NEW kind, NEW at, NEW arg,
             call' = [call EXCEPT ![c] = Do(kind, at, arg)],
             at = "ask" \/ (at = "write" /\ arg = Empty) \/ (at = "send" /\ arg.exp > now)
      PROVE  FreshInv' /\ SendsFresh
  <2>1. c \in Calls
    BY DEF Free
  <2>2. Do(kind, at, arg).at = at /\ Do(kind, at, arg).arg = arg
    BY DEF Do
  <2>3. Fresh(Do(kind, at, arg))
    BY <1>3, <2>2 DEF Fresh
  <2> QED
    BY <1>1, <1>3, <2>1, <2>2, <2>3, FreshChange
<1> QED
  BY <1>1, <1>2, <1>3, FreshSame

LEMMA FreshIdle ==
  ASSUME SessionInv, FreshInv, NEW c \in Calls, call' = [call EXCEPT ![c] = Idle], now' = now
  PROVE  FreshInv' /\ SendsFresh
<1>1. Idle.at = "idle"
  BY DEF Idle
<1> QED
  BY <1>1, FreshChange DEF Fresh

LEMMA FreshReceive ==
  ASSUME SessionInv, FreshInv, NEW c \in Calls, Receive(c)
  PROVE  FreshInv' /\ SendsFresh
<1>1. now' = now /\ call[c].at = "answered" /\ call[c] \in CallRecord /\ Fresh(call[c])
  BY DEF Receive, SessionInv, QueueOK, FreshInv
<1>2. CASE call' = [call EXCEPT ![c] = Idle]
  BY <1>1, <1>2, FreshIdle
<1>3. CASE call' = [call EXCEPT ![c].at = "write"]
  <2> DEFINE r == [call[c] EXCEPT !.at = "write"]
  <2>1. r.at = "write" /\ r.arg = call[c].arg /\ r.aged = call[c].aged /\ call' = [call EXCEPT ![c] = r]
    BY <1>1, <1>3 DEF CallRecord
  <2> HIDE DEF r
  <2>2. Fresh(r)
    BY <1>1, <2>1 DEF Fresh
  <2> QED
    BY <1>1, <2>1, <2>2, FreshChange
<1> QED
  BY <1>2, <1>3 DEF Receive

(* What a call that has written finds was written by one that writes.      *)
LEMMA TokenWritten ==
  ASSUME SessionInv, StoredInv, queue # <<>>, Head(queue).key = 3
  PROVE  \E i \in DOMAIN queue : prefs.token = queue[i].pair.token
<1>1. PICK p1 \in Prefs, p2 \in Prefs, p3 \in Prefs, base \in Prefs : StoredAs(p1, p2, p3, base)
  BY DEF StoredInv
<1>2. 1 \in DOMAIN queue /\ queue[1].key = 3
  BY TailEntries DEF SessionInv
<1>3. \E i \in DOMAIN queue : p3 = queue[i].pair
  BY <1>1, <1>2 DEF StoredAs, Top
<1>4. \E i \in DOMAIN queue : p2 = queue[i].pair
  BY <1>1, <1>3 DEF StoredAs, Top
<1>5. \E i \in DOMAIN queue : p1 = queue[i].pair
  BY <1>1, <1>4 DEF StoredAs, Top
<1> QED
  BY <1>1, <1>5 DEF StoredAs

(* A call that has written finds a token that has not expired, or none.    *)
LEMMA FreshStored ==
  ASSUME SessionInv, StoredInv, FreshInv, queue # <<>>, Head(queue).key = 3, prefs.token # None
  PROVE  prefs.token.exp > now
<1>1. PICK i \in DOMAIN queue : prefs.token = queue[i].pair.token
  BY TokenWritten
<1> DEFINE r == call[queue[i].call]
<1>2. r.at = "write" /\ r.arg = queue[i].pair /\ r \in CallRecord /\ Fresh(r)
  BY QueueEntry DEF SessionInv, QueueOK, FreshInv
<1>3. queue[i].pair # Empty
  BY <1>1 DEF Empty
<1> HIDE DEF r
<1>4. prefs.token.exp > now + (IF r.aged THEN 0 ELSE 1)
  BY <1>1, <1>2, <1>3 DEF Fresh
<1>5. prefs.token.exp \in Nat /\ now \in Nat
  BY StoredTyped, SessionsAssumption DEF SessionsAssumption, SessionInv, ServerTypeOK, Token
<1> QED
  BY <1>4, <1>5

LEMMA FreshWritten ==
  ASSUME SessionInv, StoredInv, FreshInv, Written
  PROVE  FreshInv' /\ SendsFresh
<1>1. now' = now
  BY DEF Written
<1>2. CASE UNCHANGED appVars
  BY <1>1, <1>2, FreshSame DEF appVars
<1>3. CASE Head(queue).key + 1 > 3 /\ Finish(Head(queue).call)
  <2> DEFINE c == Head(queue).call
  <2>1. queue # <<>> /\ c \in Calls /\ Head(queue).key \in 1 .. 3
    BY TailEntries, QueueEntry DEF Written, SessionInv
  <2>2. Head(queue).key = 3
    BY <1>3, <2>1
  <2>3. call' = [call EXCEPT ![c] = After(c)]
    BY <1>3 DEF Finish
  <2> HIDE DEF c
  <2>4. /\ After(c).at \in {"idle", "send"}
        /\ After(c).at = "send" => prefs.token # None /\ After(c).arg = prefs.token
    BY <2>1, AfterTyped
  <2>5. After(c).at = "send" => After(c).arg.exp > now
    BY <2>1, <2>2, <2>4, FreshStored
  <2>6. Fresh(After(c))
    BY <2>4 DEF Fresh
  <2> QED
    BY <1>1, <2>1, <2>3, <2>5, <2>6, FreshChange
<1> QED
  BY <1>2, <1>3 DEF Written, Following

LEMMA FreshTick ==
  ASSUME SessionInv, FreshInv, Tick
  PROVE  FreshInv' /\ SendsFresh
<1> SUFFICES ASSUME NEW c \in Calls
             PROVE  Fresh(call[c])' /\ call'[c].at = call[c].at
  BY DEF FreshInv, SendsFresh
<1>1. /\ call[c] \in CallRecord /\ Typed(call[c]) /\ Fresh(call[c]) /\ ~call[c].aged
      /\ call'[c] = IF call[c] = Idle THEN Idle ELSE [call[c] EXCEPT !.aged = TRUE]
      /\ now' = now + 1 /\ now \in Nat
  BY SessionsAssumption
  DEF SessionsAssumption, SessionInv, QueueOK, ServerTypeOK, FreshInv, Tick
<1>2. CASE call[c] = Idle
  BY <1>1, <1>2 DEF Idle, Fresh
<1>3. CASE call[c] # Idle
  <2>1. call'[c].at = call[c].at /\ call'[c].arg = call[c].arg /\ call'[c].aged = TRUE
    BY <1>1, <1>3 DEF CallRecord
  <2>2. call[c].at \in {"answered", "write"} /\ call[c].arg # Empty => call[c].arg.token.exp > now + 1
    BY <1>1 DEF Fresh
  <2>3. now + 1 = now' + 0
    BY <1>1
  <2> QED
    BY <2>1, <2>2, <2>3 DEF Fresh
<1> QED
  BY <1>2, <1>3

LEMMA FreshStop ==
  ASSUME SessionInv, Stop
  PROVE  FreshInv' /\ SendsFresh
<1>1. \A c \in Calls : call'[c].at = "idle"
  BY DEF Stop, Idle
<1> QED
  BY <1>1 DEF FreshInv, Fresh, SendsFresh

LEMMA NextFresh == SessionInv /\ StoredInv /\ FreshInv /\ [Next]_vars => FreshInv' /\ SendsFresh
<1> SUFFICES ASSUME SessionInv, StoredInv, FreshInv, [Next]_vars PROVE FreshInv' /\ SendsFresh
  OBVIOUS
<1>1. ASSUME NEW c \in Calls, GiveUp(c) PROVE FreshInv' /\ SendsFresh
  BY <1>1, FreshIdle DEF GiveUp
<1>2. ASSUME Administer \/ Crowd \/ Start \/ UNCHANGED vars PROVE UNCHANGED <<call, now>>
  BY <1>2 DEF Administer, Crowd, Start, vars, appVars
<1> QED
  BY <1>1, <1>2, FreshServer, FreshReceive, FreshBegins, FreshSame, FreshStop, FreshWritten, FreshTick
  DEF Next

(***************************************************************************)
(* A request never goes out with an expired token, although another call   *)
(* may have replaced or removed the tokens while it refreshed its own.     *)
(***************************************************************************)
THEOREM FreshHeadersTheorem == Spec => FreshHeaders
<1>1. Init => FreshInv
  BY DEF Init, Idle, FreshInv, Fresh
<1>2. SessionInv /\ StoredInv /\ FreshInv /\ [Next]_vars => [SendsFresh]_vars
  BY NextFresh
<1>3. Spec => [][SendsFresh]_vars
  BY <1>1, <1>2, InitTyped, NextTyped, InitStored, NextStored, NextFresh, PTL DEF Spec
<1> QED
  BY <1>3 DEF FreshHeaders, SendsFresh

-----------------------------------------------------------------------------
\* The write that will be answered last: of those that have the furthest to
\* go, the last in the queue.
Newest(q, i) ==
  i \in DOMAIN q /\ \A j \in DOMAIN q : q[j].key > q[i].key \/ (q[j].key = q[i].key /\ j <= i)

NoSession(token) == token = None \/ token.exp <= now

\* Nothing runs before the app, or after it.
OffInv == gate = "off" => ~session /\ ~told /\ \A c \in Calls : call[c].at = "idle"

\* Behind the spinner there is only the check, which renews a token that has
\* expired or forgets it.
LoadingInv ==
  gate = "loading" =>
    /\ ~session
    /\ told => \A c \in Calls : call[c].at = "idle"
    /\ ~told => \E c \in Calls :
         /\ call[c].kind = "check" /\ call[c].at \in {"ask", "found", "answered", "write"}
         /\ call[c].at # "write" => NoSession(prefs.token)
         /\ \A d \in Calls : d # c => call[d].at = "idle"

\* No check runs once the gate has decided; if it is told to look again, it
\* finds nothing, or a token that will do.
DecidedInv ==
  gate \in {"login", "main"} =>
    /\ \A c \in Calls : call[c].kind # "check"
    /\ told => prefs.token = None \/ prefs.token.exp > now

\* At the login screen, a session that is still announced is being removed;
\* and a token that would do was written by a call that will announce it, or
\* has announced it already, unless such a removal comes first.
LoginInv ==
  gate = "login" /\ ~told =>
    /\ session => \E i \in DOMAIN queue : queue[i].pair = Empty
    /\ NoSession(prefs.token) \/ \E i \in DOMAIN queue : Newest(queue, i) /\ queue[i].pair # Empty

IdleInv == \A c \in Calls : call[c].at = "idle" => call[c].kind = "none"

GateInv == IdleInv /\ OffInv /\ LoadingInv /\ DecidedInv /\ LoginInv

LEMMA KeyRange ==
  ASSUME NEW q \in Seq(Write), NEW j \in DOMAIN q
  PROVE  q[j].key \in 1 .. 3
<1>1. q[j] \in Write
  OBVIOUS
<1> QED
  BY <1>1 DEF Write

LEMMA NewestAppended ==
  ASSUME NEW q \in Seq(Write), NEW w \in Write, w.key = 1
  PROVE  Newest(Append(q, w), Len(q) + 1)
<1> DEFINE r == Append(q, w)
           n == Len(q) + 1
<1>1. /\ n \in Nat /\ DOMAIN r = 1 .. n /\ n \in DOMAIN r /\ r[n] = w /\ DOMAIN q = 1 .. n - 1
      /\ \A i \in 1 .. n - 1 : r[i] = q[i] /\ q[i] \in Write
  BY AppendEntries
<1> HIDE DEF r, n
<1>2. \A j \in DOMAIN r : r[j].key \in 1 .. 3 /\ j <= n
  <2> TAKE j \in DOMAIN r
  <2>1. r[j] \in Write
    BY <1>1
  <2> QED
    BY <1>1, <2>1 DEF Write
<1>3. \A j \in DOMAIN r : r[j].key > r[n].key \/ (r[j].key = r[n].key /\ j <= n)
  BY <1>1, <1>2
<1>4. Newest(r, n)
  BY <1>1, <1>3 DEF Newest
<1> QED
  BY <1>4 DEF r, n

(* The head goes to the end with the next key.                             *)
LEMMA NewestTurns ==
  ASSUME NEW q \in Seq(Write), q # <<>>, NEW w \in Write, w.key = Head(q).key + 1,
         w.pair = Head(q).pair, NEW i \in DOMAIN q, Newest(q, i)
  PROVE  \E j \in DOMAIN Append(Tail(q), w) :
           Newest(Append(Tail(q), w), j) /\ Append(Tail(q), w)[j].pair = q[i].pair
<1> DEFINE r == Append(Tail(q), w)
           n == Len(q)
<1>1. /\ n \in Nat \ {0} /\ DOMAIN q = 1 .. n /\ DOMAIN r = 1 .. n /\ r[n] = w /\ Head(q) = q[1]
      /\ \A j \in 1 .. n - 1 : j + 1 \in DOMAIN q /\ r[j] = q[j + 1]
  <2>1. Tail(q) \in Seq(Write) /\ Len(Tail(q)) = n - 1 /\ n \in Nat \ {0} /\ DOMAIN q = 1 .. n
        /\ Head(q) = q[1] /\ \A j \in 1 .. n - 1 : j + 1 \in DOMAIN q /\ Tail(q)[j] = q[j + 1]
    OBVIOUS
  <2> HIDE DEF n
  <2>2. /\ DOMAIN r = 1 .. Len(Tail(q)) + 1 /\ r[Len(Tail(q)) + 1] = w
        /\ \A j \in 1 .. Len(Tail(q)) : r[j] = Tail(q)[j]
    BY <2>1, AppendEntries
  <2>3. Len(Tail(q)) + 1 = n
    BY <2>1
  <2> HIDE DEF r
  <2> QED
    BY <2>1, <2>2, <2>3
<1>2. \A j \in DOMAIN q : q[j].key \in 1 .. 3
  BY KeyRange
<1>3. w.key = q[1].key + 1 /\ w.pair = q[1].pair /\ 1 \in DOMAIN q
  BY <1>1
<1> HIDE DEF r, n
<1>4. CASE i = 1
  <2>1. \A j \in DOMAIN r : r[j].key > w.key \/ (r[j].key = w.key /\ j <= n)
    <3> TAKE j \in DOMAIN r
    <3>1. CASE j = n
      BY <1>1, <1>2, <1>3, <3>1
    <3>2. CASE j # n
      <4>1. j \in 1 .. n - 1 /\ j + 1 \in DOMAIN q /\ r[j] = q[j + 1] /\ j + 1 > 1
        BY <1>1, <3>2
      <4>2. q[j + 1].key > q[1].key
        BY <1>4, <4>1 DEF Newest
      <4> QED
        BY <1>1, <1>2, <1>3, <4>1, <4>2
    <3> QED
      BY <3>1, <3>2
  <2>2. n \in DOMAIN r
    BY <1>1
  <2>3. Newest(r, n)
    BY <1>1, <2>1, <2>2 DEF Newest
  <2> QED
    BY <1>1, <1>3, <1>4, <2>2, <2>3 DEF r
<1>5. CASE i # 1
  <2>1. i - 1 \in DOMAIN r /\ i - 1 \in 1 .. n - 1 /\ r[i - 1] = q[i]
    BY <1>1, <1>5
  <2>2. \A j \in DOMAIN r : r[j].key > q[i].key \/ (r[j].key = q[i].key /\ j <= i - 1)
    <3> TAKE j \in DOMAIN r
    <3>1. CASE j = n
      <4>1. q[1].key >= q[i].key
        BY <1>2, <1>3 DEF Newest
      <4> QED
        BY <1>1, <1>2, <1>3, <3>1, <4>1
    <3>2. CASE j # n
      <4>1. j \in 1 .. n - 1 /\ j + 1 \in DOMAIN q /\ r[j] = q[j + 1]
        BY <1>1, <3>2
      <4>2. q[j + 1].key > q[i].key \/ (q[j + 1].key = q[i].key /\ j + 1 <= i)
        BY <4>1 DEF Newest
      <4> QED
        BY <1>1, <4>1, <4>2
    <3> QED
      BY <3>1, <3>2
  <2>3. Newest(r, i - 1)
    BY <2>1, <2>2 DEF Newest
  <2> QED
    BY <2>1, <2>3 DEF r
<1> QED
  BY <1>4, <1>5

(* The head has written its last key.                                      *)
LEMMA NewestStays ==
  ASSUME NEW q \in Seq(Write), q # <<>>, Head(q).key = 3, NEW i \in DOMAIN q, Newest(q, i)
  PROVE  \/ i = 1 /\ DOMAIN q = {1}
         \/ \E j \in DOMAIN Tail(q) : Newest(Tail(q), j) /\ Tail(q)[j].pair = q[i].pair
<1> DEFINE r == Tail(q)
           n == Len(q)
<1>1. /\ n \in Nat \ {0} /\ DOMAIN q = 1 .. n /\ DOMAIN r = 1 .. n - 1 /\ Head(q) = q[1]
      /\ \A j \in 1 .. n - 1 : j + 1 \in DOMAIN q /\ r[j] = q[j + 1]
  OBVIOUS
<1>2. \A j \in DOMAIN q : q[j].key \in 1 .. 3
  BY KeyRange
<1>3. q[1].key = 3 /\ 1 \in DOMAIN q
  BY <1>1
<1> HIDE DEF r, n
<1>4. CASE i = 1
  <2>1. \A j \in DOMAIN q : j <= 1
    BY <1>2, <1>3, <1>4 DEF Newest
  <2> QED
    BY <1>1, <1>4, <2>1
<1>5. CASE i # 1
  <2>1. i - 1 \in DOMAIN r /\ r[i - 1] = q[i]
    BY <1>1, <1>5
  <2>2. \A j \in DOMAIN r : r[j].key > q[i].key \/ (r[j].key = q[i].key /\ j <= i - 1)
    <3> TAKE j \in DOMAIN r
    <3>1. j + 1 \in DOMAIN q /\ r[j] = q[j + 1]
      BY <1>1
    <3>2. q[j + 1].key > q[i].key \/ (q[j + 1].key = q[i].key /\ j + 1 <= i)
      BY <3>1 DEF Newest
    <3> QED
      BY <1>1, <3>1, <3>2
  <2>3. Newest(r, i - 1)
    BY <2>1, <2>2 DEF Newest
  <2> QED
    BY <2>1, <2>3 DEF r
<1> QED
  BY <1>4, <1>5


-----------------------------------------------------------------------------
LEMMA GateSame ==
  ASSUME GateInv, UNCHANGED <<now, prefs, queue, session, told, gate, call>>
  PROVE  GateInv'
<1>1. IdleInv' /\ OffInv'
  BY DEF GateInv, IdleInv, OffInv
<1>2. LoadingInv'
  BY DEF GateInv, LoadingInv, NoSession
<1>3. DecidedInv'
  BY DEF GateInv, DecidedInv
<1>4. LoginInv'
  BY DEF GateInv, LoginInv, NoSession, Newest
<1> QED
  BY <1>1, <1>2, <1>3, <1>4 DEF GateInv

(* The login screen stays, with the same preferences and queue.            *)
LEMMA LoginSame ==
  ASSUME LoginInv, UNCHANGED <<now, prefs, queue, session, told, gate>>
  PROVE  LoginInv'
  BY DEF LoginInv, NoSession, Newest

(* Behind the spinner no call but the check waits for anything.            *)
LEMMA OnlyCheck ==
  ASSUME GateInv, gate = "loading", ~told, NEW c \in Calls, call[c].at # "idle"
  PROVE  /\ call[c].kind = "check" /\ call[c].at \in {"ask", "found", "answered", "write"} /\ ~session
         /\ call[c].at # "write" => NoSession(prefs.token)
         /\ \A d \in Calls : d # c => call[d].at = "idle"
  BY DEF GateInv, LoadingInv

LEMMA Running ==
  ASSUME SessionInv, GateInv, NEW c \in Calls, call[c].at # "idle"
  PROVE  gate = "loading" \/ (gate \in {"login", "main"} /\ call[c].kind # "check")
  BY DEF GateInv, OffInv, DecidedInv, SessionInv, AppTypeOK

LEMMA ServerShape ==
  ASSUME SessionInv, NEW c \in Calls, Server(c)
  PROVE  /\ call[c].at \in {"ask", "found", "send"} /\ call'[c].at \in {"found", "answered"}
         /\ call'[c].kind = call[c].kind
         /\ \A d \in Calls : d # c => call'[d] = call[d]
         /\ UNCHANGED <<now, prefs, queue, session, told, gate>>
<1>1. call[c] \in CallRecord /\ call \in [Calls -> CallRecord]
  BY DEF SessionInv, QueueOK
<1>2. call[c].at \in {"ask", "found", "send"} /\ \E x : Respond(c, x) \/ Found(c, x)
  BY DEF Server, Reject, ServeLogin, ServeRefresh, ServePair, ServeDelete
<1> QED
  BY <1>1, <1>2 DEF Respond, Found, storeVars, CallRecord

LEMMA GateServer ==
  ASSUME SessionInv, GateInv, ~told, NEW c \in Calls, Server(c)
  PROVE  GateInv'
<1>1. /\ call[c].at \in {"ask", "found", "send"} /\ call'[c].at \in {"found", "answered"}
      /\ call'[c].kind = call[c].kind
      /\ \A d \in Calls : d # c => call'[d] = call[d]
      /\ UNCHANGED <<now, prefs, queue, session, told, gate>>
  BY ServerShape
<1>2. IdleInv' /\ LoginInv'
  BY <1>1, LoginSame DEF GateInv, IdleInv
<1>3. gate = "loading" \/ (gate \in {"login", "main"} /\ call[c].kind # "check")
  BY <1>1, Running
<1>4. CASE gate = "loading"
  <2>1. /\ call[c].kind = "check" /\ call[c].at # "write" /\ ~session /\ NoSession(prefs.token)
        /\ \A d \in Calls : d # c => call[d].at = "idle"
    BY <1>1, <1>4, OnlyCheck
  <2>2. LoadingInv'
    BY <1>1, <1>4, <2>1 DEF LoadingInv, NoSession
  <2> QED
    BY <1>1, <1>2, <1>4, <2>2 DEF GateInv, OffInv, DecidedInv
<1>5. CASE gate \in {"login", "main"}
  <2>1. DecidedInv'
    BY <1>1, <1>5 DEF GateInv, DecidedInv
  <2> QED
    BY <1>1, <1>2, <1>5, <2>1 DEF GateInv, OffInv, LoadingInv
<1> QED
  BY <1>3, <1>4, <1>5

LEMMA GateTick ==
  ASSUME SessionInv, GateInv, ~told, Tick
  PROVE  GateInv'
<1>1. \A c \in Calls : call'[c].at = call[c].at /\ call'[c].kind = call[c].kind
  <2> TAKE c \in Calls
  <2>1. /\ call[c] \in CallRecord
        /\ call'[c] = IF call[c] = Idle THEN Idle ELSE [call[c] EXCEPT !.aged = TRUE]
    BY DEF SessionInv, QueueOK, Tick
  <2> QED
    BY <2>1 DEF CallRecord
<1>2. UNCHANGED <<prefs, queue, session, told, gate>> /\ now' = now + 1 /\ now \in Nat
  BY SessionsAssumption
  DEF SessionsAssumption, Tick, storeVars, SessionInv, ServerTypeOK
<1>3. NoSession(prefs.token) => NoSession(prefs.token)'
  BY <1>2, StoredTyped DEF NoSession, SessionInv, Token
<1>4. IdleInv' /\ OffInv' /\ DecidedInv'
  BY <1>1, <1>2 DEF GateInv, IdleInv, OffInv, DecidedInv
<1>5. LoadingInv'
  BY <1>1, <1>2, <1>3 DEF GateInv, LoadingInv
<1>6. LoginInv'
  BY <1>2, <1>3 DEF GateInv, LoginInv, Newest
<1> QED
  BY <1>4, <1>5, <1>6 DEF GateInv

LEMMA GateStartStop ==
  ASSUME SessionInv, GateInv, Start \/ Stop
  PROVE  GateInv'
<1>1. CASE Start
  <2>1. /\ gate = "off" /\ gate' = "loading" /\ told' /\ UNCHANGED <<session, call>>
    BY <1>1 DEF Start
  <2> QED
    BY <2>1 DEF GateInv, IdleInv, OffInv, LoadingInv, DecidedInv, LoginInv
<1>2. CASE Stop
  <2>1. gate' = "off" /\ ~session' /\ ~told' /\ call' = [c \in Calls |-> Idle]
    BY <1>2 DEF Stop
  <2>2. \A c \in Calls : call'[c].at = "idle" /\ call'[c].kind = "none"
    BY <2>1 DEF Idle
  <2> QED
    BY <2>1, <2>2 DEF GateInv, IdleInv, OffInv, LoadingInv, DecidedInv, LoginInv
<1> QED
  BY <1>1, <1>2

(* The user begins something at the screen the gate shows.                 *)
LEMMA GateBegins ==
  ASSUME SessionInv, GateInv, ~told, Login \/ Logout \/ Request
  PROVE  GateInv'
<1>1. UNCHANGED <<now, session, told, gate>> /\ gate \in {"login", "main"}
  BY DEF Login, Logout, Request
<1>2. PICK c \in Free : \E kind \in {"login", "logout", "api", "delete"},
                           at \in {"ask", "write", "send"} :
        \E arg : call' = [call EXCEPT ![c] = Do(kind, at, arg)]
  BY DEF Login, Logout, Request
<1>3. call \in [Calls -> CallRecord] /\ c \in Calls
  BY DEF SessionInv, QueueOK, Free
<1>4. /\ call'[c].kind # "check" /\ call'[c].at # "idle"
      /\ \A d \in Calls : d # c => call'[d] = call[d]
  BY <1>2, <1>3 DEF Do
<1>5. IdleInv' /\ DecidedInv'
  BY <1>1, <1>4 DEF GateInv, IdleInv, DecidedInv
<1>6. LoginInv'
  <2>1. CASE gate = "login"
    <3>1. UNCHANGED <<prefs, queue>>
      BY <2>1 DEF Login, Logout, Request, storeVars
    <3> QED
      BY <1>1, <3>1, LoginSame DEF GateInv
  <2>2. CASE gate = "main"
    BY <1>1, <2>2 DEF LoginInv
  <2> QED
    BY <1>1, <2>1, <2>2
<1> QED
  BY <1>1, <1>5, <1>6 DEF GateInv, OffInv, LoadingInv

LEMMA GateGiveUp ==
  ASSUME SessionInv, GateInv, ~told, NEW c \in Calls, GiveUp(c)
  PROVE  GateInv'
<1>1. call \in [Calls -> CallRecord] /\ call[c].at \in {"ask", "found", "send", "answered"}
  BY DEF SessionInv, QueueOK, GiveUp, WaitsForServer
<1>2. /\ call'[c].at = "idle" /\ call'[c].kind = "none" /\ \A d \in Calls : d # c => call'[d] = call[d]
      /\ UNCHANGED <<now, prefs, queue, session, told>>
      /\ gate' = IF call[c].kind = "check" THEN "login" ELSE gate
  BY <1>1 DEF GiveUp, Thrown, Idle, storeVars
<1>3. IdleInv'
  BY <1>2 DEF GateInv, IdleInv
<1>4. gate = "loading" \/ (gate \in {"login", "main"} /\ call[c].kind # "check")
  BY <1>1, Running
<1>5. CASE gate = "loading"
  <2>1. /\ call[c].kind = "check" /\ ~session /\ NoSession(prefs.token)
        /\ \A d \in Calls : d # c => call[d].at = "idle"
    BY <1>1, <1>5, OnlyCheck
  <2>2. gate' = "login" /\ ~session' /\ NoSession(prefs.token)' /\ ~told'
    BY <1>2, <2>1 DEF NoSession
  <2>3. \A d \in Calls : call'[d].kind = "none"
    BY <1>2, <2>1 DEF GateInv, IdleInv
  <2> QED
    BY <1>3, <2>2, <2>3 DEF GateInv, OffInv, LoadingInv, DecidedInv, LoginInv
<1>6. CASE gate \in {"login", "main"} /\ call[c].kind # "check"
  <2>1. LoginInv'
    BY <1>2, <1>6, LoginSame DEF GateInv
  <2>2. DecidedInv'
    BY <1>2, <1>6 DEF GateInv, DecidedInv
  <2> QED
    BY <1>2, <1>3, <1>6, <2>1, <2>2 DEF GateInv, OffInv, LoadingInv
<1> QED
  BY <1>4, <1>5, <1>6


(* A write begins at the login screen.                                     *)
LEMMA LoginPut ==
  ASSUME SessionInv, LoginInv, NEW c \in Calls, NEW pair, Storable(pair), Put(c, 1, pair),
         UNCHANGED <<now, session, told, gate>>
  PROVE  LoginInv'
<1> SUFFICES ASSUME gate = "login", ~told
             PROVE  /\ session => \E i \in DOMAIN queue' : queue'[i].pair = Empty
                    /\ \/ NoSession(prefs'.token)
                       \/ \E i \in DOMAIN queue' : Newest(queue', i) /\ queue'[i].pair # Empty
  BY DEF LoginInv, NoSession
<1> DEFINE w == [call |-> c, key |-> 1, pair |-> pair]
           n == Len(queue) + 1
<1>1. queue \in Seq(Write) /\ w \in Write /\ w.key = 1 /\ w.pair = pair
  BY DEF SessionInv, QueueOK, Write, Storable
<1>2. queue' = Append(queue, w)
  BY DEF Put
<1> HIDE DEF w
<1>3. /\ DOMAIN queue' = 1 .. n /\ n \in DOMAIN queue' /\ queue'[n] = w
      /\ \A i \in DOMAIN queue : i \in DOMAIN queue' /\ queue'[i] = queue[i]
  <2>1. /\ DOMAIN Append(queue, w) = 1 .. n /\ Append(queue, w)[n] = w /\ Len(queue) \in Nat
        /\ DOMAIN queue = 1 .. Len(queue) /\ \A i \in 1 .. Len(queue) : Append(queue, w)[i] = queue[i]
    BY <1>1, AppendEntries
  <2> QED
    BY <1>2, <2>1
<1>4. session => \E i \in DOMAIN queue' : queue'[i].pair = Empty
  BY <1>3 DEF LoginInv
<1>5. Newest(queue', n)
  BY <1>1, <1>2, NewestAppended
<1>6. prefs'.token = pair.token
  <2>1. prefs' = [prefs EXCEPT !["token"] = pair["token"]] /\ prefs \in Prefs
    BY KeyNames DEF Put, SessionInv, StoreTypeOK
  <2> QED
    BY <2>1 DEF Prefs
<1>7. CASE pair = Empty
  <2>1. prefs'.token = None
    BY <1>6, <1>7 DEF Empty
  <2> QED
    BY <1>4, <2>1 DEF NoSession
<1>8. CASE pair # Empty
  BY <1>1, <1>3, <1>4, <1>5, <1>8
<1> QED
  BY <1>7, <1>8

LEMMA GateReceive ==
  ASSUME SessionInv, GateInv, ~told, NEW c \in Calls, Receive(c)
  PROVE  GateInv'
<1>1. /\ call \in [Calls -> CallRecord] /\ call[c].at = "answered" /\ Storable(call[c].arg)
      /\ UNCHANGED <<now, session, told, gate>>
  BY DEF SessionInv, QueueOK, Typed, Receive
<1>2. \/ /\ call[c].kind = "login" /\ call'[c] = Idle /\ UNCHANGED <<prefs, queue>>
         /\ \A d \in Calls : d # c => call'[d] = call[d]
      \/ /\ call'[c].at = "write" /\ call'[c].kind = call[c].kind /\ Put(c, 1, call[c].arg)
         /\ \A d \in Calls : d # c => call'[d] = call[d]
  BY <1>1 DEF Receive, CallRecord
<1>3. Idle.at = "idle" /\ Idle.kind = "none"
  BY DEF Idle
<1>4. IdleInv'
  BY <1>2, <1>3 DEF GateInv, IdleInv
<1>5. LoginInv'
  BY <1>1, <1>2, LoginPut, LoginSame DEF GateInv
<1>6. gate = "loading" \/ (gate \in {"login", "main"} /\ call[c].kind # "check")
  BY <1>1, Running
<1>7. CASE gate = "loading"
  <2>1. call[c].kind = "check" /\ ~session /\ \A d \in Calls : d # c => call[d].at = "idle"
    BY <1>1, <1>7, OnlyCheck
  <2>2. LoadingInv'
    BY <1>1, <1>2, <1>7, <2>1 DEF LoadingInv
  <2> QED
    BY <1>1, <1>4, <1>5, <1>7, <2>2 DEF GateInv, OffInv, DecidedInv
<1>8. CASE gate \in {"login", "main"} /\ call[c].kind # "check"
  <2>1. DecidedInv'
    BY <1>1, <1>2, <1>3, <1>8 DEF GateInv, DecidedInv
  <2> QED
    BY <1>1, <1>4, <1>5, <1>8, <2>1 DEF GateInv, OffInv, LoadingInv
<1> QED
  BY <1>6, <1>7, <1>8

(* While a session is announced, its token is missing only if somebody is  *)
(* removing it.                                                            *)
LEMMA TokenRemoved ==
  ASSUME SessionInv, StoredInv, session, prefs.token = None
  PROVE  \E i \in DOMAIN queue : queue[i].pair = Empty
<1>1. PICK p1 \in Prefs, p2 \in Prefs, p3 \in Prefs, base \in Prefs : StoredAs(p1, p2, p3, base)
  BY DEF StoredInv
<1>2. p1.token = None /\ base.token # None
  BY <1>1 DEF StoredAs, Whole
<1>3. p1 = base \/ \E i \in DOMAIN queue : p1 = queue[i].pair
  BY <1>1 DEF StoredAs, Top
<1>4. PICK i \in DOMAIN queue : p1 = queue[i].pair
  BY <1>2, <1>3
<1>5. Storable(p1)
  BY <1>4, QueueEntry DEF SessionInv
<1> QED
  BY <1>2, <1>4, <1>5 DEF Storable, Whole

LEMMA GateCheck ==
  ASSUME SessionInv, StoredInv, GateInv, Check
  PROVE  GateInv'
<1>1. told /\ ~told' /\ UNCHANGED <<now, session>>
  BY DEF Check
<1>2. gate \in {"loading", "login", "main"}
  BY <1>1 DEF GateInv, OffInv, SessionInv, AppTypeOK
<1>3. CASE prefs.token = None /\ gate' = "login" /\ UNCHANGED <<prefs, queue, call>>
  <2>1. \A c \in Calls : call[c].kind # "check"
    BY <1>1, <1>2 DEF GateInv, IdleInv, LoadingInv, DecidedInv
  <2>2. session => \E i \in DOMAIN queue : queue[i].pair = Empty
    BY <1>3, TokenRemoved
  <2>3. NoSession(prefs.token)'
    BY <1>3 DEF NoSession
  <2>4. LoginInv'
    BY <1>1, <1>3, <2>2, <2>3 DEF LoginInv
  <2> QED
    BY <1>1, <1>3, <2>1, <2>4 DEF GateInv, IdleInv, OffInv, LoadingInv, DecidedInv
<1>4. CASE gate' = "main" /\ UNCHANGED <<prefs, queue, call>>
  <2>1. \A c \in Calls : call[c].kind # "check"
    BY <1>1, <1>2 DEF GateInv, IdleInv, LoadingInv, DecidedInv
  <2> QED
    BY <1>1, <1>4, <2>1 DEF GateInv, IdleInv, OffInv, LoadingInv, DecidedInv, LoginInv
<1>5. ASSUME prefs.token # None, ~Current(prefs.token), UNCHANGED gate,
             NEW c \in Free, NEW at \in {"ask", "write"}, NEW arg,
             call' = [call EXCEPT ![c] = Do("check", at, arg)],
             at = "ask" => UNCHANGED prefs
      PROVE  GateInv'
  <2>1. prefs.token.exp \in Nat /\ now \in Nat /\ prefs.token.exp <= now
    BY <1>5, StoredTyped, SessionsAssumption
    DEF SessionsAssumption, SessionInv, ServerTypeOK, Token, Current, Expired
  <2>2. gate = "loading"
    BY <1>1, <1>2, <1>5, <2>1 DEF GateInv, DecidedInv
  <2>3. ~session /\ \A d \in Calls : call[d].at = "idle"
    BY <1>1, <2>2 DEF GateInv, LoadingInv
  <2>4. c \in Calls /\ call \in [Calls -> CallRecord]
    BY DEF Free, SessionInv, QueueOK
  <2>5. /\ call'[c].kind = "check" /\ call'[c].at = at
        /\ \A d \in Calls : d # c => call'[d] = call[d]
    BY <1>5, <2>4 DEF Do
  <2>6. LoadingInv'
    <3>1. at # "write" => NoSession(prefs.token)'
      BY <1>1, <1>5, <2>1 DEF NoSession
    <3> QED
      BY <1>1, <1>5, <2>2, <2>3, <2>4, <2>5, <3>1 DEF LoadingInv
  <2>7. IdleInv'
    BY <2>5 DEF GateInv, IdleInv
  <2> QED
    BY <1>5, <2>2, <2>6, <2>7 DEF GateInv, OffInv, DecidedInv, LoginInv
<1>6. \/ prefs.token = None /\ gate' = "login" /\ UNCHANGED <<prefs, queue, call>>
      \/ gate' = "main" /\ UNCHANGED <<prefs, queue, call>>
      \/ /\ prefs.token # None /\ ~Current(prefs.token) /\ UNCHANGED gate
         /\ \E c \in Free, at \in {"ask", "write"} : \E arg :
              /\ call' = [call EXCEPT ![c] = Do("check", at, arg)]
              /\ at = "ask" => UNCHANGED prefs
  BY DEF Check
<1> QED
  BY <1>3, <1>4, <1>5, <1>6

(* A call makes its next write.                                            *)
LEMMA GateNextWrite ==
  ASSUME SessionInv, GateInv, ~told, queue # <<>>, NEW k \in 2 .. 3, k = Head(queue).key + 1,
         UNCHANGED <<now, session, told, gate, call>>,
         prefs' = [prefs EXCEPT ![Keys[k]] = Head(queue).pair[Keys[k]]],
         queue' = Append(Tail(queue), [Head(queue) EXCEPT !.key = k])
  PROVE  GateInv'
<1> DEFINE w == [Head(queue) EXCEPT !.key = k]
           n == Len(queue)
<1>1. /\ queue \in Seq(Write) /\ Head(queue) \in Write /\ 1 \in DOMAIN queue /\ Head(queue) = queue[1]
      /\ call[queue[1].call].at = "write" /\ queue[1].call \in Calls
  BY TailEntries, QueueEntry DEF SessionInv, QueueOK
<1>2. w \in Write /\ w.key = Head(queue).key + 1 /\ w.pair = Head(queue).pair
      /\ queue' = Append(Tail(queue), w)
  BY <1>1 DEF Write
<1>3. prefs'.token = prefs.token
  <2>1. prefs \in Prefs /\ (Keys[k] = "refresh" \/ Keys[k] = "user")
    BY KeyNames DEF SessionInv, StoreTypeOK
  <2> QED
    BY <2>1 DEF Prefs
<1> HIDE DEF w
<1>4. LoadingInv'
  <2> SUFFICES ASSUME gate = "loading" PROVE LoadingInv'
    BY DEF LoadingInv
  <2>1. /\ call[queue[1].call].kind = "check" /\ ~session
        /\ \A d \in Calls : d # queue[1].call => call[d].at = "idle"
    BY <1>1, OnlyCheck
  <2> QED
    BY <1>1, <2>1 DEF LoadingInv
<1>5. ASSUME NEW i \in DOMAIN queue
      PROVE  \E j \in DOMAIN queue' : queue'[j].pair = queue[i].pair
  <2>1. /\ n \in Nat \ {0} /\ DOMAIN queue = 1 .. n /\ Tail(queue) \in Seq(Write) /\ Len(Tail(queue)) = n - 1
        /\ \A j \in 1 .. n - 1 : Tail(queue)[j] = queue[j + 1]
    BY TailEntries DEF SessionInv
  <2>2. /\ DOMAIN queue' = 1 .. (n - 1) + 1 /\ queue'[(n - 1) + 1] = w
        /\ \A j \in 1 .. n - 1 : queue'[j] = Tail(queue)[j]
    BY <1>2, <2>1, AppendEntries
  <2> HIDE DEF n
  <2>3. CASE i = 1
    <3>1. (n - 1) + 1 \in DOMAIN queue' /\ queue'[(n - 1) + 1].pair = queue[i].pair
      BY <1>1, <1>2, <2>1, <2>2, <2>3
    <3> QED
      BY <3>1
  <2>4. CASE i # 1
    <3>1. i - 1 \in 1 .. n - 1 /\ (i - 1) + 1 = i
      BY <2>1, <2>4
    <3>2. i - 1 \in DOMAIN queue' /\ queue'[i - 1] = queue[i]
      BY <2>1, <2>2, <3>1
    <3> QED
      BY <3>2
  <2> QED
    BY <2>3, <2>4
<1>6. ASSUME NEW i \in DOMAIN queue, Newest(queue, i)
      PROVE  \E j \in DOMAIN queue' : Newest(queue', j) /\ queue'[j].pair = queue[i].pair
  <2>1. \E j \in DOMAIN Append(Tail(queue), w) :
          Newest(Append(Tail(queue), w), j) /\ Append(Tail(queue), w)[j].pair = queue[i].pair
    BY <1>1, <1>2, <1>6, NewestTurns
  <2> QED
    BY <1>2, <2>1
<1>7. LoginInv'
  <2> SUFFICES ASSUME gate = "login"
               PROVE  /\ session => \E i \in DOMAIN queue' : queue'[i].pair = Empty
                      /\ \/ NoSession(prefs.token)
                         \/ \E i \in DOMAIN queue' : Newest(queue', i) /\ queue'[i].pair # Empty
    BY <1>3 DEF LoginInv, NoSession
  <2>1. session => \E i \in DOMAIN queue' : queue'[i].pair = Empty
    BY <1>5 DEF GateInv, LoginInv
  <2>2. \/ NoSession(prefs.token)
        \/ \E i \in DOMAIN queue' : Newest(queue', i) /\ queue'[i].pair # Empty
    BY <1>6 DEF GateInv, LoginInv
  <2> QED
    BY <2>1, <2>2
<1>8. IdleInv' /\ OffInv' /\ DecidedInv'
  BY <1>3 DEF GateInv, IdleInv, OffInv, DecidedInv
<1> QED
  BY <1>4, <1>7, <1>8 DEF GateInv


(* A call has made its last write.                                         *)
LEMMA GateLastWrite ==
  ASSUME SessionInv, StoredInv, FreshInv, GateInv, ~told, queue # <<>>, Head(queue).key = 3,
         UNCHANGED <<now, prefs>>, queue' = Tail(queue), Finish(Head(queue).call)
  PROVE  GateInv'
<1> DEFINE c == Head(queue).call
           pair == Head(queue).pair
           n == Len(queue)
<1>1. /\ queue \in Seq(Write) /\ 1 \in DOMAIN queue /\ c \in Calls /\ Head(queue) = queue[1]
      /\ call[c].at = "write" /\ call[c].arg = pair /\ call \in [Calls -> CallRecord]
  BY TailEntries, QueueEntry DEF SessionInv, QueueOK
<1>2. /\ session' = (pair # Empty) /\ told' = (session' # session)
      /\ gate' = IF call[c].kind # "check" THEN gate ELSE IF pair = Empty THEN "login" ELSE "main"
      /\ call' = [call EXCEPT ![c] = After(c)]
  BY <1>1 DEF Finish, Flag
<1>3. /\ call'[c] = After(c) /\ \A d \in Calls : d # c => call'[d] = call[d]
  BY <1>1, <1>2
<1>4. \/ After(c) = Idle
      \/ After(c).at = "send" /\ After(c).kind = call[c].kind /\ call[c].kind # "check"
  BY <1>1 DEF After, CallRecord
<1>5. Idle.at = "idle" /\ Idle.kind = "none"
  BY DEF Idle
<1>6. IdleInv'
  BY <1>3, <1>4, <1>5 DEF GateInv, IdleInv
<1>7. prefs'.token = None \/ prefs'.token.exp > now'
  BY FreshStored
<1>8. session \in BOOLEAN /\ session' \in BOOLEAN
  BY <1>2 DEF SessionInv, AppTypeOK
<1>9. gate = "loading" \/ (gate \in {"login", "main"} /\ call[c].kind # "check")
  BY <1>1, Running
<1> HIDE DEF c, pair
<1>10. session' <=> pair # Empty
  BY <1>2
<1>11. CASE gate = "loading"
  <2>1. call[c].kind = "check" /\ ~session /\ \A d \in Calls : d # c => call[d].at = "idle"
    BY <1>1, <1>11, OnlyCheck
  <2>2. \A d \in Calls : call'[d].kind = "none"
    BY <1>3, <1>4, <1>5, <2>1 DEF GateInv, IdleInv
  <2>3. gate' \in {"login", "main"} /\ (gate' = "login" => pair = Empty)
    BY <1>2, <2>1
  <2>4. pair = Empty => NoSession(prefs.token)'
    <3>1. \A i \in DOMAIN queue : queue[i].pair = pair
      <4> TAKE i \in DOMAIN queue
      <4>1. queue[i].call = c
        BY <2>1, QueueEntry DEF SessionInv
      <4> QED
        BY <1>1, <4>1, QueueEntry DEF SessionInv
    <3>2. prefs.token = pair.token
      BY <3>1, TokenWritten
    <3> QED
      BY <3>2 DEF NoSession, Empty
  <2>5. LoginInv'
    BY <1>2, <2>3, <2>4 DEF LoginInv
  <2>6. DecidedInv'
    BY <1>7, <2>2 DEF DecidedInv
  <2> QED
    BY <1>6, <2>3, <2>5, <2>6 DEF GateInv, OffInv, LoadingInv
<1>12. CASE gate \in {"login", "main"} /\ call[c].kind # "check"
  <2>1. gate' = gate
    BY <1>2, <1>12
  <2>2. DecidedInv'
    BY <1>3, <1>4, <1>5, <1>7, <1>12, <2>1 DEF GateInv, DecidedInv
  <2>3. ASSUME gate = "login", ~told'
        PROVE  /\ session' => \E i \in DOMAIN queue' : queue'[i].pair = Empty
               /\ \/ NoSession(prefs.token)'
                  \/ \E i \in DOMAIN queue' : Newest(queue', i) /\ queue'[i].pair # Empty
    <3>1. session' = session
      BY <1>2, <1>8, <2>3
    <3>2. session => \E i \in DOMAIN queue : i # 1 /\ queue[i].pair = Empty
      <4>1. session => pair # Empty
        BY <1>10, <3>1
      <4>2. session => \E i \in DOMAIN queue : queue[i].pair = Empty
        BY <2>3 DEF GateInv, LoginInv
      <4>3. queue[1].pair = pair
        BY <1>1 DEF pair
      <4> QED
        BY <4>1, <4>2, <4>3
    <3>3. ASSUME NEW i \in DOMAIN queue, i # 1
          PROVE  \E j \in DOMAIN queue' : queue'[j] = queue[i]
      <4>1. /\ n \in Nat \ {0} /\ DOMAIN queue = 1 .. n /\ DOMAIN Tail(queue) = 1 .. n - 1
            /\ \A j \in 1 .. n - 1 : Tail(queue)[j] = queue[j + 1]
        BY TailEntries DEF SessionInv
      <4> HIDE DEF n
      <4>2. i - 1 \in 1 .. n - 1 /\ (i - 1) + 1 = i
        BY <3>3, <4>1
      <4>3. i - 1 \in DOMAIN queue' /\ queue'[i - 1] = queue[i]
        BY <4>1, <4>2
      <4> QED
        BY <4>3
    <3>4. session' => \E i \in DOMAIN queue' : queue'[i].pair = Empty
      BY <3>1, <3>2, <3>3
    <3>5. ASSUME NEW i \in DOMAIN queue, Newest(queue, i), queue[i].pair # Empty
          PROVE  \E j \in DOMAIN queue' : Newest(queue', j) /\ queue'[j].pair # Empty
      <4>1. \/ i = 1 /\ DOMAIN queue = {1}
            \/ \E j \in DOMAIN Tail(queue) : Newest(Tail(queue), j) /\ Tail(queue)[j].pair = queue[i].pair
        BY <1>1, <3>5, NewestStays
      <4>2. ~(i = 1 /\ DOMAIN queue = {1})
        <5> SUFFICES ASSUME i = 1, DOMAIN queue = {1} PROVE FALSE
          OBVIOUS
        <5>1. pair # Empty
          BY <1>1, <3>5 DEF pair
        <5>2. session
          BY <1>10, <3>1, <5>1
        <5> QED
          BY <3>2, <5>2
      <4> QED
        BY <3>5, <4>1, <4>2
    <3>6. NoSession(prefs.token) => NoSession(prefs.token)'
      BY DEF NoSession
    <3>7. NoSession(prefs.token) \/ \E i \in DOMAIN queue : Newest(queue, i) /\ queue[i].pair # Empty
      BY <2>3 DEF GateInv, LoginInv
    <3> QED
      BY <3>4, <3>5, <3>6, <3>7
  <2>4. LoginInv'
    BY <2>1, <2>3 DEF LoginInv
  <2> QED
    BY <1>6, <1>12, <2>1, <2>2, <2>4 DEF GateInv, OffInv, LoadingInv
<1> QED
  BY <1>9, <1>11, <1>12

LEMMA GateWritten ==
  ASSUME SessionInv, StoredInv, FreshInv, GateInv, ~told, Written
  PROVE  GateInv'
<1> DEFINE w == Head(queue)
           k == w.key + 1
<1>1. queue # <<>> /\ w.key \in 1 .. 3 /\ now' = now
  BY TailEntries, QueueEntry DEF Written, SessionInv
<1>2. CASE /\ k <= 3 /\ prefs' = [prefs EXCEPT ![Keys[k]] = w.pair[Keys[k]]]
           /\ queue' = Append(Tail(queue), [w EXCEPT !.key = k])
           /\ UNCHANGED appVars
  <2>1. k \in 2 .. 3
    BY <1>1, <1>2
  <2> QED
    BY <1>1, <1>2, <2>1, GateNextWrite DEF appVars
<1>3. CASE k > 3 /\ queue' = Tail(queue) /\ UNCHANGED prefs /\ Finish(w.call)
  <2>1. w.key = 3
    BY <1>1, <1>3
  <2> QED
    BY <1>1, <1>3, <2>1, GateLastWrite
<1> QED
  BY <1>2, <1>3 DEF Written, Following

LEMMA InitGate == Init => GateInv
  BY DEF Init, Idle, GateInv, IdleInv, OffInv, LoadingInv, DecidedInv, LoginInv

LEMMA NextGate == SessionInv /\ StoredInv /\ FreshInv /\ GateInv /\ [Next]_vars => GateInv'
<1> SUFFICES ASSUME SessionInv, StoredInv, FreshInv, GateInv, [Next]_vars PROVE GateInv'
  OBVIOUS
<1>1. CASE Check
  BY <1>1, GateCheck
<1>2. CASE UNCHANGED vars
  BY <1>2, GateSame DEF vars, storeVars, appVars
<1>3. ASSUME ~told, NEW c \in Calls, Server(c) \/ Receive(c) \/ GiveUp(c) PROVE GateInv'
  BY <1>3, GateServer, GateReceive, GateGiveUp
<1>4. CASE Administer \/ Crowd
  <2>1. UNCHANGED <<now, prefs, queue, session, told, gate, call>>
    BY <1>4 DEF Administer, Crowd, storeVars, appVars
  <2> QED
    BY <2>1, GateSame
<1>5. ASSUME ~told, Start \/ Stop \/ Login \/ Logout \/ Request \/ Written \/ Tick PROVE GateInv'
  BY <1>5, GateStartStop, GateBegins, GateWritten, GateTick
<1> QED
  BY <1>1, <1>2, <1>3, <1>4, <1>5 DEF Next

(***************************************************************************)
(* However logins, logouts, refreshes and starts of the app overlap, once  *)
(* nothing is under way the gate shows what is stored: a session that was  *)
(* announced is there and shown, and nobody who has one is asked to log in.*)
(***************************************************************************)
THEOREM GateFollowsTheorem == Spec => []GateFollows
<1>1. SessionInv /\ StoredInv /\ GateInv => GateFollows
  <2> SUFFICES ASSUME SessionInv, StoredInv, GateInv, Quiet
               PROVE  /\ session => gate = "main" /\ prefs.token # None
                      /\ gate = "login" => ~session /\ (prefs.token = None \/ Expired(prefs.token))
    BY DEF GateFollows
  <2>1. DOMAIN queue = {} /\ queue = <<>> /\ ~told /\ \A c \in Calls : call[c].at = "idle"
    BY DEF Quiet, Idle
  <2>2. gate # "loading"
    BY <2>1 DEF GateInv, LoadingInv
  <2>3. gate = "login" => ~session /\ (prefs.token = None \/ Expired(prefs.token))
    BY <2>1 DEF GateInv, LoginInv, NoSession, Expired
  <2>4. session => prefs.token # None
    BY <2>1, StoredQuiet DEF Whole
  <2>5. session => gate = "main"
    BY <2>2, <2>3 DEF GateInv, OffInv, SessionInv, AppTypeOK
  <2> QED
    BY <2>3, <2>4, <2>5
<1>2. Init => FreshInv
  BY DEF Init, Idle, FreshInv, Fresh
<1> QED
  BY <1>1, <1>2, InitTyped, NextTyped, InitStored, NextStored, NextFresh, InitGate, NextGate, PTL DEF Spec

-----------------------------------------------------------------------------
(* What is under way comes to an end.  A call that waits for the plugin    *)
(* has a write in its queue, and the plugin answers all of those.          *)
InQueue(c) == \E i \in DOMAIN queue : queue[i].call = c

WaitersQueued == \A c \in Calls : call[c].at = "write" => InQueue(c)

(* The queue is the same, and no call begins to wait for the plugin.       *)
LEMMA WaitersSame ==
  ASSUME WaitersQueued, UNCHANGED queue,
         \A c \in Calls : call'[c].at = "write" => call[c].at = "write"
  PROVE  WaitersQueued'
  BY DEF WaitersQueued, InQueue

LEMMA WaiterBegins ==
  ASSUME SessionInv, WaitersQueued, NEW c \in Calls, NEW pair \in Prefs, Put(c, 1, pair),
         \A d \in Calls : d # c => call'[d].at = call[d].at
  PROVE  WaitersQueued'
<1> DEFINE w == [call |-> c, key |-> 1, pair |-> pair]
<1>1. queue \in Seq(Write) /\ w \in Write /\ w.call = c /\ queue' = Append(queue, w)
  BY DEF SessionInv, QueueOK, Put, Write
<1> HIDE DEF w
<1>2. /\ DOMAIN queue' = 1 .. Len(queue) + 1 /\ queue'[Len(queue) + 1] = w
      /\ \A i \in 1 .. Len(queue) : queue'[i] = queue[i]
      /\ Len(queue) \in Nat /\ DOMAIN queue = 1 .. Len(queue)
  BY <1>1, AppendEntries
<1>3. Len(queue) + 1 \in DOMAIN queue' /\ DOMAIN queue \subseteq DOMAIN queue'
  BY <1>2
<1> QED
  BY <1>1, <1>2, <1>3 DEF WaitersQueued, InQueue

(* The plugin answers: the call at the head goes to the end of the queue,  *)
(* or waits no longer.                                                     *)
LEMMA WaitersWritten ==
  ASSUME SessionInv, WaitersQueued, Written
  PROVE  WaitersQueued'
<1> DEFINE c == Head(queue).call
           n == Len(queue)
<1>1. /\ n \in Nat \ {0} /\ DOMAIN queue = 1 .. n /\ Head(queue) = queue[1]
      /\ Tail(queue) \in Seq(Write) /\ Len(Tail(queue)) = n - 1 /\ DOMAIN Tail(queue) = 1 .. n - 1
      /\ \A i \in 1 .. n - 1 : i + 1 \in DOMAIN queue /\ Tail(queue)[i] = queue[i + 1]
  BY TailEntries DEF Written, SessionInv
<1>2. Head(queue) \in Write /\ c \in Calls
  BY <1>1, QueueEntry DEF SessionInv
<1>3. ASSUME NEW d \in Calls, d # c, InQueue(d)
      PROVE  \E i \in 1 .. n - 1 : Tail(queue)[i].call = d
  <2>1. PICK i \in DOMAIN queue : queue[i].call = d
    BY <1>3 DEF InQueue
  <2>2. i # 1 /\ i \in 1 .. n
    BY <1>1, <1>3, <2>1
  <2>3. i - 1 \in 1 .. n - 1 /\ Tail(queue)[i - 1] = queue[i]
    BY <1>1, <2>2
  <2> QED
    BY <2>1, <2>3
<1>4. ASSUME NEW k \in 1 .. 3, UNCHANGED call,
             queue' = Append(Tail(queue), [Head(queue) EXCEPT !.key = k])
      PROVE  WaitersQueued'
  <2> DEFINE w == [Head(queue) EXCEPT !.key = k]
             t == Tail(queue)
  <2>1. w \in Write /\ w.call = c
    BY <1>2 DEF Write
  <2>2. queue' = Append(t, w) /\ t \in Seq(Write) /\ Len(t) = n - 1
    BY <1>1, <1>4
  <2> HIDE DEF w, t, n
  <2>3. /\ DOMAIN queue' = 1 .. Len(t) + 1 /\ queue'[Len(t) + 1] = w
        /\ \A i \in 1 .. Len(t) : queue'[i] = t[i]
    BY <2>1, <2>2, AppendEntries
  <2>4. n \in DOMAIN queue' /\ queue'[n] = w /\ \A i \in 1 .. n - 1 : i \in DOMAIN queue' /\ queue'[i] = t[i]
    BY <1>1, <2>2, <2>3
  <2>5. \A d \in Calls : InQueue(d) => InQueue(d)'
    BY <1>3, <2>1, <2>4 DEF InQueue, t
  <2> QED
    BY <1>4, <2>5 DEF WaitersQueued
<1>5. CASE queue' = Tail(queue) /\ Finish(c)
  <2>1. call'[c].at # "write" /\ \A d \in Calls : d # c => call'[d] = call[d]
    BY <1>2, <1>5, AfterTyped DEF Finish, SessionInv, QueueOK
  <2>2. ASSUME NEW d \in Calls, d # c, InQueue(d) PROVE InQueue(d)'
    BY <1>1, <1>3, <1>5, <2>2 DEF InQueue
  <2> QED
    BY <2>1, <2>2 DEF WaitersQueued
<1>6. CASE /\ Head(queue).key + 1 <= 3 /\ UNCHANGED appVars
           /\ queue' = Append(Tail(queue), [Head(queue) EXCEPT !.key = Head(queue).key + 1])
  <2>1. Head(queue).key + 1 \in 1 .. 3
    BY <1>2, <1>6 DEF Write
  <2> QED
    BY <1>4, <1>6, <2>1 DEF appVars
<1> QED
  BY <1>5, <1>6 DEF Written, Following

LEMMA NextWaiters == SessionInv /\ WaitersQueued /\ [Next]_vars => WaitersQueued'
<1> SUFFICES ASSUME SessionInv, WaitersQueued, [Next]_vars PROVE WaitersQueued'
  OBVIOUS
<1>1. Idle.at # "write" /\ \A kind, arg : Do(kind, "ask", arg).at # "write" /\ Do(kind, "send", arg).at # "write"
  BY DEF Idle, Do
<1>2. call \in [Calls -> CallRecord] /\ Free \subseteq Calls /\ Empty \in Prefs
  BY EmptyTyped DEF SessionInv, QueueOK, Free
<1>3. ASSUME NEW c \in Calls, NEW r, r.at # "write", call' = [call EXCEPT ![c] = r], UNCHANGED queue
      PROVE  WaitersQueued'
  BY <1>2, <1>3, WaitersSame
<1>4. ASSUME NEW c \in Calls, NEW r, call' = [call EXCEPT ![c] = r], NEW pair \in Prefs, Put(c, 1, pair)
      PROVE  WaitersQueued'
  BY <1>2, <1>4, WaiterBegins
<1>5. CASE UNCHANGED <<queue, call>>
  BY <1>5, WaitersSame
<1>6. ASSUME NEW c \in Calls, Server(c) PROVE WaitersQueued'
  BY <1>6, ServerShape, WaitersSame
<1>7. ASSUME NEW c \in Calls, Receive(c) PROVE WaitersQueued'
  <2>1. CASE call' = [call EXCEPT ![c] = Idle] /\ UNCHANGED <<prefs, queue>>
    BY <1>1, <1>3, <2>1
  <2>2. CASE call' = [call EXCEPT ![c].at = "write"] /\ Put(c, 1, call[c].arg)
    <3>1. call[c].arg \in Prefs
      BY <1>7 DEF Receive, SessionInv, QueueOK, Typed, Storable
    <3> QED
      BY <1>4, <2>2, <3>1
  <2> QED
    BY <1>7, <2>1, <2>2 DEF Receive
<1>8. ASSUME NEW c \in Calls, GiveUp(c) PROVE WaitersQueued'
  BY <1>1, <1>3, <1>8 DEF GiveUp, storeVars
<1>9. CASE Administer \/ Crowd \/ Start
  BY <1>5, <1>9 DEF Administer, Crowd, Start, storeVars, appVars
<1>10. CASE Stop
  BY <1>1, <1>10 DEF Stop, WaitersQueued
<1>11. CASE Check
  <2>1. CASE UNCHANGED <<queue, call>>
    BY <1>5, <2>1
  <2>2. ASSUME NEW c \in Free, UNCHANGED queue,
               call' = [call EXCEPT ![c] = Do("check", "ask", prefs.refresh)]
        PROVE  WaitersQueued'
    BY <1>1, <1>2, <1>3, <2>2
  <2>3. ASSUME NEW c \in Free, call' = [call EXCEPT ![c] = Do("check", "write", Empty)], Put(c, 1, Empty)
        PROVE  WaitersQueued'
    BY <1>2, <1>4, <2>3
  <2> QED
    BY <1>11, <2>1, <2>2, <2>3 DEF Check
<1>12. CASE Login \/ Request
  BY <1>1, <1>2, <1>3, <1>12 DEF Login, Request, storeVars
<1>13. CASE Logout
  BY <1>2, <1>4, <1>13 DEF Logout
<1>14. CASE Written
  BY <1>14, WaitersWritten
<1>15. CASE Tick
  <2>1. \A c \in Calls : call'[c].at = "write" => call[c].at = "write"
    BY <1>1, <1>2, <1>15 DEF Tick, CallRecord
  <2> QED
    BY <1>15, <2>1, WaitersSame DEF Tick, storeVars
<1>16. CASE UNCHANGED vars
  BY <1>5, <1>16 DEF vars, storeVars, appVars
<1> QED
  BY <1>6, <1>7, <1>8, <1>9, <1>10, <1>11, <1>12, <1>13, <1>14, <1>15, <1>16 DEF Next

(***************************************************************************)
(* Nothing waits in vain: a call that is under way waits for the server,   *)
(* which the timeout bounds, or has a write that the plugin will answer;   *)
(* and behind the spinner the gate is about to check, or a check is under  *)
(* way.  No order of answers, timeouts and restarts leaves a call without  *)
(* either, or the spinner without its check.                               *)
(***************************************************************************)
NoneStranded ==
  /\ \A c \in Calls : call[c].at # "idle" => WaitsForServer(c) \/ InQueue(c)
  /\ gate = "loading" => told \/ \E c \in Calls : call[c].kind = "check" /\ call[c].at # "idle"

THEOREM NoneStrandedTheorem == Spec => []NoneStranded
<1>1. Init => WaitersQueued /\ FreshInv
  BY DEF Init, Idle, WaitersQueued, FreshInv, Fresh
<1>2. SessionInv /\ GateInv /\ WaitersQueued => NoneStranded
  <2> SUFFICES ASSUME SessionInv, GateInv, WaitersQueued PROVE NoneStranded
    OBVIOUS
  <2>1. \A c \in Calls : call[c].at \in {"idle", "ask", "found", "answered", "write", "send"}
    BY DEF SessionInv, QueueOK, CallRecord
  <2>2. \A c \in Calls : call[c].at # "idle" => WaitsForServer(c) \/ InQueue(c)
    BY <2>1 DEF WaitersQueued, WaitsForServer
  <2>3. gate = "loading" => told \/ \E c \in Calls : call[c].kind = "check" /\ call[c].at # "idle"
    BY DEF GateInv, LoadingInv
  <2> QED
    BY <2>2, <2>3 DEF NoneStranded
<1> QED
  BY <1>1, <1>2, InitTyped, NextTyped, InitStored, NextStored, NextFresh, InitGate, NextGate,
     NextWaiters, PTL DEF Spec

-----------------------------------------------------------------------------
(***************************************************************************)
(* The rate limiter.  What its loop keeps of a list of times, by induction *)
(* over the list.                                                          *)
(***************************************************************************)
Times == Seq(Nat)

\* g[i] is what the loop has kept after the first i of the times.
Keeps(g, times, start) ==
  g = [i \in 0 .. Len(times) |->
         IF i = 0 THEN <<>>
         ELSE IF times[i] > start THEN Append(g[i - 1], times[i])
         ELSE g[i - 1]]

LEMMA LoopKeeps ==
  ASSUME NEW times \in Times, NEW start
  PROVE  \E g : Keeps(g, times, start) /\ ValidSince(times, start) = g[Len(times)]
<1> DEFINE KeptFor(g, n) ==
             g = [i \in 0 .. n |->
                    IF i = 0 THEN <<>>
                    ELSE IF times[i] > start THEN Append(g[i - 1], times[i])
                    ELSE g[i - 1]]
           K == {n \in Nat : \E g : KeptFor(g, n)}
<1>1. 0 \in K
  <2> DEFINE g == [i \in 0 .. 0 |-> <<>>]
  <2>1. KeptFor(g, 0)
    OBVIOUS
  <2> QED
    BY <2>1
<1>2. ASSUME NEW n \in Nat, n \in K PROVE n + 1 \in K
  <2>1. PICK g : KeptFor(g, n)
    BY <1>2
  <2> DEFINE h == [i \in 0 .. n + 1 |->
                     IF i = 0 THEN <<>>
                     ELSE IF times[i] > start THEN Append(g[i - 1], times[i])
                     ELSE g[i - 1]]
  <2>2. ASSUME NEW i \in 0 .. n PROVE h[i] = g[i]
    <3>1. g[i] = IF i = 0 THEN <<>>
                 ELSE IF times[i] > start THEN Append(g[i - 1], times[i])
                 ELSE g[i - 1]
      BY <2>1
    <3> QED
      BY <3>1
  <2>3. ASSUME NEW i \in 0 .. n + 1, i # 0 PROVE h[i - 1] = g[i - 1]
    <3>1. i - 1 \in 0 .. n
      BY <2>3
    <3> QED
      BY <2>2, <3>1
  <2>4. \A i \in 0 .. n + 1 :
          h[i] = IF i = 0 THEN <<>>
                 ELSE IF times[i] > start THEN Append(h[i - 1], times[i])
                 ELSE h[i - 1]
    BY <2>3
  <2>5. h = [i \in 0 .. n + 1 |-> h[i]]
    OBVIOUS
  <2> HIDE DEF h
  <2>6. KeptFor(h, n + 1)
    BY <2>4, <2>5
  <2> HIDE DEF KeptFor
  <2> QED
    BY <2>6
<1>3. Len(times) \in K
  <2> HIDE DEF K
  <2>1. Nat \subseteq K
    BY <1>1, <1>2, Induction
  <2> QED
    BY <2>1, LenProperties DEF Times
<1> QED
  BY <1>3 DEF Keeps, ValidSince

(* Of one time more the loop keeps one more, or not.                       *)
LEMMA SinceAppend ==
  ASSUME NEW times \in Times, NEW t \in Nat, NEW start \in Int
  PROVE  ValidSince(Append(times, t), start) =
           IF t > start THEN Append(ValidSince(times, start), t) ELSE ValidSince(times, start)
<1> DEFINE more == Append(times, t)
           n == Len(times)
<1>1. PICK g : Keeps(g, times, start) /\ ValidSince(times, start) = g[n]
  BY LoopKeeps
<1>2. /\ more \in Times /\ n \in Nat /\ Len(more) = n + 1
      /\ more[n + 1] = t /\ \A i \in 1 .. n : more[i] = times[i]
  BY LenProperties DEF Times
<1>3. PICK h : Keeps(h, more, start) /\ ValidSince(more, start) = h[n + 1]
  BY <1>2, LoopKeeps
<1> HIDE DEF more, n
<1> DEFINE K == {i \in Nat : i <= n => h[i] = g[i]}
<1>4. 0 \in K
  BY <1>1, <1>2, <1>3 DEF Keeps, n
<1>5. ASSUME NEW i \in Nat, i \in K PROVE i + 1 \in K
  <2> SUFFICES ASSUME i + 1 <= n PROVE h[i + 1] = g[i + 1]
    OBVIOUS
  <2>1. /\ h[i] = g[i] /\ i + 1 \in 1 .. n
        /\ i + 1 \in 0 .. n /\ i + 1 \in 0 .. n + 1 /\ i + 1 # 0 /\ (i + 1) - 1 = i
    BY <1>2, <1>5
  <2>2. g[i + 1] = IF times[i + 1] > start THEN Append(g[i], times[i + 1]) ELSE g[i]
    BY <1>1, <2>1 DEF Keeps, n
  <2>3. h[i + 1] = IF more[i + 1] > start THEN Append(h[i], more[i + 1]) ELSE h[i]
    BY <1>2, <1>3, <2>1 DEF Keeps
  <2> QED
    BY <1>2, <2>1, <2>2, <2>3
<1>6. h[n] = g[n]
  <2> HIDE DEF K
  <2>1. Nat \subseteq K
    BY <1>4, <1>5, Induction
  <2> QED
    BY <1>2, <2>1 DEF K
<1>7. n + 1 \in 0 .. n + 1 /\ n + 1 # 0 /\ (n + 1) - 1 = n
  BY <1>2
<1>8. h[n + 1] = IF more[n + 1] > start THEN Append(h[n], more[n + 1]) ELSE h[n]
  BY <1>2, <1>3, <1>7 DEF Keeps
<1> QED
  BY <1>1, <1>2, <1>3, <1>6, <1>8 DEF more

LEMMA SinceEmpty ==
  ASSUME NEW start
  PROVE  ValidSince(<<>>, start) = <<>>
<1>1. <<>> \in Times /\ Len(<<>>) = 0
  BY EmptySeq DEF Times
<1> QED
  BY <1>1, LoopKeeps DEF Keeps

(* A list that is not empty is a list with one time more.                  *)
LEMMA LastTime ==
  ASSUME NEW n \in Nat, NEW times \in Times, Len(times) = n + 1
  PROVE  \E front \in Times, t \in Nat : Len(front) = n /\ times = Append(front, t)
<1> DEFINE front == SubSeq(times, 1, n)
           t == times[n + 1]
<1>1. \A i \in 1 .. n + 1 : times[i] \in Nat
  BY ElementOfSeq DEF Times
<1>2. /\ front \in Times /\ t \in Nat /\ Len(front) = n
      /\ \A i \in 1 .. n : front[i] = times[i]
  BY <1>1, SubSeqProperties DEF Times
<1> HIDE DEF front
<1>3. Append(front, t) \in Times /\ Len(Append(front, t)) = n + 1
  BY <1>2 DEF Times
<1>4. \A i \in 1 .. n + 1 : times[i] = Append(front, t)[i]
  BY <1>2 DEF Times
<1>5. times = Append(front, t)
  BY <1>3, <1>4, SeqEqual DEF Times
<1> QED
  BY <1>2, <1>5

(* The loop makes nothing up, and a second pass over what it kept, with a  *)
(* window that starts as late or later, keeps what it would have kept of   *)
(* the whole list.                                                         *)
LEMMA SinceTwice ==
  ASSUME NEW times \in Times, NEW start \in Int, NEW later \in Int, start <= later
  PROVE  /\ ValidSince(times, start) \in Times
         /\ Len(ValidSince(times, start)) <= Len(times)
         /\ ValidSince(ValidSince(times, start), later) = ValidSince(times, later)
<1> DEFINE P(s) == /\ ValidSince(s, start) \in Times
                   /\ Len(ValidSince(s, start)) <= Len(s)
                   /\ ValidSince(ValidSince(s, start), later) = ValidSince(s, later)
           K == {n \in Nat : \A s \in Times : Len(s) = n => P(s)}
<1>1. 0 \in K
  <2> SUFFICES ASSUME NEW s \in Times, Len(s) = 0 PROVE P(s)
    OBVIOUS
  <2>1. s = <<>>
    BY EmptySeq DEF Times
  <2> QED
    BY <2>1, SinceEmpty
<1>2. ASSUME NEW n \in Nat, n \in K PROVE n + 1 \in K
  <2> SUFFICES ASSUME NEW s \in Times, Len(s) = n + 1 PROVE P(s)
    OBVIOUS
  <2>1. PICK front \in Times, t \in Nat : Len(front) = n /\ s = Append(front, t)
    BY LastTime
  <2>2. P(front)
    <3> HIDE DEF P
    <3> QED
      BY <1>2, <2>1
  <2> DEFINE kept == ValidSince(front, start)
  <2>3. ValidSince(s, start) = IF t > start THEN Append(kept, t) ELSE kept
    BY <2>1, SinceAppend
  <2>4. ValidSince(s, later) = IF t > later THEN Append(ValidSince(front, later), t)
                          ELSE ValidSince(front, later)
    BY <2>1, SinceAppend
  <2>5. /\ kept \in Times /\ Len(kept) <= n /\ Len(kept) \in Nat
        /\ ValidSince(kept, later) = ValidSince(front, later)
    BY <2>1, <2>2, LenProperties DEF Times
  <2>6. ValidSince(Append(kept, t), later) = IF t > later THEN Append(ValidSince(kept, later), t)
                                        ELSE ValidSince(kept, later)
    BY <2>5, SinceAppend
  <2> HIDE DEF kept
  <2>7. Append(kept, t) \in Times /\ Len(Append(kept, t)) = Len(kept) + 1
    BY <2>5 DEF Times
  <2>8. CASE t > start
    BY <2>3, <2>4, <2>5, <2>6, <2>7, <2>8
  <2>9. CASE ~(t > start)
    <3>1. ~(t > later)
      BY <2>9
    <3> QED
      BY <2>3, <2>4, <2>5, <2>9, <3>1
  <2> QED
    BY <2>8, <2>9
<1>3. Nat \subseteq K
  <2> HIDE DEF K
  <2> QED
    BY <1>1, <1>2, Induction
<1>4. Len(times) \in K
  BY <1>3, LenProperties DEF Times
<1>5. P(times)
  <2> HIDE DEF P
  <2> QED
    BY <1>4
<1> QED
  BY <1>5

-----------------------------------------------------------------------------
(* The limiter forgets more than it lets through, but in every window both *)
(* lists are the same.                                                     *)
LimiterInv ==
  /\ now \in Nat
  /\ \A a \in Addresses :
       /\ requests[a] \in Times /\ admitted[a] \in Times
       /\ Valid(requests[a]) = Valid(admitted[a])
       /\ Len(Valid(admitted[a])) <= Limit
  /\ DOMAIN requests = Addresses /\ DOMAIN admitted = Addresses

LimiterStep ==
  \/ now' = now /\ \E a \in Addresses : Allow(a)
  \/ now' = now /\ Cleanup
  \/ now' = now + 1 /\ UNCHANGED limiterVars
  \/ now' = now /\ UNCHANGED limiterVars

LEMMA LimiterStepKeepsInv ==
  ASSUME LimiterInv, LimiterStep
  PROVE  LimiterInv'
<1> DEFINE start == now - Window
<1>1. now \in Nat /\ start \in Int /\ start < now /\ Limit \in Nat
  BY LimiterAssumption DEF LimiterInv, LimiterAssumption
<1>2. \A a \in Addresses :
         /\ requests[a] \in Times /\ admitted[a] \in Times
         /\ Valid(requests[a]) = Valid(admitted[a])
         /\ Len(Valid(admitted[a])) <= Limit
  BY DEF LimiterInv
<1>3. DOMAIN requests = Addresses /\ DOMAIN admitted = Addresses
  BY DEF LimiterInv
<1>4. CASE now' = now /\ UNCHANGED limiterVars
  BY <1>4 DEF LimiterInv, limiterVars, Valid
<1>5. ASSUME NEW a \in Addresses, now' = now, Allow(a)
      PROVE  LimiterInv'
  <2>1. CASE Refuse(a)
    BY <1>4, <1>5, <2>1 DEF Refuse
  <2>2. CASE Admit(a)
    <3> DEFINE kept == Valid(requests[a])
    <3>1. /\ kept \in Times /\ Len(kept) < Limit /\ Len(kept) \in Nat
          /\ kept = Valid(admitted[a])
      BY <1>1, <1>2, <2>2, SinceTwice, LenProperties DEF Admit, Allowed, Valid, Times
    <3>2. ValidSince(kept, start) = kept
      BY <1>1, <1>2, SinceTwice DEF Valid
    <3>3. ValidSince(Append(kept, now), start) = Append(kept, now)
      BY <1>1, <3>1, <3>2, SinceAppend
    <3>4. /\ requests' = [requests EXCEPT ![a] = Append(kept, now)]
          /\ admitted' = [admitted EXCEPT ![a] = Append(kept, now)]
      BY <2>2, <3>1 DEF Admit
    <3> HIDE DEF kept
    <3>5. Append(kept, now) \in Times /\ Len(Append(kept, now)) = Len(kept) + 1
      BY <1>1, <3>1 DEF Times
    <3>6. ASSUME NEW b \in Addresses
          PROVE  /\ requests'[b] \in Times /\ admitted'[b] \in Times
                 /\ ValidSince(requests'[b], start) = ValidSince(admitted'[b], start)
                 /\ Len(ValidSince(admitted'[b], start)) <= Limit
      <4>1. CASE b = a
        <5>1. requests'[b] = Append(kept, now) /\ admitted'[b] = Append(kept, now)
          BY <1>3, <3>4, <4>1
        <5> QED
          BY <1>1, <3>1, <3>3, <3>5, <5>1
      <4>2. CASE b # a
        <5>1. requests'[b] = requests[b] /\ admitted'[b] = admitted[b]
          BY <1>3, <3>4, <4>2
        <5> QED
          BY <1>2, <5>1 DEF Valid
      <4> QED
        BY <4>1, <4>2
    <3>7. DOMAIN requests' = Addresses /\ DOMAIN admitted' = Addresses
      BY <1>3, <3>4
    <3> QED
      BY <1>1, <1>5, <3>6, <3>7 DEF LimiterInv, Valid
  <2> QED
    BY <1>5, <2>1, <2>2 DEF Allow
<1>6. CASE now' = now /\ Cleanup
  <2>1. /\ requests' = [a \in Addresses |-> Valid(requests[a])]
        /\ admitted' = admitted
    BY <1>6 DEF Cleanup
  <2>2. ASSUME NEW a \in Addresses
        PROVE  /\ requests'[a] \in Times /\ admitted'[a] \in Times
               /\ ValidSince(requests'[a], start) = ValidSince(admitted'[a], start)
               /\ Len(ValidSince(admitted'[a], start)) <= Limit
    <3>1. requests'[a] = ValidSince(requests[a], start)
      BY <2>1 DEF Valid
    <3>2. /\ ValidSince(requests[a], start) \in Times
          /\ ValidSince(ValidSince(requests[a], start), start) = ValidSince(requests[a], start)
      BY <1>1, <1>2, SinceTwice
    <3> QED
      BY <1>2, <2>1, <3>1, <3>2 DEF Valid
  <2>3. DOMAIN requests' = Addresses /\ DOMAIN admitted' = Addresses
    BY <1>3, <2>1
  <2> QED
    BY <1>1, <1>6, <2>2, <2>3 DEF LimiterInv, Valid
<1>7. CASE now' = now + 1 /\ UNCHANGED limiterVars
  <2> DEFINE later == now + 1 - Window
  <2>1. later \in Int /\ start <= later
    BY <1>1, LimiterAssumption DEF LimiterAssumption
  <2>2. ASSUME NEW a \in Addresses
        PROVE  /\ ValidSince(requests[a], later) = ValidSince(admitted[a], later)
               /\ Len(ValidSince(admitted[a], later)) <= Limit
    <3> DEFINE kept == ValidSince(admitted[a], start)
    <3>1. ValidSince(requests[a], start) = kept /\ Len(kept) <= Limit
      BY <1>2 DEF Valid
    <3>2. ValidSince(kept, later) = ValidSince(requests[a], later)
      BY <1>1, <1>2, <2>1, <3>1, SinceTwice
    <3>3. kept \in Times /\ ValidSince(kept, later) = ValidSince(admitted[a], later)
      BY <1>1, <1>2, <2>1, SinceTwice
    <3> HIDE DEF kept, later
    <3>4. Len(ValidSince(kept, later)) <= Len(kept) /\ ValidSince(kept, later) \in Times
      BY <2>1, <3>3, SinceTwice
    <3>5. Len(ValidSince(kept, later)) \in Nat /\ Len(kept) \in Nat
      BY <3>3, <3>4, LenProperties DEF Times
    <3> QED
      BY <1>1, <3>1, <3>2, <3>3, <3>4, <3>5
  <2>3. requests' = requests /\ admitted' = admitted /\ now' = now + 1
    BY <1>7 DEF limiterVars
  <2>4. now' \in Nat /\ now' - Window = later
    <3>1. now + 1 \in Nat
      BY <1>1
    <3>2. now' - Window = later
      BY <1>1, <2>3, LimiterAssumption DEF LimiterAssumption
    <3> QED
      BY <2>3, <3>1, <3>2
  <2>5. ASSUME NEW a \in Addresses
        PROVE  /\ requests'[a] \in Times /\ admitted'[a] \in Times
               /\ ValidSince(requests'[a], now' - Window) = ValidSince(admitted'[a], now' - Window)
               /\ Len(ValidSince(admitted'[a], now' - Window)) <= Limit
    <3> HIDE DEF later
    <3> QED
      BY <1>2, <2>2, <2>3, <2>4
  <2> QED
    BY <1>3, <2>3, <2>4, <2>5 DEF LimiterInv, Valid
<1> QED
  BY <1>4, <1>5, <1>6, <1>7 DEF LimiterStep

(* Every step of the sessions is one of the limiter, or leaves it alone.   *)
LEMMA SessionsLimiterStep ==
  ASSUME [Next]_vars
  PROVE  LimiterStep
<1>1. ASSUME UNCHANGED <<now, serverVars>> PROVE LimiterStep
  BY <1>1 DEF serverVars, limiterVars, LimiterStep
<1>2. CASE Check \/ Start \/ Stop
  BY <1>1, <1>2 DEF Check, Start, Stop
<1>3. CASE Login \/ Logout \/ Request \/ Written
  BY <1>1, <1>3 DEF Login, Logout, Request, Written
<1>4. ASSUME NEW c \in Calls, Receive(c) \/ GiveUp(c) PROVE LimiterStep
  BY <1>1, <1>4 DEF Receive, GiveUp
<1>5. CASE Tick
  BY <1>5 DEF Tick, serverVars, limiterVars, LimiterStep
<1>6. CASE Administer
  BY <1>6 DEF Administer, LimiterStep, limiterVars
<1>7. CASE Crowd
  BY <1>7 DEF Crowd, LimiterStep
<1>8. ASSUME NEW c \in Calls, Server(c) PROVE LimiterStep
  <2>1. CASE Reject(c)
    BY <2>1, SessionsAssumption DEF Reject, Respond, LimiterStep, SessionsAssumption
  <2>2. CASE ServeLogin(c)
    BY <2>2, SessionsAssumption DEF ServeLogin, Found, LimiterStep, Allow, SessionsAssumption
  <2>3. CASE ServeRefresh(c)
    BY <2>3, SessionsAssumption DEF ServeRefresh, Found, LimiterStep, Allow, SessionsAssumption
  <2>4. CASE ServePair(c) \/ ServeDelete(c)
    BY <2>4 DEF ServePair, ServeDelete, Respond, LimiterStep
  <2> QED
    BY <1>8, <2>1, <2>2, <2>3, <2>4 DEF Server
<1>9. CASE UNCHANGED vars
  BY <1>1, <1>9 DEF vars
<1> QED
  BY <1>2, <1>3, <1>4, <1>5, <1>6, <1>7, <1>8, <1>9 DEF Next

(***************************************************************************)
(* No window of any address ever holds more than Limit requests let        *)
(* through, and whoever has made fewer is let through, whatever the limit, *)
(* the window and the crowd, and whenever the cleanup ran.                 *)
(***************************************************************************)
THEOREM LimitTheorem == Spec => []LimitExact
<1>1. Init => LimiterInv
  <2> SUFFICES ASSUME Init PROVE LimiterInv
    OBVIOUS
  <2>1. /\ now = 0
        /\ requests = [a \in Addresses |-> <<>>] /\ admitted = [a \in Addresses |-> <<>>]
    BY DEF Init, LimiterInit
  <2>2. <<>> \in Times /\ Len(<<>>) = 0 /\ Valid(<<>>) = <<>>
    BY EmptySeq, SinceEmpty DEF Times, Valid
  <2>3. 0 <= Limit
    BY LimiterAssumption DEF LimiterAssumption
  <2> QED
    BY <2>1, <2>2, <2>3 DEF LimiterInv
<1>2. LimiterInv /\ [Next]_vars => LimiterInv'
  BY SessionsLimiterStep, LimiterStepKeepsInv
<1>3. LimiterInv => LimitExact
  BY DEF LimiterInv, LimitExact, Allowed
<1> QED
  BY <1>1, <1>2, <1>3, PTL DEF Spec
=============================================================================
