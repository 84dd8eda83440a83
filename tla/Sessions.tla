------------------------------ MODULE Sessions ------------------------------
(***************************************************************************)
(* The session of an app: its AuthService (auth_service.dart), with the    *)
(* AuthGate (app.dart) that shows the login or the main screen, against    *)
(* login, registration and refresh in the server (cmd/server/main.go,      *)
(* internal/auth/service.go) behind the rate limiter.                      *)
(*                                                                         *)
(* An action is what the app does from one await to the next.  The plugin  *)
(* of the preferences changes its cache at the call, writes later, and     *)
(* answers in the order of the calls.  Calls are abandoned by nobody: one  *)
(* that waits for an answer goes on whatever the user does meanwhile.      *)
(***************************************************************************)
EXTENDS RateLimiter, FiniteSets

CONSTANTS
  Accounts,
  Calls,        \* bound: the calls of AuthService under way
  Home,         \* the address the app connects from, which others may share
  AccessLife,   \* tokenExpiry, in ticks
  RefreshLife,  \* refreshExpiry
  MaxTime,      \* bound on now
  MaxStarts,    \* bound: how often the app is started
  None          \* nothing is stored

ASSUME SessionsAssumption ==
  /\ Home \in Addresses
  /\ AccessLife \in Nat /\ AccessLife >= 2
  /\ RefreshLife \in Nat /\ RefreshLife >= AccessLife
  /\ MaxTime \in Nat /\ MaxStarts \in Nat
  /\ None \notin Accounts /\ None \notin [user : Accounts, exp : Nat]

Token == [user : Accounts, exp : Nat]

\* auth_token, refresh_token and user_data, in the order they are written.
Keys == <<"token", "refresh", "user">>
Empty == [token |-> None, refresh |-> None, user |-> None]

VARIABLES
  status,   \* server: "new", "active", "suspended" or "deleted"
  since,    \* history: since[a] is when that began
  latest,   \* history: latest[a] is when the last access token of a expires
  prefs,    \* the cache of the preferences
  disk,     \* what survives the app
  queue,    \* writes the plugin has not answered
  torn,     \* history: the app ended amid a write, and has not written since
  session,  \* AuthService.sessionState
  told,     \* the gate is to check: it has started, or sessionState changed
  gate,     \* AuthGate: "off" (the app is not running), "loading", "login", "main"
  call,     \* call[c]: what AuthService does for a caller
  starts    \* how often the app may still be started

serverVars == <<status, since, latest, requests, admitted>>
storeVars == <<prefs, disk, queue, torn>>
appVars == <<session, told, gate, call>>
vars == <<now, serverVars, storeVars, appVars, starts>>

\* kind is the caller; arg what it sent, or what it writes.
Idle == [kind |-> "none", at |-> "idle", arg |-> None, aged |-> FALSE]
Free == {c \in Calls : call[c] = Idle}
Do(kind, at, arg) == [kind |-> kind, at |-> at, arg |-> arg, aged |-> FALSE]

Init ==
  /\ LimiterInit
  /\ status \in [Accounts -> {"new", "active"}]
  /\ since = [a \in Accounts |-> 0] /\ latest = [a \in Accounts |-> 0]
  /\ prefs = Empty /\ disk = Empty /\ queue = <<>> /\ torn = FALSE
  /\ session = FALSE /\ told = FALSE /\ gate = "off" /\ starts = MaxStarts
  /\ call = [c \in Calls |-> Idle]

-----------------------------------------------------------------------------
\* generateTokenPair
Pair(a) == [token |-> [user |-> a, exp |-> now + AccessLife],
            refresh |-> [user |-> a, exp |-> now + RefreshLife],
            user |-> a]

Issue(a) == latest' = [latest EXCEPT ![a] = now + AccessLife]

\* Mutant: a refresh does not look the user up.
RefreshableUnseen(token) == token.exp > now

\* RefreshToken: the token is valid, and GetUser finds the user.
Refreshable(token) == token.exp > now /\ status[token.user] # "deleted"

\* jwtExpiry and tokenIsExpired
Expired(token) == token.exp <= now

Set(a, s) ==
  /\ status' = [status EXCEPT ![a] = s]
  /\ since' = [since EXCEPT ![a] = now]

(***************************************************************************)
(* The server handles what a call asks: a refresh of a stored token, a     *)
(* login or a registration with an account, or the deletion of the account *)
(* that the header names.  One too many is answered 429.                   *)
(***************************************************************************)
Respond(c, answer) ==
  /\ call' = [call EXCEPT ![c].at = "answered", ![c].arg = answer]
  /\ UNCHANGED <<now, storeVars, session, told, gate, starts>>

\* Refused with 429, or for whatever reason: wrong credentials, an expired
\* token, no such user, a database that fails.
Reject(c) ==
  /\ call[c].at = "ask" /\ Allow(Home)
  /\ Respond(c, Empty) /\ UNCHANGED <<status, since, latest>>

\* The user is found, and is to get a pair, whatever becomes of the account.
Found(c, a) ==
  /\ call' = [call EXCEPT ![c].at = "found", ![c].arg = a]
  /\ UNCHANGED <<now, latest, storeVars, session, told, gate, starts>>

ServeLogin(c) ==
  LET a == call[c].arg
  IN  /\ call[c].at = "ask" /\ call[c].kind = "login" /\ Admit(Home)
      /\ \/ status[a] = "new" /\ Set(a, "active")
         \/ status[a] = "active" /\ UNCHANGED <<status, since>>
      /\ Found(c, a)

ServeRefresh(c) ==
  /\ call[c].at = "ask" /\ call[c].kind # "login" /\ Admit(Home)
  /\ Refreshable(call[c].arg)
  /\ Found(c, call[c].arg.user)
  /\ UNCHANGED <<status, since>>

ServePair(c) ==
  /\ call[c].at = "found"
  /\ Issue(call[c].arg) /\ Respond(c, Pair(call[c].arg))
  /\ UNCHANGED <<status, since, limiterVars>>

ServeDelete(c) ==
  LET token == call[c].arg
  IN  /\ call[c].at = "send" /\ call[c].kind = "delete"
      /\ ~Expired(token) /\ status[token.user] # "deleted"
      /\ Set(token.user, "deleted")
      /\ Respond(c, Empty) /\ UNCHANGED <<latest, limiterVars>>

\* An admin, or another app of the user.
Administer ==
  /\ \E a \in Accounts :
       \/ status[a] = "active" /\ Set(a, "suspended")
       \/ status[a] = "suspended" /\ Set(a, "active")
       \/ status[a] \in {"active", "suspended"} /\ Set(a, "deleted")
  /\ UNCHANGED <<now, latest, limiterVars, storeVars, appVars, starts>>

\* Others who come from the same address, and the cleanup of the limiter.
Crowd ==
  /\ Cleanup \/ \E a \in Addresses : Allow(a)
  /\ UNCHANGED <<now, status, since, latest, storeVars, appVars, starts>>

-----------------------------------------------------------------------------
(***************************************************************************)
(* _saveAuthData and logout are the same three writes, each awaited before *)
(* the next: of a pair, or of nothing.                                     *)
(***************************************************************************)
Put(c, k, pair) ==
  /\ prefs' = [prefs EXCEPT ![Keys[k]] = pair[Keys[k]]]
  /\ queue' = Append(queue, [call |-> c, key |-> k, pair |-> pair])

\* main and AuthGate.initState
Start ==
  /\ gate = "off" /\ starts > 0 /\ starts' = starts - 1
  /\ gate' = "loading" /\ told' = TRUE
  /\ UNCHANGED <<now, serverVars, storeVars, session, call>>

(***************************************************************************)
(* _checkAuth with isLoggedIn.  An expired token is renewed, or, without a *)
(* refresh token, forgotten; the gate waits for that.                      *)
(***************************************************************************)
\* Mutant: no look at the clock.
CurrentIfStored(token) == token # None

Current(token) == token # None /\ ~Expired(token)

Check ==
  /\ told /\ told' = FALSE
  /\ \/ /\ prefs.token = None /\ gate' = "login"
        /\ UNCHANGED <<prefs, queue, call>>
     \/ /\ Current(prefs.token) /\ gate' = "main"
        /\ UNCHANGED <<prefs, queue, call>>
     \/ /\ prefs.token # None /\ ~Current(prefs.token)
        /\ UNCHANGED gate
        /\ \E c \in Free :
             IF prefs.refresh # None
             THEN /\ call' = [call EXCEPT ![c] = Do("check", "ask", prefs.refresh)]
                  /\ UNCHANGED <<prefs, queue>>
             ELSE /\ call' = [call EXCEPT ![c] = Do("check", "write", Empty)]
                  /\ Put(c, 1, Empty)
  /\ UNCHANGED <<now, serverVars, disk, torn, session, starts>>

\* The last of the first n writes under way that is of key k.
LastWrite(n, k) ==
  {i \in 1 .. n : queue[i].key = k /\ \A j \in i + 1 .. n : queue[j].key # k}

\* What is stored under key k when the first n writes have reached the disk.
Left(n, k) ==
  IF LastWrite(n, k) = {} THEN disk[Keys[k]]
  ELSE LET i == CHOOSE i \in LastWrite(n, k) : TRUE IN queue[i].pair[Keys[k]]

\* The user ends the app, or the system does: of the writes under way,
\* those up to some one have reached the disk.
Stop ==
  /\ gate # "off" /\ gate' = "off"
  /\ \E n \in 0 .. Len(queue) :
       disk' = [token |-> Left(n, 1), refresh |-> Left(n, 2), user |-> Left(n, 3)]
  /\ prefs' = disk'
  /\ torn' = (torn \/ queue # <<>>)
  /\ queue' = <<>> /\ session' = FALSE /\ told' = FALSE
  /\ call' = [c \in Calls |-> Idle]
  /\ UNCHANGED <<now, serverVars, starts>>

-----------------------------------------------------------------------------
(***************************************************************************)
(* What the user begins.  Login (and register, which differs in the route  *)
(* only) from the login screen; the rest from the main screen.             *)
(***************************************************************************)
Login ==
  /\ gate = "login"
  /\ \E c \in Free, a \in Accounts : call' = [call EXCEPT ![c] = Do("login", "ask", a)]
  /\ UNCHANGED <<now, serverVars, storeVars, session, told, gate, starts>>

Logout ==
  /\ gate = "main"
  /\ \E c \in Free : /\ call' = [call EXCEPT ![c] = Do("logout", "write", Empty)]
                     /\ Put(c, 1, Empty)
  /\ UNCHANGED <<now, serverVars, disk, torn, session, told, gate, starts>>

\* getAuthHeaders, for a request, which may be the deletion of the account.
\* Without a token, or a refresh token, it goes without headers, and fails.
Request ==
  /\ gate = "main" /\ prefs.token # None
  /\ \E c \in Free, kind \in {"api", "delete"} :
       \/ /\ Current(prefs.token)
          /\ call' = [call EXCEPT ![c] = Do(kind, "send", prefs.token)]
       \/ /\ ~Current(prefs.token) /\ prefs.refresh # None
          /\ call' = [call EXCEPT ![c] = Do(kind, "ask", prefs.refresh)]
  /\ UNCHANGED <<now, serverVars, storeVars, session, told, gate, starts>>

\* The answer arrives: a pair to save; a rejection, which logs out whoever
\* refreshed; or the account is deleted, and that logs out too.
Receive(c) ==
  /\ call[c].at = "answered"
  /\ \/ /\ call[c].kind = "login" /\ call[c].arg = Empty
        /\ call' = [call EXCEPT ![c] = Idle]
        /\ UNCHANGED <<prefs, queue>>
     \/ /\ call[c].kind # "login" \/ call[c].arg # Empty
        /\ call' = [call EXCEPT ![c].at = "write"]
        /\ Put(c, 1, call[c].arg)
  /\ UNCHANGED <<now, serverVars, disk, torn, session, told, gate, starts>>

\* Mutant: the timeout is around the whole call, writes included.
WaitsForAny(c) == call[c] # Idle

WaitsForServer(c) == call[c].at \in {"ask", "found", "send", "answered"}

\* Mutant: isLoggedIn lets the exception through.
Uncaught(c) == gate

\* The exception of a request reaches the caller; to a check it means that
\* nobody is logged in.
Thrown(c) == IF call[c].kind = "check" THEN "login" ELSE gate

\* _withTimeout, or the connection fails, whatever the server did.
GiveUp(c) ==
  /\ WaitsForServer(c)
  /\ call' = [call EXCEPT ![c] = Idle]
  /\ gate' = Thrown(c)
  /\ UNCHANGED <<now, serverVars, storeVars, session, told, starts>>

-----------------------------------------------------------------------------
\* What a call does after its writes, to itself.
After(c) ==
  IF call[c].kind \in {"api", "delete"} /\ call[c].arg # Empty /\ prefs.token # None
  THEN [call[c] EXCEPT !.at = "send", !.arg = prefs.token]
  ELSE Idle

\* Mutant: logout forgets the flag.
FlagOnlySet(pair) == session \/ pair # Empty

\* The value of sessionState after the writes of pair.
Flag(pair) == pair # Empty

\* The writes of c have been answered.
Finish(c) ==
  /\ session' = Flag(call[c].arg)
  /\ told' = (session' # session)
  /\ gate' = IF call[c].kind # "check" THEN gate
             ELSE IF call[c].arg = Empty THEN "login" ELSE "main"
  /\ call' = [call EXCEPT ![c] = After(c)]

(***************************************************************************)
(* The plugin answers the oldest write.  The call makes its next one, or   *)
(* has made the last.                                                      *)
(***************************************************************************)
\* Mutant: logout leaves the refresh token.
FollowedBy(k, pair) == IF pair = Empty /\ k = 1 THEN 3 ELSE k + 1

Following(k, pair) == k + 1

Written ==
  /\ queue # <<>>
  /\ LET w == Head(queue)
         k == Following(w.key, w.pair)
     IN  /\ disk' = [disk EXCEPT ![Keys[w.key]] = w.pair[Keys[w.key]]]
         /\ \/ /\ k <= 3
               /\ prefs' = [prefs EXCEPT ![Keys[k]] = w.pair[Keys[k]]]
               /\ queue' = Append(Tail(queue), [w EXCEPT !.key = k])
               /\ UNCHANGED <<torn, appVars>>
            \/ /\ k > 3 /\ queue' = Tail(queue) /\ UNCHANGED prefs
               /\ torn' = FALSE
               /\ Finish(w.call)
  /\ UNCHANGED <<now, serverVars, starts>>

-----------------------------------------------------------------------------
\* A call waits less than two ticks: apiTimeout is short against the lives
\* of tokens.  From finding a user to making the pair the server takes none.
Tick ==
  /\ now < MaxTime /\ now' = now + 1
  /\ \A c \in Calls : ~call[c].aged /\ call[c].at # "found"
  /\ call' = [c \in Calls |-> IF call[c] = Idle THEN Idle ELSE [call[c] EXCEPT !.aged = TRUE]]
  /\ UNCHANGED <<serverVars, storeVars, session, told, gate, starts>>

Server(c) ==
  Reject(c) \/ ServeLogin(c) \/ ServeRefresh(c) \/ ServePair(c) \/ ServeDelete(c)

\* What an event leaves to do at once comes before the next event.
Next ==
  \/ Check
  \/ /\ ~told
     /\ \/ \E c \in Calls : Server(c) \/ Receive(c) \/ GiveUp(c)
        \/ Administer \/ Crowd \/ Start \/ Stop
        \/ Login \/ Logout \/ Request \/ Written \/ Tick

Spec == Init /\ [][Next]_vars

\* The plugin answers, and every call is answered or given up in the end.
Fairness ==
  WF_vars(Check) /\ WF_vars(~told /\ Written)
  /\ \A c \in Calls : WF_vars(~told /\ (Receive(c) \/ GiveUp(c)))

FairSpec == Spec /\ Fairness

-----------------------------------------------------------------------------
TokenOrNone == Token \cup {None}
Prefs == [token : TokenOrNone, refresh : TokenOrNone, user : Accounts \cup {None}]

\* The types of the variables; and a write is under way for a call that
\* waits for it.
SessionTypeOK ==
  /\ now \in 0 .. MaxTime /\ starts \in 0 .. MaxStarts
  /\ status \in [Accounts -> {"new", "active", "suspended", "deleted"}]
  /\ since \in [Accounts -> Nat] /\ latest \in [Accounts -> Nat]
  /\ prefs \in Prefs /\ disk \in Prefs /\ torn \in BOOLEAN
  /\ queue \in Seq([call : Calls, key : 1 .. 3, pair : Prefs])
  /\ session \in BOOLEAN /\ told \in BOOLEAN
  /\ gate \in {"off", "loading", "login", "main"}
  /\ call \in [Calls -> [kind : {"none", "check", "login", "logout", "api", "delete"},
                         at : {"idle", "ask", "found", "answered", "write", "send"},
                         arg : Token \cup Accounts \cup Prefs \cup {None}, aged : BOOLEAN]]
  /\ \A i \in DOMAIN queue : call[queue[i].call].at = "write"

\* A pair as the server issued it, for one account at one time.
Whole(pair) ==
  /\ pair.token # None /\ pair.refresh # None
  /\ pair.user = pair.token.user /\ pair.user = pair.refresh.user
  /\ pair.refresh.exp - pair.token.exp = RefreshLife - AccessLife

(***************************************************************************)
(* However logins, refreshes and logouts overlap, the three preferences    *)
(* never end as a mixture: when nothing is being written they are one pair *)
(* with its user, or all gone, and the disk agrees.  Only an app that ends *)
(* amid the writes may leave a mixture behind.                             *)
(***************************************************************************)
AllOrNothing ==
  queue = <<>> /\ ~torn => disk = prefs /\ (prefs = Empty \/ Whole(prefs))

Quiet == queue = <<>> /\ ~told /\ call = [c \in Calls |-> Idle]

(***************************************************************************)
(* The gate follows the session: when nothing is under way, a session that *)
(* was announced is stored and shown, and whoever is asked to log in has   *)
(* no session that would do.                                               *)
(***************************************************************************)
GateFollows ==
  Quiet => /\ session => gate = "main" /\ prefs.token # None
           /\ gate = "login" => ~session /\ (prefs.token = None \/ Expired(prefs.token))

(***************************************************************************)
(* Access tokens are not revoked, but those of an account that is deleted  *)
(* run out: none is issued that lasts beyond AccessLife from the deletion. *)
(***************************************************************************)
RunsOut(s) == \A a \in Accounts : status[a] = s => latest[a] <= since[a] + AccessLife

DeletedRunsOut == RunsOut("deleted")

\* The accepted risk of docs/decisoes.md:470: the token of a suspended user
\* is valid until it expires, 24 h at most.  Not so: RefreshToken gives out
\* new ones.
SuspendedRunsOut == RunsOut("suspended")

(***************************************************************************)
(* PROJECT_STATE.md:671: AuthGate reacts to logins and logouts without a   *)
(* restart of the app.  Not to the logout from a session that was stored   *)
(* when the app started: sessionState was false all the time.              *)
(***************************************************************************)
LogoutShown == Quiet /\ gate = "main" => prefs.token # None

(***************************************************************************)
(* A request goes out with a token that has not expired, whatever happened *)
(* to the session while the app refreshed it.                              *)
(***************************************************************************)
FreshHeaders ==
  [][\A c \in Calls : call[c].at # "send" /\ call'[c].at = "send" => call'[c].arg.exp > now']_vars

(***************************************************************************)
(* The app does not stay on the spinner: the gate comes to a decision, or  *)
(* the app ends.                                                           *)
(***************************************************************************)
GateDecides == gate = "loading" ~> gate # "loading"
=============================================================================
