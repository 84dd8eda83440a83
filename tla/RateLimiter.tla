---------------------------- MODULE RateLimiter ----------------------------
(***************************************************************************)
(* RateLimiter (backend/internal/middleware/ratelimit.go) in front of the  *)
(* routes /auth/register, /auth/login and /auth/refresh: at most Limit     *)
(* requests of an address in a window.  Each operation holds mu from end   *)
(* to end, and is one action.  Time passes in ticks.                       *)
(***************************************************************************)
EXTENDS Integers, Sequences

CONSTANTS
  Addresses,  \* getClientID: the host a connection comes from
  Limit,
  Window      \* in ticks

ASSUME LimiterAssumption == Limit \in Nat \ {0} /\ Window \in Nat \ {0}

VARIABLES
  now,
  requests,   \* requests[a]: when the requests let through came
  admitted    \* history: the same, forgotten only when out of the window

limiterVars == <<requests, admitted>>

LimiterInit ==
  /\ now = 0
  /\ requests = [a \in Addresses |-> <<>>]
  /\ admitted = [a \in Addresses |-> <<>>]

\* The loop over the requests of a client keeps those with
\* req.After(windowStart), in their order.
ValidSince(times, windowStart) ==
  LET kept[i \in 0 .. Len(times)] ==
        IF i = 0 THEN <<>>
        ELSE IF times[i] > windowStart THEN Append(kept[i - 1], times[i])
        ELSE kept[i - 1]
  IN  kept[Len(times)]

Valid(times) == ValidSince(times, now - Window)

\* Mutant: one request too many.
AllowedOneMore(a) == Len(Valid(requests[a])) <= Limit

Allowed(a) == Len(Valid(requests[a])) < Limit

\* Allow, as the middleware uses it: a refusal stores nothing.
Admit(a) ==
  /\ Allowed(a)
  /\ requests' = [requests EXCEPT ![a] = Append(Valid(@), now)]
  /\ admitted' = [admitted EXCEPT ![a] = Append(Valid(@), now)]

Refuse(a) == ~Allowed(a) /\ UNCHANGED limiterVars

Allow(a) == Admit(a) \/ Refuse(a)

\* Cleanup, every minute.
Cleanup ==
  /\ requests' = [a \in Addresses |-> Valid(requests[a])]
  /\ UNCHANGED admitted

(***************************************************************************)
(* No window of any address holds more than Limit requests let through;    *)
(* and whoever has made fewer is let through, however often it was refused *)
(* before and whenever the cleanup ran.                                    *)
(***************************************************************************)
LimitExact ==
  \A a \in Addresses :
    LET made == Len(Valid(admitted[a]))
    IN  made <= Limit /\ (Allowed(a) <=> made < Limit)
=============================================================================
