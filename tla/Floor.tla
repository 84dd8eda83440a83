------------------------------- MODULE Floor -------------------------------
(***************************************************************************)
(* What push-to-talk promises (docs/requisitos.md RF03, "Apenas um usuario *)
(* pode falar por vez"): every room has a floor that nobody or exactly one *)
(* user holds.  A user takes a floor that nobody holds, and the floor goes *)
(* from one user to another only by way of nobody holding it.              *)
(***************************************************************************)
CONSTANTS
  Users,   \* the users who may speak
  Rooms,   \* the rooms (channels) they speak in
  NoUser   \* the holder of a free floor

VARIABLE holder   \* holder[r]: who may speak in room r

Init == holder = [r \in Rooms |-> NoUser]

Take(u, r) ==
  /\ holder[r] = NoUser
  /\ holder' = [holder EXCEPT ![r] = u]

\* Several floors may be freed at once (a sweep over the idle rooms).
Free(S) ==
  holder' = [r \in Rooms |-> IF r \in S THEN NoUser ELSE holder[r]]

Next ==
  \/ \E u \in Users, r \in Rooms : Take(u, r)
  \/ \E S \in SUBSET Rooms : Free(S)

Spec == Init /\ [][Next]_holder
=============================================================================
