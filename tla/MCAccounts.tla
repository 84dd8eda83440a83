----------------------------- MODULE MCAccounts -----------------------------
(* Accounts on an admin and another user, both admins in one of the two    *)
(* tables, and a third who may register.                                   *)
EXTENDS Accounts, TLC

CONSTANTS u1, u2, u3, e1, e2, p1, p2

Account(e, b) == [email |-> e, password |-> p1, admin |-> b, active |-> TRUE]
OneOrTwoAdmins ==
  {(u1 :> Account(e1, TRUE)) @@ (u2 :> Account(e2, b)) @@ (u3 :> Absent) : b \in BOOLEAN}
=============================================================================
