---------------------------- MODULE MCMembership ----------------------------
(* Membership on one channel with two seats and three users.  The first one  *)
(* makes the channel, may leave it or ask what a creator may, and may join   *)
(* it again, if need be while the account is being deleted; the second joins *)
(* it, and the third may join it, leave it, or try to change it.             *)
EXTENDS Membership, TLC

CONSTANTS u1, u2, u3

Makers == 1 :> u1 @@ 2 :> u1 @@ 3 :> u1 @@ 4 :> u2 @@ 5 :> u3

Purposes ==
  1 :> {"create"} @@ 2 :> {"remove", "own"} @@ 3 :> {"find"}
    @@ 4 :> {"find"} @@ 5 :> {"find", "remove", "own"}
=============================================================================
