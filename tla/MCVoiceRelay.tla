---------------------------- MODULE MCVoiceRelay ----------------------------
(* VoiceRelay on one room: two connections of two users, or a third one,   *)
(* with which the first user comes back before the first is seen to end.   *)
EXTENDS VoiceRelay, TLC

CONSTANTS a, b, c, u1, u2, r1

TwoUsers == (a :> u1) @@ (b :> u2)
Reconnected == (a :> u1) @@ (b :> u2) @@ (c :> u1)
OneRoom == [x \in Conns |-> r1]
=============================================================================
