------------------------------- MODULE Shared -------------------------------
(* What the parts of the audio server have in common.                      *)
CONSTANTS
  Users,    \* user ids, never the empty string (HandleWebSocket sees to it)
  Rooms,    \* channel ids
  MaxSeq    \* bound: chunks added to the replay buffer of a room
=============================================================================
