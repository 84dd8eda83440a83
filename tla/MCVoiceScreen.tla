--------------------------- MODULE MCVoiceScreen ---------------------------
(* VoiceScreen with two calls under way at a time.                         *)
EXTENDS VoiceScreen
=============================================================================
