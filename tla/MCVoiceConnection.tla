------------------------- MODULE MCVoiceConnection -------------------------
(* VoiceConnection with room for a second call and a second socket, which  *)
(* the screen must not use.                                                *)
EXTENDS VoiceConnection
=============================================================================
