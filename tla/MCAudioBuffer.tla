--------------------------- MODULE MCAudioBuffer ----------------------------
(* AudioBuffer on one room: chunks of one, two or four units against a     *)
(* limit of three, so that a chunk may fit beside another, fill the buffer *)
(* or exceed it alone.                                                     *)
EXTENDS AudioBuffer
=============================================================================
