----------------------------- MODULE MCSessions -----------------------------
(* Sessions of one phone whose address others share.                       *)
EXTENDS Sessions

CONSTANTS ann, c1, c2, home
=============================================================================
