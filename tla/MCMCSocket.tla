----------------------------- MODULE MCMCSocket -----------------------------
(* Frames of one and three bytes: enough for a write to be taken in part,  *)
(* refused, and met again by a longer buffer.                              *)
EXTENDS MCSocket

MCFrameSizes == {1, 3}
=============================================================================
