--------------------------- MODULE MCFrameQueue ---------------------------
(* FrameQueue for TLC. *)
EXTENDS FrameQueue
=============================================================================
