--------------------------- MODULE MCShareWorker ---------------------------
(* ShareWorker for TLC. *)
EXTENDS ShareWorker
=============================================================================
