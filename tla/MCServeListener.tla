-------------------------- MODULE MCServeListener --------------------------
(* Instances of ServeListener for TLC: one client id, so that it is reused *)
(* by the second peer, and one link.                                       *)
EXTENDS ServeListener
=============================================================================
