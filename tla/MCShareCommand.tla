-------------------------- MODULE MCShareCommand --------------------------
(* ShareCommand for TLC; the processes are interchangeable. *)
EXTENDS ShareCommand, TLC

CommandSymmetry == Permutations(Commands)
=============================================================================
