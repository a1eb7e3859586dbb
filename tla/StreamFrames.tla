---------------------------- MODULE StreamFrames ----------------------------
(***************************************************************************)
(* What one stream of a v4 session carries (internal/protocol): its SYN,   *)
(* data pieces numbered in order, its FIN, and a reset.  The data channel  *)
(* and the stream's queue behind it are one sequence of frames in each     *)
(* direction.  A reset is a message of the control stream: it takes effect *)
(* when it is read, whatever is still queued for the stream's worker.      *)
(***************************************************************************)
EXTENDS Naturals, Sequences

Signal(kind) == [kind |-> kind, piece |-> 0]
Data(n) == [kind |-> "DAT", piece |-> n]

HasReset(frames) == \E i \in DOMAIN frames : frames[i].kind = "RESET"

(* A stream is reset once, and what was sent before may still be read. *)
BeforeReset(frames) ==
    SubSeq(frames, 1, (CHOOSE i \in DOMAIN frames : frames[i].kind = "RESET") - 1)
=============================================================================
