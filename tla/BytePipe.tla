------------------------------ MODULE BytePipe ------------------------------
(***************************************************************************)
(* What a stream promises for one direction of bytes, whatever carries     *)
(* them: the reader gets what the writer sent, in order, and is shown the  *)
(* end only when there is one, after everything that came before it.  A    *)
(* writer that breaks off promises nothing about what was under way.       *)
(* Bytes are counted in pieces.                                            *)
(***************************************************************************)
EXTENDS Naturals

VARIABLES
    sent,   \* pieces the writer has written
    end,    \* how the writer ended: "open", an orderly end, or "aborted"
    got,    \* pieces the reader has
    eof     \* the reader was shown the end

pipeVars == <<sent, end, got, eof>>

PipeInit == sent = 0 /\ end = "open" /\ got = 0 /\ eof = FALSE

Write == end = "open" /\ sent' = sent + 1 /\ UNCHANGED <<end, got, eof>>

Finish == end = "open" /\ end' # "open" /\ UNCHANGED <<sent, got, eof>>

(* The next piece: none is left out and none comes twice. *)
Read == ~eof /\ got < sent /\ got' = got + 1 /\ UNCHANGED <<sent, end, eof>>

ReadEnd ==
    /\ ~eof
    /\ end = "aborted" \/ (end # "open" /\ got = sent)
    /\ eof' = TRUE
    /\ UNCHANGED <<sent, end, got>>

PipeNext == Write \/ Finish \/ Read \/ ReadEnd

PipeSpec == PipeInit /\ [][PipeNext]_pipeVars
=============================================================================
