---------------------------- MODULE MCLinkStore ----------------------------
(* The link store with bounds on who is busy with the file at once: beside *)
(* the console's command one other writer; and after an edit neither a     *)
(* `bitbang link rm` nor a second goroutine is busy.                       *)
EXTENDS LinkStore

OneOtherWriter ==
    /\ \A x, y \in Writers \ Consoles : writer[x].pc # "idle" /\ writer[y].pc # "idle" => x = y
    /\ edits > 0 => ~raced /\ \A x \in Commands : writer[x].pc = "idle"
=============================================================================
