-------------------------- MODULE MCStreamHandlers --------------------------
(***************************************************************************)
(* The handlers a SYN can name.  Streams share nothing but the session,    *)
(* which StreamFlow and SessionHandshake model, so a behaviour has streams *)
(* of one type, chosen by the first SYN; the other components stay in      *)
(* their initial states.                                                   *)
(***************************************************************************)
EXTENDS TcpForward, FileTransfer, ShellStream, HttpStream

VARIABLE named    \* the type the SYN names

vars == <<named, fwdVars, fileVars, shellVars, httpVars>>

Init ==
    /\ named \in {"tcp", "file", "shell", "web"}
    /\ FwdInit /\ FileInit /\ ShellInit /\ HttpInit
    /\ named # "file" => cp.op = "get"
    /\ named # "web" => page.kind = "local" /\ ~page.body /\ ~page.dispatched

Streams(name, next) == named = name /\ next /\ UNCHANGED named

Next ==
    \/ Streams("tcp", FwdNext) /\ UNCHANGED <<fileVars, shellVars, httpVars>>
    \/ Streams("file", FileNext) /\ UNCHANGED <<fwdVars, shellVars, httpVars>>
    \/ Streams("shell", ShellNext) /\ UNCHANGED <<fwdVars, fileVars, httpVars>>
    \/ Streams("web", HttpNext) /\ UNCHANGED <<fwdVars, fileVars, shellVars>>

(* The fairness of each component, for the one that runs. *)
Fairness ==
    /\ WF_fwdVars(named = "tcp" /\ ConnectorStep)
    /\ WF_fwdVars(named = "tcp" /\ ListenerStep)
    /\ WF_fileVars(named = "file" /\ CpStep)
    /\ WF_fileVars(named = "file" /\ FileStep)
    /\ \A s \in Shells :
          /\ WF_shellVars(named = "shell" /\ ShellStep(s))
          /\ WF_shellVars(named = "shell" /\ sh[s].proc = "killed" /\ ProcExits(s))
    /\ WF_httpVars(named = "web" /\ HttpStep)

Spec == Init /\ [][Next]_vars /\ Fairness

(* The forwarded connection and the request body implement BytePipe: an    *)
(* end reaches the other side only where the writer put it, whichever      *)
(* close, cancellation, reset or loss of the session comes in between      *)
(* (Pump's FIN, pendingStream.close against OnFIN).                        *)
PipesImplemented == ForwardIsPipe /\ BodyIsPipe
=============================================================================
