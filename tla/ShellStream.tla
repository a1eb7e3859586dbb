----------------------------- MODULE ShellStream ----------------------------
(***************************************************************************)
(* Shell streams under the process-wide limit: ShellHandler and            *)
(* shellAdmissions (internal/streamtype/shell.go) on the listener, and     *)
(* Session.Shell (internal/client/shellops.go) on each connector.  Every   *)
(* shell is the one stream of a connection of its own.                     *)
(*                                                                         *)
(* The command is an external process: it writes pieces, may ignore a      *)
(* hangup and cannot ignore a kill.  stdout and stderr are one output.     *)
(* Input, resizes and the listener's mirror change nothing here.  The data *)
(* channel keeps the order of frames, so the connector is given a frame    *)
(* when it is sent: one it had not read when it left might as well not     *)
(* have been sent.                                                         *)
(***************************************************************************)
EXTENDS StreamFrames, FiniteSets

CONSTANTS
    Shells,          \* connections that ask for a shell
    Owners,          \* the ones on the device owner's own credential
    MaxConcurrent,   \* shells at once, not 0
    OutMax           \* bound: pieces a command writes

VARIABLES
    live,      \* liveShells: admissions, oldest first
    sh,        \* the handler's side of each stream
    term       \* the connector: Session.Shell

shellVars == <<live, sh, term>>

ShellInit ==
    /\ live = <<>>
    /\ sh = [s \in Shells |->
               [stream |-> "none", closed |-> FALSE, doomed |-> FALSE, pc |-> "none", victim |-> {},
                due |-> FALSE, entry |-> FALSE, proc |-> "none", out |-> 0, pump |-> "off",
                cancelled |-> FALSE, wait |-> "off", gaveUp |-> FALSE, sentFIN |-> FALSE]]
    /\ term = [s \in Shells |-> [result |-> "none", got |-> 0]]

-----------------------------------------------------------------------------
(* Sending: a stream that is gone or whose FIN was sent takes nothing.     *)

ShellCanSend(s) == sh[s].stream = "open" /\ ~sh[s].sentFIN

(* Session.Shell: output until an error or the exit status. *)
TermGets(t, frame) ==
    IF t.result # "none" THEN t
    ELSE IF frame.kind = "DAT" THEN [t EXCEPT !.got = frame.piece]
    ELSE [t EXCEPT !.result = frame.kind]

ShellSends(s, frame) ==
    term' = [term EXCEPT ![s] = IF ShellCanSend(s) THEN TermGets(@, frame) ELSE @]

(* sendShellError: SYN with the error, then FIN. *)
ShellError == Signal("error")

Without(s) == SelectSeq(live, LAMBDA a : a # s)

-----------------------------------------------------------------------------
(* OnSYN.                                                                  *)

ShellArrives(s) ==
    /\ sh[s].pc = "none" /\ ~sh[s].closed
    /\ sh' = [sh EXCEPT ![s].stream = "open", ![s].pc = "syn"]
    /\ UNCHANGED <<live, term>>

(* oldestDisplaceable: the oldest one, or the oldest that is not an owner's. *)
Displaceable(s) == {i \in DOMAIN live : s \in Owners \/ live[i] \notin Owners}
OldestDisplaceable(s) == CHOOSE i \in Displaceable(s) : \A j \in Displaceable(s) : i <= j

(* admit. *)
ShellAdmit(s) ==
    /\ sh[s].pc = "syn"
    /\ \/ /\ Len(live) < MaxConcurrent
          /\ live' = Append(live, s)
          /\ sh' = [sh EXCEPT ![s].pc = "admitted"]
       \/ /\ Len(live) >= MaxConcurrent /\ Displaceable(s) # {}
          /\ LET old == live[OldestDisplaceable(s)]
             IN  /\ live' = Append(Without(old), s)
                 /\ sh' = [sh EXCEPT ![s].pc = "displacing", ![s].victim = {old}]
    /\ UNCHANGED term

ShellRefused(s) ==
    /\ sh[s].pc = "syn" /\ Len(live) >= MaxConcurrent /\ Displaceable(s) = {}
    /\ ShellSends(s, ShellError)
    /\ sh' = [sh EXCEPT ![s].pc = "done", ![s].sentFIN = @ \/ ShellCanSend(s)]
    /\ UNCHANGED live

(* evictFunc: nothing to call while the older shell has no process yet. *)
ShellDisplaces(s) ==
    /\ sh[s].pc = "displacing"
    /\ sh' = [t \in Shells |->
                IF t = s THEN [sh[t] EXCEPT !.pc = "admitted", !.victim = {}]
                ELSE IF t \in sh[s].victim THEN [sh[t] EXCEPT !.due = sh[t].pc = "up"]
                ELSE sh[t]]
    /\ UNCHANGED <<live, term>>

(* A pinned command that was given one, a closed handler, or a failed      *)
(* spawn: the deferred release gives the admission back.                   *)
ShellFails(s) ==
    /\ sh[s].pc = "admitted"
    /\ ShellSends(s, ShellError)
    /\ live' = Without(s)
    /\ sh' = [sh EXCEPT ![s].pc = "done", ![s].sentFIN = @ \/ ShellCanSend(s)]

(* Mutant: the closed flag is read before the lock is taken. *)
MutantShellSpawns(s) ==
    /\ sh[s].pc = "admitted"
    /\ sh' = [sh EXCEPT ![s].pc = "spawned", ![s].proc = "runs", ![s].entry = TRUE]
    /\ UNCHANGED <<live, term>>

(* Starting and registering the process is one step under the lock. *)
ShellSpawns(s) ==
    /\ sh[s].pc = "admitted" /\ ~sh[s].closed
    /\ sh' = [sh EXCEPT ![s].pc = "spawned", ![s].proc = "runs", ![s].entry = TRUE]
    /\ UNCHANGED <<live, term>>

(* setEvict, the pump and waitAndFinish. *)
ShellStarts(s) ==
    /\ sh[s].pc = "spawned"
    /\ sh' = [sh EXCEPT ![s].pc = "up", ![s].pump = "on", ![s].wait = "process"]
    /\ UNCHANGED <<live, term>>

-----------------------------------------------------------------------------
(* The process, and who ends it.                                           *)

ShellWrites(s) ==
    /\ sh[s].proc \in {"runs", "hungup"} /\ sh[s].out < OutMax
    /\ sh' = [sh EXCEPT ![s].out = @ + 1]
    /\ UNCHANGED <<live, term>>

ProcExits(s) ==
    /\ sh[s].proc \in {"runs", "hungup", "killed"}
    /\ sh' = [sh EXCEPT ![s].proc = "dead"]
    /\ UNCHANGED <<live, term>>

(* terminateShellProcess, a hangup. *)
Terminated(t) == [t EXCEPT !.proc = IF @ = "runs" THEN "hungup" ELSE @]

(* The evict function of a displaced shell: say why, then terminate. *)
ShellEvicted(s) ==
    /\ sh[s].due
    /\ ShellSends(s, ShellError)
    /\ sh' = [sh EXCEPT ![s] = [Terminated(sh[s]) EXCEPT !.due = FALSE,
                                                     !.sentFIN = @ \/ ShellCanSend(s)]]
    /\ UNCHANGED live

(* OnReset, when the stream is registered. *)
ShellOnReset(t) ==
    IF t.entry THEN [Terminated(t) EXCEPT !.cancelled = TRUE, !.stream = "gone"]
    ELSE [t EXCEPT !.stream = "gone"]

(* The connector resets the stream it no longer reads. *)
ShellReset(s) ==
    /\ sh[s].stream = "open" /\ term[s].result # "none"
    /\ sh' = [sh EXCEPT ![s] = ShellOnReset(@)]
    /\ UNCHANGED <<live, term>>

(* The connection ends, which closes the connector's inbox: Session.Close  *)
(* resets the stream and ShellHandler.Close terminates what is registered. *)
ShellCloses(s) ==
    /\ sh[s].pc # "none" /\ ~sh[s].closed
    /\ sh' = [sh EXCEPT ![s] = [ShellOnReset(@) EXCEPT !.closed = TRUE, !.doomed = sh[s].entry]]
    /\ term' = [term EXCEPT ![s].result = IF @ = "none" THEN "ended" ELSE @]
    /\ UNCHANGED live

(* Close after its grace, on what it found registered: a process may       *)
(* ignore a hangup.                                                        *)
ShellKills(s) ==
    /\ sh[s].doomed /\ sh[s].proc \in {"runs", "hungup"}
    /\ sh' = [sh EXCEPT ![s].proc = "killed"]
    /\ UNCHANGED <<live, term>>

-----------------------------------------------------------------------------
(* pumpReader and waitAndFinish.                                           *)

(* A piece to the stream; the pump ends at EOF, when it is cancelled, or   *)
(* when nobody takes its pieces any more.                                  *)
PumpSends(s) ==
    /\ sh[s].pump = "on" /\ term[s].got < sh[s].out /\ ~sh[s].cancelled
    /\ ShellCanSend(s) /\ term[s].result = "none"
    /\ ShellSends(s, Data(term[s].got + 1))
    /\ UNCHANGED <<live, sh>>

PumpEnds(s) ==
    /\ sh[s].pump = "on"
    /\ \/ sh[s].cancelled \/ ~ShellCanSend(s) \/ term[s].result # "none"
       \/ sh[s].proc = "dead" /\ term[s].got = sh[s].out
    /\ sh' = [sh EXCEPT ![s].pump = "ended"]
    /\ UNCHANGED <<live, term>>

(* The process was reaped: the stream is detached and the slot given back, *)
(* then the output drains.                                                 *)
ShellReaped(s) ==
    /\ sh[s].wait = "process" /\ sh[s].proc = "dead"
    /\ sh' = [sh EXCEPT ![s].wait = "output", ![s].entry = FALSE]
    /\ live' = Without(s)
    /\ UNCHANGED term

(* finishOutput gives up on a pump that is stuck, and cancels it. *)
DrainTimesOut(s) ==
    /\ sh[s].wait = "output" /\ sh[s].pump = "on" /\ ~sh[s].cancelled
    /\ sh' = [sh EXCEPT ![s].cancelled = TRUE, ![s].gaveUp = TRUE]
    /\ UNCHANGED <<live, term>>

(* Mutant: the exit status is sent without waiting for the pump. *)
MutantShellFinishes(s) ==
    /\ sh[s].wait = "output"
    /\ ShellSends(s, Signal("exited"))
    /\ sh' = [sh EXCEPT ![s].wait = "done", ![s].sentFIN = @ \/ ShellCanSend(s)]
    /\ UNCHANGED live

(* The exit status, once the output drained or was given up. *)
ShellFinishes(s) ==
    /\ sh[s].wait = "output" /\ (sh[s].pump = "ended" \/ sh[s].cancelled)
    /\ ShellSends(s, Signal("exited"))
    /\ sh' = [sh EXCEPT ![s].wait = "done", ![s].sentFIN = @ \/ ShellCanSend(s)]
    /\ UNCHANGED live

-----------------------------------------------------------------------------
(* Session.Shell returns because its user leaves: the stream is reset.     *)
TermEnds(s) ==
    /\ term[s].result = "none" /\ sh[s].stream = "open"
    /\ term' = [term EXCEPT ![s].result = "ended"]
    /\ sh' = [sh EXCEPT ![s] = ShellOnReset(@)]
    /\ UNCHANGED live

-----------------------------------------------------------------------------

ShellStep(s) ==
    \/ ShellAdmit(s) \/ ShellRefused(s) \/ ShellDisplaces(s) \/ ShellFails(s) \/ ShellSpawns(s)
    \/ ShellStarts(s) \/ ShellEvicted(s) \/ ShellKills(s)
    \/ PumpSends(s) \/ PumpEnds(s) \/ ShellReaped(s) \/ ShellFinishes(s)

ShellNext ==
    \E s \in Shells :
        \/ ShellStep(s)
        \/ ShellArrives(s) \/ ShellWrites(s) \/ ProcExits(s) \/ DrainTimesOut(s)
        \/ ShellReset(s) \/ ShellCloses(s)
        \/ TermEnds(s)

(* The listener's goroutines run, and a killed process dies. *)
ShellFairness ==
    \A s \in Shells :
        /\ WF_shellVars(ShellStep(s))
        /\ WF_shellVars(sh[s].proc = "killed" /\ ProcExits(s))

ShellSpec == ShellInit /\ [][ShellNext]_shellVars /\ ShellFairness

-----------------------------------------------------------------------------
(* Properties.                                                             *)

(* An exit status ends the output: a connector that was told the command   *)
(* exited has all of what the command wrote, unless the drain was given up *)
(* after its timeout.                                                      *)
ExitAfterOutput ==
    \A s \in Shells : term[s].result = "exited" /\ ~sh[s].gaveUp => term[s].got = sh[s].out

(* A closed connection keeps neither a process nor a place under the       *)
(* limit, also when it closes while OnSYN is between its admission and     *)
(* the registration of the process.                                        *)
ShellGone(s) == sh[s].proc \in {"none", "dead"} /\ \A i \in DOMAIN live : live[i] # s

ShellSlotReturned == \A s \in Shells : sh[s].closed ~> ShellGone(s)

(* MaxConcurrent caps the shells active at once, counting as ended a shell *)
(* that was told to go (shell.go's comment on MaxConcurrent).              *)
ShellLimitHolds ==
    Cardinality({s \in Shells : sh[s].proc = "runs" /\ ~sh[s].due}) <= MaxConcurrent
=============================================================================
