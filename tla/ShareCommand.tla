---------------------------- MODULE ShareCommand ----------------------------
(***************************************************************************)
(* The `bitbang share` commands on one tmux session (cmd/bitbang/share.go, *)
(* internal/share/state.go, lock_unix.go): share, rotate, status and stop  *)
(* on this target, and a command on another target, whose sweep comes by.  *)
(*                                                                         *)
(* What they share: the state directory, the lock file beside it, and the  *)
(* tmux management session in which the worker runs.  A command may be     *)
(* killed at any moment; the kernel then drops its flock and nothing else. *)
(* tmux, an external program, answers a probe truthfully or not at all.    *)
(***************************************************************************)
EXTENDS Naturals, FiniteSets

CONSTANTS
    Commands,   \* processes; each runs one command after another
    MaxStarts   \* bound: how many workers are ever started

ASSUME ShareAssumption == IsFiniteSet(Commands) /\ MaxStarts \in Nat

VARIABLES
    cmd,        \* what each process is doing
    lockPath,   \* the inode the lock file's name leads to, 0 if none
    dir,        \* the state directory exists
    record,     \* the nonce in state.json, 0 if there is none
    pane,       \* the management session: its state and its worker
    remain,     \* tmux's remain-on-exit: a finished pane stays listed
    worker,     \* start attempt (its nonce, its pid) -> life of the worker
    gaps        \* history: which of the two gaps in the exclusion were met

vars == <<cmd, lockPath, dir, record, pane, remain, worker, gaps>>

Starts == 1..MaxStarts
Inodes == 1..(Cardinality(Commands) + 1)

Idle == [op |-> "none", pc |-> "idle", fd |-> 0, own |-> 0, pid |-> 0,
         seen |-> 0, failing |-> FALSE]

Init ==
    /\ cmd = [p \in Commands |-> Idle]
    /\ lockPath = 0
    /\ dir = FALSE
    /\ record = 0
    /\ pane = [state |-> "gone", worker |-> 0]
    /\ remain \in BOOLEAN
    /\ worker = [w \in Starts |-> "none"]
    /\ gaps = {}

-----------------------------------------------------------------------------

At(p, pc) == cmd[p].pc = pc

(* On to the next step; "told": a message, and the command is over. *)
Goto(p, pc) ==
    cmd' = [cmd EXCEPT ![p] = IF pc = "told" THEN Idle ELSE [cmd[p] EXCEPT !.pc = pc, !.seen = 0]]

DiskUnchanged == UNCHANGED <<lockPath, dir, record>>
TmuxUnchanged == UNCHANGED <<pane, remain, worker>>

(* Past the flock: the process may act on the target. *)
Holds(p) == cmd[p].pc \notin {"idle", "flock"}

(* probeMgmt: what tmux says, or no answer. *)
Probes == {pane.state, "unknown"}
Exited(answer) == answer \in {"gone", "dead"}

(* An inode no process has open and no name leads to. *)
FreshInode == CHOOSE i \in Inodes : i # lockPath /\ \A p \in Commands : cmd[p].fd # i

-----------------------------------------------------------------------------
(* TryLock: open, creating the file if need be; then a flock that does not *)
(* wait.                                                                   *)

Enter(p, op) ==
    /\ At(p, "idle")
    /\ lockPath' = IF lockPath = 0 THEN FreshInode ELSE lockPath
    /\ cmd' = [cmd EXCEPT ![p] = [Idle EXCEPT !.op = op, !.pc = "flock", !.fd = lockPath']]
    /\ UNCHANGED <<dir, record, gaps>>
    /\ TmuxUnchanged

Flock(p) ==
    /\ At(p, "flock")
    /\ IF \E q \in Commands \ {p} : Holds(q) /\ cmd[q].fd = cmd[p].fd
       THEN /\ cmd' = [cmd EXCEPT ![p] = Idle]
            /\ UNCHANGED gaps
       ELSE /\ Goto(p, IF cmd[p].op = "sweep" THEN "visit" ELSE "load")
            /\ gaps' = IF cmd[p].fd = lockPath THEN gaps ELSE gaps \cup {"unlinked lock"}
    /\ DiskUnchanged
    /\ TmuxUnchanged

(* Release, os.Exit and a kill look the same to everybody else. *)
Exit(p) ==
    /\ ~At(p, "idle")
    /\ cmd' = [cmd EXCEPT ![p] = Idle]
    /\ UNCHANGED gaps
    /\ DiskUnchanged
    /\ TmuxUnchanged

-----------------------------------------------------------------------------
(* loadLiveShare: the state file first, then one probe.  A file that       *)
(* cannot be read is classified like one that can, stale or running.       *)

Load(p) ==
    /\ At(p, "load")
    /\ cmd' = [cmd EXCEPT ![p].seen = record, ![p].pc = "classify"]
    /\ UNCHANGED gaps
    /\ DiskUnchanged
    /\ TmuxUnchanged

Liveness(seen, answer) ==
    IF Exited(answer)
    THEN IF seen = 0 THEN "absent" ELSE "stale"
    ELSE IF seen = 0 THEN "unmanaged" ELSE "live"

(* What each command does with the classification. *)
Decision(op, liveness) ==
    IF liveness = "stale" THEN "clean"
    ELSE IF liveness = "absent" THEN IF op \in {"share", "rotate"} THEN "prepare" ELSE "told"
    ELSE IF op \in {"rotate", "stop"} THEN "stop"
    ELSE "told"

Classify(p) ==
    /\ At(p, "classify")
    /\ \E answer \in Probes :
         Goto(p, Decision(cmd[p].op, Liveness(cmd[p].seen, answer)))
    /\ UNCHANGED gaps
    /\ DiskUnchanged
    /\ TmuxUnchanged

-----------------------------------------------------------------------------
(* cleanupStale and what its caller does next.                             *)

AfterClean(c) ==
    IF c.failing THEN "told"
    ELSE IF c.op \in {"share", "rotate"} THEN "prepare"
    ELSE "stopped"

Clean(p) ==
    /\ At(p, "clean")
    /\ \E answer \in Probes :
         Goto(p, IF ~Exited(answer) THEN "told"
                 ELSE IF answer = "dead" THEN "reap" ELSE "remove")
    /\ UNCHANGED gaps
    /\ DiskUnchanged
    /\ TmuxUnchanged

(* kill-session on the exact name: whatever runs in it is gone too. *)
KillSession ==
    /\ pane' = [pane EXCEPT !.state = "gone"]
    /\ worker' = IF pane.state = "running" THEN [worker EXCEPT ![pane.worker] = "exited"]
                 ELSE worker
    /\ UNCHANGED remain

(* reapDeadMgmt; if tmux refuses, the command gives up. *)
Reap(p, pc, next) ==
    /\ At(p, pc)
    /\ \/ Goto(p, next) /\ KillSession
       \/ Goto(p, "told") /\ TmuxUnchanged
    /\ UNCHANGED gaps
    /\ DiskUnchanged

(* RemoveState takes the whole directory. *)
Remove(p) ==
    /\ At(p, "remove")
    /\ dir' = FALSE
    /\ record' = 0
    /\ Goto(p, AfterClean(cmd[p]))
    /\ UNCHANGED <<lockPath, gaps>>
    /\ TmuxUnchanged

-----------------------------------------------------------------------------
(* stopWorker.                                                             *)

(* workerPID, then SIGTERM, which a worker may heed or not. *)
StopSignal(p) ==
    /\ At(p, "stop")
    /\ \E answer \in Probes :
         cmd' = IF answer = "running"
                THEN [cmd EXCEPT ![p].pid = pane.worker, ![p].pc = "grace"]
                ELSE [cmd EXCEPT ![p].pc = "confirm"]
    /\ UNCHANGED gaps
    /\ DiskUnchanged
    /\ TmuxUnchanged

(* waitForWorkerExit: tmux reports the exit, or the grace runs out. *)
StopGrace(p) ==
    /\ At(p, "grace")
    /\ \E answer \in Probes : Goto(p, IF Exited(answer) THEN "confirm" ELSE "again")
    /\ UNCHANGED gaps
    /\ DiskUnchanged
    /\ TmuxUnchanged

(* Asked again: SIGKILL only for the process that was signalled before. *)
StopAgain(p) ==
    /\ At(p, "again")
    /\ \E answer \in Probes :
         Goto(p, IF answer = "running" /\ pane.worker = cmd[p].pid THEN "kill" ELSE "confirm")
    /\ UNCHANGED gaps
    /\ DiskUnchanged
    /\ TmuxUnchanged

(* The worker's end, as tmux shows it. *)
PaneEnds(w) ==
    /\ worker' = [worker EXCEPT ![w] = "exited"]
    /\ pane' = IF pane.worker = w /\ pane.state = "running"
               THEN [pane EXCEPT !.state = IF remain THEN "dead" ELSE "gone"]
               ELSE pane
    /\ UNCHANGED remain

StopKill(p) ==
    /\ At(p, "kill")
    /\ Goto(p, "confirm")
    /\ PaneEnds(cmd[p].pid)
    /\ UNCHANGED gaps
    /\ DiskUnchanged

(* Mutant: a stop whose signals were sent is reported without asking. *)
MutantConfirmSkipped(p) ==
    /\ At(p, "confirm")
    /\ Goto(p, IF cmd[p].op = "stop" THEN "stopped" ELSE "told")
    /\ UNCHANGED gaps
    /\ DiskUnchanged
    /\ TmuxUnchanged

(* The handles are dropped only on tmux's word that the worker is gone. *)
StopConfirm(p) ==
    /\ At(p, "confirm")
    /\ \E answer \in Probes : Goto(p, IF Exited(answer) THEN "clean" ELSE "told")
    /\ UNCHANGED gaps
    /\ DiskUnchanged
    /\ TmuxUnchanged

-----------------------------------------------------------------------------
(* startShare.                                                             *)

(* PrepareDir, then a husk that holds the session's name is reaped. *)
Prepare(p) ==
    /\ At(p, "prepare")
    /\ dir' = TRUE
    /\ \E answer \in Probes : Goto(p, IF answer = "dead" THEN "startreap" ELSE "spawn")
    /\ UNCHANGED <<lockPath, record, gaps>>
    /\ TmuxUnchanged

(* new-session with a fresh nonce; a name that is taken makes it fail. *)
Spawn(p) ==
    /\ At(p, "spawn")
    /\ IF pane.state # "gone"
       THEN /\ Goto(p, "told")
            /\ TmuxUnchanged
       ELSE /\ \E w \in Starts :
                 /\ worker[w] = "none"
                 /\ \A v \in 1..(w - 1) : worker[v] # "none"
                 /\ worker' = [worker EXCEPT ![w] = "starting"]
                 /\ pane' = [state |-> "running", worker |-> w]
                 /\ cmd' = [cmd EXCEPT ![p].own = w, ![p].pc = "await"]
            /\ UNCHANGED remain
    /\ UNCHANGED gaps
    /\ DiskUnchanged

(* waitForState: the file, or an error that is ignored, *)
AwaitLoad(p) ==
    /\ At(p, "await")
    /\ \E seen \in {record, 0} : cmd' = [cmd EXCEPT ![p].seen = seen, ![p].pc = "awaitprobe"]
    /\ UNCHANGED gaps
    /\ DiskUnchanged
    /\ TmuxUnchanged

(* then tmux; state counts only with this start's nonce and a running      *)
(* worker.  An exit or the timeout is answered with stopWorker.            *)
AwaitProbe(p) ==
    /\ At(p, "awaitprobe")
    /\ \E answer \in Probes :
         \/ /\ cmd[p].seen = cmd[p].own /\ answer = "running"
            /\ Goto(p, "started")
         \/ /\ ~(cmd[p].seen = cmd[p].own /\ answer = "running") /\ ~Exited(answer)
            /\ Goto(p, "await")
         \/ /\ ~(cmd[p].seen = cmd[p].own /\ answer = "running")
            /\ cmd' = [cmd EXCEPT ![p].failing = TRUE, ![p].pc = "stop"]
    /\ UNCHANGED gaps
    /\ DiskUnchanged
    /\ TmuxUnchanged

-----------------------------------------------------------------------------
(* The sweep of a command on another target: sweepOne for a directory,     *)
(* sweepOrphanLock for a lock file without one.                            *)

(* A directory without a record is removed without asking tmux, also one   *)
(* that went after it was listed.                                          *)
SweepVisit(p) ==
    /\ At(p, "visit")
    /\ \/ ~dir /\ Goto(p, "unlink") /\ UNCHANGED gaps
       \/ /\ record = 0 /\ Goto(p, "sweepremove")
          /\ gaps' = IF pane.state = "running" THEN gaps \cup {"tmux not asked"} ELSE gaps
       \/ record # 0 /\ Goto(p, "sweepprobe") /\ UNCHANGED gaps
    /\ DiskUnchanged
    /\ TmuxUnchanged

(* Mutant: no answer is taken for a worker that is gone. *)
MutantSweepOnGuess(p) ==
    /\ At(p, "sweepprobe")
    /\ \E answer \in Probes :
         Goto(p, IF answer = "running" THEN "told"
                 ELSE IF answer = "dead" THEN "sweepreap" ELSE "sweepremove")
    /\ UNCHANGED gaps
    /\ DiskUnchanged
    /\ TmuxUnchanged

(* No answer proves nothing, unless nothing listens on the socket. *)
SweepProbe(p) ==
    /\ At(p, "sweepprobe")
    /\ \/ pane.state = "gone" /\ Goto(p, "sweepremove")
       \/ pane.state = "dead" /\ Goto(p, "sweepreap")
       \/ Goto(p, "told")
    /\ UNCHANGED gaps
    /\ DiskUnchanged
    /\ TmuxUnchanged

(* removeStranded: the directory, then the lock file under the lock. *)
SweepRemove(p) ==
    /\ At(p, "sweepremove")
    /\ dir' = FALSE
    /\ record' = 0
    /\ Goto(p, "unlink")
    /\ UNCHANGED <<lockPath, gaps>>
    /\ TmuxUnchanged

Unlink(p) ==
    /\ At(p, "unlink")
    /\ lockPath' = 0
    /\ Goto(p, "told")
    /\ UNCHANGED <<dir, record, gaps>>
    /\ TmuxUnchanged

-----------------------------------------------------------------------------
(* The worker, as far as the commands can see it.                          *)

(* onReady, once: registered with signaling, so the record is written. *)
Publish(w) ==
    /\ worker[w] = "starting"
    /\ worker' = [worker EXCEPT ![w] = "ready"]
    /\ dir' = TRUE
    /\ record' = w
    /\ UNCHANGED <<cmd, lockPath, pane, remain, gaps>>

(* Stopped, expired, preempted, source gone or crashed; last words, if     *)
(* any, go into the directory.                                             *)
WorkerExits(w) ==
    /\ worker[w] \in {"starting", "ready"}
    /\ PaneEnds(w)
    /\ \E lastWords \in BOOLEAN : dir' = (dir \/ lastWords)
    /\ UNCHANGED <<cmd, lockPath, record, gaps>>

-----------------------------------------------------------------------------

CommandStep(p) ==
    \/ \E op \in {"share", "rotate", "status", "stop", "sweep"} : Enter(p, op)
    \/ Flock(p) \/ Exit(p)
    \/ Load(p) \/ Classify(p)
    \/ Clean(p) \/ Reap(p, "reap", "remove") \/ Remove(p)
    \/ StopSignal(p) \/ StopGrace(p) \/ StopAgain(p) \/ StopKill(p) \/ StopConfirm(p)
    \/ Prepare(p) \/ Reap(p, "startreap", "spawn") \/ Spawn(p)
    \/ AwaitLoad(p) \/ AwaitProbe(p)
    \/ SweepVisit(p) \/ SweepProbe(p) \/ Reap(p, "sweepreap", "sweepremove")
    \/ SweepRemove(p) \/ Unlink(p)

Next ==
    \/ \E p \in Commands : CommandStep(p)
    \/ \E w \in Starts : Publish(w) \/ WorkerExits(w)

Spec == Init /\ [][Next]_vars

-----------------------------------------------------------------------------
(* Properties.                                                             *)

(* A live share keeps its record: whatever the commands clean up, the      *)
(* state file of a worker that runs and has published stays.               *)
RecordKept == \A w \in Starts : worker[w] = "ready" => record = w

(* The same, as long as neither gap was met: a flock on a lock file that a *)
(* sweep had unlinked, and a sweep past a worker that is still starting.   *)
LiveShareKeepsRecord == gaps = {} => RecordKept

(* What a command reports is so: "Share stopped" leaves neither a worker   *)
(* nor a record, and the URLs "Sharing" prints are those of the worker in  *)
(* the management session, never of an earlier start, and are on record.   *)
ReportsAreTrue ==
    gaps = {} => \A p \in Commands :
        /\ At(p, "stopped") => pane.state # "running" /\ record = 0
        /\ At(p, "started") => pane.worker = cmd[p].own /\ record = cmd[p].own

=============================================================================
