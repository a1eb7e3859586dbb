------------------------- MODULE ShareCommandProofs -------------------------
(***************************************************************************)
(* Proofs about ShareCommand, for any number of processes and of workers.  *)
(*                                                                         *)
(* What LiveShareKeepsRecord and ReportsAreTrue rest on is that a command  *)
(* is alone behind the lock until it has acted on what tmux told it.  That *)
(* holds until a process takes the flock of an unlinked file; hence the    *)
(* parts of the invariant that speak of the holder are conditional on      *)
(* gaps = {}.  Workers act beside the holder at any time, so what a holder *)
(* knows of tmux and of the record is only what a worker cannot undo: once *)
(* the pane does not run it stays so, and a record, once there, changes    *)
(* only when another worker publishes, which needs a pane of its own.      *)
(***************************************************************************)
EXTENDS ShareCommand, FiniteSetTheorems, TLAPS

Ops == {"none", "share", "rotate", "status", "stop", "sweep"}

Pcs ==
    {"idle", "flock", "load", "classify", "clean", "reap", "remove", "stop", "grace", "again", "kill",
     "confirm", "prepare", "startreap", "spawn", "await", "awaitprobe", "started", "stopped",
     "visit", "sweepprobe", "sweepreap", "sweepremove", "unlink"}

CmdRecord ==
    [op : Ops, pc : Pcs, fd : {0} \cup Inodes, own : {0} \cup Starts, pid : {0} \cup Starts,
     seen : {0} \cup Starts, failing : BOOLEAN]

PaneRecord == [state : {"gone", "dead", "running"}, worker : {0} \cup Starts]

(* Every variable in its range. *)
TypeInv ==
    /\ cmd \in [Commands -> CmdRecord]
    /\ lockPath \in {0} \cup Inodes
    /\ dir \in BOOLEAN
    /\ record \in {0} \cup Starts
    /\ pane \in PaneRecord
    /\ remain \in BOOLEAN
    /\ worker \in [Starts -> {"none", "starting", "ready", "exited"}]
    /\ gaps \in SUBSET {"unlinked lock", "tmux not asked"}

(* At most one worker lives, and it is the one tmux shows as running. *)
PaneRuns ==
    /\ pane.state = "running" => pane.worker \in Starts
    /\ \A w \in Starts : worker[w] \in {"starting", "ready"} <=> (pane.state = "running" /\ pane.worker = w)

(* A record is that of a worker which has published it. *)
Published == record # 0 => worker[record] \in {"ready", "exited"}

(* A signalled process is one that was started. *)
Signalled == \A p \in Commands : cmd[p].pc \in {"grace", "again", "kill"} => cmd[p].pid \in Starts

(* A command has the lock file open. *)
Opened == \A p \in Commands : cmd[p].pc # "idle" => cmd[p].fd # 0

Behind(c) == c.pc \notin {"idle", "flock"}

(* Whoever is past the flock holds the lock file that has the name, alone. *)
Excluded ==
    gaps = {} => \A p \in Commands : Behind(cmd[p]) =>
        /\ lockPath # 0 /\ cmd[p].fd = lockPath
        /\ \A q \in Commands : Behind(cmd[q]) => q = p

(* What a command that got as far as c knows of the pane and the record. *)
Stage(c, pn, rec) ==
    /\ c.pc \in {"reap", "remove", "sweepreap", "sweepremove"} => pn.state # "running"
    /\ c.pc = "stopped" => pn.state # "running" /\ rec = 0
    /\ c.pc \in {"await", "awaitprobe", "started"} => c.own \in Starts /\ pn.worker = c.own
    /\ c.pc = "awaitprobe" /\ c.seen = c.own => rec = c.own
    /\ c.pc = "started" => rec = c.own

Staged == gaps = {} => \A p \in Commands : Stage(cmd[p], pane, record)

ShareInv == TypeInv /\ PaneRuns /\ Published /\ Signalled /\ Opened /\ Excluded /\ Staged /\ LiveShareKeepsRecord

-----------------------------------------------------------------------------

LEMMA Idling == Idle \in CmdRecord /\ Idle.pc = "idle" /\ Idle.fd = 0
BY DEF Idle, CmdRecord, Ops, Pcs

LEMMA StartsNotZero == 0 \notin Starts
BY ShareAssumption DEF Starts

(* Where Goto takes a command. *)
LEMMA Going ==
    ASSUME NEW p \in Commands, NEW pc \in Pcs \cup {"told"}, TypeInv, Goto(p, pc)
    PROVE  \E c \in CmdRecord :
              /\ cmd' = [cmd EXCEPT ![p] = c]
              /\ \/ pc = "told" /\ c = Idle
                 \/ /\ pc # "told" /\ c.pc = pc /\ c.op = cmd[p].op /\ c.fd = cmd[p].fd
                    /\ c.own = cmd[p].own /\ c.pid = cmd[p].pid
<1> DEFINE d == [cmd[p] EXCEPT !.pc = pc, !.seen = 0]
           c == IF pc = "told" THEN Idle ELSE d
<1>1. cmd[p] \in CmdRecord
  BY DEF TypeInv
<1>2. pc # "told" => /\ d \in CmdRecord /\ d.pc = pc /\ d.op = cmd[p].op /\ d.fd = cmd[p].fd
                     /\ d.own = cmd[p].own /\ d.pid = cmd[p].pid
  BY <1>1 DEF CmdRecord
<1>3. cmd' = [cmd EXCEPT ![p] = c]
  BY DEF Goto
<1> HIDE DEF d
<1>4. c \in CmdRecord
  BY <1>2, Idling
<1>5. (c = Idle /\ pc = "told") \/ (c = d /\ pc # "told")
  OBVIOUS
<1> HIDE DEF c
<1> QED
  BY <1>2, <1>3, <1>4, <1>5

(* A step of the process behind the lock.  Only it is held to what it      *)
(* knows; the others know nothing yet.                                     *)
LEMMA HolderKeeps ==
    ASSUME ShareInv, NEW p \in Commands, Behind(cmd[p]), NEW c \in CmdRecord,
           cmd' = [cmd EXCEPT ![p] = c],
           c.pc # "idle" => c.fd = cmd[p].fd /\ lockPath' = lockPath,
           lockPath' = lockPath \/ lockPath' = 0,
           c.pc \in {"grace", "again", "kill"} => c.pid \in Starts,
           gaps \subseteq gaps', gaps' \in SUBSET {"unlinked lock", "tmux not asked"},
           dir' \in BOOLEAN, record' \in {0} \cup Starts, pane' \in PaneRecord, remain' \in BOOLEAN,
           worker' \in [Starts -> {"none", "starting", "ready", "exited"}],
           PaneRuns', Published',
           gaps' = {} => RecordKept' /\ Stage(c, pane', record')
    PROVE  ShareInv'
<1>1. cmd \in [Commands -> CmdRecord] /\ lockPath \in {0} \cup Inodes
  BY DEF ShareInv, TypeInv
<1>2. cmd' \in [Commands -> CmdRecord]
  BY <1>1
<1>3. cmd'[p] = c /\ \A q \in Commands : q # p => cmd'[q] = cmd[q]
  BY <1>1
<1>4. TypeInv'
  BY <1>1, <1>2 DEF TypeInv
<1>5. Signalled' /\ Opened'
  BY <1>3 DEF ShareInv, Signalled, Opened, Behind
<1>6. gaps' = {} => gaps = {}
  OBVIOUS
<1>7. Excluded'
  BY <1>3, <1>6 DEF ShareInv, Excluded, Behind
<1>8. gaps' = {} => \A q \in Commands : q # p => ~Behind(cmd[q])
  BY <1>6 DEF ShareInv, Excluded
<1>9. Staged'
  BY <1>3, <1>8 DEF Staged, Stage, Behind
<1> QED
  BY <1>4, <1>5, <1>7, <1>9 DEF ShareInv, LiveShareKeepsRecord

(* The same for a step that leaves the disk and tmux alone. *)
LEMMA QuietKeeps ==
    ASSUME ShareInv, NEW p \in Commands, Behind(cmd[p]), NEW c \in CmdRecord,
           cmd' = [cmd EXCEPT ![p] = c],
           c.pc # "idle" => c.fd = cmd[p].fd,
           c.pc \in {"grace", "again", "kill"} => c.pid \in Starts,
           gaps \subseteq gaps', gaps' \in SUBSET {"unlinked lock", "tmux not asked"},
           DiskUnchanged, TmuxUnchanged,
           gaps' = {} => Stage(c, pane, record)
    PROVE  ShareInv'
<1>1. /\ dir' = dir /\ record' = record /\ lockPath' = lockPath
      /\ pane' = pane /\ remain' = remain /\ worker' = worker
  BY DEF DiskUnchanged, TmuxUnchanged
<1>2. PaneRuns' /\ Published' /\ (gaps' = {} => RecordKept')
  BY <1>1 DEF ShareInv, PaneRuns, Published, LiveShareKeepsRecord, RecordKept
<1> QED
  BY <1>1, <1>2, HolderKeeps DEF ShareInv, TypeInv

-----------------------------------------------------------------------------
(* The lock.                                                               *)

(* There are more inodes than processes have open. *)
LEMMA InodeToSpare ==
    ASSUME TypeInv, lockPath = 0
    PROVE  FreshInode \in Inodes
<1> DEFINE open == {cmd[q].fd : q \in Commands}
           n == Cardinality(Commands)
<1>1. IsFiniteSet(Commands) /\ n \in Nat
  BY ShareAssumption, FS_CardinalityType
<1>2. IsFiniteSet(open) /\ Cardinality(open) \in Nat /\ Cardinality(open) <= n
  <2> DEFINE f == [q \in Commands |-> cmd[q].fd]
  <2>1. f \in Surjection(Commands, open)
    BY DEF Surjection
  <2> HIDE DEF open, f
  <2>2. IsFiniteSet(open) /\ Cardinality(open) <= Cardinality(Commands)
    BY <1>1, <2>1, FS_Surjection
  <2> QED
    BY <2>2, FS_CardinalityType
<1>3. Inodes = 1..(n + 1)
  BY DEF Inodes
<1> HIDE DEF n
<1>4. IsFiniteSet(Inodes) /\ Cardinality(Inodes) = n + 1
  <2>1. 1 \in Int /\ n + 1 \in Int /\ 1 <= n + 1
    BY <1>1
  <2>2. /\ IsFiniteSet(1..(n + 1))
        /\ Cardinality(1..(n + 1)) = IF 1 > n + 1 THEN 0 ELSE (n + 1) - 1 + 1
    BY <2>1, FS_Interval
  <2> QED
    BY <1>1, <1>3, <2>2
<1> HIDE DEF open
<1>5. ~(Inodes \subseteq open)
  <2> SUFFICES ASSUME Inodes \subseteq open PROVE FALSE
    OBVIOUS
  <2>1. Cardinality(Inodes) <= Cardinality(open)
    BY <1>2, FS_Subset
  <2> QED
    BY <1>1, <1>2, <1>4, <2>1
<1>6. \E i \in Inodes : i # lockPath /\ \A q \in Commands : cmd[q].fd # i
  BY <1>5, <1>3, <1>1 DEF open
<1> QED
  BY <1>6 DEF FreshInode

LEMMA EnterKeeps ==
    ASSUME ShareInv, NEW p \in Commands, NEW op \in Ops, Enter(p, op)
    PROVE  ShareInv'
<1> DEFINE c == [Idle EXCEPT !.op = op, !.pc = "flock", !.fd = lockPath']
<1>1. TypeInv /\ cmd \in [Commands -> CmdRecord] /\ ~Behind(cmd[p])
  BY DEF ShareInv, TypeInv, Enter, At, Behind
<1>2. lockPath' \in Inodes /\ (lockPath # 0 => lockPath' = lockPath)
  BY <1>1, InodeToSpare DEF Enter, TypeInv
<1>3. c \in CmdRecord /\ c.pc = "flock"
  BY <1>2 DEF Idle, CmdRecord, Pcs
<1>4. cmd' = [cmd EXCEPT ![p] = c]
  BY DEF Enter
<1> HIDE DEF c
<1>5. cmd' \in [Commands -> CmdRecord] /\ cmd'[p] = c /\ \A q \in Commands : q # p => cmd'[q] = cmd[q]
  BY <1>1, <1>3, <1>4
<1>6. UNCHANGED <<dir, record, gaps, pane, remain, worker>>
  BY DEF Enter, TmuxUnchanged
<1>7. TypeInv'
  BY <1>1, <1>2, <1>5, <1>6 DEF TypeInv
<1>8. PaneRuns' /\ Published' /\ LiveShareKeepsRecord'
  BY <1>6 DEF ShareInv, PaneRuns, Published, LiveShareKeepsRecord, RecordKept
<1>9. Signalled' /\ Opened'
  <2>1. c.fd # 0
    BY <1>1, <1>2 DEF c, Idle, Inodes
  <2> QED
    BY <1>3, <1>5, <2>1 DEF ShareInv, Signalled, Opened
<1>10. Excluded'
  BY <1>2, <1>3, <1>5, <1>6 DEF ShareInv, Excluded, Behind
<1>11. Staged'
  BY <1>3, <1>5, <1>6 DEF ShareInv, Staged, Stage
<1> QED
  BY <1>7, <1>8, <1>9, <1>10, <1>11 DEF ShareInv

(* A flock that succeeds on the file with the name finds nobody behind it. *)
LEMMA FlockKeeps ==
    ASSUME ShareInv, NEW p \in Commands, Flock(p)
    PROVE  ShareInv'
<1> DEFINE busy == \E q \in Commands \ {p} : Holds(q) /\ cmd[q].fd = cmd[p].fd
           pc == IF cmd[p].op = "sweep" THEN "visit" ELSE "load"
<1>1. TypeInv /\ cmd \in [Commands -> CmdRecord] /\ ~Behind(cmd[p])
  BY DEF ShareInv, TypeInv, Flock, At, Behind
<1>2. UNCHANGED <<lockPath, dir, record, pane, remain, worker>>
  BY DEF Flock, DiskUnchanged, TmuxUnchanged
<1>3. PICK c \in CmdRecord :
        /\ cmd' = [cmd EXCEPT ![p] = c]
        /\ \/ busy /\ c.pc = "idle" /\ gaps' = gaps
           \/ /\ ~busy /\ c.pc \in {"visit", "load"} /\ c.fd = cmd[p].fd
              /\ gaps' = IF cmd[p].fd = lockPath THEN gaps ELSE gaps \cup {"unlinked lock"}
  <2>1. CASE busy
    BY <2>1, Idling DEF Flock
  <2>2. CASE ~busy
    <3>1. Goto(p, pc)
      BY <2>2 DEF Flock
    <3>2. pc \in {"visit", "load"} /\ pc \in Pcs
      BY DEF Pcs
    <3>3. gaps' = IF cmd[p].fd = lockPath THEN gaps ELSE gaps \cup {"unlinked lock"}
      BY <2>2 DEF Flock
    <3> HIDE DEF pc
    <3>4. PICK d \in CmdRecord :
            /\ cmd' = [cmd EXCEPT ![p] = d]
            /\ d.pc = pc /\ d.fd = cmd[p].fd
      BY <1>1, <3>1, <3>2, Going
    <3> QED
      BY <2>2, <3>2, <3>3, <3>4
  <2> QED
    BY <2>1, <2>2
<1>4. cmd' \in [Commands -> CmdRecord] /\ cmd'[p] = c /\ \A q \in Commands : q # p => cmd'[q] = cmd[q]
  BY <1>1, <1>3
<1>5. gaps \subseteq gaps' /\ gaps' \in SUBSET {"unlinked lock", "tmux not asked"}
  BY <1>1, <1>3 DEF TypeInv
<1>6. TypeInv'
  BY <1>1, <1>2, <1>4, <1>5 DEF TypeInv
<1>7. PaneRuns' /\ Published' /\ LiveShareKeepsRecord'
  BY <1>2, <1>5 DEF ShareInv, PaneRuns, Published, LiveShareKeepsRecord, RecordKept
<1>8. cmd[p].fd # 0
  BY DEF ShareInv, Opened, Flock, At
<1> Signalled' /\ Opened'
  BY <1>3, <1>4, <1>8 DEF ShareInv, Signalled, Opened
<1>9. Staged'
  BY <1>2, <1>3, <1>4, <1>5 DEF ShareInv, Staged, Stage
<1>10. Excluded'
  <2> SUFFICES ASSUME gaps' = {} PROVE Excluded'
    BY DEF Excluded
  <2>1. gaps = {}
    BY <1>5
  <2>2. CASE c.pc = "idle"
    BY <1>2, <1>4, <2>1, <2>2 DEF ShareInv, Excluded, Behind
  <2>3. CASE c.pc # "idle"
    <3>1. ~busy /\ c.fd = cmd[p].fd /\ cmd[p].fd = lockPath
      BY <1>3, <2>3
    <3>2. \A q \in Commands : q # p => ~Behind(cmd[q])
      BY <2>1, <3>1 DEF ShareInv, Excluded, Holds, Behind
    <3>3. lockPath # 0
      BY <1>8, <3>1
    <3> QED
      BY <1>2, <1>4, <3>1, <3>2, <3>3 DEF Excluded
  <2> QED
    BY <2>2, <2>3
<1> QED
  BY <1>6, <1>7, <1>8, <1>9, <1>10 DEF ShareInv

-----------------------------------------------------------------------------
(* Steps that only ask.                                                    *)

LEMMA GotoKeeps ==
    ASSUME ShareInv, NEW p \in Commands, Behind(cmd[p]),
           NEW pc \in (Pcs \ {"idle", "flock", "awaitprobe", "stopped"}) \cup {"told"}, Goto(p, pc),
           pc \in {"grace", "again", "kill"} => cmd[p].pid \in Starts,
           gaps \subseteq gaps', gaps' \in SUBSET {"unlinked lock", "tmux not asked"},
           DiskUnchanged, TmuxUnchanged,
           gaps' = {} /\ pc \in {"reap", "remove", "sweepreap", "sweepremove"} => pane.state # "running",
           gaps' = {} /\ pc \in {"await", "started"} => cmd[p].own \in Starts /\ pane.worker = cmd[p].own,
           gaps' = {} /\ pc = "started" => record = cmd[p].own
    PROVE  ShareInv'
<1>1. TypeInv /\ pc \in Pcs \cup {"told"}
  BY DEF ShareInv
<1>2. PICK c \in CmdRecord :
        /\ cmd' = [cmd EXCEPT ![p] = c]
        /\ \/ pc = "told" /\ c = Idle
           \/ /\ pc # "told" /\ c.pc = pc /\ c.op = cmd[p].op /\ c.fd = cmd[p].fd
              /\ c.own = cmd[p].own /\ c.pid = cmd[p].pid
  BY <1>1, Going
<1>3. c.pc = IF pc = "told" THEN "idle" ELSE pc
  BY <1>2, Idling
<1>4. gaps' = {} => Stage(c, pane, record)
  BY <1>2, <1>3 DEF Stage
<1> QED
  BY <1>2, <1>3, <1>4, QuietKeeps

LEMMA GapsType == ShareInv => gaps \subseteq gaps /\ gaps \in SUBSET {"unlinked lock", "tmux not asked"}
BY DEF ShareInv, TypeInv

LEMMA ExitKeeps ==
    ASSUME ShareInv, NEW p \in Commands, Exit(p)
    PROVE  ShareInv'
<1>1. cmd \in [Commands -> CmdRecord] /\ cmd' = [cmd EXCEPT ![p] = Idle] /\ gaps' = gaps
  BY DEF ShareInv, TypeInv, Exit
<1>2. UNCHANGED <<lockPath, dir, record, pane, remain, worker>>
  BY DEF Exit, DiskUnchanged, TmuxUnchanged
<1>3. cmd' \in [Commands -> CmdRecord] /\ cmd'[p] = Idle /\ \A q \in Commands : q # p => cmd'[q] = cmd[q]
  BY <1>1, Idling
<1>4. TypeInv'
  BY <1>1, <1>2, <1>3 DEF ShareInv, TypeInv
<1>5. PaneRuns' /\ Published' /\ LiveShareKeepsRecord'
  BY <1>1, <1>2 DEF ShareInv, PaneRuns, Published, LiveShareKeepsRecord, RecordKept
<1>6. Signalled' /\ Opened'
  BY <1>3, Idling DEF ShareInv, Signalled, Opened
<1>7. Excluded'
  BY <1>1, <1>2, <1>3, Idling DEF ShareInv, Excluded, Behind
<1>8. Staged'
  BY <1>1, <1>2, <1>3, Idling DEF ShareInv, Staged, Stage
<1> QED
  BY <1>4, <1>5, <1>6, <1>7, <1>8 DEF ShareInv

LEMMA LoadKeeps ==
    ASSUME ShareInv, NEW p \in Commands, Load(p) \/ AwaitLoad(p)
    PROVE  ShareInv'
<1> DEFINE pc == IF At(p, "load") THEN "classify" ELSE "awaitprobe"
<1>1. cmd \in [Commands -> CmdRecord] /\ cmd[p] \in CmdRecord /\ record \in {0} \cup Starts
  BY DEF ShareInv, TypeInv
<1>2. /\ cmd[p].pc \in {"load", "await"}
      /\ (cmd[p].pc = "await") <=> (pc = "awaitprobe")
      /\ pc \in {"classify", "awaitprobe"} /\ pc \in Pcs
  BY DEF Load, AwaitLoad, At, Pcs
<1>3. PICK seen \in {record, 0} : cmd' = [cmd EXCEPT ![p].seen = seen, ![p].pc = pc]
  BY <1>1 DEF Load, AwaitLoad, At
<1>4. DiskUnchanged /\ TmuxUnchanged /\ gaps' = gaps
  BY DEF Load, AwaitLoad
<1> HIDE DEF pc
<1> DEFINE c == [cmd[p] EXCEPT !.seen = seen, !.pc = pc]
<1>5. cmd' = [cmd EXCEPT ![p] = c]
  BY <1>1, <1>3
<1>6. c \in CmdRecord /\ c.pc = pc /\ c.fd = cmd[p].fd /\ c.own = cmd[p].own /\ c.seen \in {record, 0}
  BY <1>1, <1>2 DEF CmdRecord
<1> HIDE DEF c
<1>7. gaps = {} => Stage(cmd[p], pane, record)
  BY DEF ShareInv, Staged
<1>8. gaps' = {} => Stage(c, pane, record)
  BY <1>2, <1>4, <1>6, <1>7, StartsNotZero DEF Stage
<1>9. Behind(cmd[p]) /\ c.pc \notin {"idle", "grace", "again", "kill"}
  BY <1>2, <1>6 DEF Behind
<1> QED
  BY <1>4, <1>5, <1>6, <1>8, <1>9, QuietKeeps, GapsType

LEMMA ClassifyKeeps ==
    ASSUME ShareInv, NEW p \in Commands, Classify(p)
    PROVE  ShareInv'
<1>1. PICK answer \in Probes : Goto(p, Decision(cmd[p].op, Liveness(cmd[p].seen, answer)))
  BY DEF Classify
<1> DEFINE pc == Decision(cmd[p].op, Liveness(cmd[p].seen, answer))
<1>2. pc \in {"clean", "prepare", "told", "stop"}
  BY DEF Decision
<1>3. Behind(cmd[p]) /\ DiskUnchanged /\ TmuxUnchanged /\ gaps' = gaps
  BY DEF Classify, At, Behind
<1>4. Goto(p, pc)
  BY <1>1
<1> HIDE DEF pc
<1> QED
  BY <1>2, <1>3, <1>4, GotoKeeps, GapsType DEF Pcs

(* tmux's word that a worker is gone is the truth when it is given. *)
LEMMA Answered == ASSUME NEW answer \in Probes, Exited(answer) PROVE pane.state = answer
BY DEF Probes, Exited

LEMMA CleanKeeps ==
    ASSUME ShareInv, NEW p \in Commands, Clean(p)
    PROVE  ShareInv'
<1>1. PICK answer \in Probes :
        Goto(p, IF ~Exited(answer) THEN "told" ELSE IF answer = "dead" THEN "reap" ELSE "remove")
  BY DEF Clean
<1> DEFINE pc == IF ~Exited(answer) THEN "told" ELSE IF answer = "dead" THEN "reap" ELSE "remove"
<1>2. pc \in {"told", "reap", "remove"} /\ (pc # "told" => pane.state # "running")
  BY Answered DEF Exited
<1>3. Behind(cmd[p]) /\ DiskUnchanged /\ TmuxUnchanged /\ gaps' = gaps
  BY DEF Clean, At, Behind
<1>4. Goto(p, pc)
  BY <1>1
<1> HIDE DEF pc
<1> QED
  BY <1>2, <1>3, <1>4, GotoKeeps, GapsType DEF Pcs

LEMMA StopSignalKeeps ==
    ASSUME ShareInv, NEW p \in Commands, StopSignal(p)
    PROVE  ShareInv'
<1> DEFINE b == [cmd[p] EXCEPT !.pid = pane.worker, !.pc = "grace"]
           d == [cmd[p] EXCEPT !.pc = "confirm"]
<1>1. cmd \in [Commands -> CmdRecord] /\ cmd[p] \in CmdRecord /\ pane.worker \in {0} \cup Starts
  BY DEF ShareInv, TypeInv, PaneRecord
<1>2. b \in CmdRecord /\ b.pc = "grace" /\ b.fd = cmd[p].fd /\ b.pid = pane.worker
  BY <1>1 DEF CmdRecord, Pcs
<1>3. d \in CmdRecord /\ d.pc = "confirm" /\ d.fd = cmd[p].fd
  BY <1>1 DEF CmdRecord, Pcs
<1>4. PICK answer \in Probes :
        cmd' = IF answer = "running" THEN [cmd EXCEPT ![p] = b] ELSE [cmd EXCEPT ![p] = d]
  BY <1>1 DEF StopSignal
<1> HIDE DEF b, d
<1>5. answer = "running" => pane.worker \in Starts
  <2>1. answer = "running" => pane.state = "running"
    BY DEF Probes
  <2> QED
    BY <2>1 DEF ShareInv, PaneRuns
<1>6. Behind(cmd[p]) /\ DiskUnchanged /\ TmuxUnchanged /\ gaps' = gaps
  BY DEF StopSignal, At, Behind
<1>7. Stage(b, pane, record) /\ Stage(d, pane, record)
  BY <1>2, <1>3 DEF Stage
<1> QED
  BY <1>2, <1>3, <1>4, <1>5, <1>6, <1>7, QuietKeeps, GapsType

LEMMA StopAsksKeep ==
    ASSUME ShareInv, NEW p \in Commands, StopGrace(p) \/ StopAgain(p) \/ StopConfirm(p)
    PROVE  ShareInv'
<1>1. /\ Behind(cmd[p]) /\ DiskUnchanged /\ TmuxUnchanged /\ gaps' = gaps
      /\ StopGrace(p) \/ StopAgain(p) => cmd[p].pid \in Starts
  BY DEF ShareInv, Signalled, StopGrace, StopAgain, StopConfirm, At, Behind
<1>2. PICK pc \in {"confirm", "again", "kill", "clean", "told"} :
        Goto(p, pc) /\ (pc \in {"again", "kill"} => StopGrace(p) \/ StopAgain(p))
  <2>1. CASE StopGrace(p)
    BY <2>1 DEF StopGrace
  <2>2. CASE StopAgain(p)
    BY <2>2 DEF StopAgain
  <2>3. CASE StopConfirm(p)
    BY <2>3 DEF StopConfirm
  <2> QED
    BY <2>1, <2>2, <2>3
<1> QED
  BY <1>1, <1>2, GotoKeeps, GapsType DEF Pcs

(* The state counts only with this start's nonce. *)
LEMMA AwaitProbeKeeps ==
    ASSUME ShareInv, NEW p \in Commands, AwaitProbe(p)
    PROVE  ShareInv'
<1>1. cmd \in [Commands -> CmdRecord] /\ cmd[p] \in CmdRecord /\ cmd[p].pc = "awaitprobe"
  BY DEF ShareInv, TypeInv, AwaitProbe, At
<1>2. Behind(cmd[p]) /\ DiskUnchanged /\ TmuxUnchanged /\ gaps' = gaps
  BY <1>1 DEF AwaitProbe, Behind
<1>3. gaps = {} => Stage(cmd[p], pane, record)
  BY DEF ShareInv, Staged
<1>4. gaps = {} => cmd[p].own \in Starts /\ pane.worker = cmd[p].own
  BY <1>1, <1>3 DEF Stage
<1>5. gaps = {} /\ cmd[p].seen = cmd[p].own => record = cmd[p].own
  BY <1>1, <1>3 DEF Stage
<1>6. CASE cmd[p].seen = cmd[p].own /\ Goto(p, "started")
  BY <1>2, <1>4, <1>5, <1>6, GotoKeeps, GapsType DEF Pcs
<1>7. CASE Goto(p, "await")
  BY <1>2, <1>4, <1>7, GotoKeeps, GapsType DEF Pcs
<1>8. CASE cmd' = [cmd EXCEPT ![p].failing = TRUE, ![p].pc = "stop"]
  <2> DEFINE c == [cmd[p] EXCEPT !.failing = TRUE, !.pc = "stop"]
  <2>1. cmd' = [cmd EXCEPT ![p] = c]
    BY <1>1, <1>8
  <2>2. c \in CmdRecord /\ c.pc = "stop" /\ c.fd = cmd[p].fd
    BY <1>1 DEF CmdRecord, Pcs
  <2> HIDE DEF c
  <2>3. Stage(c, pane, record)
    BY <2>2 DEF Stage
  <2> QED
    BY <1>2, <2>1, <2>2, <2>3, QuietKeeps, GapsType
<1> QED
  BY <1>6, <1>7, <1>8 DEF AwaitProbe

(* The one removal that does not ask tmux leaves its mark in gaps. *)
LEMMA SweepVisitKeeps ==
    ASSUME ShareInv, NEW p \in Commands, SweepVisit(p)
    PROVE  ShareInv'
<1>1. Behind(cmd[p]) /\ DiskUnchanged /\ TmuxUnchanged
  BY DEF SweepVisit, At, Behind
<1>2. PICK pc \in {"unlink", "sweepremove", "sweepprobe"} :
        /\ Goto(p, pc)
        /\ gaps \subseteq gaps' /\ gaps' \in SUBSET {"unlinked lock", "tmux not asked"}
        /\ gaps' = {} /\ pc = "sweepremove" => pane.state # "running"
  BY DEF ShareInv, TypeInv, SweepVisit
<1> QED
  BY <1>1, <1>2, GotoKeeps DEF Pcs

LEMMA SweepProbeKeeps ==
    ASSUME ShareInv, NEW p \in Commands, SweepProbe(p)
    PROVE  ShareInv'
<1>1. Behind(cmd[p]) /\ DiskUnchanged /\ TmuxUnchanged /\ gaps' = gaps
  BY DEF SweepProbe, At, Behind
<1>2. PICK pc \in {"sweepremove", "sweepreap", "told"} :
        Goto(p, pc) /\ (pc # "told" => pane.state # "running")
  BY DEF SweepProbe
<1> QED
  BY <1>1, <1>2, GotoKeeps, GapsType DEF Pcs

-----------------------------------------------------------------------------
(* Steps that act on the disk.                                             *)

(* Without a running pane no worker is ready, and no record is missed. *)
LEMMA NobodyLives ==
    ASSUME ShareInv, pane.state # "running"
    PROVE  \A w \in Starts : worker[w] \notin {"starting", "ready"}
BY DEF ShareInv, PaneRuns

LEMMA RemoveKeeps ==
    ASSUME ShareInv, NEW p \in Commands, Remove(p) \/ SweepRemove(p)
    PROVE  ShareInv'
<1> DEFINE pc == IF At(p, "remove") THEN AfterClean(cmd[p]) ELSE "unlink"
<1>1. /\ cmd[p].pc \in {"remove", "sweepremove"} /\ Behind(cmd[p])
      /\ dir' = FALSE /\ record' = 0 /\ lockPath' = lockPath /\ gaps' = gaps
      /\ pane' = pane /\ remain' = remain /\ worker' = worker /\ Goto(p, pc)
  BY DEF Remove, SweepRemove, At, Behind, TmuxUnchanged
<1>2. pc \in {"told", "prepare", "stopped", "unlink"} /\ pc \in Pcs \cup {"told"}
  BY DEF AfterClean, Pcs
<1> HIDE DEF pc
<1>3. TypeInv
  BY DEF ShareInv
<1>4. PICK c \in CmdRecord :
        /\ cmd' = [cmd EXCEPT ![p] = c]
        /\ \/ pc = "told" /\ c = Idle
           \/ pc # "told" /\ c.pc = pc /\ c.fd = cmd[p].fd
  BY <1>1, <1>2, <1>3, Going
<1>5. c.pc = IF pc = "told" THEN "idle" ELSE pc
  BY <1>4, Idling
<1>6. gaps = {} => pane.state # "running"
  BY <1>1 DEF ShareInv, Staged, Stage
<1>7. gaps' = {} => RecordKept' /\ Stage(c, pane', record')
  <2> SUFFICES ASSUME gaps = {} PROVE RecordKept' /\ Stage(c, pane, 0)
    BY <1>1
  <2>1. RecordKept'
    BY <1>1, <1>6, NobodyLives DEF RecordKept
  <2>2. Stage(c, pane, 0)
    BY <1>2, <1>5, <1>6 DEF Stage
  <2> QED
    BY <2>1, <2>2
<1>8. PaneRuns' /\ Published'
  BY <1>1 DEF ShareInv, PaneRuns, Published
<1>9. /\ c.pc # "idle" => c.fd = cmd[p].fd /\ lockPath' = lockPath
      /\ c.pc \notin {"grace", "again", "kill"}
  BY <1>1, <1>2, <1>4, <1>5
<1> QED
  BY <1>1, <1>3, <1>4, <1>7, <1>8, <1>9, HolderKeeps, GapsType DEF TypeInv

(* The name goes while its holder is alone, and the holder is done. *)
LEMMA UnlinkKeeps ==
    ASSUME ShareInv, NEW p \in Commands, Unlink(p)
    PROVE  ShareInv'
<1>1. /\ Behind(cmd[p]) /\ lockPath' = 0 /\ Goto(p, "told")
      /\ dir' = dir /\ record' = record /\ gaps' = gaps
      /\ pane' = pane /\ remain' = remain /\ worker' = worker
  BY DEF Unlink, At, Behind, TmuxUnchanged
<1>2. TypeInv
  BY DEF ShareInv
<1>3. cmd' = [cmd EXCEPT ![p] = Idle]
  BY <1>1 DEF Goto
<1>4. Stage(Idle, pane, record)
  BY Idling DEF Stage
<1>5. PaneRuns' /\ Published' /\ (gaps' = {} => RecordKept')
  BY <1>1 DEF ShareInv, PaneRuns, Published, LiveShareKeepsRecord, RecordKept
<1> QED
  BY <1>1, <1>2, <1>3, <1>4, <1>5, Idling, HolderKeeps, GapsType DEF TypeInv

LEMMA PrepareKeeps ==
    ASSUME ShareInv, NEW p \in Commands, Prepare(p)
    PROVE  ShareInv'
<1>1. /\ Behind(cmd[p]) /\ dir' = TRUE /\ lockPath' = lockPath /\ record' = record /\ gaps' = gaps
      /\ pane' = pane /\ remain' = remain /\ worker' = worker
  BY DEF Prepare, At, Behind, TmuxUnchanged
<1>2. TypeInv
  BY DEF ShareInv
<1>3. PICK pc \in {"startreap", "spawn"} : Goto(p, pc)
  BY DEF Prepare
<1>4. PICK c \in CmdRecord : cmd' = [cmd EXCEPT ![p] = c] /\ c.pc = pc /\ c.fd = cmd[p].fd
  BY <1>2, <1>3, Going DEF Pcs
<1>5. Stage(c, pane, record)
  BY <1>3, <1>4 DEF Stage
<1>6. PaneRuns' /\ Published' /\ (gaps' = {} => RecordKept')
  BY <1>1 DEF ShareInv, PaneRuns, Published, LiveShareKeepsRecord, RecordKept
<1> QED
  BY <1>1, <1>2, <1>3, <1>4, <1>5, <1>6, HolderKeeps, GapsType DEF TypeInv

-----------------------------------------------------------------------------
(* Steps that act on tmux.                                                 *)

(* What the end of a pane does, by kill-session or by the worker's end. *)
LEMMA PaneStops ==
    ASSUME ShareInv, record' = record, KillSession \/ \E w \in Starts : PaneEnds(w)
    PROVE  /\ pane' \in PaneRecord /\ remain' \in BOOLEAN
           /\ worker' \in [Starts -> {"none", "starting", "ready", "exited"}]
           /\ PaneRuns' /\ Published' /\ (gaps = {} => RecordKept')
           /\ pane'.worker = pane.worker
           /\ pane'.state = "running" => pane.state = "running"
<1>1. /\ pane \in PaneRecord /\ remain \in BOOLEAN /\ record \in {0} \cup Starts
      /\ worker \in [Starts -> {"none", "starting", "ready", "exited"}]
      /\ PaneRuns /\ Published /\ (gaps = {} => RecordKept)
  BY DEF ShareInv, TypeInv, LiveShareKeepsRecord
<1>2. /\ remain' = remain /\ record' = record
      /\ pane'.worker = pane.worker /\ pane' \in PaneRecord
      /\ pane'.state = "running" => pane.state = "running" /\ pane' = pane
  <2>1. CASE KillSession
    BY <1>1, <2>1 DEF KillSession, PaneRecord
  <2>2. ASSUME NEW w \in Starts, PaneEnds(w)
        PROVE  /\ remain' = remain /\ record' = record
               /\ pane'.worker = pane.worker /\ pane' \in PaneRecord
               /\ pane'.state = "running" => pane.state = "running" /\ pane' = pane
    BY <1>1, <2>2 DEF PaneEnds, PaneRecord
  <2> QED
    BY <2>1, <2>2
<1>3. /\ worker' \in [Starts -> {"none", "starting", "ready", "exited"}]
      /\ \A v \in Starts : worker'[v] # worker[v] => worker'[v] = "exited"
  <2>1. CASE KillSession
    BY <1>1, <2>1 DEF KillSession
  <2>2. ASSUME NEW w \in Starts, PaneEnds(w)
        PROVE  /\ worker' \in [Starts -> {"none", "starting", "ready", "exited"}]
               /\ \A v \in Starts : worker'[v] # worker[v] => worker'[v] = "exited"
    BY <1>1, <2>2 DEF PaneEnds
  <2> QED
    BY <2>1, <2>2
<1>4. PaneRuns'
  <2>1. CASE KillSession
    <3>1. pane'.state = "gone"
      BY <1>1, <2>1 DEF KillSession, PaneRecord
    <3>2. \A v \in Starts : worker'[v] \notin {"starting", "ready"}
      BY <1>1, <2>1 DEF KillSession, PaneRuns
    <3> QED
      BY <3>1, <3>2 DEF PaneRuns
  <2>2. ASSUME NEW w \in Starts, PaneEnds(w) PROVE PaneRuns'
    <3>1. worker'[w] = "exited" /\ \A v \in Starts : v # w => worker'[v] = worker[v]
      BY <1>1, <2>2 DEF PaneEnds
    <3>2. CASE pane.state = "running" /\ pane.worker = w
      <4>1. pane'.state # "running"
        BY <1>1, <2>2, <3>2 DEF PaneEnds, PaneRecord
      <4>2. \A v \in Starts : worker'[v] \notin {"starting", "ready"}
        BY <1>1, <3>1, <3>2 DEF PaneRuns
      <4> QED
        BY <4>1, <4>2 DEF PaneRuns
    <3>3. CASE ~(pane.state = "running" /\ pane.worker = w)
      <4>1. pane' = pane
        BY <2>2, <3>3 DEF PaneEnds
      <4> QED
        BY <1>1, <3>1, <3>3, <4>1 DEF PaneRuns
    <3> QED
      BY <3>2, <3>3
  <2> QED
    BY <2>1, <2>2
<1>5. Published' /\ (gaps = {} => RecordKept')
  BY <1>1, <1>2, <1>3 DEF Published, RecordKept
<1> QED
  BY <1>1, <1>2, <1>3, <1>4, <1>5

LEMMA ReapKeeps ==
    ASSUME ShareInv, NEW p \in Commands,
           NEW pc \in {"reap", "startreap", "sweepreap"}, NEW next \in {"remove", "spawn", "sweepremove"},
           Reap(p, pc, next)
    PROVE  ShareInv'
<1>1. Behind(cmd[p]) /\ DiskUnchanged /\ gaps' = gaps /\ TypeInv
  BY DEF Reap, At, Behind, ShareInv
<1>2. CASE Goto(p, next) /\ KillSession
  <2>1. lockPath' = lockPath /\ dir' = dir /\ record' = record
    BY <1>1 DEF DiskUnchanged
  <2>2. PICK c \in CmdRecord : cmd' = [cmd EXCEPT ![p] = c] /\ c.pc = next /\ c.fd = cmd[p].fd
    BY <1>1, <1>2, Going DEF Pcs
  <2>3. pane'.state = "gone"
    BY <1>1, <1>2 DEF KillSession, TypeInv, PaneRecord
  <2>4. Stage(c, pane', record')
    BY <2>2, <2>3 DEF Stage
  <2>5. /\ pane' \in PaneRecord /\ remain' \in BOOLEAN
        /\ worker' \in [Starts -> {"none", "starting", "ready", "exited"}]
        /\ PaneRuns' /\ Published' /\ (gaps = {} => RecordKept')
    BY <1>2, <2>1, PaneStops
  <2> QED
    BY <1>1, <2>1, <2>2, <2>4, <2>5, HolderKeeps, GapsType DEF TypeInv
<1>3. CASE Goto(p, "told") /\ TmuxUnchanged
  BY <1>1, <1>3, GotoKeeps, GapsType
<1> QED
  BY <1>2, <1>3 DEF Reap

LEMMA StopKillKeeps ==
    ASSUME ShareInv, NEW p \in Commands, StopKill(p)
    PROVE  ShareInv'
<1>1. /\ Behind(cmd[p]) /\ Goto(p, "confirm") /\ gaps' = gaps /\ TypeInv
      /\ lockPath' = lockPath /\ dir' = dir /\ record' = record
  BY DEF StopKill, At, Behind, DiskUnchanged, ShareInv
<1>2. cmd[p].pid \in Starts /\ PaneEnds(cmd[p].pid)
  BY DEF StopKill, At, ShareInv, Signalled
<1>3. PICK c \in CmdRecord : cmd' = [cmd EXCEPT ![p] = c] /\ c.pc = "confirm" /\ c.fd = cmd[p].fd
  BY <1>1, Going DEF Pcs
<1>4. Stage(c, pane', record')
  BY <1>3 DEF Stage
<1>5. /\ pane' \in PaneRecord /\ remain' \in BOOLEAN
      /\ worker' \in [Starts -> {"none", "starting", "ready", "exited"}]
      /\ PaneRuns' /\ Published' /\ (gaps = {} => RecordKept')
  BY <1>1, <1>2, PaneStops
<1> QED
  BY <1>1, <1>3, <1>4, <1>5, HolderKeeps, GapsType DEF TypeInv

(* A name that is free has no worker behind it, so the new one is alone. *)
LEMMA SpawnKeeps ==
    ASSUME ShareInv, NEW p \in Commands, Spawn(p)
    PROVE  ShareInv'
<1>1. /\ Behind(cmd[p]) /\ gaps' = gaps /\ TypeInv /\ DiskUnchanged
      /\ lockPath' = lockPath /\ dir' = dir /\ record' = record
  BY DEF Spawn, At, Behind, DiskUnchanged, ShareInv
<1>2. CASE pane.state # "gone"
  <2>1. Goto(p, "told") /\ TmuxUnchanged
    BY <1>2 DEF Spawn
  <2> QED
    BY <1>1, <2>1, GotoKeeps, GapsType
<1>3. CASE pane.state = "gone"
  <2>1. cmd \in [Commands -> CmdRecord] /\ cmd[p] \in CmdRecord
    BY <1>1 DEF TypeInv
  <2>2. PICK w \in Starts :
          /\ worker[w] = "none" /\ worker' = [worker EXCEPT ![w] = "starting"]
          /\ pane' = [state |-> "running", worker |-> w]
          /\ cmd' = [cmd EXCEPT ![p].own = w, ![p].pc = "await"]
          /\ remain' = remain
    BY <1>3 DEF Spawn
  <2> DEFINE c == [cmd[p] EXCEPT !.own = w, !.pc = "await"]
  <2>3. cmd' = [cmd EXCEPT ![p] = c]
    BY <2>1, <2>2
  <2>4. c \in CmdRecord /\ c.pc = "await" /\ c.own = w /\ c.fd = cmd[p].fd
    BY <2>1 DEF CmdRecord, Pcs
  <2> HIDE DEF c
  <2>5. pane' \in PaneRecord /\ pane'.state = "running" /\ pane'.worker = w
    BY <2>2 DEF PaneRecord
  <2>6. Stage(c, pane', record')
    BY <2>4, <2>5 DEF Stage
  <2>7. \A v \in Starts : worker[v] \notin {"starting", "ready"}
    BY <1>3, NobodyLives
  <2>8. /\ worker' \in [Starts -> {"none", "starting", "ready", "exited"}]
        /\ worker'[w] = "starting" /\ \A v \in Starts : v # w => worker'[v] = worker[v]
    BY <1>1, <2>2 DEF TypeInv
  <2>9. PaneRuns' /\ RecordKept'
    BY <2>5, <2>7, <2>8 DEF PaneRuns, RecordKept
  <2>10. Published'
    BY <1>1, <2>2, <2>8 DEF ShareInv, Published, TypeInv
  <2>11. remain' \in BOOLEAN /\ dir' \in BOOLEAN /\ record' \in {0} \cup Starts
    BY <1>1, <2>2 DEF TypeInv
  <2>12. /\ c.pc # "idle" => c.fd = cmd[p].fd /\ lockPath' = lockPath
         /\ c.pc \notin {"grace", "again", "kill"}
         /\ gaps \subseteq gaps' /\ gaps' \in SUBSET {"unlinked lock", "tmux not asked"}
    BY <1>1, <2>4, GapsType
  <2> QED
    BY <1>1, <2>3, <2>4, <2>5, <2>6, <2>8, <2>9, <2>10, <2>11, <2>12, HolderKeeps
<1> QED
  BY <1>2, <1>3

-----------------------------------------------------------------------------
(* The worker.                                                             *)

(* What a worker does beside the commands takes nothing from what the      *)
(* holder of the lock knows.                                               *)
LEMMA WorkerKeeps ==
    ASSUME ShareInv, UNCHANGED <<cmd, lockPath, remain, gaps>>,
           dir' \in BOOLEAN, record' \in {0} \cup Starts, pane' \in PaneRecord,
           worker' \in [Starts -> {"none", "starting", "ready", "exited"}],
           PaneRuns', Published', gaps = {} => RecordKept',
           pane'.worker = pane.worker,
           pane'.state = "running" => pane.state = "running",
           record' = record \/ (pane.state = "running" /\ record' = pane.worker)
    PROVE  ShareInv'
<1>1. TypeInv'
  BY DEF ShareInv, TypeInv
<1>2. Signalled' /\ Opened' /\ Excluded' /\ LiveShareKeepsRecord'
  BY DEF ShareInv, Signalled, Opened, Excluded, LiveShareKeepsRecord
<1>3. Staged'
  <2> SUFFICES ASSUME gaps = {}, NEW p \in Commands PROVE Stage(cmd[p], pane', record')
    BY DEF Staged
  <2>1. Stage(cmd[p], pane, record)
    BY DEF ShareInv, Staged
  <2> QED
    BY <2>1 DEF Stage
<1> QED
  BY <1>1, <1>2, <1>3 DEF ShareInv

LEMMA PublishKeeps ==
    ASSUME ShareInv, NEW w \in Starts, Publish(w)
    PROVE  ShareInv'
<1>1. /\ worker[w] = "starting" /\ worker' = [worker EXCEPT ![w] = "ready"] /\ dir' = TRUE /\ record' = w
      /\ UNCHANGED <<cmd, lockPath, remain, gaps>> /\ pane' = pane
  BY DEF Publish
<1>2. worker \in [Starts -> {"none", "starting", "ready", "exited"}] /\ pane \in PaneRecord
  BY DEF ShareInv, TypeInv
<1>3. pane.state = "running" /\ pane.worker = w
  BY <1>1 DEF ShareInv, PaneRuns
<1>4. /\ worker' \in [Starts -> {"none", "starting", "ready", "exited"}]
      /\ worker'[w] = "ready" /\ \A v \in Starts : v # w => worker'[v] = worker[v]
  BY <1>1, <1>2
<1>5. PaneRuns' /\ Published' /\ RecordKept'
  BY <1>1, <1>3, <1>4 DEF ShareInv, PaneRuns, Published, RecordKept
<1> QED
  BY <1>1, <1>2, <1>3, <1>4, <1>5, WorkerKeeps

LEMMA WorkerExitsKeeps ==
    ASSUME ShareInv, NEW w \in Starts, WorkerExits(w)
    PROVE  ShareInv'
<1>1. UNCHANGED <<cmd, lockPath, remain, gaps>> /\ record' = record /\ dir' \in BOOLEAN /\ PaneEnds(w)
  BY DEF WorkerExits, PaneEnds, ShareInv, TypeInv
<1>2. /\ pane' \in PaneRecord /\ worker' \in [Starts -> {"none", "starting", "ready", "exited"}]
      /\ PaneRuns' /\ Published' /\ (gaps = {} => RecordKept')
      /\ pane'.worker = pane.worker
      /\ pane'.state = "running" => pane.state = "running"
  BY <1>1, PaneStops
<1> QED
  BY <1>1, <1>2, WorkerKeeps DEF ShareInv, TypeInv

-----------------------------------------------------------------------------

LEMMA InitInv == Init => ShareInv
<1> SUFFICES ASSUME Init PROVE ShareInv
  OBVIOUS
<1>1. \A p \in Commands : cmd[p] = Idle
  BY DEF Init
<1>2. TypeInv
  BY Idling DEF Init, TypeInv, PaneRecord
<1>3. PaneRuns /\ Published /\ LiveShareKeepsRecord
  BY DEF Init, PaneRuns, Published, LiveShareKeepsRecord, RecordKept
<1>4. Signalled /\ Opened /\ Excluded /\ Staged
  BY <1>1, Idling DEF Signalled, Opened, Excluded, Staged, Stage, Behind
<1> QED
  BY <1>2, <1>3, <1>4 DEF ShareInv

LEMMA StepInv == ShareInv /\ [Next]_vars => ShareInv'
<1> SUFFICES ASSUME ShareInv, [Next]_vars PROVE ShareInv'
  OBVIOUS
<1>1. CASE UNCHANGED vars
  BY <1>1 DEF vars, ShareInv, TypeInv, PaneRuns, Published, Signalled, Opened, Excluded, Staged,
     LiveShareKeepsRecord, RecordKept
<1>2. ASSUME NEW p \in Commands, CommandStep(p) PROVE ShareInv'
  <2>1. ASSUME NEW op \in {"share", "rotate", "status", "stop", "sweep"}, Enter(p, op) PROVE ShareInv'
    BY <2>1, EnterKeeps DEF Ops
  <2>2. CASE Reap(p, "reap", "remove") \/ Reap(p, "startreap", "spawn") \/ Reap(p, "sweepreap", "sweepremove")
    BY <2>2, ReapKeeps
  <2> QED
    BY <1>2, <2>1, <2>2, FlockKeeps, ExitKeeps, LoadKeeps, ClassifyKeeps, CleanKeeps, RemoveKeeps,
       StopSignalKeeps, StopAsksKeep, StopKillKeeps, PrepareKeeps, SpawnKeeps, AwaitProbeKeeps,
       SweepVisitKeeps, SweepProbeKeeps, UnlinkKeeps DEF CommandStep
<1> QED
  BY <1>1, <1>2, PublishKeeps, WorkerExitsKeeps DEF Next

(* Whatever the share commands and their sweeps clean up, killed at any    *)
(* moment or not, a worker that runs and has published keeps its record,   *)
(* unless one of the two gaps was met (cleanupStale, stopWorker, sweepOne, *)
(* removeStranded).                                                        *)
THEOREM LiveRecordIsKept == Spec => []LiveShareKeepsRecord
<1>1. ShareInv => LiveShareKeepsRecord
  BY DEF ShareInv
<1> QED
  BY <1>1, InitInv, StepInv, PTL DEF Spec

(* "Share stopped" and "Sharing" are true when a command prints them, and  *)
(* as long as it holds the lock (cmdStop, startShare, waitForState).       *)
THEOREM TrueReports == Spec => []ReportsAreTrue
<1>1. ShareInv => ReportsAreTrue
  BY DEF ShareInv, Staged, Stage, ReportsAreTrue, At
<1> QED
  BY <1>1, InitInv, StepInv, PTL DEF Spec
=============================================================================
