---------------------------- MODULE ShareWorker ----------------------------
(***************************************************************************)
(* The worker behind `bitbang share`: it publishes one tmux session to one *)
(* controller and a number of viewers (internal/share/worker.go,           *)
(* worker_peer.go, over internal/peerset, framequeue.Queue.Close and the   *)
(* shell handler of internal/streamtype).                                  *)
(*                                                                         *)
(* Goroutines: the signaling read loop (requests and answers, one at a     *)
(* time), the transport's close callback, the establishment deadline, the  *)
(* refused peer's grace timer, the goroutine that preempts a controller,   *)
(* the stream worker that opens a peer's terminal, the goroutine in        *)
(* Worker.shutdown.  A peer's teardown runs on whichever of them wins      *)
(* Queue.Close; the others return at once.                                 *)
(***************************************************************************)
EXTENDS Integers, FiniteSets

CONSTANTS
    ClientIDs,   \* ids the signaling server may hand out, reused
    Roles,       \* roles a code may grant; a read-only share: {"view"}
    MaxViewers,  \* WorkerConfig.MaxViewers
    SparePeers,  \* how many peers beyond the viewers may be registered (5)
    MaxPeers     \* bound: how many sharePeers are ever built

ASSUME WorkerAssumption ==
    /\ Roles \subseteq {"control", "view"}
    /\ MaxViewers \in Nat
    /\ SparePeers \in Nat
    /\ MaxPeers \in Nat

Peers == 1..MaxPeers   \* sharePeers, in the order they are built

VARIABLES
    built,      \* how many sharePeers have been built
    peer,       \* sharePeer with its Connection, Queue, Session and shell
    registry,   \* Worker.peers: client id -> sharePeer, 0 if none
    regClosed,  \* the registry refuses every later Add
    holder,     \* controlSlot.holder, 0 if none
    viewers,    \* roleSlots.used of the viewers
    loop,       \* the signaling read loop: step and sharePeer
    stop        \* Worker.shutdown: step and the peers it still has to close

vars == <<built, peer, registry, regClosed, holder, viewers, loop, stop>>

Idle == [pc |-> "idle", peer |-> 0]

(* held: the role slot is among the peer's releases.  term: the terminal   *)
(* being opened or running.  closer: the goroutine that won Queue.Close,   *)
(* which forgets the peer afterwards unless it is shutdown's.              *)
NewPeer(id) ==
    [id |-> id, role |-> "none", answered |-> FALSE, refused |-> FALSE,
     qClosed |-> FALSE, held |-> FALSE, sess |-> "none", shell |-> "none",
     term |-> "none", deadline |-> "none", grace |-> "none",
     connClosed |-> FALSE, onClose |-> FALSE, firer |-> "none",
     closer |-> "none", forgets |-> FALSE, preempt |-> "none"]

Init ==
    /\ built = 0
    /\ peer = [p \in Peers |-> NewPeer("none")]
    /\ registry = [id \in ClientIDs |-> 0]
    /\ regClosed = FALSE
    /\ holder = 0
    /\ viewers = 0
    /\ loop = Idle
    /\ stop = [pc |-> "running", peers |-> {}]

-----------------------------------------------------------------------------
(* What the code calls on a peer, as functions of the peer's record.       *)

(* teardown up to the unlock in Queue.Close: both timers are stopped under *)
(* the lock; one that fires later finds the queue closed.                  *)
CloseOf(r, forgets) ==
    IF r.qClosed THEN r
    ELSE [r EXCEPT !.qClosed = TRUE, !.closer = "shell", !.forgets = forgets,
                   !.deadline = IF @ = "armed" THEN "done" ELSE @,
                   !.grace = IF @ = "armed" THEN "done" ELSE @]

(* Connection.fireClose: the first call takes the callback, if installed;  *)
(* on a peer that is already closed dropPeer returns at once.              *)
FireOf(r) ==
    IF r.connClosed THEN r
    ELSE [r EXCEPT !.connClosed = TRUE,
                   !.firer = IF r.onClose /\ ~r.qClosed THEN "drop" ELSE "done"]

(* The release function of a slot: the viewers' counter goes down; the     *)
(* keyboard is given up only by the peer that still holds it.              *)
Release(p, role) ==
    /\ viewers' = IF role = "view" THEN viewers - 1 ELSE viewers
    /\ holder' = IF role = "control" /\ holder = p THEN 0 ELSE holder

-----------------------------------------------------------------------------
(* The signaling read loop.                                                *)

Registered == {id \in ClientIDs : registry[id] # 0}

(* handleRequest: the cheap check, then the connection is built. *)
Request(id) ==
    /\ loop.pc = "idle"
    /\ Cardinality(Registered) < MaxViewers + SparePeers
    /\ registry[id] = 0
    /\ built < MaxPeers
    /\ built' = built + 1
    /\ peer' = [peer EXCEPT ![built + 1] = NewPeer(id)]
    /\ loop' = [pc |-> "add", peer |-> built + 1]
    /\ UNCHANGED <<registry, regClosed, holder, viewers, stop>>

(* AddLimited decides; a peer that is turned away has no callback yet. *)
Register ==
    /\ loop.pc = "add"
    /\ LET id == peer[loop.peer].id IN
       IF ~regClosed /\ registry[id] = 0
            /\ Cardinality(Registered) < MaxViewers + SparePeers
       THEN /\ registry' = [registry EXCEPT ![id] = loop.peer]
            /\ loop' = [loop EXCEPT !.pc = "onclose"]
            /\ UNCHANGED peer
       ELSE /\ peer' = [peer EXCEPT ![loop.peer] = FireOf(@)]
            /\ loop' = Idle
            /\ UNCHANGED registry
    /\ UNCHANGED <<built, regClosed, holder, viewers, stop>>

(* SetOnClose: run at once if the connection has closed meanwhile. *)
SetOnClose ==
    /\ loop.pc = "onclose"
    /\ peer' = [peer EXCEPT ![loop.peer].onClose = TRUE,
                            ![loop.peer].firer = IF peer[loop.peer].connClosed
                                                 THEN "drop" ELSE @]
    /\ loop' = [loop EXCEPT !.pc = "arm"]
    /\ UNCHANGED <<built, registry, regClosed, holder, viewers, stop>>

(* armEstablishment, under the queue's lock. *)
ArmEstablishment ==
    /\ loop.pc = "arm"
    /\ peer' = [peer EXCEPT ![loop.peer].deadline =
                  IF peer[loop.peer].qClosed THEN @ ELSE "armed"]
    /\ loop' = Idle
    /\ UNCHANGED <<built, registry, regClosed, holder, viewers, stop>>

(* handleAnswer: a rejected or repeated answer closes the connection. *)
AnswerFails(id) ==
    /\ loop.pc = "idle"
    /\ registry[id] # 0
    /\ peer' = [peer EXCEPT ![registry[id]] = FireOf([@ EXCEPT !.answered = TRUE])]
    /\ UNCHANGED <<built, registry, regClosed, holder, viewers, loop, stop>>

(* A code that authorize knows; buildSession follows. *)
Answer(id, role) ==
    /\ loop.pc = "idle"
    /\ registry[id] # 0
    /\ ~peer[registry[id]].answered
    /\ peer' = [peer EXCEPT ![registry[id]].answered = TRUE,
                            ![registry[id]].role = role]
    /\ loop' = [pc |-> "take", peer |-> registry[id]]
    /\ UNCHANGED <<built, registry, regClosed, holder, viewers, stop>>

(* controlSlot.take: the newcomer has the keyboard; whoever had it is      *)
(* preempted on a goroutine of its own.                                    *)
TakeControl ==
    /\ loop.pc = "take"
    /\ peer[loop.peer].role = "control"
    /\ holder' = loop.peer
    /\ peer' = IF holder = 0 THEN peer ELSE [peer EXCEPT ![holder].preempt = "start"]
    /\ loop' = [loop EXCEPT !.pc = "hold"]
    /\ UNCHANGED <<built, registry, regClosed, viewers, stop>>

(* roleSlots.acquire: a full share refuses, but serves the refusal. *)
TakeView ==
    /\ loop.pc = "take"
    /\ peer[loop.peer].role = "view"
    /\ IF viewers < MaxViewers
       THEN /\ viewers' = viewers + 1
            /\ loop' = [loop EXCEPT !.pc = "hold"]
            /\ UNCHANGED peer
       ELSE /\ peer' = [peer EXCEPT ![loop.peer].refused = TRUE]
            /\ loop' = [loop EXCEPT !.pc = "publish"]
            /\ UNCHANGED viewers
    /\ UNCHANGED <<built, registry, regClosed, holder, stop>>

(* Mutant: the slot is not given back when teardown came first. *)
MutantHoldLeaks ==
    /\ loop.pc = "hold"
    /\ IF peer[loop.peer].qClosed
       THEN /\ loop' = Idle
            /\ UNCHANGED <<peer, viewers, holder>>
       ELSE /\ peer' = [peer EXCEPT ![loop.peer].held = TRUE]
            /\ loop' = [loop EXCEPT !.pc = "publish"]
            /\ UNCHANGED <<viewers, holder>>
    /\ UNCHANGED <<built, registry, regClosed, stop>>

(* hold: teardown owns the slot from here, unless it has already run. *)
Hold ==
    /\ loop.pc = "hold"
    /\ IF peer[loop.peer].qClosed
       THEN /\ Release(loop.peer, peer[loop.peer].role)
            /\ loop' = Idle
            /\ UNCHANGED peer
       ELSE /\ peer' = [peer EXCEPT ![loop.peer].held = TRUE]
            /\ loop' = [loop EXCEPT !.pc = "publish"]
            /\ UNCHANGED <<viewers, holder>>
    /\ UNCHANGED <<built, registry, regClosed, stop>>

(* publish: session and shell are installed together, or not at all. *)
Publish ==
    /\ loop.pc = "publish"
    /\ IF peer[loop.peer].qClosed
       THEN /\ loop' = Idle
            /\ UNCHANGED peer
       ELSE /\ peer' = [peer EXCEPT ![loop.peer].sess = "live",
                                    ![loop.peer].shell = "open"]
            /\ loop' = IF peer[loop.peer].refused
                       THEN [loop EXCEPT !.pc = "refusal"] ELSE Idle
    /\ UNCHANGED <<built, registry, regClosed, holder, viewers, stop>>

(* armRefusal, under the queue's lock. *)
ArmRefusal ==
    /\ loop.pc = "refusal"
    /\ peer' = [peer EXCEPT ![loop.peer].grace =
                  IF peer[loop.peer].qClosed THEN @ ELSE "armed"]
    /\ loop' = Idle
    /\ UNCHANGED <<built, registry, regClosed, holder, viewers, stop>>

-----------------------------------------------------------------------------
(* A peer's timers, transport, terminal and preemption.                    *)

PeerStep(p, r) ==
    /\ p <= built
    /\ peer' = [peer EXCEPT ![p] = r]
    /\ UNCHANGED <<built, regClosed, loop, stop>>

SlotsUnchanged == UNCHANGED <<registry, holder, viewers>>

(* The session's handshake completes: markEstablished. *)
Establish(p) ==
    /\ peer[p].sess = "live"
    /\ peer[p].deadline = "armed"
    /\ PeerStep(p, [peer[p] EXCEPT !.deadline = "done"])
    /\ SlotsUnchanged

(* The establishment deadline expires before Done, or the grace of a       *)
(* refused peer elapses: dropPeer.                                         *)
TimerDrops(p) ==
    /\ "armed" \in {peer[p].deadline, peer[p].grace}
    /\ PeerStep(p, CloseOf(peer[p], TRUE))
    /\ SlotsUnchanged

TransportCloses(p) ==
    /\ ~peer[p].connClosed
    /\ PeerStep(p, FireOf(peer[p]))
    /\ SlotsUnchanged

(* The close callback is dropPeer. *)
CallbackDrops(p) ==
    /\ peer[p].firer = "drop"
    /\ PeerStep(p, CloseOf([peer[p] EXCEPT !.firer = "done"], TRUE))
    /\ SlotsUnchanged

(* preempt: the session is told why and closed, or there is none, *)
PreemptGoodbye(p) ==
    /\ peer[p].preempt = "start"
    /\ PeerStep(p, [peer[p] EXCEPT !.preempt = "drain",
                                   !.sess = IF @ = "live" THEN "closed" ELSE @])
    /\ SlotsUnchanged

(* and dropped once that has drained. *)
PreemptDrops(p) ==
    /\ peer[p].preempt = "drain"
    /\ PeerStep(p, CloseOf([peer[p] EXCEPT !.preempt = "done"], TRUE))
    /\ SlotsUnchanged

(* A SYN for a terminal reached the shell handler before the session was   *)
(* closed: AcquireSlot refuses a refused peer and one that is closing.     *)
TermAcquire(p) ==
    /\ peer[p].sess # "none"
    /\ peer[p].term = "none"
    /\ ~peer[p].refused
    /\ ~peer[p].qClosed
    /\ PeerStep(p, [peer[p] EXCEPT !.term = "acquired"])
    /\ SlotsUnchanged

(* Mutant: the handler's closed flag is not looked at before the start. *)
MutantSpawnUnchecked(p) ==
    /\ peer[p].term = "acquired"
    /\ PeerStep(p, [peer[p] EXCEPT !.term = "running"])
    /\ SlotsUnchanged

(* The process starts under the handler's lock, unless Close came first or *)
(* the start fails.                                                        *)
TermSpawn(p) ==
    /\ peer[p].term = "acquired"
    /\ \E started \in BOOLEAN :
         PeerStep(p, [peer[p] EXCEPT !.term =
                        IF started /\ peer[p].shell = "open" THEN "running" ELSE "none"])
    /\ SlotsUnchanged

(* waitAndFinish: the process is over and the stream may be opened again. *)
TermExits(p) ==
    /\ peer[p].term = "running"
    /\ PeerStep(p, [peer[p] EXCEPT !.term = "none"])
    /\ SlotsUnchanged

-----------------------------------------------------------------------------
(* Teardown, on the goroutine that won Queue.Close.                        *)

(* The shell handler is closed: no later start, and what runs is ended.    *)
(* Close asks first and kills after a grace period; a process that         *)
(* outlives SIGKILL is left out.                                           *)
CloserShell(p) ==
    /\ peer[p].closer = "shell"
    /\ PeerStep(p, [peer[p] EXCEPT !.closer = "release",
                       !.shell = IF @ = "open" THEN "closed" ELSE @,
                       !.term = IF @ = "running" THEN "none" ELSE @])
    /\ SlotsUnchanged

(* Mutant: the keyboard is given up whoever holds it. *)
MutantReleaseAnyHolder(p) ==
    /\ peer[p].closer = "release"
    /\ PeerStep(p, [peer[p] EXCEPT !.closer = "conn", !.held = FALSE])
    /\ viewers' = IF peer[p].held /\ peer[p].role = "view" THEN viewers - 1 ELSE viewers
    /\ holder' = IF peer[p].held /\ peer[p].role = "control" THEN 0 ELSE holder
    /\ UNCHANGED registry

(* The slots are handed back. *)
CloserRelease(p) ==
    /\ peer[p].closer = "release"
    /\ PeerStep(p, [peer[p] EXCEPT !.closer = "conn", !.held = FALSE])
    /\ IF peer[p].held THEN Release(p, peer[p].role) ELSE UNCHANGED <<viewers, holder>>
    /\ UNCHANGED registry

(* conn.Close, then dropPeer forgets the peer; shutdown's teardown does    *)
(* not.                                                                    *)
CloserConn(p) ==
    /\ peer[p].closer = "conn"
    /\ PeerStep(p, FireOf([peer[p] EXCEPT !.closer = "done"]))
    /\ registry' = [registry EXCEPT ![peer[p].id] =
                      IF peer[p].forgets /\ @ = p THEN 0 ELSE @]
    /\ UNCHANGED <<holder, viewers>>

-----------------------------------------------------------------------------
(* Worker.shutdown.                                                        *)

(* The share was stopped, its TTL expired, its source session is gone,     *)
(* signaling ended or was taken over: Run returns and shutdown begins.     *)
RunEnds ==
    /\ stop.pc = "running"
    /\ stop' = [stop EXCEPT !.pc = "drain"]
    /\ UNCHANGED <<built, peer, registry, regClosed, holder, viewers, loop>>

(* Mutant: the registry is emptied but accepts later peers. *)
MutantStopStaysOpen ==
    /\ stop.pc = "drain"
    /\ stop' = [pc |-> "close", peers |-> {registry[id] : id \in Registered}]
    /\ registry' = [id \in ClientIDs |-> 0]
    /\ UNCHANGED <<built, peer, regClosed, holder, viewers, loop>>

(* peers.Close: empties the registry and refuses every later Add. *)
StopDrains ==
    /\ stop.pc = "drain"
    /\ regClosed' = TRUE
    /\ stop' = [pc |-> "close", peers |-> {registry[id] : id \in Registered}]
    /\ registry' = [id \in ClientIDs |-> 0]
    /\ UNCHANGED <<built, peer, holder, viewers, loop>>

(* One goroutine per peer; a peer that is closing already is left to the   *)
(* goroutine that does it.                                                 *)
StopTeardown(p) ==
    /\ stop.pc = "close"
    /\ p \in stop.peers
    /\ peer' = [peer EXCEPT ![p] = CloseOf(@, FALSE)]
    /\ stop' = [stop EXCEPT !.peers = @ \ {p}]
    /\ UNCHANGED <<built, registry, regClosed, holder, viewers, loop>>

(* Every teardown that shutdown began has returned. *)
StopDone ==
    /\ stop.pc = "close"
    /\ stop.peers = {}
    /\ \A p \in Peers : peer[p].qClosed /\ ~peer[p].forgets
                          => peer[p].closer = "done"
    /\ stop' = [stop EXCEPT !.pc = "done"]
    /\ UNCHANGED <<built, peer, registry, regClosed, holder, viewers, loop>>

-----------------------------------------------------------------------------

LoopStep ==
    \/ Register \/ SetOnClose \/ ArmEstablishment
    \/ TakeControl \/ TakeView \/ Hold \/ Publish \/ ArmRefusal

PeerRuns(p) ==
    \/ TimerDrops(p)
    \/ CallbackDrops(p)
    \/ PreemptGoodbye(p) \/ PreemptDrops(p)
    \/ TermSpawn(p)
    \/ CloserShell(p) \/ CloserRelease(p) \/ CloserConn(p)

StopStep == StopDrains \/ StopDone \/ \E p \in Peers : StopTeardown(p)

Environment ==
    \/ \E id \in ClientIDs : \/ Request(id)
                             \/ AnswerFails(id)
                             \/ \E role \in Roles : Answer(id, role)
    \/ \E p \in Peers : \/ Establish(p)
                        \/ TransportCloses(p)
                        \/ TermAcquire(p)
                        \/ TermExits(p)
    \/ RunEnds

Next ==
    \/ LoopStep
    \/ \E p \in Peers : PeerRuns(p)
    \/ StopStep
    \/ Environment

Spec == Init /\ [][Next]_vars

-----------------------------------------------------------------------------
(* Properties.                                                             *)

(* A sharePeer's record. *)
PeerRecord ==
    [id : ClientIDs \cup {"none"}, role : Roles \cup {"none"}, answered : BOOLEAN,
     refused : BOOLEAN, qClosed : BOOLEAN, held : BOOLEAN,
     sess : {"none", "live", "closed"}, shell : {"none", "open", "closed"},
     term : {"none", "acquired", "running"}, deadline : {"none", "armed", "done"},
     grace : {"none", "armed", "done"}, connClosed : BOOLEAN, onClose : BOOLEAN,
     firer : {"none", "drop", "done"},
     closer : {"none", "shell", "release", "conn", "done"}, forgets : BOOLEAN,
     preempt : {"none", "start", "drain", "done"}]

(* The values each variable takes; there are never more viewers than       *)
(* --max-viewers allows.                                                   *)
TypeOK ==
    /\ built \in 0..MaxPeers
    /\ peer \in [Peers -> PeerRecord]
    /\ registry \in [ClientIDs -> 0..MaxPeers]
    /\ regClosed \in BOOLEAN
    /\ holder \in 0..MaxPeers
    /\ viewers \in 0..MaxViewers
    /\ loop \in [pc : {"idle", "add", "onclose", "arm", "take", "hold", "publish", "refusal"},
                 peer : 0..MaxPeers]
    /\ stop \in [pc : {"running", "drain", "close", "done"}, peers : SUBSET Peers]

(* Who the loop is taking a slot for, before teardown owns it. *)
Taking(p, role) == loop.pc = "hold" /\ loop.peer = p /\ peer[p].role = role

(* The viewers' counter is exact through every race of admission and       *)
(* teardown, and a running viewer's terminal is always covered by a slot:  *)
(* --max-viewers bounds the tmux clients, not only the handshakes.         *)
ViewerSlotsExact ==
    /\ viewers = Cardinality({p \in Peers : \/ peer[p].held /\ peer[p].role = "view"
                                            \/ Taking(p, "view")})
    /\ Cardinality({p \in Peers : peer[p].role = "view" /\ peer[p].term = "running"})
         <= MaxViewers

(* The keyboard is one peer's: any other peer whose control terminal still *)
(* runs is being preempted or torn down, and the late release of one that  *)
(* lost the keyboard never takes it from the newcomer.                     *)
KeyboardHandedOver ==
    \A p \in Peers : peer[p].held /\ peer[p].role = "control" /\ holder # p =>
        peer[p].preempt \in {"start", "drain"} \/ peer[p].qClosed

(* A peer that has been torn down keeps nothing and never gets it back: no *)
(* slot, no terminal on the shared tmux session, no armed timer.           *)
TornDownKeepsNothing ==
    \A p \in Peers : peer[p].closer \in {"conn", "done"} =>
        /\ ~peer[p].held
        /\ holder = p => Taking(p, "control")
        /\ peer[p].term # "running"
        /\ peer[p].shell # "open"
        /\ "armed" \notin {peer[p].deadline, peer[p].grace}

(* After shutdown no peer is left behind: whatever was being registered or *)
(* admitted at that moment is refused or torn down.                        *)
StopLeavesNobody ==
    stop.pc = "done" =>
        \A p \in Peers : peer[p].onClose \/ peer[p].answered => peer[p].qClosed

(* What the comment on sharePeer says: teardown releases the reservation,  *)
(* the session and the tmux client.                                        *)
SessionReleased ==
    \A p \in Peers : peer[p].closer = "done" => peer[p].sess # "live"

=============================================================================
