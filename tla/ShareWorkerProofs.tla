------------------------- MODULE ShareWorkerProofs -------------------------
(***************************************************************************)
(* Proofs about ShareWorker, for every number of peers, client ids and     *)
(* viewer slots, with and without a controller.                            *)
(***************************************************************************)
EXTENDS ShareWorker, FiniteSetTheorems, TLAPS

(* Nothing was taken for this peer or published to it. *)
Bare(r) == ~r.held /\ ~r.refused /\ r.sess = "none" /\ r.shell = "none" /\ r.term = "none"

(* What a peer's own record says: Queue.Close was won at most once and     *)
(* stopped both timers; a terminal runs only under an open shell handler,  *)
(* which a peer that was not refused has only while it holds its slot; the *)
(* closer has ended the terminal before it gives the slot back.            *)
Consistent(r) ==
    /\ r.qClosed <=> r.closer # "none"
    /\ r.qClosed => r.deadline # "armed" /\ r.grace # "armed"
    /\ r.closer \in {"release", "conn", "done"} => r.shell # "open"
    /\ r.closer \in {"conn", "done"} => ~r.held
    /\ r.shell = "open" /\ ~r.refused => r.held
    /\ r.term = "running" => r.shell = "open"
    /\ r.term # "none" => ~r.refused
    /\ r.sess = "none" => r.shell = "none" /\ r.term = "none"
    /\ ~r.answered => r.role = "none" /\ Bare(r)

(* A peer that is not built yet was never heard of; a built one has its id.*)
Building ==
    \A p \in Peers : IF p <= built THEN peer[p].id \in ClientIDs
                     ELSE ~peer[p].onClose /\ ~peer[p].answered

(* Where the signaling loop stands with its peer. *)
Admission ==
    /\ loop.pc # "idle" => loop.peer \in Peers /\ loop.peer <= built
    /\ loop.pc \in {"add", "onclose"} => ~peer[loop.peer].onClose /\ ~peer[loop.peer].answered
    /\ loop.pc = "add" => (\A id \in ClientIDs : registry[id] # loop.peer)
                          /\ loop.peer \notin stop.peers
    /\ loop.pc \in {"take", "hold"} => /\ Bare(peer[loop.peer])
                                       /\ peer[loop.peer].role \in Roles
    /\ loop.pc = "hold" /\ peer[loop.peer].role = "control" => holder = loop.peer
    /\ loop.pc = "publish" =>
         /\ peer[loop.peer].sess = "none"
         /\ peer[loop.peer].qClosed \/ peer[loop.peer].held \/ peer[loop.peer].refused
    /\ loop.pc \in {"take", "hold", "publish", "refusal"} => peer[loop.peer].answered

(* Who has the keyboard has it in hand, or the loop is about to give it. *)
HolderHolds ==
    holder # 0 => \/ peer[holder].held /\ peer[holder].role = "control"
                  \/ Taking(holder, "control")

(* The registry leads to built peers, under their own ids; once closed it  *)
(* is empty, and the peers it had are with shutdown.                       *)
Known ==
    /\ \A id \in ClientIDs :
         registry[id] # 0 => registry[id] <= built /\ peer[registry[id]].id = id
    /\ \A p \in stop.peers : p <= built
    /\ regClosed <=> stop.pc \in {"close", "done"}
    /\ regClosed => \A id \in ClientIDs : registry[id] = 0
    /\ stop.pc # "close" => stop.peers = {}

(* A peer that has been set up is closed, or somebody will find it. *)
Tracked ==
    \A p \in Peers : \/ peer[p].onClose \/ peer[p].answered
                     \/ loop.pc = "onclose" /\ loop.peer = p
        => peer[p].qClosed \/ registry[peer[p].id] = p \/ p \in stop.peers

(* The peers a viewer's slot is taken for. *)
Viewing == {p \in Peers : (peer[p].held /\ peer[p].role = "view") \/ Taking(p, "view")}

IndInv ==
    /\ TypeOK
    /\ \A p \in Peers : Consistent(peer[p])
    /\ Building
    /\ Admission
    /\ HolderHolds
    /\ Known
    /\ Tracked
    /\ KeyboardHandedOver
    /\ viewers = Cardinality(Viewing)

-----------------------------------------------------------------------------
(* Counting viewers.                                                       *)

LEMMA ViewingFinite == IsFiniteSet(Viewing) /\ Cardinality(Viewing) \in Nat
<1>1. IsFiniteSet(Peers)
  BY WorkerAssumption, FS_Interval DEF Peers
<1>2. Viewing \in SUBSET Peers
  BY DEF Viewing
<1>3. IsFiniteSet(Viewing)
  BY <1>1, <1>2, FS_Subset
<1> QED
  BY <1>3, FS_CardinalityType

-----------------------------------------------------------------------------
(* The record functions.                                                   *)

LEMMA CloseOfFacts ==
    ASSUME NEW r \in PeerRecord, Consistent(r), NEW f \in BOOLEAN
    PROVE  /\ CloseOf(r, f) \in PeerRecord /\ Consistent(CloseOf(r, f)) /\ CloseOf(r, f).qClosed
           /\ CloseOf(r, f).id = r.id /\ CloseOf(r, f).role = r.role
           /\ CloseOf(r, f).answered = r.answered /\ CloseOf(r, f).refused = r.refused
           /\ CloseOf(r, f).held = r.held /\ CloseOf(r, f).sess = r.sess
           /\ CloseOf(r, f).onClose = r.onClose
<1>1. CASE r.qClosed
  BY <1>1 DEF CloseOf
<1>2. CASE ~r.qClosed
  <2> DEFINE d == IF r.deadline = "armed" THEN "done" ELSE r.deadline
             g == IF r.grace = "armed" THEN "done" ELSE r.grace
             n == [r EXCEPT !.qClosed = TRUE, !.closer = "shell", !.forgets = f,
                            !.deadline = d, !.grace = g]
  <2>1. d \in {"none", "done"} /\ g \in {"none", "done"}
    BY DEF PeerRecord
  <2>2. CloseOf(r, f) = n
    BY <1>2 DEF CloseOf, PeerRecord
  <2> HIDE DEF d, g
  <2>3. n \in PeerRecord
    BY <2>1 DEF PeerRecord
  <2>4. Consistent(n)
    BY <1>2, <2>1 DEF Consistent, Bare, PeerRecord
  <2>5. /\ n.qClosed /\ n.id = r.id /\ n.role = r.role /\ n.answered = r.answered
        /\ n.refused = r.refused /\ n.held = r.held /\ n.sess = r.sess /\ n.onClose = r.onClose
    BY DEF PeerRecord
  <2> QED
    BY <2>2, <2>3, <2>4, <2>5
<1> QED
  BY <1>1, <1>2

LEMMA FireOfFacts ==
    ASSUME NEW r \in PeerRecord, Consistent(r)
    PROVE  /\ FireOf(r) \in PeerRecord /\ Consistent(FireOf(r))
           /\ FireOf(r).id = r.id /\ FireOf(r).role = r.role
           /\ FireOf(r).answered = r.answered /\ FireOf(r).refused = r.refused
           /\ FireOf(r).held = r.held /\ FireOf(r).sess = r.sess
           /\ FireOf(r).onClose = r.onClose /\ FireOf(r).qClosed = r.qClosed
           /\ FireOf(r).preempt = r.preempt
<1>1. CASE r.connClosed
  BY <1>1 DEF FireOf
<1>2. CASE ~r.connClosed
  <2> DEFINE s == IF r.onClose /\ ~r.qClosed THEN "drop" ELSE "done"
             n == [r EXCEPT !.connClosed = TRUE, !.firer = s]
  <2>1. s \in {"drop", "done"}
    OBVIOUS
  <2>2. FireOf(r) = n
    BY <1>2 DEF FireOf
  <2> HIDE DEF s
  <2>3. n \in PeerRecord
    BY <2>1 DEF PeerRecord
  <2>4. Consistent(n)
    BY DEF Consistent, Bare, PeerRecord
  <2>5. /\ n.id = r.id /\ n.role = r.role /\ n.answered = r.answered
        /\ n.refused = r.refused /\ n.held = r.held /\ n.sess = r.sess /\ n.onClose = r.onClose
        /\ n.qClosed = r.qClosed /\ n.preempt = r.preempt
    BY DEF PeerRecord
  <2> QED
    BY <2>2, <2>3, <2>4, <2>5
<1> QED
  BY <1>1, <1>2

-----------------------------------------------------------------------------
(* The steps.                                                              *)

LoopType == [pc : {"idle", "add", "onclose", "arm", "take", "hold", "publish", "refusal"},
             peer : 0..MaxPeers]

(* What a step may do to one peer's record without touching its slot. *)
SameSlot(c, r) ==
    /\ r.id = c.id /\ r.role = c.role /\ r.refused = c.refused /\ r.held = c.held
    /\ c.qClosed => r.qClosed
    /\ c.preempt \in {"start", "drain"} => r.preempt \in {"start", "drain"} \/ r.qClosed

(* Most steps change one built peer's record and leave every slot as it    *)
(* is; the loop stays where it is or moves on past its critical steps, a   *)
(* closed peer may be forgotten, shutdown may have closed one more.        *)
LEMMA PeerChange ==
    ASSUME IndInv, NEW p \in Peers, p <= built, NEW r \in PeerRecord,
           peer' = [peer EXCEPT ![p] = r],
           UNCHANGED <<built, regClosed, holder, viewers>>,
           Consistent(r), SameSlot(peer[p], r),
           r.answered = peer[p].answered
             \/ (r.answered /\ loop.pc = "idle" /\ registry[peer[p].id] = p),
           r.onClose = peer[p].onClose
             \/ (r.onClose /\ loop.pc = "onclose" /\ loop'.pc = "arm" /\ loop.peer = p),
           peer[p].sess = "none" /\ loop' = loop => r.sess = "none",
           \/ loop' = loop
           \/ /\ loop.pc \notin {"idle", "hold"} /\ loop' \in LoopType
              /\ loop'.pc \in {"idle", "arm", "refusal"}
              /\ loop'.pc # "idle" => loop'.peer = loop.peer
              /\ loop'.pc = "refusal" => loop.pc = "publish",
           \/ registry' = registry
           \/ /\ peer[p].qClosed
              /\ registry' = [registry EXCEPT ![peer[p].id] = 0] /\ registry[peer[p].id] = p,
           \/ stop' = stop
           \/ r.qClosed /\ stop.pc = "close" /\ stop' = [stop EXCEPT !.peers = @ \ {p}]
    PROVE  IndInv'
<1>0. /\ peer \in [Peers -> PeerRecord] /\ peer' \in [Peers -> PeerRecord]
      /\ peer'[p] = r /\ \A q \in Peers \ {p} : peer'[q] = peer[q]
      /\ loop \in LoopType /\ loop' \in LoopType
  BY DEF IndInv, TypeOK, LoopType
<1>1. peer[p].id \in ClientIDs
  BY DEF IndInv, Building
<1>2. \A q \in Peers : /\ peer'[q].id = peer[q].id /\ peer'[q].role = peer[q].role
                       /\ peer'[q].refused = peer[q].refused /\ peer'[q].held = peer[q].held
                       /\ peer[q].qClosed => peer'[q].qClosed
                       /\ Consistent(peer'[q]) /\ Consistent(peer[q])
  BY <1>0 DEF IndInv, SameSlot
<1>3. registry' \in [ClientIDs -> 0..MaxPeers]
      /\ \A id \in ClientIDs : registry'[id] # registry[id] =>
            registry'[id] = 0 /\ registry[id] = p /\ peer[p].qClosed
  BY <1>1, WorkerAssumption DEF IndInv, TypeOK
<1>4. /\ stop' \in [pc : {"running", "drain", "close", "done"}, peers : SUBSET Peers]
      /\ stop'.pc = stop.pc /\ stop'.peers \subseteq stop.peers
      /\ \A q \in stop.peers : q \notin stop'.peers => q = p /\ r.qClosed
  BY DEF IndInv, TypeOK
<1>5. \A q \in Peers : \A role : Taking(q, role)' <=> Taking(q, role)
  BY <1>2 DEF Taking
<1>6. TypeOK'
  BY <1>0, <1>3, <1>4 DEF IndInv, TypeOK, LoopType
<1>7. \A q \in Peers : Consistent(peer'[q])
  BY <1>2
<1>8. Building'
  BY <1>0, <1>2 DEF IndInv, Building
<1>9. HolderHolds'
  BY <1>2, <1>5 DEF IndInv, HolderHolds, TypeOK, Peers
<1>10. Known'
  BY <1>2, <1>3, <1>4, WorkerAssumption DEF IndInv, Known, TypeOK, Peers
<1>11. Tracked'
  <2> SUFFICES ASSUME NEW q \in Peers,
                      \/ peer'[q].onClose \/ peer'[q].answered
                      \/ loop'.pc = "onclose" /\ loop'.peer = q,
                      ~peer'[q].qClosed
               PROVE  registry'[peer'[q].id] = q \/ q \in stop'.peers
    BY DEF Tracked
  <2>1. ~peer[q].qClosed /\ peer'[q].id = peer[q].id
    BY <1>2
  <2>2. loop'.pc = "onclose" => loop' = loop
    OBVIOUS
  <2>3. \/ peer[q].onClose \/ peer[q].answered
        \/ loop.pc = "onclose" /\ loop.peer = q
        \/ registry[peer[q].id] = q
    BY <1>0, <2>2
  <2>4. registry[peer[q].id] = q \/ q \in stop.peers
    BY <2>1, <2>3 DEF IndInv, Tracked
  <2>5. CASE registry[peer[q].id] = q
    <3>1. peer[q].id \in ClientIDs
      BY <2>1, <2>3, <2>5, <1>1, <1>0 DEF IndInv, Building, Admission
    <3> QED
      BY <3>1, <2>1, <2>5, <1>3
  <2>6. CASE q \in stop.peers
    BY <2>6, <1>4, <1>0
  <2> QED
    BY <2>4, <2>5, <2>6
<1>12. KeyboardHandedOver'
  BY <1>0, <1>2 DEF IndInv, KeyboardHandedOver, SameSlot
<1>13. viewers' = Cardinality(Viewing')
  <2>1. Viewing' = Viewing
    BY <1>2, <1>5 DEF Viewing
  <2> QED
    BY <2>1 DEF IndInv
<1>14. Admission'
  <2>0. loop.pc # "idle" => loop.peer \in Peers /\ loop.peer <= built
    BY DEF IndInv, Admission
  <2>1. CASE loop' = loop
    <3>1. loop.pc \in {"add", "onclose"} => ~peer'[loop.peer].onClose /\ ~peer'[loop.peer].answered
      BY <1>0, <2>0, <2>1 DEF IndInv, Admission
    <3>2. loop.pc = "add" => (\A id \in ClientIDs : registry'[id] # loop.peer)
                             /\ loop.peer \notin stop'.peers
      BY <1>3, <1>4, <2>0, WorkerAssumption DEF IndInv, Admission, Peers
    <3>3. loop.pc \in {"take", "hold", "publish"} => peer'[loop.peer].sess = "none"
      BY <1>0, <2>0, <2>1 DEF IndInv, Admission, Bare
    <3>4. loop.pc \in {"take", "hold"} => /\ Bare(peer'[loop.peer])
                                          /\ peer'[loop.peer].role \in Roles
      <4> SUFFICES ASSUME loop.pc \in {"take", "hold"}
                   PROVE  Bare(peer'[loop.peer]) /\ peer'[loop.peer].role \in Roles
        OBVIOUS
      <4>1. Bare(peer[loop.peer]) /\ peer[loop.peer].role \in Roles
        BY DEF IndInv, Admission
      <4>2. peer'[loop.peer].shell = "none" /\ peer'[loop.peer].term = "none"
        BY <1>2, <2>0, <3>3 DEF Consistent
      <4> QED
        BY <1>2, <2>0, <3>3, <4>1, <4>2 DEF Bare
    <3>5. loop.pc = "hold" /\ peer'[loop.peer].role = "control" => holder' = loop.peer
      BY <1>2, <2>0 DEF IndInv, Admission
    <3>6. loop.pc = "publish" =>
            peer'[loop.peer].qClosed \/ peer'[loop.peer].held \/ peer'[loop.peer].refused
      BY <1>2, <2>0 DEF IndInv, Admission
    <3>7. loop.pc \in {"take", "hold", "publish", "refusal"} => peer'[loop.peer].answered
      BY <1>0, <2>0 DEF IndInv, Admission
    <3> QED
      BY <2>0, <2>1, <3>1, <3>2, <3>3, <3>4, <3>5, <3>6, <3>7 DEF Admission
  <2>2. CASE loop' # loop
    <3>1. loop'.pc = "refusal" => peer'[loop'.peer].answered
      BY <1>0, <2>0, <2>2 DEF IndInv, Admission
    <3> QED
      BY <2>0, <2>2, <3>1 DEF Admission
  <2> QED
    BY <2>1, <2>2
<1> QED
  BY <1>6, <1>7, <1>8, <1>9, <1>10, <1>11, <1>12, <1>13, <1>14 DEF IndInv

LEMMA InitIndInv == Init => IndInv
<1> SUFFICES ASSUME Init PROVE IndInv
  OBVIOUS
<1>1. TypeOK
  <2>1. NewPeer("none") \in PeerRecord
    BY DEF NewPeer, PeerRecord
  <2>2. /\ 0 \in 0..MaxPeers /\ 0 \in 0..MaxViewers
    BY WorkerAssumption
  <2>3. peer \in [Peers -> PeerRecord] /\ registry \in [ClientIDs -> 0..MaxPeers]
    BY <2>1, <2>2 DEF Init
  <2>4. loop \in LoopType
    BY <2>2 DEF Init, LoopType, Idle
  <2>5. stop \in [pc : {"running", "drain", "close", "done"}, peers : SUBSET Peers]
    BY DEF Init
  <2> QED
    BY <2>2, <2>3, <2>4, <2>5 DEF Init, TypeOK, LoopType
<1>2. \A p \in Peers : /\ Consistent(peer[p])
                       /\ ~peer[p].held /\ ~peer[p].onClose /\ ~peer[p].answered
  BY DEF Init, NewPeer, Consistent, Bare
<1>3. Viewing = {}
  BY <1>2 DEF Init, Viewing, Taking, Idle
<1>4. viewers = Cardinality(Viewing)
  BY <1>3, FS_EmptySet DEF Init
<1>5. Building
  <2> SUFFICES ASSUME NEW p \in Peers PROVE ~(p <= built)
    BY <1>2 DEF Building
  <2> QED
    BY WorkerAssumption DEF Init, Peers
<1>6. Admission /\ HolderHolds /\ Known
  BY DEF Init, Admission, HolderHolds, Known, Idle
<1>7. Tracked /\ KeyboardHandedOver
  BY <1>2 DEF Init, Tracked, KeyboardHandedOver, Idle
<1> QED
  BY <1>1, <1>2, <1>4, <1>5, <1>6, <1>7 DEF IndInv

(* A peer's own goroutines, but for the step that hands its slot back. *)
LEMMA PeerSteps ==
    ASSUME IndInv, NEW p \in Peers,
           \/ Establish(p) \/ TransportCloses(p) \/ TermAcquire(p) \/ TermExits(p)
           \/ TimerDrops(p) \/ CallbackDrops(p) \/ PreemptGoodbye(p) \/ PreemptDrops(p)
           \/ TermSpawn(p) \/ CloserShell(p) \/ CloserConn(p)
    PROVE  IndInv'
<1> DEFINE c == peer[p]
           Rest == <<built, regClosed, holder, viewers, loop, stop, registry>>
<1>1. c \in PeerRecord /\ Consistent(c)
  BY DEF IndInv, TypeOK
<1>2. ASSUME NEW r \in PeerRecord, Consistent(r), SameSlot(c, r), r.answered = c.answered,
             r.onClose = c.onClose, c.sess = "none" => r.sess = "none",
             p <= built, peer' = [peer EXCEPT ![p] = r], UNCHANGED Rest
      PROVE  IndInv'
  BY <1>2, PeerChange
<1>3. ASSUME NEW n \in PeerRecord, Consistent(n), n.answered = c.answered,
             n.onClose = c.onClose, n.sess = c.sess, n.id = c.id, n.role = c.role,
             n.refused = c.refused, n.held = c.held,
             p <= built, peer' = [peer EXCEPT ![p] = CloseOf(n, TRUE)], UNCHANGED Rest
      PROVE  IndInv'
  <2> DEFINE r == CloseOf(n, TRUE)
  <2>1. r \in PeerRecord /\ Consistent(r)
    BY <1>3, CloseOfFacts
  <2>2. /\ SameSlot(c, r) /\ r.answered = c.answered /\ r.onClose = c.onClose
        /\ c.sess = "none" => r.sess = "none"
    BY <1>3, CloseOfFacts DEF SameSlot
  <2>3. peer' = [peer EXCEPT ![p] = r] /\ p <= built /\ UNCHANGED Rest
    BY <1>3
  <2> HIDE DEF r
  <2> QED
    BY <1>2, <2>1, <2>2, <2>3
<1>4. CASE Establish(p)
  <2> DEFINE r == [c EXCEPT !.deadline = "done"]
  <2>1. r \in PeerRecord
    BY <1>1 DEF PeerRecord
  <2>2. Consistent(r)
    BY <1>1, <1>4 DEF PeerRecord, Consistent, Bare, Establish
  <2>3. /\ SameSlot(c, r) /\ r.answered = c.answered /\ r.onClose = c.onClose
        /\ c.sess = "none" => r.sess = "none"
    BY <1>1, <1>4 DEF PeerRecord, SameSlot, Establish
  <2>4. p <= built /\ peer' = [peer EXCEPT ![p] = r] /\ UNCHANGED Rest
    BY <1>4 DEF Establish, PeerStep, SlotsUnchanged
  <2> HIDE DEF r
  <2> QED
    BY <2>1, <2>2, <2>3, <2>4, <1>2
<1>5. CASE TermAcquire(p)
  <2> DEFINE r == [c EXCEPT !.term = "acquired"]
  <2>1. r \in PeerRecord
    BY <1>1 DEF PeerRecord
  <2>2. Consistent(r)
    BY <1>1, <1>5 DEF PeerRecord, Consistent, Bare, TermAcquire
  <2>3. /\ SameSlot(c, r) /\ r.answered = c.answered /\ r.onClose = c.onClose
        /\ c.sess = "none" => r.sess = "none"
    BY <1>1, <1>5 DEF PeerRecord, SameSlot, TermAcquire
  <2>4. p <= built /\ peer' = [peer EXCEPT ![p] = r] /\ UNCHANGED Rest
    BY <1>5 DEF TermAcquire, PeerStep, SlotsUnchanged
  <2> HIDE DEF r
  <2> QED
    BY <2>1, <2>2, <2>3, <2>4, <1>2
<1>6. CASE TermExits(p)
  <2> DEFINE r == [c EXCEPT !.term = "none"]
  <2>1. r \in PeerRecord
    BY <1>1 DEF PeerRecord
  <2>2. Consistent(r)
    BY <1>1, <1>6 DEF PeerRecord, Consistent, Bare, TermExits
  <2>3. /\ SameSlot(c, r) /\ r.answered = c.answered /\ r.onClose = c.onClose
        /\ c.sess = "none" => r.sess = "none"
    BY <1>1, <1>6 DEF PeerRecord, SameSlot, TermExits
  <2>4. p <= built /\ peer' = [peer EXCEPT ![p] = r] /\ UNCHANGED Rest
    BY <1>6 DEF TermExits, PeerStep, SlotsUnchanged
  <2> HIDE DEF r
  <2> QED
    BY <2>1, <2>2, <2>3, <2>4, <1>2
<1>7. CASE PreemptGoodbye(p)
  <2> DEFINE s == IF c.sess = "live" THEN "closed" ELSE c.sess
             r == [c EXCEPT !.preempt = "drain", !.sess = s]
  <2>0. s \in {"none", "closed"} /\ (s = "none" <=> c.sess = "none")
    BY <1>1 DEF PeerRecord
  <2>4. p <= built /\ peer' = [peer EXCEPT ![p] = r] /\ UNCHANGED Rest
    BY <1>7 DEF PreemptGoodbye, PeerStep, SlotsUnchanged
  <2> HIDE DEF s
  <2>1. r \in PeerRecord
    BY <1>1, <2>0 DEF PeerRecord
  <2>2. Consistent(r)
    BY <1>1, <2>0 DEF PeerRecord, Consistent, Bare
  <2>3. /\ SameSlot(c, r) /\ r.answered = c.answered /\ r.onClose = c.onClose
        /\ c.sess = "none" => r.sess = "none"
    BY <1>1, <2>0 DEF PeerRecord, SameSlot
  <2> HIDE DEF r
  <2> QED
    BY <2>1, <2>2, <2>3, <2>4, <1>2
<1>8. CASE TermSpawn(p)
  <2>0. PICK started \in BOOLEAN :
          PeerStep(p, [c EXCEPT !.term = IF started /\ c.shell = "open" THEN "running" ELSE "none"])
    BY <1>8 DEF TermSpawn
  <2> DEFINE s == IF started /\ c.shell = "open" THEN "running" ELSE "none"
             r == [c EXCEPT !.term = s]
  <2>1. s \in {"running", "none"} /\ (s = "running" => c.shell = "open")
    OBVIOUS
  <2>2. p <= built /\ peer' = [peer EXCEPT ![p] = r] /\ UNCHANGED Rest
    BY <1>8, <2>0 DEF TermSpawn, PeerStep, SlotsUnchanged
  <2> HIDE DEF s
  <2>3. r \in PeerRecord
    BY <1>1, <2>1 DEF PeerRecord
  <2>4. Consistent(r)
    BY <1>1, <1>8, <2>1 DEF PeerRecord, Consistent, Bare, TermSpawn
  <2>5. /\ SameSlot(c, r) /\ r.answered = c.answered /\ r.onClose = c.onClose /\ r.sess = c.sess
    BY <1>1 DEF PeerRecord, SameSlot
  <2> HIDE DEF r
  <2> QED
    BY <2>2, <2>3, <2>4, <2>5, <1>2
<1>9. CASE CloserShell(p)
  <2> DEFINE h == IF c.shell = "open" THEN "closed" ELSE c.shell
             s == IF c.term = "running" THEN "none" ELSE c.term
             r == [c EXCEPT !.closer = "release", !.shell = h, !.term = s]
  <2>1. /\ h \in {"none", "closed"} /\ (c.shell = "none" => h = "none")
        /\ s \in {"none", "acquired"} /\ (s # "none" => s = c.term)
    BY <1>1 DEF PeerRecord
  <2>2. p <= built /\ peer' = [peer EXCEPT ![p] = r] /\ UNCHANGED Rest
    BY <1>9 DEF CloserShell, PeerStep, SlotsUnchanged
  <2> HIDE DEF h, s
  <2>3. r \in PeerRecord
    <3>1. ASSUME NEW x \in {"none", "closed"}, NEW y \in {"none", "acquired"}
          PROVE  [c EXCEPT !.closer = "release", !.shell = x, !.term = y] \in PeerRecord
      BY <1>1 DEF PeerRecord
    <3> QED
      BY <2>1, <3>1
  <2>4. Consistent(r)
    BY <1>1, <1>9, <2>1 DEF PeerRecord, Consistent, Bare, CloserShell
  <2>5. /\ SameSlot(c, r) /\ r.answered = c.answered /\ r.onClose = c.onClose /\ r.sess = c.sess
    BY <1>1 DEF PeerRecord, SameSlot
  <2> HIDE DEF r
  <2> QED
    BY <2>2, <2>3, <2>4, <2>5, <1>2
<1>10. CASE TransportCloses(p)
  <2> DEFINE r == FireOf(c)
  <2>1. r \in PeerRecord /\ Consistent(r)
    BY <1>1, FireOfFacts
  <2>2. SameSlot(c, r) /\ r.answered = c.answered /\ r.onClose = c.onClose /\ r.sess = c.sess
    BY <1>1, FireOfFacts DEF SameSlot
  <2>3. p <= built /\ peer' = [peer EXCEPT ![p] = r] /\ UNCHANGED Rest
    BY <1>10 DEF TransportCloses, PeerStep, SlotsUnchanged
  <2> HIDE DEF r
  <2> QED
    BY <2>1, <2>2, <2>3, <1>2
<1>11. CASE TimerDrops(p)
  <2>1. p <= built /\ peer' = [peer EXCEPT ![p] = CloseOf(c, TRUE)] /\ UNCHANGED Rest
    BY <1>11 DEF TimerDrops, PeerStep, SlotsUnchanged
  <2> QED
    BY <1>1, <2>1, <1>3
<1>12. CASE CallbackDrops(p)
  <2> DEFINE n == [c EXCEPT !.firer = "done"]
  <2>1. n \in PeerRecord
    BY <1>1 DEF PeerRecord
  <2>2. Consistent(n)
    BY <1>1 DEF PeerRecord, Consistent, Bare
  <2>3. /\ n.answered = c.answered /\ n.onClose = c.onClose /\ n.sess = c.sess /\ n.id = c.id
        /\ n.role = c.role /\ n.refused = c.refused /\ n.held = c.held
    BY <1>1 DEF PeerRecord
  <2>4. p <= built /\ peer' = [peer EXCEPT ![p] = CloseOf(n, TRUE)] /\ UNCHANGED Rest
    BY <1>12 DEF CallbackDrops, PeerStep, SlotsUnchanged
  <2> HIDE DEF n
  <2> QED
    BY <2>1, <2>2, <2>3, <2>4, <1>3
<1>13. CASE PreemptDrops(p)
  <2> DEFINE n == [c EXCEPT !.preempt = "done"]
  <2>1. n \in PeerRecord
    BY <1>1 DEF PeerRecord
  <2>2. Consistent(n)
    BY <1>1 DEF PeerRecord, Consistent, Bare
  <2>3. /\ n.answered = c.answered /\ n.onClose = c.onClose /\ n.sess = c.sess /\ n.id = c.id
        /\ n.role = c.role /\ n.refused = c.refused /\ n.held = c.held
    BY <1>1 DEF PeerRecord
  <2>4. p <= built /\ peer' = [peer EXCEPT ![p] = CloseOf(n, TRUE)] /\ UNCHANGED Rest
    BY <1>13 DEF PreemptDrops, PeerStep, SlotsUnchanged
  <2> HIDE DEF n
  <2> QED
    BY <2>1, <2>2, <2>3, <2>4, <1>3
<1>14. CASE CloserConn(p)
  <2> DEFINE n == [c EXCEPT !.closer = "done"]
             r == FireOf(n)
  <2>1. n \in PeerRecord
    BY <1>1 DEF PeerRecord
  <2>2. Consistent(n)
    BY <1>1, <1>14 DEF PeerRecord, Consistent, Bare, CloserConn
  <2>3. /\ n.answered = c.answered /\ n.onClose = c.onClose /\ n.sess = c.sess /\ n.id = c.id
        /\ n.role = c.role /\ n.refused = c.refused /\ n.held = c.held /\ n.qClosed = c.qClosed
        /\ n.preempt = c.preempt
    BY <1>1 DEF PeerRecord
  <2>4. c.qClosed /\ p <= built /\ peer' = [peer EXCEPT ![p] = r]
        /\ UNCHANGED <<built, regClosed, holder, viewers, loop, stop>>
    BY <1>1, <1>14 DEF CloserConn, PeerStep, Consistent
  <2> HIDE DEF n
  <2>5. r \in PeerRecord /\ Consistent(r)
    BY <2>1, <2>2, FireOfFacts
  <2>6. SameSlot(c, r) /\ r.answered = c.answered /\ r.onClose = c.onClose /\ r.sess = c.sess
    BY <2>1, <2>2, <2>3, FireOfFacts DEF SameSlot
  <2>7. \/ registry' = registry
        \/ registry' = [registry EXCEPT ![c.id] = 0] /\ registry[c.id] = p
    <3>1. c.id \in ClientIDs /\ registry \in [ClientIDs -> 0..MaxPeers]
      BY <2>4 DEF IndInv, Building, TypeOK
    <3>2. registry' = [registry EXCEPT ![c.id] = IF c.forgets /\ @ = p THEN 0 ELSE @]
      BY <1>14 DEF CloserConn
    <3> QED
      BY <3>1, <3>2
  <2> HIDE DEF r
  <2> QED
    BY <2>4, <2>5, <2>6, <2>7, PeerChange
<1> QED
  BY <1>4, <1>5, <1>6, <1>7, <1>8, <1>9, <1>10, <1>11, <1>12, <1>13, <1>14

(* The loop steps that leave the slots alone, and shutdown's teardown. *)
LEMMA LoopPeerSteps ==
    ASSUME IndInv,
           \/ SetOnClose \/ ArmEstablishment \/ Publish \/ ArmRefusal
           \/ \E id \in ClientIDs : AnswerFails(id)
           \/ \E p \in Peers : StopTeardown(p)
    PROVE  IndInv'
<1> DEFINE l == loop.peer
           c == peer[l]
<1>1. peer \in [Peers -> PeerRecord] /\ registry \in [ClientIDs -> 0..MaxPeers] /\ loop \in LoopType
      /\ stop \in [pc : {"running", "drain", "close", "done"}, peers : SUBSET Peers]
  BY DEF IndInv, TypeOK, LoopType
<1>2. \A p \in Peers : peer[p] \in PeerRecord /\ Consistent(peer[p])
  BY <1>1 DEF IndInv
<1>3. loop.pc # "idle" => l \in Peers /\ l <= built
  BY DEF IndInv, Admission
<1>4. Idle \in LoopType /\ Idle.pc = "idle"
  BY WorkerAssumption DEF Idle, LoopType
<1>5. CASE SetOnClose
  <2> DEFINE s == IF c.connClosed THEN "drop" ELSE c.firer
             r == [c EXCEPT !.onClose = TRUE, !.firer = s]
  <2>0. l \in Peers /\ l <= built /\ c \in PeerRecord /\ Consistent(c)
    BY <1>2, <1>3, <1>5 DEF SetOnClose
  <2>1. s \in {"none", "drop", "done"}
    BY <2>0 DEF PeerRecord
  <2>2. peer' = [peer EXCEPT ![l] = r]
    BY <1>1, <1>5, <2>0 DEF SetOnClose, PeerRecord
  <2>3. loop' = [loop EXCEPT !.pc = "arm"]
        /\ UNCHANGED <<built, registry, regClosed, holder, viewers, stop>>
    BY <1>5 DEF SetOnClose
  <2>4. loop' \in LoopType /\ loop'.pc = "arm" /\ loop'.peer = l /\ loop.pc = "onclose"
    BY <1>1, <1>5, <2>3 DEF SetOnClose, LoopType
  <2> HIDE DEF s
  <2>5. r \in PeerRecord
    BY <2>0, <2>1 DEF PeerRecord
  <2>6. Consistent(r)
    BY <2>0 DEF PeerRecord, Consistent, Bare
  <2>7. SameSlot(c, r) /\ r.answered = c.answered /\ r.onClose
    BY <2>0 DEF PeerRecord, SameSlot
  <2> HIDE DEF r
  <2> QED
    BY <2>0, <2>2, <2>3, <2>4, <2>5, <2>6, <2>7, PeerChange
<1>6. CASE ArmEstablishment
  <2> DEFINE s == IF c.qClosed THEN c.deadline ELSE "armed"
             r == [c EXCEPT !.deadline = s]
  <2>0. l \in Peers /\ l <= built /\ c \in PeerRecord /\ Consistent(c)
    BY <1>2, <1>3, <1>6 DEF ArmEstablishment
  <2>1. s \in {"none", "armed", "done"} /\ (c.qClosed => s # "armed")
    BY <2>0 DEF PeerRecord, Consistent
  <2>2. peer' = [peer EXCEPT ![l] = r]
    BY <1>1, <1>6, <2>0 DEF ArmEstablishment, PeerRecord
  <2>3. loop' = Idle /\ loop.pc = "arm"
        /\ UNCHANGED <<built, registry, regClosed, holder, viewers, stop>>
    BY <1>6 DEF ArmEstablishment
  <2> HIDE DEF s
  <2>5. r \in PeerRecord
    BY <2>0, <2>1 DEF PeerRecord
  <2>6. Consistent(r)
    BY <2>0, <2>1 DEF PeerRecord, Consistent, Bare
  <2>7. SameSlot(c, r) /\ r.answered = c.answered /\ r.onClose = c.onClose /\ r.sess = c.sess
    BY <2>0 DEF PeerRecord, SameSlot
  <2> HIDE DEF r
  <2> QED
    BY <1>4, <2>0, <2>2, <2>3, <2>5, <2>6, <2>7, PeerChange
<1>7. CASE ArmRefusal
  <2> DEFINE s == IF c.qClosed THEN c.grace ELSE "armed"
             r == [c EXCEPT !.grace = s]
  <2>0. l \in Peers /\ l <= built /\ c \in PeerRecord /\ Consistent(c)
    BY <1>2, <1>3, <1>7 DEF ArmRefusal
  <2>1. s \in {"none", "armed", "done"} /\ (c.qClosed => s # "armed")
    BY <2>0 DEF PeerRecord, Consistent
  <2>2. peer' = [peer EXCEPT ![l] = r]
    BY <1>1, <1>7, <2>0 DEF ArmRefusal, PeerRecord
  <2>3. loop' = Idle /\ loop.pc = "refusal"
        /\ UNCHANGED <<built, registry, regClosed, holder, viewers, stop>>
    BY <1>7 DEF ArmRefusal
  <2> HIDE DEF s
  <2>5. r \in PeerRecord
    BY <2>0, <2>1 DEF PeerRecord
  <2>6. Consistent(r)
    BY <2>0, <2>1 DEF PeerRecord, Consistent, Bare
  <2>7. SameSlot(c, r) /\ r.answered = c.answered /\ r.onClose = c.onClose /\ r.sess = c.sess
    BY <2>0 DEF PeerRecord, SameSlot
  <2> HIDE DEF r
  <2> QED
    BY <1>4, <2>0, <2>2, <2>3, <2>5, <2>6, <2>7, PeerChange
<1>8. CASE Publish
  <2>0. l \in Peers /\ l <= built /\ c \in PeerRecord /\ Consistent(c)
    BY <1>2, <1>3, <1>8 DEF Publish
  <2>1. CASE c.qClosed
    <3>1. loop' = Idle /\ loop.pc = "publish" /\ peer' = peer
          /\ UNCHANGED <<built, registry, regClosed, holder, viewers, stop>>
      BY <1>8, <2>1 DEF Publish
    <3>2. peer' = [peer EXCEPT ![l] = c]
      BY <1>1, <2>0, <3>1
    <3>3. SameSlot(c, c)
      BY DEF SameSlot
    <3> HIDE DEF c
    <3>4. c = peer[l]
      BY DEF c
    <3> QED
      BY <1>4, <2>0, <3>1, <3>2, <3>3, <3>4, PeerChange
  <2>2. CASE ~c.qClosed
    <3> DEFINE r == [c EXCEPT !.sess = "live", !.shell = "open"]
    <3>1. peer' = [peer EXCEPT ![l] = r]
      BY <1>1, <1>8, <2>0, <2>2 DEF Publish, PeerRecord
    <3>2. loop.pc = "publish" /\ loop' = (IF c.refused THEN [loop EXCEPT !.pc = "refusal"] ELSE Idle)
          /\ UNCHANGED <<built, registry, regClosed, holder, viewers, stop>>
      BY <1>8, <2>2 DEF Publish
    <3>3. loop' \in LoopType /\ loop'.pc \in {"idle", "refusal"} /\ (loop'.pc # "idle" => loop'.peer = l)
      BY <1>1, <1>4, <3>2 DEF LoopType
    <3>4. r \in PeerRecord
      BY <2>0 DEF PeerRecord
    <3>5. c.answered /\ (c.held \/ c.refused)
      BY <2>2, <3>2 DEF IndInv, Admission
    <3>6. Consistent(r)
      BY <2>0, <2>2, <3>5 DEF PeerRecord, Consistent, Bare
    <3>7. SameSlot(c, r) /\ r.answered = c.answered /\ r.onClose = c.onClose
      BY <2>0 DEF PeerRecord, SameSlot
    <3>8. loop' # loop
      BY <3>2, <3>3
    <3> HIDE DEF r
    <3> QED
      BY <2>0, <3>1, <3>2, <3>3, <3>4, <3>6, <3>7, <3>8, PeerChange
  <2> QED
    BY <2>1, <2>2
<1>9. ASSUME NEW id \in ClientIDs, AnswerFails(id) PROVE IndInv'
  <2> DEFINE p == registry[id]
             n == [peer[p] EXCEPT !.answered = TRUE]
             r == FireOf(n)
  <2>1. p # 0 /\ p <= built /\ peer[p].id = id
    BY <1>9 DEF AnswerFails, IndInv, Known
  <2>2. p \in Peers
    BY <1>1, <2>1, WorkerAssumption DEF Peers
  <2>3. peer[p] \in PeerRecord /\ Consistent(peer[p])
    BY <1>2, <2>2
  <2>4. n \in PeerRecord
    BY <2>3 DEF PeerRecord
  <2>5. Consistent(n)
    BY <2>3 DEF PeerRecord, Consistent, Bare
  <2>6. /\ n.answered /\ n.onClose = peer[p].onClose /\ n.sess = peer[p].sess /\ n.id = peer[p].id
        /\ n.role = peer[p].role /\ n.refused = peer[p].refused /\ n.held = peer[p].held
        /\ n.qClosed = peer[p].qClosed /\ n.preempt = peer[p].preempt
    BY <2>3 DEF PeerRecord
  <2>7. peer' = [peer EXCEPT ![p] = r] /\ loop.pc = "idle"
        /\ UNCHANGED <<built, registry, regClosed, holder, viewers, loop, stop>>
    BY <1>1, <1>9, <2>2 DEF AnswerFails
  <2> HIDE DEF n
  <2>8. r \in PeerRecord /\ Consistent(r)
    BY <2>4, <2>5, FireOfFacts
  <2>9. SameSlot(peer[p], r) /\ r.answered /\ r.onClose = peer[p].onClose /\ r.sess = peer[p].sess
    BY <2>4, <2>5, <2>6, FireOfFacts DEF SameSlot
  <2>10. registry[peer[p].id] = p
    BY <2>1
  <2> HIDE DEF r, p
  <2> QED
    BY <2>1, <2>2, <2>7, <2>8, <2>9, <2>10, PeerChange
<1>10. ASSUME NEW p \in Peers, StopTeardown(p) PROVE IndInv'
  <2> DEFINE r == CloseOf(peer[p], FALSE)
  <2>1. p <= built
    BY <1>10 DEF StopTeardown, IndInv, Known
  <2>2. r \in PeerRecord /\ Consistent(r) /\ r.qClosed
    BY <1>2, CloseOfFacts
  <2>3. SameSlot(peer[p], r) /\ r.answered = peer[p].answered /\ r.onClose = peer[p].onClose
        /\ r.sess = peer[p].sess
    BY <1>2, CloseOfFacts DEF SameSlot
  <2>4. peer' = [peer EXCEPT ![p] = r] /\ stop.pc = "close" /\ stop' = [stop EXCEPT !.peers = @ \ {p}]
        /\ UNCHANGED <<built, registry, regClosed, holder, viewers, loop>>
    BY <1>10 DEF StopTeardown
  <2> HIDE DEF r
  <2> QED
    BY <2>1, <2>2, <2>3, <2>4, PeerChange
<1> QED
  BY <1>5, <1>6, <1>7, <1>8, <1>9, <1>10

(* A new peer is built. *)
LEMMA RequestStep ==
    ASSUME IndInv, NEW id \in ClientIDs, Request(id)
    PROVE  IndInv'
<1> DEFINE b == built + 1
           r == NewPeer(id)
<1>1. b \in Peers /\ b \notin 0..built /\ built \in 0..MaxPeers /\ b \in 0..MaxPeers
  BY WorkerAssumption DEF IndInv, TypeOK, Request, Peers
<1>2. r \in PeerRecord
  BY DEF NewPeer, PeerRecord
<1>3. Consistent(r) /\ ~r.held /\ ~r.onClose /\ ~r.answered /\ r.id = id /\ r.role = "none"
  BY DEF NewPeer, Consistent, Bare
<1>4. /\ loop.pc = "idle" /\ peer' = [peer EXCEPT ![b] = r] /\ built' = b
      /\ loop' = [pc |-> "add", peer |-> b]
      /\ UNCHANGED <<registry, regClosed, holder, viewers, stop>>
  BY DEF Request
<1> HIDE DEF r
<1>5. /\ peer \in [Peers -> PeerRecord] /\ peer' \in [Peers -> PeerRecord]
      /\ peer'[b] = r /\ \A q \in Peers \ {b} : peer'[q] = peer[q]
  BY <1>1, <1>2, <1>4 DEF IndInv, TypeOK
<1>6. ~peer[b].onClose /\ ~peer[b].answered
  BY <1>1 DEF IndInv, Building
<1>7. ~peer[b].held
  BY <1>1, <1>6 DEF IndInv, Consistent, Bare
<1>8. TypeOK'
  <2>1. loop' \in LoopType
    BY <1>1, <1>4 DEF LoopType
  <2> QED
    BY <1>1, <1>4, <1>5, <2>1 DEF IndInv, TypeOK, LoopType
<1>9. \A q \in Peers : Consistent(peer'[q])
  BY <1>3, <1>5 DEF IndInv
<1>10. Building'
  <2> SUFFICES ASSUME NEW q \in Peers
               PROVE  IF q <= b THEN peer'[q].id \in ClientIDs
                      ELSE ~peer'[q].onClose /\ ~peer'[q].answered
    BY <1>4 DEF Building
  <2>1. CASE q = b
    BY <2>1, <1>1, <1>3, <1>5
  <2>2. CASE q # b
    <3>1. (q <= b <=> q <= built) /\ peer'[q] = peer[q]
      BY <2>2, <1>1, <1>5, WorkerAssumption DEF Peers
    <3> QED
      BY <3>1 DEF IndInv, Building
  <2> QED
    BY <2>1, <2>2
<1>11. b \notin stop.peers /\ \A i \in ClientIDs : registry[i] # b
  BY <1>1 DEF IndInv, Known, TypeOK
<1>12. Known'
  <2>1. \A i \in ClientIDs : registry[i] # 0 =>
           registry[i] \in Peers /\ registry[i] <= built /\ peer[registry[i]].id = i
    BY WorkerAssumption DEF IndInv, Known, TypeOK, Peers
  <2>2. \A i \in ClientIDs : registry[i] # 0 => registry[i] <= b /\ peer'[registry[i]].id = i
    <3> SUFFICES ASSUME NEW i \in ClientIDs, registry[i] # 0
                 PROVE  registry[i] <= b /\ peer'[registry[i]].id = i
      OBVIOUS
    <3>1. peer'[registry[i]].id = i
      BY <1>5, <1>11, <2>1
    <3>2. registry[i] <= b
      BY <1>1, <2>1 DEF Peers
    <3> QED
      BY <3>1, <3>2
  <2>3. \A q \in stop.peers : q <= b
    BY <1>1 DEF IndInv, Known, TypeOK, Peers
  <2> QED
    BY <1>4, <2>2, <2>3 DEF IndInv, Known
<1>13. Admission'
  BY <1>1, <1>3, <1>4, <1>5, <1>11 DEF Admission
<1>14. HolderHolds'
  <2> SUFFICES ASSUME holder # 0 PROVE peer'[holder].held /\ peer'[holder].role = "control"
    BY <1>4 DEF HolderHolds
  <2>1. holder \in Peers /\ peer[holder].held /\ peer[holder].role = "control"
    BY <1>4, WorkerAssumption DEF IndInv, HolderHolds, Taking, TypeOK, Peers
  <2> QED
    BY <1>5, <1>7, <2>1
<1>15. Tracked'
  <2> SUFFICES ASSUME NEW q \in Peers, peer'[q].onClose \/ peer'[q].answered
               PROVE  peer'[q].qClosed \/ registry[peer'[q].id] = q \/ q \in stop.peers
    BY <1>4 DEF Tracked
  <2>1. q # b /\ peer'[q] = peer[q]
    BY <1>3, <1>5
  <2> QED
    BY <2>1 DEF IndInv, Tracked
<1>16. KeyboardHandedOver'
  BY <1>3, <1>4, <1>5 DEF IndInv, KeyboardHandedOver
<1>17. viewers' = Cardinality(Viewing')
  <2>1. Viewing' = Viewing
    BY <1>3, <1>4, <1>5, <1>7 DEF Viewing, Taking
  <2> QED
    BY <1>4, <2>1 DEF IndInv
<1> QED
  BY <1>8, <1>9, <1>10, <1>12, <1>13, <1>14, <1>15, <1>16, <1>17 DEF IndInv

(* It is registered, or turned away. *)
LEMMA RegisterStep ==
    ASSUME IndInv, Register
    PROVE  IndInv'
<1> DEFINE l == loop.peer
           c == peer[l]
<1>1. peer \in [Peers -> PeerRecord] /\ registry \in [ClientIDs -> 0..MaxPeers] /\ loop \in LoopType
      /\ l \in 0..MaxPeers
  BY DEF IndInv, TypeOK, LoopType
<1>2. loop.pc = "add" /\ UNCHANGED <<built, regClosed, holder, viewers, stop>>
  BY DEF Register
<1>3. l \in Peers /\ l <= built /\ c \in PeerRecord /\ Consistent(c) /\ c.id \in ClientIDs
  BY <1>1, <1>2 DEF IndInv, Admission, Building
<1>4. CASE ~regClosed /\ registry[c.id] = 0 /\ registry' = [registry EXCEPT ![c.id] = l]
           /\ loop' = [loop EXCEPT !.pc = "onclose"] /\ peer' = peer
  <2>1. loop' \in LoopType /\ loop'.pc = "onclose" /\ loop'.peer = l
    BY <1>1, <1>4 DEF LoopType
  <2>2. registry' \in [ClientIDs -> 0..MaxPeers] /\ registry'[c.id] = l
        /\ \A i \in ClientIDs \ {c.id} : registry'[i] = registry[i]
    BY <1>1, <1>3, <1>4
  <2>3. TypeOK'
    BY <1>2, <1>4, <2>1, <2>2 DEF IndInv, TypeOK, LoopType
  <2>4. Building' /\ KeyboardHandedOver'
    BY <1>2, <1>4 DEF IndInv, Building, KeyboardHandedOver
  <2>5. Known'
    BY <1>2, <1>3, <1>4, <2>2 DEF IndInv, Known
  <2>6. Admission'
    BY <1>2, <1>3, <1>4, <2>1 DEF IndInv, Admission
  <2>7. HolderHolds' /\ Viewing' = Viewing
    BY <1>2, <1>4, <2>1 DEF IndInv, HolderHolds, Viewing, Taking
  <2>8. Tracked'
    <3> SUFFICES ASSUME NEW q \in Peers,
                        \/ peer[q].onClose \/ peer[q].answered \/ l = q,
                        ~peer[q].qClosed
                 PROVE  registry'[peer[q].id] = q \/ q \in stop.peers
      BY <1>2, <1>4, <2>1 DEF Tracked
    <3>1. CASE q = l
      BY <3>1, <2>2
    <3>2. CASE q # l
      <4>1. registry[peer[q].id] = q \/ q \in stop.peers
        BY <3>2 DEF IndInv, Tracked
      <4>2. CASE registry[peer[q].id] = q
        <5>1. q # 0
          BY WorkerAssumption DEF Peers
        <5>2. peer[q].id # c.id
          BY <1>4, <4>2, <5>1
        <5>3. peer[q].id \in ClientIDs
          BY <3>2 DEF IndInv, Building
        <5> QED
          BY <2>2, <4>2, <5>2, <5>3
      <4> QED
        BY <4>1, <4>2
    <3> QED
      BY <3>1, <3>2
  <2>9. \A q \in Peers : Consistent(peer'[q])
    BY <1>4 DEF IndInv
  <2>10. viewers' = Cardinality(Viewing')
    BY <1>2, <2>7 DEF IndInv
  <2> QED
    BY <2>3, <2>4, <2>5, <2>6, <2>7, <2>8, <2>9, <2>10 DEF IndInv
<1>5. CASE peer' = [peer EXCEPT ![l] = FireOf(@)] /\ loop' = Idle /\ registry' = registry
  <2> DEFINE r == FireOf(c)
  <2>1. r \in PeerRecord /\ Consistent(r)
    BY <1>3, FireOfFacts
  <2>2. SameSlot(c, r) /\ r.answered = c.answered /\ r.onClose = c.onClose /\ r.sess = c.sess
    BY <1>3, FireOfFacts DEF SameSlot
  <2>3. peer' = [peer EXCEPT ![l] = r]
    BY <1>1, <1>3, <1>5
  <2>4. Idle \in LoopType /\ Idle.pc = "idle"
    BY WorkerAssumption DEF Idle, LoopType
  <2> HIDE DEF r
  <2> QED
    BY <1>2, <1>3, <1>5, <2>1, <2>2, <2>3, <2>4, PeerChange
<1> QED
  BY <1>4, <1>5 DEF Register

(* What the steps that take and give back slots have in common. *)
LEMMA SlotChange ==
    ASSUME IndInv, NEW p \in Peers, p <= built, NEW r \in PeerRecord,
           peer' = [peer EXCEPT ![p] = r], UNCHANGED <<built, registry, regClosed, stop>>,
           Consistent(r), r.id = peer[p].id, r.onClose = peer[p].onClose,
           r.qClosed = peer[p].qClosed,
           r.answered = peer[p].answered \/ registry[peer[p].id] = p,
           loop' \in LoopType, loop'.pc = "onclose" => loop' = loop,
           holder' \in 0..MaxPeers, viewers' \in 0..MaxViewers
    PROVE  /\ TypeOK' /\ (\A q \in Peers : Consistent(peer'[q])) /\ Building' /\ Known' /\ Tracked'
           /\ peer'[p] = r /\ \A q \in Peers \ {p} : peer'[q] = peer[q]
<1>0. /\ peer \in [Peers -> PeerRecord] /\ peer' \in [Peers -> PeerRecord]
      /\ peer'[p] = r /\ \A q \in Peers \ {p} : peer'[q] = peer[q]
  BY DEF IndInv, TypeOK
<1>1. \A q \in Peers : /\ peer'[q].id = peer[q].id /\ peer'[q].onClose = peer[q].onClose
                       /\ peer'[q].qClosed = peer[q].qClosed
  BY <1>0
<1>2. TypeOK'
  BY <1>0 DEF IndInv, TypeOK, LoopType
<1>3. (\A q \in Peers : Consistent(peer'[q])) /\ Building'
  BY <1>0 DEF IndInv, Building
<1>4. Known'
  BY <1>1, WorkerAssumption DEF IndInv, Known, TypeOK, Peers
<1>5. Tracked'
  <2> SUFFICES ASSUME NEW q \in Peers,
                      \/ peer'[q].onClose \/ peer'[q].answered
                      \/ loop'.pc = "onclose" /\ loop'.peer = q
               PROVE  peer'[q].qClosed \/ registry'[peer'[q].id] = q \/ q \in stop'.peers
    BY DEF Tracked
  <2>1. \/ peer[q].onClose \/ peer[q].answered \/ registry[peer[q].id] = q
        \/ loop.pc = "onclose" /\ loop.peer = q
    BY <1>0, <1>1
  <2> QED
    BY <1>1, <2>1 DEF IndInv, Tracked
<1> QED
  BY <1>0, <1>2, <1>3, <1>4, <1>5

(* An answer is admitted. *)
LEMMA AnswerStep ==
    ASSUME IndInv, NEW id \in ClientIDs, NEW role \in Roles, Answer(id, role)
    PROVE  IndInv'
<1> DEFINE p == registry[id]
           c == peer[p]
           r == [c EXCEPT !.answered = TRUE, !.role = role]
<1>1. p # 0 /\ p <= built /\ c.id = id /\ p \in 0..MaxPeers
  BY DEF Answer, IndInv, Known, TypeOK
<1>2. p \in Peers
  BY <1>1, WorkerAssumption DEF Peers
<1>3. c \in PeerRecord /\ Consistent(c) /\ ~c.answered
  BY <1>2 DEF IndInv, TypeOK, Answer
<1>4. Bare(c) /\ c.role = "none"
  BY <1>3 DEF Consistent
<1>5. r \in PeerRecord
  BY <1>3 DEF PeerRecord
<1>6. Consistent(r) /\ Bare(r)
  BY <1>3, <1>4 DEF Consistent, Bare, PeerRecord
<1>7. r.id = c.id /\ r.onClose = c.onClose /\ r.qClosed = c.qClosed /\ r.role = role /\ r.answered
  BY <1>3 DEF PeerRecord
<1>8. peer' = [peer EXCEPT ![p] = r]
  BY <1>2, <1>3 DEF Answer, PeerRecord, IndInv, TypeOK
<1>9. loop.pc = "idle" /\ loop' = [pc |-> "take", peer |-> p]
      /\ UNCHANGED <<built, registry, regClosed, holder, viewers, stop>>
  BY DEF Answer
<1>10. loop' \in LoopType /\ holder' \in 0..MaxPeers /\ viewers' \in 0..MaxViewers
  BY <1>1, <1>9 DEF LoopType, IndInv, TypeOK
<1>11. registry[c.id] = p
  BY <1>1
<1> HIDE DEF r
<1>12. /\ TypeOK' /\ (\A q \in Peers : Consistent(peer'[q])) /\ Building' /\ Known' /\ Tracked'
       /\ peer'[p] = r /\ \A q \in Peers \ {p} : peer'[q] = peer[q]
  BY <1>1, <1>2, <1>5, <1>6, <1>7, <1>8, <1>9, <1>10, <1>11, SlotChange
<1>13. ~c.held /\ ~r.held
  BY <1>4, <1>6 DEF Bare
<1>14. Admission'
  BY <1>1, <1>2, <1>6, <1>7, <1>9, <1>12 DEF Admission
<1>15. HolderHolds'
  <2> SUFFICES ASSUME holder # 0 PROVE peer'[holder].held /\ peer'[holder].role = "control"
    BY <1>9 DEF HolderHolds
  <2>1. holder \in Peers /\ peer[holder].held /\ peer[holder].role = "control"
    BY <1>9, WorkerAssumption DEF IndInv, HolderHolds, Taking, TypeOK, Peers
  <2> QED
    BY <1>12, <1>13, <2>1
<1>16. KeyboardHandedOver'
  BY <1>9, <1>12, <1>13 DEF IndInv, KeyboardHandedOver
<1>17. viewers' = Cardinality(Viewing')
  <2>1. Viewing' = Viewing
    BY <1>9, <1>12, <1>13 DEF Viewing, Taking
  <2> QED
    BY <1>9, <2>1 DEF IndInv
<1> QED
  BY <1>12, <1>14, <1>15, <1>16, <1>17 DEF IndInv

(* The keyboard changes hands. *)
LEMMA TakeControlStep ==
    ASSUME IndInv, TakeControl
    PROVE  IndInv'
<1> DEFINE l == loop.peer
           h == IF holder = 0 THEN l ELSE holder
           c == peer[h]
           r == IF holder = 0 THEN c ELSE [c EXCEPT !.preempt = "start"]
<1>1. /\ peer \in [Peers -> PeerRecord] /\ loop \in LoopType /\ holder \in 0..MaxPeers
      /\ viewers \in 0..MaxViewers
  BY DEF IndInv, TypeOK, LoopType
<1>2. /\ loop.pc = "take" /\ peer[l].role = "control" /\ holder' = l
      /\ loop' = [loop EXCEPT !.pc = "hold"]
      /\ UNCHANGED <<built, registry, regClosed, viewers, stop>>
  BY DEF TakeControl
<1>3. l \in Peers /\ l <= built /\ Bare(peer[l]) /\ peer[l].role \in Roles /\ peer[l].answered
  BY <1>2 DEF IndInv, Admission
<1>4. loop' \in LoopType /\ loop'.pc = "hold" /\ loop'.peer = l /\ l \in 0..MaxPeers
  BY <1>1, <1>2 DEF LoopType
<1>5. holder # 0 => /\ holder \in Peers /\ holder # l
                    /\ peer[holder].held /\ peer[holder].role = "control"
  <2> SUFFICES ASSUME holder # 0
               PROVE  /\ holder \in Peers /\ holder # l
                      /\ peer[holder].held /\ peer[holder].role = "control"
    OBVIOUS
  <2>1. holder \in Peers
    BY <1>1, WorkerAssumption DEF Peers
  <2>2. peer[holder].held /\ peer[holder].role = "control"
    BY <1>2 DEF IndInv, HolderHolds, Taking
  <2> QED
    BY <1>3, <2>1, <2>2 DEF Bare
<1>6. h \in Peers /\ c \in PeerRecord /\ Consistent(c)
  BY <1>1, <1>3, <1>5 DEF IndInv
<1>7. h <= built
  <2>1. holder # 0 => peer[holder].answered
    BY <1>5, <1>6 DEF Consistent, Bare
  <2> QED
    BY <1>3, <1>5, <2>1 DEF IndInv, Building
<1>8. r \in PeerRecord
  <2>1. [c EXCEPT !.preempt = "start"] \in PeerRecord
    BY <1>6 DEF PeerRecord
  <2> QED
    BY <1>6, <2>1
<1>9. Consistent(r) /\ r.id = c.id /\ r.onClose = c.onClose /\ r.qClosed = c.qClosed
      /\ r.answered = c.answered /\ r.held = c.held /\ r.role = c.role /\ (Bare(c) => Bare(r))
      /\ (holder # 0 => r.preempt = "start")
  <2> DEFINE n == [c EXCEPT !.preempt = "start"]
  <2>1. Consistent(n)
    BY <1>6 DEF PeerRecord, Consistent, Bare
  <2>2. n.id = c.id /\ n.onClose = c.onClose /\ n.qClosed = c.qClosed
        /\ n.answered = c.answered /\ n.held = c.held /\ n.role = c.role /\ (Bare(c) => Bare(n))
        /\ n.preempt = "start"
    BY <1>6 DEF PeerRecord, Bare
  <2> QED
    BY <1>6, <2>1, <2>2
<1>10. peer' = [peer EXCEPT ![h] = r]
  <2>1. CASE holder = 0
    BY <1>1, <1>3, <2>1 DEF TakeControl
  <2>2. CASE holder # 0
    BY <1>1, <1>5, <2>2 DEF TakeControl, PeerRecord
  <2> QED
    BY <2>1, <2>2
<1>11. holder = 0 => h = l
  OBVIOUS
<1>12. holder # 0 => h = holder
  OBVIOUS
<1> HIDE DEF r, h
<1>13. /\ TypeOK' /\ (\A q \in Peers : Consistent(peer'[q])) /\ Building' /\ Known' /\ Tracked'
       /\ peer'[h] = r /\ \A q \in Peers \ {h} : peer'[q] = peer[q]
  BY <1>1, <1>2, <1>4, <1>6, <1>7, <1>8, <1>9, <1>10, SlotChange
<1>14. \A q \in Peers : /\ peer'[q].held = peer[q].held /\ peer'[q].role = peer[q].role
                        /\ peer'[q].answered = peer[q].answered
                        /\ peer'[q].qClosed = peer[q].qClosed /\ (Bare(peer[q]) => Bare(peer'[q]))
  BY <1>9, <1>13
<1>15. Admission'
  BY <1>2, <1>3, <1>4, <1>14 DEF Admission
<1>16. HolderHolds'
  BY <1>2, <1>3, <1>4, <1>14 DEF HolderHolds, Taking
<1>17. KeyboardHandedOver'
  <2> SUFFICES ASSUME NEW q \in Peers, peer[q].held, peer[q].role = "control", q # l
               PROVE  peer'[q].preempt \in {"start", "drain"} \/ peer[q].qClosed
    BY <1>2, <1>14 DEF KeyboardHandedOver
  <2>1. CASE q = holder
    BY <1>5, <1>9, <1>12, <1>13, <2>1, WorkerAssumption DEF Peers
  <2>2. CASE q # holder
    <3>1. peer[q].preempt \in {"start", "drain"} \/ peer[q].qClosed
      BY <2>2 DEF IndInv, KeyboardHandedOver
    <3>2. q # h
      BY <2>2, <1>11, <1>12
    <3> QED
      BY <1>13, <3>1, <3>2
  <2> QED
    BY <2>1, <2>2
<1>18. viewers' = Cardinality(Viewing')
  <2>1. Viewing' = Viewing
    BY <1>2, <1>4, <1>14 DEF Viewing, Taking
  <2> QED
    BY <1>2, <2>1 DEF IndInv
<1> QED
  BY <1>13, <1>15, <1>16, <1>17, <1>18 DEF IndInv

(* A viewer takes a slot, or is refused one. *)
LEMMA TakeViewStep ==
    ASSUME IndInv, TakeView
    PROVE  IndInv'
<1> DEFINE l == loop.peer
           c == peer[l]
<1>1. /\ peer \in [Peers -> PeerRecord] /\ loop \in LoopType /\ holder \in 0..MaxPeers
      /\ viewers \in 0..MaxViewers
  BY DEF IndInv, TypeOK, LoopType
<1>2. /\ loop.pc = "take" /\ c.role = "view"
      /\ UNCHANGED <<built, registry, regClosed, holder, stop>>
  BY DEF TakeView
<1>3. l \in Peers /\ l <= built /\ Bare(c) /\ c.role \in Roles /\ c.answered
  BY <1>2 DEF IndInv, Admission
<1>4. c \in PeerRecord /\ Consistent(c)
  BY <1>1, <1>3 DEF IndInv
<1>5. holder # 0 => holder \in Peers /\ peer[holder].held /\ peer[holder].role = "control"
  BY <1>1, <1>2, WorkerAssumption DEF IndInv, HolderHolds, Taking, Peers
<1>6. CASE viewers < MaxViewers /\ viewers' = viewers + 1 /\ peer' = peer
           /\ loop' = [loop EXCEPT !.pc = "hold"]
  <2>1. loop' \in LoopType /\ loop'.pc = "hold" /\ loop'.peer = l
    BY <1>1, <1>6 DEF LoopType
  <2>2. viewers' \in 0..MaxViewers
    BY <1>1, <1>6, WorkerAssumption
  <2>3. peer' = [peer EXCEPT ![l] = c]
    BY <1>1, <1>3, <1>6
  <2>4. /\ TypeOK' /\ (\A q \in Peers : Consistent(peer'[q])) /\ Building' /\ Known' /\ Tracked'
    <3> HIDE DEF c
    <3>1. c = peer[l]
      BY DEF c
    <3> QED
      BY <1>1, <1>2, <1>3, <1>4, <2>1, <2>2, <2>3, <3>1, SlotChange
  <2>5. Admission'
    BY <1>2, <1>3, <1>6, <2>1 DEF Admission
  <2>6. HolderHolds' /\ KeyboardHandedOver'
    BY <1>2, <1>5, <1>6 DEF IndInv, HolderHolds, KeyboardHandedOver
  <2>7. Viewing' = Viewing \cup {l} /\ l \notin Viewing
    BY <1>2, <1>3, <1>6, <2>1 DEF Viewing, Taking, Bare
  <2>8. viewers' = Cardinality(Viewing')
    BY <1>6, <2>7, ViewingFinite, FS_AddElement DEF IndInv
  <2> QED
    BY <2>4, <2>5, <2>6, <2>8 DEF IndInv
<1>7. CASE peer' = [peer EXCEPT ![l].refused = TRUE] /\ viewers' = viewers
           /\ loop' = [loop EXCEPT !.pc = "publish"]
  <2> DEFINE r == [c EXCEPT !.refused = TRUE]
  <2>1. loop' \in LoopType /\ loop'.pc = "publish" /\ loop'.peer = l
    BY <1>1, <1>7 DEF LoopType
  <2>2. r \in PeerRecord
    BY <1>4 DEF PeerRecord
  <2>3. Consistent(r)
    BY <1>3, <1>4 DEF PeerRecord, Consistent, Bare
  <2>4. /\ r.id = c.id /\ r.onClose = c.onClose /\ r.qClosed = c.qClosed /\ r.answered = c.answered
        /\ r.held = c.held /\ r.role = c.role /\ r.refused /\ r.sess = c.sess /\ r.preempt = c.preempt
    BY <1>4 DEF PeerRecord
  <2>5. peer' = [peer EXCEPT ![l] = r]
    BY <1>1, <1>3, <1>7 DEF PeerRecord
  <2> HIDE DEF r
  <2>6. /\ TypeOK' /\ (\A q \in Peers : Consistent(peer'[q])) /\ Building' /\ Known' /\ Tracked'
        /\ peer'[l] = r /\ \A q \in Peers \ {l} : peer'[q] = peer[q]
    BY <1>1, <1>2, <1>3, <1>7, <2>1, <2>2, <2>3, <2>4, <2>5, SlotChange
  <2>7. \A q \in Peers : /\ peer'[q].held = peer[q].held /\ peer'[q].role = peer[q].role
                         /\ peer'[q].qClosed = peer[q].qClosed /\ peer'[q].preempt = peer[q].preempt
    BY <2>4, <2>6
  <2>8. Admission'
    BY <1>2, <1>3, <2>1, <2>4, <2>6 DEF Admission, Bare
  <2>9. HolderHolds' /\ KeyboardHandedOver'
    BY <1>2, <1>5, <2>7 DEF IndInv, HolderHolds, KeyboardHandedOver
  <2>10. viewers' = Cardinality(Viewing')
    <3>1. Viewing' = Viewing
      BY <1>2, <2>1, <2>7 DEF Viewing, Taking
    <3> QED
      BY <1>7, <3>1 DEF IndInv
  <2> QED
    BY <2>6, <2>8, <2>9, <2>10 DEF IndInv
<1> QED
  BY <1>6, <1>7 DEF TakeView

(* Teardown becomes the owner of the slot, or the loop gives it back. *)
LEMMA HoldStep ==
    ASSUME IndInv, Hold
    PROVE  IndInv'
<1> DEFINE l == loop.peer
           c == peer[l]
<1>1. /\ peer \in [Peers -> PeerRecord] /\ loop \in LoopType /\ holder \in 0..MaxPeers
      /\ viewers \in 0..MaxViewers
  BY DEF IndInv, TypeOK, LoopType
<1>2. loop.pc = "hold" /\ UNCHANGED <<built, registry, regClosed, stop>>
  BY DEF Hold
<1>3. l \in Peers /\ l <= built /\ Bare(c) /\ c.role \in Roles /\ c.answered
      /\ (c.role = "control" => holder = l)
  BY <1>2 DEF IndInv, Admission
<1>4. c \in PeerRecord /\ Consistent(c) /\ c.role \in {"control", "view"}
  BY <1>1, <1>3, WorkerAssumption DEF IndInv
<1>5. holder # 0 => /\ holder \in Peers
                    /\ \/ peer[holder].held /\ peer[holder].role = "control" /\ holder # l
                       \/ holder = l /\ c.role = "control"
  BY <1>1, <1>2, <1>3, WorkerAssumption DEF IndInv, HolderHolds, Taking, Peers, Bare
<1>6. viewers = Cardinality(Viewing)
  BY DEF IndInv
<1>7. CASE c.qClosed
  <2>1. Release(l, c.role) /\ loop' = Idle /\ peer' = peer
    BY <1>7 DEF Hold
  <2>2. loop' \in LoopType /\ loop'.pc = "idle"
    BY <2>1, WorkerAssumption DEF LoopType, Idle
  <2>3. Viewing' = (IF c.role = "view" THEN Viewing \ {l} ELSE Viewing)
        /\ (c.role = "view" => l \in Viewing)
    BY <1>2, <1>3, <1>4, <2>1, <2>2 DEF Viewing, Taking, Bare
  <2>4. viewers' = Cardinality(Viewing') /\ viewers' \in 0..MaxViewers
    <3>1. CASE c.role = "view"
      <4>1. viewers' = viewers - 1
        BY <2>1, <3>1 DEF Release
      <4>2. Cardinality(Viewing) # 0
        BY <2>3, <3>1, ViewingFinite, FS_EmptySet
      <4>3. Cardinality(Viewing') = Cardinality(Viewing) - 1
        BY <2>3, <3>1, ViewingFinite, FS_RemoveElement
      <4> QED
        BY <1>1, <1>6, <4>1, <4>2, <4>3, WorkerAssumption
    <3>2. CASE c.role # "view"
      BY <1>1, <1>6, <2>1, <2>3, <3>2 DEF Release
    <3> QED
      BY <3>1, <3>2
  <2>5. holder' \in 0..MaxPeers /\ holder' = (IF c.role = "control" THEN 0 ELSE holder)
    BY <1>1, <1>3, <2>1, WorkerAssumption DEF Release
  <2>6. peer' = [peer EXCEPT ![l] = c]
    BY <1>1, <1>3, <2>1
  <2>7. /\ TypeOK' /\ (\A q \in Peers : Consistent(peer'[q])) /\ Building' /\ Known' /\ Tracked'
    <3> HIDE DEF c
    <3>1. c = peer[l]
      BY DEF c
    <3> QED
      BY <1>2, <1>3, <1>4, <2>2, <2>4, <2>5, <2>6, <3>1, SlotChange
  <2>8. Admission'
    BY <2>2 DEF Admission
  <2>9. HolderHolds'
    BY <1>3, <1>5, <2>1, <2>5 DEF HolderHolds
  <2>10. KeyboardHandedOver'
    BY <1>3, <2>1, <2>5 DEF IndInv, KeyboardHandedOver, Bare
  <2> QED
    BY <2>4, <2>7, <2>8, <2>9, <2>10 DEF IndInv
<1>8. CASE ~c.qClosed
  <2> DEFINE r == [c EXCEPT !.held = TRUE]
  <2>1. loop' = [loop EXCEPT !.pc = "publish"] /\ UNCHANGED <<viewers, holder>>
    BY <1>8 DEF Hold
  <2>2. loop' \in LoopType /\ loop'.pc = "publish" /\ loop'.peer = l
    BY <1>1, <2>1 DEF LoopType
  <2>3. r \in PeerRecord
    BY <1>4 DEF PeerRecord
  <2>4. Consistent(r)
    BY <1>3, <1>4, <1>8 DEF PeerRecord, Consistent, Bare
  <2>5. /\ r.id = c.id /\ r.onClose = c.onClose /\ r.qClosed = c.qClosed /\ r.answered = c.answered
        /\ r.held /\ r.role = c.role /\ r.sess = c.sess
    BY <1>4 DEF PeerRecord
  <2>6. peer' = [peer EXCEPT ![l] = r]
    BY <1>1, <1>3, <1>8 DEF PeerRecord, Hold
  <2> HIDE DEF r
  <2>7. /\ TypeOK' /\ (\A q \in Peers : Consistent(peer'[q])) /\ Building' /\ Known' /\ Tracked'
        /\ peer'[l] = r /\ \A q \in Peers \ {l} : peer'[q] = peer[q]
    BY <1>1, <1>2, <1>3, <2>1, <2>2, <2>3, <2>4, <2>5, <2>6, SlotChange
  <2>8. Admission'
    BY <1>2, <1>3, <2>2, <2>5, <2>7 DEF Admission, Bare
  <2>9. HolderHolds'
    BY <1>5, <2>1, <2>5, <2>7 DEF HolderHolds
  <2>10. KeyboardHandedOver'
    BY <1>3, <2>1, <2>5, <2>7 DEF IndInv, KeyboardHandedOver
  <2>11. viewers' = Cardinality(Viewing')
    <3>1. Viewing' = Viewing
      BY <1>2, <1>3, <2>2, <2>5, <2>7 DEF Viewing, Taking
    <3> QED
      BY <1>6, <2>1, <3>1
  <2> QED
    BY <2>7, <2>8, <2>9, <2>10, <2>11 DEF IndInv
<1> QED
  BY <1>7, <1>8

(* Teardown hands the slot back. *)
LEMMA CloserReleaseStep ==
    ASSUME IndInv, NEW p \in Peers, CloserRelease(p)
    PROVE  IndInv'
<1> DEFINE c == peer[p]
           r == [c EXCEPT !.closer = "conn", !.held = FALSE]
<1>1. /\ peer \in [Peers -> PeerRecord] /\ loop \in LoopType /\ holder \in 0..MaxPeers
      /\ viewers \in 0..MaxViewers
  BY DEF IndInv, TypeOK, LoopType
<1>2. /\ c.closer = "release" /\ p <= built /\ peer' = [peer EXCEPT ![p] = r]
      /\ UNCHANGED <<built, registry, regClosed, stop, loop>>
  BY DEF CloserRelease, PeerStep
<1>3. c \in PeerRecord /\ Consistent(c)
  BY <1>1 DEF IndInv
<1>4. r \in PeerRecord
  BY <1>3 DEF PeerRecord
<1>5. Consistent(r)
  BY <1>2, <1>3 DEF PeerRecord, Consistent, Bare
<1>6. /\ r.id = c.id /\ r.onClose = c.onClose /\ r.qClosed = c.qClosed /\ r.answered = c.answered
      /\ ~r.held /\ r.role = c.role /\ r.sess = c.sess /\ r.preempt = c.preempt
      /\ r.refused = c.refused /\ (Bare(c) => Bare(r)) /\ c.qClosed
  BY <1>2, <1>3 DEF PeerRecord, Bare, Consistent
<1> HIDE DEF r
<1>7. loop.pc # "idle" => loop.peer \in Peers /\ loop.peer <= built
  BY DEF IndInv, Admission
<1>8. c.held => \A role : ~Taking(p, role)
  BY DEF IndInv, Admission, Taking, Bare
<1>9. viewers = Cardinality(Viewing)
  BY DEF IndInv
<1>10. peer'[p] = r /\ \A q \in Peers \ {p} : peer'[q] = peer[q]
  BY <1>1, <1>2
<1>11. \A q \in Peers : /\ peer'[q].role = peer[q].role /\ peer'[q].sess = peer[q].sess
                        /\ peer'[q].answered = peer[q].answered
                        /\ peer'[q].onClose = peer[q].onClose
                        /\ peer'[q].refused = peer[q].refused /\ (Bare(peer[q]) => Bare(peer'[q]))
                        /\ peer'[q].qClosed = peer[q].qClosed /\ peer'[q].preempt = peer[q].preempt
                        /\ (peer'[q].held => peer[q].held)
  BY <1>6, <1>10
<1>12. \A q \in Peers : \A role : Taking(q, role)' <=> Taking(q, role)
  BY <1>2, <1>11 DEF Taking
<1>13. viewers' = Cardinality(Viewing') /\ viewers' \in 0..MaxViewers
  <2>1. CASE c.held /\ c.role = "view"
    <3>1. viewers' = viewers - 1
      BY <2>1 DEF CloserRelease, Release
    <3>2. Viewing' = Viewing \ {p} /\ p \in Viewing
      BY <1>6, <1>8, <1>10, <1>12, <2>1 DEF Viewing
    <3>3. Cardinality(Viewing) # 0
      BY <3>2, ViewingFinite, FS_EmptySet
    <3>4. Cardinality(Viewing') = Cardinality(Viewing) - 1
      BY <3>2, ViewingFinite, FS_RemoveElement
    <3> QED
      BY <1>1, <1>9, <3>1, <3>3, <3>4, WorkerAssumption
  <2>2. CASE ~(c.held /\ c.role = "view")
    <3>1. viewers' = viewers
      BY <2>2 DEF CloserRelease, Release
    <3>2. Viewing' = Viewing
      BY <1>6, <1>10, <1>12, <2>2 DEF Viewing
    <3> QED
      BY <1>1, <1>9, <3>1, <3>2
  <2> QED
    BY <2>1, <2>2
<1>14. holder' = (IF c.held /\ c.role = "control" /\ holder = p THEN 0 ELSE holder)
  BY DEF CloserRelease, Release
<1>15. holder' \in 0..MaxPeers
  BY <1>1, <1>14, WorkerAssumption
<1>16. TypeOK' /\ (\A q \in Peers : Consistent(peer'[q])) /\ Building' /\ Known' /\ Tracked'
  BY <1>1, <1>2, <1>4, <1>5, <1>6, <1>13, <1>15, SlotChange
<1>17. HolderHolds'
  <2> SUFFICES ASSUME holder' # 0
               PROVE  \/ peer'[holder'].held /\ peer'[holder'].role = "control"
                      \/ loop'.pc = "hold" /\ loop'.peer = holder' /\ peer'[holder'].role = "control"
    BY DEF HolderHolds, Taking
  <2>1. holder' = holder /\ holder \in Peers
    BY <1>1, <1>14, WorkerAssumption DEF Peers
  <2>2. (peer[holder].held /\ peer[holder].role = "control") \/ Taking(holder, "control")
    BY <2>1 DEF IndInv, HolderHolds
  <2>3. CASE Taking(holder, "control")
    <3>1. loop.pc = "hold" /\ loop.peer = holder /\ peer[holder].role = "control"
      BY <2>3 DEF Taking
    <3> QED
      BY <3>1, <1>2, <1>11, <2>1 DEF Taking
  <2>4. CASE peer[holder].held /\ peer[holder].role = "control"
    BY <1>10, <1>14, <2>1, <2>4
  <2> QED
    BY <2>2, <2>3, <2>4
<1>18. KeyboardHandedOver'
  BY <1>6, <1>10, <1>11, <1>14 DEF IndInv, KeyboardHandedOver
<1>19. Admission'
  <2>1. loop.pc \in {"add", "onclose"} => ~peer'[loop.peer].onClose /\ ~peer'[loop.peer].answered
    BY <1>7, <1>11 DEF IndInv, Admission
  <2>2. loop.pc = "add" => (\A id \in ClientIDs : registry[id] # loop.peer)
                           /\ loop.peer \notin stop.peers
    BY DEF IndInv, Admission
  <2>3. loop.pc \in {"take", "hold"} => /\ Bare(peer'[loop.peer])
                                        /\ peer'[loop.peer].role \in Roles
    BY <1>7, <1>11 DEF IndInv, Admission
  <2>4. loop.pc = "hold" /\ peer'[loop.peer].role = "control" => holder' = loop.peer
    <3> SUFFICES ASSUME loop.pc = "hold", peer'[loop.peer].role = "control"
                 PROVE  holder' = loop.peer
      OBVIOUS
    <3>1. holder = loop.peer /\ Bare(peer[loop.peer])
      BY <1>7, <1>11 DEF IndInv, Admission
    <3> QED
      BY <1>14, <3>1 DEF Bare
  <2>5. loop.pc = "publish" =>
          /\ peer'[loop.peer].sess = "none"
          /\ peer'[loop.peer].qClosed \/ peer'[loop.peer].held \/ peer'[loop.peer].refused
    <3> SUFFICES ASSUME loop.pc = "publish"
                 PROVE  /\ peer'[loop.peer].sess = "none"
                        /\ peer'[loop.peer].qClosed \/ peer'[loop.peer].held \/ peer'[loop.peer].refused
      OBVIOUS
    <3>1. loop.peer \in Peers /\ peer[loop.peer].sess = "none"
          /\ (peer[loop.peer].qClosed \/ peer[loop.peer].held \/ peer[loop.peer].refused)
      BY <1>7 DEF IndInv, Admission
    <3> QED
      BY <1>6, <1>10, <1>11, <3>1
  <2>6. loop.pc \in {"take", "hold", "publish", "refusal"} => peer'[loop.peer].answered
    BY <1>7, <1>11 DEF IndInv, Admission
  <2> QED
    BY <1>2, <1>7, <2>1, <2>2, <2>3, <2>4, <2>5, <2>6 DEF Admission
<1> QED
  BY <1>13, <1>16, <1>17, <1>18, <1>19 DEF IndInv

(* Shutdown's own steps. *)
LEMMA StopSteps ==
    ASSUME IndInv, RunEnds \/ StopDrains \/ StopDone
    PROVE  IndInv'
<1>1. UNCHANGED <<built, peer, holder, viewers, loop>>
  BY DEF RunEnds, StopDrains, StopDone
<1>2. /\ registry \in [ClientIDs -> 0..MaxPeers]
      /\ stop \in [pc : {"running", "drain", "close", "done"}, peers : SUBSET Peers]
  BY DEF IndInv, TypeOK
<1>3. (\A q \in Peers : Consistent(peer'[q])) /\ Building' /\ HolderHolds' /\ KeyboardHandedOver'
  BY <1>1 DEF IndInv, Building, HolderHolds, KeyboardHandedOver, Taking
<1>4. viewers' = Cardinality(Viewing')
  <2>1. Viewing' = Viewing
    BY <1>1 DEF Viewing, Taking
  <2> QED
    BY <1>1, <2>1 DEF IndInv
<1>5. CASE RunEnds \/ StopDone
  <2>1. UNCHANGED <<registry, regClosed>>
    BY <1>5 DEF RunEnds, StopDone
  <2>2. /\ stop' \in [pc : {"running", "drain", "close", "done"}, peers : SUBSET Peers]
        /\ stop'.peers = stop.peers
        /\ stop'.pc \in {"close", "done"} <=> stop.pc \in {"close", "done"}
        /\ stop'.pc = "done" => stop.peers = {}
    BY <1>2, <1>5 DEF RunEnds, StopDone
  <2>3. TypeOK'
    BY <1>1, <2>1, <2>2 DEF IndInv, TypeOK
  <2>4. Known' /\ Tracked'
    BY <1>1, <2>1, <2>2 DEF IndInv, Known, Tracked
  <2>5. Admission'
    BY <1>1, <2>1, <2>2 DEF IndInv, Admission
  <2> QED
    BY <1>3, <1>4, <2>3, <2>4, <2>5 DEF IndInv
<1>6. CASE StopDrains
  <2> DEFINE S == {registry[id] : id \in Registered}
  <2>1. /\ stop.pc = "drain" /\ regClosed' = TRUE /\ stop' = [pc |-> "close", peers |-> S]
        /\ registry' = [id \in ClientIDs |-> 0]
    BY <1>6 DEF StopDrains
  <2>2. \A q \in S : \E id \in ClientIDs : registry[id] = q /\ q # 0
    BY DEF Registered
  <2>3. S \in SUBSET Peers
    BY <1>2, <2>2, WorkerAssumption DEF Peers
  <2>4. \A id \in ClientIDs : registry[id] # 0 => registry[id] \in S
    BY DEF Registered
  <2> HIDE DEF S
  <2>5. stop'.pc = "close" /\ stop'.peers = S
    BY <2>1
  <2>6. TypeOK'
    <3>1. registry' \in [ClientIDs -> 0..MaxPeers]
      BY <2>1, WorkerAssumption
    <3>2. stop' \in [pc : {"running", "drain", "close", "done"}, peers : SUBSET Peers]
      BY <2>1, <2>3
    <3> QED
      BY <1>1, <2>1, <3>1, <3>2 DEF IndInv, TypeOK
  <2>7. Known'
    BY <1>1, <2>1, <2>2, <2>5 DEF IndInv, Known
  <2>8. Tracked'
    <3> SUFFICES ASSUME NEW q \in Peers,
                        \/ peer[q].onClose \/ peer[q].answered
                        \/ loop.pc = "onclose" /\ loop.peer = q,
                        ~peer[q].qClosed
                 PROVE  q \in S
      BY <1>1, <2>5 DEF Tracked
    <3>1. registry[peer[q].id] = q \/ q \in stop.peers
      BY DEF IndInv, Tracked
    <3>2. q <= built /\ q # 0
      BY WorkerAssumption DEF IndInv, Building, Admission, Peers
    <3>3. peer[q].id \in ClientIDs
      BY <3>2 DEF IndInv, Building
    <3>4. stop.peers = {}
      BY <2>1 DEF IndInv, Known
    <3> QED
      BY <2>4, <3>1, <3>2, <3>3, <3>4
  <2>9. Admission'
    <3>1. loop.pc = "add" => (\A id \in ClientIDs : registry'[id] # loop.peer) /\ loop.peer \notin S
      BY <2>1, <2>2, WorkerAssumption DEF IndInv, Admission, Peers
    <3> QED
      BY <1>1, <2>5, <3>1 DEF IndInv, Admission
  <2> QED
    BY <1>3, <1>4, <2>6, <2>7, <2>8, <2>9 DEF IndInv
<1> QED
  BY <1>5, <1>6

(* Every step keeps the inductive invariant. *)
LEMMA NextIndInv ==
    ASSUME IndInv, [Next]_vars
    PROVE  IndInv'
<1>1. CASE LoopStep
  BY <1>1, RegisterStep, TakeControlStep, TakeViewStep, HoldStep, LoopPeerSteps DEF LoopStep
<1>2. ASSUME NEW p \in Peers, PeerRuns(p) PROVE IndInv'
  BY <1>2, PeerSteps, CloserReleaseStep DEF PeerRuns
<1>3. CASE StopStep
  BY <1>3, StopSteps, LoopPeerSteps DEF StopStep
<1>4. CASE Environment
  <2>1. ASSUME NEW id \in ClientIDs,
               Request(id) \/ AnswerFails(id) \/ \E role \in Roles : Answer(id, role)
        PROVE  IndInv'
    BY <2>1, RequestStep, AnswerStep, LoopPeerSteps
  <2>2. ASSUME NEW p \in Peers,
               Establish(p) \/ TransportCloses(p) \/ TermAcquire(p) \/ TermExits(p)
        PROVE  IndInv'
    BY <2>2, PeerSteps
  <2>3. CASE RunEnds
    BY <2>3, StopSteps
  <2> QED
    BY <1>4, <2>1, <2>2, <2>3 DEF Environment
<1>5. CASE UNCHANGED vars
  <2>1. (\A q \in Peers : Consistent(peer'[q])) /\ TypeOK' /\ Building' /\ Admission' /\ HolderHolds'
        /\ Known' /\ Tracked' /\ KeyboardHandedOver'
    BY <1>5 DEF vars, IndInv, TypeOK, Building, Admission, HolderHolds, Known, Tracked,
                KeyboardHandedOver, Taking
  <2>2. Viewing' = Viewing /\ viewers' = viewers
    BY <1>5 DEF vars, Viewing, Taking
  <2> QED
    BY <2>1, <2>2 DEF IndInv
<1> QED
  BY <1>1, <1>2, <1>3, <1>4, <1>5 DEF Next

(* IndInv holds in every reachable state of the worker, with every         *)
(* interleaving of its goroutines.                                         *)
THEOREM Invariance == Spec => []IndInv
<1>1. IndInv /\ [Next]_vars => IndInv'
  BY NextIndInv
<1> QED
  BY InitIndInv, <1>1, PTL DEF Spec

-----------------------------------------------------------------------------
(* Theorems.                                                               *)

(* Every variable keeps its type; in particular roleSlots.used never goes  *)
(* below zero and never beyond --max-viewers.                              *)
THEOREM TypeCorrect == Spec => []TypeOK
<1>1. IndInv => TypeOK
  BY DEF IndInv
<1> QED
  BY Invariance, <1>1, PTL

(* roleSlots.used is exactly the number of viewers that hold a slot or are *)
(* being given one, and no more viewers run a terminal than it allows,     *)
(* however admission, preemption, timers and teardown interleave.          *)
THEOREM ViewersAreCounted == Spec => []ViewerSlotsExact
<1>1. IndInv => ViewerSlotsExact
  <2> SUFFICES ASSUME IndInv PROVE ViewerSlotsExact
    OBVIOUS
  <2> DEFINE R == {p \in Peers : peer[p].role = "view" /\ peer[p].term = "running"}
  <2>1. R \in SUBSET Viewing
    <3> SUFFICES ASSUME NEW p \in R PROVE p \in Viewing
      OBVIOUS
    <3>1. peer[p].held
      BY DEF IndInv, Consistent
    <3> QED
      BY <3>1 DEF Viewing
  <2>2. IsFiniteSet(R) /\ Cardinality(R) <= Cardinality(Viewing) /\ Cardinality(R) \in Nat
    BY <2>1, ViewingFinite, FS_Subset, FS_CardinalityType
  <2>3. viewers = Cardinality(Viewing) /\ viewers \in 0..MaxViewers
    BY DEF IndInv, TypeOK
  <2>4. Cardinality(R) <= MaxViewers
    BY <2>2, <2>3, WorkerAssumption
  <2> QED
    BY <2>3, <2>4 DEF ViewerSlotsExact, Viewing
<1> QED
  BY Invariance, <1>1, PTL

(* A controller that lost the keyboard and still holds its slot is being   *)
(* preempted or torn down; no late release takes the keyboard from the     *)
(* newcomer.                                                               *)
THEOREM OneKeyboard == Spec => []KeyboardHandedOver
<1>1. IndInv => KeyboardHandedOver
  BY DEF IndInv
<1> QED
  BY Invariance, <1>1, PTL

(* Once sharePeer's teardown has released the slots the peer holds no      *)
(* slot, no keyboard, no terminal and no timer, and nothing it raced with  *)
(* gives one back.                                                         *)
THEOREM TeardownIsFinal == Spec => []TornDownKeepsNothing
<1>1. IndInv => TornDownKeepsNothing
  <2> SUFFICES ASSUME IndInv, NEW p \in Peers, peer[p].closer \in {"conn", "done"}
               PROVE  /\ ~peer[p].held
                      /\ holder = p => Taking(p, "control")
                      /\ peer[p].term # "running"
                      /\ peer[p].shell # "open"
                      /\ "armed" \notin {peer[p].deadline, peer[p].grace}
    BY DEF TornDownKeepsNothing
  <2>1. Consistent(peer[p])
    BY DEF IndInv
  <2>2. ~peer[p].held /\ peer[p].term # "running" /\ peer[p].shell # "open"
        /\ peer[p].deadline # "armed" /\ peer[p].grace # "armed"
    BY <2>1 DEF Consistent
  <2>3. holder = p => Taking(p, "control")
    BY <2>2, WorkerAssumption DEF IndInv, HolderHolds, Peers
  <2> QED
    BY <2>2, <2>3
<1> QED
  BY Invariance, <1>1, PTL

(* When Worker.shutdown returns every peer that was set up is closed, the  *)
(* ones that were being registered or admitted when it began too.          *)
THEOREM StopIsComplete == Spec => []StopLeavesNobody
<1>1. IndInv => StopLeavesNobody
  <2> SUFFICES ASSUME IndInv, stop.pc = "done", NEW p \in Peers,
                      peer[p].onClose \/ peer[p].answered
               PROVE  peer[p].qClosed
    BY DEF StopLeavesNobody
  <2>1. p <= built /\ p # 0
    BY WorkerAssumption DEF IndInv, Building, Peers
  <2>2. peer[p].id \in ClientIDs
    BY <2>1 DEF IndInv, Building
  <2>3. registry[peer[p].id] = 0 /\ stop.peers = {}
    BY <2>2 DEF IndInv, Known
  <2> QED
    BY <2>1, <2>3 DEF IndInv, Tracked
<1> QED
  BY Invariance, <1>1, PTL

=============================================================================
