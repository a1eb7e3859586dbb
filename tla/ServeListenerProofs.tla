------------------------ MODULE ServeListenerProofs ------------------------
(***************************************************************************)
(* Proofs about ServeListener, for every number of peers, client ids,      *)
(* links and slots.                                                        *)
(***************************************************************************)
EXTENDS ServeListener, FiniteSetTheorems, TLAPS

(* What a peer's own record says of who has closed it: Queue.Close was won *)
(* exactly once, what its winner has released stays released, and the      *)
(* close callback goes past p.close() only on a closed peer.               *)
Consistent(r) ==
    /\ r.qClosed <=> r.closer # "none"
    /\ r.closer \in {"conn", "done"} => ~r.slot /\ r.sess # "live" /\ r.deadline # "armed"
    /\ r.firer \in {"closing", "forget", "done"} => r.qClosed
    /\ r.firer # "none" => r.onClose

(* A peer nobody but handleRequest knows of yet. *)
Untouched(r) ==
    /\ ~r.slot /\ ~r.qClosed /\ ~r.draining
    /\ r.deadline = "none" /\ r.sess = "none" /\ r.firer = "none"

(* A peer that is not built yet holds nothing; a built one has its id. *)
Building ==
    \A p \in Peers : IF p <= built THEN peer[p].id \in ClientIDs
                     ELSE ~peer[p].slot /\ ~peer[p].onClose

(* Where the signaling loop stands in the setup of its peer. *)
Setup ==
    /\ loop.pc # "idle" => loop.peer \in Peers /\ loop.peer <= built
    /\ loop.pc = "reserve" => unauth < MaxUnauthSessions
    /\ loop.pc \in {"reserve", "arm"} => Untouched(peer[loop.peer])
    /\ loop.pc \in {"reserve", "arm", "add"} =>
         /\ \A id \in ClientIDs : registry[id] # loop.peer
         /\ \A w \in Pollers : loop.peer \notin poll[w].peers
    /\ loop.pc \in {"reserve", "arm", "add", "onclose"} => ~peer[loop.peer].onClose
    /\ loop.pc = "onclose" => registry[peer[loop.peer].id] = loop.peer

(* The registry and the pollers know built peers, under their own ids. *)
Known ==
    /\ \A id \in ClientIDs :
         registry[id] # 0 => registry[id] <= built /\ peer[registry[id]].id = id
    /\ \A w \in Pollers : \A p \in poll[w].peers : p <= built

IndInv ==
    /\ TypeOK
    /\ \A p \in Peers : Consistent(peer[p])
    /\ Building
    /\ Setup
    /\ Known
    /\ OpenPeerIsRegistered
    /\ SlotsCounted

-----------------------------------------------------------------------------
(* Counting slots.                                                         *)

Slots == {p \in Peers : peer[p].slot}

LEMMA SlotsFinite == IsFiniteSet(Slots) /\ Cardinality(Slots) \in Nat
<1>1. IsFiniteSet(Peers)
  BY ListenerAssumption, FS_Interval DEF Peers
<1>2. Slots \in SUBSET Peers
  BY DEF Slots
<1>3. IsFiniteSet(Slots)
  BY <1>1, <1>2, FS_Subset
<1> QED
  BY <1>3, FS_CardinalityType

(* One peer's record changes: the set of slots changes by that peer. *)
LEMMA SlotsChange ==
    ASSUME NEW p \in Peers, NEW r \in PeerRecord, peer \in [Peers -> PeerRecord],
           peer' = [peer EXCEPT ![p] = r]
    PROVE  Cardinality(Slots') =
             IF r.slot = peer[p].slot THEN Cardinality(Slots)
             ELSE IF r.slot THEN Cardinality(Slots) + 1 ELSE Cardinality(Slots) - 1
<1>0. r.slot \in BOOLEAN /\ peer[p].slot \in BOOLEAN
  BY DEF PeerRecord
<1>1. CASE r.slot = peer[p].slot
  <2>1. Slots' = Slots
    BY <1>1 DEF Slots
  <2> QED BY <1>1, <2>1
<1>2. CASE r.slot /\ ~peer[p].slot
  <2>1. Slots' = Slots \cup {p} /\ p \notin Slots
    BY <1>2 DEF Slots
  <2> QED BY <1>2, <2>1, SlotsFinite, FS_AddElement
<1>3. CASE ~r.slot /\ peer[p].slot
  <2>1. Slots' = Slots \ {p} /\ p \in Slots
    BY <1>3 DEF Slots
  <2> QED BY <1>3, <2>1, SlotsFinite, FS_RemoveElement
<1> QED
  BY <1>0, <1>1, <1>2, <1>3

-----------------------------------------------------------------------------
(* The record functions.                                                   *)

LEMMA CloseOfFacts ==
    ASSUME NEW r \in PeerRecord, Consistent(r)
    PROVE  /\ CloseOf(r) \in PeerRecord /\ Consistent(CloseOf(r)) /\ CloseOf(r).qClosed
           /\ CloseOf(r).id = r.id /\ CloseOf(r).slot = r.slot /\ CloseOf(r).onClose = r.onClose
           /\ CloseOf(r).firer = r.firer
<1>1. CASE r.qClosed
  BY <1>1 DEF CloseOf
<1>2. CASE ~r.qClosed
  <2> DEFINE n == [r EXCEPT !.qClosed = TRUE, !.closer = "teardown"]
  <2>1. n \in PeerRecord
    BY DEF PeerRecord
  <2>2. Consistent(n)
    BY <1>2 DEF Consistent, PeerRecord
  <2>3. n.qClosed /\ n.id = r.id /\ n.slot = r.slot /\ n.onClose = r.onClose /\ n.firer = r.firer
    BY DEF PeerRecord
  <2>4. CloseOf(r) = n
    BY <1>2 DEF CloseOf
  <2> QED
    BY <2>1, <2>2, <2>3, <2>4
<1> QED
  BY <1>1, <1>2

LEMMA FireOfFacts ==
    ASSUME NEW r \in PeerRecord, Consistent(r)
    PROVE  /\ FireOf(r) \in PeerRecord /\ Consistent(FireOf(r))
           /\ FireOf(r).id = r.id /\ FireOf(r).slot = r.slot /\ FireOf(r).onClose = r.onClose
           /\ FireOf(r).qClosed = r.qClosed
           /\ Untouched(r) /\ ~r.onClose => Untouched(FireOf(r))
<1>1. CASE r.connClosed
  BY <1>1 DEF FireOf
<1>2. CASE ~r.connClosed
  <2> DEFINE n == [r EXCEPT !.connClosed = TRUE, !.firer = IF r.onClose THEN "close" ELSE @]
  <2>1. n \in PeerRecord
    BY DEF PeerRecord
  <2>2. Consistent(n)
    BY DEF Consistent, PeerRecord
  <2>3. /\ n.id = r.id /\ n.slot = r.slot /\ n.onClose = r.onClose /\ n.qClosed = r.qClosed
        /\ Untouched(r) /\ ~r.onClose => Untouched(n)
    BY DEF PeerRecord, Untouched
  <2>4. FireOf(r) = n
    BY <1>2 DEF FireOf
  <2> QED
    BY <2>1, <2>2, <2>3, <2>4
<1> QED
  BY <1>1, <1>2

LEMMA InstallOfFacts ==
    ASSUME NEW r \in PeerRecord, Consistent(r)
    PROVE  /\ InstallOf(r) \in PeerRecord 
           /\ ~r.onClose => Consistent(InstallOf(r))
           /\ InstallOf(r).id = r.id /\ InstallOf(r).slot = r.slot
           /\ InstallOf(r).qClosed = r.qClosed
  BY DEF InstallOf, Consistent, PeerRecord

-----------------------------------------------------------------------------
(* The steps.                                                              *)

LoopType == [pc : {"idle", "reserve", "arm", "add", "onclose", "grant", "admit"},
             peer : 0..MaxPeers, code : Codes \cup {None}]
PollType == [Pollers -> [pc : {"idle", "peers", "table", "walk"},
                         peers : SUBSET Peers, table : SUBSET Codes]]

(* Most steps change one built peer's record, may give its slot back, may  *)
(* take a closed peer out of the registry, may end what the loop is doing  *)
(* or let it go on with an answer, and may shrink what a poller has left.  *)
LEMMA PeerChange ==
    ASSUME IndInv, NEW p \in Peers, p <= built, NEW r \in PeerRecord,
           peer' = [peer EXCEPT ![p] = r], built' = built, links' = links,
           Consistent(r), r.id = peer[p].id, r.onClose = peer[p].onClose,
           peer[p].qClosed => r.qClosed,
           /\ loop' = loop /\ loop.pc \in {"reserve", "arm"} /\ p = loop.peer
           /\ Untouched(peer[p]) /\ ~peer[p].onClose
           => Untouched(r),
           r.slot => peer[p].slot,
           unauth' = IF r.slot = peer[p].slot THEN unauth ELSE unauth - 1,
           \/ registry' = registry
           \/ /\ peer[p].qClosed /\ peer[p].onClose
              /\ registry' = [registry EXCEPT ![peer[p].id] = IF @ = p THEN 0 ELSE @],
           \/ loop' = loop
           \/ /\ loop' \in LoopType /\ loop'.pc \in {"idle", "grant", "admit"}
              /\ loop'.pc # "idle" => loop'.peer \in Peers /\ loop'.peer <= built,
           poll' \in PollType,
           \A w \in Pollers : poll'[w].peers \subseteq poll[w].peers
    PROVE  IndInv'
<1> USE DEF LoopType, PollType
<1>0. /\ peer \in [Peers -> PeerRecord] /\ peer' \in [Peers -> PeerRecord]
      /\ peer'[p] = r /\ \A q \in Peers \ {p} : peer'[q] = peer[q]
  BY DEF IndInv, TypeOK
<1>1. peer[p].id \in ClientIDs
  BY DEF IndInv, Building
<1>2. SlotsCounted'
  <2>1. unauth = Cardinality(Slots)
    BY DEF IndInv, SlotsCounted, Slots
  <2>2. r.slot \in BOOLEAN /\ peer[p].slot \in BOOLEAN
    BY <1>0 DEF PeerRecord
  <2>3. Cardinality(Slots') = IF r.slot = peer[p].slot THEN Cardinality(Slots) ELSE Cardinality(Slots) - 1
    BY <1>0, <2>2, SlotsChange
  <2>4. unauth' = Cardinality(Slots')
    BY <2>1, <2>3
  <2> QED
    BY <2>4 DEF SlotsCounted, Slots
<1>3. unauth' \in 0..MaxUnauthSessions /\ unauth' <= unauth
  <2>1. unauth \in 0..MaxUnauthSessions
    BY DEF IndInv, TypeOK
  <2>2. unauth = Cardinality(Slots) /\ (peer[p].slot => p \in Slots)
    BY DEF IndInv, SlotsCounted, Slots
  <2>3. CASE peer[p].slot
    <3>1. Cardinality(Slots) # 0
      BY <2>2, <2>3, SlotsFinite, FS_EmptySet
    <3> QED
      BY <2>1, <2>2, <3>1, ListenerAssumption
  <2>4. CASE ~peer[p].slot
    BY <2>1, <2>4, <1>0 DEF PeerRecord
  <2> QED
    BY <2>3, <2>4
<1>4. registry' \in [ClientIDs -> 0..MaxPeers]
      /\ \A id \in ClientIDs : registry'[id] # registry[id] =>
            registry'[id] = 0 /\ registry[id] = p /\ peer[p].qClosed /\ peer[p].onClose
  BY <1>1, ListenerAssumption DEF IndInv, TypeOK
<1>5. TypeOK'
  BY <1>0, <1>3, <1>4 DEF IndInv, TypeOK
<1>6. \A q \in Peers : Consistent(peer'[q])
  BY <1>0 DEF IndInv
<1>7. Building'
  BY <1>0 DEF IndInv, Building
<1>8. Known'
  BY <1>0, <1>4 DEF IndInv, Known, TypeOK
<1>9. OpenPeerIsRegistered'
  <2> SUFFICES ASSUME NEW q \in Peers, peer'[q].onClose, ~peer'[q].qClosed
               PROVE  registry'[peer'[q].id] = q
    BY DEF OpenPeerIsRegistered
  <2>1. peer[q].onClose /\ ~peer[q].qClosed /\ peer'[q].id = peer[q].id
    BY <1>0
  <2>2. registry[peer[q].id] = q
    BY <2>1 DEF IndInv, OpenPeerIsRegistered
  <2>3. peer[q].id \in ClientIDs
    BY <2>1 DEF IndInv, Building
  <2> QED
    BY <2>1, <2>2, <2>3, <1>4
<1>10. Setup'
  <2>1. CASE loop' = loop
    <3>1. loop.pc # "idle" => loop.peer \in Peers /\ loop.peer <= built
      BY DEF IndInv, Setup
    <3>2. loop.pc \in {"reserve", "arm"} => Untouched(peer'[loop.peer])
      BY <1>0, <2>1, <3>1 DEF IndInv, Setup
    <3>3. loop.pc \in {"reserve", "arm", "add", "onclose"} => ~peer'[loop.peer].onClose
      BY <1>0, <3>1 DEF IndInv, Setup
    <3>4. loop.pc = "onclose" => registry'[peer'[loop.peer].id] = loop.peer
      <4> SUFFICES ASSUME loop.pc = "onclose" PROVE registry'[peer'[loop.peer].id] = loop.peer
        OBVIOUS
      <4>1. loop.peer \in Peers /\ loop.peer <= built /\ ~peer[loop.peer].onClose
            /\ registry[peer[loop.peer].id] = loop.peer /\ peer[loop.peer].id \in ClientIDs
        BY DEF IndInv, Setup, Building
      <4>2. peer'[loop.peer].id = peer[loop.peer].id
        BY <1>0, <4>1
      <4> QED
        BY <4>1, <4>2, <1>4
    <3>5. loop.pc \in {"reserve", "arm", "add"} =>
            /\ \A id \in ClientIDs : registry'[id] # loop.peer
            /\ \A w \in Pollers : loop.peer \notin poll'[w].peers
      BY <1>4, <3>1, ListenerAssumption DEF IndInv, Setup, Peers
    <3>6. loop.pc = "reserve" => unauth' < MaxUnauthSessions
      BY <1>3, ListenerAssumption DEF IndInv, Setup, TypeOK
    <3> QED
      BY <2>1, <3>1, <3>2, <3>3, <3>4, <3>5, <3>6 DEF Setup
  <2>2. CASE loop' # loop
    BY <2>2 DEF Setup
  <2> QED
    BY <2>1, <2>2
<1> QED
  BY <1>2, <1>5, <1>6, <1>7, <1>8, <1>9, <1>10 DEF IndInv

LEMMA InitIndInv == Init => IndInv
<1> SUFFICES ASSUME Init PROVE IndInv
  OBVIOUS
<1>1. TypeOK
  BY ListenerAssumption DEF Init, TypeOK, PeerRecord, NewPeer, Idle, NoPoll
<1>2. \A p \in Peers : Consistent(peer[p]) /\ ~peer[p].slot /\ ~peer[p].onClose
  BY DEF Init, NewPeer, Consistent
<1>3. {p \in Peers : peer[p].slot} = {}
  BY <1>2
<1>4. SlotsCounted
  BY <1>3, FS_EmptySet DEF Init, SlotsCounted
<1>5. Building
  <2> SUFFICES ASSUME NEW p \in Peers PROVE ~(p <= built)
    BY <1>2 DEF Building
  <2> QED
    BY ListenerAssumption DEF Init, Peers
<1>7. OpenPeerIsRegistered
  BY <1>2 DEF OpenPeerIsRegistered
<1>6. Setup /\ Known
  BY DEF Init, Setup, Known, Idle, NoPoll
<1> QED
  BY <1>1, <1>2, <1>4, <1>5, <1>6, <1>7 DEF IndInv

(* A peer's own goroutines: handshake, deadline, transport, teardown. *)
LEMMA PeerSteps ==
    ASSUME IndInv, NEW p \in Peers,
           \/ PeerRuns(p) \/ SessionReady(p) \/ TransportCloses(p) \/ PairOpens(p)
    PROVE  IndInv'
<1> DEFINE c == peer[p]
<1>1. c \in PeerRecord /\ Consistent(c)
  BY DEF IndInv, TypeOK
<1>2. poll \in PollType
  BY DEF IndInv, TypeOK, PollType
<1>3. CASE SessionReady(p)
  <2> DEFINE r == [c EXCEPT !.hs = "onready"]
  <2>1. r \in PeerRecord /\ Consistent(r)
    BY <1>1 DEF PeerRecord, Consistent
  <2>2. r.slot = c.slot /\ r.id = c.id /\ r.onClose = c.onClose /\ r.qClosed = c.qClosed
        /\ (Untouched(c) => Untouched(r))
    BY <1>1 DEF PeerRecord, Untouched
  <2> QED
    BY <1>2, <1>3, <2>1, <2>2, PeerChange DEF SessionReady, PeerStep
<1>4. CASE OnReady(p)
  <2> DEFINE r == [c EXCEPT !.hs = "ready", !.deadline = DoneOf(c), !.slot = FALSE]
  <2>0. DoneOf(c) \in {"none", "armed", "done", "expired", "closed"} /\ DoneOf(c) # "armed"
    BY <1>1 DEF PeerRecord, DoneOf
  <2>1. r \in PeerRecord
    BY <1>1, <2>0 DEF PeerRecord
  <2>4. Consistent(r)
    BY <1>1, <2>0 DEF PeerRecord, Consistent
  <2>2. ~r.slot /\ r.id = c.id /\ r.onClose = c.onClose /\ r.qClosed = c.qClosed
        /\ (Untouched(c) => Untouched(r)) /\ r.slot = FALSE
    BY <1>1 DEF PeerRecord, Untouched, DoneOf
  <2>3. unauth' = IF r.slot = c.slot THEN unauth ELSE unauth - 1
    BY <1>1, <1>4, <2>2 DEF OnReady, Release, PeerRecord
  <2> QED
    BY <1>2, <1>4, <2>1, <2>2, <2>3, <2>4, PeerChange DEF OnReady, PeerStep
<1>5. CASE DeadlineExpires(p)
  <2> DEFINE r == [c EXCEPT !.deadline = "expired"]
  <2>1. r \in PeerRecord /\ Consistent(r)
    BY <1>1 DEF PeerRecord, Consistent
  <2>2. r.slot = c.slot /\ r.id = c.id /\ r.onClose = c.onClose /\ r.qClosed = c.qClosed
    BY <1>1 DEF PeerRecord
  <2>3. ~Untouched(c)
    BY <1>5 DEF DeadlineExpires, Untouched
  <2> QED
    BY <1>2, <1>5, <2>1, <2>2, <2>3, PeerChange DEF DeadlineExpires, PeerStep
<1>6. CASE DeadlineCloses(p)
  <2> DEFINE d == [c EXCEPT !.deadline = "closed"]
  <2>0. d \in PeerRecord
    BY <1>1 DEF PeerRecord
  <2>1. d \in PeerRecord /\ Consistent(d)
    BY <1>1, <2>0 DEF PeerRecord, Consistent
  <2>2. d.slot = c.slot /\ d.id = c.id /\ d.onClose = c.onClose
    BY <1>1 DEF PeerRecord
  <2>3. ~Untouched(c)
    BY <1>6 DEF DeadlineCloses, Untouched
  <2>4. /\ CloseOf(d) \in PeerRecord /\ Consistent(CloseOf(d)) /\ CloseOf(d).qClosed
        /\ CloseOf(d).id = c.id /\ CloseOf(d).slot = c.slot /\ CloseOf(d).onClose = c.onClose
    BY <2>1, <2>2, CloseOfFacts
  <2>5. peer' = [peer EXCEPT ![p] = CloseOf(d)] /\ p <= built
        /\ UNCHANGED <<built, loop, links, poll, registry, unauth>>
    BY <1>6 DEF DeadlineCloses, PeerStep
  <2> QED
    BY <1>2, <2>3, <2>4, <2>5, PeerChange
<1>7. CASE TransportCloses(p)
  BY <1>1, <1>2, <1>7, FireOfFacts, PeerChange DEF TransportCloses, PeerStep
<1>8. CASE CallbackClose(p)
  <2> DEFINE d == CloseOf(c)
             r == [d EXCEPT !.firer = IF c.qClosed THEN "forget" ELSE "closing"]
  <2>1. d \in PeerRecord /\ Consistent(d) /\ d.qClosed /\ d.id = c.id /\ d.slot = c.slot
        /\ d.onClose = c.onClose /\ d.firer = c.firer
    BY <1>1, CloseOfFacts
  <2> HIDE DEF d
  <2>2. r \in PeerRecord
    BY <2>1 DEF PeerRecord
  <2>3. Consistent(r)
    BY <2>1, <1>8 DEF PeerRecord, Consistent, CallbackClose
  <2>4. r.slot = c.slot /\ r.id = c.id /\ r.onClose = c.onClose /\ r.qClosed
    BY <2>1 DEF PeerRecord
  <2>5. ~Untouched(c)
    BY <1>8 DEF CallbackClose, Untouched
  <2>6. peer' = [peer EXCEPT ![p] = r]
    BY <1>8 DEF CallbackClose, PeerStep, d
  <2> QED
    BY <1>2, <1>8, <2>2, <2>3, <2>4, <2>5, <2>6, PeerChange DEF CallbackClose, PeerStep
<1>9. CASE CallbackForget(p)
  <2> DEFINE r == [c EXCEPT !.firer = "done"]
  <2>1. c.qClosed /\ c.onClose
    BY <1>1, <1>9 DEF CallbackForget, Consistent
  <2>2. r \in PeerRecord /\ Consistent(r)
    BY <1>1, <2>1 DEF PeerRecord, Consistent
  <2>3. r.slot = c.slot /\ r.id = c.id /\ r.onClose = c.onClose /\ r.qClosed = c.qClosed
    BY <1>1 DEF PeerRecord
  <2> QED
    BY <1>2, <1>9, <2>1, <2>2, <2>3, PeerChange DEF CallbackForget, PeerStep
<1>10. CASE Teardown(p)
  <2> DEFINE s == IF c.sess = "live" THEN "closed" ELSE c.sess
             d == DoneOf(c)
             r == [c EXCEPT !.closer = "conn", !.deadline = d, !.sess = s, !.slot = FALSE]
  <2>1. c.qClosed
    BY <1>1, <1>10 DEF Teardown, Consistent
  <2>0. d \in {"none", "armed", "done", "expired", "closed"} \ {"armed"}
        /\ s \in {"none", "live", "closed", "unpublished"} \ {"live"}
    BY <1>1 DEF PeerRecord, DoneOf
  <2>7. peer' = [peer EXCEPT ![p] = r]
    BY <1>10 DEF Teardown, PeerStep
  <2> HIDE DEF s, d
  <2>2. r \in PeerRecord
    BY <1>1, <2>0 DEF PeerRecord
  <2>3. Consistent(r)
    BY <1>1, <2>0, <2>1 DEF PeerRecord, Consistent
  <2>4. r.slot = FALSE /\ r.id = c.id /\ r.onClose = c.onClose /\ r.qClosed = c.qClosed
    BY <1>1 DEF PeerRecord
  <2>5. ~Untouched(c)
    BY <2>1 DEF Untouched
  <2>6. unauth' = IF r.slot = c.slot THEN unauth ELSE unauth - 1
    BY <1>1, <1>10, <2>4 DEF Teardown, Release, PeerRecord
  <2> QED
    BY <1>2, <1>10, <2>2, <2>3, <2>4, <2>5, <2>6, <2>7, PeerChange DEF Teardown, PeerStep
<1>11. CASE TeardownConn(p)
  <2> DEFINE d == [c EXCEPT !.closer = "done"]
  <2>1. d \in PeerRecord /\ Consistent(d)
    BY <1>1, <1>11 DEF PeerRecord, Consistent, TeardownConn
  <2>2. d.slot = c.slot /\ d.id = c.id /\ d.onClose = c.onClose /\ d.qClosed = c.qClosed
    BY <1>1 DEF PeerRecord
  <2>3. ~Untouched(c)
    BY <1>1, <1>11 DEF TeardownConn, Consistent, Untouched
  <2> QED
    BY <1>2, <1>11, <2>1, <2>2, <2>3, FireOfFacts, PeerChange DEF TeardownConn, PeerStep
<1>12. CASE PairOpens(p)
  <2> DEFINE r == [c EXCEPT !.hs = "pairing"]
  <2>1. r \in PeerRecord /\ Consistent(r)
    BY <1>1 DEF PeerRecord, Consistent
  <2>2. r.slot = c.slot /\ r.id = c.id /\ r.onClose = c.onClose /\ r.qClosed = c.qClosed
        /\ (Untouched(c) => Untouched(r))
    BY <1>1 DEF PeerRecord, Untouched
  <2> QED
    BY <1>2, <1>12, <2>1, <2>2, PeerChange DEF PairOpens, PeerStep
<1>13. CASE PairEnds(p)
  <2> DEFINE d == [c EXCEPT !.hs = "paired", !.hold = FALSE]
  <2>0. d \in PeerRecord
    BY <1>1 DEF PeerRecord
  <2>1. d \in PeerRecord /\ Consistent(d)
    BY <1>1, <2>0 DEF PeerRecord, Consistent
  <2>2. d.slot = c.slot /\ d.id = c.id /\ d.onClose = c.onClose /\ d.qClosed = c.qClosed
        /\ (Untouched(c) => Untouched(d))
    BY <1>1 DEF PeerRecord, Untouched
  <2> QED
    BY <1>2, <1>13, <2>1, <2>2, FireOfFacts, PeerChange DEF PairEnds, PeerStep
<1>14. CASE DrainCloses(p)
  <2> DEFINE d == [c EXCEPT !.draining = FALSE]
  <2>0. d \in PeerRecord
    BY <1>1 DEF PeerRecord
  <2>1. d \in PeerRecord /\ Consistent(d)
    BY <1>1, <2>0 DEF PeerRecord, Consistent
  <2>2. d.slot = c.slot /\ d.id = c.id /\ d.onClose = c.onClose
    BY <1>1 DEF PeerRecord
  <2>3. ~Untouched(c)
    BY <1>14 DEF DrainCloses, Untouched
  <2>4. /\ CloseOf(d) \in PeerRecord /\ Consistent(CloseOf(d)) /\ CloseOf(d).qClosed
        /\ CloseOf(d).id = c.id /\ CloseOf(d).slot = c.slot /\ CloseOf(d).onClose = c.onClose
    BY <2>1, <2>2, CloseOfFacts
  <2>5. peer' = [peer EXCEPT ![p] = CloseOf(d)] /\ p <= built
        /\ UNCHANGED <<built, loop, links, poll, registry, unauth>>
    BY <1>14 DEF DrainCloses, PeerStep
  <2> QED
    BY <1>2, <2>3, <2>4, <2>5, PeerChange
<1> QED
  BY <1>3, <1>4, <1>5, <1>6, <1>7, <1>8, <1>9, <1>10, <1>11, <1>12, <1>13, <1>14 DEF PeerRuns

(* The requests and the setup of a peer, up to its close callback. *)
LEMMA SetupSteps ==
    ASSUME IndInv,
           \/ \E id \in ClientIDs : Request(id) \/ PairRequest(id)
           \/ Reserve \/ PairArm \/ Register \/ SetOnClose
    PROVE  IndInv'
<1> USE ListenerAssumption DEF LoopType, PollType
<1>0. /\ TypeOK /\ Building /\ Setup /\ Known /\ OpenPeerIsRegistered
      /\ peer \in [Peers -> PeerRecord] /\ loop \in LoopType /\ poll \in PollType
      /\ \A q \in Peers : peer[q] \in PeerRecord /\ Consistent(peer[q])
      /\ unauth = Cardinality(Slots)
  BY DEF IndInv, TypeOK, SlotsCounted, Slots
<1>1. ASSUME NEW id \in ClientIDs, Request(id) \/ PairRequest(id)
      PROVE  IndInv'
  <2> DEFINE new == built + 1
  <2>1. PICK pair \in BOOLEAN : Start(id, pair)
    BY <1>1 DEF Request, PairRequest
  <2>2. /\ new \in Peers /\ built' = new /\ new <= MaxPeers
        /\ NewPeer(id, pair) \in PeerRecord
    BY <1>0, <2>1 DEF Start, TypeOK, Peers, NewPeer, PeerRecord
  <2>3. /\ peer' = [peer EXCEPT ![new] = NewPeer(id, pair)]
        /\ peer'[new] = NewPeer(id, pair) /\ \A q \in Peers \ {new} : peer'[q] = peer[q]
        /\ peer' \in [Peers -> PeerRecord]
        /\ UNCHANGED <<registry, unauth, links, poll>>
    BY <1>0, <2>1, <2>2 DEF Start
  <2>4. /\ Untouched(peer'[new]) /\ Consistent(peer'[new]) /\ peer'[new].id = id
        /\ ~peer'[new].onClose /\ peer'[new].slot = FALSE
    BY <2>3 DEF NewPeer, Untouched, Consistent
  <2>5. ~peer[new].slot /\ ~peer[new].onClose
    BY <1>0, <2>2 DEF Building, TypeOK
  <2>6. /\ loop' \in LoopType /\ loop'.pc \in {"reserve", "arm"} /\ loop'.peer = new
        /\ loop'.pc = "reserve" => unauth < MaxUnauthSessions
    <3>1. new \in 0..MaxPeers
      BY <2>2 DEF Peers
    <3>2. CASE Request(id)
      BY <3>1, <3>2 DEF Request
    <3>3. CASE PairRequest(id)
      BY <3>1, <3>3 DEF PairRequest
    <3> QED
      BY <1>1, <3>2, <3>3
  <2>7. SlotsCounted'
    <3>1. Slots' = Slots
      BY <1>0, <2>3, <2>4, <2>5 DEF Slots
    <3> QED
      BY <1>0, <2>3, <3>1 DEF SlotsCounted, Slots
  <2>8. TypeOK'
    BY <1>0, <2>2, <2>3, <2>6 DEF TypeOK
  <2>9. Building'
    BY <1>0, <2>2, <2>3, <2>4 DEF Building, TypeOK, Peers
  <2>10. Known'
    BY <1>0, <2>2, <2>3 DEF Known, TypeOK, Peers
  <2>11. OpenPeerIsRegistered'
    BY <1>0, <2>3, <2>4 DEF OpenPeerIsRegistered
  <2>12. Setup'
    BY <1>0, <2>2, <2>3, <2>4, <2>6 DEF Setup, Known, TypeOK
  <2>13. \A q \in Peers : Consistent(peer'[q])
    BY <1>0, <2>3, <2>4
  <2> QED
    BY <2>7, <2>8, <2>9, <2>10, <2>11, <2>12, <2>13 DEF IndInv
<1>2. ASSUME NEW p \in Peers, p = loop.peer, p <= built, Untouched(peer[p]), ~peer[p].onClose,
             loop.pc \in {"reserve", "arm"},
             NEW r \in PeerRecord, r.id = peer[p].id, ~r.onClose, r.qClosed = peer[p].qClosed,
             Consistent(r),
             r.slot => unauth < MaxUnauthSessions,
             peer' = [peer EXCEPT ![p] = r],
             unauth' = IF r.slot THEN unauth + 1 ELSE unauth,
             loop' = [loop EXCEPT !.pc = "add"], UNCHANGED <<built, registry, links, poll>>
      PROVE  IndInv'
  <2>3. /\ peer'[p] = r
        /\ \A q \in Peers \ {p} : peer'[q] = peer[q]
        /\ peer' \in [Peers -> PeerRecord]
    BY <1>0, <1>2
  <2>4. loop' \in LoopType /\ loop'.pc = "add" /\ loop'.peer = p
    BY <1>0, <1>2
  <2>5. SlotsCounted'
    <3>1. peer[p].slot = FALSE /\ r.slot \in BOOLEAN
      BY <1>0, <1>2 DEF Untouched, PeerRecord
    <3>2. Cardinality(Slots') = IF r.slot THEN Cardinality(Slots) + 1 ELSE Cardinality(Slots)
      BY <1>0, <1>2, <3>1, SlotsChange
    <3> QED
      BY <1>0, <1>2, <3>2 DEF SlotsCounted, Slots
  <2>6. TypeOK'
    BY <1>0, <1>2, <2>3, <2>4 DEF TypeOK
  <2>7. Building'
    BY <1>0, <1>2, <2>3 DEF Building
  <2>8. Known'
    BY <1>0, <1>2, <2>3 DEF Known, TypeOK
  <2>9. OpenPeerIsRegistered'
    BY <1>0, <1>2, <2>3 DEF OpenPeerIsRegistered
  <2>10. Setup'
    BY <1>0, <1>2, <2>3, <2>4 DEF Setup
  <2>11. \A q \in Peers : Consistent(peer'[q])
    BY <1>0, <1>2, <2>3
  <2> QED
    BY <2>5, <2>6, <2>7, <2>8, <2>9, <2>10, <2>11 DEF IndInv
<1>3. CASE Reserve
  <2> DEFINE c == peer[loop.peer]
             r == [c EXCEPT !.slot = TRUE, !.deadline = "armed"]
  <2>1. loop.pc = "reserve" /\ loop.peer \in Peers /\ loop.peer <= built
        /\ Untouched(c) /\ ~c.onClose /\ unauth < MaxUnauthSessions
        /\ c \in PeerRecord /\ Consistent(c)
    BY <1>0, <1>3 DEF Reserve, Setup
  <2>2. peer' = [peer EXCEPT ![loop.peer] = r]
    BY <1>0, <1>3, <2>1 DEF Reserve, PeerRecord
  <2>3. r \in PeerRecord
    BY <2>1 DEF PeerRecord
  <2>4. r.slot /\ r.id = c.id /\ ~r.onClose /\ r.qClosed = c.qClosed
    BY <2>1 DEF PeerRecord
  <2>5. Consistent(r)
    BY <2>1 DEF PeerRecord, Consistent, Untouched
  <2> QED
    BY <1>2, <1>3, <2>1, <2>2, <2>3, <2>4, <2>5 DEF Reserve
<1>4. CASE PairArm
  <2> DEFINE c == peer[loop.peer]
             r == [c EXCEPT !.deadline = "armed"]
  <2>1. loop.pc = "arm" /\ loop.peer \in Peers /\ loop.peer <= built
        /\ Untouched(c) /\ ~c.onClose /\ c \in PeerRecord /\ Consistent(c)
    BY <1>0, <1>4 DEF PairArm, Setup
  <2>2. peer' = [peer EXCEPT ![loop.peer] = r]
    BY <1>0, <1>4, <2>1 DEF PairArm, PeerRecord
  <2>3. r \in PeerRecord
    BY <2>1 DEF PeerRecord
  <2>4. ~r.slot /\ r.id = c.id /\ ~r.onClose /\ r.qClosed = c.qClosed
    BY <2>1 DEF PeerRecord, Untouched
  <2>5. Consistent(r)
    BY <2>1 DEF PeerRecord, Consistent, Untouched
  <2> QED
    BY <1>2, <1>4, <2>1, <2>2, <2>3, <2>4, <2>5 DEF PairArm
<1>5. CASE Register
  <2> DEFINE p == loop.peer
             id == peer[p].id
  <2>1. loop.pc = "add" /\ p \in Peers /\ p <= built /\ id \in ClientIDs /\ ~peer[p].onClose
        /\ p # 0 /\ UNCHANGED <<built, unauth, links, poll>>
    BY <1>0, <1>5 DEF Register, Setup, Building, Peers
  <2>2. CASE registry[id] = 0
    <3>1. /\ registry' = [registry EXCEPT ![id] = p] /\ UNCHANGED peer
          /\ loop' = [loop EXCEPT !.pc = "onclose"]
      BY <1>5, <2>2 DEF Register
    <3>2. /\ registry' \in [ClientIDs -> 0..MaxPeers] /\ registry'[id] = p
          /\ \A i \in ClientIDs \ {id} : registry'[i] = registry[i]
      BY <1>0, <2>1, <3>1 DEF TypeOK, Peers
    <3>3. loop' \in LoopType /\ loop'.pc = "onclose" /\ loop'.peer = p
      BY <1>0, <3>1
    <3>4. TypeOK'
      BY <1>0, <2>1, <3>1, <3>2, <3>3 DEF TypeOK
    <3>5. Building' /\ SlotsCounted' /\ \A q \in Peers : Consistent(peer'[q])
      BY <1>0, <2>1, <3>1 DEF Building, IndInv, SlotsCounted
    <3>6. Known'
      BY <1>0, <2>1, <3>1, <3>2 DEF Known
    <3>7. OpenPeerIsRegistered'
      <4> SUFFICES ASSUME NEW q \in Peers, peer[q].onClose, ~peer[q].qClosed
                   PROVE  registry'[peer[q].id] = q
        BY <3>1 DEF OpenPeerIsRegistered
      <4>1. registry[peer[q].id] = q /\ q # 0 /\ peer[q].id \in ClientIDs
        BY <1>0 DEF OpenPeerIsRegistered, Building, Peers
      <4> QED
        BY <2>2, <3>2, <4>1
    <3>8. Setup'
      BY <2>1, <3>1, <3>2, <3>3 DEF Setup
    <3> QED
      BY <3>4, <3>5, <3>6, <3>7, <3>8 DEF IndInv
  <2>3. CASE registry[id] # 0
    <3>1. /\ registry' = registry /\ peer' = [peer EXCEPT ![p] = CloseOf(peer[p])]
          /\ loop' = Idle
      BY <1>0, <1>5, <2>1, <2>3 DEF Register
    <3>2. loop' \in LoopType /\ loop'.pc = "idle"
      BY <3>1 DEF Idle
    <3>3. loop' # loop
      BY <2>1, <3>2
    <3> DEFINE r == CloseOf(peer[p])
    <3>4. /\ r \in PeerRecord /\ Consistent(r) /\ r.qClosed
          /\ r.id = peer[p].id /\ r.slot = peer[p].slot /\ r.onClose = peer[p].onClose
      BY <1>0, <2>1, CloseOfFacts
    <3> HIDE DEF r
    <3>5. peer' = [peer EXCEPT ![p] = r]
      BY <3>1 DEF r
    <3>6. \A w \in Pollers : poll'[w].peers \subseteq poll[w].peers
      BY <2>1
    <3> QED
      BY <1>0, <2>1, <3>1, <3>2, <3>3, <3>4, <3>5, <3>6, PeerChange
  <2> QED
    BY <2>2, <2>3
<1>6. CASE SetOnClose
  <2> DEFINE p == loop.peer
             r == InstallOf(peer[p])
  <2>1. /\ loop.pc = "onclose" /\ p \in Peers /\ p <= built /\ ~peer[p].onClose
        /\ registry[peer[p].id] = p /\ loop' = Idle
        /\ peer' = [peer EXCEPT ![p] = r] /\ UNCHANGED <<built, registry, unauth, links, poll>>
    BY <1>0, <1>6 DEF SetOnClose, Setup
  <2>2. r \in PeerRecord /\ Consistent(r) /\ r.id = peer[p].id /\ r.slot = peer[p].slot
        /\ r.qClosed = peer[p].qClosed
    BY <1>0, <2>1, InstallOfFacts
  <2> HIDE DEF r
  <2>3. /\ peer'[p] = r /\ peer' \in [Peers -> PeerRecord]
        /\ \A q \in Peers \ {p} : peer'[q] = peer[q]
    BY <1>0, <2>1, <2>2
  <2>4. Slots' = Slots
    BY <2>2, <2>3 DEF Slots
  <2>5. SlotsCounted'
    BY <1>0, <2>1, <2>4 DEF SlotsCounted, Slots
  <2>6. TypeOK' /\ Setup'
    BY <1>0, <2>1, <2>3 DEF TypeOK, Setup, Idle
  <2>7. Building' /\ Known'
    BY <1>0, <2>1, <2>2, <2>3 DEF Building, Known, TypeOK
  <2>8. OpenPeerIsRegistered'
    BY <1>0, <2>1, <2>2, <2>3 DEF OpenPeerIsRegistered
  <2>9. \A q \in Peers : Consistent(peer'[q])
    BY <1>0, <2>2, <2>3
  <2> QED
    BY <2>5, <2>6, <2>7, <2>8, <2>9 DEF IndInv
<1> QED
  BY <1>1, <1>3, <1>4, <1>5, <1>6

(* The answers, which act on the peer the registry leads to. *)
LEMMA AnswerSteps ==
    ASSUME IndInv,
           \/ \E id \in ClientIDs : \/ AnswerFails(id) \/ PairAnswer(id)
                                   \/ \E code \in Codes : AnswerAuthorize(id, code)
           \/ AnswerGrant \/ AnswerRefused \/ AnswerAdmit
    PROVE  IndInv'
<1>0. /\ TypeOK /\ Setup /\ Known
      /\ peer \in [Peers -> PeerRecord] /\ loop \in LoopType /\ poll \in PollType
      /\ \A q \in Peers : peer[q] \in PeerRecord /\ Consistent(peer[q])
  BY DEF IndInv, TypeOK, LoopType, PollType
<1>1. \A id \in ClientIDs : registry[id] # 0 => registry[id] \in Peers /\ registry[id] <= built
  BY <1>0, ListenerAssumption DEF TypeOK, Known, Peers
<1>2. ASSUME NEW p \in Peers, p <= built, NEW r \in PeerRecord, Consistent(r),
             r.id = peer[p].id, r.onClose = peer[p].onClose, r.slot = peer[p].slot,
             peer[p].qClosed => r.qClosed,
             peer' = [peer EXCEPT ![p] = r],
             UNCHANGED <<built, registry, unauth, links, poll>>,
             loop' = loop => loop.pc = "idle",
             loop' \in LoopType /\ loop'.pc \in {"idle", "grant", "admit"},
             loop'.pc # "idle" => loop'.peer \in Peers /\ loop'.peer <= built
      PROVE  IndInv'
  <2>1. \A w \in Pollers : poll'[w].peers \subseteq poll[w].peers
    BY <1>2
  <2> QED
    BY <1>0, <1>2, <2>1, PeerChange
<1>3. ASSUME NEW id \in ClientIDs, AnswerFails(id)
      PROVE  IndInv'
  <2> DEFINE p == registry[id]
             d == [peer[p] EXCEPT !.answered = TRUE]
  <2>1. p \in Peers /\ p <= built /\ loop.pc = "idle" /\ peer[p] \in PeerRecord /\ Consistent(peer[p])
    BY <1>0, <1>1, <1>3 DEF AnswerFails
  <2>2. d \in PeerRecord
    BY <2>1 DEF PeerRecord
  <2>3. Consistent(d) /\ d.id = peer[p].id /\ d.slot = peer[p].slot /\ d.onClose = peer[p].onClose
    BY <2>1 DEF PeerRecord, Consistent
  <2>4. /\ CloseOf(d) \in PeerRecord /\ Consistent(CloseOf(d)) /\ CloseOf(d).qClosed
        /\ CloseOf(d).id = peer[p].id /\ CloseOf(d).slot = peer[p].slot
        /\ CloseOf(d).onClose = peer[p].onClose
    BY <2>2, <2>3, CloseOfFacts
  <2>5. /\ peer' = [peer EXCEPT ![p] = CloseOf(d)]
        /\ UNCHANGED <<built, registry, unauth, links, poll, loop>>
    BY <1>0, <1>3, <2>1 DEF AnswerFails
  <2> HIDE DEF d, p
  <2> QED
    BY <1>0, <1>2, <2>1, <2>4, <2>5
<1>4. ASSUME NEW id \in ClientIDs,
             PairAnswer(id) \/ \E code \in Codes : AnswerAuthorize(id, code)
      PROVE  IndInv'
  <2> DEFINE p == registry[id]
             r == [peer[p] EXCEPT !.answered = TRUE]
  <2>1. p \in Peers /\ p <= built /\ loop.pc = "idle" /\ peer[p] \in PeerRecord /\ Consistent(peer[p])
    BY <1>0, <1>1, <1>4 DEF PairAnswer, AnswerAuthorize
  <2>2. r \in PeerRecord
    BY <2>1 DEF PeerRecord
  <2>3. Consistent(r) /\ r.id = peer[p].id /\ r.slot = peer[p].slot /\ r.onClose = peer[p].onClose
        /\ r.qClosed = peer[p].qClosed
    BY <2>1 DEF PeerRecord, Consistent
  <2>4. peer' = [peer EXCEPT ![p] = r] /\ UNCHANGED <<built, registry, unauth, links, poll>>
    BY <1>0, <1>4, <2>1 DEF PairAnswer, AnswerAuthorize
  <2>5. \/ loop' = loop
        \/ loop' \in LoopType /\ loop'.pc = "grant" /\ loop'.peer = p
    <3>1. CASE PairAnswer(id)
      BY <3>1 DEF PairAnswer
    <3>2. ASSUME NEW code \in Codes, AnswerAuthorize(id, code)
          PROVE  loop' \in LoopType /\ loop'.pc = "grant" /\ loop'.peer = p
      BY <3>2, <2>1 DEF AnswerAuthorize, LoopType, Peers
    <3> QED
      BY <1>4, <3>1, <3>2
  <2> HIDE DEF r, p
  <2> QED
    BY <1>0, <1>2, <2>1, <2>2, <2>3, <2>4, <2>5
<1>5. CASE AnswerGrant
  <2> DEFINE p == loop.peer
             r == [peer[p] EXCEPT !.label = loop.code]
  <2>1. p \in Peers /\ p <= built /\ loop.pc = "grant" /\ peer[p] \in PeerRecord /\ Consistent(peer[p])
    BY <1>0, <1>5 DEF AnswerGrant, Setup
  <2>2. r \in PeerRecord
    BY <1>0, <2>1 DEF PeerRecord, LoopType
  <2>3. Consistent(r) /\ r.id = peer[p].id /\ r.slot = peer[p].slot /\ r.onClose = peer[p].onClose
        /\ r.qClosed = peer[p].qClosed
    BY <2>1 DEF PeerRecord, Consistent
  <2>4. peer' = [peer EXCEPT ![p] = r] /\ UNCHANGED <<built, registry, unauth, links, poll>>
    BY <1>0, <1>5, <2>1 DEF AnswerGrant
  <2>5. loop' \in LoopType /\ loop'.pc = "admit" /\ loop'.peer = p
    BY <1>0, <1>5, <2>1 DEF AnswerGrant, LoopType
  <2> HIDE DEF r, p
  <2> QED
    BY <1>2, <2>1, <2>2, <2>3, <2>4, <2>5
<1>6. CASE AnswerRefused
  <2> DEFINE p == loop.peer
             r == CloseOf(peer[p])
  <2>1. p \in Peers /\ p <= built /\ loop.pc = "admit" /\ peer[p] \in PeerRecord /\ Consistent(peer[p])
    BY <1>0, <1>6 DEF AnswerRefused, Setup
  <2>2. /\ r \in PeerRecord /\ Consistent(r) /\ r.qClosed
        /\ r.id = peer[p].id /\ r.slot = peer[p].slot /\ r.onClose = peer[p].onClose
    BY <2>1, CloseOfFacts
  <2>3. peer' = [peer EXCEPT ![p] = r] /\ UNCHANGED <<built, registry, unauth, links, poll>>
    BY <1>0, <1>6, <2>1 DEF AnswerRefused
  <2>4. loop' \in LoopType /\ loop'.pc = "idle"
    BY <1>6, ListenerAssumption DEF AnswerRefused, Idle, LoopType
  <2> HIDE DEF r, p
  <2> QED
    BY <1>2, <2>1, <2>2, <2>3, <2>4
<1>7. CASE AnswerAdmit
  <2> DEFINE p == loop.peer
             s == IF peer[p].qClosed THEN "unpublished" ELSE "live"
             r == [peer[p] EXCEPT !.sess = s]
  <2>1. p \in Peers /\ p <= built /\ loop.pc = "admit" /\ peer[p] \in PeerRecord /\ Consistent(peer[p])
    BY <1>0, <1>7 DEF AnswerAdmit, Setup
  <2>2. peer' = [peer EXCEPT ![p] = r] /\ UNCHANGED <<built, registry, unauth, links, poll>>
    BY <1>0, <1>7, <2>1 DEF AnswerAdmit
  <2>3. s \in {"unpublished", "live"} /\ (peer[p].qClosed => s # "live")
    OBVIOUS
  <2> HIDE DEF s
  <2>4. r \in PeerRecord
    BY <2>1, <2>3 DEF PeerRecord
  <2>5. r.id = peer[p].id /\ r.slot = peer[p].slot /\ r.onClose = peer[p].onClose
        /\ r.qClosed = peer[p].qClosed
    BY <2>1 DEF PeerRecord
  <2>6. Consistent(r)
    BY <2>1, <2>3 DEF PeerRecord, Consistent
  <2>7. loop' \in LoopType /\ loop'.pc = "idle"
    BY <1>7, ListenerAssumption DEF AnswerAdmit, Idle, LoopType
  <2> HIDE DEF r, p
  <2> QED
    BY <1>2, <2>1, <2>2, <2>4, <2>5, <2>6, <2>7
<1> QED
  BY <1>3, <1>4, <1>5, <1>6, <1>7

(* Links go away and the pollers walk the peers. *)
LEMMA PollSteps ==
    ASSUME IndInv,
           \/ \E w \in Pollers : PollRuns(w)
           \/ Tick
           \/ \E code \in Codes : DeleteLink(code) \/ LinkExpires(code)
    PROVE  IndInv'
<1> USE ListenerAssumption
<1>0. /\ TypeOK /\ Setup /\ Known /\ links \subseteq Codes
      /\ peer \in [Peers -> PeerRecord] /\ poll \in PollType /\ registry \in [ClientIDs -> 0..MaxPeers]
      /\ \A q \in Peers : peer[q] \in PeerRecord /\ Consistent(peer[q])
  BY DEF IndInv, TypeOK, PollType
(* A step that leaves the peers alone: what a poller takes on is registered. *)
<1>1. ASSUME UNCHANGED <<built, peer, registry, unauth, loop>>, links' \subseteq Codes,
             poll' \in PollType,
             \A w \in Pollers : \A p \in poll'[w].peers :
                p \in poll[w].peers \/ \E id \in ClientIDs : p = registry[id]
      PROVE  IndInv'
  <2>1. TypeOK'
    BY <1>0, <1>1 DEF TypeOK, PollType
  <2>2. Building' /\ OpenPeerIsRegistered' /\ SlotsCounted'
        /\ \A p \in Peers : Consistent(peer'[p])
    BY <1>1 DEF IndInv, Building, OpenPeerIsRegistered, SlotsCounted
  <2>3. Known'
    BY <1>0, <1>1 DEF Known, PollType, Peers
  <2>4. Setup'
    BY <1>0, <1>1 DEF Setup
  <2> QED
    BY <2>1, <2>2, <2>3, <2>4 DEF IndInv
<1>2. CASE \E code \in Codes : DeleteLink(code) \/ LinkExpires(code)
  BY <1>0, <1>1, <1>2 DEF DeleteLink, LinkExpires, PollType, Pollers
<1>3. CASE Tick
  BY <1>0, <1>1, <1>3 DEF Tick, PollType, Pollers
<1>4. ASSUME NEW w \in Pollers, PollPeers(w) PROVE IndInv'
  <2> DEFINE known == {registry[id] : id \in ClientIDs} \ {0}
  <2>1. known \in SUBSET Peers
    BY <1>0 DEF Peers
  <2>2. \A p \in known : \E id \in ClientIDs : p = registry[id]
    OBVIOUS
  <2> HIDE DEF known
  <2>3. /\ poll' = [poll EXCEPT ![w].pc = "table", ![w].peers = known]
        /\ UNCHANGED <<built, peer, registry, unauth, loop, links>>
    BY <1>4 DEF PollPeers, known
  <2>4. /\ poll' \in PollType /\ poll'[w].peers = known
        /\ \A v \in Pollers \ {w} : poll'[v] = poll[v]
    BY <1>0, <1>4, <2>1, <2>3 DEF PollType
  <2> QED
    BY <1>0, <1>1, <1>4, <2>2, <2>3, <2>4
<1>5. ASSUME NEW w \in Pollers, PollTable(w) \/ PollDone(w) PROVE IndInv'
  <2>1. /\ poll' \in PollType
        /\ poll'[w].peers \subseteq poll[w].peers
        /\ \A v \in Pollers \ {w} : poll'[v] = poll[v]
    BY <1>0, <1>5 DEF PollTable, PollDone, PollType, NoPoll
  <2>2. UNCHANGED <<built, peer, registry, unauth, loop, links>>
    BY <1>5 DEF PollTable, PollDone
  <2> QED
    BY <1>0, <1>1, <1>5, <2>1, <2>2
<1>6. ASSUME NEW w \in Pollers, NEW p \in Peers, PollPeer(w, p) PROVE IndInv'
  <2> DEFINE c == peer[p]
             e == [c EXCEPT !.sess = "closed", !.draining = TRUE]
             r == IF c.label \in poll[w].table \cup {None} THEN c
                  ELSE IF c.sess \in {"live", "closed"} THEN e ELSE CloseOf(c)
  <2>1. p \in poll[w].peers /\ p <= built /\ c \in PeerRecord /\ Consistent(c)
    BY <1>0, <1>6 DEF PollPeer, Known
  <2>2. e \in PeerRecord
    BY <2>1 DEF PeerRecord
  <2>3. Consistent(e) /\ e.id = c.id /\ e.slot = c.slot /\ e.onClose = c.onClose
        /\ e.qClosed = c.qClosed
    BY <2>1 DEF PeerRecord, Consistent
  <2>4. /\ CloseOf(c) \in PeerRecord /\ Consistent(CloseOf(c)) /\ CloseOf(c).qClosed
        /\ CloseOf(c).id = c.id /\ CloseOf(c).slot = c.slot /\ CloseOf(c).onClose = c.onClose
    BY <2>1, CloseOfFacts
  <2>5. peer' = [peer EXCEPT ![p] = r]
    BY <1>0, <1>6 DEF PollPeer
  <2>6. /\ poll' \in PollType
        /\ \A v \in Pollers : poll'[v].peers \subseteq poll[v].peers
        /\ UNCHANGED <<built, registry, unauth, loop, links>>
    BY <1>0, <1>6 DEF PollPeer, PollType
  <2>7. /\ r \in PeerRecord /\ Consistent(r) /\ r.id = c.id /\ r.slot = c.slot
        /\ r.onClose = c.onClose /\ (c.qClosed => r.qClosed)
    BY <2>1, <2>2, <2>3, <2>4
  <2>8. loop.pc \in {"reserve", "arm"} => p # loop.peer
    BY <1>0, <1>6, <2>1 DEF Setup
  <2> HIDE DEF r
  <2> QED
    BY <2>1, <2>5, <2>6, <2>7, <2>8, PeerChange
<1> QED
  BY <1>2, <1>3, <1>4, <1>5, <1>6 DEF PollRuns

(* Every step of every goroutine keeps the invariant. *)
LEMMA NextIndInv == IndInv /\ [Next]_vars => IndInv'
<1> SUFFICES ASSUME IndInv, [Next]_vars PROVE IndInv'
  OBVIOUS
<1>1. CASE LoopStep
  BY <1>1, SetupSteps, AnswerSteps DEF LoopStep
<1>2. CASE \E p \in Peers : PeerRuns(p)
  BY <1>2, PeerSteps
<1>3. CASE Tick \/ \E w \in Pollers : PollRuns(w)
  BY <1>3, PollSteps
<1>4. CASE Environment
  BY <1>4, SetupSteps, AnswerSteps, PeerSteps, PollSteps DEF Environment
<1>5. CASE UNCHANGED vars
  <2>1. UNCHANGED <<built, peer, registry, unauth, loop, links, poll>>
    BY <1>5 DEF vars
  <2>2. TypeOK' /\ Building' /\ Setup' /\ Known' /\ OpenPeerIsRegistered' /\ SlotsCounted'
        /\ \A p \in Peers : Consistent(peer'[p])
    BY <2>1 DEF IndInv, TypeOK, Building, Setup, Known, OpenPeerIsRegistered, SlotsCounted
  <2> QED
    BY <2>2 DEF IndInv
<1> QED
  BY <1>1, <1>2, <1>3, <1>4, <1>5 DEF Next

LEMMA Invariance == Spec => []IndInv
  BY InitIndInv, NextIndInv, PTL DEF Spec

-----------------------------------------------------------------------------

(* The records and counters keep their types; in particular maxUnauth-     *)
(* Sessions is never exceeded, although handleRequest checks the counter   *)
(* and takes the slot in two steps while other goroutines release slots.   *)
THEOREM TypeCorrect == Spec => []TypeOK
<1>1. IndInv => TypeOK
  BY DEF IndInv
<1> QED
  BY <1>1, Invariance, PTL

(* servePeer.release against OnReady, the deadline, the teardown and a     *)
(* revocation: the counter of unauthenticated peers is exact.              *)
THEOREM SlotCounterExact == Spec => []SlotsCounted
<1>1. IndInv => SlotsCounted
  BY DEF IndInv
<1> QED
  BY <1>1, Invariance, PTL

(* servePeer.close against admit and Deadline: what teardown has released  *)
(* is not there again later.                                               *)
THEOREM TornDownStaysDown == Spec => []ClosedKeepsNothing
<1>1. IndInv => ClosedKeepsNothing
  BY DEF IndInv, Consistent, ClosedKeepsNothing
<1> QED
  BY <1>1, Invariance, PTL

(* peers.Add, SetOnClose and Forget: an open peer whose setup is complete  *)
(* is found under its client id, also when that id is reused while an      *)
(* earlier peer's close callback is still to forget it.                    *)
THEOREM OpenPeersAreFound == Spec => []OpenPeerIsRegistered
<1>1. IndInv => OpenPeerIsRegistered
  BY DEF IndInv
<1> QED
  BY <1>1, Invariance, PTL

=============================================================================
