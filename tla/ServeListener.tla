--------------------------- MODULE ServeListener ---------------------------
(***************************************************************************)
(* A `bitbang serve` listener admitting peers and letting go of them:      *)
(* cmd/bitbang/serve_listen.go and serve_peer.go, over the registry and    *)
(* the deadline of internal/peerset, the close callback of                 *)
(* peer.Connection, and framequeue.Queue.Close as the single teardown.     *)
(*                                                                         *)
(* Goroutines: the signaling read loop (requests, answers, one at a time), *)
(* pion's callbacks (a peer's transport ends), the deadline's timer, the   *)
(* session's dispatcher (OnReady), the operator's console and the expiry   *)
(* ticker (each polls the peers against the link table), the goroutine     *)
(* that drains a revoked session, the pairing handshake.  A peer's         *)
(* teardown runs on whichever goroutine wins Queue.Close, and its close    *)
(* callback on whichever wins fireClose; both are actors of their own      *)
(* here, and the signaling loop does not wait for those it starts, which   *)
(* only adds interleavings.                                                *)
(***************************************************************************)
EXTENDS Integers, FiniteSets

CONSTANTS
    ClientIDs,          \* ids the signaling server may hand out, reused
    Codes,              \* access codes of the links in the table
    MaxUnauthSessions,  \* maxUnauthSessions
    Pairing,            \* whether pair_request messages arrive
    MaxPeers            \* bound: how many servePeers are ever built

ASSUME ListenerAssumption ==
    /\ MaxUnauthSessions \in Nat \ {0}
    /\ MaxPeers \in Nat
    /\ Pairing \in BOOLEAN

None == "none"
Peers == 1..MaxPeers   \* servePeers, in the order they are built
Pollers == {"console", "ticker"}

VARIABLES
    built,     \* how many servePeers have been built
    peer,      \* servePeer with its Connection, Queue and Session
    registry,  \* listener.peers: client id -> servePeer, 0 if none
    unauth,    \* listener.unauthSessions
    loop,      \* the signaling read loop: step, servePeer, code resolved
    links,     \* codes that the link table admits now
    poll       \* per poller: step, peers still to check, table snapshot

vars == <<built, peer, registry, unauth, loop, links, poll>>

Idle == [pc |-> "idle", peer |-> 0, code |-> None]
NoPoll == [pc |-> "idle", peers |-> {}, table |-> {}]

(* newServePeer and setupConnection.  label: the code granted, "none" until*)
(* then.  closer: the goroutine in Queue.Close; firer: in the callback.    *)
NewPeer(id, pair) ==
    [id |-> id, pair |-> pair, label |-> None, answered |-> FALSE,
     qClosed |-> FALSE, sess |-> "none", slot |-> FALSE, deadline |-> "none",
     connClosed |-> FALSE, onClose |-> FALSE, closer |-> "none", firer |-> "none",
     hs |-> "none", draining |-> FALSE, hold |-> pair]

Init ==
    /\ built = 0
    /\ peer = [p \in Peers |-> NewPeer(None, FALSE)]
    /\ registry = [id \in ClientIDs |-> 0]
    /\ unauth = 0
    /\ loop = Idle
    /\ links = Codes
    /\ poll = [w \in Pollers |-> NoPoll]

-----------------------------------------------------------------------------
(* What the code calls on a peer, as functions of the peer's record.       *)

(* servePeer.close up to the unlock in Queue.Close: the first call wins.   *)
CloseOf(r) ==
    IF r.qClosed THEN r ELSE [r EXCEPT !.qClosed = TRUE, !.closer = "teardown"]

(* Connection.fireClose: the first call takes the callback, if installed.  *)
FireOf(r) ==
    IF r.connClosed THEN r
    ELSE [r EXCEPT !.connClosed = TRUE, !.firer = IF r.onClose THEN "close" ELSE @]

(* Mutant: a callback installed after the close is never run. *)
MutantInstallIgnoresClosed(r) == [r EXCEPT !.onClose = TRUE]

(* Connection.SetOnClose: run at once if the connection already closed.    *)
InstallOf(r) ==
    [r EXCEPT !.onClose = TRUE, !.firer = IF r.connClosed THEN "close" ELSE @]

(* Deadline.Done: the compare-and-swap against the timer's.                *)
DoneOf(r) == IF r.deadline = "armed" THEN "done" ELSE r.deadline

(* Mutant: every release gives the slot back. *)
MutantReleaseAgain(r) == unauth' = unauth - 1

(* servePeer.release, at most once per peer.                               *)
Release(r) == unauth' = IF r.slot THEN unauth - 1 ELSE unauth

-----------------------------------------------------------------------------
(* The signaling read loop.                                                *)

Start(id, pair) ==
    /\ loop.pc = "idle"
    /\ registry[id] = 0
    /\ built < MaxPeers
    /\ built' = built + 1
    /\ peer' = [peer EXCEPT ![built + 1] = NewPeer(id, pair)]
    /\ UNCHANGED <<registry, unauth, links, poll>>

(* handleRequest, as far as the connection. *)
Request(id) ==
    /\ unauth < MaxUnauthSessions
    /\ Start(id, FALSE)
    /\ loop' = [pc |-> "reserve", peer |-> built + 1, code |-> None]

(* handleRequest: the unauth slot is taken and the deadline armed.         *)
Reserve ==
    /\ loop.pc = "reserve"
    /\ unauth' = unauth + 1
    /\ peer' = [peer EXCEPT ![loop.peer].slot = TRUE, ![loop.peer].deadline = "armed"]
    /\ loop' = [loop EXCEPT !.pc = "add"]
    /\ UNCHANGED <<built, registry, links, poll>>

(* handlePairRequest: the console is held from here; no slot is taken.     *)
PairRequest(id) ==
    /\ Pairing
    /\ Start(id, TRUE)
    /\ loop' = [pc |-> "arm", peer |-> built + 1, code |-> None]

PairArm ==
    /\ loop.pc = "arm"
    /\ peer' = [peer EXCEPT ![loop.peer].deadline = "armed"]
    /\ loop' = [loop EXCEPT !.pc = "add"]
    /\ UNCHANGED <<built, registry, unauth, links, poll>>

(* peers.Add; a peer that is refused is closed. *)
Register ==
    /\ loop.pc = "add"
    /\ LET id == peer[loop.peer].id IN
       IF registry[id] = 0
       THEN /\ registry' = [registry EXCEPT ![id] = loop.peer]
            /\ loop' = [loop EXCEPT !.pc = "onclose"]
            /\ UNCHANGED peer
       ELSE /\ peer' = [peer EXCEPT ![loop.peer] = CloseOf(@)]
            /\ loop' = Idle
            /\ UNCHANGED registry
    /\ UNCHANGED <<built, unauth, links, poll>>

SetOnClose ==
    /\ loop.pc = "onclose"
    /\ peer' = [peer EXCEPT ![loop.peer] = InstallOf(@)]
    /\ loop' = Idle
    /\ UNCHANGED <<built, registry, unauth, links, poll>>

(* handleAnswer.  A second answer, or one after the connection closed,     *)
(* fails in SetRemoteDescription, and so does an unusable one: close.      *)
AnswerFails(id) ==
    /\ loop.pc = "idle"
    /\ registry[id] # 0
    /\ peer' = [peer EXCEPT ![registry[id]] = CloseOf([@ EXCEPT !.answered = TRUE])]
    /\ UNCHANGED <<built, registry, unauth, loop, links, poll>>

(* HandlePairAnswer. *)
PairAnswer(id) ==
    /\ loop.pc = "idle"
    /\ registry[id] # 0
    /\ peer[registry[id]].pair
    /\ ~peer[registry[id]].answered
    /\ peer' = [peer EXCEPT ![registry[id]].answered = TRUE]
    /\ UNCHANGED <<built, registry, unauth, loop, links, poll>>

(* HandleAnswer calls Authorize, which resolves the code against the table *)
(* as it stands; a code that is not admitted closes the peer (AnswerFails).*)
AnswerAuthorize(id, code) ==
    /\ loop.pc = "idle"
    /\ registry[id] # 0
    /\ ~peer[registry[id]].pair
    /\ ~peer[registry[id]].answered
    /\ code \in links
    /\ peer' = [peer EXCEPT ![registry[id]].answered = TRUE]
    /\ loop' = [pc |-> "grant", peer |-> registry[id], code |-> code]
    /\ UNCHANGED <<built, registry, unauth, links, poll>>

(* Authorize records what it resolved. *)
AnswerGrant ==
    /\ loop.pc = "grant"
    /\ peer' = [peer EXCEPT ![loop.peer].label = loop.code]
    /\ loop' = [loop EXCEPT !.pc = "admit"]
    /\ UNCHANGED <<built, registry, unauth, links, poll>>

(* A bad nonce or fingerprint, or terms that no longer resolve: close.     *)
AnswerRefused ==
    /\ loop.pc = "admit"
    /\ peer' = [peer EXCEPT ![loop.peer] = CloseOf(@)]
    /\ loop' = Idle
    /\ UNCHANGED <<built, registry, unauth, links, poll>>

(* Mutant: the session is installed whether or not teardown came first. *)
MutantAdmitAnyway ==
    /\ loop.pc = "admit"
    /\ peer' = [peer EXCEPT ![loop.peer].sess = "live"]
    /\ loop' = Idle
    /\ UNCHANGED <<built, registry, unauth, links, poll>>

(* The session is built and admit publishes it under the queue's lock; if  *)
(* teardown won the race the session is closed instead.                    *)
AnswerAdmit ==
    /\ loop.pc = "admit"
    /\ peer' = [peer EXCEPT ![loop.peer].sess =
                  IF peer[loop.peer].qClosed THEN "unpublished" ELSE "live"]
    /\ loop' = Idle
    /\ UNCHANGED <<built, registry, unauth, links, poll>>

-----------------------------------------------------------------------------
(* A peer's handshake, deadline, transport and teardown.                   *)

PeerStep(p, r) ==
    /\ p <= built
    /\ peer' = [peer EXCEPT ![p] = r]
    /\ UNCHANGED <<built, loop, links, poll>>

(* The dispatcher has marked the session ready and is about to call OnReady*)
SessionReady(p) ==
    /\ peer[p].sess = "live"
    /\ peer[p].hs = "none"
    /\ PeerStep(p, [peer[p] EXCEPT !.hs = "onready"])
    /\ UNCHANGED <<registry, unauth>>

OnReady(p) ==
    /\ peer[p].hs = "onready"
    /\ PeerStep(p, [peer[p] EXCEPT !.hs = "ready", !.deadline = DoneOf(peer[p]),
                                   !.slot = FALSE])
    /\ Release(peer[p])
    /\ UNCHANGED registry

(* The deadline's timer wins the compare-and-swap, then closes the peer.   *)
DeadlineExpires(p) ==
    /\ peer[p].deadline = "armed"
    /\ PeerStep(p, [peer[p] EXCEPT !.deadline = "expired"])
    /\ UNCHANGED <<registry, unauth>>

DeadlineCloses(p) ==
    /\ peer[p].deadline = "expired"
    /\ PeerStep(p, CloseOf([peer[p] EXCEPT !.deadline = "closed"]))
    /\ UNCHANGED <<registry, unauth>>

(* dc.OnClose, a terminal connection state, or Connection.Close elsewhere. *)
TransportCloses(p) ==
    /\ ~peer[p].connClosed
    /\ PeerStep(p, FireOf(peer[p]))
    /\ UNCHANGED <<registry, unauth>>

(* Mutant: the callback forgets the peer before it closes it. *)
MutantForgetFirst(p) ==
    /\ peer[p].firer = "close"
    /\ IF registry[peer[p].id] = p
       THEN /\ registry' = [registry EXCEPT ![peer[p].id] = 0]
            /\ PeerStep(p, peer[p])
       ELSE /\ PeerStep(p, [CloseOf(peer[p]) EXCEPT !.firer = "done"])
            /\ UNCHANGED registry
    /\ UNCHANGED unauth

(* The close callback: p.close(), which does the work or returns at once,  *)
CallbackClose(p) ==
    /\ peer[p].firer = "close"
    /\ PeerStep(p, [CloseOf(peer[p]) EXCEPT !.firer =
                      IF peer[p].qClosed THEN "forget" ELSE "closing"])
    /\ UNCHANGED <<registry, unauth>>

(* then peers.Forget, which leaves a newer peer under the id alone.        *)
CallbackForget(p) ==
    /\ peer[p].firer = "forget" \/ (peer[p].firer = "closing" /\ peer[p].closer = "done")
    /\ PeerStep(p, [peer[p] EXCEPT !.firer = "done"])
    /\ registry' = [registry EXCEPT ![peer[p].id] = IF @ = p THEN 0 ELSE @]
    /\ UNCHANGED unauth

(* Mutant: the slot of a peer that never authenticated is not given back.  *)
MutantTeardownKeepsSlot(p) ==
    /\ peer[p].closer = "teardown"
    /\ PeerStep(p, [peer[p] EXCEPT !.closer = "conn", !.deadline = DoneOf(peer[p]),
                       !.sess = IF @ = "live" THEN "closed" ELSE @])
    /\ UNCHANGED <<registry, unauth>>

(* What servePeer.close runs after the unlock: deadline, session, slot.    *)
Teardown(p) ==
    /\ peer[p].closer = "teardown"
    /\ PeerStep(p, [peer[p] EXCEPT !.closer = "conn", !.deadline = DoneOf(peer[p]),
                       !.sess = IF @ = "live" THEN "closed" ELSE @, !.slot = FALSE])
    /\ Release(peer[p])
    /\ UNCHANGED registry

(* Queue.Close ends with conn.Close. *)
TeardownConn(p) ==
    /\ peer[p].closer = "conn"
    /\ PeerStep(p, FireOf([peer[p] EXCEPT !.closer = "done"]))
    /\ UNCHANGED <<registry, unauth>>

(* The pairing handshake runs from the data channel's opening to its end,  *)
(* however that turns out: OnPairDone, and the connection is closed.       *)
PairOpens(p) ==
    /\ peer[p].pair /\ peer[p].answered /\ ~peer[p].connClosed
    /\ peer[p].hs = "none"
    /\ PeerStep(p, [peer[p] EXCEPT !.hs = "pairing"])
    /\ UNCHANGED <<registry, unauth>>

PairEnds(p) ==
    /\ peer[p].hs = "pairing"
    /\ PeerStep(p, FireOf([peer[p] EXCEPT !.hs = "paired", !.hold = FALSE]))
    /\ UNCHANGED <<registry, unauth>>

-----------------------------------------------------------------------------
(* Links change, and the peers are re-checked against them.                *)

(* The operator removes a link; the console then polls (pollNow). *)
DeleteLink(code) ==
    /\ poll["console"].pc = "idle"
    /\ code \in links
    /\ links' = links \ {code}
    /\ poll' = [poll EXCEPT !["console"].pc = "peers"]
    /\ UNCHANGED <<built, peer, registry, unauth, loop>>

(* A link expires; nothing is called. *)
LinkExpires(code) ==
    /\ code \in links
    /\ links' = links \ {code}
    /\ UNCHANGED <<built, peer, registry, unauth, loop, poll>>

(* watchExpiry's ticker. *)
Tick ==
    /\ poll["ticker"].pc = "idle"
    /\ poll' = [poll EXCEPT !["ticker"].pc = "peers"]
    /\ UNCHANGED <<built, peer, registry, unauth, loop, links>>

(* peers.All, then links.current. *)
PollPeers(w) ==
    /\ poll[w].pc = "peers"
    /\ poll' = [poll EXCEPT ![w].pc = "table",
                            ![w].peers = {registry[id] : id \in ClientIDs} \ {0}]
    /\ UNCHANGED <<built, peer, registry, unauth, loop, links>>

PollTable(w) ==
    /\ poll[w].pc = "table"
    /\ poll' = [poll EXCEPT ![w].pc = "walk", ![w].table = links]
    /\ UNCHANGED <<built, peer, registry, unauth, loop, links>>

(* Mutant: the terms captured at connect are re-checked, not the table.    *)
MutantPollSnapshot(w, p) ==
    /\ poll[w].pc = "walk"
    /\ p \in poll[w].peers
    /\ poll' = [poll EXCEPT ![w].peers = @ \ {p}]
    /\ UNCHANGED <<built, peer, registry, unauth, loop, links>>

(* pollPeers and revoke: a peer still handshaking is skipped; one without  *)
(* a session is closed; otherwise the session ends now and the peer is     *)
(* closed once its goodbye has drained.                                    *)
PollPeer(w, p) ==
    /\ poll[w].pc = "walk"
    /\ p \in poll[w].peers
    /\ poll' = [poll EXCEPT ![w].peers = @ \ {p}]
    /\ peer' = [peer EXCEPT ![p] =
                  IF @.label \in poll[w].table \cup {None} THEN @
                  ELSE IF @.sess \in {"live", "closed"}
                       THEN [@ EXCEPT !.sess = "closed", !.draining = TRUE]
                       ELSE CloseOf(@)]
    /\ UNCHANGED <<built, registry, unauth, loop, links>>

PollDone(w) ==
    /\ poll[w].pc = "walk"
    /\ poll[w].peers = {}
    /\ poll' = [poll EXCEPT ![w] = NoPoll]
    /\ UNCHANGED <<built, peer, registry, unauth, loop, links>>

(* WaitDrained has returned. *)
DrainCloses(p) ==
    /\ peer[p].draining
    /\ PeerStep(p, CloseOf([peer[p] EXCEPT !.draining = FALSE]))
    /\ UNCHANGED <<registry, unauth>>

-----------------------------------------------------------------------------

LoopStep ==
    \/ Reserve \/ PairArm \/ Register \/ SetOnClose
    \/ AnswerGrant \/ AnswerRefused \/ AnswerAdmit

PeerRuns(p) ==
    \/ OnReady(p)
    \/ DeadlineExpires(p) \/ DeadlineCloses(p)
    \/ CallbackClose(p) \/ CallbackForget(p)
    \/ Teardown(p) \/ TeardownConn(p)
    \/ PairEnds(p)
    \/ DrainCloses(p)

PollRuns(w) ==
    PollPeers(w) \/ PollTable(w) \/ PollDone(w) \/ \E p \in Peers : PollPeer(w, p)

Environment ==
    \/ \E id \in ClientIDs : \/ Request(id)
                             \/ PairRequest(id)
                             \/ AnswerFails(id)
                             \/ PairAnswer(id)
                             \/ \E code \in Codes : AnswerAuthorize(id, code)
    \/ \E p \in Peers : SessionReady(p) \/ TransportCloses(p) \/ PairOpens(p)
    \/ \E code \in Codes : DeleteLink(code) \/ LinkExpires(code)

Next ==
    \/ LoopStep
    \/ \E p \in Peers : PeerRuns(p)
    \/ \E w \in Pollers : PollRuns(w)
    \/ Tick
    \/ Environment

Spec == Init /\ [][Next]_vars

(* Every goroutine of the listener is scheduled, an armed timer fires      *)
(* unless it is cancelled, and the ticker ticks.  Nothing is assumed of    *)
(* the peers, the signaling server, the operator or the clock.             *)
FairSpec ==
    /\ Spec
    /\ WF_vars(LoopStep)
    /\ \A p \in Peers :
         /\ WF_vars(OnReady(p))
         /\ WF_vars(DeadlineExpires(p))
         /\ WF_vars(DeadlineCloses(p))
         /\ WF_vars(CallbackClose(p))
         /\ WF_vars(CallbackForget(p))
         /\ WF_vars(Teardown(p))
         /\ WF_vars(TeardownConn(p))
         /\ WF_vars(PairEnds(p))
         /\ WF_vars(DrainCloses(p))
    /\ \A w \in Pollers : WF_vars(PollRuns(w))
    /\ WF_vars(Tick)

-----------------------------------------------------------------------------
(* Properties.                                                             *)

(* A servePeer's record. *)
PeerRecord ==
    [id : ClientIDs \cup {None}, pair : BOOLEAN, label : Codes \cup {None},
     answered : BOOLEAN, qClosed : BOOLEAN,
     sess : {"none", "live", "closed", "unpublished"}, slot : BOOLEAN,
     deadline : {"none", "armed", "done", "expired", "closed"},
     connClosed : BOOLEAN, onClose : BOOLEAN,
     closer : {"none", "teardown", "conn", "done"},
     firer : {"none", "close", "closing", "forget", "done"},
     hs : {"none", "onready", "ready", "pairing", "paired"},
     draining : BOOLEAN, hold : BOOLEAN]

(* The values each variable takes; the unauthenticated peers are never     *)
(* more than the cap allows.                                               *)
TypeOK ==
    /\ built \in 0..MaxPeers
    /\ peer \in [Peers -> PeerRecord]
    /\ registry \in [ClientIDs -> 0..MaxPeers]
    /\ unauth \in 0..MaxUnauthSessions
    /\ loop \in [pc : {"idle", "reserve", "arm", "add", "onclose", "grant", "admit"},
                 peer : 0..MaxPeers, code : Codes \cup {None}]
    /\ links \subseteq Codes
    /\ poll \in [Pollers -> [pc : {"idle", "peers", "table", "walk"},
                             peers : SUBSET Peers, table : SUBSET Codes]]

(* The counter of unauthenticated peers is exact however OnReady, the      *)
(* deadline, a lost transport and a revocation race to release: a slot is  *)
(* never given back twice, which would lift the cap, nor counted after it  *)
(* was given back, which would lower it.                                   *)
SlotsCounted == unauth = Cardinality({p \in Peers : peer[p].slot})

(* Once a peer's teardown has run it keeps nothing: no session is being    *)
(* served, its slot is free and its deadline cannot fire any more, even    *)
(* when an answer was being handled meanwhile.                             *)
ClosedKeepsNothing ==
    \A p \in Peers : peer[p].closer \in {"conn", "done"} =>
        /\ peer[p].sess # "live"
        /\ ~peer[p].slot
        /\ peer[p].deadline # "armed"

(* An open peer whose setup is complete is the one its client id leads to: *)
(* its answer and candidates reach it.                                     *)
OpenPeerIsRegistered ==
    \A p \in Peers : peer[p].onClose /\ ~peer[p].qClosed => registry[peer[p].id] = p

(* A peer that authenticates, stalls, loses its transport or is refused    *)
(* gives its slot back: the listener cannot fill up with pending peers.    *)
SlotsReturn == \A p \in Peers : peer[p].slot ~> ~peer[p].slot

(* A closed peer leaves the registry, so that its client id can connect    *)
(* again, also when its transport ended while handleRequest was running.   *)
ClosedIsForgotten ==
    \A id \in ClientIDs, p \in Peers :
        (registry[id] = p /\ (peer[p].qClosed \/ peer[p].connClosed)) ~> registry[id] # p

(* A session whose link is deleted or expires is ended, even when the link *)
(* went away between resolving the code and publishing the session.        *)
RevocationTakesEffect ==
    \A p \in Peers : (peer[p].sess = "live" /\ peer[p].label \notin links)
                        ~> peer[p].sess # "live"

(* What the comment on OnPairDone says: a pairing that is over does not    *)
(* leave the operator's command loop held out.                             *)
HoldReleased ==
    \A p \in Peers : (peer[p].hold /\ peer[p].qClosed) ~> ~peer[p].hold

=============================================================================
