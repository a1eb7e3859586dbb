------------------------- MODULE SessionHandshake -------------------------
(***************************************************************************)
(* The stream-0 handshake between a listener's Session                     *)
(* (internal/session/control.go, session.go) and the client                *)
(* (internal/client/session.go), with the admission of streams that it     *)
(* gates, and the listener ending the session (Goodbye, Close) meanwhile.  *)
(*                                                                         *)
(* Goroutines: the listener's frame dispatcher (HandleMessage, one frame   *)
(* at a time), the listener goroutine that revokes the peer, the client.   *)
(* The data channel is two ordered queues.  A peer of kind "any" sends     *)
(* control and SYN frames in any order: another implementation, an older   *)
(* one, a browser that navigates.                                          *)
(***************************************************************************)
EXTENDS Integers, Sequences, FiniteSets

CONSTANTS
    PinSettings,   \* whether the listener has a PIN: the cases considered
    PeerKinds,     \* "client": this repository's client; "any": any peer
    Versions,      \* versions a peer may announce; 0 is a missing one
    StreamIDs,     \* ids of the streams a peer may open
    MaxMessages    \* bound: how many frames a peer of kind "any" sends

ASSUME HandshakeAssumption ==
    /\ PinSettings \subseteq BOOLEAN
    /\ PeerKinds \subseteq {"client", "any"}
    /\ Versions \subseteq Nat
    /\ MaxMessages \in Nat

SWSPVersion == 4
MaxAuthFails == 3   \* maxAuthFails, and the client's own limit

VARIABLES
    pinRequired,  \* Session.PIN.Required(); never changes
    negotiated,   \* Session.negotiatedVersion, 0 before the first connect
    ready,        \* Session.ready (set together with authenticated)
    authFails,    \* Session.authFails
    streams,      \* Session.streams: id -> whether flow control applies
    closed,       \* Session.closed
    handler,      \* where the dispatcher stands
    viaAuth,      \* the dispatcher runs handleAuth rather than handleConnect
    opening,      \* the id of the SYN the dispatcher is admitting
    revoker,      \* where the goroutine that revokes the peer stands
    dcOpen,       \* the data channel is open
    toListener,   \* frames on their way to the listener
    toPeer,       \* frames on their way to the peer
    client,       \* where the client's handshake stands
    clientVersion,     \* the version the client announces
    clientNegotiated,  \* client Session.NegotiatedVersion
    retry,        \* the client's retry counter
    nextStreamID, \* client Session.nextStreamID
    verified,     \* history: the right PIN was presented
    sends         \* how many frames a peer of kind "any" has sent

sessVars == <<negotiated, ready, authFails, streams, closed>>
dispVars == <<handler, viaAuth, opening>>
clientVars == <<client, clientVersion, clientNegotiated, retry, nextStreamID, sends>>
vars == <<sessVars, dispVars, pinRequired, revoker, dcOpen, toListener, toPeer,
          clientVars, verified>>

(* protocol.NegotiateSWSPVersion *)
NegotiateSWSPVersion(version) ==
    IF version <= 0 THEN 2 ELSE IF version > SWSPVersion THEN SWSPVersion ELSE version

Connect(version) == [type |-> "connect", version |-> version]
Auth(right) == [type |-> "auth", right |-> right]
Syn(id) == [type |-> "syn", id |-> id]
Plain(type) == [type |-> type]
AuthResult(success) == [type |-> "auth_result", success |-> success]
Ready(version) == [type |-> "ready", version |-> version]

(* sendFrame: a frame goes out only while the data channel is open. *)
SendToPeer(msg) == toPeer' = IF dcOpen THEN Append(toPeer, msg) ELSE toPeer
SendToListener(msg) ==
    toListener' = IF dcOpen THEN Append(toListener, msg) ELSE toListener

(* The data channel is open and the listener has sent verify_nonce_hash.   *)
Init ==
    /\ pinRequired \in PinSettings
    /\ negotiated = 0
    /\ ready = FALSE
    /\ authFails = 0
    /\ streams = [id \in {} |-> FALSE]
    /\ closed = FALSE
    /\ handler = "idle"
    /\ viaAuth = FALSE
    /\ opening = 0
    /\ revoker = "idle"
    /\ dcOpen = TRUE
    /\ toListener = <<>>
    /\ toPeer = <<Plain("verify_nonce_hash")>>
    /\ \E kind \in PeerKinds :
         \/ kind = "client" /\ client = "verify" /\ clientVersion \in Versions \ {0}
         \/ kind = "any" /\ client = "any" /\ clientVersion = 0
    /\ clientNegotiated = 0
    /\ retry = 0
    /\ nextStreamID = 1
    /\ verified = FALSE
    /\ sends = 0

-----------------------------------------------------------------------------
(* The listener's dispatcher.                                              *)

(* HandleMessage takes the next frame, unless the session is closed. *)
Next0(type) ==
    /\ handler = "idle"
    /\ toListener # <<>>
    /\ Head(toListener).type = type
    /\ toListener' = Tail(toListener)

DropClosed ==
    /\ handler = "idle"
    /\ toListener # <<>>
    /\ closed
    /\ toListener' = Tail(toListener)
    /\ UNCHANGED <<sessVars, dispVars, pinRequired, revoker, dcOpen, toPeer, clientVars, verified>>

(* Mutant: the session is ready before the PIN gate is reached. *)
MutantConnectReadyFirst ==
    /\ Next0("connect")
    /\ ~closed
    /\ negotiated' = IF negotiated = 0
                     THEN NegotiateSWSPVersion(Head(toListener).version) ELSE negotiated
    /\ ready' = TRUE
    /\ \/ /\ pinRequired
          /\ SendToPeer(Plain("auth_required"))
          /\ UNCHANGED <<handler, viaAuth>>
       \/ /\ ~pinRequired
          /\ handler' = "notify"
          /\ viaAuth' = FALSE
          /\ UNCHANGED toPeer
    /\ UNCHANGED <<authFails, streams, closed, opening, pinRequired, revoker, dcOpen,
                   clientVars, verified>>

(* handleConnect: the first connect fixes the version; the PIN gate comes  *)
(* before any handler setup.                                               *)
HandleConnect ==
    /\ Next0("connect")
    /\ ~closed
    /\ negotiated' = IF negotiated = 0
                     THEN NegotiateSWSPVersion(Head(toListener).version) ELSE negotiated
    /\ \/ /\ pinRequired
          /\ SendToPeer(Plain("auth_required"))
          /\ UNCHANGED <<handler, viaAuth>>
       \/ /\ ~pinRequired
          /\ handler' = "notify"
          /\ viaAuth' = FALSE
          /\ UNCHANGED toPeer
    /\ UNCHANGED <<ready, authFails, streams, closed, opening, pinRequired, revoker, dcOpen,
                   clientVars, verified>>

(* handleAuth with the right PIN, or with any PIN when none is required.   *)
HandleAuth ==
    /\ Next0("auth")
    /\ ~closed
    /\ \/ /\ ~pinRequired
          /\ UNCHANGED <<dispVars, authFails, verified>>
       \/ /\ pinRequired
          /\ Head(toListener).right
          /\ verified' = TRUE
          /\ handler' = "notify"
          /\ viaAuth' = TRUE
          /\ UNCHANGED <<opening, authFails>>
       \/ /\ pinRequired
          /\ ~Head(toListener).right
          /\ authFails' = authFails + 1
          /\ handler' = "delay"
          /\ UNCHANGED <<viaAuth, opening, verified>>
    /\ UNCHANGED <<negotiated, ready, streams, closed, pinRequired, revoker, dcOpen, toPeer,
                   clientVars>>

(* After pinFailDelay the failure is reported; the third one closes the    *)
(* data channel.                                                           *)
AuthFailed ==
    /\ handler = "delay"
    /\ SendToPeer(AuthResult(FALSE))
    /\ dcOpen' = (dcOpen /\ authFails < MaxAuthFails)
    /\ handler' = "idle"
    /\ UNCHANGED <<sessVars, viaAuth, opening, pinRequired, revoker, toListener, clientVars, verified>>

(* Mutant: ready goes out before the session is marked ready. *)
MutantNotifySendsReady ==
    /\ handler = "notify"
    /\ handler' = "mark"
    /\ SendToPeer(Ready(negotiated))
    /\ UNCHANGED <<sessVars, viaAuth, opening, pinRequired, revoker, dcOpen, toListener,
                   clientVars, verified>>

(* notifyHandlers: every handler's OnConnect, or the first error. *)
NotifyHandlers ==
    /\ handler = "notify"
    /\ \/ /\ handler' = "mark"
          /\ UNCHANGED toPeer
       \/ /\ handler' = "idle"
          /\ SendToPeer(Plain("error"))
    /\ UNCHANGED <<sessVars, viaAuth, opening, pinRequired, revoker, dcOpen, toListener,
                   clientVars, verified>>

(* authenticated and ready are set, then OnReady is invoked. *)
MarkReady ==
    /\ handler = "mark"
    /\ ready' = TRUE
    /\ handler' = IF viaAuth THEN "result" ELSE "ready"
    /\ UNCHANGED <<negotiated, authFails, streams, closed, viaAuth, opening,
                   pinRequired, revoker, dcOpen, toListener, toPeer, clientVars, verified>>

(* Mutant: nothing follows a successful auth_result. *)
MutantNoReadyAfterAuth ==
    /\ handler = "result"
    /\ SendToPeer(AuthResult(TRUE))
    /\ handler' = "idle"
    /\ UNCHANGED <<sessVars, viaAuth, opening, pinRequired, revoker, dcOpen, toListener,
                   clientVars, verified>>

(* A successful auth is answered before ready is sent. *)
SendAuthResult ==
    /\ handler = "result"
    /\ SendToPeer(AuthResult(TRUE))
    /\ handler' = "ready"
    /\ UNCHANGED <<sessVars, viaAuth, opening, pinRequired, revoker, dcOpen, toListener,
                   clientVars, verified>>

SendReady ==
    /\ handler = "ready"
    /\ SendToPeer(Ready(negotiated))
    /\ handler' = "idle"
    /\ UNCHANGED <<sessVars, viaAuth, opening, pinRequired, revoker, dcOpen, toListener,
                   clientVars, verified>>

(* handleStreamFrame: a SYN before the handshake, or of a type without a   *)
(* handler, is refused; a second SYN for a live id fails that stream;      *)
(* otherwise the stream is to be admitted.  The refusals themselves go out *)
(* on goroutines of their own and are left out: no handshake state depends *)
(* on them.                                                                *)
HandleSyn ==
    /\ Next0("syn")
    /\ ~closed
    /\ LET id == Head(toListener).id IN
       \/ /\ ready => id \notin DOMAIN streams
          /\ UNCHANGED <<streams, dispVars>>
       \/ /\ ready
          /\ id \in DOMAIN streams
          /\ streams' = [i \in DOMAIN streams \ {id} |-> streams[i]]
          /\ UNCHANGED dispVars
       \/ /\ ready
          /\ id \notin DOMAIN streams
          /\ handler' = "admit"
          /\ opening' = id
          /\ UNCHANGED <<streams, viaAuth>>
    /\ UNCHANGED <<negotiated, ready, authFails, closed, pinRequired, revoker, dcOpen, toPeer,
                   clientVars, verified>>

(* Mutant: closed is not looked at again under the lock that inserts. *)
MutantAdmitUnchecked ==
    /\ handler = "admit"
    /\ streams' = [i \in DOMAIN streams \cup {opening} |->
                     IF i = opening THEN negotiated >= 4 ELSE streams[i]]
    /\ handler' = "idle"
    /\ UNCHANGED <<negotiated, ready, authFails, closed, viaAuth, opening, pinRequired, revoker,
                   dcOpen, toListener, toPeer, clientVars, verified>>

(* The stream is inserted under the lock that Close takes, or not at all.  *)
AdmitStream ==
    /\ handler = "admit"
    /\ streams' = IF closed THEN streams
                  ELSE [i \in DOMAIN streams \cup {opening} |->
                          IF i = opening THEN negotiated >= 4 ELSE streams[i]]
    /\ handler' = "idle"
    /\ UNCHANGED <<negotiated, ready, authFails, closed, viaAuth, opening, pinRequired, revoker,
                   dcOpen, toListener, toPeer, clientVars, verified>>

(* A stream's worker is done with it: both directions closed, or it failed.*)
StreamEnds(id) ==
    /\ id \in DOMAIN streams
    /\ streams' = [i \in DOMAIN streams \ {id} |-> streams[i]]
    /\ UNCHANGED <<negotiated, ready, authFails, closed, dispVars, pinRequired, revoker, dcOpen,
                   toListener, toPeer, clientVars, verified>>

-----------------------------------------------------------------------------
(* The listener ends the session; the transport goes away.                 *)

(* Goodbye: the reason is sent, then Close stops the session. *)
GoodbyeSend ==
    /\ revoker = "idle"
    /\ SendToPeer(Plain("error"))
    /\ revoker' = "close"
    /\ UNCHANGED <<pinRequired, sessVars, dispVars, dcOpen, toListener, clientVars, verified>>

Close ==
    /\ revoker = "close"
    /\ closed' = TRUE
    /\ streams' = [id \in {} |-> FALSE]
    /\ revoker' = "drain"
    /\ UNCHANGED <<pinRequired, negotiated, ready, authFails, dispVars, dcOpen, toListener,
                   toPeer, clientVars, verified>>

(* WaitDrained has returned: the connection is closed. *)
DropConnection ==
    /\ revoker = "drain"
    /\ dcOpen' = FALSE
    /\ revoker' = "done"
    /\ UNCHANGED <<pinRequired, sessVars, dispVars, toListener, toPeer, clientVars, verified>>

(* The transport is lost, or the third wrong PIN closed the data channel:  *)
(* the peer's teardown closes the session.                                 *)
TransportLost ==
    /\ revoker = "idle"
    /\ dcOpen' = FALSE
    /\ revoker' = "close"
    /\ UNCHANGED <<pinRequired, sessVars, dispVars, toListener, toPeer, clientVars, verified>>

-----------------------------------------------------------------------------
(* The client's handshake.                                                 *)

ClientUnchanged ==
    UNCHANGED <<sessVars, dispVars, pinRequired, revoker, dcOpen, verified, nextStreamID, sends>>

(* recvControl: the next frame. *)
Received(type) ==
    /\ toPeer # <<>>
    /\ Head(toPeer).type = type
    /\ toPeer' = Tail(toPeer)

(* The first frame proves the listener's key; then connect is sent. *)
ClientVerify ==
    /\ client = "verify"
    /\ Received("verify_nonce_hash")
    /\ \/ /\ dcOpen
          /\ SendToListener(Connect(clientVersion))
          /\ client' = "wait"
       \/ /\ ~dcOpen   \* send connect fails
          /\ client' = "failed"
          /\ UNCHANGED toListener
    /\ UNCHANGED <<clientVersion, clientNegotiated, retry>>
    /\ ClientUnchanged

(* The prompt returns a PIN, which is sent, or an error, which aborts. *)
SendPIN ==
    \/ /\ dcOpen
       /\ \E right \in BOOLEAN : SendToListener(Auth(right))
       /\ retry' = retry + 1
       /\ UNCHANGED client
    \/ /\ client' = "failed"
       /\ UNCHANGED <<toListener, retry>>

ClientAuthRequired ==
    /\ client = "wait"
    /\ Received("auth_required")
    /\ SendPIN
    /\ UNCHANGED <<clientVersion, clientNegotiated>>
    /\ ClientUnchanged

ClientAuthResult ==
    /\ client = "wait"
    /\ Received("auth_result")
    /\ \/ /\ Head(toPeer).success
          /\ UNCHANGED <<client, toListener, retry>>
       \/ /\ ~Head(toPeer).success
          /\ retry >= MaxAuthFails
          /\ client' = "failed"
          /\ UNCHANGED <<toListener, retry>>
       \/ /\ ~Head(toPeer).success
          /\ retry < MaxAuthFails
          /\ SendPIN
    /\ UNCHANGED <<clientVersion, clientNegotiated>>
    /\ ClientUnchanged

(* Mutant: the client settles on its build's version. *)
MutantClientBuildVersion ==
    /\ client = "wait"
    /\ Received("ready")
    /\ client' = "ready"
    /\ clientNegotiated' = SWSPVersion
    /\ UNCHANGED <<toListener, clientVersion, retry>>
    /\ ClientUnchanged

(* setNegotiatedVersion: 0 means the highest both support; anything else   *)
(* must lie between 2 and that.                                            *)
ClientReady ==
    /\ client = "wait"
    /\ Received("ready")
    /\ LET announced == Head(toPeer).version
           highest == IF clientVersion < SWSPVersion THEN clientVersion ELSE SWSPVersion IN
       IF announced = 0 \/ announced \in 2..highest
       THEN /\ client' = "ready"
            /\ clientNegotiated' = IF announced = 0 THEN highest ELSE announced
       ELSE /\ client' = "failed"
            /\ UNCHANGED clientNegotiated
    /\ UNCHANGED <<toListener, clientVersion, retry>>
    /\ ClientUnchanged

(* An error ends the handshake; after ready it ends a session with flow    *)
(* control, the only kind whose dispatcher looks at control frames.        *)
ClientError ==
    /\ \/ /\ client = "wait"
          /\ client' = "failed"
       \/ /\ client = "ready"
          /\ client' = IF clientNegotiated >= 4 THEN "ended" ELSE "ready"
    /\ Received("error")
    /\ UNCHANGED <<toListener, clientVersion, clientNegotiated, retry>>
    /\ ClientUnchanged

(* A wait for a control frame, and the dispatcher of an established        *)
(* session, end with the data channel.  What was on its way is then lost.  *)
ClientSeesClose ==
    /\ ~dcOpen
    /\ \/ client \in {"verify", "wait"} /\ client' = "failed"
       \/ client = "ready" /\ client' = "ended"
    /\ UNCHANGED <<toListener, toPeer, clientVersion, clientNegotiated, retry>>
    /\ ClientUnchanged

(* A wait for a control frame may also time out. *)
ClientTimesOut ==
    /\ client \in {"verify", "wait"}
    /\ client' = "failed"
    /\ UNCHANGED <<toListener, toPeer, clientVersion, clientNegotiated, retry>>
    /\ ClientUnchanged

(* OpenStream and WriteSYN: ids are odd and never reused. *)
ClientOpens ==
    /\ client = "ready"
    /\ dcOpen
    /\ nextStreamID \in StreamIDs
    /\ nextStreamID' = nextStreamID + 2
    /\ SendToListener(Syn(nextStreamID))
    /\ UNCHANGED <<sessVars, dispVars, pinRequired, revoker, dcOpen, toPeer, client, clientVersion,
                   clientNegotiated, retry, sends, verified>>

(* A peer of kind "any". *)
AnySends ==
    /\ client = "any"
    /\ dcOpen
    /\ sends < MaxMessages
    /\ sends' = sends + 1
    /\ \E msg \in {Connect(v) : v \in Versions} \cup {Auth(r) : r \in BOOLEAN}
                  \cup {Syn(id) : id \in StreamIDs} : SendToListener(msg)
    /\ UNCHANGED <<sessVars, dispVars, pinRequired, revoker, dcOpen, toPeer, client,
                   clientVersion, clientNegotiated, retry, nextStreamID, verified>>

AnyReads ==
    /\ client = "any"
    /\ toPeer # <<>>
    /\ toPeer' = Tail(toPeer)
    /\ UNCHANGED <<sessVars, dispVars, pinRequired, revoker, dcOpen, toListener,
                   clientVars, verified>>

-----------------------------------------------------------------------------

ListenerStep ==
    \/ DropClosed
    \/ HandleConnect
    \/ HandleAuth
    \/ AuthFailed
    \/ NotifyHandlers
    \/ MarkReady
    \/ SendAuthResult
    \/ SendReady
    \/ HandleSyn
    \/ AdmitStream

RevokeStep == Close \/ DropConnection

ClientStep ==
    \/ ClientVerify
    \/ ClientAuthRequired
    \/ ClientAuthResult
    \/ ClientReady
    \/ ClientError
    \/ ClientSeesClose
    \/ AnyReads

Next ==
    \/ ListenerStep
    \/ RevokeStep
    \/ ClientStep
    \/ GoodbyeSend
    \/ TransportLost
    \/ ClientTimesOut
    \/ \E id \in StreamIDs : StreamEnds(id)
    \/ ClientOpens
    \/ AnySends

Spec == Init /\ [][Next]_vars

(* The dispatcher, a revocation once begun and the client's handshake loop *)
(* keep running; the PIN prompt returns.  No timeout and no loss is        *)
(* assumed to come to the rescue.                                          *)
FairSpec ==
    Spec /\ WF_vars(ListenerStep) /\ WF_vars(RevokeStep) /\ WF_vars(ClientStep)

-----------------------------------------------------------------------------
(* Properties.                                                             *)

(* The values each variable takes; the negotiated version is one both ends *)
(* know.                                                                   *)
TypeOK ==
    /\ pinRequired \in BOOLEAN
    /\ negotiated \in 0..SWSPVersion
    /\ ready \in BOOLEAN /\ closed \in BOOLEAN /\ viaAuth \in BOOLEAN
    /\ authFails \in Nat /\ retry \in Nat /\ nextStreamID \in Nat /\ sends \in Nat
    /\ DOMAIN streams \subseteq StreamIDs
    /\ \A id \in DOMAIN streams : streams[id] \in BOOLEAN
    /\ handler \in {"idle", "delay", "notify", "mark", "result", "ready", "admit"}
    /\ opening \in StreamIDs \cup {0}
    /\ revoker \in {"idle", "close", "drain", "done"}
    /\ dcOpen \in BOOLEAN /\ verified \in BOOLEAN
    /\ client \in {"verify", "wait", "ready", "failed", "ended", "any"}
    /\ clientNegotiated \in 0..SWSPVersion

(* With a PIN configured, no order of connect, auth and SYN frames makes   *)
(* the session ready or opens a stream before the right PIN was verified.  *)
PinGate == pinRequired /\ (ready \/ DOMAIN streams # {}) => verified

(* A stream admitted while Goodbye or teardown runs does not survive it:   *)
(* a closed session has no streams, and none appears later.                *)
NoStreamAfterClose == closed => DOMAIN streams = {}

(* What the comments on negotiatedVersion say: it is fixed before streams  *)
(* exist, so every live stream is under its transport semantics.           *)
VersionFixed == \A id \in DOMAIN streams : streams[id] = (negotiated >= 4)

(* Flow control is never switched under an open stream, however often a    *)
(* peer repeats connect: of any peer when there is no PIN, of the client,  *)
(* which never sends auth before connect, when there is one.               *)
FlowMatchesVersion == client # "any" \/ ~pinRequired => VersionFixed

(* When the client considers the session established, both ends hold the   *)
(* same version and the listener already admits streams: the client's      *)
(* first SYN can neither be refused as too early nor be misread.           *)
EstablishedTogether ==
    client = "ready" => ready /\ clientNegotiated = negotiated

(* The exchange never hangs: connect, auth_required, auth_result and ready *)
(* lead the client to an established or a refused session, with wrong PINs *)
(* and with a revocation at any point.                                     *)
HandshakeEnds ==
    client \in {"verify", "wait"} ~> client \in {"ready", "failed", "ended"}

=============================================================================
