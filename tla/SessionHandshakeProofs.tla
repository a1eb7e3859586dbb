---------------------- MODULE SessionHandshakeProofs ----------------------
(***************************************************************************)
(* What holds of the handshake for every set of versions and stream ids,   *)
(* with this repository's client or any other peer: the PIN gate, that a   *)
(* closed session keeps no stream, and that both ends hold the same        *)
(* version once the client takes the session for established.              *)
(***************************************************************************)
EXTENDS SessionHandshake, TLAPS

(* The dispatcher is past the PIN gate only after verification, and a      *)
(* stream is admitted, or live, only in a ready session.                   *)
Gate ==
    /\ pinRequired /\ (ready \/ handler \in {"notify", "mark"}) => verified
    /\ handler = "admit" => ready
    /\ DOMAIN streams # {} => ready

LEMMA InitGate == Init => Gate
BY DEF Init, Gate

(* No step of any actor, in any order, opens the gate. *)
LEMMA NextGate == Gate /\ [Next]_vars => Gate'
<1> SUFFICES ASSUME Gate, [Next]_vars PROVE Gate'
  OBVIOUS
<1> USE DEF Gate
<1>1. CASE DropClosed
  BY <1>1 DEF DropClosed, sessVars, dispVars
<1>2. CASE HandleConnect
  BY <1>2 DEF HandleConnect
<1>3. CASE HandleAuth
  BY <1>3 DEF HandleAuth, dispVars
<1>4. CASE AuthFailed
  BY <1>4 DEF AuthFailed, sessVars
<1>5. CASE NotifyHandlers
  BY <1>5 DEF NotifyHandlers, sessVars
<1>6. CASE MarkReady
  BY <1>6 DEF MarkReady
<1>7. CASE SendAuthResult
  BY <1>7 DEF SendAuthResult, sessVars
<1>8. CASE SendReady
  BY <1>8 DEF SendReady, sessVars
<1>9. CASE HandleSyn
  BY <1>9 DEF HandleSyn, dispVars
<1>10. CASE AdmitStream
  BY <1>10 DEF AdmitStream
<1>11. CASE \E id \in StreamIDs : StreamEnds(id)
  BY <1>11 DEF StreamEnds, dispVars
<1>12. CASE Close
  BY <1>12 DEF Close, dispVars
<1>13. CASE DropConnection \/ GoodbyeSend \/ TransportLost
  BY <1>13 DEF DropConnection, GoodbyeSend, TransportLost, sessVars, dispVars
<1>14. CASE ClientStep
  BY <1>14 DEF ClientStep, ClientVerify, ClientAuthRequired, ClientAuthResult, ClientReady,
     ClientError, ClientSeesClose, AnyReads, ClientUnchanged, sessVars, dispVars
<1>15. CASE ClientOpens \/ AnySends \/ ClientTimesOut
  BY <1>15 DEF ClientOpens, AnySends, ClientTimesOut, ClientUnchanged, sessVars, dispVars
<1>16. CASE UNCHANGED vars
  BY <1>16 DEF vars, sessVars, dispVars
<1>17. QED
  BY <1>1, <1>2, <1>3, <1>4, <1>5, <1>6, <1>7, <1>8, <1>9, <1>10, <1>11, <1>12,
     <1>13, <1>14, <1>15, <1>16 DEF Next, ListenerStep, RevokeStep

(* The PIN gate of handleConnect, handleAuth and handleStreamFrame: with a *)
(* PIN, no order of frames makes the session ready or opens a stream       *)
(* before the right PIN was verified, whoever the peer is.                 *)
THEOREM PinGateHolds == Spec => []PinGate
<1>1. Gate => PinGate
  BY DEF Gate, PinGate
<1>2. QED
  BY InitGate, NextGate, <1>1, PTL DEF Spec

(* Close against handleStreamFrame: the stream being admitted while the    *)
(* session closes is not inserted, so a closed session has no streams.     *)
THEOREM ClosedHasNoStreams == Spec => []NoStreamAfterClose
<1>1. Init => NoStreamAfterClose
  BY DEF Init, NoStreamAfterClose
<1>2. NoStreamAfterClose /\ [Next]_vars => NoStreamAfterClose'
  <2> SUFFICES ASSUME NoStreamAfterClose, [Next]_vars PROVE NoStreamAfterClose'
    OBVIOUS
  <2> USE DEF NoStreamAfterClose
  <2>1. CASE ListenerStep
    <3>1. CASE HandleSyn
      BY <3>1 DEF HandleSyn
    <3>2. CASE AdmitStream
      BY <3>2 DEF AdmitStream
    <3>3. CASE HandleConnect \/ HandleAuth \/ MarkReady
      BY <3>3 DEF HandleConnect, HandleAuth, MarkReady
    <3>4. CASE DropClosed \/ AuthFailed \/ NotifyHandlers \/ SendAuthResult \/ SendReady
      BY <3>4 DEF DropClosed, AuthFailed, NotifyHandlers, SendAuthResult, SendReady, sessVars
    <3>5. QED
      BY <2>1, <3>1, <3>2, <3>3, <3>4 DEF ListenerStep
  <2>2. CASE \E id \in StreamIDs : StreamEnds(id)
    BY <2>2 DEF StreamEnds
  <2>3. CASE Close
    BY <2>3 DEF Close
  <2>4. CASE DropConnection \/ GoodbyeSend \/ TransportLost
    BY <2>4 DEF DropConnection, GoodbyeSend, TransportLost, sessVars
  <2>5. CASE ClientStep
    BY <2>5 DEF ClientStep, ClientVerify, ClientAuthRequired, ClientAuthResult, ClientReady,
       ClientError, ClientSeesClose, AnyReads, ClientUnchanged, sessVars
  <2>6. CASE ClientOpens \/ AnySends \/ ClientTimesOut
    BY <2>6 DEF ClientOpens, AnySends, ClientTimesOut, ClientUnchanged, sessVars
  <2>7. CASE UNCHANGED vars
    BY <2>7 DEF vars, sessVars
  <2>8. QED
    BY <2>1, <2>2, <2>3, <2>4, <2>5, <2>6, <2>7 DEF Next, RevokeStep
<1>3. QED
  BY <1>1, <1>2, PTL DEF Spec

(* What is on a channel. *)
Frames(q) == {q[i] : i \in 1..Len(q)}

FramesUp == {Connect(v) : v \in Versions} \cup {Auth(r) : r \in BOOLEAN} \cup {Syn(id) : id \in StreamIDs}
FramesDown ==
    {Plain(t) : t \in {"verify_nonce_hash", "auth_required", "error"}}
    \cup {AuthResult(b) : b \in BOOLEAN} \cup {Ready(v) : v \in 0..SWSPVersion}

(* The peers whose first frame past the gate is a connect. *)
ConnectsFirst == client # "any" \/ ~pinRequired

Channels ==
    /\ toListener \in Seq(FramesUp) /\ toPeer \in Seq(FramesDown)
    /\ clientVersion \in Nat /\ (client # "any" => clientVersion \in Versions)
    /\ negotiated \in 0..SWSPVersion

(* The version is fixed before the listener goes past the gate. *)
VersionFirst ==
    /\ ConnectsFirst /\ (ready \/ handler \in {"notify", "mark"}) => negotiated # 0
    /\ handler \in {"result", "ready", "admit"} => ready
    /\ DOMAIN streams # {} => ready
    /\ ConnectsFirst => VersionFixed

(* What the client has been told, or is about to be told, is true. *)
Told ==
    client # "any" =>
        /\ handler = "delay" => negotiated # 0
        /\ \A m \in Frames(toListener) : m.type = "auth" => negotiated # 0
        /\ \A m \in Frames(toPeer) :
              /\ m.type \in {"auth_required", "auth_result"} => negotiated # 0
              /\ m.type = "ready" => ready /\ m.version = negotiated
        /\ client = "ready" => ready /\ clientNegotiated = negotiated

Agreement == Channels /\ VersionFirst /\ Told

(* Taking a frame off a channel and sending one. *)
LEMMA TailFrames ==
    ASSUME NEW S, NEW q \in Seq(S), q # <<>>
    PROVE  /\ Tail(q) \in Seq(S) /\ Head(q) \in S /\ Head(q) \in Frames(q)
           /\ Frames(Tail(q)) \subseteq Frames(q)
<1>1. Len(q) \in Nat /\ Len(q) > 0 /\ Head(q) = q[1] /\ Head(q) \in S /\ Tail(q) \in Seq(S)
  OBVIOUS
<1>2. Len(Tail(q)) = Len(q) - 1 /\ \A i \in 1..Len(q) - 1 : Tail(q)[i] = q[i + 1]
  BY <1>1
<1>3. \A i \in 1..Len(q) - 1 : i + 1 \in 1..Len(q)
  BY <1>1
<1>4. 1 \in 1..Len(q)
  BY <1>1
<1> QED
  BY <1>1, <1>2, <1>3, <1>4 DEF Frames

LEMMA AppendFrames ==
    ASSUME NEW S, NEW q \in Seq(S), NEW m \in S
    PROVE  Append(q, m) \in Seq(S) /\ Frames(Append(q, m)) \subseteq Frames(q) \cup {m}
<1>1. Append(q, m) \in Seq(S) /\ Len(Append(q, m)) = Len(q) + 1 /\ Len(q) \in Nat
  OBVIOUS
<1>2. \A i \in 1..Len(q) + 1 : \/ i \in 1..Len(q) /\ Append(q, m)[i] = q[i]
                               \/ Append(q, m)[i] = m
  BY <1>1
<1> QED
  BY <1>1, <1>2 DEF Frames

(* A step that leaves the session alone: the client's. *)
SessionSame == UNCHANGED <<sessVars, dispVars, pinRequired>>

LEMMA VersionFirstSame ==
    ASSUME VersionFirst, SessionSame, client = "any" <=> client' = "any"
    PROVE  VersionFirst'
  BY DEF VersionFirst, SessionSame, ConnectsFirst, VersionFixed, sessVars, dispVars

(* A channel shrinks, stays or gains a frame that may be sent. *)
LEMMA UpSends ==
    ASSUME Channels, NEW m \in FramesUp, SendToListener(m)
    PROVE  toListener' \in Seq(FramesUp) /\ Frames(toListener') \subseteq Frames(toListener) \cup {m}
  BY AppendFrames DEF Channels, SendToListener

LEMMA DownSends ==
    ASSUME Channels, NEW m \in FramesDown, SendToPeer(m)
    PROVE  toPeer' \in Seq(FramesDown) /\ Frames(toPeer') \subseteq Frames(toPeer) \cup {m}
  BY AppendFrames DEF Channels, SendToPeer

LEMMA UpTakes ==
    ASSUME Channels, toListener # <<>>, toListener' = Tail(toListener)
    PROVE  /\ toListener' \in Seq(FramesUp) /\ Frames(toListener') \subseteq Frames(toListener)
           /\ Head(toListener) \in FramesUp /\ Head(toListener) \in Frames(toListener)
  BY TailFrames DEF Channels

LEMMA DownTakes ==
    ASSUME Channels, toPeer # <<>>, toPeer' = Tail(toPeer)
    PROVE  /\ toPeer' \in Seq(FramesDown) /\ Frames(toPeer') \subseteq Frames(toPeer)
           /\ Head(toPeer) \in FramesDown /\ Head(toPeer) \in Frames(toPeer)
  BY TailFrames DEF Channels

LEMMA InitAgreement == Init => Agreement
<1> SUFFICES ASSUME Init PROVE Agreement
  OBVIOUS
<1>1. Plain("verify_nonce_hash") \in FramesDown
  BY DEF FramesDown
<1>2. toPeer \in Seq(FramesDown) /\ Frames(toPeer) = {Plain("verify_nonce_hash")}
  BY <1>1 DEF Init, Frames
<1>3. toListener \in Seq(FramesUp) /\ Frames(toListener) = {}
  BY DEF Init, Frames
<1>4. Channels
  <2>1. PICK kind \in PeerKinds :
          \/ kind = "client" /\ client = "verify" /\ clientVersion \in Versions \ {0}
          \/ kind = "any" /\ client = "any" /\ clientVersion = 0
    BY DEF Init
  <2>2. clientVersion \in Nat /\ (client # "any" => clientVersion \in Versions)
    <3>1. \A v \in Versions : v \in Nat
      BY HandshakeAssumption
    <3>2. clientVersion = 0 \/ clientVersion \in Versions
      BY <2>1
    <3> QED
      BY <2>1, <3>1, <3>2
  <2> QED
    BY <1>2, <1>3, <2>2 DEF Init, Channels, SWSPVersion
<1>5. VersionFirst
  BY DEF Init, VersionFirst, VersionFixed
<1>6. Told
  BY <1>2, <1>3 DEF Init, Told, Plain
<1> QED
  BY <1>4, <1>5, <1>6 DEF Agreement

LEMMA Negotiates == \A v \in Nat : NegotiateSWSPVersion(v) \in 1..SWSPVersion
  BY DEF NegotiateSWSPVersion, SWSPVersion

(* The listener's dispatcher. *)
LEMMA ListenerAgreement ==
    ASSUME Agreement, ListenerStep
    PROVE  Agreement'
<1> USE DEF Agreement
<1>0. UNCHANGED <<client, clientVersion, clientNegotiated, pinRequired>>
  BY DEF ListenerStep, DropClosed, HandleConnect, HandleAuth, AuthFailed, NotifyHandlers,
         MarkReady, SendAuthResult, SendReady, HandleSyn, AdmitStream, clientVars
<1>1. CASE DropClosed
  <2>1. toListener' \in Seq(FramesUp) /\ Frames(toListener') \subseteq Frames(toListener)
        /\ UNCHANGED <<sessVars, dispVars, toPeer>>
    BY <1>1, UpTakes DEF DropClosed
  <2>2. Channels' /\ VersionFirst'
    BY <1>0, <2>1, VersionFirstSame DEF Channels, SessionSame, sessVars
  <2>3. Told'
    BY <1>0, <2>1 DEF Told, sessVars, dispVars
  <2> QED
    BY <2>2, <2>3
<1>2. CASE HandleConnect
  <2>1. /\ toListener' \in Seq(FramesUp) /\ Frames(toListener') \subseteq Frames(toListener)
        /\ Head(toListener) \in FramesUp
    BY <1>2, UpTakes DEF HandleConnect, Next0
  <2>2. Head(toListener).version \in Nat
    BY <1>2, <2>1, HandshakeAssumption DEF HandleConnect, Next0, FramesUp, Connect, Auth, Syn
  <2>3. negotiated' \in 1..SWSPVersion /\ (negotiated # 0 => negotiated' = negotiated)
    BY <1>2, <2>2, Negotiates DEF HandleConnect, Channels, SWSPVersion
  <2>4. /\ toPeer' \in Seq(FramesDown)
        /\ Frames(toPeer') \subseteq Frames(toPeer) \cup {Plain("auth_required")}
    <3>1. Plain("auth_required") \in FramesDown
      BY DEF FramesDown
    <3>2. CASE SendToPeer(Plain("auth_required"))
      BY <3>1, <3>2, DownSends
    <3>3. CASE toPeer' = toPeer
      BY <3>3 DEF Channels
    <3> QED
      BY <1>2, <3>2, <3>3 DEF HandleConnect
  <2>5. UNCHANGED <<ready, streams>> /\ handler = "idle" /\ handler' \in {"idle", "notify"}
    BY <1>2 DEF HandleConnect, Next0
  <2>6. Channels'
    BY <1>0, <2>1, <2>3, <2>4 DEF Channels, SWSPVersion
  <2>7. VersionFirst'
    BY <1>0, <2>3, <2>5 DEF VersionFirst, ConnectsFirst, VersionFixed
  <2>8. Told'
    <3>1. negotiated' # 0
      BY <2>3 DEF SWSPVersion
    <3>2. \A m \in Frames(toPeer') : m.type = "ready" => m \in Frames(toPeer)
      BY <2>4 DEF Plain
    <3>3. client # "any" /\ (client = "ready" \/ \E m \in Frames(toPeer) : m.type = "ready")
          => negotiated' = negotiated
      BY <2>3 DEF Told, VersionFirst, ConnectsFirst
    <3> QED
      BY <1>0, <2>5, <3>1, <3>2, <3>3 DEF Told
  <2> QED
    BY <2>6, <2>7, <2>8
<1>3. CASE HandleAuth
  <2>1. /\ toListener' \in Seq(FramesUp) /\ Frames(toListener') \subseteq Frames(toListener)
        /\ Head(toListener) \in Frames(toListener) /\ Head(toListener).type = "auth"
    BY <1>3, UpTakes DEF HandleAuth, Next0
  <2>2. UNCHANGED <<negotiated, ready, streams, toPeer>>
        /\ (handler' = handler \/ (pinRequired /\ handler' \in {"notify", "delay"}))
    BY <1>3 DEF HandleAuth, dispVars
  <2>3. client # "any" => negotiated # 0
    BY <2>1 DEF Told
  <2>4. Channels'
    BY <1>0, <2>1, <2>2 DEF Channels
  <2>5. VersionFirst'
    BY <1>0, <2>2, <2>3 DEF VersionFirst, ConnectsFirst, VersionFixed
  <2>6. Told'
    BY <1>0, <2>1, <2>2, <2>3 DEF Told
  <2> QED
    BY <2>4, <2>5, <2>6
<1>4. CASE AuthFailed
  <2>1. AuthResult(FALSE) \in FramesDown
    BY DEF FramesDown
  <2>2. /\ toPeer' \in Seq(FramesDown)
        /\ Frames(toPeer') \subseteq Frames(toPeer) \cup {AuthResult(FALSE)}
    BY <1>4, <2>1, DownSends DEF AuthFailed
  <2>3. UNCHANGED <<negotiated, ready, streams, toListener>> /\ handler = "delay" /\ handler' = "idle"
    BY <1>4 DEF AuthFailed, sessVars
  <2>4. Channels' /\ VersionFirst'
    BY <1>0, <2>2, <2>3 DEF Channels, VersionFirst, ConnectsFirst, VersionFixed
  <2>5. Told'
    BY <1>0, <2>2, <2>3 DEF Told, AuthResult
  <2> QED
    BY <2>4, <2>5
<1>5. CASE NotifyHandlers
  <2>1. Plain("error") \in FramesDown
    BY DEF FramesDown
  <2>2. /\ toPeer' \in Seq(FramesDown)
        /\ Frames(toPeer') \subseteq Frames(toPeer) \cup {Plain("error")}
    <3>1. CASE SendToPeer(Plain("error"))
      BY <2>1, <3>1, DownSends
    <3>2. CASE toPeer' = toPeer
      BY <3>2 DEF Channels
    <3> QED
      BY <1>5, <3>1, <3>2 DEF NotifyHandlers
  <2>3. UNCHANGED <<negotiated, ready, streams, toListener>>
        /\ handler = "notify" /\ handler' \in {"idle", "mark"}
    BY <1>5 DEF NotifyHandlers, sessVars
  <2>4. Channels' /\ VersionFirst'
    BY <1>0, <2>2, <2>3 DEF Channels, VersionFirst, ConnectsFirst, VersionFixed
  <2>5. Told'
    BY <1>0, <2>2, <2>3 DEF Told, Plain
  <2> QED
    BY <2>4, <2>5
<1>6. CASE MarkReady
  <2>1. UNCHANGED <<negotiated, streams, toListener, toPeer>> /\ ready'
        /\ handler = "mark" /\ handler' \in {"result", "ready"}
    BY <1>6 DEF MarkReady
  <2>2. Channels' /\ VersionFirst'
    BY <1>0, <2>1 DEF Channels, VersionFirst, ConnectsFirst, VersionFixed
  <2>3. Told'
    BY <1>0, <2>1 DEF Told
  <2> QED
    BY <2>2, <2>3
<1>7. CASE SendAuthResult
  <2>1. AuthResult(TRUE) \in FramesDown
    BY DEF FramesDown
  <2>2. /\ toPeer' \in Seq(FramesDown)
        /\ Frames(toPeer') \subseteq Frames(toPeer) \cup {AuthResult(TRUE)}
    BY <1>7, <2>1, DownSends DEF SendAuthResult
  <2>3. UNCHANGED <<negotiated, ready, streams, toListener>> /\ handler = "result" /\ handler' = "ready"
    BY <1>7 DEF SendAuthResult, sessVars
  <2>4. Channels' /\ VersionFirst'
    BY <1>0, <2>2, <2>3 DEF Channels, VersionFirst, ConnectsFirst, VersionFixed
  <2>5. client # "any" => negotiated # 0
    BY <2>3 DEF VersionFirst, ConnectsFirst
  <2>6. Told'
    BY <1>0, <2>2, <2>3, <2>5 DEF Told, AuthResult
  <2> QED
    BY <2>4, <2>6
<1>8. CASE SendReady
  <2>1. Ready(negotiated) \in FramesDown
    BY DEF FramesDown, Channels
  <2>2. /\ toPeer' \in Seq(FramesDown)
        /\ Frames(toPeer') \subseteq Frames(toPeer) \cup {Ready(negotiated)}
    BY <1>8, <2>1, DownSends DEF SendReady
  <2>3. UNCHANGED <<negotiated, ready, streams, toListener>> /\ handler = "ready" /\ handler' = "idle"
    BY <1>8 DEF SendReady, sessVars
  <2>4. Channels' /\ VersionFirst'
    BY <1>0, <2>2, <2>3 DEF Channels, VersionFirst, ConnectsFirst, VersionFixed
  <2>5. ready
    BY <2>3 DEF VersionFirst
  <2>6. Told'
    BY <1>0, <2>2, <2>3, <2>5 DEF Told, Ready
  <2> QED
    BY <2>4, <2>6
<1>9. CASE HandleSyn
  <2>1. toListener' \in Seq(FramesUp) /\ Frames(toListener') \subseteq Frames(toListener)
    BY <1>9, UpTakes DEF HandleSyn, Next0
  <2>2. UNCHANGED <<negotiated, ready, toPeer>> /\ handler = "idle" /\ handler' \in {"idle", "admit"}
        /\ (handler' = "admit" => ready)
    BY <1>9 DEF HandleSyn, dispVars, Next0
  <2>3. /\ DOMAIN streams' \subseteq DOMAIN streams
        /\ \A id \in DOMAIN streams' : streams'[id] = streams[id]
    BY <1>9 DEF HandleSyn
  <2>4. Channels' /\ VersionFirst'
    BY <1>0, <2>1, <2>2, <2>3 DEF Channels, VersionFirst, ConnectsFirst, VersionFixed
  <2>5. Told'
    BY <1>0, <2>1, <2>2 DEF Told
  <2> QED
    BY <2>4, <2>5
<1>10. CASE AdmitStream
  <2>1. UNCHANGED <<negotiated, ready, toPeer, toListener>> /\ handler = "admit" /\ handler' = "idle"
    BY <1>10 DEF AdmitStream
  <2>2. \A id \in DOMAIN streams' : streams'[id] = (negotiated >= 4)
                                    \/ (id \in DOMAIN streams /\ streams'[id] = streams[id])
    BY <1>10 DEF AdmitStream
  <2>3. Channels' /\ VersionFirst'
    BY <1>0, <2>1, <2>2 DEF Channels, VersionFirst, ConnectsFirst, VersionFixed
  <2>4. Told'
    BY <1>0, <2>1 DEF Told
  <2> QED
    BY <2>3, <2>4
<1> QED
  BY <1>1, <1>2, <1>3, <1>4, <1>5, <1>6, <1>7, <1>8, <1>9, <1>10 DEF ListenerStep

(* The client, and a peer of any kind. *)
LEMMA PeerAgreement ==
    ASSUME Agreement, ClientStep \/ ClientTimesOut \/ ClientOpens \/ AnySends
    PROVE  Agreement'
<1> USE DEF Agreement
<1>0. SessionSame /\ clientVersion' = clientVersion /\ (client = "any" <=> client' = "any")
  BY DEF ClientStep, ClientVerify, ClientAuthRequired, ClientAuthResult, ClientReady, ClientError,
         ClientSeesClose, AnyReads, ClientTimesOut, ClientOpens, AnySends, ClientUnchanged,
         SendPIN, SessionSame, clientVars
<1>1. VersionFirst'
  BY <1>0, VersionFirstSame
<1>2. ASSUME toListener' \in Seq(FramesUp), toPeer' \in Seq(FramesDown),
             Frames(toPeer') \subseteq Frames(toPeer),
             \A m \in Frames(toListener') :
                m \in Frames(toListener) \/ m.type # "auth" \/ client = "any" \/ negotiated # 0,
             \/ client' = client /\ clientNegotiated' = clientNegotiated
             \/ client' \in {"wait", "failed", "ended"}
             \/ client' = "ready" /\ ready /\ clientNegotiated' = negotiated
      PROVE  Agreement'
  <2>1. Channels'
    BY <1>0, <1>2 DEF Channels, SessionSame, sessVars
  <2>2. Told'
    BY <1>0, <1>2 DEF Told, SessionSame, sessVars, dispVars
  <2> QED
    BY <1>1, <2>1, <2>2
<1>3. toListener \in Seq(FramesUp) /\ toPeer \in Seq(FramesDown)
  BY DEF Channels
<1>4. ASSUME client # "any", SendPIN, negotiated # 0
      PROVE  toListener' \in Seq(FramesUp) /\ (client' = client \/ client' = "failed")
  <2>1. CASE client' = "failed" /\ UNCHANGED toListener
    BY <1>3, <2>1
  <2>2. ASSUME NEW right \in BOOLEAN, SendToListener(Auth(right)), client' = client
        PROVE  toListener' \in Seq(FramesUp) /\ (client' = client \/ client' = "failed")
    <3>1. Auth(right) \in FramesUp
      BY DEF FramesUp
    <3> QED
      BY <2>2, <3>1, UpSends
  <2> QED
    BY <1>4, <2>1, <2>2 DEF SendPIN
<1>5. ASSUME NEW type, Received(type)
      PROVE  /\ toPeer' \in Seq(FramesDown) /\ Frames(toPeer') \subseteq Frames(toPeer)
             /\ Head(toPeer) \in Frames(toPeer) /\ Head(toPeer).type = type
  BY <1>5, DownTakes DEF Received
<1>6. CASE ClientVerify
  <2>1. CASE toListener' = toListener
    BY <1>2, <1>3, <1>5, <1>6, <2>1 DEF ClientVerify
  <2>2. CASE SendToListener(Connect(clientVersion))
    <3>1. Connect(clientVersion) \in FramesUp
      BY <1>6 DEF FramesUp, Channels, ClientVerify
    <3>2. Connect(clientVersion).type # "auth"
      BY DEF Connect
    <3>3. /\ toListener' \in Seq(FramesUp)
          /\ Frames(toListener') \subseteq Frames(toListener) \cup {Connect(clientVersion)}
      BY <2>2, <3>1, UpSends
    <3>4. client' \in {"wait", "failed"}
      BY <1>6 DEF ClientVerify
    <3>5. toPeer' \in Seq(FramesDown) /\ Frames(toPeer') \subseteq Frames(toPeer)
      BY <1>5, <1>6 DEF ClientVerify
    <3> QED
      BY <1>2, <3>2, <3>3, <3>4, <3>5
  <2> QED
    BY <1>6, <2>1, <2>2 DEF ClientVerify
<1>7. CASE ClientAuthRequired
  <2>1. negotiated # 0 /\ client = "wait" /\ toPeer' \in Seq(FramesDown)
        /\ Frames(toPeer') \subseteq Frames(toPeer)
    BY <1>5, <1>7 DEF ClientAuthRequired, Told
  <2>2. toListener' \in Seq(FramesUp) /\ (client' = client \/ client' = "failed")
    BY <1>4, <1>7, <2>1 DEF ClientAuthRequired
  <2>3. clientNegotiated' = clientNegotiated
    BY <1>7 DEF ClientAuthRequired
  <2> QED
    BY <1>2, <2>1, <2>2, <2>3
<1>8. CASE ClientAuthResult
  <2>1. negotiated # 0 /\ client = "wait" /\ toPeer' \in Seq(FramesDown)
        /\ Frames(toPeer') \subseteq Frames(toPeer)
    BY <1>5, <1>8 DEF ClientAuthResult, Told
  <2>2. toListener' \in Seq(FramesUp) /\ (client' = client \/ client' = "failed")
    <3>1. CASE SendPIN
      BY <1>4, <2>1, <3>1
    <3>2. CASE toListener' = toListener /\ (client' = client \/ client' = "failed")
      BY <1>3, <3>2
    <3> QED
      BY <1>8, <3>1, <3>2 DEF ClientAuthResult
  <2>3. clientNegotiated' = clientNegotiated
    BY <1>8 DEF ClientAuthResult
  <2> QED
    BY <1>2, <2>1, <2>2, <2>3
<1>9. CASE ClientReady
  <2>1. client = "wait" /\ toPeer' \in Seq(FramesDown) /\ Frames(toPeer') \subseteq Frames(toPeer)
        /\ Head(toPeer) \in Frames(toPeer) /\ Head(toPeer).type = "ready"
    BY <1>5, <1>9 DEF ClientReady
  <2>2. ready /\ Head(toPeer).version = negotiated
    BY <2>1 DEF Told
  <2>3. negotiated # 0
    BY <2>1, <2>2 DEF VersionFirst, ConnectsFirst
  <2>4. client' = "failed" \/ (client' = "ready" /\ clientNegotiated' = negotiated)
    BY <1>9, <2>2, <2>3 DEF ClientReady
  <2>5. toListener' = toListener
    BY <1>9 DEF ClientReady
  <2> QED
    BY <1>2, <1>3, <2>1, <2>2, <2>4, <2>5
<1>10. CASE ClientError
  <2>1. /\ toPeer' \in Seq(FramesDown) /\ Frames(toPeer') \subseteq Frames(toPeer)
        /\ UNCHANGED <<toListener, clientNegotiated>>
        /\ client' \in {"failed", "ended"} \/ client' = client
    BY <1>5, <1>10 DEF ClientError
  <2> QED
    BY <1>2, <1>3, <2>1
<1>11. CASE ClientSeesClose \/ ClientTimesOut
  <2>1. UNCHANGED <<toListener, toPeer>> /\ client' \in {"failed", "ended"}
    BY <1>11 DEF ClientSeesClose, ClientTimesOut
  <2> QED
    BY <1>2, <1>3, <2>1
<1>12. CASE AnyReads
  <2>1. toPeer' \in Seq(FramesDown) /\ Frames(toPeer') \subseteq Frames(toPeer)
    BY <1>12, DownTakes DEF AnyReads
  <2>2. UNCHANGED <<toListener, client, clientNegotiated>>
    BY <1>12 DEF AnyReads, clientVars
  <2> QED
    BY <1>2, <1>3, <2>1, <2>2
<1>13. CASE ClientOpens
  <2>1. Syn(nextStreamID) \in FramesUp /\ Syn(nextStreamID).type # "auth"
    BY <1>13 DEF ClientOpens, FramesUp, Syn
  <2>2. /\ toListener' \in Seq(FramesUp)
        /\ Frames(toListener') \subseteq Frames(toListener) \cup {Syn(nextStreamID)}
    BY <1>13, <2>1, UpSends DEF ClientOpens
  <2>3. UNCHANGED <<toPeer, client, clientNegotiated>>
    BY <1>13 DEF ClientOpens
  <2> QED
    BY <1>2, <1>3, <2>1, <2>2, <2>3
<1>14. CASE AnySends
  <2>1. PICK msg \in FramesUp : SendToListener(msg)
    BY <1>14 DEF AnySends, FramesUp
  <2>2. toListener' \in Seq(FramesUp)
    BY <2>1, UpSends
  <2>3. client = "any" /\ UNCHANGED <<toPeer, client, clientNegotiated>>
    BY <1>14 DEF AnySends
  <2> QED
    BY <1>2, <1>3, <2>2, <2>3
<1> QED
  BY <1>6, <1>7, <1>8, <1>9, <1>10, <1>11, <1>12, <1>13, <1>14 DEF ClientStep

(* The listener ending the session, a stream ending, the transport. *)
LEMMA RevokeAgreement ==
    ASSUME Agreement,
           \/ RevokeStep \/ GoodbyeSend \/ TransportLost
           \/ \E id \in StreamIDs : StreamEnds(id)
           \/ UNCHANGED vars
    PROVE  Agreement'
<1> USE DEF Agreement
<1>1. /\ UNCHANGED <<client, clientVersion, clientNegotiated, pinRequired, negotiated, ready, handler,
                     toListener>>
      /\ DOMAIN streams' \subseteq DOMAIN streams
      /\ \A id \in DOMAIN streams' : streams'[id] = streams[id]
  BY DEF RevokeStep, Close, DropConnection, GoodbyeSend, TransportLost, StreamEnds, vars,
         sessVars, dispVars, clientVars
<1>2. /\ toPeer' \in Seq(FramesDown)
      /\ Frames(toPeer') \subseteq Frames(toPeer) \cup {Plain("error")}
  <2>1. Plain("error") \in FramesDown
    BY DEF FramesDown
  <2>2. CASE SendToPeer(Plain("error"))
    BY <2>1, <2>2, DownSends
  <2>3. CASE toPeer' = toPeer
    BY <2>3 DEF Channels
  <2> QED
    BY <2>2, <2>3 DEF RevokeStep, Close, DropConnection, GoodbyeSend, TransportLost, StreamEnds, vars
<1>3. Channels'
  BY <1>1, <1>2 DEF Channels
<1>4. VersionFirst'
  BY <1>1 DEF VersionFirst, ConnectsFirst, VersionFixed
<1>5. Told'
  BY <1>1, <1>2 DEF Told, Plain
<1> QED
  BY <1>3, <1>4, <1>5

(* Agreement holds in every reachable state, whoever the peer is and       *)
(* whenever the session is revoked or the transport lost.                  *)
THEOREM AlwaysAgreement == Spec => []Agreement
<1>1. Agreement /\ [Next]_vars => Agreement'
  BY ListenerAgreement, PeerAgreement, RevokeAgreement DEF Next
<1> QED
  BY InitAgreement, <1>1, PTL DEF Spec

(* setNegotiatedVersion against handleConnect: when the client takes the   *)
(* session for established the listener is ready and both ends hold the    *)
(* same version, whichever versions the builds announce, with and without  *)
(* a PIN and after any number of wrong ones.                               *)
THEOREM EndsAgree == Spec => []EstablishedTogether
<1>1. Agreement => EstablishedTogether
  BY DEF Agreement, Told, EstablishedTogether
<1> QED
  BY AlwaysAgreement, <1>1, PTL

(* The comments on negotiatedVersion: it is fixed before streams exist.    *)
(* For every peer when there is no PIN, and for this repository's client   *)
(* when there is one, no repeated connect switches flow control under an   *)
(* open stream.                                                            *)
THEOREM FlowIsNeverSwitched == Spec => []FlowMatchesVersion
<1>1. Agreement => FlowMatchesVersion
  BY DEF Agreement, VersionFirst, ConnectsFirst, FlowMatchesVersion
<1> QED
  BY AlwaysAgreement, <1>1, PTL

-----------------------------------------------------------------------------

(* The SYN being admitted is one that was sent. *)
Typed == TypeOK /\ (handler = "admit" => opening \in StreamIDs)

LEMMA TypedListener ==
    ASSUME Typed, Channels, ListenerStep PROVE Typed'
<1>1. CASE HandleConnect
  <2>1. toListener # <<>> /\ Head(toListener).type = "connect"
    BY <1>1 DEF HandleConnect, Next0
  <2>2. Head(toListener) \in FramesUp
    BY <2>1, TailFrames DEF Channels
  <2>3. Head(toListener).version \in Nat
    BY <2>1, <2>2, HandshakeAssumption DEF FramesUp, Connect, Auth, Syn
  <2>4. negotiated' \in 0..SWSPVersion
    BY <1>1, <2>3 DEF HandleConnect, NegotiateSWSPVersion, SWSPVersion, Typed, TypeOK
  <2>5. handler' \in {handler, "notify"} /\ viaAuth' \in {viaAuth, FALSE}
    BY <1>1 DEF HandleConnect
  <2>6. UNCHANGED <<ready, authFails, streams, closed, opening, pinRequired, revoker, dcOpen,
                    clientVars, verified>>
    BY <1>1 DEF HandleConnect
  <2>7. handler' = "admit" => opening \in StreamIDs
    BY <2>5 DEF Typed
  <2>8. viaAuth' \in BOOLEAN
    BY <2>5 DEF Typed, TypeOK
  <2> QED
    BY <2>4, <2>5, <2>6, <2>7, <2>8 DEF Typed, TypeOK, clientVars
<1>2. CASE HandleAuth
  <2>1. authFails' \in {authFails, authFails + 1}
    BY <1>2 DEF HandleAuth
  <2>2. authFails' \in Nat
    BY <2>1 DEF Typed, TypeOK
  <2>3. /\ handler' \in {handler, "notify", "delay"} /\ viaAuth' \in {viaAuth, TRUE}
        /\ verified' \in {verified, TRUE} /\ opening' = opening
    BY <1>2 DEF HandleAuth, dispVars
  <2>4. UNCHANGED <<negotiated, ready, streams, closed, pinRequired, revoker, dcOpen, clientVars>>
    BY <1>2 DEF HandleAuth
  <2>5. handler' = "admit" => opening \in StreamIDs
    BY <2>3 DEF Typed
  <2>6. viaAuth' \in BOOLEAN /\ verified' \in BOOLEAN
    BY <2>3 DEF Typed, TypeOK
  <2> QED
    BY <2>2, <2>3, <2>4, <2>5, <2>6 DEF Typed, TypeOK, clientVars
<1>3. CASE AuthFailed
  <2>1. dcOpen' \in BOOLEAN
    BY <1>3 DEF AuthFailed
  <2> QED
    BY <1>3, <2>1 DEF AuthFailed, Typed, TypeOK, clientVars, sessVars
<1>4. CASE DropClosed \/ NotifyHandlers \/ SendAuthResult \/ SendReady
  <2>1. handler' \in {handler, "mark", "idle", "ready"}
    BY <1>4 DEF DropClosed, NotifyHandlers, SendAuthResult, SendReady, dispVars
  <2>2. UNCHANGED <<sessVars, viaAuth, opening, pinRequired, revoker, dcOpen, clientVars, verified>>
    BY <1>4 DEF DropClosed, NotifyHandlers, SendAuthResult, SendReady, dispVars
  <2> QED
    BY <2>1, <2>2 DEF Typed, TypeOK, clientVars, sessVars
<1>5. CASE MarkReady
  <2>1. handler' \in {"result", "ready"}
    BY <1>5 DEF MarkReady
  <2> QED
    BY <1>5, <2>1 DEF MarkReady, Typed, TypeOK, clientVars
<1>6. CASE HandleSyn
  <2>1. toListener # <<>> /\ Head(toListener).type = "syn"
    BY <1>6 DEF HandleSyn, Next0
  <2>2. Head(toListener) \in FramesUp
    BY <2>1, TailFrames DEF Channels
  <2>3. Head(toListener).id \in StreamIDs
    BY <2>1, <2>2 DEF FramesUp, Connect, Auth, Syn
  <2>4. /\ DOMAIN streams' \subseteq StreamIDs
        /\ \A id \in DOMAIN streams' : streams'[id] \in BOOLEAN
    BY <1>6 DEF HandleSyn, Typed, TypeOK
  <2>5. \/ handler' = handler /\ opening' = opening
        \/ handler' = "admit" /\ opening' \in StreamIDs
    BY <1>6, <2>3 DEF HandleSyn, dispVars
  <2>6. viaAuth' = viaAuth
    BY <1>6 DEF HandleSyn, dispVars
  <2> QED
    BY <1>6, <2>4, <2>5, <2>6 DEF HandleSyn, Typed, TypeOK, clientVars
<1>7. CASE AdmitStream
  <2>1. opening \in StreamIDs
    BY <1>7 DEF AdmitStream, Typed
  <2>2. /\ DOMAIN streams' \subseteq StreamIDs
        /\ \A id \in DOMAIN streams' : streams'[id] \in BOOLEAN
    <3>1. CASE closed
      BY <1>7, <3>1 DEF AdmitStream, Typed, TypeOK
    <3>2. CASE ~closed
      <4>1. streams' = [i \in DOMAIN streams \cup {opening} |->
                          IF i = opening THEN negotiated >= 4 ELSE streams[i]]
        BY <1>7, <3>2 DEF AdmitStream
      <4>2. (negotiated >= 4) \in BOOLEAN
        OBVIOUS
      <4>3. \A id \in DOMAIN streams : streams[id] \in BOOLEAN
        BY DEF Typed, TypeOK
      <4>4. DOMAIN streams \subseteq StreamIDs
        BY DEF Typed, TypeOK
      <4> QED
        BY <2>1, <4>1, <4>2, <4>3, <4>4, Zenon
    <3> QED
      BY <3>1, <3>2
  <2> QED
    BY <1>7, <2>2 DEF AdmitStream, Typed, TypeOK, clientVars
<1> QED
  BY <1>1, <1>2, <1>3, <1>4, <1>5, <1>6, <1>7 DEF ListenerStep

LEMMA TypedClient ==
    ASSUME Typed, Channels, ClientStep \/ ClientTimesOut PROVE Typed'
<1>1. UNCHANGED <<sessVars, dispVars, pinRequired, revoker, dcOpen, verified, nextStreamID, sends>>
  BY DEF ClientStep, ClientVerify, ClientAuthRequired, ClientAuthResult, ClientReady, ClientError,
         ClientSeesClose, AnyReads, ClientTimesOut, ClientUnchanged, clientVars
<1>2. client' \in {client, "wait", "ready", "failed", "ended"}
  BY DEF ClientStep, ClientVerify, ClientAuthRequired, ClientAuthResult, ClientReady, ClientError,
         ClientSeesClose, AnyReads, ClientTimesOut, SendPIN, clientVars
<1>3. retry' \in Nat
  <2>1. retry' \in {retry, retry + 1}
    BY DEF ClientStep, ClientVerify, ClientAuthRequired, ClientAuthResult, ClientReady, ClientError,
           ClientSeesClose, AnyReads, ClientTimesOut, SendPIN, clientVars
  <2> QED
    BY <2>1 DEF Typed, TypeOK
<1>4. clientNegotiated' \in 0..SWSPVersion
  <2>1. CASE ClientReady
    <3>1. toPeer # <<>> /\ Head(toPeer).type = "ready"
      BY <2>1 DEF ClientReady, Received
    <3>2. Head(toPeer) \in FramesDown
      BY <3>1, TailFrames DEF Channels
    <3>3. Head(toPeer).version \in 0..SWSPVersion
      BY <3>1, <3>2 DEF FramesDown, Plain, AuthResult, Ready
    <3>4. clientVersion \in Nat
      BY DEF Channels
    <3> QED
      BY <2>1, <3>3, <3>4 DEF ClientReady, SWSPVersion, Typed, TypeOK
  <2>2. CASE clientNegotiated' = clientNegotiated
    BY <2>2 DEF Typed, TypeOK
  <2> QED
    BY <2>1, <2>2 DEF ClientStep, ClientVerify, ClientAuthRequired, ClientAuthResult, ClientError,
                      ClientSeesClose, AnyReads, ClientTimesOut, clientVars
<1> QED
  BY <1>1, <1>2, <1>3, <1>4 DEF Typed, TypeOK, sessVars, dispVars

LEMMA TypedOthers ==
    ASSUME Typed, [Next]_vars PROVE Typed' \/ ListenerStep \/ ClientStep \/ ClientTimesOut
<1>1. CASE Close
  <2>1. /\ DOMAIN streams' \subseteq StreamIDs
        /\ \A id \in DOMAIN streams' : streams'[id] \in BOOLEAN
    BY <1>1 DEF Close
  <2> QED
    BY <1>1, <2>1 DEF Close, Typed, TypeOK, dispVars, clientVars
<1>2. CASE DropConnection \/ GoodbyeSend \/ TransportLost
  <2>1. dcOpen' \in {dcOpen, FALSE} /\ revoker' \in {"close", "done"}
    BY <1>2 DEF DropConnection, GoodbyeSend, TransportLost
  <2>2. UNCHANGED <<pinRequired, sessVars, dispVars, clientVars, verified>>
    BY <1>2 DEF DropConnection, GoodbyeSend, TransportLost
  <2> QED
    BY <2>1, <2>2 DEF Typed, TypeOK, sessVars, dispVars, clientVars
<1>3. ASSUME NEW id \in StreamIDs, StreamEnds(id) PROVE Typed'
  <2>1. /\ DOMAIN streams' \subseteq StreamIDs
        /\ \A i \in DOMAIN streams' : streams'[i] \in BOOLEAN
    BY <1>3 DEF StreamEnds, Typed, TypeOK
  <2> QED
    BY <1>3, <2>1 DEF StreamEnds, Typed, TypeOK, dispVars, clientVars
<1>4. CASE ClientOpens \/ AnySends
  <2>1. nextStreamID' \in {nextStreamID, nextStreamID + 2} /\ sends' \in {sends, sends + 1}
    BY <1>4 DEF ClientOpens, AnySends
  <2>2. nextStreamID' \in Nat /\ sends' \in Nat
    BY <2>1 DEF Typed, TypeOK
  <2>3. UNCHANGED <<sessVars, dispVars, pinRequired, revoker, dcOpen, client, clientNegotiated,
                    retry, verified>>
    BY <1>4 DEF ClientOpens, AnySends
  <2> QED
    BY <2>2, <2>3 DEF Typed, TypeOK, sessVars, dispVars
<1>5. CASE UNCHANGED vars
  BY <1>5 DEF vars, sessVars, dispVars, clientVars, Typed, TypeOK
<1> QED
  BY <1>1, <1>2, <1>3, <1>4, <1>5 DEF Next, RevokeStep

(* Every variable keeps its type, with any peer; in particular the version *)
(* handleConnect settles on, and the one the client takes from ready, is   *)
(* never beyond this build's.                                              *)
THEOREM TypeCorrect == Spec => []TypeOK
<1>1. Init => Typed
  <2> SUFFICES ASSUME Init PROVE Typed
    OBVIOUS
  <2>1. DOMAIN streams = {} /\ pinRequired \in BOOLEAN
    BY HandshakeAssumption DEF Init
  <2>2. client \in {"verify", "any"}
    BY DEF Init
  <2>3. /\ negotiated \in 0..SWSPVersion /\ clientNegotiated \in 0..SWSPVersion
        /\ authFails \in Nat /\ retry \in Nat /\ nextStreamID \in Nat /\ sends \in Nat
    BY DEF Init, SWSPVersion
  <2>4. /\ ready = FALSE /\ closed = FALSE /\ viaAuth = FALSE /\ verified = FALSE /\ dcOpen = TRUE
        /\ handler = "idle" /\ opening = 0 /\ revoker = "idle"
    BY DEF Init
  <2> QED
    BY <2>1, <2>2, <2>3, <2>4 DEF Typed, TypeOK
<1>2. Typed /\ Agreement /\ [Next]_vars => Typed'
  BY TypedListener, TypedClient, TypedOthers DEF Agreement
<1>3. Typed => TypeOK
  BY DEF Typed
<1> QED
  BY <1>1, <1>2, <1>3, AlwaysAgreement, PTL DEF Spec
=============================================================================
