----------------------------- MODULE TcpForward -----------------------------
(***************************************************************************)
(* One local connection forwarded to a TCP target: the connector's         *)
(* LocalForwarder (internal/client/tcp.go), the listener's TCPHandler      *)
(* (internal/streamtype/tcp.go) and the pump both of them use              *)
(* (internal/bytestream), over one v4 stream.                              *)
(*                                                                         *)
(* Waiting for credit is a step that is not taken yet: StreamFlow has the  *)
(* accounting.                                                             *)
(* The application and the target are external programs.                   *)
(***************************************************************************)
EXTENDS StreamFrames

CONSTANTS
    UpPieces,    \* bound: pieces the application may send
    DownPieces   \* bound: pieces the target may send

VARIABLES
    app,      \* the local application: what it sent, received and saw
    fwd,      \* the connector: forward, its two copying goroutines
    up,       \* frames on their way to the listener
    down,     \* frames on their way to the connector
    tcp,      \* the listener's tcpStream, its goroutine and its worker
    tgt       \* the target: what it received, sent and saw

fwdVars == <<app, fwd, up, down, tcp, tgt>>

FwdInit ==
    /\ app = [sent |-> 0, end |-> "open", got |-> 0, eof |-> FALSE]
    /\ fwd = [pc |-> "open", cancelled |-> FALSE, stream |-> "live", conn |-> "open",
              pump |-> "off", recv |-> "off", read |-> 0, sentFIN |-> FALSE]
    /\ up = <<>>
    /\ down = <<>>
    /\ tcp = [stream |-> "none", worker |-> "idle", held |-> 0, found |-> FALSE, entry |-> FALSE,
              cancelled |-> FALSE, conn |-> "none", run |-> "none", read |-> 0, writeDone |-> FALSE,
              sentFIN |-> FALSE, gotFIN |-> FALSE, session |-> "open"]
    /\ tgt = [got |-> 0, eof |-> FALSE, sent |-> 0, end |-> "open"]

-----------------------------------------------------------------------------
(* The two programs at the ends.                                           *)

AppSends ==
    /\ app.end = "open" /\ app.sent < UpPieces
    /\ app' = [app EXCEPT !.sent = @ + 1]
    /\ UNCHANGED <<fwd, up, down, tcp, tgt>>

AppEnds(how) ==
    /\ app.end = "open"
    /\ app' = [app EXCEPT !.end = how]
    /\ UNCHANGED <<fwd, up, down, tcp, tgt>>

TargetSends ==
    /\ tcp.conn = "open" /\ tgt.end = "open" /\ tgt.sent < DownPieces
    /\ tgt' = [tgt EXCEPT !.sent = @ + 1]
    /\ UNCHANGED <<app, fwd, up, down, tcp>>

TargetEnds(how) ==
    /\ tcp.conn = "open" /\ tgt.end = "open"
    /\ tgt' = [tgt EXCEPT !.end = how]
    /\ UNCHANGED <<app, fwd, up, down, tcp>>

-----------------------------------------------------------------------------
(* Sending.  sendFrame and sendStreamFrame fail on a stream that is gone   *)
(* or whose FIN was sent; a lost session loses what is on its way.         *)

FwdCanSend == fwd.stream = "live" /\ tcp.session = "open"
TcpCanSend == tcp.stream = "open" /\ ~tcp.sentFIN /\ tcp.session = "open"

ToListener(frame) == up' = Append(up, frame)
ToConnector(frame) == down' = Append(down, frame)

(* finishState: both directions ended. *)
TcpFinished(t) == IF t.sentFIN /\ t.gotFIN THEN [t EXCEPT !.stream = "gone"] ELSE t

-----------------------------------------------------------------------------
(* LocalForwarder.forward.                                                 *)

ForwardOpens ==
    /\ fwd.pc = "open"
    /\ IF FwdCanSend
       THEN fwd' = [fwd EXCEPT !.pc = "await"] /\ ToListener(Signal("SYN"))
       ELSE fwd' = [fwd EXCEPT !.pc = "abandon"] /\ UNCHANGED up
    /\ UNCHANGED <<app, down, tcp, tgt>>

(* The first frame back, the end of the inbox, or Close. *)
ForwardAnswered ==
    /\ fwd.pc = "await"
    /\ \/ /\ down # <<>> /\ Head(down).kind = "OK"
          /\ down' = Tail(down)
          /\ fwd' = [fwd EXCEPT !.pc = "copy", !.pump = "read", !.recv = "on"]
       \/ /\ down # <<>> /\ Head(down).kind = "REFUSED"
          /\ down' = Tail(down)
          /\ fwd' = [fwd EXCEPT !.pc = "abandon"]
       \/ /\ fwd.cancelled \/ fwd.stream = "failed" \/ tcp.session = "lost"
          /\ fwd' = [fwd EXCEPT !.pc = "abandon"]
          /\ UNCHANGED down
    /\ UNCHANGED <<app, up, tcp, tgt>>

(* Not established: our direction is closed too, so that the listener can  *)
(* release the stream; then Stream.Close, whose reset is full duplex.      *)
ForwardAbandons ==
    /\ fwd.pc = "abandon"
    /\ up' = IF FwdCanSend THEN up \o <<Signal("FIN"), Signal("RESET")>> ELSE up
    /\ fwd' = [fwd EXCEPT !.pc = "done", !.stream = "closed", !.conn = "closed"]
    /\ UNCHANGED <<app, down, tcp, tgt>>

(* bytestream.Pump on the local connection: read, *)
Readable == fwd.conn = "open" /\ app.end # "aborted" /\ fwd.read < app.sent

PumpReads ==
    /\ fwd.pump = "read"
    /\ fwd' = [fwd EXCEPT
         !.pump = IF Readable THEN "write" ELSE "fin",
         !.read = IF Readable THEN @ + 1 ELSE @]
    /\ Readable \/ fwd.conn = "closed" \/ app.end # "open"
    /\ UNCHANGED <<app, up, down, tcp, tgt>>

(* Mutant: the end of the source is passed on although the forward was     *)
(* cancelled.                                                              *)
MutantFinWhenCancelled ==
    /\ fwd.pump \in {"write", "fin"}
    /\ IF FwdCanSend /\ (fwd.pump = "fin" \/ ~fwd.cancelled)
       THEN IF fwd.pump = "write"
            THEN fwd' = [fwd EXCEPT !.pump = "read"] /\ ToListener(Data(fwd.read))
            ELSE fwd' = [fwd EXCEPT !.pump = "done", !.sentFIN = TRUE] /\ ToListener(Signal("FIN"))
       ELSE fwd' = [fwd EXCEPT !.pump = "failed"] /\ UNCHANGED up
    /\ UNCHANGED <<app, down, tcp, tgt>>

(* then write, or FIN once the source has ended, whatever ended it, unless *)
(* the forward was cancelled.                                              *)
PumpWrites ==
    /\ fwd.pump \in {"write", "fin"}
    /\ IF FwdCanSend /\ ~fwd.cancelled
       THEN IF fwd.pump = "write"
            THEN fwd' = [fwd EXCEPT !.pump = "read"] /\ ToListener(Data(fwd.read))
            ELSE /\ fwd' = [fwd EXCEPT !.pump = IF app.end = "aborted" THEN "failed" ELSE "done",
                                       !.sentFIN = TRUE]
                 /\ ToListener(Signal("FIN"))
       ELSE fwd' = [fwd EXCEPT !.pump = "failed"] /\ UNCHANGED up
    /\ UNCHANGED <<app, down, tcp, tgt>>

(* receiveTCP: a frame of the stream to the local connection. *)
ReceiveCopies ==
    /\ fwd.recv = "on"
    /\ \/ /\ down # <<>> /\ Head(down).kind # "RESET"
          /\ down' = Tail(down)
          /\ IF Head(down).kind = "FIN"
             THEN /\ app' = [app EXCEPT !.eof = fwd.conn = "open"]
                  /\ fwd' = [fwd EXCEPT !.recv = "done"]
             ELSE /\ app' = [app EXCEPT !.got = IF fwd.conn = "open" THEN Head(down).piece ELSE @]
                  /\ fwd' = [fwd EXCEPT !.recv = IF fwd.conn = "open" /\ app.end # "aborted"
                                                 THEN @ ELSE "failed"]
       \/ /\ fwd.cancelled \/ fwd.stream # "live" \/ tcp.session = "lost"
          /\ fwd' = [fwd EXCEPT !.recv = "failed"]
          /\ UNCHANGED <<app, down>>
    /\ UNCHANGED <<up, tcp, tgt>>

(* Stream.Close resets the stream unless both directions have ended. *)
StreamClose ==
    IF FwdCanSend /\ ~(fwd.sentFIN /\ fwd.recv = "done") THEN Append(up, Signal("RESET")) ELSE up

(* One of the two failed: the other is cancelled.  The watcher abandons    *)
(* the stream, because a write may be waiting for credit.                  *)
ForwardCancels ==
    /\ fwd.pc = "copy" /\ ~fwd.cancelled
    /\ "failed" \in {fwd.pump, fwd.recv}
    /\ fwd' = [fwd EXCEPT !.cancelled = TRUE, !.conn = "closed"]
    /\ UNCHANGED <<app, up, down, tcp, tgt>>

WatcherCloses ==
    /\ fwd.pc = "copy" /\ fwd.cancelled /\ fwd.stream # "closed"
    /\ fwd' = [fwd EXCEPT !.stream = "closed", !.conn = "closed"]
    /\ up' = StreamClose
    /\ UNCHANGED <<app, down, tcp, tgt>>

(* Both ended: the deferred st.Close and conn.Close. *)
ForwardReturns ==
    /\ fwd.pc = "copy"
    /\ fwd.pump \in {"done", "failed"} /\ fwd.recv \in {"done", "failed"}
    /\ fwd' = [fwd EXCEPT !.pc = "done", !.stream = "closed", !.conn = "closed"]
    /\ up' = StreamClose
    /\ UNCHANGED <<app, down, tcp, tgt>>

(* LocalForwarder.Close, by the operator or because the session is done:   *)
(* cancel, then every tracked connection is closed.                        *)
ForwarderClose ==
    /\ fwd.pc # "done" /\ ~fwd.cancelled
    /\ fwd' = [fwd EXCEPT !.cancelled = TRUE, !.conn = "closed"]
    /\ UNCHANGED <<app, up, down, tcp, tgt>>

SessionEndCloses ==
    /\ tcp.session = "lost"
    /\ ForwarderClose

(* The listener's reset reaches the connector. *)
ConnectorReset ==
    /\ HasReset(down)
    /\ down' = BeforeReset(down)
    /\ fwd' = [fwd EXCEPT !.stream = IF @ = "live" THEN "failed" ELSE @]
    /\ UNCHANGED <<app, up, tcp, tgt>>

-----------------------------------------------------------------------------
(* TCPHandler.                                                             *)

(* Mutant: close cancels only; a connection that is open stays. *)
MutantCloseKeepsConn(t) == IF t.entry THEN [t EXCEPT !.cancelled = TRUE] ELSE t

(* tcpStream.close: cancel, and the connection if there is one. *)
CloseTcp(t) ==
    IF t.entry
    THEN [t EXCEPT !.cancelled = TRUE, !.conn = IF @ = "open" THEN "closed" ELSE @]
    ELSE t

(* The session's dispatcher gives a new stream to its worker. *)
TcpAdmit ==
    /\ tcp.session = "open" /\ tcp.stream = "none"
    /\ up # <<>> /\ Head(up).kind = "SYN"
    /\ up' = Tail(up)
    /\ tcp' = [tcp EXCEPT !.stream = "open", !.worker = "syn"]
    /\ UNCHANGED <<app, fwd, down, tgt>>

(* OnSYN: refused for its target, for the allowlist or at the limit, *)
TcpRefuses ==
    /\ tcp.worker = "syn"
    /\ tcp' = TcpFinished([tcp EXCEPT !.worker = "idle", !.sentFIN = @ \/ TcpCanSend])
    /\ down' = IF TcpCanSend THEN Append(down, Signal("REFUSED")) ELSE down
    /\ UNCHANGED <<app, fwd, up, tgt>>

(* or registered, and a goroutine dials. *)
TcpRegisters ==
    /\ tcp.worker = "syn"
    /\ tcp' = [tcp EXCEPT !.worker = "idle", !.entry = TRUE, !.run = "dial",
                          !.cancelled = tcp.session = "lost"]
    /\ UNCHANGED <<app, fwd, up, down, tgt>>

(* The dial ends; finishDial publishes the connection unless the stream    *)
(* was cancelled before.                                                   *)
DialSucceeds ==
    /\ tcp.run = "dial"
    /\ tcp' = IF tcp.cancelled THEN [tcp EXCEPT !.run = "done", !.entry = FALSE]
              ELSE [tcp EXCEPT !.conn = "open", !.run = "ack"]
    /\ UNCHANGED <<app, fwd, up, down, tgt>>

DialFails ==
    /\ tcp.run = "dial"
    /\ LET told == TcpCanSend /\ ~tcp.cancelled
       IN  /\ down' = IF told THEN Append(down, Signal("REFUSED")) ELSE down
           /\ tcp' = TcpFinished([tcp EXCEPT !.run = "done", !.entry = FALSE,
                                             !.cancelled = TRUE, !.sentFIN = @ \/ told])
    /\ UNCHANGED <<app, fwd, up, tgt>>

(* WriteSYN; a stream that is gone ends the connection it never served. *)
TcpAcks ==
    /\ tcp.run = "ack"
    /\ IF TcpCanSend
       THEN ToConnector(Signal("OK")) /\ tcp' = [tcp EXCEPT !.run = "read"]
       ELSE /\ tcp' = [tcp EXCEPT !.run = "done", !.cancelled = TRUE, !.conn = "closed",
                                  !.entry = FALSE]
            /\ UNCHANGED down
    /\ UNCHANGED <<app, fwd, up, tgt>>

(* bytestream.Pump on the target's connection. *)
TcpReads ==
    /\ tcp.run = "read"
    /\ tcp.conn = "closed" \/ tcp.read < tgt.sent \/ tgt.end # "open"
    /\ tcp' = [tcp EXCEPT
         !.run = IF tcp.conn = "closed" THEN "close"
                 ELSE IF tgt.end # "aborted" /\ tcp.read < tgt.sent THEN "write" ELSE "fin",
         !.read = IF @ < tgt.sent /\ tgt.end # "aborted" /\ tcp.conn = "open" THEN @ + 1 ELSE @]
    /\ UNCHANGED <<app, fwd, up, down, tgt>>

TcpWrites ==
    /\ tcp.run \in {"write", "fin"}
    /\ IF TcpCanSend /\ ~tcp.cancelled
       THEN IF tcp.run = "write"
            THEN ToConnector(Data(tcp.read)) /\ tcp' = [tcp EXCEPT !.run = "read"]
            ELSE /\ ToConnector(Signal("FIN"))
                 /\ tcp' = TcpFinished([tcp EXCEPT !.sentFIN = TRUE,
                       !.run = IF tgt.end = "aborted" THEN "close" ELSE "drain"])
       ELSE tcp' = [tcp EXCEPT !.run = "close"] /\ UNCHANGED down
    /\ UNCHANGED <<app, fwd, up, tgt>>

(* The other direction may outlive this one; then everything is closed. *)
TcpRunEnds ==
    /\ \/ tcp.run = "drain" /\ (tcp.writeDone \/ tcp.cancelled)
       \/ tcp.run = "close"
    /\ tcp' = [CloseTcp(tcp) EXCEPT !.run = "done", !.entry = FALSE]
    /\ UNCHANGED <<app, fwd, up, down, tgt>>

(* The worker takes a frame: OnDAT and OnFIN wait for the dial. *)
TcpWorkerTakes ==
    /\ tcp.worker = "idle" /\ tcp.stream = "open" /\ ~tcp.gotFIN
    /\ up # <<>> /\ Head(up).kind \notin {"SYN", "RESET"}
    /\ up' = Tail(up)
    /\ tcp' = [tcp EXCEPT !.worker = Head(up).kind, !.held = Head(up).piece, !.found = tcp.entry]
    /\ UNCHANGED <<app, fwd, down, tgt>>

(* Frames for a stream that is not in the table are ignored. *)
TcpIgnores ==
    /\ tcp.stream = "gone" /\ up # <<>>
    /\ up' = Tail(up)
    /\ UNCHANGED <<app, fwd, down, tcp, tgt>>

(* OnDAT or OnFIN returns an error: the dial failed, the connection is     *)
(* closed, or the target broke off, which CloseWrite need not notice.  If  *)
(* the stream's entry went while the worker had the frame, lookup may have *)
(* found it before, and waitConn reports why it went.                      *)
HandlerFails ==
    LET must == tcp.entry /\ (tcp.conn # "open" \/ (tgt.end = "aborted" /\ tcp.worker # "FIN"))
        may  == IF tcp.entry THEN tgt.end = "aborted" ELSE tcp.found
    IN  {must, must \/ may}

(* failStream: the stream leaves the table, OnReset closes, the peer is    *)
(* told unless the reset was its own.                                      *)
FailTcp(t) == [CloseTcp(t) EXCEPT !.stream = "gone", !.worker = "idle"]

TcpHandles ==
    /\ tcp.worker \notin {"idle", "syn"}
    /\ tcp.run # "dial" \/ tcp.cancelled \/ ~tcp.entry
    /\ \E broken \in HandlerFails :
       LET told == broken /\ tcp.stream = "open" /\ tcp.session = "open"
       IN  /\ down' = IF told THEN Append(down, Signal("RESET")) ELSE down
           /\ tcp' = IF broken THEN FailTcp(tcp)
                     ELSE IF tcp.worker = "FIN"
                     THEN TcpFinished([tcp EXCEPT !.worker = "idle", !.gotFIN = TRUE,
                                                  !.writeDone = tcp.entry])
                     ELSE [tcp EXCEPT !.worker = "idle"]
           /\ tgt' = IF broken \/ ~tcp.entry THEN tgt
                     ELSE IF tcp.worker = "FIN" THEN [tgt EXCEPT !.eof = TRUE]
                     ELSE [tgt EXCEPT !.got = tcp.held]
    /\ UNCHANGED <<app, fwd, up>>

(* The connector's reset: applyStreamReset, on the dispatcher. *)
TcpReset ==
    /\ tcp.session = "open" /\ tcp.stream # "none"
    /\ HasReset(up)
    /\ up' = <<>>
    /\ tcp' = IF tcp.stream = "open" THEN [CloseTcp(tcp) EXCEPT !.stream = "gone"] ELSE tcp
    /\ UNCHANGED <<app, fwd, down, tgt>>

(* The data channel is lost, or the peer is torn down: Session.Close and   *)
(* CloseAll.  The connector may still read what had arrived.               *)
SessionLost ==
    /\ tcp.session = "open"
    /\ tcp' = [CloseTcp(tcp) EXCEPT !.session = "lost",
                                    !.stream = IF @ = "open" THEN "gone" ELSE @]
    /\ up' = <<>>
    /\ \E n \in 0..Len(down) : down' = SubSeq(down, 1, n)
    /\ fwd' = [fwd EXCEPT !.stream = IF @ = "live" THEN "failed" ELSE @]
    /\ UNCHANGED <<app, tgt>>

-----------------------------------------------------------------------------

ConnectorStep ==
    \/ ForwardOpens \/ ForwardAnswered \/ ForwardAbandons
    \/ PumpReads \/ PumpWrites \/ ReceiveCopies
    \/ ForwardCancels \/ WatcherCloses \/ ForwardReturns
    \/ SessionEndCloses \/ ConnectorReset

ListenerStep ==
    \/ TcpAdmit \/ TcpRefuses \/ TcpRegisters \/ TcpAcks
    \/ TcpReads \/ TcpWrites \/ TcpRunEnds \/ TcpWorkerTakes \/ TcpIgnores \/ TcpHandles \/ TcpReset
    \/ DialSucceeds \/ DialFails

FwdNext ==
    \/ AppSends \/ TargetSends
    \/ \E how \in {"closed", "aborted"} : AppEnds(how) \/ TargetEnds(how)
    \/ ConnectorStep \/ ListenerStep
    \/ ForwarderClose \/ SessionLost

(* Goroutines that can run do, and a dial ends; the programs at the ends   *)
(* owe nothing.                                                            *)
FwdSpec == FwdInit /\ [][FwdNext]_fwdVars /\ WF_fwdVars(ConnectorStep) /\ WF_fwdVars(ListenerStep)

-----------------------------------------------------------------------------
(* Properties.                                                             *)

(* The forward implements a pipe in each direction.  What the target is    *)
(* shown after a forward that was never established is not an end.         *)
Upward == INSTANCE BytePipe WITH
    sent <- app.sent, end <- app.end, got <- tgt.got, eof <- tgt.eof /\ fwd.pump # "off"

Downward == INSTANCE BytePipe WITH
    sent <- tgt.sent, end <- tgt.end, got <- app.got, eof <- app.eof

(* A half-close is passed on only after everything before it, and nothing  *)
(* after it, also when the forward is cancelled with a piece in hand: the  *)
(* target is shown the end of the application's data (CloseWrite) only     *)
(* when the application has ended and, unless it broke off, all it sent    *)
(* was written, in order; and the same the other way round.                *)
ForwardIsPipe == Upward!PipeSpec /\ Downward!PipeSpec

(* Nothing outlives the forward: once the forwarder is closed or the       *)
(* session is lost, forward returns, the listener's goroutine ends, its    *)
(* slot is given back and both connections are closed.                     *)
Released ==
    /\ fwd.pc = "done" /\ fwd.conn = "closed"
    /\ tcp.run \in {"none", "done"} /\ ~tcp.entry /\ tcp.conn # "open"

ForwardEnds == (fwd.cancelled \/ tcp.session = "lost") ~> Released
=============================================================================
