---------------------------- MODULE StreamFlow ----------------------------
(***************************************************************************)
(* v4 flow control of one direction of one stream (internal/session/flow.go*)
(* and session.go on the listener, internal/client/session.go on the       *)
(* client).  Sender and receiver are joined by the ordered data channel:   *)
(* wire carries the stream's frames, grants the window updates going back. *)
(*                                                                         *)
(* Goroutines: the writer (one at a time under writeMu), the receiver's    *)
(* dispatcher (HandleMessage / startDispatcher, never blocks), the         *)
(* receiver's stream worker (runStream / deliverStream), and the sender's  *)
(* dispatcher, which applies grants and the final reset.                   *)
(*                                                                         *)
(* Payloads are their lengths.  A frame also carries end, the number of    *)
(* charged bytes up to and including it: a history that lets the sums over *)
(* the channel and the queue be stated without summing.                    *)
(***************************************************************************)
EXTENDS Integers, Sequences

CONSTANTS
    Window,     \* InitialStreamWindow
    Threshold,  \* StreamWindowUpdateThreshold
    MaxFrames,  \* MaxQueuedStreamFrames
    Chunk,      \* MaxChunkSize
    SynSizes,   \* the lengths a SYN payload may have
    Total,      \* bound: how many charged bytes the writer sends
    Receivers   \* which ends receive: "listener", "client"

ASSUME FlowAssumption ==
    /\ Window \in Nat \ {0}
    /\ Threshold \in Nat \ {0}
    /\ Chunk \in Nat \ {0}
    /\ Chunk + Threshold <= Window + 1
    /\ MaxFrames \in Nat \ {0}
    /\ SynSizes \subseteq Nat
    /\ Total \in Nat
    /\ Receivers \subseteq {"listener", "client"}

VARIABLES
    sent,          \* streamState.sent / stream.sentBytes
    sendMax,       \* streamState.sendMax / stream.sendLimit
    writer,        \* where the writer stands
    out,           \* the frame the writer is sending
    wire,          \* frames on their way to the receiver
    grants,        \* window updates on their way to the sender
    received,      \* streamState.received / stream.receivedBytes
    consumed,      \* streamState.consumed / stream.consumedBytes
    advertised,    \* streamState.advertised / stream.advertisedMax
    lastUpdate,    \* streamState.lastUpdate / stream.lastUpdateAt
    queuedBytes,   \* bytes counted against the receive queue
    queuedFrames,  \* frames counted against the receive queue
    queuedFIN,     \* streamState.receiveQueuedFIN / stream.inboundFIN
    queue,         \* the stream's channel of frames
    worker,        \* where the stream worker stands
    cur,           \* the frame the worker is handling
    failed,        \* why the receiver failed the stream, or "no"
    receiver       \* the end that receives on this stream; never changes

sendVars == <<sent, sendMax, writer, out>>
recvVars == <<received, consumed, advertised, lastUpdate>>
queueVars == <<queuedBytes, queuedFrames, queuedFIN, queue>>
workVars == <<worker, cur>>
vars == <<sendVars, wire, grants, recvVars, queueVars, workVars, failed, receiver>>

Kinds == {"SYN", "DAT", "FIN"}
Frame == [kind : Kinds, len : Nat, end : Nat]
NoFrame == [kind |-> "DAT", len |-> 0, end |-> 0]

(* SYN metadata is not charged against the window. *)
FlowBytes(frame) == IF frame.kind = "SYN" THEN 0 ELSE frame.len

Init ==
    /\ sent = 0
    /\ sendMax = Window
    /\ writer = "start"
    /\ out = NoFrame
    /\ wire = <<>>
    /\ grants = <<>>
    /\ received = 0
    /\ consumed = 0
    /\ advertised = Window
    /\ lastUpdate = 0
    /\ queuedBytes = 0
    /\ queuedFrames = 0
    /\ queuedFIN = FALSE
    /\ queue = <<>>
    /\ worker = "idle"
    /\ cur = NoFrame
    /\ failed = "no"
    /\ receiver \in Receivers

-----------------------------------------------------------------------------
(* The sender: sendStreamFrame / Session.sendFrame.                        *)

(* A caller asks for a frame to be written; writeMu admits one at a time.  *)
(* The SYN goes first, and nothing follows a FIN.                          *)
Write(kind, len) ==
    /\ \/ writer = "start" /\ kind = "SYN" /\ len \in SynSizes
       \/ writer = "open" /\ kind = "DAT" /\ len \in 1..Chunk
       \/ writer = "open" /\ kind = "FIN" /\ len \in 0..Chunk
    /\ kind # "SYN" => sent + len <= Total
    /\ out' = [kind |-> kind, len |-> len,
               end |-> IF kind = "SYN" THEN sent ELSE sent + len]
    /\ writer' = "reserve"
    /\ UNCHANGED <<sent, sendMax, wire, grants, recvVars, queueVars, workVars, failed, receiver>>

(* Mutant: the credit test forgets the frame it is for. *)
MutantReserveAny ==
    /\ writer = "reserve"
    /\ sent <= sendMax
    /\ sent' = sent + FlowBytes(out)
    /\ writer' = "send"
    /\ UNCHANGED <<sendMax, out, wire, grants, recvVars, queueVars, workVars, failed, receiver>>

(* reserveSend: waits until the whole frame is covered by credit. *)
ReserveSend ==
    /\ writer = "reserve"
    /\ FlowBytes(out) <= sendMax - sent
    /\ sent' = sent + FlowBytes(out)
    /\ writer' = "send"
    /\ UNCHANGED <<sendMax, out, wire, grants, recvVars, queueVars, workVars, failed, receiver>>

(* sendFrame, still under writeMu. *)
SendFrame ==
    /\ writer = "send"
    /\ wire' = Append(wire, out)
    /\ writer' = IF out.kind = "FIN" THEN "finished" ELSE "open"
    /\ UNCHANGED <<sent, sendMax, out, grants, recvVars, queueVars, workVars, failed, receiver>>

(* applyWindowUpdate / updateSendLimit: updates only ever raise the limit  *)
(* and wake the writer waiting for credit; a stopped stream ignores them.  *)
ApplyGrant ==
    /\ grants # <<>>
    /\ sendMax' = IF writer # "stopped" /\ Head(grants) > sendMax
                  THEN Head(grants) ELSE sendMax
    /\ grants' = Tail(grants)
    /\ UNCHANGED <<sent, writer, out, wire, recvVars, queueVars, workVars, failed, receiver>>

(* Mutant: the reset does not wake a writer that waits for credit. *)
MutantResetNoWake ==
    /\ failed # "no"
    /\ grants = <<>>
    /\ writer \in {"start", "open"}
    /\ writer' = "stopped"
    /\ UNCHANGED <<sent, sendMax, out, wire, grants, recvVars, queueVars, workVars, failed, receiver>>

(* The reset follows the grants on the ordered channel.  A writer that     *)
(* waits for credit gives up; one that has reserved still sends.           *)
ApplyReset ==
    /\ failed # "no"
    /\ grants = <<>>
    /\ writer \in {"start", "open", "reserve"}
    /\ writer' = "stopped"
    /\ UNCHANGED <<sent, sendMax, out, wire, grants, recvVars, queueVars, workVars, failed, receiver>>

-----------------------------------------------------------------------------
(* The receiver's dispatcher.                                              *)

(* Mutant: the frame limit is tested one frame too late. *)
MutantRefusalFrameLimit(frame) ==
    IF queuedFIN THEN "protocol_error"
    ELSE IF FlowBytes(frame) > 0 /\ FlowBytes(frame) > advertised - received
    THEN "flow_control_violation"
    ELSE IF queuedFrames > MaxFrames \/ frame.len > Window - queuedBytes
    THEN "receive_overflow"
    ELSE "no"

(* enqueue's tests in their order; the client's enqueue makes the same.    *)
(* The client counts a frame before it puts it in the channel, and takes   *)
(* the count back if the stream was abandoned in between: one step here.   *)
Refusal(frame) ==
    IF queuedFIN THEN "protocol_error"
    ELSE IF FlowBytes(frame) > 0 /\ FlowBytes(frame) > advertised - received
    THEN "flow_control_violation"
    ELSE IF queuedFrames >= MaxFrames \/ frame.len > Window - queuedBytes
    THEN "receive_overflow"
    ELSE "no"

Enqueue ==
    /\ wire # <<>>
    /\ failed = "no"
    /\ LET frame == Head(wire) IN
       /\ Refusal(frame) = "no"
       /\ received' = received + FlowBytes(frame)
       /\ queuedFIN' = (frame.kind = "FIN")
       /\ queuedFrames' = queuedFrames + 1
       /\ queuedBytes' = queuedBytes + frame.len
       /\ queue' = Append(queue, frame)
    /\ wire' = Tail(wire)
    /\ UNCHANGED <<sendVars, grants, consumed, advertised, lastUpdate, workVars, failed, receiver>>

(* A refused frame fails the stream: it is detached and stopped, the       *)
(* worker finds it closed, the peer is sent a reset.                       *)
EnqueueFails ==
    /\ wire # <<>>
    /\ failed = "no"
    /\ Refusal(Head(wire)) # "no"
    /\ failed' = Refusal(Head(wire))
    /\ wire' = Tail(wire)
    /\ UNCHANGED <<sendVars, grants, recvVars, queueVars, workVars, receiver>>

(* A frame for a stream that is no longer in the table is dropped. *)
DropUnknown ==
    /\ wire # <<>>
    /\ failed # "no"
    /\ wire' = Tail(wire)
    /\ UNCHANGED <<sendVars, grants, recvVars, queueVars, workVars, failed, receiver>>

-----------------------------------------------------------------------------
(* The receiver's stream worker.                                           *)

(* Also on a stream that was stopped, when select chooses the frame: it is *)
(* only released then (isClosed).                                          *)
WorkerTake ==
    /\ worker = "idle"
    /\ queue # <<>>
    /\ cur' = Head(queue)
    /\ queue' = Tail(queue)
    /\ worker' = "handle"
    /\ UNCHANGED <<sendVars, wire, grants, recvVars, queuedBytes, queuedFrames,
                   queuedFIN, failed, receiver>>

(* runStream and deliverStream return once the stream is stopped. *)
WorkerStops ==
    /\ worker = "idle"
    /\ failed # "no"
    /\ worker' = "done"
    /\ UNCHANGED <<sendVars, wire, grants, recvVars, queueVars, cur, failed, receiver>>

(* Mutant: a grant waits until more than a whole window is consumed. *)
MutantConsumeLate ==
    LET total == consumed + FlowBytes(cur)
        due == FlowBytes(cur) > 0 /\ total - lastUpdate > Window IN
    /\ consumed' = total
    /\ lastUpdate' = IF due THEN total ELSE lastUpdate
    /\ advertised' = IF due THEN total + Window ELSE advertised

(* The counters of consume, under the lock.                                *)
Consume ==
    LET total == consumed + FlowBytes(cur)
        due == FlowBytes(cur) > 0 /\ total - lastUpdate >= Threshold IN
    /\ consumed' = total
    /\ lastUpdate' = IF due THEN total ELSE lastUpdate
    /\ advertised' = IF due THEN total + Window ELSE advertised

(* Mutant: the path for a FIN leaves out consume. *)
MutantFINNotConsumed ==
    /\ receiver = "listener"
    /\ worker = "handle"
    /\ \/ /\ failed = "no" /\ cur.kind # "FIN"
          /\ Consume
          /\ worker' = IF lastUpdate' # lastUpdate THEN "grant" ELSE "release"
       \/ /\ failed # "no" \/ cur.kind = "FIN"
          /\ worker' = "release"
          /\ UNCHANGED <<consumed, lastUpdate, advertised>>
    /\ UNCHANGED <<sendVars, wire, grants, received, queueVars, cur, failed, receiver>>

(* Listener, processStreamFrame: the handler returned nil, then consume.   *)
(* On a stream stopped meanwhile consume changes nothing.                  *)
ListenerHandled ==
    /\ receiver = "listener"
    /\ worker = "handle"
    /\ \/ /\ failed = "no"
          /\ Consume
          /\ worker' = IF lastUpdate' # lastUpdate THEN "grant" ELSE "release"
       \/ /\ failed # "no"
          /\ worker' = "release"
          /\ UNCHANGED <<consumed, lastUpdate, advertised>>
    /\ UNCHANGED <<sendVars, wire, grants, received, queueVars, cur, failed, receiver>>

(* Listener: the handler returned an error; dequeued runs, then the stream *)
(* fails.                                                                  *)
ListenerHandlerError ==
    /\ receiver = "listener"
    /\ worker = "handle"
    /\ queuedFrames' = queuedFrames - 1
    /\ queuedBytes' = queuedBytes - cur.len
    /\ worker' = "done"
    /\ failed' = IF failed = "no" THEN "handler_error" ELSE failed
    /\ UNCHANGED <<sendVars, wire, grants, recvVars, queuedFIN, queue, cur, receiver>>

(* sendWindowUpdate: the listener sends nothing for a stream stopped       *)
(* meanwhile, the client does not look.                                    *)
SendGrant ==
    /\ worker = "grant"
    /\ grants' = IF failed = "no" \/ receiver = "client"
                 THEN Append(grants, advertised) ELSE grants
    /\ worker' = IF receiver = "listener" THEN "release" ELSE "idle"
    /\ UNCHANGED <<sendVars, wire, recvVars, queueVars, cur, failed, receiver>>

(* Mutant: the bytes of a handled frame stay counted. *)
MutantDequeuedFrameOnly ==
    /\ worker = "release"
    /\ queuedFrames' = queuedFrames - 1
    /\ queuedBytes' = queuedBytes
    /\ worker' = IF cur.kind = "FIN" \/ failed # "no" THEN "done" ELSE "idle"
    /\ UNCHANGED <<sendVars, wire, grants, recvVars, queuedFIN, queue, cur, failed, receiver>>

(* Listener: dequeued, only after processStreamFrame returned. *)
Dequeued ==
    /\ worker = "release"
    /\ queuedFrames' = queuedFrames - 1
    /\ queuedBytes' = queuedBytes - cur.len
    /\ worker' = IF cur.kind = "FIN" \/ failed # "no" THEN "done" ELSE "idle"
    /\ UNCHANGED <<sendVars, wire, grants, recvVars, queuedFIN, queue, cur, failed, receiver>>

(* Client, deliverStream: the caller took the frame from the inbox, then   *)
(* consume releases it and counts it in one critical section.  A FIN ends  *)
(* the worker and announces nothing.                                       *)
ClientHandled ==
    /\ receiver = "client"
    /\ worker = "handle"
    /\ queuedFrames' = queuedFrames - 1
    /\ queuedBytes' = queuedBytes - cur.len
    /\ Consume
    /\ worker' = IF cur.kind = "FIN" THEN "done"
                 ELSE IF lastUpdate' # lastUpdate THEN "grant" ELSE "idle"
    /\ UNCHANGED <<sendVars, wire, grants, received, queuedFIN, queue, cur, failed, receiver>>

(* Client: the stream was abandoned while the caller was not reading.      *)
ClientAbandoned ==
    /\ receiver = "client"
    /\ worker = "handle"
    /\ failed # "no"
    /\ queuedFrames' = queuedFrames - 1
    /\ queuedBytes' = queuedBytes - cur.len
    /\ worker' = "done"
    /\ UNCHANGED <<sendVars, wire, grants, recvVars, queuedFIN, queue, cur, failed, receiver>>

-----------------------------------------------------------------------------

SenderStep == ReserveSend \/ SendFrame \/ ApplyGrant \/ ApplyReset
ReceiverStep == Enqueue \/ EnqueueFails \/ DropUnknown
WorkerStep ==
    \/ WorkerTake
    \/ WorkerStops
    \/ ListenerHandled
    \/ SendGrant
    \/ Dequeued
    \/ ClientHandled
    \/ ClientAbandoned

Next ==
    \/ \E kind \in Kinds, len \in 0..Chunk \cup SynSizes : Write(kind, len)
    \/ SenderStep
    \/ ReceiverStep
    \/ WorkerStep
    \/ ListenerHandlerError

Spec == Init /\ [][Next]_vars

(* The data channel delivers, the dispatchers and the worker run, and the  *)
(* handler or the caller eventually takes the frame it is given.  Nobody   *)
(* has to write, and no handler has to fail.                               *)
Fairness ==
    /\ WF_vars(ReserveSend \/ SendFrame)
    /\ WF_vars(ApplyGrant \/ ApplyReset)
    /\ WF_vars(ReceiverStep)
    /\ WF_vars(WorkerStep)

FairSpec == Spec /\ Fairness

-----------------------------------------------------------------------------
(* Properties.                                                             *)

(* Every variable stays within its type; the receive queue never exceeds   *)
(* the window in bytes nor MaxQueuedStreamFrames in frames.                *)
TypeOK ==
    /\ sent \in Nat /\ sendMax \in Nat
    /\ writer \in {"start", "open", "reserve", "send", "finished", "stopped"}
    /\ out \in Frame
    /\ wire \in Seq(Frame)
    /\ grants \in Seq(Nat)
    /\ received \in Nat /\ consumed \in Nat
    /\ advertised \in Nat /\ lastUpdate \in Nat
    /\ queuedBytes \in Int /\ queuedBytes <= Window
    /\ queuedFrames \in Int /\ queuedFrames <= MaxFrames
    /\ queuedFIN \in BOOLEAN
    /\ queue \in Seq(Frame)
    /\ worker \in {"idle", "handle", "grant", "release", "done"}
    /\ cur \in Frame
    /\ failed \in {"no", "protocol_error", "flow_control_violation",
                   "receive_overflow", "handler_error"}
    /\ receiver \in Receivers

(* A sender that waits for credit as reserveSend does is never accused of  *)
(* exceeding the window, and never of sending after its FIN, however       *)
(* grants and frames cross on the channel.                                 *)
CompliantSenderNotAccused ==
    failed \notin {"flow_control_violation", "protocol_error"}

(* No credit deadlock: when every frame has been handled and every grant   *)
(* has arrived, a writer waiting with any frame of at most Chunk bytes     *)
(* finds enough credit, although grants are only sent every Threshold.     *)
NoCreditDeadlock ==
    failed = "no" /\ writer = "reserve" /\ wire = <<>> /\ queue = <<>>
      /\ worker = "idle" /\ grants = <<>>
    => FlowBytes(out) <= sendMax - sent

(* The frame the worker holds is still counted against the queue. *)
Held == IF worker \in {"handle", "release"}
          \/ (worker = "grant" /\ receiver = "listener")
        THEN <<cur>> ELSE <<>>

(* The bytes of a sequence of frames. *)
Bytes(frames) ==
    LET sum[n \in 0..Len(frames)] ==
          IF n = 0 THEN 0 ELSE sum[n - 1] + frames[n].len
    IN  sum[Len(frames)]

(* The two queue counters are exact: they count the frames waiting and the *)
(* one being handled, and nothing else, through every interleaving of      *)
(* dispatcher, worker and failure.  A drift would reset a healthy stream.  *)
QueueAccounted ==
    /\ queuedFrames = Len(Held) + Len(queue)
    /\ queuedBytes = Bytes(Held) + Bytes(queue)

(* What the protocol says of a SYN: it grants the initial window.  Where   *)
(* the frame limit is out of reach, a sender that stays within its credit  *)
(* is not reset for overflowing the receive queue.                         *)
WindowIsHonoured == failed # "receive_overflow"

(* A writer never waits for credit forever. *)
WriterProceeds == (writer = "reserve") ~> (writer # "reserve")

(* A stream whose FIN was sent is received to the last byte, or fails. *)
StreamCompletes ==
    (writer = "finished") ~> (failed # "no" \/ (worker = "done" /\ consumed = sent))

=============================================================================
