---------------------------- MODULE FrameQueue ----------------------------
(***************************************************************************)
(* internal/framequeue: a peer's frames are held until its session exists, *)
(* then handed over by a drain goroutine, after which the data channel's   *)
(* reader delivers directly.                                               *)
(*                                                                         *)
(* Goroutines: the reader (pion's OnMessage loop, one frame at a time),    *)
(* the drain goroutine started by Publish, the transport callback that     *)
(* fires the connection's close, and the owner (deadline, poll, failed     *)
(* answer) that closes the peer directly.  Every critical section of the   *)
(* queue's mutex is one action; a call made outside the lock is another.   *)
(* Frames are numbered in the order the data channel hands them over.      *)
(***************************************************************************)
EXTENDS Integers, Sequences

CONSTANTS
    MaxBytes,   \* the queue's maxBytes
    Sizes,      \* the frame lengths the peer sends
    MaxFrames   \* bound: how many frames the data channel hands over

ASSUME ConstantsAssumption ==
    /\ MaxBytes \in Nat
    /\ MaxFrames \in Nat
    /\ Sizes \subseteq Nat

VARIABLES
    closed,        \* Queue.closed
    published,     \* Queue.published
    dispatching,   \* Queue.dispatching
    pending,       \* Queue.pending, a sequence of frames
    pendingBytes,  \* Queue.pendingBytes
    reader,        \* where the reader goroutine stands
    inHand,        \* the frame the reader passes to deliver
    drain,         \* where the drain goroutine stands
    batch,         \* the drain goroutine's batch, its head the next frame
    fired,         \* Connection.closed: fireClose has been won by someone
    transport,     \* where the transport's close callback stands
    owner,         \* where the owner's direct Close stands
    arrived,       \* history: number of the last frame handed over
    delivered,     \* history: numbers of the frames the session received
    late,          \* history: frames the session received after Close
    early          \* history: frames handed over before Publish

queueVars == <<closed, published, dispatching, pending, pendingBytes>>
connVars == <<fired, transport, owner>>
vars == <<queueVars, reader, inHand, drain, batch, connVars,
          arrived, delivered, late, early>>

Frame == [id : Nat, len : Nat]
NoFrame == [id |-> 0, len |-> 0]

Init ==
    /\ closed = FALSE
    /\ published = FALSE
    /\ dispatching = FALSE
    /\ pending = <<>>
    /\ pendingBytes = 0
    /\ reader = "idle"
    /\ inHand = NoFrame
    /\ drain = "none"
    /\ batch = <<>>
    /\ fired = FALSE
    /\ transport = "idle"
    /\ owner = "idle"
    /\ arrived = 0
    /\ delivered = <<>>
    /\ late = 0
    /\ early = 0

-----------------------------------------------------------------------------
(* Enqueue: one call per frame, on the reader goroutine.                   *)

Arrive(len) ==
    /\ reader = "idle"
    /\ arrived < MaxFrames
    /\ arrived' = arrived + 1

(* The queue is closed: the frame is dropped. *)
EnqueueClosed(len) ==
    /\ Arrive(len)
    /\ closed
    /\ UNCHANGED <<queueVars, reader, inHand, drain, batch, connVars,
                   delivered, late, early>>

(* Mutant: the cap is tested before the frame is counted. *)
MutantCapBeforeFrame(len) ==
    /\ Arrive(len)
    /\ ~closed
    /\ ~published \/ dispatching
    /\ pendingBytes < MaxBytes
    /\ pending' = Append(pending, [id |-> arrived + 1, len |-> len])
    /\ pendingBytes' = pendingBytes + len
    /\ UNCHANGED <<closed, published, dispatching, reader, inHand, drain,
                   batch, connVars, delivered, late, early>>

(* No session yet, or the backlog is still draining: keep the frame. *)
EnqueuePending(len) ==
    /\ Arrive(len)
    /\ ~closed
    /\ ~published \/ dispatching
    /\ pendingBytes + len <= MaxBytes
    /\ pending' = Append(pending, [id |-> arrived + 1, len |-> len])
    /\ pendingBytes' = pendingBytes + len
    /\ UNCHANGED <<closed, published, dispatching, reader, inHand, drain,
                   batch, connVars, delivered, late, early>>

(* The frame would pass the cap: drop it and go on to conn.Close(). *)
EnqueueOverflow(len) ==
    /\ Arrive(len)
    /\ ~closed
    /\ ~published \/ dispatching
    /\ pendingBytes + len > MaxBytes
    /\ reader' = "overflow"
    /\ UNCHANGED <<queueVars, inHand, drain, batch, connVars,
                   delivered, late, early>>

(* Mutant: the direct path does not wait for the drain goroutine. *)
MutantDirectWhileDraining(len) ==
    /\ Arrive(len)
    /\ ~closed
    /\ published
    /\ reader' = "deliver"
    /\ inHand' = [id |-> arrived + 1, len |-> len]
    /\ UNCHANGED <<queueVars, drain, batch, connVars,
                   delivered, late, early>>

(* A session is live and nothing drains: unlock, then call deliver. *)
EnqueueDirect(len) ==
    /\ Arrive(len)
    /\ ~closed
    /\ published
    /\ ~dispatching
    /\ reader' = "deliver"
    /\ inHand' = [id |-> arrived + 1, len |-> len]
    /\ UNCHANGED <<queueVars, drain, batch, connVars,
                   delivered, late, early>>

Enqueue(len) ==
    \/ EnqueueClosed(len)
    \/ EnqueuePending(len)
    \/ EnqueueOverflow(len)
    \/ EnqueueDirect(len)

(* The session takes a frame; what arrives after Close is counted. *)
Receive(frame) ==
    /\ delivered' = Append(delivered, frame.id)
    /\ late' = IF closed THEN late + 1 ELSE late

DeliverDirect ==
    /\ reader = "deliver"
    /\ Receive(inHand)
    /\ reader' = "idle"
    /\ UNCHANGED <<queueVars, inHand, drain, batch, connVars, arrived, early>>

-----------------------------------------------------------------------------
(* Publish and the goroutine it starts.                                    *)

(* Mutant: the queue is cleared before it is copied. *)
MutantTakeClearsFirst ==
    /\ batch' = <<>>
    /\ pending' = <<>>
    /\ pendingBytes' = 0

(* takePendingLocked *)
TakePending ==
    /\ batch' = pending
    /\ pending' = <<>>
    /\ pendingBytes' = 0

(* Mutant: published without marking the drain goroutine as running. *)
MutantPublishNotDispatching ==
    /\ ~published
    /\ ~closed
    /\ published' = TRUE
    /\ dispatching' = FALSE
    /\ TakePending
    /\ drain' = "loop"
    /\ early' = arrived
    /\ UNCHANGED <<closed, reader, inHand, connVars, arrived, delivered, late>>

Publish ==
    /\ ~published
    /\ ~closed
    /\ published' = TRUE
    /\ dispatching' = TRUE
    /\ TakePending
    /\ drain' = "loop"
    /\ early' = arrived
    /\ UNCHANGED <<closed, reader, inHand, connVars, arrived, delivered, late>>

(* Mutant: the backlog is delivered without looking at closed. *)
MutantDrainUnchecked ==
    /\ drain = "loop"
    /\ batch # <<>>
    /\ drain' = "deliver"
    /\ UNCHANGED <<queueVars, reader, inHand, batch, connVars,
                   arrived, delivered, late, early>>

(* Between two frames the goroutine looks at closed under the lock. *)
DrainCheck ==
    /\ drain = "loop"
    /\ batch # <<>>
    /\ drain' = IF closed THEN "exit" ELSE "deliver"
    /\ UNCHANGED <<queueVars, reader, inHand, batch, connVars,
                   arrived, delivered, late, early>>

DrainDeliver ==
    /\ drain = "deliver"
    /\ Receive(Head(batch))
    /\ batch' = Tail(batch)
    /\ drain' = "loop"
    /\ UNCHANGED <<queueVars, reader, inHand, connVars, arrived, early>>

(* The batch is done: stop when closed or nothing more is pending.  The    *)
(* lock is released before the deferred function takes it again.           *)
DrainTake ==
    /\ drain = "loop"
    /\ batch = <<>>
    /\ \/ /\ closed
          /\ drain' = "exit"
          /\ UNCHANGED <<batch, pending, pendingBytes>>
       \/ /\ ~closed
          /\ TakePending
          /\ drain' = IF pending = <<>> THEN "exit" ELSE "loop"
    /\ UNCHANGED <<closed, published, dispatching, reader, inHand, connVars,
                   arrived, delivered, late, early>>

(* The deferred function: its own critical section. *)
DrainExit ==
    /\ drain = "exit"
    /\ dispatching' = FALSE
    /\ drain' = "done"
    /\ UNCHANGED <<closed, published, pending, pendingBytes, reader, inHand,
                   batch, connVars, arrived, delivered, late, early>>

-----------------------------------------------------------------------------
(* Close, reached through the connection's callback or directly.           *)

(* The critical section of Queue.Close; a later call finds it closed. *)
CloseQueue ==
    /\ closed' = TRUE
    /\ pending' = IF closed THEN pending ELSE <<>>
    /\ pendingBytes' = IF closed THEN pendingBytes ELSE 0

(* fireClose on the reader after an overflow: the first caller goes on to  *)
(* run the onClose callback, any other returns.                            *)
OverflowFire ==
    /\ reader = "overflow"
    /\ reader' = IF fired THEN "idle" ELSE "closing"
    /\ fired' = TRUE
    /\ UNCHANGED <<queueVars, inHand, drain, batch, transport, owner,
                   arrived, delivered, late, early>>

(* The onClose callback closes the peer's queue. *)
OverflowClose ==
    /\ reader = "closing"
    /\ CloseQueue
    /\ reader' = "idle"
    /\ UNCHANGED <<published, dispatching, inHand, drain, batch, connVars,
                   arrived, delivered, late, early>>

(* The data channel closed or the peer connection reached a final state. *)
TransportFire ==
    /\ transport = "idle"
    /\ transport' = IF fired THEN "done" ELSE "closing"
    /\ fired' = TRUE
    /\ UNCHANGED <<queueVars, reader, inHand, drain, batch, owner,
                   arrived, delivered, late, early>>

TransportClose ==
    /\ transport = "closing"
    /\ CloseQueue
    /\ transport' = "done"
    /\ UNCHANGED <<published, dispatching, reader, inHand, drain, batch,
                   fired, owner, arrived, delivered, late, early>>

(* The owner closes the peer: Close's critical section, then conn.Close(). *)
OwnerClose ==
    /\ owner = "idle"
    /\ CloseQueue
    /\ owner' = IF closed THEN "done" ELSE "closing"
    /\ UNCHANGED <<published, dispatching, reader, inHand, drain, batch,
                   fired, transport, arrived, delivered, late, early>>

OwnerFire ==
    /\ owner = "closing"
    /\ fired' = TRUE
    /\ owner' = "done"
    /\ UNCHANGED <<queueVars, reader, inHand, drain, batch, transport,
                   arrived, delivered, late, early>>

-----------------------------------------------------------------------------

ReaderStep == DeliverDirect \/ OverflowFire \/ OverflowClose
DrainStep == DrainCheck \/ DrainDeliver \/ DrainTake \/ DrainExit
CloseStep == TransportClose \/ OwnerFire

Next ==
    \/ \E len \in Sizes : Enqueue(len)
    \/ ReaderStep
    \/ Publish
    \/ DrainStep
    \/ TransportFire
    \/ OwnerClose
    \/ CloseStep

Spec == Init /\ [][Next]_vars

(* A goroutine inside one of these functions keeps running: the Go         *)
(* scheduler runs it and the session's HandleMessage returns.  Arrival,    *)
(* publication and the decision to close are the environment's.            *)
Fairness ==
    /\ WF_vars(ReaderStep)
    /\ WF_vars(DrainStep)
    /\ WF_vars(CloseStep)

FairSpec == Spec /\ Fairness

-----------------------------------------------------------------------------
(* Properties.                                                             *)

(* Every variable stays within the values the Go fields can take; what a   *)
(* peer makes the listener hold stays within maxBytes.                     *)
TypeOK ==
    /\ closed \in BOOLEAN
    /\ published \in BOOLEAN
    /\ dispatching \in BOOLEAN
    /\ pending \in Seq(Frame)
    /\ pendingBytes \in 0..MaxBytes
    /\ reader \in {"idle", "deliver", "overflow", "closing"}
    /\ inHand \in Frame
    /\ drain \in {"none", "loop", "deliver", "exit", "done"}
    /\ batch \in Seq(Frame)
    /\ fired \in BOOLEAN
    /\ transport \in {"idle", "closing", "done"}
    /\ owner \in {"idle", "closing", "done"}
    /\ arrived \in Nat
    /\ delivered \in Seq(Nat)
    /\ late \in Nat
    /\ early \in Nat

(* Handing routing back to Enqueue's direct path never lets the reader and *)
(* the drain goroutine call the session at the same time: HandleMessage    *)
(* is not written for two frames at once.                                  *)
OneAtATime == ~(reader = "deliver" /\ drain = "deliver")

(* The session never receives a frame after a later one: whatever mix of   *)
(* backlog, drained and direct frames, delivery follows arrival order.     *)
InOrder ==
    \A i, j \in 1..Len(delivered) : i < j => delivered[i] < delivered[j]

(* Once Close has run, the session receives at most the one frame whose    *)
(* delivery had already passed the check of closed.                        *)
AtMostOneLate == late <= 1

(* What drain's comment promises of the hand-over to the direct path: no   *)
(* frame overtakes another.  While the connection is up, a frame the       *)
(* session receives is preceded by every frame that arrived before it.     *)
NoOvertaking ==
    ~fired /\ ~closed => delivered = [i \in 1..Len(delivered) |-> i]

(* Every frame held before Publish reaches the session, unless the peer is *)
(* closed meanwhile.                                                       *)
BacklogHandedOver ==
    published ~> (closed \/ (\A n \in 1..early : \E i \in DOMAIN delivered : delivered[i] = n))

=============================================================================
