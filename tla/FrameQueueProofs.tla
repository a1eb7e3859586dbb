------------------------- MODULE FrameQueueProofs -------------------------
(***************************************************************************)
(* Proofs about FrameQueue, for every cap, every set of frame lengths and  *)
(* every number of frames.                                                 *)
(***************************************************************************)
EXTENDS FrameQueue, TLAPS

(* dispatching is set exactly while the drain goroutine may still run, and *)
(* the reader delivers by itself only when that goroutine is done.         *)
Routing ==
    /\ published <=> drain # "none"
    /\ dispatching <=> drain \in {"loop", "deliver", "exit"}
    /\ drain = "deliver" => batch # <<>>
    /\ reader = "deliver" => drain = "done"

(* A frame received after Close was the only one in anybody's hands.       *)
Lateness ==
    /\ ~closed => late = 0
    /\ late <= 1
    /\ late = 1 => reader # "deliver" /\ drain # "deliver"

(* Everything received precedes what the drain goroutine holds, which      *)
(* precedes what is pending, which precedes what has yet to arrive.        *)
Ordering ==
    /\ InOrder
    /\ \A i \in 1..Len(delivered) : delivered[i] <= arrived
    /\ \A i \in 1..Len(pending) : pending[i].id <= arrived
    /\ \A i, j \in 1..Len(pending) : i < j => pending[i].id < pending[j].id
    /\ drain = "none" => delivered = <<>>
    /\ drain \in {"loop", "deliver"} =>
         /\ \A i \in 1..Len(batch) : batch[i].id <= arrived
         /\ \A i, j \in 1..Len(batch) : i < j => batch[i].id < batch[j].id
         /\ \A i \in 1..Len(batch), j \in 1..Len(pending) : batch[i].id < pending[j].id
         /\ \A i \in 1..Len(delivered), j \in 1..Len(batch) : delivered[i] < batch[j].id
         /\ \A i \in 1..Len(delivered), j \in 1..Len(pending) : delivered[i] < pending[j].id
    /\ reader = "deliver" =>
         /\ inHand.id = arrived
         /\ \A i \in 1..Len(delivered) : delivered[i] < arrived

IndInv == TypeOK /\ Routing /\ Lateness /\ Ordering

-----------------------------------------------------------------------------

LEMMA HeadTail ==
    ASSUME NEW S, NEW s \in Seq(S), s # <<>>
    PROVE  /\ Head(s) \in S
           /\ Head(s) = s[1]
           /\ Tail(s) \in Seq(S)
           /\ Len(s) \in Nat /\ Len(s) >= 1
           /\ Len(Tail(s)) = Len(s) - 1
           /\ \A i \in 1..Len(Tail(s)) : Tail(s)[i] = s[i + 1]
  OBVIOUS

(* Frame numbers are numbers. *)
LEMMA FrameIds ==
    ASSUME NEW s \in Seq(Frame)
    PROVE  \A i \in 1..Len(s) : s[i].id \in Nat
<1>1. \A i \in 1..Len(s) : s[i] \in Frame
  OBVIOUS
<1>2. \A f \in Frame : f.id \in Nat
  BY DEF Frame
<1> QED
  BY <1>1, <1>2

LEMMA TypeInit == Init => TypeOK
<1> SUFFICES ASSUME Init PROVE TypeOK
  OBVIOUS
<1>1. pendingBytes \in 0..MaxBytes
  BY ConstantsAssumption DEF Init
<1>2. pending \in Seq(Frame) /\ batch \in Seq(Frame)
  BY DEF Init
<1>3. delivered \in Seq(Nat)
  BY DEF Init
<1>4. inHand \in Frame
  BY DEF Init, NoFrame, Frame
<1> QED
  BY <1>1, <1>2, <1>3, <1>4 DEF Init, TypeOK

LEMMA TypeStep == TypeOK /\ Routing /\ [Next]_vars => TypeOK'
<1> SUFFICES ASSUME TypeOK, Routing, [Next]_vars PROVE TypeOK'
  OBVIOUS
<1> USE ConstantsAssumption DEF TypeOK, Frame, vars, queueVars, connVars
<1>1. ASSUME NEW len \in Sizes, EnqueueClosed(len) PROVE TypeOK'
  BY <1>1 DEF EnqueueClosed, Arrive
<1>2. ASSUME NEW len \in Sizes, EnqueuePending(len) PROVE TypeOK'
  BY <1>2 DEF EnqueuePending, Arrive
<1>3. ASSUME NEW len \in Sizes, EnqueueOverflow(len) PROVE TypeOK'
  BY <1>3 DEF EnqueueOverflow, Arrive
<1>4. ASSUME NEW len \in Sizes, EnqueueDirect(len) PROVE TypeOK'
  BY <1>4 DEF EnqueueDirect, Arrive
<1>5. CASE DeliverDirect
  BY <1>5 DEF DeliverDirect, Receive
<1>6. CASE OverflowFire
  BY <1>6 DEF OverflowFire
<1>7. CASE OverflowClose
  BY <1>7 DEF OverflowClose, CloseQueue
<1>8. CASE Publish
  <2>1. pending' \in Seq(Frame) /\ batch' \in Seq(Frame)
    BY <1>8 DEF Publish, TakePending
  <2>2. pendingBytes' \in 0..MaxBytes
    BY <1>8 DEF Publish, TakePending
  <2> QED
    BY <1>8, <2>1, <2>2 DEF Publish
<1>9. CASE DrainCheck
  BY <1>9 DEF DrainCheck
<1>10. CASE DrainDeliver
  <2>1. batch \in Seq(Frame) /\ batch # <<>>
    BY <1>10 DEF DrainDeliver, Routing
  <2>2. Head(batch) \in Frame /\ Tail(batch) \in Seq(Frame)
    BY <2>1, HeadTail
  <2>3. Head(batch).id \in Nat
    BY <2>2
  <2>4. delivered' \in Seq(Nat) /\ late' \in Nat
    BY <1>10, <2>3 DEF DrainDeliver, Receive
  <2> QED
    BY <1>10, <2>2, <2>4 DEF DrainDeliver
<1>11. CASE DrainTake
  <2>1. pending' \in Seq(Frame) /\ batch' \in Seq(Frame)
    BY <1>11 DEF DrainTake, TakePending
  <2>2. pendingBytes' \in 0..MaxBytes
    BY <1>11 DEF DrainTake, TakePending
  <2> QED
    BY <1>11, <2>1, <2>2 DEF DrainTake
<1>12. CASE DrainExit
  BY <1>12 DEF DrainExit
<1>13. CASE TransportFire
  BY <1>13 DEF TransportFire
<1>14. CASE TransportClose
  BY <1>14 DEF TransportClose, CloseQueue
<1>15. CASE OwnerClose
  BY <1>15 DEF OwnerClose, CloseQueue
<1>16. CASE OwnerFire
  BY <1>16 DEF OwnerFire
<1>17. CASE UNCHANGED vars
  BY <1>17
<1> QED
  BY <1>1, <1>2, <1>3, <1>4, <1>5, <1>6, <1>7, <1>8, <1>9, <1>10, <1>11,
     <1>12, <1>13, <1>14, <1>15, <1>16, <1>17
     DEF Next, Enqueue, ReaderStep, DrainStep, CloseStep

LEMMA RoutingStep == TypeOK /\ Routing /\ [Next]_vars => Routing'
<1> SUFFICES ASSUME TypeOK, Routing, [Next]_vars PROVE Routing'
  OBVIOUS
<1> USE DEF TypeOK, Routing, vars, queueVars, connVars
<1>1. ASSUME NEW len \in Sizes, EnqueueClosed(len) PROVE Routing'
  BY <1>1 DEF EnqueueClosed, Arrive
<1>2. ASSUME NEW len \in Sizes, EnqueuePending(len) PROVE Routing'
  BY <1>2 DEF EnqueuePending, Arrive
<1>3. ASSUME NEW len \in Sizes, EnqueueOverflow(len) PROVE Routing'
  BY <1>3 DEF EnqueueOverflow, Arrive
<1>4. ASSUME NEW len \in Sizes, EnqueueDirect(len) PROVE Routing'
  BY <1>4 DEF EnqueueDirect, Arrive
<1>5. CASE DeliverDirect
  BY <1>5 DEF DeliverDirect
<1>6. CASE OverflowFire
  BY <1>6 DEF OverflowFire
<1>7. CASE OverflowClose
  BY <1>7 DEF OverflowClose
<1>8. CASE Publish
  BY <1>8 DEF Publish
<1>9. CASE DrainCheck
  BY <1>9 DEF DrainCheck
<1>10. CASE DrainDeliver
  BY <1>10 DEF DrainDeliver
<1>11. CASE DrainTake
  BY <1>11 DEF DrainTake
<1>12. CASE DrainExit
  BY <1>12 DEF DrainExit
<1>13. CASE TransportFire
  BY <1>13 DEF TransportFire
<1>14. CASE TransportClose
  BY <1>14 DEF TransportClose
<1>15. CASE OwnerClose
  BY <1>15 DEF OwnerClose
<1>16. CASE OwnerFire
  BY <1>16 DEF OwnerFire
<1>17. CASE UNCHANGED vars
  BY <1>17
<1> QED
  BY <1>1, <1>2, <1>3, <1>4, <1>5, <1>6, <1>7, <1>8, <1>9, <1>10, <1>11,
     <1>12, <1>13, <1>14, <1>15, <1>16, <1>17
     DEF Next, Enqueue, ReaderStep, DrainStep, CloseStep

LEMMA LatenessStep == TypeOK /\ Routing /\ Lateness /\ [Next]_vars => Lateness'
<1> SUFFICES ASSUME TypeOK, Routing, Lateness, [Next]_vars PROVE Lateness'
  OBVIOUS
<1> USE DEF TypeOK, Routing, Lateness, vars, queueVars, connVars
<1>1. ASSUME NEW len \in Sizes, EnqueueClosed(len) PROVE Lateness'
  BY <1>1 DEF EnqueueClosed, Arrive
<1>2. ASSUME NEW len \in Sizes, EnqueuePending(len) PROVE Lateness'
  BY <1>2 DEF EnqueuePending, Arrive
<1>3. ASSUME NEW len \in Sizes, EnqueueOverflow(len) PROVE Lateness'
  BY <1>3 DEF EnqueueOverflow, Arrive
<1>4. ASSUME NEW len \in Sizes, EnqueueDirect(len) PROVE Lateness'
  BY <1>4 DEF EnqueueDirect, Arrive
<1>5. CASE DeliverDirect
  BY <1>5 DEF DeliverDirect, Receive
<1>6. CASE OverflowFire
  BY <1>6 DEF OverflowFire
<1>7. CASE OverflowClose
  BY <1>7 DEF OverflowClose, CloseQueue
<1>8. CASE Publish
  BY <1>8 DEF Publish
<1>9. CASE DrainCheck
  BY <1>9 DEF DrainCheck
<1>10. CASE DrainDeliver
  BY <1>10 DEF DrainDeliver, Receive
<1>11. CASE DrainTake
  BY <1>11 DEF DrainTake
<1>12. CASE DrainExit
  BY <1>12 DEF DrainExit
<1>13. CASE TransportFire
  BY <1>13 DEF TransportFire
<1>14. CASE TransportClose
  BY <1>14 DEF TransportClose, CloseQueue
<1>15. CASE OwnerClose
  BY <1>15 DEF OwnerClose, CloseQueue
<1>16. CASE OwnerFire
  BY <1>16 DEF OwnerFire
<1>17. CASE UNCHANGED vars
  BY <1>17
<1> QED
  BY <1>1, <1>2, <1>3, <1>4, <1>5, <1>6, <1>7, <1>8, <1>9, <1>10, <1>11,
     <1>12, <1>13, <1>14, <1>15, <1>16, <1>17
     DEF Next, Enqueue, ReaderStep, DrainStep, CloseStep

(* Appending a number larger than all the others keeps a sequence sorted. *)
LEMMA AppendLarger ==
    ASSUME NEW s \in Seq(Nat), NEW n \in Nat,
           \A i, j \in 1..Len(s) : i < j => s[i] < s[j],
           \A i \in 1..Len(s) : s[i] < n
    PROVE  LET t == Append(s, n) IN
           /\ Len(t) = Len(s) + 1
           /\ \A i \in 1..Len(s) : t[i] = s[i]
           /\ t[Len(s) + 1] = n
           /\ \A i, j \in 1..Len(t) : i < j => t[i] < t[j]
  OBVIOUS

(* The variables Ordering is about. *)
orderVars == <<delivered, arrived, pending, drain, batch, reader, inHand>>

LEMMA OrderingStep ==
    TypeOK /\ TypeOK' /\ Routing /\ Ordering /\ [Next]_vars => Ordering'
<1> SUFFICES ASSUME TypeOK, TypeOK', Routing, Ordering, [Next]_vars
             PROVE  Ordering'
  OBVIOUS
<1> USE DEF vars, queueVars, connVars
<1>a. /\ arrived \in Nat
      /\ delivered \in Seq(Nat)
      /\ \A i \in 1..Len(delivered) : delivered[i] \in Nat
      /\ \A i \in 1..Len(pending) : pending[i].id \in Nat
      /\ \A i \in 1..Len(batch) : batch[i].id \in Nat
      /\ Len(pending) \in Nat /\ Len(batch) \in Nat /\ Len(delivered) \in Nat
  <2>1. /\ arrived \in Nat /\ delivered \in Seq(Nat)
        /\ pending \in Seq(Frame) /\ batch \in Seq(Frame)
    BY DEF TypeOK
  <2>2. Len(delivered) \in Nat /\ \A i \in 1..Len(delivered) : delivered[i] \in Nat
    BY <2>1
  <2>3. Len(pending) \in Nat /\ \A i \in 1..Len(pending) : pending[i].id \in Nat
    BY <2>1, FrameIds
  <2>4. Len(batch) \in Nat /\ \A i \in 1..Len(batch) : batch[i].id \in Nat
    BY <2>1, FrameIds
  <2> QED
    BY <2>1, <2>2, <2>3, <2>4
<1>1. ASSUME UNCHANGED orderVars PROVE Ordering'
  BY <1>1 DEF Ordering, InOrder, orderVars
<1>2. ASSUME NEW len \in Sizes, EnqueueClosed(len) PROVE Ordering'
  <2>1. /\ arrived' = arrived + 1 /\ reader = "idle" /\ reader' # "deliver"
        /\ UNCHANGED <<delivered, pending, drain, batch>>
    BY <1>2 DEF EnqueueClosed, Arrive
  <2> QED
    BY <1>a, <2>1 DEF Ordering, InOrder
<1>3. ASSUME NEW len \in Sizes, EnqueuePending(len) PROVE Ordering'
  <2>1. /\ arrived' = arrived + 1 /\ reader # "deliver" /\ reader' = reader
        /\ UNCHANGED <<delivered, drain, batch>>
        /\ pending' = Append(pending, [id |-> arrived + 1, len |-> len])
    BY <1>3 DEF EnqueuePending, Arrive
  <2>2. /\ Len(pending') = Len(pending) + 1
        /\ pending'[Len(pending) + 1].id = arrived + 1
        /\ \A i \in 1..Len(pending) : pending'[i] = pending[i]
    BY <2>1 DEF TypeOK
  <2>3. \A i \in 1..Len(pending') :
           \/ i \in 1..Len(pending) /\ pending'[i] = pending[i]
           \/ i = Len(pending) + 1 /\ pending'[i].id = arrived + 1
    BY <2>2, <1>a
  <2>4. \A i \in 1..Len(pending') : pending'[i].id <= arrived'
    BY <1>a, <2>1, <2>3 DEF Ordering
  <2>5. \A i, j \in 1..Len(pending') : i < j => pending'[i].id < pending'[j].id
    BY <1>a, <2>1, <2>2, <2>3 DEF Ordering
  <2>6. drain \in {"loop", "deliver"} =>
          /\ \A i \in 1..Len(batch), j \in 1..Len(pending') : batch[i].id < pending'[j].id
          /\ \A i \in 1..Len(delivered), j \in 1..Len(pending') : delivered[i] < pending'[j].id
    BY <1>a, <2>1, <2>3 DEF Ordering
  <2>7. /\ \A i \in 1..Len(delivered) : delivered[i] <= arrived'
        /\ drain \in {"loop", "deliver"} =>
              \A i \in 1..Len(batch) : batch[i].id <= arrived'
    BY <1>a, <2>1 DEF Ordering
  <2> QED
    BY <2>1, <2>4, <2>5, <2>6, <2>7 DEF Ordering, InOrder
<1>4. ASSUME NEW len \in Sizes, EnqueueOverflow(len) PROVE Ordering'
  <2>1. /\ arrived' = arrived + 1 /\ reader = "idle" /\ reader' # "deliver"
        /\ UNCHANGED <<delivered, pending, drain, batch>>
    BY <1>4 DEF EnqueueOverflow, Arrive
  <2> QED
    BY <1>a, <2>1 DEF Ordering, InOrder
<1>5. ASSUME NEW len \in Sizes, EnqueueDirect(len) PROVE Ordering'
  <2>1. /\ arrived' = arrived + 1 /\ inHand'.id = arrived + 1
        /\ UNCHANGED <<delivered, pending, drain, batch>>
    BY <1>5 DEF EnqueueDirect, Arrive
  <2> QED
    BY <1>a, <2>1 DEF Ordering, InOrder
<1>6. CASE DeliverDirect
  <2>1. /\ delivered' = Append(delivered, inHand.id)
        /\ inHand.id = arrived
        /\ \A i \in 1..Len(delivered) : delivered[i] < inHand.id
        /\ drain = "done" /\ drain' = drain /\ reader' = "idle"
        /\ UNCHANGED <<pending, batch, arrived>>
    BY <1>6 DEF DeliverDirect, Receive, Ordering, Routing
  <2>2. delivered \in Seq(Nat) /\ inHand.id \in Nat
    BY DEF TypeOK, Frame
  <2>3. /\ InOrder'
        /\ \A i \in 1..Len(delivered') : delivered'[i] <= arrived
    BY <2>1, <2>2, AppendLarger DEF Ordering, InOrder
  <2> QED
    BY <2>1, <2>3 DEF Ordering
<1>7. CASE OverflowFire
  BY <1>7 DEF OverflowFire, Ordering, InOrder
<1>8. CASE OverflowClose \/ TransportClose \/ OwnerClose
  <2>1. /\ pending' = pending \/ pending' = <<>>
        /\ UNCHANGED <<delivered, arrived, drain, batch, inHand>>
        /\ reader' = reader \/ reader' = "idle"
    BY <1>8 DEF OverflowClose, TransportClose, OwnerClose, CloseQueue
  <2> QED
    BY <2>1 DEF Ordering, InOrder
<1>9. CASE Publish
  <2>1. delivered = <<>> /\ drain = "none"
    BY <1>9 DEF Publish, Routing, Ordering
  <2>2. /\ delivered' = <<>> /\ drain' = "loop"
        /\ batch' = pending /\ pending' = <<>>
        /\ reader' = reader /\ reader # "deliver" /\ arrived' = arrived
    BY <1>9, <2>1 DEF Publish, TakePending, Routing
  <2> QED
    BY <2>2 DEF Ordering, InOrder
<1>10. CASE DrainCheck
  BY <1>10 DEF DrainCheck, Ordering, InOrder
<1>11. CASE DrainDeliver
  <2> DEFINE n == Head(batch).id
  <2>1. /\ delivered' = Append(delivered, n)
        /\ batch' = Tail(batch)
        /\ drain = "deliver" /\ drain' = "loop"
        /\ UNCHANGED <<pending, reader, arrived>>
        /\ reader # "deliver"
    BY <1>11 DEF DrainDeliver, Receive, Routing
  <2>2. batch \in Seq(Frame) /\ batch # <<>>
    BY <2>1 DEF TypeOK, Routing
  <2>3. /\ Head(batch) = batch[1]
        /\ Len(batch) >= 1
        /\ Len(batch') = Len(batch) - 1
        /\ \A i \in 1..Len(batch') : batch'[i] = batch[i + 1]
    BY <2>1, <2>2, HeadTail
  <2>a. 1 \in 1..Len(batch) /\ n = batch[1].id
    BY <1>a, <2>3
  <2>b. n \in Nat /\ n <= arrived
    BY <1>a, <2>1, <2>a DEF Ordering
  <2>c. \A i \in 1..Len(delivered) : delivered[i] < n
    BY <2>1, <2>a DEF Ordering
  <2>d. \A j \in 1..Len(pending) : n < pending[j].id
    BY <2>1, <2>a DEF Ordering
  <2>e. \A j \in 1..Len(batch') : n < batch'[j].id
    <3> SUFFICES ASSUME NEW j \in 1..Len(batch') PROVE n < batch'[j].id
      OBVIOUS
    <3>1. j + 1 \in 1..Len(batch) /\ 1 < j + 1 /\ batch'[j] = batch[j + 1]
      BY <1>a, <2>3
    <3> QED
      BY <3>1, <2>1, <2>a DEF Ordering
  <2>4. /\ n \in Nat /\ n <= arrived
        /\ \A i \in 1..Len(delivered) : delivered[i] < n
        /\ \A j \in 1..Len(pending) : n < pending[j].id
        /\ \A j \in 1..Len(batch') : n < batch'[j].id
    BY <2>b, <2>c, <2>d, <2>e
  <2>5. /\ InOrder'
        /\ Len(delivered') = Len(delivered) + 1
        /\ \A i \in 1..Len(delivered) : delivered'[i] = delivered[i]
        /\ delivered'[Len(delivered) + 1] = n
    BY <1>a, <2>1, <2>4, AppendLarger DEF Ordering, InOrder
  <2>6. \A i \in 1..Len(delivered') : delivered'[i] <= arrived
    BY <1>a, <2>4, <2>5 DEF Ordering
  <2>7. \A i \in 1..Len(delivered'), j \in 1..Len(pending) : delivered'[i] < pending[j].id
    BY <1>a, <2>1, <2>4, <2>5 DEF Ordering
  <2>8. \A i \in 1..Len(delivered'), j \in 1..Len(batch') : delivered'[i] < batch'[j].id
    <3> SUFFICES ASSUME NEW i \in 1..Len(delivered'), NEW j \in 1..Len(batch')
                 PROVE  delivered'[i] < batch'[j].id
      OBVIOUS
    <3>1. CASE i = Len(delivered) + 1
      BY <3>1, <2>4, <2>5
    <3>2. CASE i # Len(delivered) + 1
      <4>1. i \in 1..Len(delivered) /\ delivered'[i] = delivered[i]
        BY <3>2, <2>4, <2>5
      <4>2. j + 1 \in 1..Len(batch) /\ batch'[j] = batch[j + 1]
        BY <2>2, <2>3
      <4> QED
        BY <4>1, <4>2, <2>1 DEF Ordering
    <3> QED
      BY <3>1, <3>2
  <2>9. /\ \A i \in 1..Len(batch') : batch'[i].id <= arrived
        /\ \A i, j \in 1..Len(batch') : i < j => batch'[i].id < batch'[j].id
        /\ \A i \in 1..Len(batch'), j \in 1..Len(pending) : batch'[i].id < pending[j].id
    BY <2>1, <2>2, <2>3 DEF Ordering
  <2> QED
    BY <2>1, <2>5, <2>6, <2>7, <2>8, <2>9 DEF Ordering
<1>12. CASE DrainTake
  <2>1. CASE closed
    BY <1>12, <2>1 DEF DrainTake, Ordering, InOrder
  <2>2. CASE ~closed
    <3>1. /\ batch' = pending /\ pending' = <<>>
          /\ drain = "loop" /\ drain' \in {"loop", "exit"}
          /\ UNCHANGED <<delivered, reader, inHand, arrived>>
      BY <1>12, <2>2 DEF DrainTake, TakePending
    <3> QED
      BY <3>1 DEF Ordering, InOrder
  <2> QED
    BY <2>1, <2>2
<1>13. CASE DrainExit
  BY <1>13 DEF DrainExit, Ordering, InOrder
<1>14. CASE TransportFire \/ OwnerFire \/ UNCHANGED vars
  BY <1>1, <1>14 DEF TransportFire, OwnerFire, orderVars
<1> QED
  BY <1>2, <1>3, <1>4, <1>5, <1>6, <1>7, <1>8, <1>9, <1>10, <1>11,
     <1>12, <1>13, <1>14
     DEF Next, Enqueue, ReaderStep, DrainStep, CloseStep

-----------------------------------------------------------------------------

LEMMA Invariance == Spec => []IndInv
<1>1. Init => IndInv
  BY TypeInit DEF Init, IndInv, Routing, Lateness, Ordering, InOrder
<1>2. IndInv /\ [Next]_vars => IndInv'
  BY TypeStep, RoutingStep, LatenessStep, OrderingStep DEF IndInv
<1> QED
  BY <1>1, <1>2, PTL DEF Spec

(* Type correctness, and the cap: what Enqueue keeps for a peer never      *)
(* exceeds maxBytes.                                                       *)
THEOREM TypeCorrect == Spec => []TypeOK
<1>1. IndInv => TypeOK
  BY DEF IndInv
<1> QED
  BY <1>1, Invariance, PTL

(* The drain goroutine and Enqueue's direct path never call the session    *)
(* at the same time.                                                       *)
THEOREM DeliveryExclusive == Spec => []OneAtATime
<1>1. IndInv => OneAtATime
  BY DEF IndInv, Routing, OneAtATime
<1> QED
  BY <1>1, Invariance, PTL

(* The session receives frames in the order the data channel handed them   *)
(* over, through the backlog, the drain goroutine and the direct path.     *)
THEOREM DeliveryInOrder == Spec => []InOrder
<1>1. IndInv => InOrder
  BY DEF IndInv, Ordering
<1> QED
  BY <1>1, Invariance, PTL

(* After Close the session receives at most one more frame. *)
THEOREM LateDeliveryBounded == Spec => []AtMostOneLate
<1>1. IndInv => AtMostOneLate
  BY DEF IndInv, Lateness, AtMostOneLate
<1> QED
  BY <1>1, Invariance, PTL
=============================================================================
