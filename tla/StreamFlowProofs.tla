------------------------- MODULE StreamFlowProofs -------------------------
(***************************************************************************)
(* Proofs about StreamFlow, for every window, threshold, chunk size and    *)
(* queue limit that FlowAssumption allows and for either receiving end.    *)
(***************************************************************************)
EXTENDS StreamFlow, SequenceTheorems, WellFoundedInduction, TLAPS

(* The counters of the two ends, each on its own. *)
Counters ==
    /\ sent <= sendMax
    /\ advertised = lastUpdate + Window
    /\ lastUpdate <= consumed
    /\ consumed - lastUpdate < Threshold
    /\ FlowBytes(out) <= Chunk
    /\ writer = "reserve" => out.end = sent + FlowBytes(out)
    /\ writer = "send" => out.end = sent /\ FlowBytes(out) <= sent

(* A limit the sender uses or will use is one the receiver announced, and  *)
(* once the worker has nothing left to announce the newest one is under    *)
(* way or has arrived.                                                     *)
Limits ==
    /\ sendMax <= advertised
    /\ \A i \in 1..Len(grants) : grants[i] <= advertised
    /\ writer = "stopped" => failed # "no"
    /\ failed = "no" =>
         /\ \A i \in 1..Len(grants) : sendMax <= grants[i]
         /\ \A i, j \in 1..Len(grants) : i < j => grants[i] <= grants[j]
         /\ worker \notin {"grant", "done"} =>
              IF grants = <<>> THEN sendMax = advertised
              ELSE grants[Len(grants)] = advertised

(* Charged bytes put on the wire. *)
Put == IF writer = "send" THEN sent - FlowBytes(out) ELSE sent

(* The frames on the wire carry exactly the bytes between received and     *)
(* Put, and a FIN is the last of them.                                     *)
WireChain ==
    /\ \A i \in 1..Len(wire) : wire[i].end <= Put
    /\ \A i \in 1..Len(wire) :
         wire[i].kind = "FIN" => i = Len(wire) /\ writer = "finished"
    /\ failed = "no" =>
         /\ \A i \in 1..Len(wire) :
              wire[i].end = FlowBytes(wire[i])
                            + IF i = 1 THEN received ELSE wire[i - 1].end
         /\ IF wire = <<>> THEN received = Put ELSE wire[Len(wire)].end = Put
         /\ queuedFIN => wire = <<>> /\ writer = "finished"

(* Charged bytes the worker has taken out of the queue. *)
Taken == IF worker = "handle" THEN cur.end ELSE consumed

(* The frames in the queue carry exactly the bytes between Taken and       *)
(* received.                                                               *)
QueueChain ==
    failed = "no" =>
      /\ worker = "handle" => cur.end = consumed + FlowBytes(cur)
      /\ \A i \in 1..Len(queue) :
           queue[i].end = FlowBytes(queue[i])
                          + IF i = 1 THEN Taken ELSE queue[i - 1].end
      /\ IF queue = <<>> THEN received = Taken ELSE queue[Len(queue)].end = received

IndInv == TypeOK /\ Counters /\ Limits /\ WireChain /\ QueueChain

-----------------------------------------------------------------------------
(* Facts about sequences and frames.                                       *)

LEMMA AppendFacts ==
    ASSUME NEW S, NEW s \in Seq(S), NEW e \in S
    PROVE  /\ Append(s, e) \in Seq(S)
           /\ Append(s, e) # <<>>
           /\ Len(s) \in Nat
           /\ Len(Append(s, e)) = Len(s) + 1
           /\ \A i \in 1..Len(s) : Append(s, e)[i] = s[i]
           /\ Append(s, e)[Len(s) + 1] = e
  OBVIOUS

LEMMA TailFacts ==
    ASSUME NEW S, NEW s \in Seq(S), s # <<>>
    PROVE  /\ Head(s) \in S
           /\ Head(s) = s[1]
           /\ Tail(s) \in Seq(S)
           /\ Len(s) \in Nat /\ Len(s) >= 1
           /\ Len(Tail(s)) = Len(s) - 1
           /\ \A i \in 1..Len(Tail(s)) : Tail(s)[i] = s[i + 1]
           /\ (Tail(s) = <<>>) <=> (Len(s) = 1)
<1>1. /\ Head(s) \in S
      /\ Head(s) = s[1]
      /\ Tail(s) \in Seq(S)
      /\ Len(s) \in Nat /\ Len(s) >= 1
      /\ Len(Tail(s)) = Len(s) - 1
      /\ \A i \in 1..Len(Tail(s)) : Tail(s)[i] = s[i + 1]
  OBVIOUS
<1>2. (Tail(s) = <<>>) <=> (Len(Tail(s)) = 0)
  BY <1>1, EmptySeq
<1> QED
  BY <1>1, <1>2

LEMMA FrameFacts ==
    ASSUME NEW f \in Frame
    PROVE  /\ f.end \in Nat /\ f.len \in Nat /\ f.kind \in Kinds
           /\ FlowBytes(f) \in Nat
  BY DEF Frame, FlowBytes

LEMMA SeqFrameFacts ==
    ASSUME NEW s \in Seq(Frame)
    PROVE  \A i \in 1..Len(s) :
             s[i] \in Frame /\ s[i].end \in Nat /\ FlowBytes(s[i]) \in Nat
<1>1. \A i \in 1..Len(s) : s[i] \in Frame
  OBVIOUS
<1> QED
  BY <1>1, FrameFacts

-----------------------------------------------------------------------------

LEMMA TypeInit == Init => TypeOK
<1> SUFFICES ASSUME Init PROVE TypeOK
  OBVIOUS
<1>1. wire \in Seq(Frame) /\ queue \in Seq(Frame)
  BY DEF Init
<1>2. grants \in Seq(Nat)
  BY DEF Init
<1>3. NoFrame \in Frame
  BY DEF NoFrame, Frame, Kinds
<1>4. out \in Frame /\ cur \in Frame
  BY <1>3 DEF Init
<1>5. /\ queuedBytes \in Int /\ queuedBytes <= Window
      /\ queuedFrames \in Int /\ queuedFrames <= MaxFrames
      /\ sendMax \in Nat /\ advertised \in Nat
  BY FlowAssumption DEF Init
<1>6. /\ sent \in Nat /\ received \in Nat /\ consumed \in Nat /\ lastUpdate \in Nat
  BY DEF Init
<1>7. /\ writer = "start" /\ worker = "idle" /\ failed = "no" /\ queuedFIN = FALSE
      /\ receiver \in Receivers
  BY DEF Init
<1> QED
  BY <1>1, <1>2, <1>4, <1>5, <1>6, <1>7 DEF TypeOK

(* What one call of consume does to the counters. *)
LEMMA ConsumeFacts ==
    ASSUME TypeOK, Consume
    PROVE  /\ consumed' \in Nat /\ lastUpdate' \in Nat /\ advertised' \in Nat
           /\ consumed' = consumed + FlowBytes(cur)
           /\ \/ /\ consumed' - lastUpdate >= Threshold
                 /\ lastUpdate' = consumed'
                 /\ advertised' = consumed' + Window
              \/ /\ FlowBytes(cur) = 0 \/ consumed' - lastUpdate < Threshold
                 /\ lastUpdate' = lastUpdate
                 /\ advertised' = advertised
<1>1. FlowBytes(cur) \in Nat /\ Window \in Nat /\ Threshold \in Nat
  BY FrameFacts, FlowAssumption DEF TypeOK
<1>2. consumed \in Nat /\ lastUpdate \in Nat /\ advertised \in Nat
  BY DEF TypeOK
<1> QED
  BY <1>1, <1>2 DEF Consume

LEMMA TypeStep == TypeOK /\ [Next]_vars => TypeOK'
<1> SUFFICES ASSUME TypeOK, [Next]_vars PROVE TypeOK'
  OBVIOUS
<1> USE DEF TypeOK, vars, sendVars, recvVars, queueVars, workVars
<1>a. /\ Window \in Nat /\ Threshold \in Nat /\ Chunk \in Nat /\ MaxFrames \in Nat
      /\ SynSizes \subseteq Nat
  BY FlowAssumption
<1>b. FlowBytes(out) \in Nat /\ FlowBytes(cur) \in Nat /\ cur.len \in Nat
  BY FrameFacts
<1>1. ASSUME NEW kind \in Kinds, NEW len \in 0..Chunk \cup SynSizes, Write(kind, len)
      PROVE  TypeOK'
  <2>1. len \in Nat
    BY <1>a
  <2>2. out' \in Frame
    BY <1>1, <2>1 DEF Write, Frame, Kinds
  <2> QED
    BY <1>1, <2>2 DEF Write
<1>2. CASE ReserveSend
  BY <1>2, <1>b DEF ReserveSend
<1>3. CASE SendFrame
  BY <1>3, AppendFacts DEF SendFrame
<1>4. CASE ApplyGrant
  <2>1. Head(grants) \in Nat /\ Tail(grants) \in Seq(Nat)
    BY <1>4, TailFacts DEF ApplyGrant
  <2> QED
    BY <1>4, <2>1 DEF ApplyGrant
<1>5. CASE ApplyReset
  BY <1>5 DEF ApplyReset
<1>6. CASE Enqueue
  <2>1. Head(wire) \in Frame /\ Tail(wire) \in Seq(Frame)
    BY <1>6, TailFacts DEF Enqueue
  <2>2. FlowBytes(Head(wire)) \in Nat /\ Head(wire).len \in Nat
    BY <2>1, FrameFacts
  <2>3. ~queuedFIN /\ queuedFrames < MaxFrames /\ Head(wire).len <= Window - queuedBytes
    <3>1. Refusal(Head(wire)) = "no"
      BY <1>6 DEF Enqueue
    <3> QED
      BY <3>1, <2>2, <1>a DEF Refusal
  <2>4. queue' \in Seq(Frame)
    BY <1>6, <2>1, AppendFacts DEF Enqueue
  <2>5. queuedBytes' \in Int /\ queuedBytes' <= Window
    BY <1>6, <1>a, <2>2, <2>3 DEF Enqueue
  <2>6. queuedFrames' \in Int /\ queuedFrames' <= MaxFrames
    BY <1>6, <1>a, <2>3 DEF Enqueue
  <2> QED
    BY <1>6, <2>1, <2>2, <2>4, <2>5, <2>6 DEF Enqueue
<1>7. CASE EnqueueFails
  <2>1. Tail(wire) \in Seq(Frame)
    BY <1>7, TailFacts DEF EnqueueFails
  <2>2. Refusal(Head(wire)) \in {"no", "protocol_error", "flow_control_violation", "receive_overflow"}
    BY DEF Refusal
  <2> QED
    BY <1>7, <2>1, <2>2 DEF EnqueueFails
<1>8. CASE DropUnknown
  BY <1>8, TailFacts DEF DropUnknown
<1>9. CASE WorkerTake
  BY <1>9, TailFacts DEF WorkerTake
<1>10. CASE WorkerStops
  BY <1>10 DEF WorkerStops
<1>11. CASE ListenerHandled
  <2>1. consumed' \in Nat /\ lastUpdate' \in Nat /\ advertised' \in Nat
    BY <1>11, ConsumeFacts DEF ListenerHandled
  <2> QED
    BY <1>11, <2>1 DEF ListenerHandled
<1>12. CASE ListenerHandlerError
  BY <1>12, <1>a, <1>b DEF ListenerHandlerError
<1>13. CASE SendGrant
  BY <1>13, AppendFacts DEF SendGrant
<1>14. CASE Dequeued
  BY <1>14, <1>a, <1>b DEF Dequeued
<1>15. CASE ClientHandled
  <2>1. queuedBytes' \in Int /\ queuedBytes' <= Window
    BY <1>15, <1>a, <1>b DEF ClientHandled
  <2>2. queuedFrames' \in Int /\ queuedFrames' <= MaxFrames
    BY <1>15, <1>a DEF ClientHandled
  <2>3. consumed' \in Nat /\ lastUpdate' \in Nat /\ advertised' \in Nat
    BY <1>15, ConsumeFacts DEF ClientHandled
  <2> QED
    BY <1>15, <2>1, <2>2, <2>3 DEF ClientHandled
<1>16. CASE ClientAbandoned
  BY <1>16, <1>a, <1>b DEF ClientAbandoned
<1>17. CASE UNCHANGED vars
  BY <1>17
<1> QED
  BY <1>1, <1>2, <1>3, <1>4, <1>5, <1>6, <1>7, <1>8, <1>9, <1>10, <1>11,
     <1>12, <1>13, <1>14, <1>15, <1>16, <1>17
     DEF Next, SenderStep, ReceiverStep, WorkerStep

-----------------------------------------------------------------------------

LEMMA CountersStep == TypeOK /\ Counters /\ [Next]_vars => Counters'
<1> SUFFICES ASSUME TypeOK, Counters, [Next]_vars PROVE Counters'
  OBVIOUS
<1> USE DEF vars, sendVars, recvVars, queueVars, workVars
<1>a. /\ sent \in Nat /\ sendMax \in Nat /\ consumed \in Nat /\ lastUpdate \in Nat
      /\ advertised \in Nat
      /\ Window \in Nat /\ Threshold \in Nat \ {0} /\ Chunk \in Nat
      /\ FlowBytes(out) \in Nat /\ FlowBytes(cur) \in Nat /\ out.end \in Nat
  BY FlowAssumption, FrameFacts DEF TypeOK
<1>b. ASSUME UNCHANGED <<sent, sendMax, advertised, lastUpdate, consumed, out>>,
             writer' = writer \/ writer' \notin {"reserve", "send"}
      PROVE  Counters'
  BY <1>b DEF Counters, FlowBytes
<1>c. ASSUME Consume, UNCHANGED sendVars PROVE Counters'
  <2>1. /\ sent' <= sendMax'
        /\ advertised' = lastUpdate' + Window
        /\ lastUpdate' <= consumed'
        /\ consumed' - lastUpdate' < Threshold
    BY <1>a, <1>c, ConsumeFacts DEF Counters
  <2> QED
    BY <1>c, <2>1 DEF Counters, FlowBytes
<1>1. ASSUME NEW kind \in Kinds, NEW len \in 0..Chunk \cup SynSizes, Write(kind, len)
      PROVE  Counters'
  <2>1. /\ out' = [kind |-> kind, len |-> len,
                   end |-> IF kind = "SYN" THEN sent ELSE sent + len]
        /\ writer' = "reserve"
        /\ kind # "SYN" => len \in 0..Chunk
        /\ UNCHANGED <<sent, sendMax, advertised, lastUpdate, consumed>>
    BY <1>1, <1>a DEF Write
  <2>2. FlowBytes(out') = IF kind = "SYN" THEN 0 ELSE len
    BY <2>1 DEF FlowBytes
  <2>3. FlowBytes(out') <= Chunk /\ out'.end = sent' + FlowBytes(out')
    BY <1>a, <2>1, <2>2
  <2> QED
    BY <1>a, <2>1, <2>3 DEF Counters, FlowBytes
<1>2. CASE ReserveSend
  <2>1. /\ out' = out /\ writer = "reserve" /\ writer' = "send"
        /\ sent' = sent + FlowBytes(out)
        /\ FlowBytes(out) <= sendMax - sent
        /\ UNCHANGED <<sendMax, advertised, lastUpdate, consumed>>
    BY <1>2 DEF ReserveSend
  <2>2. FlowBytes(out') = FlowBytes(out) /\ out'.end = sent'
    BY <2>1 DEF Counters
  <2> QED
    BY <1>a, <2>1, <2>2 DEF Counters
<1>3. CASE SendFrame
  BY <1>3, <1>b DEF SendFrame
<1>4. CASE ApplyGrant
  <2>1. /\ UNCHANGED <<sent, writer, out, advertised, lastUpdate, consumed>>
        /\ sendMax' = sendMax \/ (sendMax' = Head(grants) /\ Head(grants) > sendMax)
    BY <1>4 DEF ApplyGrant
  <2>2. Head(grants) \in Nat
    BY <1>4, TailFacts DEF ApplyGrant, TypeOK
  <2>3. sent' <= sendMax'
    BY <1>a, <2>1, <2>2 DEF Counters
  <2> QED
    BY <2>1, <2>3 DEF Counters, FlowBytes
<1>5. CASE ApplyReset
  BY <1>5, <1>b DEF ApplyReset
<1>6. CASE Enqueue \/ EnqueueFails \/ DropUnknown
  BY <1>6, <1>b DEF Enqueue, EnqueueFails, DropUnknown
<1>7. CASE WorkerTake \/ WorkerStops \/ SendGrant \/ Dequeued
  BY <1>7, <1>b DEF WorkerTake, WorkerStops, SendGrant, Dequeued
<1>8. CASE ListenerHandled
  BY <1>8, <1>b, <1>c DEF ListenerHandled
<1>9. CASE ClientHandled
  BY <1>9, <1>c DEF ClientHandled
<1>10. CASE ListenerHandlerError \/ ClientAbandoned \/ UNCHANGED vars
  BY <1>10, <1>b DEF ListenerHandlerError, ClientAbandoned
<1> QED
  BY <1>1, <1>2, <1>3, <1>4, <1>5, <1>6, <1>7, <1>8, <1>9, <1>10
     DEF Next, SenderStep, ReceiverStep, WorkerStep

-----------------------------------------------------------------------------

LEMMA LimitsStep ==
    TypeOK /\ TypeOK' /\ Counters /\ Limits /\ [Next]_vars => Limits'
<1> SUFFICES ASSUME TypeOK, TypeOK', Counters, Limits, [Next]_vars PROVE Limits'
  OBVIOUS
<1> USE DEF vars, sendVars, recvVars, queueVars, workVars
<1>a. /\ sendMax \in Nat /\ advertised \in Nat /\ grants \in Seq(Nat)
      /\ Len(grants) \in Nat
      /\ \A i \in 1..Len(grants) : grants[i] \in Nat
      /\ consumed \in Nat /\ lastUpdate \in Nat
      /\ Window \in Nat /\ Threshold \in Nat \ {0}
      /\ FlowBytes(cur) \in Nat
  <2>1. grants \in Seq(Nat) /\ cur \in Frame
    BY DEF TypeOK
  <2>2. Len(grants) \in Nat /\ \A i \in 1..Len(grants) : grants[i] \in Nat
    BY <2>1
  <2>3. sendMax \in Nat /\ advertised \in Nat /\ consumed \in Nat /\ lastUpdate \in Nat
    BY DEF TypeOK
  <2>4. Window \in Nat /\ Threshold \in Nat \ {0}
    BY FlowAssumption
  <2> QED
    BY <2>1, <2>2, <2>3, <2>4, FrameFacts
<1>b. ASSUME UNCHANGED <<sendMax, advertised, grants>>,
             writer' = writer \/ writer' # "stopped",
             failed' # "no" \/ (failed' = failed /\ worker' = worker)
      PROVE  Limits'
  BY <1>b DEF Limits
<1>c. ASSUME Consume, UNCHANGED <<sendVars, grants, failed>>,
             worker' = "done" \/ (worker' = "grant" <=> lastUpdate' # lastUpdate),
             worker = "handle"
      PROVE  Limits'
  <2>1. advertised <= advertised' /\ advertised' \in Nat
    BY <1>a, <1>c, ConsumeFacts DEF Counters
  <2>2. worker' \notin {"grant", "done"} => advertised' = advertised
    BY <1>a, <1>c, ConsumeFacts DEF Counters
  <2>3. /\ sendMax' <= advertised'
        /\ \A i \in 1..Len(grants) : grants[i] <= advertised'
    BY <1>a, <1>c, <2>1 DEF Limits
  <2> QED
    BY <1>c, <2>2, <2>3 DEF Limits
<1>1. ASSUME NEW kind \in Kinds, NEW len \in 0..Chunk \cup SynSizes, Write(kind, len)
      PROVE  Limits'
  BY <1>1, <1>b DEF Write
<1>2. CASE ReserveSend \/ SendFrame
  BY <1>2, <1>b DEF ReserveSend, SendFrame
<1>3. CASE ApplyGrant
  <2>1. /\ grants # <<>> /\ grants' = Tail(grants)
        /\ UNCHANGED <<writer, advertised, worker, failed>>
        /\ sendMax' = IF writer # "stopped" /\ Head(grants) > sendMax
                      THEN Head(grants) ELSE sendMax
    BY <1>3 DEF ApplyGrant
  <2>2. /\ Head(grants) = grants[1] /\ Head(grants) \in Nat
        /\ Len(grants) >= 1
        /\ Len(grants') = Len(grants) - 1
        /\ \A i \in 1..Len(grants') : grants'[i] = grants[i + 1]
        /\ (grants' = <<>>) <=> (Len(grants) = 1)
    BY <1>a, <2>1, TailFacts
  <2>3. 1 \in 1..Len(grants)
    BY <1>a, <2>2
  <2>4. sendMax' <= advertised'
    BY <1>a, <2>1, <2>2, <2>3 DEF Limits
  <2>5. \A i \in 1..Len(grants') : i + 1 \in 1..Len(grants) /\ 1 < i + 1
    BY <1>a, <2>2
  <2>6. \A i \in 1..Len(grants') : grants'[i] <= advertised'
    BY <2>1, <2>2, <2>5 DEF Limits
  <2>7. ASSUME failed = "no"
        PROVE  /\ sendMax' = grants[1]
               /\ \A i \in 1..Len(grants') : sendMax' <= grants'[i]
               /\ \A i, j \in 1..Len(grants') : i < j => grants'[i] <= grants'[j]
               /\ worker \notin {"grant", "done"} =>
                    IF grants' = <<>> THEN sendMax' = advertised
                    ELSE grants'[Len(grants')] = advertised
    <3>1. writer # "stopped" /\ sendMax <= grants[1]
      BY <2>3, <2>7 DEF Limits
    <3>2. sendMax' = grants[1]
      <4>1. CASE grants[1] > sendMax
        BY <2>1, <2>2, <3>1, <4>1
      <4>2. CASE ~(grants[1] > sendMax)
        <5>1. sendMax' = sendMax
          BY <2>1, <2>2, <4>2
        <5>2. sendMax \in Nat /\ grants[1] \in Nat
          BY <1>a, <2>3
        <5> QED
          BY <3>1, <4>2, <5>1, <5>2
      <4> QED
        BY <4>1, <4>2
    <3>3. \A i \in 1..Len(grants') : sendMax' <= grants'[i]
      BY <2>2, <2>3, <2>5, <2>7, <3>2 DEF Limits
    <3>4. \A i, j \in 1..Len(grants') : i < j => grants'[i] <= grants'[j]
      <4> SUFFICES ASSUME NEW i \in 1..Len(grants'), NEW j \in 1..Len(grants'), i < j
                   PROVE  grants'[i] <= grants'[j]
        OBVIOUS
      <4>1. i + 1 < j + 1 /\ i + 1 \in 1..Len(grants) /\ j + 1 \in 1..Len(grants)
        BY <2>5
      <4> QED
        BY <2>2, <2>7, <4>1 DEF Limits
    <3>5. ASSUME worker \notin {"grant", "done"}
          PROVE  IF grants' = <<>> THEN sendMax' = advertised
                 ELSE grants'[Len(grants')] = advertised
      <4>1. grants[Len(grants)] = advertised
        BY <2>1, <2>7, <3>5 DEF Limits
      <4>2. CASE grants' = <<>>
        BY <2>2, <3>2, <4>1, <4>2
      <4>3. CASE grants' # <<>>
        <5>1. Len(grants') \in 1..Len(grants') /\ Len(grants') + 1 = Len(grants)
          BY <1>a, <2>2, <4>3
        <5> QED
          BY <2>2, <4>1, <4>3, <5>1
      <4> QED
        BY <4>2, <4>3
    <3> QED
      BY <3>2, <3>3, <3>4, <3>5
  <2>8. writer' = "stopped" => failed' # "no"
    BY <2>1 DEF Limits
  <2> QED
    BY <2>1, <2>4, <2>6, <2>7, <2>8 DEF Limits
<1>4. CASE ApplyReset
  BY <1>4 DEF ApplyReset, Limits
<1>5. CASE Enqueue \/ EnqueueFails \/ DropUnknown
  BY <1>5, <1>b DEF Enqueue, EnqueueFails, DropUnknown
<1>6. CASE WorkerTake \/ Dequeued
  BY <1>6 DEF WorkerTake, Dequeued, Limits
<1>7. CASE WorkerStops \/ ListenerHandlerError \/ ClientAbandoned
  <2>1. /\ UNCHANGED <<sendMax, advertised, grants, writer>> /\ failed' # "no"
    BY <1>7 DEF WorkerStops, ListenerHandlerError, ClientAbandoned
  <2> QED
    BY <1>b, <2>1
<1>8. CASE SendGrant
  <2>1. CASE grants' = Append(grants, advertised)
    <3>1. /\ Len(grants') = Len(grants) + 1 /\ grants' # <<>>
          /\ \A i \in 1..Len(grants) : grants'[i] = grants[i]
          /\ grants'[Len(grants')] = advertised
      BY <1>a, <2>1, AppendFacts
    <3>2. \A i \in 1..Len(grants') :
             (i \in 1..Len(grants) /\ grants'[i] = grants[i])
             \/ (i = Len(grants') /\ grants'[i] = advertised)
      BY <1>a, <3>1
    <3>3. UNCHANGED <<sendMax, advertised, writer, failed>>
      BY <1>8 DEF SendGrant
    <3>4. \A i \in 1..Len(grants') : grants'[i] <= advertised
      BY <1>a, <3>2 DEF Limits
    <3>5. failed = "no" => \A i \in 1..Len(grants') : sendMax <= grants'[i]
      BY <1>a, <3>2 DEF Limits
    <3>6. failed = "no" =>
            \A i, j \in 1..Len(grants') : i < j => grants'[i] <= grants'[j]
      <4> SUFFICES ASSUME failed = "no", NEW i \in 1..Len(grants'),
                          NEW j \in 1..Len(grants'), i < j
                   PROVE  grants'[i] <= grants'[j]
        OBVIOUS
      <4>1. i \in 1..Len(grants) /\ grants'[i] = grants[i]
        BY <1>a, <3>1, <3>2
      <4>2. CASE j \in 1..Len(grants) /\ grants'[j] = grants[j]
        BY <4>1, <4>2 DEF Limits
      <4>3. CASE grants'[j] = advertised
        BY <4>1, <4>3 DEF Limits
      <4> QED
        BY <3>2, <4>2, <4>3
    <3> QED
      BY <3>1, <3>3, <3>4, <3>5, <3>6 DEF Limits
  <2>2. CASE grants' = grants /\ failed # "no"
    BY <1>8, <2>2, <1>b DEF SendGrant
  <2> QED
    BY <1>8, <2>1, <2>2 DEF SendGrant
<1>9. CASE ListenerHandled
  <2>1. CASE failed = "no"
    <3>1. /\ Consume /\ UNCHANGED <<sendVars, grants, failed>> /\ worker = "handle"
          /\ worker' = IF lastUpdate' # lastUpdate THEN "grant" ELSE "release"
      BY <1>9, <2>1 DEF ListenerHandled
    <3> QED
      BY <1>c, <3>1
  <2>2. CASE failed # "no"
    BY <1>9, <2>2, <1>b DEF ListenerHandled
  <2> QED
    BY <2>1, <2>2
<1>10. CASE ClientHandled
  <2>1. /\ Consume /\ UNCHANGED <<sendVars, grants, failed>> /\ worker = "handle"
        /\ worker' = IF cur.kind = "FIN" THEN "done"
                     ELSE IF lastUpdate' # lastUpdate THEN "grant" ELSE "idle"
    BY <1>10 DEF ClientHandled
  <2> QED
    BY <1>c, <2>1
<1>11. CASE UNCHANGED vars
  BY <1>11 DEF Limits
<1> QED
  BY <1>1, <1>2, <1>3, <1>4, <1>5, <1>6, <1>7, <1>8, <1>9, <1>10, <1>11
     DEF Next, SenderStep, ReceiverStep, WorkerStep

-----------------------------------------------------------------------------

LEMMA WireStep ==
    TypeOK /\ Counters /\ WireChain /\ [Next]_vars => WireChain'
<1> SUFFICES ASSUME TypeOK, Counters, WireChain, [Next]_vars PROVE WireChain'
  OBVIOUS
<1> USE DEF vars, sendVars, recvVars, queueVars, workVars
<1>a. /\ wire \in Seq(Frame) /\ Len(wire) \in Nat /\ out \in Frame
      /\ sent \in Nat /\ received \in Nat
      /\ out.end \in Nat /\ FlowBytes(out) \in Nat
  BY FrameFacts DEF TypeOK
<1>b. \A i \in 1..Len(wire) :
        wire[i] \in Frame /\ wire[i].end \in Nat /\ FlowBytes(wire[i]) \in Nat
  BY <1>a, SeqFrameFacts
<1>c. ASSUME UNCHANGED <<wire, writer, sent, out, received, queuedFIN>>,
             failed' # "no" \/ failed' = failed
      PROVE  WireChain'
  <2>1. Put' = Put
    BY <1>c DEF Put, FlowBytes
  <2> QED
    BY <1>c, <2>1 DEF WireChain, FlowBytes
<1>d. ASSUME UNCHANGED <<wire, received, queuedFIN, failed>>, Put' = Put,
             writer \notin {"finished"},
             writer' # "stopped" \/ failed # "no"
      PROVE  WireChain'
  BY <1>d DEF WireChain, FlowBytes
<1>e. ASSUME wire # <<>>, wire' = Tail(wire), failed' # "no",
             UNCHANGED <<writer, sent, out>>
      PROVE  WireChain'
  <2>1. /\ Len(wire) >= 1 /\ Len(wire') = Len(wire) - 1
        /\ \A i \in 1..Len(wire') : wire'[i] = wire[i + 1]
    BY <1>a, <1>e, TailFacts
  <2>2. Put' = Put
    BY <1>e DEF Put, FlowBytes
  <2>3. \A i \in 1..Len(wire') : i + 1 \in 1..Len(wire)
    BY <1>a, <2>1
  <2>4. \A i \in 1..Len(wire') : wire'[i].end <= Put'
    BY <2>1, <2>2, <2>3 DEF WireChain
  <2>5. \A i \in 1..Len(wire') :
          wire'[i].kind = "FIN" => i = Len(wire') /\ writer' = "finished"
    <3> SUFFICES ASSUME NEW i \in 1..Len(wire'), wire'[i].kind = "FIN"
                 PROVE  i = Len(wire') /\ writer' = "finished"
      OBVIOUS
    <3>1. wire[i + 1].kind = "FIN" /\ i + 1 \in 1..Len(wire)
      BY <2>1, <2>3
    <3>2. i + 1 = Len(wire) /\ writer = "finished"
      BY <3>1 DEF WireChain
    <3>3. i = Len(wire')
      BY <1>a, <2>1, <3>2
    <3> QED
      BY <1>e, <3>2, <3>3
  <2> QED
    BY <1>e, <2>4, <2>5 DEF WireChain
<1>1. ASSUME NEW kind \in Kinds, NEW len \in 0..Chunk \cup SynSizes, Write(kind, len)
      PROVE  WireChain'
  <2>1. /\ UNCHANGED <<wire, received, queuedFIN, failed, sent>>
        /\ writer \in {"start", "open"} /\ writer' = "reserve"
    BY <1>1 DEF Write
  <2>2. Put' = Put
    BY <2>1 DEF Put
  <2> QED
    BY <1>d, <2>1, <2>2
<1>2. CASE ReserveSend
  <2>1. /\ UNCHANGED <<wire, received, queuedFIN, failed, out>>
        /\ writer = "reserve" /\ writer' = "send" /\ sent' = sent + FlowBytes(out)
    BY <1>2 DEF ReserveSend
  <2>2. FlowBytes(out') = FlowBytes(out)
    BY <2>1
  <2>3. Put' = Put
    BY <1>a, <2>1, <2>2 DEF Put
  <2> QED
    BY <1>d, <2>1, <2>3
<1>3. CASE SendFrame
  <2>1. /\ wire' = Append(wire, out)
        /\ writer = "send"
        /\ writer' = IF out.kind = "FIN" THEN "finished" ELSE "open"
        /\ UNCHANGED <<sent, out, received, queuedFIN, failed>>
    BY <1>3 DEF SendFrame
  <2>2. /\ Len(wire') = Len(wire) + 1 /\ wire' # <<>>
        /\ \A i \in 1..Len(wire) : wire'[i] = wire[i]
        /\ wire'[Len(wire')] = out
    BY <1>a, <2>1, AppendFacts
  <2>3. Put = sent - FlowBytes(out) /\ Put' = sent /\ out.end = sent /\ Put <= sent
    BY <1>a, <2>1 DEF Put, Counters
  <2>4. \A i \in 1..Len(wire') :
          \/ i \in 1..Len(wire) /\ wire'[i] = wire[i] /\ i # Len(wire')
          \/ i = Len(wire') /\ wire'[i] = out
    BY <1>a, <2>2
  <2>5. \A i \in 1..Len(wire') : wire'[i].end <= Put'
    <3> SUFFICES ASSUME NEW i \in 1..Len(wire') PROVE wire'[i].end <= Put'
      OBVIOUS
    <3>1. CASE i \in 1..Len(wire) /\ wire'[i] = wire[i]
      <4>1. wire[i].end <= Put /\ wire[i].end \in Nat
        BY <1>b, <3>1 DEF WireChain
      <4> QED
        BY <1>a, <2>3, <3>1, <4>1
    <3>2. CASE wire'[i] = out
      BY <1>a, <2>3, <3>2
    <3> QED
      BY <2>4, <3>1, <3>2
  <2>6. \A i \in 1..Len(wire') :
          wire'[i].kind = "FIN" => i = Len(wire') /\ writer' = "finished"
    BY <2>1, <2>4 DEF WireChain
  <2>7. ASSUME failed = "no"
        PROVE  \A i \in 1..Len(wire') :
                 wire'[i].end = FlowBytes(wire'[i])
                                + IF i = 1 THEN received ELSE wire'[i - 1].end
    <3> SUFFICES ASSUME NEW i \in 1..Len(wire')
                 PROVE  wire'[i].end = FlowBytes(wire'[i])
                                       + IF i = 1 THEN received ELSE wire'[i - 1].end
      OBVIOUS
    <3>1. CASE i \in 1..Len(wire) /\ wire'[i] = wire[i]
      <4>1. i # 1 => i - 1 \in 1..Len(wire) /\ wire'[i - 1] = wire[i - 1]
        BY <1>a, <2>2, <3>1
      <4> QED
        BY <2>7, <3>1, <4>1 DEF WireChain
    <3>2. CASE i = Len(wire') /\ wire'[i] = out
      <4>1. CASE wire = <<>>
        <5>1. i = 1 /\ received = Put
          BY <1>a, <2>2, <2>7, <3>2, <4>1 DEF WireChain
        <5> QED
          BY <1>a, <2>3, <3>2, <5>1
      <4>2. CASE wire # <<>>
        <5>1. i # 1 /\ i - 1 = Len(wire) /\ Len(wire) \in 1..Len(wire)
          BY <1>a, <2>2, <3>2, <4>2, EmptySeq
        <5>2. wire'[i - 1].end = Put
          BY <2>2, <2>7, <4>2, <5>1 DEF WireChain
        <5> QED
          BY <1>a, <2>3, <3>2, <5>1, <5>2
      <4> QED
        BY <4>1, <4>2
    <3> QED
      BY <2>4, <3>1, <3>2
  <2>8. failed = "no" => ~queuedFIN
    BY <2>1 DEF WireChain
  <2> QED
    BY <2>1, <2>2, <2>3, <2>5, <2>6, <2>7, <2>8 DEF WireChain
<1>4. CASE ApplyReset
  <2>1. /\ UNCHANGED <<wire, received, queuedFIN, failed, sent, out>>
        /\ writer \in {"start", "open", "reserve"} /\ writer' = "stopped" /\ failed # "no"
    BY <1>4 DEF ApplyReset
  <2>2. Put' = Put
    BY <2>1 DEF Put
  <2> QED
    BY <1>d, <2>1, <2>2
<1>5. CASE Enqueue
  <2>1. /\ wire # <<>> /\ wire' = Tail(wire) /\ failed = "no" /\ failed' = "no"
        /\ received' = received + FlowBytes(Head(wire))
        /\ queuedFIN' = (Head(wire).kind = "FIN")
        /\ UNCHANGED <<sent, writer, out>>
    BY <1>5 DEF Enqueue
  <2>2. /\ Head(wire) = wire[1] /\ Len(wire) >= 1
        /\ Len(wire') = Len(wire) - 1
        /\ \A i \in 1..Len(wire') : wire'[i] = wire[i + 1]
        /\ (wire' = <<>>) <=> (Len(wire) = 1)
    BY <1>a, <2>1, TailFacts
  <2>3. Put' = Put
    BY <2>1 DEF Put, FlowBytes
  <2>4. 1 \in 1..Len(wire) /\ Len(wire) \in 1..Len(wire)
    BY <1>a, <2>2
  <2>5. \A i \in 1..Len(wire') : i + 1 \in 1..Len(wire) /\ i + 1 # 1
    BY <1>a, <2>2
  <2>6. received' = wire[1].end
    <3>1. wire[1].end = FlowBytes(wire[1]) + received
      BY <2>1, <2>4 DEF WireChain
    <3>2. FlowBytes(wire[1]) \in Nat /\ received \in Nat
      BY <1>a, <1>b, <2>4
    <3>3. received' = received + FlowBytes(wire[1])
      BY <2>1, <2>2
    <3> QED
      BY <3>1, <3>2, <3>3
  <2>7. \A i \in 1..Len(wire') : wire'[i].end <= Put'
    BY <2>2, <2>3, <2>5 DEF WireChain
  <2>8. \A i \in 1..Len(wire') :
          wire'[i].kind = "FIN" => i = Len(wire') /\ writer' = "finished"
    <3> SUFFICES ASSUME NEW i \in 1..Len(wire'), wire'[i].kind = "FIN"
                 PROVE  i = Len(wire') /\ writer' = "finished"
      OBVIOUS
    <3>1. wire[i + 1].kind = "FIN" /\ i + 1 \in 1..Len(wire)
      BY <2>2, <2>5
    <3>2. i + 1 = Len(wire) /\ writer = "finished"
      BY <3>1 DEF WireChain
    <3>3. i = Len(wire')
      BY <1>a, <2>2, <3>2
    <3> QED
      BY <2>1, <3>2, <3>3
  <2>9. \A i \in 1..Len(wire') :
          wire'[i].end = FlowBytes(wire'[i])
                         + IF i = 1 THEN received' ELSE wire'[i - 1].end
    <3> SUFFICES ASSUME NEW i \in 1..Len(wire')
                 PROVE  wire'[i].end = FlowBytes(wire'[i])
                                       + IF i = 1 THEN received' ELSE wire'[i - 1].end
      OBVIOUS
    <3>1. wire[i + 1].end = FlowBytes(wire[i + 1]) + wire[i].end
      <4>1. (i + 1) - 1 = i
        BY <1>a, <2>2
      <4> QED
        BY <2>1, <2>5, <4>1 DEF WireChain
    <3>2. i # 1 => i - 1 \in 1..Len(wire') /\ (i - 1) + 1 = i
      BY <1>a, <2>2
    <3>3. i # 1 => wire'[i - 1] = wire[i]
      BY <2>2, <3>2
    <3> QED
      BY <2>2, <2>6, <3>1, <3>3
  <2>10. IF wire' = <<>> THEN received' = Put' ELSE wire'[Len(wire')].end = Put'
    <3>1. wire[Len(wire)].end = Put
      BY <2>1 DEF WireChain
    <3>2. CASE wire' = <<>>
      BY <2>2, <2>3, <2>6, <3>1, <3>2
    <3>3. CASE wire' # <<>>
      <4>1. Len(wire') \in 1..Len(wire') /\ Len(wire') + 1 = Len(wire)
        BY <1>a, <2>2, <3>3
      <4> QED
        BY <2>2, <2>3, <3>1, <3>3, <4>1
    <3> QED
      BY <3>2, <3>3
  <2>11. queuedFIN' => wire' = <<>> /\ writer' = "finished"
    BY <2>1, <2>2, <2>4 DEF WireChain
  <2> QED
    BY <2>7, <2>8, <2>9, <2>10, <2>11 DEF WireChain
<1>6. CASE EnqueueFails \/ DropUnknown
  BY <1>6, <1>e DEF EnqueueFails, DropUnknown
<1>7. CASE ApplyGrant \/ WorkerTake \/ WorkerStops \/ SendGrant \/ Dequeued
  BY <1>7, <1>c DEF ApplyGrant, WorkerTake, WorkerStops, SendGrant, Dequeued
<1>8. CASE ListenerHandled \/ ClientHandled \/ ClientAbandoned \/ ListenerHandlerError
  BY <1>8, <1>c DEF ListenerHandled, ClientHandled, ClientAbandoned, ListenerHandlerError
<1>9. CASE UNCHANGED vars
  BY <1>9, <1>c
<1> QED
  BY <1>1, <1>2, <1>3, <1>4, <1>5, <1>6, <1>7, <1>8, <1>9
     DEF Next, SenderStep, ReceiverStep, WorkerStep

-----------------------------------------------------------------------------

LEMMA QueueStep ==
    TypeOK /\ TypeOK' /\ WireChain /\ QueueChain /\ [Next]_vars => QueueChain'
<1> SUFFICES ASSUME TypeOK, TypeOK', WireChain, QueueChain, [Next]_vars, failed' = "no"
             PROVE  QueueChain'
  BY DEF QueueChain
<1> USE DEF vars, sendVars, recvVars, queueVars, workVars
<1>a. /\ queue \in Seq(Frame) /\ Len(queue) \in Nat /\ wire \in Seq(Frame)
      /\ received \in Nat /\ consumed \in Nat
      /\ cur \in Frame /\ cur.end \in Nat /\ FlowBytes(cur) \in Nat
  BY FrameFacts DEF TypeOK
<1>b. \A i \in 1..Len(queue) : queue[i].end \in Nat /\ FlowBytes(queue[i]) \in Nat
  BY <1>a, SeqFrameFacts
<1>c. ASSUME UNCHANGED <<queue, received, failed>>, Taken' = Taken, worker' # "handle"
      PROVE  QueueChain'
  BY <1>c DEF QueueChain, FlowBytes
<1>d. ASSUME UNCHANGED <<queue, received, failed, worker, cur, consumed>>
      PROVE  QueueChain'
  <2>1. Taken' = Taken
    BY <1>d DEF Taken
  <2> QED
    BY <1>d, <2>1 DEF QueueChain, FlowBytes
<1>e. ASSUME Consume, worker = "handle", worker' # "handle", failed = "no",
             UNCHANGED <<queue, received, failed>>
      PROVE  QueueChain'
  <2>1. cur.end = consumed + FlowBytes(cur)
    BY <1>e DEF QueueChain
  <2>2. Taken' = Taken
    BY <1>e, <2>1, ConsumeFacts DEF Taken
  <2> QED
    BY <1>c, <1>e, <2>2
<1>1. ASSUME NEW kind \in Kinds, NEW len \in 0..Chunk \cup SynSizes, Write(kind, len)
      PROVE  QueueChain'
  BY <1>1, <1>d DEF Write
<1>2. CASE ReserveSend \/ SendFrame \/ ApplyGrant \/ ApplyReset
  BY <1>2, <1>d DEF ReserveSend, SendFrame, ApplyGrant, ApplyReset
<1>3. CASE Enqueue
  <2> DEFINE f == Head(wire)
  <2>1. /\ wire # <<>> /\ failed = "no"
        /\ received' = received + FlowBytes(f)
        /\ queue' = Append(queue, f)
        /\ UNCHANGED <<worker, cur, consumed>>
    BY <1>3 DEF Enqueue
  <2>2. f \in Frame /\ f = wire[1] /\ 1 \in 1..Len(wire)
    BY <1>a, <2>1, TailFacts
  <2>3. FlowBytes(f) \in Nat /\ f.end \in Nat
    BY <2>2, FrameFacts
  <2>4. f.end = FlowBytes(f) + received
    BY <2>1, <2>2 DEF WireChain
  <2>5. /\ Len(queue') = Len(queue) + 1 /\ queue' # <<>>
        /\ \A i \in 1..Len(queue) : queue'[i] = queue[i]
        /\ queue'[Len(queue')] = f
    BY <1>a, <2>1, <2>2, AppendFacts
  <2>6. Taken' = Taken
    BY <2>1 DEF Taken
  <2>7. received' = f.end
    BY <1>a, <2>1, <2>3, <2>4
  <2>8. \A i \in 1..Len(queue') :
          queue'[i].end = FlowBytes(queue'[i])
                          + IF i = 1 THEN Taken ELSE queue'[i - 1].end
    <3> SUFFICES ASSUME NEW i \in 1..Len(queue')
                 PROVE  queue'[i].end = FlowBytes(queue'[i])
                                        + IF i = 1 THEN Taken ELSE queue'[i - 1].end
      OBVIOUS
    <3>1. CASE i \in 1..Len(queue)
      <4>1. i # 1 => i - 1 \in 1..Len(queue)
        BY <1>a, <3>1
      <4>2. i # 1 => queue'[i - 1] = queue[i - 1]
        BY <2>5, <4>1
      <4>3. queue'[i] = queue[i]
        BY <2>5, <3>1
      <4> QED
        BY <2>1, <3>1, <4>2, <4>3 DEF QueueChain
    <3>2. CASE i \notin 1..Len(queue)
      <4>1. i = Len(queue') /\ i - 1 = Len(queue) /\ queue'[i] = f
        BY <1>a, <2>5, <3>2
      <4>2. CASE queue = <<>>
        <5>1. i = 1 /\ received = Taken
          BY <1>a, <2>1, <4>1, <4>2 DEF QueueChain
        <5> QED
          BY <2>4, <4>1, <5>1
      <4>3. CASE queue # <<>>
        <5>1. i # 1 /\ Len(queue) \in 1..Len(queue)
          BY <1>a, <4>1, <4>3, EmptySeq
        <5>2. queue'[i - 1].end = received
          BY <2>1, <2>5, <4>1, <4>3, <5>1 DEF QueueChain
        <5> QED
          BY <2>4, <4>1, <5>1, <5>2
      <4> QED
        BY <4>2, <4>3
    <3> QED
      BY <3>1, <3>2
  <2>9. worker' = "handle" => cur'.end = consumed' + FlowBytes(cur')
    BY <2>1 DEF QueueChain
  <2> QED
    BY <2>5, <2>6, <2>7, <2>8, <2>9 DEF QueueChain
<1>4. CASE WorkerTake
  <2>1. /\ queue # <<>> /\ queue' = Tail(queue) /\ cur' = Head(queue)
        /\ worker = "idle" /\ worker' = "handle" /\ failed = "no"
        /\ UNCHANGED <<received, consumed>>
    BY <1>4 DEF WorkerTake
  <2>2. /\ Head(queue) = queue[1] /\ Len(queue) >= 1
        /\ Len(queue') = Len(queue) - 1
        /\ \A i \in 1..Len(queue') : queue'[i] = queue[i + 1]
        /\ (queue' = <<>>) <=> (Len(queue) = 1)
    BY <1>a, <2>1, TailFacts
  <2>3. 1 \in 1..Len(queue)
    BY <1>a, <2>2
  <2>4. Taken = consumed /\ Taken' = queue[1].end /\ cur' = queue[1]
    BY <2>1, <2>2 DEF Taken
  <2>5. cur'.end = consumed + FlowBytes(cur')
    <3>1. queue[1].end = FlowBytes(queue[1]) + consumed
      BY <2>1, <2>3, <2>4 DEF QueueChain
    <3>2. FlowBytes(queue[1]) \in Nat
      BY <1>b, <2>3
    <3>3. queue[1].end = consumed + FlowBytes(queue[1])
      BY <1>a, <3>1, <3>2
    <3> QED
      BY <2>4, <3>3
  <2>6. \A i \in 1..Len(queue') :
          queue'[i].end = FlowBytes(queue'[i])
                          + IF i = 1 THEN Taken' ELSE queue'[i - 1].end
    <3> SUFFICES ASSUME NEW i \in 1..Len(queue')
                 PROVE  queue'[i].end = FlowBytes(queue'[i])
                                        + IF i = 1 THEN Taken' ELSE queue'[i - 1].end
      OBVIOUS
    <3>1. i + 1 \in 1..Len(queue) /\ i + 1 # 1 /\ (i + 1) - 1 = i
      BY <1>a, <2>2
    <3>2. queue[i + 1].end = FlowBytes(queue[i + 1]) + queue[i].end
      BY <2>1, <3>1 DEF QueueChain
    <3>3. i # 1 => i - 1 \in 1..Len(queue') /\ (i - 1) + 1 = i
      BY <1>a, <2>2
    <3>4. i # 1 => queue'[i - 1] = queue[i]
      BY <2>2, <3>3
    <3> QED
      BY <2>2, <2>4, <3>2, <3>4
  <2>7. IF queue' = <<>> THEN received' = Taken' ELSE queue'[Len(queue')].end = received'
    <3>1. queue[Len(queue)].end = received
      BY <2>1 DEF QueueChain
    <3>2. CASE queue' = <<>>
      BY <2>1, <2>2, <2>4, <3>1, <3>2
    <3>3. CASE queue' # <<>>
      <4>1. Len(queue') \in 1..Len(queue') /\ Len(queue') + 1 = Len(queue)
        BY <1>a, <2>2, <3>3
      <4> QED
        BY <2>1, <2>2, <3>1, <3>3, <4>1
    <3> QED
      BY <3>2, <3>3
  <2> QED
    BY <2>1, <2>5, <2>6, <2>7 DEF QueueChain
<1>5. CASE SendGrant \/ Dequeued
  <2>1. /\ UNCHANGED <<queue, received, failed, consumed>>
        /\ worker # "handle" /\ worker' # "handle"
    BY <1>5 DEF SendGrant, Dequeued
  <2>2. Taken' = Taken
    BY <2>1 DEF Taken
  <2> QED
    BY <1>c, <2>1, <2>2
<1>6. CASE ListenerHandled
  <2>1. failed = "no"
    BY <1>6 DEF ListenerHandled
  <2>2. Consume /\ worker = "handle" /\ worker' # "handle"
    BY <1>6, <2>1 DEF ListenerHandled
  <2> QED
    BY <1>6, <1>e, <2>1, <2>2 DEF ListenerHandled
<1>7. CASE ClientHandled
  BY <1>7, <1>e DEF ClientHandled
<1>8. CASE EnqueueFails \/ DropUnknown \/ WorkerStops \/ ListenerHandlerError \/ ClientAbandoned
  BY <1>8 DEF EnqueueFails, DropUnknown, WorkerStops, ListenerHandlerError, ClientAbandoned
<1>9. CASE UNCHANGED vars
  BY <1>9, <1>d
<1> QED
  BY <1>1, <1>2, <1>3, <1>4, <1>5, <1>6, <1>7, <1>8, <1>9
     DEF Next, SenderStep, ReceiverStep, WorkerStep

-----------------------------------------------------------------------------
(* The sender's view of the window is never ahead of the receiver's.       *)

(* When a frame reaches the receiver, the window covers it. *)
LEMMA HeadCovered ==
    ASSUME IndInv, wire # <<>>, failed = "no"
    PROVE  /\ ~queuedFIN
           /\ FlowBytes(Head(wire)) <= advertised - received
<1>1. Head(wire) = wire[1] /\ 1 \in 1..Len(wire) /\ wire[1] \in Frame
  BY TailFacts DEF IndInv, TypeOK
<1>2. wire[1].end \in Nat /\ FlowBytes(wire[1]) \in Nat
  BY <1>1, FrameFacts
<1>3. wire[1].end = FlowBytes(wire[1]) + received /\ wire[1].end <= Put /\ ~queuedFIN
  BY <1>1 DEF IndInv, WireChain
<1>4. /\ sent \in Nat /\ FlowBytes(out) \in Nat /\ received \in Nat
      /\ sendMax \in Nat /\ advertised \in Nat
  BY FrameFacts DEF IndInv, TypeOK
<1>5. Put <= sent /\ Put \in Int
  BY <1>4 DEF Put
<1>6. sent <= sendMax /\ sendMax <= advertised
  BY DEF IndInv, Counters, Limits
<1> QED
  BY <1>1, <1>2, <1>3, <1>4, <1>5, <1>6

LEMMA Invariance == Spec => []IndInv
<1>1. Init => IndInv
  <2> SUFFICES ASSUME Init PROVE IndInv
    OBVIOUS
  <2>1. TypeOK
    BY TypeInit
  <2>2. FlowBytes(out) = 0
    BY DEF Init, NoFrame, FlowBytes
  <2>3. Counters
    BY <2>2, FlowAssumption DEF Init, Counters
  <2>4. Limits
    BY FlowAssumption DEF Init, Limits
  <2>5. WireChain
    BY DEF Init, WireChain, Put
  <2>6. QueueChain
    BY DEF Init, QueueChain, Taken
  <2> QED
    BY <2>1, <2>3, <2>4, <2>5, <2>6 DEF IndInv
<1>2. IndInv /\ [Next]_vars => IndInv'
  BY TypeStep, CountersStep, LimitsStep, WireStep, QueueStep DEF IndInv
<1> QED
  BY <1>1, <1>2, PTL DEF Spec

-----------------------------------------------------------------------------

(* Type correctness, and the receive queue's two bounds. *)
THEOREM TypeCorrect == Spec => []TypeOK
<1>1. IndInv => TypeOK
  BY DEF IndInv
<1> QED
  BY <1>1, Invariance, PTL

(* reserveSend and enqueue agree on the window for every window, threshold *)
(* and chunk size: a compliant sender is never failed with                 *)
(* flow_control_violation, nor for sending after its FIN.                  *)
THEOREM SenderNotAccused == Spec => []CompliantSenderNotAccused
<1>1. Init => CompliantSenderNotAccused
  BY DEF Init, CompliantSenderNotAccused
<1>2. IndInv /\ CompliantSenderNotAccused /\ [Next]_vars => CompliantSenderNotAccused'
  <2> SUFFICES ASSUME IndInv, CompliantSenderNotAccused, [Next]_vars
               PROVE  CompliantSenderNotAccused'
    OBVIOUS
  <2>1. CASE EnqueueFails
    <3>1. failed' = Refusal(Head(wire)) /\ wire # <<>> /\ failed = "no"
      BY <2>1 DEF EnqueueFails
    <3>2. /\ ~queuedFIN
          /\ FlowBytes(Head(wire)) <= advertised - received
      BY <3>1, HeadCovered
    <3>3. advertised \in Nat /\ received \in Nat /\ FlowBytes(Head(wire)) \in Nat
      BY <3>1, TailFacts, FrameFacts DEF IndInv, TypeOK
    <3>4. Refusal(Head(wire)) \in {"receive_overflow", "no"}
      BY <3>2, <3>3 DEF Refusal
    <3> QED
      BY <3>1, <3>4 DEF CompliantSenderNotAccused
  <2>2. CASE ListenerHandlerError
    BY <2>2 DEF ListenerHandlerError, CompliantSenderNotAccused
  <2>3. CASE UNCHANGED failed
    BY <2>3 DEF CompliantSenderNotAccused
  <2>4. EnqueueFails \/ ListenerHandlerError \/ UNCHANGED failed
    BY DEF Next, vars, SenderStep, ReceiverStep, WorkerStep, Write, ReserveSend,
           SendFrame, ApplyGrant, ApplyReset, Enqueue, DropUnknown, WorkerTake,
           WorkerStops, ListenerHandled, SendGrant, Dequeued, ClientHandled,
           ClientAbandoned
  <2> QED
    BY <2>1, <2>2, <2>3, <2>4
<1> QED
  BY <1>1, <1>2, Invariance, PTL DEF Spec

(* Sending a grant only every Threshold bytes cannot leave a writer        *)
(* waiting with nothing under way, as long as Chunk + Threshold is at most *)
(* Window + 1 (the code: 32768 + 524288 against 1048577).                  *)
THEOREM CreditNeverDeadlocks == Spec => []NoCreditDeadlock
<1>1. IndInv => NoCreditDeadlock
  <2> SUFFICES ASSUME IndInv, failed = "no", writer = "reserve", wire = <<>>,
                      queue = <<>>, worker = "idle", grants = <<>>
               PROVE  FlowBytes(out) <= sendMax - sent
    BY DEF NoCreditDeadlock
  <2>1. received = sent
    BY DEF IndInv, WireChain, Put
  <2>2. received = consumed
    BY DEF IndInv, QueueChain, Taken
  <2>3. sendMax = advertised
    BY DEF IndInv, Limits
  <2>4. /\ advertised = lastUpdate + Window
        /\ consumed - lastUpdate < Threshold
        /\ FlowBytes(out) <= Chunk
    BY DEF IndInv, Counters
  <2>5. /\ sent \in Nat /\ consumed \in Nat /\ lastUpdate \in Nat
        /\ FlowBytes(out) \in Nat
    BY FrameFacts DEF IndInv, TypeOK
  <2>6. /\ Window \in Nat /\ Threshold \in Nat /\ Chunk \in Nat
        /\ Chunk + Threshold <= Window + 1
    BY FlowAssumption
  <2> QED
    BY <2>1, <2>2, <2>3, <2>4, <2>5, <2>6
<1> QED
  BY <1>1, Invariance, PTL

-----------------------------------------------------------------------------
(* The bytes of a sequence.  Bytes is a recursive function, so its facts   *)
(* are inductions; they are done on sets of natural numbers.               *)

LEMMA SetInduction ==
    ASSUME NEW S, 0 \in S, \A n \in Nat : n \in S => n + 1 \in S
    PROVE  Nat \subseteq S
<1> DEFINE R == {p \in Nat \X Nat : p[1] < p[2]}
<1> DEFINE T == Nat \ S
<1>1. IsWellFoundedOn(R, Nat)
  BY NatLessThanWellFounded DEF OpToRel
<1>2. SUFFICES ASSUME T # {} PROVE FALSE
  OBVIOUS
<1>3. \A x, y \in Nat : y < x => <<y, x>> \in R
  OBVIOUS
<1> HIDE DEF R
<1>4. PICK x \in T : \A y \in T : ~ (<<y, x>> \in R)
  BY <1>1, <1>2, WFMin
<1>5. x \in Nat /\ x # 0
  OBVIOUS
<1>6. x - 1 \in Nat /\ x - 1 < x /\ (x - 1) + 1 = x
  BY <1>5
<1>7. x - 1 \in S
  BY <1>3, <1>4, <1>5, <1>6
<1> QED
  BY <1>4, <1>6, <1>7

(* f is the function of partial sums that Bytes computes, up to n. *)
SumsTo(f, s, n) ==
    f = [i \in 0..n |-> IF i = 0 THEN 0 ELSE f[i - 1] + s[i].len]

LEMMA SumsExist ==
    ASSUME NEW s \in Seq(Frame)
    PROVE  \E f : SumsTo(f, s, Len(s))
<1> DEFINE S == {n \in Nat : n <= Len(s) => \E f : SumsTo(f, s, n)}
<1>1. 0 \in S
  <2> DEFINE f == [i \in 0..0 |-> 0]
  <2>1. SumsTo(f, s, 0)
    BY DEF SumsTo
  <2> QED
    BY <2>1
<1>2. ASSUME NEW n \in Nat, n \in S PROVE n + 1 \in S
  <2> SUFFICES ASSUME n + 1 <= Len(s) PROVE \E g : SumsTo(g, s, n + 1)
    OBVIOUS
  <2>1. PICK f : SumsTo(f, s, n)
    BY <1>2
  <2> DEFINE g == [i \in 0..(n + 1) |->
                     IF i = 0 THEN 0 ELSE f[i - 1] + s[i].len]
  <2>2. \A i \in 0..n : g[i] = f[i]
    BY <2>1 DEF SumsTo
  <2>3. \A i \in 0..(n + 1) : i # 0 => i - 1 \in 0..n
    OBVIOUS
  <2>4. g = [i \in 0..(n + 1) |-> IF i = 0 THEN 0 ELSE g[i - 1] + s[i].len]
    BY <2>2, <2>3
  <2>5. SumsTo(g, s, n + 1)
    BY <2>4 DEF SumsTo
  <2> QED
    BY <2>5
<1> HIDE DEF S
<1>3. Nat \subseteq S
  BY <1>1, <1>2, SetInduction
<1>4. Len(s) \in Nat
  OBVIOUS
<1> QED
  BY <1>3, <1>4 DEF S

LEMMA BytesSums ==
    ASSUME NEW s \in Seq(Frame)
    PROVE  \E f : SumsTo(f, s, Len(s)) /\ Bytes(s) = f[Len(s)]
<1> DEFINE f == CHOOSE g : SumsTo(g, s, Len(s))
<1>1. SumsTo(f, s, Len(s))
  BY SumsExist
<1>2. Bytes(s) = f[Len(s)]
  BY DEF Bytes, SumsTo
<1> HIDE DEF f
<1> QED
  BY <1>1, <1>2

LEMMA SumsFacts ==
    ASSUME NEW s \in Seq(Frame), NEW f, SumsTo(f, s, Len(s))
    PROVE  /\ f[0] = 0
           /\ \A n \in Nat : n + 1 <= Len(s) => f[n + 1] = f[n] + s[n + 1].len
<1>1. Len(s) \in Nat
  OBVIOUS
<1>2. f[0] = 0
  BY <1>1 DEF SumsTo
<1>3. ASSUME NEW n \in Nat, n + 1 <= Len(s)
      PROVE  f[n + 1] = f[n] + s[n + 1].len
  <2>1. n + 1 \in 0..Len(s) /\ n + 1 # 0 /\ (n + 1) - 1 = n
    BY <1>1, <1>3
  <2> QED
    BY <2>1 DEF SumsTo
<1> QED
  BY <1>2, <1>3

LEMMA SumsNat ==
    ASSUME NEW s \in Seq(Frame), NEW f, SumsTo(f, s, Len(s))
    PROVE  \A n \in 0..Len(s) : f[n] \in Nat
<1> DEFINE S == {n \in Nat : n <= Len(s) => f[n] \in Nat}
<1>1. 0 \in S
  BY SumsFacts
<1>2. ASSUME NEW n \in Nat, n \in S PROVE n + 1 \in S
  <2> SUFFICES ASSUME n + 1 <= Len(s) PROVE f[n + 1] \in Nat
    OBVIOUS
  <2>1. f[n + 1] = f[n] + s[n + 1].len
    BY SumsFacts
  <2>2. Len(s) \in Nat /\ n <= Len(s) /\ n + 1 \in 1..Len(s)
    OBVIOUS
  <2>3. f[n] \in Nat
    BY <1>2, <2>2
  <2>4. s[n + 1].len \in Nat
    BY <2>2, SeqFrameFacts, FrameFacts
  <2> QED
    BY <2>1, <2>3, <2>4
<1> HIDE DEF S
<1>3. Nat \subseteq S
  BY <1>1, <1>2, SetInduction
<1> QED
  BY <1>3 DEF S

(* A sequence that continues another after its first k frames has the sum  *)
(* of those k frames more.                                                 *)
LEMMA SumsShift ==
    ASSUME NEW s \in Seq(Frame), NEW t \in Seq(Frame), NEW k \in Nat,
           k + Len(t) <= Len(s),
           \A i \in 1..Len(t) : s[k + i] = t[i],
           NEW f, SumsTo(f, s, Len(s)),
           NEW g, SumsTo(g, t, Len(t))
    PROVE  f[k + Len(t)] = f[k] + g[Len(t)]
<1> DEFINE S == {n \in Nat : n <= Len(t) => f[k + n] = f[k] + g[n]}
<1>0. Len(s) \in Nat /\ Len(t) \in Nat
  OBVIOUS
<1>a. \A n \in 0..Len(s) : f[n] \in Nat
  BY SumsNat
<1>b. \A n \in 0..Len(t) : g[n] \in Nat
  BY SumsNat
<1>1. 0 \in S
  <2>1. k \in 0..Len(s)
    BY <1>0
  <2>2. f[k] \in Nat /\ g[0] = 0
    BY <1>a, <2>1, SumsFacts
  <2> QED
    BY <2>2
<1>2. ASSUME NEW n \in Nat, n \in S PROVE n + 1 \in S
  <2> SUFFICES ASSUME n + 1 <= Len(t) PROVE f[k + (n + 1)] = f[k] + g[n + 1]
    OBVIOUS
  <2>1. f[k + n] = f[k] + g[n]
    BY <1>0, <1>2
  <2>2. k + n \in Nat /\ (k + n) + 1 <= Len(s) /\ (k + n) + 1 = k + (n + 1)
    BY <1>0
  <2>3. f[k + (n + 1)] = f[k + n] + s[k + (n + 1)].len
    BY <2>2, SumsFacts
  <2>4. g[n + 1] = g[n] + t[n + 1].len
    BY SumsFacts
  <2>5. n + 1 \in 1..Len(t) /\ n \in 0..Len(t) /\ k \in 0..Len(s)
    BY <1>0
  <2>6. s[k + (n + 1)] = t[n + 1] /\ t[n + 1].len \in Nat
    BY <2>5, SeqFrameFacts, FrameFacts
  <2>7. f[k] \in Nat /\ g[n] \in Nat
    BY <1>a, <1>b, <2>5
  <2> QED
    BY <2>1, <2>3, <2>4, <2>6, <2>7
<1> HIDE DEF S
<1>3. Nat \subseteq S
  BY <1>1, <1>2, SetInduction
<1> QED
  BY <1>0, <1>3 DEF S

LEMMA BytesEmpty == Bytes(<<>>) = 0
<1>1. <<>> \in Seq(Frame) /\ Len(<<>>) = 0
  OBVIOUS
<1>2. PICK f : SumsTo(f, <<>>, Len(<<>>)) /\ Bytes(<<>>) = f[Len(<<>>)]
  BY <1>1, BytesSums
<1> QED
  BY <1>1, <1>2, SumsFacts

LEMMA BytesNat ==
    ASSUME NEW s \in Seq(Frame) PROVE Bytes(s) \in Nat
<1>1. PICK f : SumsTo(f, s, Len(s)) /\ Bytes(s) = f[Len(s)]
  BY BytesSums
<1>2. Len(s) \in 0..Len(s)
  OBVIOUS
<1> QED
  BY <1>1, <1>2, SumsNat

LEMMA BytesAppend ==
    ASSUME NEW s \in Seq(Frame), NEW e \in Frame
    PROVE  Bytes(Append(s, e)) = Bytes(s) + e.len
<1> DEFINE t == Append(s, e)
<1>1. /\ t \in Seq(Frame) /\ Len(s) \in Nat /\ Len(t) = Len(s) + 1
      /\ \A i \in 1..Len(s) : t[i] = s[i]
      /\ t[Len(s) + 1] = e
  BY AppendFacts
<1> HIDE DEF t
<1>2. PICK f : SumsTo(f, s, Len(s)) /\ Bytes(s) = f[Len(s)]
  BY BytesSums
<1>3. PICK g : SumsTo(g, t, Len(t)) /\ Bytes(t) = g[Len(t)]
  BY <1>1, BytesSums
<1>4. \A i \in 1..Len(s) : t[0 + i] = s[i]
  BY <1>1
<1>5. g[0 + Len(s)] = g[0] + f[Len(s)]
  BY <1>1, <1>2, <1>3, <1>4, SumsShift
<1>6. g[0] = 0 /\ g[Len(s) + 1] = g[Len(s)] + t[Len(s) + 1].len
  BY <1>1, <1>3, SumsFacts
<1>7. f[Len(s)] \in Nat
  BY <1>2, BytesNat
<1>8. g[Len(s)] = f[Len(s)]
  BY <1>1, <1>5, <1>6, <1>7
<1>9. Bytes(t) = Bytes(s) + e.len
  BY <1>1, <1>2, <1>3, <1>6, <1>8
<1> QED
  BY <1>9 DEF t

LEMMA BytesTail ==
    ASSUME NEW s \in Seq(Frame), s # <<>>
    PROVE  Bytes(s) = Head(s).len + Bytes(Tail(s))
<1> DEFINE t == Tail(s)
<1>1. /\ t \in Seq(Frame) /\ Head(s) \in Frame /\ Head(s) = s[1]
      /\ Len(s) \in Nat /\ Len(t) \in Nat /\ Len(s) = 1 + Len(t)
      /\ \A i \in 1..Len(t) : s[1 + i] = t[i]
  BY TailFacts
<1> HIDE DEF t
<1>2. PICK f : SumsTo(f, s, Len(s)) /\ Bytes(s) = f[Len(s)]
  BY BytesSums
<1>3. PICK g : SumsTo(g, t, Len(t)) /\ Bytes(t) = g[Len(t)]
  BY <1>1, BytesSums
<1>4. f[1 + Len(t)] = f[1] + g[Len(t)]
  BY <1>1, <1>2, <1>3, SumsShift
<1>5. f[0] = 0 /\ f[0 + 1] = f[0] + s[0 + 1].len
  BY <1>1, <1>2, SumsFacts
<1>6. s[1].len \in Nat
  BY <1>1, FrameFacts
<1>7. f[1] = s[1].len
  BY <1>5, <1>6
<1>8. Bytes(s) = Head(s).len + Bytes(t)
  BY <1>1, <1>2, <1>3, <1>4, <1>7
<1> QED
  BY <1>8 DEF t

LEMMA BytesOne ==
    ASSUME NEW e \in Frame PROVE Bytes(<<e>>) = e.len
<1>1. <<e>> = Append(<<>>, e) /\ <<>> \in Seq(Frame)
  OBVIOUS
<1>2. e.len \in Nat
  BY FrameFacts
<1>3. Bytes(Append(<<>>, e)) = Bytes(<<>>) + e.len
  BY <1>1, BytesAppend
<1>4. Bytes(<<e>>) = Bytes(<<>>) + e.len
  BY <1>1, <1>3, Zenon
<1> QED
  BY <1>2, <1>4, BytesEmpty

-----------------------------------------------------------------------------
(* The queue counters.                                                     *)

Holding == worker \in {"handle", "release"}
             \/ (worker = "grant" /\ receiver = "listener")

(* What QueueAccounted says, without the sequence Held. *)
LEMMA AccountedAs ==
    ASSUME TypeOK
    PROVE  QueueAccounted <=>
             /\ queuedFrames = (IF Holding THEN 1 ELSE 0) + Len(queue)
             /\ queuedBytes = (IF Holding THEN cur.len ELSE 0) + Bytes(queue)
<1>1. cur \in Frame
  BY DEF TypeOK
<1>2. Bytes(<<cur>>) = cur.len /\ Bytes(<<>>) = 0
  BY <1>1, BytesOne, BytesEmpty
<1>3. Len(<<cur>>) = 1 /\ Len(<<>>) = 0
  OBVIOUS
<1>4. CASE Holding
  <2>1. Held = <<cur>>
    BY <1>4 DEF Holding, Held
  <2> QED
    BY <1>2, <1>3, <1>4, <2>1 DEF QueueAccounted
<1>5. CASE ~Holding
  <2>1. Held = <<>>
    BY <1>5 DEF Holding, Held
  <2> QED
    BY <1>2, <1>3, <1>5, <2>1 DEF QueueAccounted
<1> QED
  BY <1>4, <1>5

LEMMA AccountedStep ==
    ASSUME TypeOK, TypeOK', QueueAccounted, [Next]_vars
    PROVE  QueueAccounted'
<1> DEFINE frames == (IF Holding THEN 1 ELSE 0) + Len(queue)
<1> DEFINE bytes == (IF Holding THEN cur.len ELSE 0) + Bytes(queue)
<1>1. queuedFrames = frames /\ queuedBytes = bytes
  BY AccountedAs
<1>2. SUFFICES queuedFrames' = frames' /\ queuedBytes' = bytes'
  <2>1. (QueueAccounted <=> queuedFrames = frames /\ queuedBytes = bytes)'
    BY AccountedAs, PTL
  <2> QED
    BY <1>2, <2>1
<1>3. queue \in Seq(Frame) /\ cur \in Frame /\ wire \in Seq(Frame)
  BY DEF TypeOK
<1>4. Bytes(queue) \in Nat /\ cur.len \in Nat /\ Len(queue) \in Nat
  BY <1>3, BytesNat, FrameFacts
<1>5. CASE Enqueue
  <2>1. /\ wire # <<>>
        /\ queuedFrames' = queuedFrames + 1
        /\ queuedBytes' = queuedBytes + Head(wire).len
        /\ queue' = Append(queue, Head(wire))
        /\ worker' = worker /\ receiver' = receiver /\ cur' = cur
    BY <1>5 DEF Enqueue, workVars
  <2>2. Head(wire) \in Frame /\ Head(wire).len \in Nat
    BY <1>3, <2>1, TailFacts, FrameFacts
  <2>3. Bytes(queue') = Bytes(queue) + Head(wire).len /\ Len(queue') = Len(queue) + 1
    BY <1>3, <2>1, <2>2, BytesAppend, AppendFacts
  <2>4. Holding' = Holding
    BY <2>1 DEF Holding
  <2> QED
    BY <1>1, <1>4, <2>1, <2>2, <2>3, <2>4
<1>6. CASE WorkerTake
  <2>1. /\ ~Holding /\ Holding'
        /\ queue # <<>> /\ queue' = Tail(queue) /\ cur' = Head(queue)
        /\ queuedFrames' = queuedFrames /\ queuedBytes' = queuedBytes
    BY <1>6 DEF WorkerTake, Holding
  <2>2. Tail(queue) \in Seq(Frame) /\ Len(Tail(queue)) = Len(queue) - 1
    BY <1>3, <2>1, TailFacts
  <2>3. Bytes(queue) = Head(queue).len + Bytes(Tail(queue))
    BY <1>3, <2>1, BytesTail
  <2> QED
    BY <1>1, <1>4, <2>1, <2>2, <2>3
<1>7. CASE Dequeued \/ ClientHandled \/ ClientAbandoned \/ ListenerHandlerError
  <2>1. /\ Holding /\ ~Holding'
        /\ queuedFrames' = queuedFrames - 1
        /\ queuedBytes' = queuedBytes - cur.len
        /\ queue' = queue
    BY <1>7 DEF Dequeued, ClientHandled, ClientAbandoned, ListenerHandlerError, Holding
  <2> QED
    BY <1>1, <1>4, <2>1
<1>8. CASE ListenerHandled \/ SendGrant \/ WorkerStops
  <2>1. Holding' = Holding /\ UNCHANGED <<queuedFrames, queuedBytes, queue, cur>>
    BY <1>8 DEF ListenerHandled, SendGrant, WorkerStops, Holding, queueVars, TypeOK
  <2> QED
    BY <1>1, <2>1
<1>9. CASE UNCHANGED <<queuedFrames, queuedBytes, queue, worker, cur, receiver>>
  BY <1>1, <1>9 DEF Holding
<1>10. \/ Enqueue \/ WorkerTake
       \/ Dequeued \/ ClientHandled \/ ClientAbandoned \/ ListenerHandlerError
       \/ ListenerHandled \/ SendGrant \/ WorkerStops
       \/ UNCHANGED <<queuedFrames, queuedBytes, queue, worker, cur, receiver>>
  BY DEF Next, vars, SenderStep, ReceiverStep, WorkerStep, Write, ReserveSend,
         SendFrame, ApplyGrant, ApplyReset, EnqueueFails, DropUnknown,
         queueVars, workVars
<1> QED
  BY <1>5, <1>6, <1>7, <1>8, <1>9, <1>10

(* enqueue, dequeued and the client's consume keep the two counters of the *)
(* receive queue exact, for every sequence of frames, however the          *)
(* dispatcher, the worker and a failure of the stream interleave.          *)
THEOREM QueueIsAccounted == Spec => []QueueAccounted
<1>1. Init => QueueAccounted
  <2> SUFFICES ASSUME Init PROVE QueueAccounted
    OBVIOUS
  <2>1. ~Holding /\ queue = <<>> /\ queuedFrames = 0 /\ queuedBytes = 0
    BY DEF Init, Holding
  <2>2. TypeOK
    BY TypeInit
  <2> QED
    BY <2>1, <2>2, AccountedAs, BytesEmpty
<1>2. TypeOK /\ TypeOK' /\ QueueAccounted /\ [Next]_vars => QueueAccounted'
  BY AccountedStep
<1> QED
  BY <1>1, <1>2, TypeCorrect, PTL DEF Spec
=============================================================================
