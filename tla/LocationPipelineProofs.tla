----------------------- MODULE LocationPipelineProofs -----------------------
(***************************************************************************)
(* What LocationPipeline guarantees for every set of devices, points,      *)
(* connections and every limit: its type correctness, its safety           *)
(* properties, and that it implements PointDelivery.                       *)
(***************************************************************************)
EXTENDS LocationPipeline, SequenceTheorems, TLAPS

TypeInv == TypeOK /\ ReadyHasAttemptLeft

-----------------------------------------------------------------------------
(***************************************************************************)
(* Facts about the bus operators.                                          *)
(***************************************************************************)

\* A function on 1 .. n is a sequence of length n.
LEMMA FunctionIsSeq ==
  ASSUME NEW S, NEW n \in Nat, NEW f \in [1 .. n -> S]
  PROVE  f \in Seq(S) /\ Len(f) = n
<1>1. f \in Seq(S)
  BY SeqDef
<1>2. Len(f) \in Nat /\ DOMAIN f = 1 .. Len(f)
  BY <1>1, LenProperties
<1>3. Len(f) = n
  <2>1. 1 .. n = 1 .. Len(f)
    BY <1>2
  <2> QED BY <2>1, <1>2
<1> QED BY <1>1, <1>3

\* The domains of the stream and of the consumer's state coincide.
LEMMA BusDomains ==
  ASSUME BusTypeOK
  PROVE  /\ Len(stream) \in Nat
         /\ DOMAIN stream = 1 .. Len(stream)
         /\ DOMAIN delivery = 1 .. Len(stream)
         /\ \A i \in DOMAIN stream : stream[i] \in Body /\ delivery[i] \in Delivery
BY LenProperties DEF BusTypeOK

\* Enqueue adds one message, ready and never delivered, and keeps the others.
LEMMA EnqueueFacts ==
  ASSUME BusTypeOK, NEW m \in Body, Enqueue(m)
  PROVE  /\ stream' \in Seq(Body) /\ delivery' \in Seq(Delivery)
         /\ Len(delivery') = Len(stream')
         /\ DOMAIN stream' = DOMAIN stream \cup {Len(stream) + 1}
         /\ DOMAIN delivery' = DOMAIN stream'
         /\ \A i \in DOMAIN stream : stream'[i] = stream[i] /\ delivery'[i] = delivery[i]
         /\ stream'[Len(stream) + 1] = m
         /\ delivery'[Len(stream) + 1] = [status |-> "ready", attempts |-> 0]
         /\ InStream' = InStream \cup {m}
<1> DEFINE n == Len(stream)
           d == [status |-> "ready", attempts |-> 0]
<1>1. n \in Nat /\ DOMAIN stream = 1 .. n /\ DOMAIN delivery = 1 .. n
  BY BusDomains
<1>2. d \in Delivery
  BY BusAssumption DEF Delivery, DeliveryStatus
<1>3. stream' \in Seq(Body) /\ Len(stream') = n + 1 /\ stream'[n + 1] = m
      /\ \A i \in 1 .. n : stream'[i] = stream[i]
  BY <1>1 DEF BusTypeOK, Enqueue
<1>4. delivery' \in Seq(Delivery) /\ Len(delivery') = n + 1 /\ delivery'[n + 1] = d
      /\ \A i \in 1 .. n : delivery'[i] = delivery[i]
  BY <1>1, <1>2 DEF BusTypeOK, Enqueue
<1>5. DOMAIN stream' = 1 .. n + 1 /\ DOMAIN delivery' = 1 .. n + 1
  BY <1>3, <1>4, LenProperties
<1>6. 1 .. n + 1 = 1 .. n \cup {n + 1}
  BY <1>1
<1>7. InStream' = InStream \cup {m}
  BY <1>1, <1>3, <1>5, <1>6 DEF InStream
<1> QED BY <1>1, <1>3, <1>4, <1>5, <1>6, <1>7

\* Updating the state of one message keeps the consumer's state well formed.
LEMMA UpdateFacts ==
  ASSUME BusTypeOK, NEW i \in DOMAIN delivery, NEW d \in Delivery,
         delivery' = [delivery EXCEPT ![i] = d]
  PROVE  /\ delivery' \in Seq(Delivery) /\ Len(delivery') = Len(delivery)
         /\ DOMAIN delivery' = DOMAIN delivery
         /\ delivery'[i] = d
         /\ \A k \in DOMAIN delivery \ {i} : delivery'[k] = delivery[k]
<1>1. Len(delivery) \in Nat /\ DOMAIN delivery = 1 .. Len(delivery)
      /\ delivery \in [1 .. Len(delivery) -> Delivery]
  BY LenProperties DEF BusTypeOK
<1>2. delivery' \in [1 .. Len(delivery) -> Delivery]
  BY <1>1
<1> QED BY <1>1, <1>2, FunctionIsSeq

\* A delivery that came to nothing is ready with an attempt left, or given up.
LEMMA ReturnedFacts ==
  ASSUME NEW d \in Delivery
  PROVE  /\ Returned(d) \in Delivery
         /\ Returned(d).attempts = d.attempts
         /\ Returned(d).status \in {"ready", "exhausted"}
         /\ Returned(d).status = "ready" => d.attempts < MaxDeliver
         /\ Returned(d).status = "exhausted" => d.attempts = MaxDeliver
BY BusAssumption DEF Returned, Delivery, DeliveryStatus

\* The stream only grows, and old messages keep their place.
StreamGrows ==
  /\ DOMAIN stream \subseteq DOMAIN stream'
  /\ \A i \in DOMAIN stream : stream'[i] = stream[i]

\* ServerAccepts keeps the bus well formed, whether it stores or drops.
LEMMA AcceptFacts ==
  ASSUME BusTypeOK, ReadyHasAttemptLeft, NEW p \in Points, ServerAccepts(p)
  PROVE  /\ stream' \in Seq(Body) /\ delivery' \in Seq(Delivery)
         /\ Len(delivery') = Len(stream')
         /\ window' \subseteq EventIds
         /\ ReadyHasAttemptLeft'
         /\ StreamGrows
<1>1. p \in Body /\ EventIdOf(p) \in EventIds
  BY BusAssumption DEF Body, EventIdOf
<1>2. CASE EventIdOf(p) \in window
  BY <1>2 DEF ServerAccepts, busVars, BusTypeOK, ReadyHasAttemptLeft, Ready, StreamGrows
<1>3. CASE EventIdOf(p) \notin window
  <2>1. Enqueue(p) /\ window' = window \cup {EventIdOf(p)}
    BY <1>3 DEF ServerAccepts
  <2>2. ReadyHasAttemptLeft'
    <3>1. DOMAIN delivery' = DOMAIN delivery \cup {Len(stream) + 1}
      BY <1>1, <2>1, EnqueueFacts, BusDomains
    <3>2. delivery'[Len(stream) + 1].attempts < MaxDeliver
      BY <1>1, <2>1, EnqueueFacts, BusAssumption
    <3>3. \A i \in DOMAIN delivery : delivery'[i] = delivery[i]
      BY <1>1, <2>1, EnqueueFacts, BusDomains
    <3> QED BY <3>1, <3>2, <3>3 DEF ReadyHasAttemptLeft, Ready
  <2> QED BY <1>1, <2>1, <2>2, EnqueueFacts DEF StreamGrows, BusTypeOK
<1> QED BY <1>2, <1>3

\* Handing a set of ready messages to the worker costs each an attempt it has.
LEMMA DeliverFacts ==
  ASSUME BusTypeOK, ReadyHasAttemptLeft, NEW S \in SUBSET Ready, Deliver(S)
  PROVE  /\ delivery' \in Seq(Delivery) /\ Len(delivery') = Len(delivery)
         /\ DOMAIN delivery' = DOMAIN delivery
         /\ \A i \in S : delivery'[i] = [status |-> "pending",
                                         attempts |-> delivery[i].attempts + 1]
         /\ \A i \in DOMAIN delivery \ S : delivery'[i] = delivery[i]
<1>1. Len(delivery) \in Nat /\ DOMAIN delivery = 1 .. Len(delivery)
      /\ \A i \in DOMAIN delivery : delivery[i] \in Delivery
  BY BusDomains, LenProperties DEF BusTypeOK
<1>2. \A i \in S : [status |-> "pending", attempts |-> delivery[i].attempts + 1] \in Delivery
  BY <1>1, BusAssumption DEF Delivery, DeliveryStatus, ReadyHasAttemptLeft, Ready
<1>3. delivery' \in [1 .. Len(delivery) -> Delivery]
  BY <1>1, <1>2 DEF Deliver
<1> QED BY <1>1, <1>3, FunctionIsSeq DEF Deliver, Ready

\* An ack settles its message, unless it was given up before.
LEMMA AckFacts ==
  ASSUME BusTypeOK, ReadyHasAttemptLeft, NEW i \in DOMAIN delivery, ServerAck(i)
  PROVE  /\ delivery' \in Seq(Delivery) /\ Len(delivery') = Len(delivery)
         /\ DOMAIN delivery' = DOMAIN delivery
         /\ \A k \in DOMAIN delivery \ {i} : delivery'[k] = delivery[k]
         /\ IF delivery[i].status = "exhausted"
            THEN delivery'[i] = delivery[i] ELSE delivery'[i].status = "acked"
         /\ ReadyHasAttemptLeft'
<1> DEFINE acked == [delivery[i] EXCEPT !.status = "acked"]
           d == IF delivery[i].status = "exhausted" THEN delivery[i] ELSE acked
<1>1. delivery[i] \in Delivery
  BY BusDomains
<1>2. acked \in Delivery /\ acked.status = "acked"
  BY <1>1 DEF Delivery, DeliveryStatus
<1>3. d \in Delivery /\ d.status \in {"acked", "exhausted"}
  BY <1>1, <1>2
<1>4. delivery' = [delivery EXCEPT ![i] = d]
  BY DEF ServerAck
<1> HIDE DEF d
<1>5. /\ delivery' \in Seq(Delivery) /\ Len(delivery') = Len(delivery)
      /\ DOMAIN delivery' = DOMAIN delivery
      /\ delivery'[i] = d
      /\ \A k \in DOMAIN delivery \ {i} : delivery'[k] = delivery[k]
  BY <1>3, <1>4, UpdateFacts
<1>6. ReadyHasAttemptLeft'
  BY <1>3, <1>5 DEF ReadyHasAttemptLeft, Ready
<1> QED BY <1>2, <1>5, <1>6 DEF d

\* A nak or a lapse of AckWait returns its message, or changes nothing.
LEMMA ReturnFacts ==
  ASSUME BusTypeOK, ReadyHasAttemptLeft, NEW i \in DOMAIN delivery,
         ServerNak(i) \/ AckWaitLapses(i)
  PROVE  /\ delivery' \in Seq(Delivery) /\ Len(delivery') = Len(delivery)
         /\ DOMAIN delivery' = DOMAIN delivery
         /\ \A k \in DOMAIN delivery \ {i} : delivery'[k] = delivery[k]
         /\ IF delivery[i].status = "pending"
            THEN delivery'[i] = Returned(delivery[i]) ELSE delivery'[i] = delivery[i]
         /\ ReadyHasAttemptLeft'
<1> DEFINE d == IF delivery[i].status = "pending" THEN Returned(delivery[i]) ELSE delivery[i]
<1>1. delivery[i] \in Delivery
  BY BusDomains
<1>2. d \in Delivery /\ (d.status = "ready" => d.attempts < MaxDeliver)
  BY <1>1, ReturnedFacts DEF ReadyHasAttemptLeft, Ready
<1>3. delivery' = [delivery EXCEPT ![i] = d]
  BY DEF ServerNak, AckWaitLapses
<1> HIDE DEF d
<1>4. /\ delivery' \in Seq(Delivery) /\ Len(delivery') = Len(delivery)
      /\ DOMAIN delivery' = DOMAIN delivery
      /\ delivery'[i] = d
      /\ \A k \in DOMAIN delivery \ {i} : delivery'[k] = delivery[k]
  BY <1>2, <1>3, UpdateFacts
<1>5. ReadyHasAttemptLeft'
  BY <1>2, <1>4 DEF ReadyHasAttemptLeft, Ready
<1> QED BY <1>4, <1>5 DEF d

-----------------------------------------------------------------------------
(***************************************************************************)
(* Type correctness, together with ReadyHasAttemptLeft: without it Deliver *)
(* might count one attempt above MaxDeliver.                               *)
(***************************************************************************)

BusInv == BusTypeOK /\ ReadyHasAttemptLeft

\* A step that leaves the bus alone, whether or not it counts a fault.
LEMMA BusIdle ==
  ASSUME BusInv, UNCHANGED busVars, faults' \in 0 .. MaxFaults
  PROVE  BusInv' /\ StreamGrows
BY DEF BusInv, BusTypeOK, ReadyHasAttemptLeft, Ready, StreamGrows, busVars

\* A fault is counted within its bound.
LEMMA FaultBound ==
  ASSUME BusTypeOK, Fault
  PROVE  faults' \in 0 .. MaxFaults
BY BusAssumption DEF BusTypeOK, Fault

\* The worker's variables survive a step of somebody else.
LEMMA WorkerTypesKept ==
  ASSUME WorkerTypeOK, UNCHANGED workerVars, StreamGrows
  PROVE  WorkerTypeOK'
BY DEF WorkerTypeOK, workerVars, StreamGrows, Actions

\* Replacing one handler's record by another record keeps the type.
LEMMA PutTypes ==
  ASSUME GatewayTypeOK, NEW c \in Conns, NEW h \in Handler, Put(c, h)
  PROVE  /\ handler' \in [Conns -> Handler]
         /\ handler'[c] = h
         /\ \A o \in Conns \ {c} : handler'[o] = handler[o]
BY DEF GatewayTypeOK, Put

LEMMA IdleType == Idle \in Handler
BY DEF Idle, Handler, Phase

LEMMA HandlerIsRecord ==
  ASSUME GatewayTypeOK, NEW c \in Conns
  PROVE  handler[c] \in Handler
BY DEF GatewayTypeOK

\* One step of one handler.
ConnStep(c) ==
  \/ \E S \in SUBSET Points : SendBatch(c, S)
  \/ \E p \in Points : CheckEvent(c, p) \/ PublishEvent(c, p) \/ PublishFails(c, p)
  \/ CheckFails(c) \/ MarkPublished(c) \/ MarkFails(c)
  \/ Reply(c) \/ ReplyLost(c) \/ ReplyError(c)

\* The steps of one handler keep the gateway's variables within their types.
LEMMA ConnStepTypes ==
  ASSUME GatewayTypeOK, NEW c \in Conns, ConnStep(c)
  PROVE  GatewayTypeOK'
<1> DEFINE h == handler[c]
<1>0. h \in Handler
  BY HandlerIsRecord
<1>1. ASSUME NEW S \in SUBSET Points, SendBatch(c, S)
      PROVE  GatewayTypeOK'
  <2> DEFINE g == [h EXCEPT !.phase = IF Cardinality(S) > MaxBatch THEN "error" ELSE "check",
                            !.todo = S]
  <2>1. g \in Handler
    BY <1>0 DEF Handler, Phase
  <2>2. Put(c, g) /\ UNCHANGED <<ledger, told>>
    BY <1>1 DEF SendBatch
  <2> QED BY <2>1, <2>2, PutTypes DEF GatewayTypeOK
<1>2. ASSUME NEW p \in Points, CheckEvent(c, p)
      PROVE  GatewayTypeOK'
  <2> DEFINE rejected == [h EXCEPT !.todo = @ \ {p}, !.rejected = @ \cup {p}]
             duplicated == [h EXCEPT !.todo = @ \ {p}, !.duplicated = @ \cup {p}]
  <2>1. rejected \in Handler /\ duplicated \in Handler /\ InHand(h, p) \in Handler
    BY <1>0 DEF Handler, Phase, InHand
  <2>2. /\ UNCHANGED <<ledger, told>>
        /\ Put(c, rejected) \/ Put(c, duplicated) \/ Put(c, InHand(h, p))
    BY <1>2 DEF CheckEvent
  <2> QED BY <2>1, <2>2, PutTypes DEF GatewayTypeOK
<1>3. ASSUME NEW ph \in Phase, Goto(c, ph), UNCHANGED <<ledger, told>>
      PROVE  GatewayTypeOK'
  <2>1. [h EXCEPT !.phase = ph] \in Handler
    BY <1>0 DEF Handler
  <2> QED BY <1>3, <2>1, PutTypes DEF Goto, GatewayTypeOK
<1>4. ASSUME NEW p \in Points, PublishEvent(c, p)
      PROVE  GatewayTypeOK'
  BY <1>4, <1>3 DEF PublishEvent, Phase
<1>5. ASSUME NEW p \in Points, PublishFails(c, p)
      PROVE  GatewayTypeOK'
  <2> DEFINE g == [h EXCEPT !.phase = "check", !.event = {}, !.rejected = @ \cup {p}]
  <2>1. g \in Handler
    BY <1>0 DEF Handler, Phase
  <2>2. Put(c, g) /\ UNCHANGED <<ledger, told>>
    BY <1>5 DEF PublishFails
  <2> QED BY <2>1, <2>2, PutTypes DEF GatewayTypeOK
<1>6. CASE CheckFails(c)
  BY <1>6, <1>3 DEF CheckFails, Phase
<1>7. CASE MarkPublished(c) \/ MarkFails(c)
  <2> DEFINE g == [h EXCEPT !.phase = "check", !.event = {}, !.accepted = @ \cup h.event]
  <2>1. g \in Handler /\ h.event \in SUBSET Points
    BY <1>0 DEF Handler, Phase
  <2>2. Put(c, g) /\ ledger' \in {ledger, ledger \cup h.event} /\ UNCHANGED told
    BY <1>7 DEF MarkPublished, MarkFails, AcceptInHand
  <2> QED BY <2>1, <2>2, PutTypes DEF GatewayTypeOK
<1>8. CASE Reply(c) \/ ReplyLost(c) \/ ReplyError(c)
  <2>1. Put(c, Idle) /\ UNCHANGED ledger
    BY <1>8 DEF Reply, ReplyLost, ReplyError
  <2>2. told' \in {told, told \cup h.accepted \cup h.duplicated}
    BY <1>8 DEF Reply, ReplyLost, ReplyError
  <2>3. told' \subseteq Points
    BY <1>0, <2>2 DEF Handler, GatewayTypeOK
  <2> QED BY <2>1, <2>3, IdleType, PutTypes DEF GatewayTypeOK
<1> QED BY <1>1, <1>2, <1>4, <1>5, <1>6, <1>7, <1>8 DEF ConnStep

\* What the gateway does to the bus: nothing, or one ServerAccepts.
LEMMA GatewayOnBus ==
  ASSUME GatewayNext
  PROVE  /\ (UNCHANGED faults \/ Fault)
         /\ \/ UNCHANGED busVars
            \/ \E c \in Conns, p \in Points :
                 /\ At(c, "publish") /\ handler[c].event = {p}
                 /\ PublishEvent(c, p) \/ PublishFails(c, p)
                 /\ ServerAccepts(p)
<1>1. ASSUME NEW c \in Conns, NEW S \in SUBSET Points, SendBatch(c, S)
      PROVE  UNCHANGED busVars /\ UNCHANGED faults
  BY <1>1 DEF SendBatch
<1>2. ASSUME NEW c \in Conns, NEW p \in Points, CheckEvent(c, p)
      PROVE  UNCHANGED busVars /\ UNCHANGED faults
  BY <1>2 DEF CheckEvent
<1>3. ASSUME NEW c \in Conns, NEW p \in Points, PublishEvent(c, p)
      PROVE  /\ At(c, "publish") /\ handler[c].event = {p}
             /\ ServerAccepts(p) /\ UNCHANGED faults
  BY <1>3 DEF PublishEvent
<1>4. ASSUME NEW c \in Conns, NEW p \in Points, PublishFails(c, p)
      PROVE  /\ At(c, "publish") /\ handler[c].event = {p}
             /\ ServerAccepts(p) \/ UNCHANGED busVars
             /\ Fault
  BY <1>4 DEF PublishFails
<1>5. ASSUME NEW c \in Conns,
             \/ CheckFails(c) \/ MarkPublished(c) \/ MarkFails(c)
             \/ Reply(c) \/ ReplyLost(c) \/ ReplyError(c)
      PROVE  UNCHANGED busVars /\ (UNCHANGED faults \/ Fault)
  BY <1>5 DEF CheckFails, MarkPublished, MarkFails, Reply, ReplyLost, ReplyError
<1>6. ASSUME GatewayCrash
      PROVE  UNCHANGED busVars /\ (UNCHANGED faults \/ Fault)
  BY <1>6 DEF GatewayCrash
<1> QED BY <1>1, <1>2, <1>3, <1>4, <1>5, <1>6 DEF GatewayNext

LEMMA GatewayTypes ==
  ASSUME TypeInv, Gateway
  PROVE  TypeInv' /\ StreamGrows
<1> USE DEF TypeInv, TypeOK
<1>1. BusInv' /\ StreamGrows
  <2>1. faults' \in 0 .. MaxFaults
    BY GatewayOnBus, FaultBound DEF Gateway, BusTypeOK
  <2>2. CASE UNCHANGED busVars
    BY <2>1, <2>2, BusIdle DEF BusInv
  <2>3. CASE \E p \in Points : ServerAccepts(p)
    BY <2>1, <2>3, AcceptFacts DEF BusInv, BusTypeOK
  <2> QED BY <2>2, <2>3, GatewayOnBus DEF Gateway
<1>2. GatewayTypeOK'
  <2>1. CASE \E c \in Conns : ConnStep(c)
    BY <2>1, ConnStepTypes
  <2>2. CASE GatewayCrash
    BY <2>2, IdleType DEF GatewayCrash, GatewayTypeOK
  <2> QED BY <2>1, <2>2 DEF Gateway, GatewayNext, ConnStep
<1>3. WorkerTypeOK'
  BY <1>1, WorkerTypesKept DEF Gateway
<1> QED BY <1>1, <1>2, <1>3 DEF BusInv

LEMMA BrokerTypes ==
  ASSUME TypeInv, Broker
  PROVE  TypeInv' /\ StreamGrows
<1> USE DEF TypeInv, TypeOK
<1>1. BusInv' /\ StreamGrows
  <2>1. ASSUME NEW e \in EventIds, WindowExpires(e)
        PROVE  BusInv' /\ StreamGrows
    BY <2>1 DEF WindowExpires, BusInv, BusTypeOK, ReadyHasAttemptLeft, Ready, StreamGrows
  <2>2. ASSUME NEW m \in Malformed, OtherProducer(m)
        PROVE  BusInv' /\ StreamGrows
    <3>1. m \in Body /\ Enqueue(m) /\ UNCHANGED <<window, faults>>
      BY <2>2 DEF OtherProducer, Body
    <3>2. BusTypeOK' /\ StreamGrows
      BY <3>1, EnqueueFacts DEF BusTypeOK, StreamGrows
    <3>3. ReadyHasAttemptLeft'
      <4>1. DOMAIN delivery' = DOMAIN delivery \cup {Len(stream) + 1}
        BY <3>1, EnqueueFacts, BusDomains
      <4>2. delivery'[Len(stream) + 1].attempts < MaxDeliver
        BY <3>1, EnqueueFacts, BusAssumption
      <4>3. \A i \in DOMAIN delivery : delivery'[i] = delivery[i]
        BY <3>1, EnqueueFacts, BusDomains
      <4> QED BY <4>1, <4>2, <4>3 DEF ReadyHasAttemptLeft, Ready
    <3> QED BY <3>2, <3>3 DEF BusInv
  <2> QED BY <2>1, <2>2 DEF Broker
<1>2. GatewayTypeOK' /\ WorkerTypeOK'
  BY <1>1, WorkerTypesKept DEF Broker, GatewayTypeOK, gatewayVars
<1> QED BY <1>1, <1>2 DEF BusInv

\* The worker never touches the stream; a message it is about is delivered.
LEMMA WorkerTypes ==
  ASSUME TypeInv, Worker
  PROVE  TypeInv' /\ StreamGrows
<1> USE DEF TypeInv, TypeOK
<1>0. /\ UNCHANGED <<stream, gatewayVars>> /\ DOMAIN delivery = DOMAIN stream
      /\ Len(delivery) = Len(stream)
  <2>1. UNCHANGED stream
    BY DEF Worker, WorkerNext, Fetch, StorePoint, StoreFails, DeadLetter, DeadLetterFails,
           Settle, SettleLost, Redeliver, SlowWorker, WorkerCrash, busVars
  <2> QED BY <2>1, BusDomains DEF Worker, BusTypeOK
<1>1. GatewayTypeOK' /\ StreamGrows
  BY <1>0 DEF GatewayTypeOK, gatewayVars, StreamGrows
<1>2. ASSUME delivery' \in Seq(Delivery), Len(delivery') = Len(delivery), ReadyHasAttemptLeft',
             UNCHANGED window, UNCHANGED faults \/ Fault
      PROVE  BusInv'
  BY <1>0, <1>2, FaultBound DEF BusInv, BusTypeOK
<1>3. ASSUME NEW S \in SUBSET Ready, Fetch(S)
      PROVE  BusInv' /\ WorkerTypeOK'
  <2>1. Deliver(S) /\ UNCHANGED <<window, faults, raw, deadLetters, job>> /\ batch' = S
    BY <1>3 DEF Fetch
  <2>2. delivery' \in Seq(Delivery) /\ Len(delivery') = Len(delivery)
    BY <2>1, DeliverFacts
  <2>3. ReadyHasAttemptLeft'
    <3>1. DOMAIN delivery' = DOMAIN delivery
          /\ \A i \in DOMAIN delivery \ S : delivery'[i] = delivery[i]
      BY <2>1, DeliverFacts
    <3>2. ASSUME NEW i \in S
          PROVE  delivery'[i].status = "pending"
      <4>1. delivery'[i] = [status |-> "pending", attempts |-> delivery[i].attempts + 1]
        BY <2>1, DeliverFacts
      <4> QED BY <4>1
    <3> QED BY <3>1, <3>2 DEF ReadyHasAttemptLeft, Ready
  <2>4. WorkerTypeOK'
    BY <1>0, <2>1 DEF WorkerTypeOK, Ready, Actions
  <2> QED BY <1>2, <2>1, <2>2, <2>3, <2>4
<1>4. ASSUME NEW i \in batch,
             StorePoint(i) \/ StoreFails(i) \/ DeadLetter(i) \/ DeadLetterFails(i)
      PROVE  BusInv' /\ WorkerTypeOK'
  <2>1. UNCHANGED busVars /\ (UNCHANGED faults \/ Fault)
    BY <1>4 DEF StorePoint, StoreFails, DeadLetter, DeadLetterFails
  <2>2. BusInv'
    BY <2>1, FaultBound, BusIdle DEF BusInv, BusTypeOK
  <2>3. raw' \subseteq Points /\ deadLetters' \subseteq Malformed
    BY <1>4 DEF StorePoint, StoreFails, DeadLetter, DeadLetterFails, WorkerTypeOK
  <2>4. \E action \in Actions : Decide(i, action)
    BY <1>4 DEF StorePoint, StoreFails, DeadLetter, DeadLetterFails, Actions
  <2> QED BY <1>0, <2>2, <2>3, <2>4 DEF Decide, WorkerTypeOK, Actions
<1>5. ASSUME NEW j \in job, Settle(j)
      PROVE  BusInv' /\ WorkerTypeOK'
  <2>1. j.seq \in DOMAIN delivery /\ (ServerAck(j.seq) \/ ServerNak(j.seq))
        /\ UNCHANGED <<window, faults, raw, deadLetters, batch>> /\ job' = {}
    BY <1>0, <1>5 DEF Settle, WorkerTypeOK
  <2>2. BusInv'
    BY <1>2, <2>1, AckFacts, ReturnFacts
  <2> QED BY <1>0, <2>1, <2>2 DEF WorkerTypeOK
<1>6. ASSUME NEW i \in DOMAIN delivery, Redeliver(i) \/ SlowWorker(i)
      PROVE  BusInv' /\ WorkerTypeOK'
  <2>1. AckWaitLapses(i) /\ UNCHANGED <<window, workerVars>> /\ (UNCHANGED faults \/ Fault)
    BY <1>6 DEF Redeliver, SlowWorker
  <2>2. BusInv'
    BY <1>2, <2>1, ReturnFacts
  <2> QED BY <1>1, <2>1, <2>2, WorkerTypesKept
<1>7. ASSUME WorkerCrash \/ \E j \in job : SettleLost(j)
      PROVE  BusInv' /\ WorkerTypeOK'
  <2>1. /\ UNCHANGED busVars /\ Fault /\ UNCHANGED <<raw, deadLetters>>
        /\ batch' \subseteq batch /\ job' = {}
    BY <1>7 DEF WorkerCrash, SettleLost
  <2>2. BusInv'
    BY <2>1, FaultBound, BusIdle DEF BusInv, BusTypeOK
  <2> QED BY <1>0, <2>1, <2>2 DEF WorkerTypeOK
<1> QED BY <1>1, <1>3, <1>4, <1>5, <1>6, <1>7 DEF Worker, WorkerNext, BusInv

LEMMA InitTypes ==
  ASSUME Init
  PROVE  TypeInv
<1>1. BusTypeOK /\ ReadyHasAttemptLeft
  BY BusAssumption DEF Init, BusInit, BusTypeOK, ReadyHasAttemptLeft, Ready
<1>2. GatewayTypeOK
  BY IdleType DEF Init, GatewayInit, GatewayTypeOK
<1>3. WorkerTypeOK
  BY DEF Init, WorkerInit, WorkerTypeOK
<1> QED BY <1>1, <1>2, <1>3 DEF TypeInv, TypeOK

LEMMA StepTypes ==
  ASSUME TypeInv, [Next]_vars
  PROVE  TypeInv' /\ StreamGrows
<1>1. CASE Next
  BY <1>1, GatewayTypes, WorkerTypes, BrokerTypes DEF Next
<1>2. CASE UNCHANGED vars
  BY <1>2 DEF vars, busVars, gatewayVars, workerVars, TypeInv, TypeOK, BusTypeOK, GatewayTypeOK,
              WorkerTypeOK, ReadyHasAttemptLeft, Ready, StreamGrows
<1> QED BY <1>1, <1>2

\* In every reachable state every variable is within its type, and a message
\* that is ready has an attempt left.
THEOREM TypeCorrect == Spec => [](TypeOK /\ ReadyHasAttemptLeft)
<1>1. Init => TypeInv
  BY InitTypes
<1>2. TypeInv /\ [Next]_vars => TypeInv'
  BY StepTypes
<1> QED BY <1>1, <1>2, PTL DEF Spec, TypeInv

-----------------------------------------------------------------------------
(***************************************************************************)
(* ConfirmedIsDurable.  By itself it is not inductive: a reply reports     *)
(* what the handler collected, a duplicate verdict rests on the ledger, a  *)
(* ledger row on the publish before it, and a publish that JetStream drops *)
(* on the window.  Backed says all of these stand for a stored message.    *)
(***************************************************************************)

LEMMA InStreamGrows ==
  ASSUME StreamGrows
  PROVE  InStream \subseteq InStream'
BY DEF StreamGrows, InStream

\* After ServerAccepts the point is on the bus, also when it was dropped as a
\* duplicate: this is where the event_ids must be unique.
LEMMA AcceptBacks ==
  ASSUME UniqueEventIds, BusTypeOK, NEW p \in Points, ServerAccepts(p),
         \A q \in Points : EventIdOf(q) \in window => q \in InStream
  PROVE  /\ p \in InStream'
         /\ \A q \in Points : EventIdOf(q) \in window' => q \in InStream'
<1>1. CASE EventIdOf(p) \in window
  BY <1>1 DEF ServerAccepts, busVars, InStream
<1>2. CASE EventIdOf(p) \notin window
  <2>1. Enqueue(p) /\ window' = window \cup {EventIdOf(p)}
    BY <1>2 DEF ServerAccepts
  <2>2. InStream' = InStream \cup {p}
    BY <2>1, EnqueueFacts DEF Body
  <2> QED BY <2>1, <2>2 DEF UniqueEventIds
<1> QED BY <1>1, <1>2

LEMMA GatewayBacked ==
  ASSUME UniqueEventIds, TypeInv, Backed, Gateway
  PROVE  Backed'
<1> DEFINE OK(h) == /\ h.accepted \cup h.duplicated \subseteq InStream'
                    /\ h.phase = "mark" => h.event \subseteq InStream'
<1>1. GatewayTypeOK /\ BusTypeOK
  BY DEF TypeInv, TypeOK
<1>2. InStream \subseteq InStream'
  BY GatewayTypes, InStreamGrows
<1>3. \A q \in Points : EventIdOf(q) \in window' => q \in InStream'
  <2>1. CASE UNCHANGED busVars
    BY <2>1, <1>2 DEF Backed, busVars
  <2>2. CASE \E p \in Points : ServerAccepts(p)
    BY <2>2, <1>1, AcceptBacks DEF Backed
  <2> QED BY <2>1, <2>2, GatewayOnBus DEF Gateway
<1>4. \A c \in Conns : OK(handler[c])
  BY <1>2 DEF Backed, At
<1>5. ledger \cup told \subseteq InStream'
  BY <1>2 DEF Backed
<1>6. SUFFICES /\ \A c \in Conns : OK(handler'[c])
               /\ ledger' \cup told' \subseteq InStream'
  BY <1>3 DEF Backed, At
<1>7. ASSUME NEW c \in Conns, NEW h \in Handler, Put(c, h), OK(h)
      PROVE  \A o \in Conns : OK(handler'[o])
  BY <1>1, <1>4, <1>7, PutTypes
<1>8. ASSUME NEW c \in Conns, ConnStep(c)
      PROVE  /\ \A o \in Conns : OK(handler'[o])
             /\ ledger' \cup told' \subseteq InStream'
  <2> DEFINE h == handler[c]
  <2>0. h \in Handler /\ OK(h)
    BY <1>1, <1>4, HandlerIsRecord
  <2>1. ASSUME NEW S \in SUBSET Points, SendBatch(c, S)
        PROVE  \A o \in Conns : OK(handler'[o])
    <3> DEFINE g == [h EXCEPT !.phase = IF Cardinality(S) > MaxBatch THEN "error" ELSE "check",
                              !.todo = S]
    <3>1. g \in Handler /\ OK(g)
      BY <2>0 DEF Handler, Phase
    <3>2. Put(c, g)
      BY <2>1 DEF SendBatch
    <3> QED BY <3>1, <3>2, <1>7
  <2>2. ASSUME NEW p \in Points, CheckEvent(c, p)
        PROVE  \A o \in Conns : OK(handler'[o])
    <3> DEFINE rejected == [h EXCEPT !.todo = @ \ {p}, !.rejected = @ \cup {p}]
               duplicated == [h EXCEPT !.todo = @ \ {p}, !.duplicated = @ \cup {p}]
    <3>1. rejected \in Handler /\ OK(rejected) /\ InHand(h, p) \in Handler /\ OK(InHand(h, p))
      BY <2>0 DEF Handler, Phase, InHand
    <3>2. duplicated \in Handler /\ (p \in ledger => OK(duplicated))
      BY <2>0, <1>5 DEF Handler, Phase
    <3>3. Put(c, rejected) \/ (p \in ledger /\ Put(c, duplicated)) \/ Put(c, InHand(h, p))
      BY <2>2 DEF CheckEvent
    <3> QED BY <3>1, <3>2, <3>3, <1>7
  <2>3. ASSUME NEW ph \in Phase \ {"mark"}, Goto(c, ph)
        PROVE  \A o \in Conns : OK(handler'[o])
    <3>1. [h EXCEPT !.phase = ph] \in Handler /\ OK([h EXCEPT !.phase = ph])
      BY <2>0 DEF Handler
    <3> QED BY <2>3, <3>1, <1>7 DEF Goto
  <2>4. ASSUME NEW p \in Points, PublishEvent(c, p)
        PROVE  \A o \in Conns : OK(handler'[o])
    <3> DEFINE g == [h EXCEPT !.phase = "mark"]
    <3>1. p \in InStream' /\ h.event = {p} /\ Put(c, g)
      BY <2>4, <1>1, AcceptBacks DEF PublishEvent, Backed, Goto
    <3>2. g \in Handler /\ OK(g)
      BY <2>0, <3>1 DEF Handler, Phase
    <3> QED BY <3>1, <3>2, <1>7
  <2>5. ASSUME NEW p \in Points, PublishFails(c, p)
        PROVE  \A o \in Conns : OK(handler'[o])
    <3> DEFINE g == [h EXCEPT !.phase = "check", !.event = {}, !.rejected = @ \cup {p}]
    <3>1. g \in Handler /\ OK(g)
      BY <2>0 DEF Handler, Phase
    <3>2. Put(c, g)
      BY <2>5 DEF PublishFails
    <3> QED BY <3>1, <3>2, <1>7
  <2>6. ASSUME MarkPublished(c) \/ MarkFails(c)
        PROVE  /\ \A o \in Conns : OK(handler'[o])
               /\ ledger' \subseteq InStream' /\ UNCHANGED told
    <3> DEFINE g == [h EXCEPT !.phase = "check", !.event = {}, !.accepted = @ \cup h.event]
    <3>1. h.event \subseteq InStream'
      BY <2>6, <2>0 DEF MarkPublished, MarkFails, At
    <3>2. g \in Handler /\ OK(g)
      BY <2>0, <3>1 DEF Handler, Phase
    <3>3. Put(c, g) /\ ledger' \in {ledger, ledger \cup h.event} /\ UNCHANGED told
      BY <2>6 DEF MarkPublished, MarkFails, AcceptInHand
    <3> QED BY <3>1, <3>2, <3>3, <1>5, <1>7
  <2>7. ASSUME Reply(c) \/ ReplyLost(c) \/ ReplyError(c)
        PROVE  /\ \A o \in Conns : OK(handler'[o])
               /\ UNCHANGED ledger /\ told' \subseteq InStream'
    <3>1. Idle \in Handler /\ OK(Idle)
      BY IdleType DEF Idle
    <3>2. Put(c, Idle) /\ UNCHANGED ledger
      BY <2>7 DEF Reply, ReplyLost, ReplyError
    <3>3. told' \in {told, told \cup h.accepted \cup h.duplicated}
      BY <2>7 DEF Reply, ReplyLost, ReplyError
    <3> QED BY <3>1, <3>2, <3>3, <2>0, <1>5, <1>7
  <2>8. CASE CheckFails(c)
    BY <2>8, <2>3, <1>5 DEF CheckFails, Phase
  <2>9. ASSUME \/ \E S \in SUBSET Points : SendBatch(c, S)
               \/ \E p \in Points : CheckEvent(c, p) \/ PublishEvent(c, p) \/ PublishFails(c, p)
        PROVE  UNCHANGED <<ledger, told>>
    BY <2>9 DEF SendBatch, CheckEvent, PublishEvent, PublishFails
  <2> QED BY <1>5, <1>8, <2>1, <2>2, <2>4, <2>5, <2>6, <2>7, <2>8, <2>9 DEF ConnStep
<1>9. CASE GatewayCrash
  <2>1. ASSUME NEW c \in Conns
        PROVE  OK(handler'[c])
    <3>1. handler'[c] = Idle
      BY <1>9 DEF GatewayCrash
    <3>2. OK(Idle)
      BY DEF Idle
    <3> QED BY <3>1, <3>2
  <2>2. UNCHANGED <<ledger, told>>
    BY <1>9 DEF GatewayCrash
  <2> QED BY <2>1, <2>2, <1>5
<1> QED BY <1>8, <1>9 DEF Gateway, GatewayNext, ConnStep

LEMMA StepBacked ==
  ASSUME UniqueEventIds, TypeInv, Backed, [Next]_vars
  PROVE  Backed'
<1>1. InStream \subseteq InStream'
  BY StepTypes, InStreamGrows
<1>2. ASSUME UNCHANGED gatewayVars, window' \subseteq window
      PROVE  Backed'
  BY <1>1, <1>2 DEF Backed, At, gatewayVars
<1>3. CASE Worker
  <2>1. UNCHANGED window
    BY <1>3 DEF Worker, WorkerNext, Fetch, StorePoint, StoreFails, DeadLetter, DeadLetterFails,
                Settle, SettleLost, Redeliver, SlowWorker, WorkerCrash, busVars
  <2> QED BY <1>2, <1>3, <2>1 DEF Worker
<1>4. CASE Broker
  <2>1. window' \subseteq window
    BY <1>4 DEF Broker, WindowExpires, OtherProducer
  <2> QED BY <1>2, <1>4, <2>1 DEF Broker
<1>5. CASE UNCHANGED vars
  BY <1>2, <1>5 DEF vars, busVars
<1> QED BY <1>3, <1>4, <1>5, GatewayBacked DEF Next

\* Whatever the gateway confirmed, or is about to, is on the bus, provided no
\* two devices use one event_id.
THEOREM Durable ==
  ASSUME UniqueEventIds
  PROVE  Spec => []ConfirmedIsDurable
<1>1. Init => TypeInv /\ Backed
  <2> SUFFICES ASSUME Init PROVE TypeInv /\ Backed
    OBVIOUS
  <2>1. Backed
    BY DEF Init, BusInit, GatewayInit, Backed, Idle, At
  <2> QED BY <2>1, InitTypes
<1>2. TypeInv /\ Backed /\ [Next]_vars => TypeInv' /\ Backed'
  BY StepTypes, StepBacked
<1>3. Backed => ConfirmedIsDurable
  BY DEF Backed, ConfirmedIsDurable, Confirmed
<1> QED BY <1>1, <1>2, <1>3, PTL DEF Spec

-----------------------------------------------------------------------------
(***************************************************************************)
(* The consumer side: AckedIsProcessed and GivenUpOnlyAfterFaults.         *)
(***************************************************************************)
Fresh == [status |-> "ready", attempts |-> 0]

\* The gateway and the broker only add messages nobody has been handed yet.
LEMMA OthersOnDelivery ==
  ASSUME TypeInv, Gateway \/ Broker
  PROVE  /\ UNCHANGED workerVars
         /\ UNCHANGED faults \/ Fault
         /\ DOMAIN delivery \subseteq DOMAIN delivery'
         /\ \A i \in DOMAIN delivery : delivery'[i] = delivery[i]
         /\ \A i \in DOMAIN delivery' \ DOMAIN delivery : delivery'[i] = Fresh
<1>1. BusTypeOK
  BY DEF TypeInv, TypeOK
<1>2. \/ UNCHANGED <<stream, delivery>>
      \/ \E m \in Body : Enqueue(m)
  <2>1. CASE Gateway
    BY <2>1, GatewayOnBus DEF Gateway, ServerAccepts, busVars, Body
  <2>2. CASE Broker
    BY <2>2 DEF Broker, WindowExpires, OtherProducer, Body
  <2> QED BY <2>1, <2>2
<1>3. UNCHANGED workerVars /\ (UNCHANGED faults \/ Fault)
  BY GatewayOnBus DEF Gateway, Broker, WindowExpires, OtherProducer
<1>4. ASSUME NEW m \in Body, Enqueue(m)
      PROVE  /\ DOMAIN delivery \subseteq DOMAIN delivery'
             /\ \A i \in DOMAIN delivery : delivery'[i] = delivery[i]
             /\ \A i \in DOMAIN delivery' \ DOMAIN delivery : delivery'[i] = Fresh
  <2>1. DOMAIN delivery = DOMAIN stream
    BY <1>1, BusDomains
  <2>2. /\ DOMAIN delivery' = DOMAIN delivery \cup {Len(stream) + 1}
        /\ \A i \in DOMAIN delivery : delivery'[i] = delivery[i]
        /\ delivery'[Len(stream) + 1] = Fresh
    BY <1>1, <1>4, <2>1, EnqueueFacts DEF Fresh
  <2> QED BY <2>2
<1> QED BY <1>2, <1>3, <1>4

ProcessedInv == AckedIsProcessed /\ DecidedIsProcessed

LEMMA StepProcessed ==
  ASSUME TypeInv, ProcessedInv, [Next]_vars
  PROVE  ProcessedInv'
<1> USE DEF ProcessedInv, AckedIsProcessed, DecidedIsProcessed
<1>0. /\ BusTypeOK /\ WorkerTypeOK /\ BusTypeOK' /\ ReadyHasAttemptLeft
      /\ DOMAIN delivery = DOMAIN stream /\ DOMAIN delivery' = DOMAIN stream'
  BY StepTypes, BusDomains DEF TypeInv, TypeOK, BusTypeOK
<1>1. CASE Gateway \/ Broker
  <2>1. /\ \A i \in DOMAIN stream : stream'[i] = stream[i] /\ delivery'[i] = delivery[i]
        /\ UNCHANGED workerVars
    BY <1>0, <1>1, StepTypes, OthersOnDelivery DEF StreamGrows
  <2>2. \A i \in DOMAIN stream' \ DOMAIN stream : delivery'[i].status = "ready"
    BY <1>0, <1>1, OthersOnDelivery DEF Fresh
  <2>3. AckedIsProcessed'
    BY <2>1, <2>2 DEF workerVars
  <2>4. DecidedIsProcessed'
    BY <2>1, <1>0 DEF workerVars, WorkerTypeOK
  <2> QED BY <2>3, <2>4
<1>2. CASE Worker
  <2>0. UNCHANGED stream /\ raw \subseteq raw' /\ deadLetters \subseteq deadLetters'
    BY <1>2 DEF Worker, WorkerNext, Fetch, StorePoint, StoreFails, DeadLetter, DeadLetterFails,
                Settle, SettleLost, Redeliver, SlowWorker, WorkerCrash, busVars, workerVars
  <2>1. ASSUME job' \subseteq job
        PROVE  DecidedIsProcessed'
    BY <2>0, <2>1
  <2>2. ASSUME \A i \in DOMAIN stream :
                 delivery'[i].status = "acked" =>
                   delivery[i].status = "acked" \/ stream[i] \in raw \cup deadLetters
        PROVE  AckedIsProcessed'
    BY <2>0, <2>2
  <2>3. ASSUME NEW S \in SUBSET Ready, Fetch(S)
        PROVE  ProcessedInv'
    <3>1. Deliver(S) /\ UNCHANGED job
      BY <2>3 DEF Fetch
    <3>2. \A i \in DOMAIN delivery \ S : delivery'[i] = delivery[i]
      BY <1>0, <3>1, DeliverFacts
    <3>3. ASSUME NEW i \in S
          PROVE  delivery'[i].status = "pending"
      <4>1. delivery'[i] = [status |-> "pending", attempts |-> delivery[i].attempts + 1]
        BY <1>0, <3>1, DeliverFacts
      <4> QED BY <4>1
    <3> QED BY <1>0, <3>1, <3>2, <3>3, <2>1, <2>2
  <2>4. ASSUME NEW i \in batch,
               StorePoint(i) \/ StoreFails(i) \/ DeadLetter(i) \/ DeadLetterFails(i)
        PROVE  ProcessedInv'
    <3>1. UNCHANGED delivery
      BY <2>4 DEF StorePoint, StoreFails, DeadLetter, DeadLetterFails, busVars
    <3>2. \A j \in job' : j.action = "ack" => stream[j.seq] \in raw' \cup deadLetters'
      BY <2>4 DEF StorePoint, StoreFails, DeadLetter, DeadLetterFails, Decide
    <3> QED BY <2>0, <3>1, <3>2
  <2>5. ASSUME NEW j \in job, Settle(j)
        PROVE  ProcessedInv'
    <3>1. job' = {} /\ j.seq \in DOMAIN delivery /\ j.action \in {"ack", "nak"}
      BY <2>5, <1>0 DEF Settle, WorkerTypeOK, Actions
    <3>2. CASE j.action = "ack"
      <4>1. \A i \in DOMAIN delivery \ {j.seq} : delivery'[i] = delivery[i]
        BY <1>0, <2>5, <3>1, <3>2, AckFacts DEF Settle
      <4> QED BY <1>0, <3>1, <3>2, <4>1, <2>1, <2>2
    <3>3. CASE j.action = "nak"
      <4>1. ServerNak(j.seq)
        BY <2>5, <3>3 DEF Settle
      <4>2. /\ \A i \in DOMAIN delivery \ {j.seq} : delivery'[i] = delivery[i]
            /\ delivery'[j.seq] = delivery[j.seq] \/ delivery'[j.seq] = Returned(delivery[j.seq])
        BY <1>0, <3>1, <4>1, ReturnFacts
      <4>3. Returned(delivery[j.seq]).status # "acked"
        BY <1>0, <3>1, ReturnedFacts, BusDomains
      <4> QED BY <1>0, <3>1, <4>2, <4>3, <2>1, <2>2
    <3> QED BY <3>1, <3>2, <3>3
  <2>6. ASSUME NEW i \in DOMAIN delivery, Redeliver(i) \/ SlowWorker(i)
        PROVE  ProcessedInv'
    <3>1. AckWaitLapses(i) /\ UNCHANGED job
      BY <2>6 DEF Redeliver, SlowWorker, workerVars
    <3>2. /\ \A k \in DOMAIN delivery \ {i} : delivery'[k] = delivery[k]
          /\ delivery'[i] = delivery[i] \/ delivery'[i] = Returned(delivery[i])
      BY <1>0, <3>1, ReturnFacts
    <3>3. Returned(delivery[i]).status # "acked"
      BY <1>0, ReturnedFacts, BusDomains
    <3> QED BY <1>0, <3>1, <3>2, <3>3, <2>1, <2>2
  <2>7. ASSUME WorkerCrash \/ \E j \in job : SettleLost(j)
        PROVE  ProcessedInv'
    BY <2>7, <2>0 DEF WorkerCrash, SettleLost, busVars
  <2> QED BY <1>2, <2>3, <2>4, <2>5, <2>6, <2>7 DEF Worker, WorkerNext
<1>3. CASE UNCHANGED vars
  BY <1>3 DEF vars, busVars, workerVars
<1> QED BY <1>1, <1>2, <1>3 DEF Next

\* An acked message has its row or its dead letter.
THEOREM Processed == Spec => []AckedIsProcessed
<1>1. Init => TypeInv /\ ProcessedInv
  <2> SUFFICES ASSUME Init PROVE TypeInv /\ ProcessedInv
    OBVIOUS
  <2>1. ProcessedInv
    BY DEF Init, BusInit, WorkerInit, ProcessedInv, AckedIsProcessed, DecidedIsProcessed
  <2> QED BY <2>1, InitTypes
<1>2. TypeInv /\ ProcessedInv /\ [Next]_vars => TypeInv' /\ ProcessedInv'
  BY StepTypes, StepProcessed
<1> QED BY <1>1, <1>2, PTL DEF Spec, ProcessedInv

LEMMA StepAttempts ==
  ASSUME TypeInv, AttemptsArePaid, [Next]_vars
  PROVE  AttemptsArePaid'
<1> DEFINE Paid(d, f, open) ==
             /\ d.status \in {"ready", "pending"} =>
                  d.attempts <= IF d.status = "pending" /\ open THEN f + 1 ELSE f
             /\ d.status = "exhausted" => f >= MaxDeliver
           Open(i) == i \in Held /\ [seq |-> i, action |-> "nak"] \notin job
<1>0. /\ BusTypeOK /\ WorkerTypeOK /\ BusTypeOK' /\ ReadyHasAttemptLeft
      /\ DOMAIN delivery = DOMAIN stream /\ DOMAIN delivery' = DOMAIN stream'
      /\ faults \in Nat /\ faults' \in Nat /\ MaxDeliver \in Nat
  BY StepTypes, BusDomains, BusAssumption DEF TypeInv, TypeOK, BusTypeOK
<1>1. \A i \in DOMAIN delivery :
        /\ Paid(delivery[i], faults, Open(i))
        /\ delivery[i] \in Delivery /\ delivery[i].attempts \in Nat
  <2> TAKE i \in DOMAIN delivery
  <2>1. delivery[i] \in Delivery
    BY <1>0, BusDomains
  <2>2. delivery[i].attempts \in Nat
    BY <2>1 DEF Delivery
  <2>3. Paid(delivery[i], faults, Open(i))
    BY DEF AttemptsArePaid, Unpaid
  <2> QED BY <2>1, <2>2, <2>3
<1>2. SUFFICES ASSUME NEW i \in DOMAIN delivery'
               PROVE  Paid(delivery'[i], faults', Open(i)')
  BY DEF AttemptsArePaid, Unpaid
<1>3. CASE Gateway \/ Broker
  <2>1. UNCHANGED workerVars /\ (faults' = faults \/ faults' = faults + 1)
    BY <1>3, OthersOnDelivery DEF Fault
  <2>2. CASE i \in DOMAIN delivery
    <3>1. delivery'[i] = delivery[i]
      BY <1>3, <2>2, OthersOnDelivery
    <3> QED BY <3>1, <2>1, <2>2, <1>0, <1>1 DEF Held, workerVars
  <2>3. CASE i \notin DOMAIN delivery
    <3>1. delivery'[i] = Fresh
      BY <1>3, <2>3, OthersOnDelivery
    <3>2. delivery'[i].status = "ready" /\ delivery'[i].attempts = 0
      BY <3>1 DEF Fresh
    <3> QED BY <3>2, <1>0
  <2> QED BY <2>2, <2>3
<1>4. CASE Worker
  <2>0. UNCHANGED stream /\ i \in DOMAIN delivery
    <3>1. UNCHANGED stream
      BY <1>4 DEF Worker, WorkerNext, Fetch, StorePoint, StoreFails, DeadLetter, DeadLetterFails,
                Settle, SettleLost, Redeliver, SlowWorker, WorkerCrash, busVars, workerVars
    <3> QED BY <3>1, <1>0
  <2> DEFINE d == delivery[i]
  <2>1. d \in Delivery /\ Paid(d, faults, Open(i)) /\ d.attempts \in Nat
    BY <2>0, <1>1
  <2>2. ASSUME delivery'[i] = d, UNCHANGED faults, Open(i) => Open(i)'
        PROVE  Paid(delivery'[i], faults', Open(i)')
    BY <1>0, <2>1, <2>2
  <2>3. ASSUME delivery'[i] = d, Fault
        PROVE  Paid(delivery'[i], faults', Open(i)')
    BY <1>0, <2>1, <2>3 DEF Fault
  <2>4. ASSUME delivery'[i] = Returned(d), d.status = "pending",
               Fault \/ (UNCHANGED faults /\ ~ Open(i))
        PROVE  Paid(delivery'[i], faults', Open(i)')
    <3>1. /\ Returned(d).attempts = d.attempts
          /\ Returned(d).status \in {"ready", "exhausted"}
          /\ Returned(d).status = "exhausted" => d.attempts = MaxDeliver
      BY <2>1, ReturnedFacts
    <3>2. d.attempts <= faults'
      BY <1>0, <2>1, <2>4 DEF Fault
    <3> QED BY <1>0, <2>1, <2>4, <3>1, <3>2
  <2>5. ASSUME NEW S \in SUBSET Ready, Fetch(S)
        PROVE  Paid(delivery'[i], faults', Open(i)')
    <3>1. /\ Deliver(S) /\ batch = {} /\ job = {} /\ batch' = S
          /\ UNCHANGED <<faults, job>>
      BY <2>5 DEF Fetch
    <3>2. CASE i \in S
      <4>1. delivery'[i] = [status |-> "pending", attempts |-> d.attempts + 1]
        BY <1>0, <3>1, <3>2, DeliverFacts
      <4>2. d.status = "ready" /\ d.attempts <= faults
        BY <3>2, <2>1 DEF Ready
      <4>3. Open(i)'
        BY <3>1, <3>2 DEF Held
      <4>4. delivery'[i].status = "pending" /\ delivery'[i].attempts = d.attempts + 1
        BY <4>1
      <4> QED BY <1>0, <2>1, <3>1, <4>2, <4>3, <4>4
    <3>3. CASE i \notin S
      <4>1. delivery'[i] = d
        BY <1>0, <2>0, <3>1, <3>3, DeliverFacts
      <4>2. ~ Open(i)
        BY <3>1 DEF Held
      <4> QED BY <2>2, <3>1, <4>1, <4>2
    <3> QED BY <3>2, <3>3
  <2>6. ASSUME NEW k \in batch, StorePoint(k) \/ DeadLetter(k)
        PROVE  Paid(delivery'[i], faults', Open(i)')
    <3>1. /\ UNCHANGED <<delivery, faults>> /\ job = {}
          /\ batch' = batch \ {k} /\ job' = {[seq |-> k, action |-> "ack"]}
      BY <2>6 DEF StorePoint, DeadLetter, Decide, busVars
    <3>2. Open(i) => Open(i)'
      BY <3>1 DEF Held
    <3> QED BY <2>2, <3>1, <3>2
  <2>7. ASSUME NEW k \in batch, StoreFails(k) \/ DeadLetterFails(k)
        PROVE  Paid(delivery'[i], faults', Open(i)')
    <3>1. UNCHANGED delivery /\ Fault
      BY <2>7 DEF StoreFails, DeadLetterFails, busVars
    <3> QED BY <2>3, <3>1
  <2>8. ASSUME NEW j \in job, Settle(j)
        PROVE  Paid(delivery'[i], faults', Open(i)')
    <3>1. /\ job' = {} /\ j.seq \in DOMAIN delivery /\ j \in [seq : DOMAIN stream, action : Actions]
          /\ \A k \in job : k = j
          /\ UNCHANGED <<faults, batch>>
      BY <2>8, <1>0 DEF Settle, WorkerTypeOK
    <3>2. ASSUME i # j.seq
          PROVE  Open(i) => Open(i)'
      BY <3>1, <3>2 DEF Held
    <3>3. CASE j.action = "ack"
      <4>1. /\ \A k \in DOMAIN delivery \ {j.seq} : delivery'[k] = delivery[k]
            /\ IF delivery[j.seq].status = "exhausted"
               THEN delivery'[j.seq] = delivery[j.seq] ELSE delivery'[j.seq].status = "acked"
        BY <1>0, <2>8, <3>1, <3>3, AckFacts DEF Settle
      <4>2. CASE i # j.seq
        BY <2>0, <2>2, <3>1, <3>2, <4>1, <4>2
      <4>3. CASE i = j.seq
        BY <1>0, <2>1, <3>1, <4>1, <4>3
      <4> QED BY <4>2, <4>3
    <3>4. CASE j.action = "nak"
      <4>1. ServerNak(j.seq)
        BY <2>8, <3>4 DEF Settle
      <4>2. /\ \A k \in DOMAIN delivery \ {j.seq} : delivery'[k] = delivery[k]
            /\ IF delivery[j.seq].status = "pending"
               THEN delivery'[j.seq] = Returned(delivery[j.seq])
               ELSE delivery'[j.seq] = delivery[j.seq]
        BY <1>0, <3>1, <4>1, ReturnFacts
      <4>3. CASE i # j.seq
        BY <2>0, <2>2, <3>1, <3>2, <4>2, <4>3
      <4>4. CASE i = j.seq
        <5>1. ~ Open(i)
          <6>1. j = [seq |-> i, action |-> "nak"]
            BY <3>1, <3>4, <4>4
          <6> QED BY <6>1
        <5> QED BY <2>2, <2>4, <3>1, <4>2, <4>4, <5>1
      <4> QED BY <4>3, <4>4
    <3> QED BY <3>1, <3>3, <3>4 DEF Actions
  <2>9. ASSUME WorkerCrash \/ \E j \in job : SettleLost(j)
        PROVE  Paid(delivery'[i], faults', Open(i)')
    <3>1. UNCHANGED delivery /\ Fault
      BY <2>9 DEF WorkerCrash, SettleLost, busVars
    <3> QED BY <2>3, <3>1
  <2>10. ASSUME NEW k \in DOMAIN delivery, Redeliver(k) \/ SlowWorker(k)
         PROVE  Paid(delivery'[i], faults', Open(i)')
    <3>1. /\ AckWaitLapses(k) /\ UNCHANGED workerVars
          /\ Fault \/ (UNCHANGED faults /\ k \notin Held)
      BY <2>10 DEF Redeliver, SlowWorker
    <3>2. /\ \A n \in DOMAIN delivery \ {k} : delivery'[n] = delivery[n]
          /\ delivery'[k] = Returned(delivery[k]) /\ delivery[k].status = "pending"
      BY <1>0, <3>1, ReturnFacts DEF AckWaitLapses
    <3>3. Open(i)' = Open(i)
      BY <3>1 DEF Held, workerVars
    <3>4. CASE i = k
      BY <2>4, <3>1, <3>2, <3>4
    <3>5. CASE i # k
      BY <2>0, <2>2, <2>3, <3>1, <3>2, <3>3, <3>5
    <3> QED BY <3>4, <3>5
  <2> QED BY <1>4, <2>5, <2>6, <2>7, <2>8, <2>9, <2>10 DEF Worker, WorkerNext
<1>5. CASE UNCHANGED vars
  BY <1>1, <1>5 DEF vars, busVars, workerVars, Held
<1> QED BY <1>3, <1>4, <1>5 DEF Next

\* A message is given up only after at least MaxDeliver failures.
THEOREM GivenUpLate == Spec => []GivenUpOnlyAfterFaults
<1>1. Init => TypeInv /\ AttemptsArePaid
  <2> SUFFICES ASSUME Init PROVE TypeInv /\ AttemptsArePaid
    OBVIOUS
  <2>1. AttemptsArePaid
    BY DEF Init, BusInit, AttemptsArePaid
  <2> QED BY <2>1, InitTypes
<1>2. TypeInv /\ AttemptsArePaid /\ [Next]_vars => TypeInv' /\ AttemptsArePaid'
  BY StepTypes, StepAttempts
<1>3. AttemptsArePaid => GivenUpOnlyAfterFaults
  BY DEF AttemptsArePaid, GivenUpOnlyAfterFaults
<1> QED BY <1>1, <1>2, <1>3, PTL DEF Spec

-----------------------------------------------------------------------------
(***************************************************************************)
(* Nothing invalid passes: RawCameThroughBus.                              *)
(***************************************************************************)
OnlyValid ==
  /\ InStream \cap Invalid = {}
  /\ raw \subseteq InStream
  /\ \A c \in Conns : At(c, "publish") => handler[c].event \cap Invalid = {}

\* A handler's record changes by its own steps and by a crash only.
LEMMA WhoseStep ==
  ASSUME TypeInv, Gateway, NEW c \in Conns, handler'[c] # handler[c]
  PROVE  ConnStep(c) \/ GatewayCrash
<1> SUFFICES ASSUME ~ GatewayCrash PROVE ConnStep(c)
  OBVIOUS
<1>0. GatewayTypeOK
  BY DEF TypeInv, TypeOK
<1>2. PICK o \in Conns : ConnStep(o)
  BY DEF Gateway, GatewayNext, ConnStep
<1>3. \E g : Put(o, g)
  <2>1. (\E S \in SUBSET Points : SendBatch(o, S)) => \E g : Put(o, g)
    BY DEF SendBatch
  <2>2. (\E p \in Points : CheckEvent(o, p)) => \E g : Put(o, g)
    BY DEF CheckEvent
  <2>3. (\E p \in Points : PublishEvent(o, p) \/ PublishFails(o, p)) => \E g : Put(o, g)
    BY DEF PublishEvent, PublishFails, Goto
  <2>4. (CheckFails(o) \/ MarkPublished(o) \/ MarkFails(o)) => \E g : Put(o, g)
    BY DEF CheckFails, MarkPublished, MarkFails, Goto, AcceptInHand
  <2>5. (Reply(o) \/ ReplyLost(o) \/ ReplyError(o)) => \E g : Put(o, g)
    BY DEF Reply, ReplyLost, ReplyError
  <2> QED BY <1>2, <2>1, <2>2, <2>3, <2>4, <2>5 DEF ConnStep
<1>4. o = c
  BY <1>0, <1>3 DEF Put, GatewayTypeOK
<1> QED BY <1>2, <1>4

\* A handler is about to publish what it was about to publish before, or a
\* point it has just found valid and not in the ledger.
LEMMA AboutToPublish ==
  ASSUME TypeInv, Gateway, NEW c \in Conns, At(c, "publish")'
  PROVE  \/ At(c, "publish") /\ handler'[c].event = handler[c].event
         \/ \E p \in Points \ (Invalid \cup ledger) : handler'[c].event = {p}
<1> DEFINE h == handler[c]
           Goal == \/ At(c, "publish") /\ handler'[c].event = handler[c].event
                   \/ \E p \in Points \ (Invalid \cup ledger) : handler'[c].event = {p}
<1>0. GatewayTypeOK /\ h \in Handler
  BY HandlerIsRecord DEF TypeInv, TypeOK
<1>1. CASE handler'[c] = h
  BY <1>1 DEF At
<1>2. CASE handler'[c] # h
  <2>1. ConnStep(c)
    <3>1. GatewayCrash => handler'[c].phase = "idle"
      BY DEF GatewayCrash, Idle
    <3> QED BY <1>2, <3>1, WhoseStep DEF At
  <2>2. ASSUME NEW g, Put(c, g) PROVE handler'[c] = g
    BY <1>0, <2>2 DEF Put, GatewayTypeOK
  <2>3. ASSUME NEW p \in Points, CheckEvent(c, p)
        PROVE  Goal
    <3>1. CASE p \in Invalid \/ p \in ledger
      <4>1. handler'[c].phase = h.phase
        BY <1>0, <2>2, <2>3, <3>1 DEF CheckEvent, Handler
      <4> QED BY <2>3, <4>1 DEF CheckEvent, At
    <3>2. CASE p \notin Invalid /\ p \notin ledger
      <4>1. handler'[c] = InHand(h, p)
        BY <2>2, <2>3, <3>2 DEF CheckEvent
      <4>2. InHand(h, p).event = {p}
        BY <1>0 DEF InHand, Handler
      <4> QED BY <3>2, <4>1, <4>2
    <3> QED BY <3>1, <3>2
  <2>4. ASSUME NEW S \in SUBSET Points, SendBatch(c, S)
        PROVE  Goal
    <3>1. handler'[c].phase \in {"error", "check"}
      BY <1>0, <2>2, <2>4 DEF SendBatch, Handler
    <3> QED BY <3>1 DEF At
  <2>5. ASSUME NEW p \in Points, PublishEvent(c, p) \/ PublishFails(c, p)
        PROVE  Goal
    <3>1. handler'[c].phase \in {"mark", "check"}
      BY <1>0, <2>2, <2>5 DEF PublishEvent, PublishFails, Goto, Handler
    <3> QED BY <3>1 DEF At
  <2>6. ASSUME \/ CheckFails(c) \/ MarkPublished(c) \/ MarkFails(c)
               \/ Reply(c) \/ ReplyLost(c) \/ ReplyError(c)
        PROVE  Goal
    <3>1. CheckFails(c) => handler'[c].phase = "error"
      BY <1>0, <2>2 DEF CheckFails, Goto, Handler
    <3>2. MarkPublished(c) \/ MarkFails(c) => handler'[c].phase = "check"
      BY <1>0, <2>2 DEF MarkPublished, MarkFails, AcceptInHand, Handler
    <3>3. Reply(c) \/ ReplyLost(c) \/ ReplyError(c) => handler'[c].phase = "idle"
      <4>1. Reply(c) \/ ReplyLost(c) \/ ReplyError(c) => handler'[c] = Idle
        BY <2>2 DEF Reply, ReplyLost, ReplyError
      <4> QED BY <4>1 DEF Idle
    <3> QED BY <2>6, <3>1, <3>2, <3>3 DEF At
  <2> QED BY <2>1, <2>3, <2>4, <2>5, <2>6 DEF ConnStep
<1> QED BY <1>1, <1>2

LEMMA StepValid ==
  ASSUME TypeInv, OnlyValid, [Next]_vars
  PROVE  OnlyValid'
<1>0. /\ BusTypeOK /\ WorkerTypeOK /\ Invalid \subseteq Points /\ Points \cap Malformed = {}
      /\ InStream \subseteq InStream'
  BY StepTypes, InStreamGrows, BusAssumption, IngestionAssumption DEF TypeInv, TypeOK
<1>1. ASSUME NEW m \in Body \ Invalid, UNCHANGED stream \/ Enqueue(m)
      PROVE  InStream' \cap Invalid = {}
  BY <1>0, <1>1, EnqueueFacts DEF OnlyValid, InStream
<1>2. CASE Gateway
  <2>1. InStream' \cap Invalid = {}
    <3>1. CASE UNCHANGED busVars
      BY <3>1 DEF OnlyValid, InStream, busVars
    <3>2. ASSUME NEW c \in Conns, NEW p \in Points, At(c, "publish"), handler[c].event = {p},
                 ServerAccepts(p)
          PROVE  InStream' \cap Invalid = {}
      <4>1. p \in Body \ Invalid
        BY <3>2 DEF OnlyValid, Body
      <4>2. UNCHANGED stream \/ Enqueue(p)
        BY <3>2 DEF ServerAccepts, busVars
      <4> QED BY <1>1, <4>1, <4>2
    <3> QED BY <1>2, <3>1, <3>2, GatewayOnBus DEF Gateway
  <2>2. raw' \subseteq InStream'
    BY <1>0, <1>2 DEF Gateway, workerVars, OnlyValid
  <2>3. \A c \in Conns : At(c, "publish")' => handler'[c].event \cap Invalid = {}
    BY <1>2, AboutToPublish DEF OnlyValid
  <2> QED BY <2>1, <2>2, <2>3 DEF OnlyValid
<1>3. CASE Worker
  <2>1. UNCHANGED <<stream, gatewayVars>>
    BY <1>3 DEF Worker, WorkerNext, Fetch, StorePoint, StoreFails, DeadLetter, DeadLetterFails,
                Settle, SettleLost, Redeliver, SlowWorker, WorkerCrash, busVars, workerVars
  <2>2. UNCHANGED raw \/ \E i \in batch : raw' = raw \cup {stream[i]}
    BY <1>3 DEF Worker, WorkerNext, Fetch, StorePoint, StoreFails, DeadLetter, DeadLetterFails,
                Settle, SettleLost, Redeliver, SlowWorker, WorkerCrash, busVars, workerVars
  <2>3. raw' \subseteq InStream
    BY <2>2, <1>0 DEF OnlyValid, InStream, WorkerTypeOK
  <2> QED BY <2>1, <2>3 DEF OnlyValid, InStream, gatewayVars, At
<1>4. CASE Broker
  <2>1. UNCHANGED <<gatewayVars, workerVars>>
    BY <1>4 DEF Broker
  <2>2. UNCHANGED stream \/ \E m \in Malformed : Enqueue(m)
    BY <1>4 DEF Broker, WindowExpires, OtherProducer
  <2>3. InStream' \cap Invalid = {}
    <3>1. Malformed \subseteq Body \ Invalid
      BY <1>0 DEF Body
    <3>2. UNCHANGED stream => InStream' \cap Invalid = {}
      BY DEF InStream, OnlyValid
    <3> QED BY <1>1, <2>2, <3>1, <3>2
  <2> QED BY <2>1, <2>3, <1>0 DEF OnlyValid, gatewayVars, workerVars, At
<1>5. CASE UNCHANGED vars
  BY <1>5 DEF vars, busVars, gatewayVars, workerVars, OnlyValid, InStream, At
<1> QED BY <1>2, <1>3, <1>4, <1>5 DEF Next

\* The raw table holds only valid points, and only those the bus carried.
THEOREM RawIsValid == Spec => []RawCameThroughBus
<1>1. Init => TypeInv /\ OnlyValid
  <2> SUFFICES ASSUME Init PROVE TypeInv /\ OnlyValid
    OBVIOUS
  <2>1. OnlyValid
    BY DEF Init, BusInit, GatewayInit, WorkerInit, OnlyValid, InStream, Idle, At
  <2> QED BY <2>1, InitTypes
<1>2. TypeInv /\ OnlyValid /\ [Next]_vars => TypeInv' /\ OnlyValid'
  BY StepTypes, StepValid
<1>3. OnlyValid => RawCameThroughBus
  BY DEF OnlyValid, RawCameThroughBus
<1> QED BY <1>1, <1>2, <1>3, PTL DEF Spec

-----------------------------------------------------------------------------
(***************************************************************************)
(* What the gateway, the window and the consumer have noted down agrees    *)
(* with the stream at every moment (the state IngestBatch, handle and      *)
(* Consume keep between two statements): the inductive invariants of the   *)
(* theorems above in one.                                                  *)
(***************************************************************************)
THEOREM BooksAreKept ==
  ASSUME UniqueEventIds
  PROVE  Spec => []Bookkeeping
<1> DEFINE Inv == TypeInv /\ Backed /\ ProcessedInv /\ AttemptsArePaid
<1>1. Init => Inv
  <2> SUFFICES ASSUME Init PROVE Inv
    OBVIOUS
  <2>1. Backed
    BY DEF Init, BusInit, GatewayInit, Backed, Idle, At
  <2>2. ProcessedInv
    BY DEF Init, BusInit, WorkerInit, ProcessedInv, AckedIsProcessed, DecidedIsProcessed
  <2>3. AttemptsArePaid
    BY DEF Init, BusInit, AttemptsArePaid
  <2> QED BY <2>1, <2>2, <2>3, InitTypes
<1>2. Inv /\ [Next]_vars => Inv'
  <2> SUFFICES ASSUME Inv, [Next]_vars PROVE Inv'
    OBVIOUS
  <2>1. TypeInv'
    BY StepTypes
  <2>2. Backed'
    BY StepBacked
  <2>3. ProcessedInv'
    BY StepProcessed
  <2>4. AttemptsArePaid'
    BY StepAttempts
  <2> QED BY <2>1, <2>2, <2>3, <2>4
<1>3. Inv => Bookkeeping
  BY DEF TypeInv, ProcessedInv, Bookkeeping
<1> HIDE DEF Inv
<1> QED BY <1>1, <1>2, <1>3, PTL DEF Spec

-----------------------------------------------------------------------------
(***************************************************************************)
(* Refinement.  Reply is Tell: Backed makes what it tells durable.         *)
(* StorePoint is Store, a stored PublishMsg is Persist, every other step   *)
(* stutters.                                                               *)
(***************************************************************************)

\* The only step that tells anybody anything leaves the bus alone.
LEMMA ToldGrows ==
  ASSUME Backed, Gateway
  PROVE  \/ told' = told
         \/ told \subseteq told' /\ told' \subseteq InStream /\ UNCHANGED busVars
<1>1. ASSUME NEW c \in Conns, Reply(c)
      PROVE  told \subseteq told' /\ told' \subseteq InStream /\ UNCHANGED busVars
  BY <1>1 DEF Reply, Backed
<1>2. ASSUME NEW c \in Conns,
             \/ \E S \in SUBSET Points : SendBatch(c, S)
             \/ \E p \in Points : CheckEvent(c, p) \/ PublishEvent(c, p) \/ PublishFails(c, p)
             \/ CheckFails(c) \/ MarkPublished(c) \/ MarkFails(c)
             \/ ReplyLost(c) \/ ReplyError(c)
      PROVE  told' = told
  BY <1>2 DEF SendBatch, CheckEvent, PublishEvent, PublishFails, CheckFails, MarkPublished,
              MarkFails, ReplyLost, ReplyError
<1>3. GatewayCrash => told' = told
  BY DEF GatewayCrash
<1> QED BY <1>1, <1>2, <1>3 DEF Gateway, GatewayNext

LEMMA StepImplements ==
  ASSUME TypeInv, Backed, [Next]_vars
  PROVE  [Promise!Next]_(Promise!vars)
<1> DEFINE durable == InStream \cap Points
<1>0. BusTypeOK /\ WorkerTypeOK /\ Points \cap Malformed = {} /\ Backed
  BY BusAssumption DEF TypeInv, TypeOK
<1>1. ASSUME NEW p \in Points, durable' = durable \cup {p}, told' = told, raw' = raw
      PROVE  Promise!Next
  BY <1>1 DEF Promise!Next, Promise!Persist
<1>2. ASSUME NEW S \in SUBSET durable, durable' = durable, told' = told \cup S, raw' = raw
      PROVE  Promise!Next
  BY <1>2 DEF Promise!Next, Promise!Tell
<1>3. ASSUME NEW p \in durable, durable' = durable, told' = told, raw' = raw \cup {p}
      PROVE  Promise!Next
  BY <1>3 DEF Promise!Next, Promise!Store
<1>4. ASSUME durable' = durable, told' = told, raw' = raw
      PROVE  UNCHANGED Promise!vars
  BY <1>4 DEF Promise!vars
<1>5. ASSUME NEW m \in Body, Enqueue(m)
      PROVE  durable' = durable \cup ({m} \cap Points)
  BY <1>0, <1>5, EnqueueFacts
<1>6. CASE Gateway
  <2>1. UNCHANGED raw
    BY <1>6 DEF Gateway, workerVars
  <2>2. CASE UNCHANGED busVars
    <3>1. durable' = durable
      BY <2>2 DEF busVars, InStream
    <3>2. told' \subseteq Points
      BY StepTypes DEF TypeInv, TypeOK, GatewayTypeOK
    <3>3. told' = told \/ (told \subseteq told' /\ told' \subseteq durable)
      BY <1>0, <1>6, <3>2, ToldGrows
    <3> QED BY <1>2, <1>4, <2>1, <3>1, <3>3
  <2>3. ASSUME NEW p \in Points, ServerAccepts(p), ~ UNCHANGED busVars
        PROVE  Promise!Next
    <3>1. p \in Body /\ Enqueue(p)
      BY <2>3 DEF ServerAccepts, Body
    <3>2. told' = told
      BY <1>6, <2>3, ToldGrows
    <3> QED BY <1>1, <1>5, <2>1, <3>1, <3>2
  <2> QED BY <1>6, <2>2, <2>3, GatewayOnBus DEF Gateway
<1>7. CASE Worker
  <2>1. /\ UNCHANGED <<stream, gatewayVars>>
        /\ UNCHANGED raw \/ \E i \in batch : stream[i] \in Points /\ raw' = raw \cup {stream[i]}
    BY <1>7 DEF Worker, WorkerNext, Fetch, StorePoint, StoreFails, DeadLetter, DeadLetterFails,
                Settle, SettleLost, Redeliver, SlowWorker, WorkerCrash, busVars, workerVars
  <2>2. durable' = durable /\ told' = told
    BY <2>1 DEF InStream, gatewayVars
  <2>3. \A i \in batch : stream[i] \in InStream
    BY <1>0 DEF WorkerTypeOK, InStream
  <2> QED BY <1>3, <1>4, <2>1, <2>2, <2>3
<1>8. CASE Broker
  <2>1. UNCHANGED <<told, raw>>
    BY <1>8 DEF Broker, gatewayVars, workerVars
  <2>2. durable' = durable
    <3>1. CASE UNCHANGED stream
      BY <3>1 DEF InStream
    <3>2. ASSUME NEW m \in Malformed, Enqueue(m)
          PROVE  durable' = durable
      <4>1. m \in Body /\ m \notin Points
        BY <1>0, <3>2 DEF Body
      <4> QED BY <1>5, <3>2, <4>1
    <3> QED BY <1>8, <3>1, <3>2 DEF Broker, WindowExpires, OtherProducer
  <2> QED BY <1>4, <2>1, <2>2
<1>9. CASE UNCHANGED vars
  BY <1>4, <1>9 DEF vars, busVars, gatewayVars, workerVars, InStream
<1> QED BY <1>6, <1>7, <1>8, <1>9 DEF Next

\* The pipeline keeps the promise of PointDelivery.
THEOREM Implements ==
  ASSUME UniqueEventIds
  PROVE  Spec => DeliveryPromise
<1>1. Init => TypeInv /\ Backed
  <2> SUFFICES ASSUME Init PROVE TypeInv /\ Backed
    OBVIOUS
  <2>1. Backed
    BY DEF Init, BusInit, GatewayInit, Backed, Idle, At
  <2> QED BY <2>1, InitTypes
<1>2. TypeInv /\ Backed /\ [Next]_vars => TypeInv' /\ Backed'
  BY StepTypes, StepBacked
<1>3. Init => Promise!Init
  BY DEF Init, BusInit, GatewayInit, WorkerInit, Promise!Init, InStream
<1>4. TypeInv /\ Backed /\ [Next]_vars => [Promise!Next]_(Promise!vars)
  BY StepImplements
<1> QED BY <1>1, <1>2, <1>3, <1>4, PTL DEF Spec, DeliveryPromise, Promise!Spec

-----------------------------------------------------------------------------
(***************************************************************************)
(* A ledger row closes its point: LedgerClosesPoint.                       *)
(***************************************************************************)

\* Appending another message leaves the copies of p where they are.
LEMMA CopiesOfOthers ==
  ASSUME BusTypeOK, NEW p, NEW m \in Body, m # p, Enqueue(m)
  PROVE  Copies(p)' = Copies(p)
<1>1. /\ DOMAIN stream' = DOMAIN stream \cup {Len(stream) + 1}
      /\ \A i \in DOMAIN stream : stream'[i] = stream[i]
      /\ stream'[Len(stream) + 1] = m
  BY EnqueueFacts
<1> QED BY <1>1 DEF Copies

LEMMA StepClosed ==
  ASSUME TypeInv, [Next]_vars
  PROVE  [ClosedStays]_vars
<1> SUFFICES ASSUME Next PROVE ClosedStays
  OBVIOUS
<1> SUFFICES ASSUME NEW p \in Points, Closed(p)
             PROVE  Closed(p)' /\ Copies(p)' = Copies(p)
  BY DEF ClosedStays
<1>0. BusTypeOK /\ Points \cap Malformed = {}
  BY BusAssumption DEF TypeInv, TypeOK
<1>1. CASE Gateway
  <2>1. ledger \subseteq ledger'
    BY <1>1 DEF Gateway, GatewayNext, SendBatch, CheckEvent, PublishEvent, PublishFails, CheckFails,
                MarkPublished, MarkFails, Reply, ReplyLost, ReplyError, GatewayCrash
  <2>2. ASSUME NEW c \in Conns, At(c, "publish")'
        PROVE  p \notin handler'[c].event
    BY <1>1, <2>2, AboutToPublish DEF Closed
  <2>3. Copies(p)' = Copies(p)
    <3>1. CASE UNCHANGED busVars
      BY <3>1 DEF busVars, Copies
    <3>2. ASSUME NEW c \in Conns, NEW q \in Points, At(c, "publish"), handler[c].event = {q},
                 ServerAccepts(q), ~ UNCHANGED busVars
          PROVE  Copies(p)' = Copies(p)
      <4>1. q # p /\ q \in Body /\ Enqueue(q)
        BY <3>2 DEF Closed, ServerAccepts, Body
      <4> QED BY <1>0, <4>1, CopiesOfOthers
    <3> QED BY <1>1, <3>1, <3>2, GatewayOnBus DEF Gateway
  <2> QED BY <2>1, <2>2, <2>3 DEF Closed
<1>2. CASE Worker
  <2>1. UNCHANGED <<stream, gatewayVars>>
    BY <1>2 DEF Worker, WorkerNext, Fetch, StorePoint, StoreFails, DeadLetter, DeadLetterFails,
                Settle, SettleLost, Redeliver, SlowWorker, WorkerCrash, busVars
  <2> QED BY <2>1 DEF Closed, Copies, gatewayVars, At
<1>3. CASE Broker
  <2>1. UNCHANGED gatewayVars /\ (UNCHANGED stream \/ \E m \in Malformed : Enqueue(m))
    BY <1>3 DEF Broker, WindowExpires, OtherProducer
  <2>2. Copies(p)' = Copies(p)
    <3>1. CASE UNCHANGED stream
      BY <3>1 DEF Copies
    <3>2. ASSUME NEW m \in Malformed, Enqueue(m)
          PROVE  Copies(p)' = Copies(p)
      <4>1. m \in Body /\ m # p
        BY <1>0, <3>2 DEF Body
      <4> QED BY <1>0, <3>2, <4>1, CopiesOfOthers
    <3> QED BY <2>1, <3>1, <3>2
  <2> QED BY <2>1, <2>2 DEF Closed, gatewayVars, At
<1> QED BY <1>1, <1>2, <1>3 DEF Next

\* Once a point is in the ledger and in nobody's hand it is never published
\* again.  This needs no assumption on the event_ids.
THEOREM LedgerCloses == Spec => LedgerClosesPoint
<1>1. TypeInv /\ [Next]_vars => [ClosedStays]_vars
  BY StepClosed
<1>2. Spec => []TypeInv
  BY TypeCorrect DEF TypeInv
<1> QED BY <1>1, <1>2, PTL DEF Spec, LedgerClosesPoint
=============================================================================
