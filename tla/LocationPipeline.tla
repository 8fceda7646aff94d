-------------------------- MODULE LocationPipeline --------------------------
(***************************************************************************)
(* The ingestion path from the tracker's batches to raw_location_points:   *)
(* the gateway's batch handlers (TrackerIngestion), JetStream (EventBus)   *)
(* and the worker's consumer (LocationConsumer), with crashes of either    *)
(* service, lost replies, lost PubAcks, database errors and slow workers.  *)
(***************************************************************************)
EXTENDS TrackerIngestion, LocationConsumer

vars == <<busVars, faults, gatewayVars, workerVars>>

Init == BusInit /\ GatewayInit /\ WorkerInit

Gateway == GatewayNext /\ UNCHANGED workerVars

Worker == WorkerNext /\ UNCHANGED gatewayVars

\* The bound of the stream: there is room for one more message than the valid
\* ids outside the window can still put there, so that MaxStream never holds up
\* a publish; what it limits is forgetting ids and the other producer.
Room ==
  Len(stream) + Cardinality({EventIdOf(p) : p \in Points \ Invalid} \ window) < MaxStream

Broker ==
  /\ Room
  /\ \/ \E e \in EventIds : WindowExpires(e)
     \/ \E m \in Malformed : OtherProducer(m)
  /\ UNCHANGED <<gatewayVars, workerVars>>

Next == Gateway \/ Worker \/ Broker

Spec == Init /\ [][Next]_vars

(***************************************************************************)
(* Fairness.  A handler goroutine that started a batch runs to its answer, *)
(* the worker's loop keeps fetching, handling and settling, and AckWait is *)
(* a timer of the server.  Nothing obliges the tracker to send, the window *)
(* to expire or a fault to happen.                                         *)
(***************************************************************************)
HandlerStep(c) ==
  /\ \/ \E p \in Points : CheckEvent(c, p) \/ PublishEvent(c, p)
     \/ MarkPublished(c) \/ Reply(c) \/ ReplyError(c)
  /\ UNCHANGED workerVars

WorkerStep ==
  /\ \/ \E S \in SUBSET Ready : Fetch(S)
     \/ \E i \in batch : StorePoint(i) \/ DeadLetter(i)
     \/ \E j \in job : Settle(j)
  /\ UNCHANGED gatewayVars

AckWaitTimer(i) == i \in DOMAIN delivery /\ Redeliver(i) /\ UNCHANGED gatewayVars

FairSpec ==
  /\ Spec
  /\ \A c \in Conns : WF_vars(HandlerStep(c))
  /\ WF_vars(WorkerStep)
  /\ \A i \in 1 .. MaxStream : WF_vars(AckWaitTimer(i))

-----------------------------------------------------------------------------
TypeOK == BusTypeOK /\ GatewayTypeOK /\ WorkerTypeOK

\* Points the gateway has confirmed, or is about to confirm, to a tracker.
Confirmed ==
  told \cup UNION {handler[c].accepted \cup handler[c].duplicated : c \in Conns}

(***************************************************************************)
(* Publish before acknowledge: whatever a tracker was told, or is about to *)
(* be told, is accepted or duplicated is on the bus under its own key      *)
(* (IngestBatch: publish, PubAck, ledger, answer; the ledger never says    *)
(* duplicated of an event that was not published).                         *)
(***************************************************************************)
ConfirmedIsDurable == Confirmed \cup ledger \subseteq InStream

(***************************************************************************)
(* Process before acknowledge: a message the consumer acked to JetStream   *)
(* has its row in raw_location_points, or its dead letter (Process and     *)
(* handle, across errors, lost settlements, lapses and crashes).           *)
(***************************************************************************)
AckedIsProcessed ==
  \A i \in DOMAIN stream :
    delivery[i].status = "acked" => stream[i] \in raw \cup deadLetters

(***************************************************************************)
(* Nothing invalid crosses the gateway and nothing the bus did not carry   *)
(* reaches the raw table.                                                  *)
(***************************************************************************)
RawCameThroughBus == raw \subseteq InStream \ Invalid

(***************************************************************************)
(* The delivery limit is spent only by failures: a message is given up     *)
(* after no fewer than MaxDeliver infrastructure failures, although one    *)
(* worker crash or one slow message costs an attempt to every message      *)
(* fetched with it.                                                        *)
(***************************************************************************)
GivenUpOnlyAfterFaults ==
  \A i \in DOMAIN delivery :
    delivery[i].status = "exhausted" => faults >= MaxDeliver

(***************************************************************************)
(* A ledger row closes its point: once it is written and no handler is     *)
(* left between IsDuplicate and Publish with that point in hand, no later  *)
(* batch, on whichever connection, publishes the point again, also after   *)
(* JetStream's window has forgotten it.                                    *)
(***************************************************************************)
Copies(p) == {i \in DOMAIN stream : stream[i] = p}

Closed(p) ==
  /\ p \in ledger
  /\ \A c \in Conns : At(c, "publish") => p \notin handler[c].event

ClosedStays == \A p \in Points : Closed(p) => Closed(p)' /\ Copies(p)' = Copies(p)

LedgerClosesPoint == [][ClosedStays]_vars

(***************************************************************************)
(* The promise of PointDelivery, with the bus, the acks and the raw table  *)
(* in the roles of durable, told and stored.                               *)
(***************************************************************************)
Promise == INSTANCE PointDelivery WITH
  durable <- InStream \cap Points,
  told    <- told,
  stored  <- raw

DeliveryPromise == Promise!Spec

-----------------------------------------------------------------------------
(***************************************************************************)
(* The inductive invariants behind the safety properties.                  *)
(***************************************************************************)

\* An id in the window, the event between Publish and MarkPublished, a result
\* not yet sent, a ledger row and an ack heard all stand for a message.
Backed ==
  /\ \A p \in Points : EventIdOf(p) \in window => p \in InStream
  /\ \A c \in Conns :
       /\ handler[c].accepted \cup handler[c].duplicated \subseteq InStream
       /\ At(c, "mark") => handler[c].event \subseteq InStream
  /\ ledger \cup told \subseteq InStream

\* A message the server may still deliver has an attempt left.
ReadyHasAttemptLeft ==
  \A i \in Ready : delivery[i].attempts < MaxDeliver

\* The worker decides to ack only what it has processed.
DecidedIsProcessed ==
  \A j \in job : j.action = "ack" => stream[j.seq] \in raw \cup deadLetters

(***************************************************************************)
(* Every attempt but one is paid for by a failure; the open one belongs to *)
(* a message the worker holds and has not decided to nak.                  *)
(***************************************************************************)
Unpaid(i) ==
  /\ delivery[i].status = "pending"
  /\ i \in Held
  /\ [seq |-> i, action |-> "nak"] \notin job

AttemptsArePaid ==
  \A i \in DOMAIN delivery :
    /\ delivery[i].status \in {"ready", "pending"} =>
         delivery[i].attempts <= IF Unpaid(i) THEN faults + 1 ELSE faults
    /\ delivery[i].status = "exhausted" => faults >= MaxDeliver

(***************************************************************************)
(* What the handlers, the window, the ledger and the delivery counts       *)
(* record agrees with the stream at every moment, in the middle of a batch *)
(* and after any crash: this carries the properties above from one step to *)
(* the next.                                                               *)
(***************************************************************************)
Bookkeeping == Backed /\ ReadyHasAttemptLeft /\ DecidedIsProcessed /\ AttemptsArePaid

-----------------------------------------------------------------------------
\* Every message of the subject is settled or given up.
EverythingSettles ==
  \A i \in 1 .. MaxStream :
    (i \in DOMAIN delivery)
      ~> (i \in DOMAIN delivery /\ delivery[i].status \in {"acked", "exhausted"})

(***************************************************************************)
(* A point the tracker was told is delivered reaches the raw table, unless *)
(* there are as many failures as the delivery limit allows a message.      *)
(***************************************************************************)
ConfirmedIsStored ==
  \A p \in Points \ Invalid : (p \in told) ~> (p \in raw \/ faults >= MaxDeliver)

(***************************************************************************)
(* docs/architecture/event-bus.md: when a consumer exhausts redelivery     *)
(* attempts (MaxDeliver), it publishes a dead-letter.v1 event.             *)
(***************************************************************************)
ExhaustedIsDeadLettered ==
  \A i \in 1 .. MaxStream :
    (i \in DOMAIN delivery /\ delivery[i].status = "exhausted")
      ~> (i \in DOMAIN stream /\ stream[i] \in deadLetters)
=============================================================================
