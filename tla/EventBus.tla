------------------------------ MODULE EventBus ------------------------------
(***************************************************************************)
(* The JetStream stream WRANY_EVENTS as libs/eventbus/nats configures it,  *)
(* restricted to the subject location.events.v1: a publisher side with a   *)
(* de-duplication window on Nats-Msg-Id, and one durable pull consumer     *)
(* with explicit acknowledgement, an AckWait timer and a delivery limit.   *)
(***************************************************************************)
EXTENDS Naturals, Sequences, FiniteSets

CONSTANTS
  Devices,      \* (user_id, device_id) pairs
  EventIds,     \* values of envelope.event_id, sent as Nats-Msg-Id
  Points,       \* the location events in play, a subset of Devices \X EventIds
  Malformed,    \* messages of another producer that the worker cannot decode
  MaxDeliver,   \* ConsumerConfig.MaxDeliver (5 in production)
  FetchBatch,   \* ConsumerConfig.FetchBatchSize (100 in production)
  MaxStream,    \* bound: messages the stream may ever hold
  MaxFaults     \* bound: infrastructure failures in one behaviour

ASSUME BusAssumption ==
  /\ Points \subseteq Devices \X EventIds
  /\ Points \cap Malformed = {}
  /\ MaxDeliver \in Nat \ {0}
  /\ FetchBatch \in Nat \ {0}
  /\ MaxStream \in Nat
  /\ MaxFaults \in Nat

DeviceOf(p) == p[1]
EventIdOf(p) == p[2]

(***************************************************************************)
(* No two devices use the same event_id.  The ledger, the raw table and    *)
(* the protocol do not need this; JetStream's window does.                 *)
(***************************************************************************)
UniqueEventIds == \A p, q \in Points : EventIdOf(p) = EventIdOf(q) => p = q

VARIABLES
  stream,       \* the messages stored, in stream-sequence order
  window,       \* the Nats-Msg-Ids the de-duplication window remembers
  delivery,     \* consumer state of each stream sequence number
  faults        \* failures so far (lost replies, errors, crashes, lapses)

busVars == <<stream, window, delivery>>

Body == Points \cup Malformed
DeliveryStatus == {"ready", "pending", "acked", "exhausted"}
Delivery == [status : DeliveryStatus, attempts : 0 .. MaxDeliver]

InStream == {stream[i] : i \in DOMAIN stream}

BusTypeOK ==
  /\ stream \in Seq(Body)
  /\ window \subseteq EventIds
  /\ delivery \in Seq(Delivery)
  /\ Len(delivery) = Len(stream)
  /\ faults \in 0 .. MaxFaults

BusInit ==
  /\ stream = << >>
  /\ window = {}
  /\ delivery = << >>
  /\ faults = 0

\* One more failure of the infrastructure.
Fault ==
  /\ faults < MaxFaults
  /\ faults' = faults + 1

-----------------------------------------------------------------------------
(***************************************************************************)
(* Publisher side.                                                         *)
(***************************************************************************)
Enqueue(m) ==
  /\ stream' = Append(stream, m)
  /\ delivery' = Append(delivery, [status |-> "ready", attempts |-> 0])

\* PublishMsg reached the server: a Nats-Msg-Id of the window is dropped and
\* acknowledged as a duplicate, anything else is stored.  Publish returns nil
\* in both cases: it does not look at PubAck.Duplicate.
ServerAccepts(p) ==
  IF EventIdOf(p) \in window
  THEN UNCHANGED busVars
  ELSE /\ Enqueue(p)
       /\ window' = window \cup {EventIdOf(p)}

\* The two-minute window forgets an id.
WindowExpires(e) ==
  /\ e \in window
  /\ window' = window \ {e}
  /\ UNCHANGED <<stream, delivery, faults>>

\* Another producer puts a message on the subject the worker cannot decode.
OtherProducer(m) ==
  /\ m \in Malformed \ InStream
  /\ Enqueue(m)
  /\ UNCHANGED <<window, faults>>

-----------------------------------------------------------------------------
(***************************************************************************)
(* Consumer side.                                                          *)
(***************************************************************************)
Ready == {i \in DOMAIN delivery : delivery[i].status = "ready"}

\* One more attempt for each message of S; AckWait starts.
Deliver(S) ==
  delivery' = [i \in DOMAIN delivery |->
                 IF i \in S
                 THEN [status |-> "pending", attempts |-> delivery[i].attempts + 1]
                 ELSE delivery[i]]

\* Faulty variants: one attempt too many, and one too few.
ReturnedOneTooMany(d) ==
  [d EXCEPT !.status = IF d.attempts <= MaxDeliver THEN "ready" ELSE "exhausted"]

ReturnedOneTooFew(d) ==
  [d EXCEPT !.status = IF d.attempts + 1 < MaxDeliver THEN "ready" ELSE "exhausted"]

\* A delivery came to nothing: again, unless MaxDeliver attempts were made.
Returned(d) ==
  [d EXCEPT !.status = IF d.attempts < MaxDeliver THEN "ready" ELSE "exhausted"]

ServerAck(i) ==
  delivery' = [delivery EXCEPT ![i] =
                 IF @.status = "exhausted" THEN @ ELSE [@ EXCEPT !.status = "acked"]]

ServerNak(i) ==
  delivery' = [delivery EXCEPT ![i] =
                 IF @.status = "pending" THEN Returned(@) ELSE @]

\* AckWait ran out for a delivery that was neither acked nor naked.
AckWaitLapses(i) ==
  /\ delivery[i].status = "pending"
  /\ delivery' = [delivery EXCEPT ![i] = Returned(@)]
=============================================================================
