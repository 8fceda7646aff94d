-------------------------- MODULE TrackerIngestion --------------------------
(***************************************************************************)
(* tracking-gateway: one location.batch handler per WebSocket connection   *)
(* runs TrackerIngestionUseCase.IngestBatch, event by event, against the   *)
(* de-duplication ledger and the event bus, and answers with an ack or a   *)
(* global error.  A tracker may send any of its points at any time, on any *)
(* connection, again or not: lost answers, reconnects, two live sockets    *)
(* and the user's retry of failed points all come down to that here.       *)
(***************************************************************************)
EXTENDS EventBus

CONSTANTS
  Conns,        \* handlers (connections) the gateway may run at a time
  Invalid,      \* the points validateLocationEvent or NewEvent refuses
  MaxBatch      \* the gateway's maxBatch

ASSUME IngestionAssumption ==
  /\ Invalid \subseteq Points
  /\ MaxBatch \in Nat

VARIABLES
  ledger,       \* rows of ingested_location_events
  handler,      \* handler[c]: where the handler of connection c stands
  told          \* points some ack has told a tracker are accepted or duplicated

gatewayVars == <<ledger, handler, told>>

Phase == {"idle", "check", "publish", "mark", "error"}
Handler ==
  [phase : Phase,
   todo : SUBSET Points,        \* events of the batch still to be handled
   event : SUBSET Points,       \* the event in hand: one point or none
   accepted : SUBSET Points,    \* BatchResult
   duplicated : SUBSET Points,
   rejected : SUBSET Points]

Idle ==
  [phase |-> "idle", todo |-> {}, event |-> {},
   accepted |-> {}, duplicated |-> {}, rejected |-> {}]

GatewayTypeOK ==
  /\ ledger \subseteq Points
  /\ handler \in [Conns -> Handler]
  /\ told \subseteq Points

GatewayInit ==
  /\ ledger = {}
  /\ handler = [c \in Conns |-> Idle]
  /\ told = {}

Busy(c) == handler[c].phase # "idle"
At(c, phase) == handler[c].phase = phase
Put(c, h) == handler' = [handler EXCEPT ![c] = h]
Goto(c, phase) == Put(c, [handler[c] EXCEPT !.phase = phase])

-----------------------------------------------------------------------------
\* The handler takes a batch, points of one device; above maxBatch it answers
\* BATCH_TOO_LARGE and touches nothing.
SendBatch(c, S) ==
  /\ ~ Busy(c)
  /\ S # {}
  /\ \A p, q \in S : DeviceOf(p) = DeviceOf(q)
  /\ Put(c, [handler[c] EXCEPT
              !.phase = IF Cardinality(S) > MaxBatch THEN "error" ELSE "check",
              !.todo = S])
  /\ UNCHANGED <<ledger, told, busVars, faults>>

InHand(h, p) ==
  [h EXCEPT !.todo = @ \ {p}, !.event = {p}, !.phase = "publish"]

\* Faulty variants of the next action: the ledger row is claimed before the
\* publish; neither the validation nor the ledger is consulted.
ClaimBeforePublish(c, p) ==
  /\ At(c, "check")
  /\ p \in handler[c].todo \ ledger
  /\ Put(c, InHand(handler[c], p))
  /\ ledger' = ledger \cup {p}
  /\ UNCHANGED <<told, busVars, faults>>

CheckNothing(c, p) ==
  /\ At(c, "check")
  /\ p \in handler[c].todo
  /\ Put(c, InHand(handler[c], p))
  /\ UNCHANGED <<ledger, told, busVars, faults>>

\* Steps 1 and 2 for the next event: business validation, then IsDuplicate.
CheckEvent(c, p) ==
  /\ At(c, "check")
  /\ p \in handler[c].todo
  /\ LET h == handler[c] IN
     Put(c, IF p \in Invalid
            THEN [h EXCEPT !.todo = @ \ {p}, !.rejected = @ \cup {p}]
            ELSE IF p \in ledger
            THEN [h EXCEPT !.todo = @ \ {p}, !.duplicated = @ \cup {p}]
            ELSE InHand(h, p))
  /\ UNCHANGED <<ledger, told, busVars, faults>>

\* IsDuplicate fails: the whole batch is abandoned with a global error, the
\* events published so far stay published and marked.
CheckFails(c) ==
  /\ At(c, "check")
  /\ handler[c].todo \ Invalid # {}
  /\ Fault
  /\ Goto(c, "error")
  /\ UNCHANGED <<ledger, told, busVars>>

\* Step 3: the bus confirmed the event.
PublishEvent(c, p) ==
  /\ At(c, "publish")
  /\ handler[c].event = {p}
  /\ ServerAccepts(p)
  /\ Goto(c, "mark")
  /\ UNCHANGED <<ledger, told, faults>>

\* Faulty variant: the error of Publish is ignored.
PublishErrorIgnored(c, p) ==
  /\ At(c, "publish")
  /\ handler[c].event = {p}
  /\ Fault
  /\ Goto(c, "mark")
  /\ UNCHANGED <<ledger, told, busVars>>

\* Step 3 with ErrPublish: the event is rejected with EVENT_BUS_UNAVAILABLE.
\* Either the server never saw it or only its PubAck was lost.
PublishFails(c, p) ==
  /\ At(c, "publish")
  /\ handler[c].event = {p}
  /\ Fault
  /\ \/ ServerAccepts(p)
     \/ UNCHANGED busVars
  /\ Put(c, [handler[c] EXCEPT !.phase = "check", !.event = {},
                               !.rejected = @ \cup {p}])
  /\ UNCHANGED <<ledger, told>>

\* Step 4: the event is accepted whether or not MarkPublished reports an error,
\* and whether or not the row was written when it does.
AcceptInHand(c) ==
  Put(c, [handler[c] EXCEPT !.phase = "check", !.event = {},
                            !.accepted = @ \cup handler[c].event])

MarkPublished(c) ==
  /\ At(c, "mark")
  /\ ledger' = ledger \cup handler[c].event
  /\ AcceptInHand(c)
  /\ UNCHANGED <<told, busVars, faults>>

MarkFails(c) ==
  /\ At(c, "mark")
  /\ Fault
  /\ ledger' \in {ledger, ledger \cup handler[c].event}
  /\ AcceptInHand(c)
  /\ UNCHANGED <<told, busVars>>

-----------------------------------------------------------------------------
\* Faulty variant of Reply: rejected points are acked too.
ReplyAcksAll(c) ==
  LET h == handler[c] IN
  /\ At(c, "check")
  /\ h.todo = {}
  /\ told' = told \cup h.accepted \cup h.duplicated \cup h.rejected
  /\ Put(c, Idle)
  /\ UNCHANGED <<ledger, busVars, faults>>

\* location.batch.ack reaches the tracker.
Reply(c) ==
  LET h == handler[c] IN
  /\ At(c, "check")
  /\ h.todo = {}
  /\ told' = told \cup h.accepted \cup h.duplicated
  /\ Put(c, Idle)
  /\ UNCHANGED <<ledger, busVars, faults>>

\* The connection is gone when the handler writes its ack.  It has not noticed
\* before: the request context of a hijacked connection is not cancelled.
ReplyLost(c) ==
  /\ At(c, "check")
  /\ handler[c].todo = {}
  /\ Fault
  /\ Put(c, Idle)
  /\ UNCHANGED <<ledger, told, busVars>>

\* The global error reply, heard or not: the tracker only logs it.
ReplyError(c) ==
  /\ At(c, "error")
  /\ Put(c, Idle)
  /\ UNCHANGED <<ledger, told, busVars, faults>>

\* The gateway process dies between any two steps.
GatewayCrash ==
  /\ \E c \in Conns : Busy(c)
  /\ Fault
  /\ handler' = [c \in Conns |-> Idle]
  /\ UNCHANGED <<ledger, told, busVars>>

GatewayNext ==
  \/ \E c \in Conns :
       \/ \E S \in SUBSET Points : SendBatch(c, S)
       \/ \E p \in Points : CheckEvent(c, p) \/ PublishEvent(c, p) \/ PublishFails(c, p)
       \/ CheckFails(c) \/ MarkPublished(c) \/ MarkFails(c)
       \/ Reply(c) \/ ReplyLost(c) \/ ReplyError(c)
  \/ GatewayCrash
=============================================================================
