-------------------------- MODULE LocationConsumer --------------------------
(***************************************************************************)
(* tracking-worker: the pull loop of JetStreamConsumer, the handler        *)
(* LocationConsumer.handle and LocationEventProcessor.Process.  One worker *)
(* fetches a batch, then handles its messages one at a time; the AckWait   *)
(* timer of every message of the batch runs from the fetch.                *)
(***************************************************************************)
EXTENDS EventBus

VARIABLES
  raw,          \* rows of raw_location_points
  deadLetters,  \* original events published to dead-letter.v1
  batch,        \* sequence numbers fetched and not yet handled
  job           \* the messages being settled: {} or one [seq, action]

workerVars == <<raw, deadLetters, batch, job>>

Actions == {"ack", "nak"}

WorkerTypeOK ==
  /\ raw \subseteq Points
  /\ deadLetters \subseteq Malformed
  /\ batch \subseteq DOMAIN stream
  /\ job \subseteq [seq : DOMAIN stream, action : Actions]
  /\ \A j, k \in job : j = k

WorkerInit ==
  /\ raw = {}
  /\ deadLetters = {}
  /\ batch = {}
  /\ job = {}

\* The messages this worker process has in memory.
Held == batch \cup {j.seq : j \in job}

-----------------------------------------------------------------------------
\* Faulty variants of Fetch: it does not wait for the previous batch, which is
\* forgotten; it never takes a message delivered before.
FetchForgetsBatch(S) ==
  /\ S # {} /\ S \subseteq Ready /\ Cardinality(S) <= FetchBatch
  /\ batch' = S
  /\ Deliver(S)
  /\ UNCHANGED <<stream, window, faults, raw, deadLetters, job>>

FetchNewOnly(S) ==
  /\ \A i \in S : delivery[i].attempts = 0
  /\ batch = {} /\ job = {}
  /\ FetchForgetsBatch(S)

\* Fetch: at most FetchBatch messages, when the previous batch is handled.
Fetch(S) ==
  /\ batch = {} /\ job = {}
  /\ S # {} /\ S \subseteq Ready /\ Cardinality(S) <= FetchBatch
  /\ batch' = S
  /\ Deliver(S)
  /\ UNCHANGED <<stream, window, faults, raw, deadLetters, job>>

Decide(i, action) ==
  /\ batch' = batch \ {i}
  /\ job' = {[seq |-> i, action |-> action]}

\* Process a message that decodes: Insert is idempotent on its key.
StorePoint(i) ==
  /\ i \in batch /\ job = {}
  /\ stream[i] \in Points
  /\ raw' = raw \cup {stream[i]}
  /\ Decide(i, "ack")
  /\ UNCHANGED <<busVars, faults, deadLetters>>

\* Faulty variant: the error of Insert is swallowed.
StoreErrorSwallowed(i) ==
  /\ i \in batch /\ job = {}
  /\ stream[i] \in Points
  /\ Fault
  /\ Decide(i, "ack")
  /\ UNCHANGED <<busVars, raw, deadLetters>>

\* Insert reports an error; the row may have been written all the same.
StoreFails(i) ==
  /\ i \in batch /\ job = {}
  /\ stream[i] \in Points
  /\ Fault
  /\ raw' \in {raw, raw \cup {stream[i]}}
  /\ Decide(i, "nak")
  /\ UNCHANGED <<busVars, deadLetters>>

\* Faulty variant: a dead-lettered message is naked.
DeadLetterThenNak(i) ==
  /\ i \in batch /\ job = {}
  /\ stream[i] \in Malformed
  /\ deadLetters' = deadLetters \cup {stream[i]}
  /\ Decide(i, "nak")
  /\ UNCHANGED <<busVars, faults, raw>>

\* Process a message that does not decode: dead-letter it, then ack.
DeadLetter(i) ==
  /\ i \in batch /\ job = {}
  /\ stream[i] \in Malformed
  /\ deadLetters' = deadLetters \cup {stream[i]}
  /\ Decide(i, "ack")
  /\ UNCHANGED <<busVars, faults, raw>>

\* The dead-letter publish fails, or only its PubAck is lost.
DeadLetterFails(i) ==
  /\ i \in batch /\ job = {}
  /\ stream[i] \in Malformed
  /\ Fault
  /\ deadLetters' \in {deadLetters, deadLetters \cup {stream[i]}}
  /\ Decide(i, "nak")
  /\ UNCHANGED <<busVars, raw>>

\* handle executes the decision.
Settle(j) ==
  /\ j \in job
  /\ IF j.action = "ack" THEN ServerAck(j.seq) ELSE ServerNak(j.seq)
  /\ job' = {}
  /\ UNCHANGED <<stream, window, faults, raw, deadLetters, batch>>

\* Ack and Nak do not wait for the server: they may be lost.
SettleLost(j) ==
  /\ j \in job
  /\ Fault
  /\ job' = {}
  /\ UNCHANGED <<busVars, raw, deadLetters, batch>>

\* The worker process dies, or leaves the loop in the middle of a batch
\* because its context is cancelled.
WorkerCrash ==
  /\ Held # {}
  /\ Fault
  /\ batch' = {} /\ job' = {}
  /\ UNCHANGED <<busVars, raw, deadLetters>>

\* AckWait runs out: of a message nobody holds any more, or (a fault) of one
\* the worker is too slow to reach.
Redeliver(i) ==
  /\ i \in DOMAIN delivery \ Held
  /\ AckWaitLapses(i)
  /\ UNCHANGED <<stream, window, faults, workerVars>>

SlowWorker(i) ==
  /\ i \in Held
  /\ Fault
  /\ AckWaitLapses(i)
  /\ UNCHANGED <<stream, window, workerVars>>

WorkerNext ==
  \/ \E S \in SUBSET Ready : Fetch(S)
  \/ \E i \in batch : StorePoint(i) \/ StoreFails(i) \/ DeadLetter(i) \/ DeadLetterFails(i)
  \/ \E j \in job : Settle(j) \/ SettleLost(j)
  \/ \E i \in DOMAIN delivery : Redeliver(i) \/ SlowWorker(i)
  \/ WorkerCrash
=============================================================================
