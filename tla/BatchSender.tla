----------------------------- MODULE BatchSender -----------------------------
(***************************************************************************)
(* The Android tracker's sender: BatchSender with its WebSocket listener,  *)
(* the coroutines it launches and the Room queue they write.  Callbacks    *)
(* run on the reader thread of each socket, coroutines on Dispatchers.IO:  *)
(* they interleave at every suspension, and nothing but single fields is   *)
(* atomic.  The gateway is the other end of each socket.                   *)
(***************************************************************************)
EXTENDS Naturals, Sequences, FiniteSets

CONSTANTS
  Points,          \* rows of location_queue
  BatchSize,       \* BATCH_SIZE (20)
  RefreshCap,      \* MAX_REFRESH_ATTEMPTS (3)
  MaxSockets,      \* bound: WebSockets opened in one behaviour
  MaxTasks,        \* bound: coroutines with work to do at the same time
  MaxFaults,       \* bound: broken connections, failed refreshes, restarts
  MaxRefusals,     \* bound: points the gateway rejects and error replies
  MaxNudges,       \* bound: times the user forces a reconnect
  MaxTroubles      \* bound: all of these in one behaviour

ASSUME SenderAssumption ==
  /\ IsFiniteSet(Points)
  /\ {BatchSize, RefreshCap, MaxSockets, MaxTasks} \subseteq Nat \ {0}
  /\ {MaxFaults, MaxRefusals, MaxNudges, MaxTroubles} \subseteq Nat

VARIABLES
  queue,           \* status of each row
  inflight,        \* the points of the batch not yet answered
  sessionAccepted,
  ws,              \* the socket in field ws, 0 for null
  socket,          \* what is left of each WebSocket
  task,            \* coroutines that have work left
  timers,          \* delayed reconnects scheduled
  refresh,         \* the coroutine of refreshAndReconnect; "no": refreshing is false
  refreshAttempt, authExpired,
  dropped,         \* history: since connect() a refused upgrade was left to a refresh already over
  confirmed,       \* history: points the gateway called accepted or duplicated
  budget           \* faults, refusals and nudges left

authVars == <<refresh, refreshAttempt, authExpired, dropped>>
sessionVars == <<ws, sessionAccepted, socket, timers, authVars>>
vars == <<queue, inflight, sessionVars, task, confirmed, budget>>

Sockets == 1 .. MaxSockets
Tasks == 1 .. MaxTasks

\* Messages of the protocol: ok and bad are the points a batch or ack lists.
Message == [type : {"start", "batch", "close", "accepted", "ack", "error"},
            ok : SUBSET Points, bad : SUBSET Points]
Plain(type) == [type |-> type, ok |-> {}, bad |-> {}]
Batch(S) == [type |-> "batch", ok |-> S, bad |-> {}]
Ack(S, T) == [type |-> "ack", ok |-> S, bad |-> T]

\* closed: onClosing ran, onClosed did not yet.
SocketStates == {"unused", "connecting", "open", "closed", "done"}
Socket == [state : SocketStates, session : BOOLEAN, up : Seq(Message), down : Seq(Message)]

\* A socket with nothing under way.
Silent(state) == [state |-> state, session |-> FALSE, up |-> << >>, down |-> << >>]

NoTask == [step |-> "none", ok |-> {}, bad |-> {}]
Steps == {"none", "query", "send", "markAcked", "markFailed", "clear", "return"}
Task == [step : Steps, ok : SUBSET Points, bad : SUBSET Points]

\* begun: launched; asked: its request is on the way; over: what is left of it
\* is the finally that sets refreshing to false.
Refreshing == {"no", "begun", "asked", "over"}

Kinds == {"faults", "refusals", "nudges"}
Allowance == [k \in Kinds |-> IF k = "faults" THEN MaxFaults
                              ELSE IF k = "refusals" THEN MaxRefusals ELSE MaxNudges]

TypeOK ==
  /\ queue \in [Points -> {"pending", "acked", "failed"}]
  /\ inflight \subseteq Points
  /\ sessionAccepted \in BOOLEAN
  /\ ws \in 0 .. MaxSockets
  /\ socket \in [Sockets -> Socket]
  /\ task \in [Tasks -> Task]
  /\ timers \in Nat
  /\ refresh \in Refreshing
  /\ authExpired \in BOOLEAN /\ dropped \in BOOLEAN
  /\ refreshAttempt \in 0 .. RefreshCap
  /\ confirmed \subseteq Points
  /\ budget \in [Kinds -> Nat]

Init ==
  /\ queue = [p \in Points |-> "pending"]
  /\ inflight = {}
  /\ sessionAccepted = FALSE
  /\ ws = 1
  /\ socket = [s \in Sockets |-> Silent(IF s = 1 THEN "connecting" ELSE "unused")]
  /\ task = [t \in Tasks |-> NoTask]
  /\ timers = 0
  /\ refresh = "no" /\ refreshAttempt = 0 /\ authExpired = FALSE /\ dropped = FALSE
  /\ confirmed = {}
  /\ budget = Allowance

-----------------------------------------------------------------------------
Troubles ==
  MaxFaults + MaxRefusals + MaxNudges - (budget["faults"] + budget["refusals"] + budget["nudges"])

Spend(kind) ==
  /\ budget[kind] > 0 /\ Troubles < MaxTroubles
  /\ budget' = [budget EXCEPT ![kind] = @ - 1]

\* scope.launch.  The bound: no step is taken that needs more than MaxTasks.
Idle == {t \in Tasks : task[t] = NoTask}
Launch(step, ok, bad) ==
  \E t \in Idle :
    /\ \A u \in Idle : t <= u
    /\ task' = [task EXCEPT ![t] = [step |-> step, ok |-> ok, bad |-> bad]]

\* A coroutine goes on to its next step, or ends.
Continue(t, step) == task' = [task EXCEPT ![t] = [task[t] EXCEPT !.step = step]]
End(t) == task' = [task EXCEPT ![t] = NoTask]

\* returnInflightToPending
ReturnInflight ==
  IF inflight = {} THEN UNCHANGED <<inflight, task>>
  ELSE inflight' = {} /\ Launch("return", inflight, {})

\* connect(), with an access token in the preferences: a new socket becomes ws.
Unused == {s \in Sockets : socket[s].state = "unused"}
Connect(sockets) ==
  \E s \in Unused :
    /\ \A o \in Unused : s <= o
    /\ ws' = s
    /\ socket' = [sockets EXCEPT ![s] = Silent("connecting")]
    /\ dropped' = FALSE

Become(s, r) == socket' = [socket EXCEPT ![s] = r]

Send(s, message) == [socket EXCEPT ![s] = [socket[s] EXCEPT !.up = Append(@, message)]]

-----------------------------------------------------------------------------
(***************************************************************************)
(* The listener's callbacks.                                               *)
(***************************************************************************)

\* onOpen.  On a socket already closed by us session.start is not sent.
Opened(s) ==
  /\ socket[s].state = "connecting"
  /\ refreshAttempt' = 0
  /\ Become(s, [socket[s] EXCEPT !.state = "open",
                  !.up = IF \E i \in DOMAIN socket[s].up : socket[s].up[i] = Plain("close")
                         THEN socket[s].up ELSE Append(socket[s].up, Plain("start"))])
  /\ UNCHANGED <<queue, inflight, task, ws, sessionAccepted, timers, refresh, authExpired,
                 dropped, confirmed, budget>>

Arrives(s, type) ==
  /\ socket[s].state = "open" /\ socket[s].down # << >>
  /\ Head(socket[s].down).type = type

Receive(s) == Become(s, [socket[s] EXCEPT !.down = Tail(@)])

\* onMessage: session.accepted.  The trySendBatch it launches is a TrySend.
SessionAccepted(s) ==
  /\ Arrives(s, "accepted")
  /\ sessionAccepted' = TRUE
  /\ Receive(s)
  /\ UNCHANGED <<queue, inflight, task, ws, timers, authVars, confirmed, budget>>

\* onMessage: location.batch.ack launches handleAck's coroutine.
AckArrives(s) ==
  /\ Arrives(s, "ack")
  /\ Launch("markAcked", Head(socket[s].down).ok, Head(socket[s].down).bad)
  /\ Receive(s)
  /\ UNCHANGED <<queue, inflight, sessionAccepted, ws, timers, authVars, confirmed, budget>>

\* onMessage: an error is logged and nothing else.
ErrorArrives(s) ==
  /\ Arrives(s, "error")
  /\ Receive(s)
  /\ UNCHANGED <<queue, inflight, task, sessionAccepted, ws, timers, authVars, confirmed, budget>>

\* onClosing, whichever socket it is about.
Closing(s) ==
  /\ Arrives(s, "close")
  /\ sessionAccepted' = FALSE
  /\ ReturnInflight
  /\ Become(s, Silent("closed"))
  /\ UNCHANGED <<queue, ws, timers, authVars, confirmed, budget>>

\* onClosed
Closed(s) ==
  /\ socket[s].state = "closed"
  /\ ws' = 0
  /\ Become(s, Silent("done"))
  /\ UNCHANGED <<queue, inflight, task, sessionAccepted, timers, authVars, confirmed, budget>>

\* onFailure, and its answer when the upgrade was refused with 401 or 403.
Fails(s) ==
  /\ socket[s].state \in {"connecting", "open"}
  /\ Spend("faults")
  /\ ws' = 0
  /\ sessionAccepted' = FALSE
  /\ ReturnInflight
  /\ Become(s, Silent("done"))
  /\ UNCHANGED <<queue, refreshAttempt, authExpired, confirmed>>

\* Faulty variants: no reconnect is scheduled; the session flag stays up.
FailsSilently(s) == Fails(s) /\ UNCHANGED <<timers, refresh, dropped>>
FailsInSession(s) ==
  /\ socket[s].state \in {"connecting", "open"} /\ Spend("faults")
  /\ ws' = 0 /\ timers' = timers + 1 /\ ReturnInflight
  /\ Become(s, Silent("done"))
  /\ UNCHANGED <<queue, sessionAccepted, authVars, confirmed>>

ConnectionFails(s) == Fails(s) /\ timers' = timers + 1 /\ UNCHANGED <<refresh, dropped>>

\* refreshAndReconnect, by a caller that compareAndSet lets in or sends away.
RefreshAndReconnect ==
  /\ refresh' = IF refresh = "no" THEN "begun" ELSE refresh
  /\ dropped' = (dropped \/ refresh = "over")

\* Faulty variant: it schedules a reconnect beside the refresh.
RefusedTwice(s) ==
  /\ socket[s].state = "connecting"
  /\ Fails(s)
  /\ RefreshAndReconnect
  /\ timers' = timers + 1

UpgradeRefused(s) ==
  /\ socket[s].state = "connecting"
  /\ Fails(s)
  /\ RefreshAndReconnect
  /\ UNCHANGED timers

-----------------------------------------------------------------------------
(***************************************************************************)
(* Reconnecting.                                                           *)
(***************************************************************************)

\* The delay of scheduleReconnect is over: connect() unless auth has expired.
ReconnectTimer ==
  /\ timers > 0
  /\ timers' = timers - 1
  /\ IF authExpired THEN UNCHANGED <<ws, socket, dropped>> ELSE Connect(socket)
  /\ UNCHANGED <<queue, inflight, task, sessionAccepted, refresh, refreshAttempt, authExpired,
                 confirmed, budget>>

\* Faulty variant of the next action: no limit on the attempts.
RefreshAsksUncapped ==
  /\ refresh = "begun"
  /\ refresh' = "asked"
  /\ refreshAttempt' = refreshAttempt + 1
  /\ UNCHANGED <<queue, inflight, task, ws, socket, sessionAccepted, timers, authExpired, dropped,
                 confirmed, budget>>

\* doRefresh sends its request, or has tried too often.
RefreshAsks ==
  /\ refresh = "begun" /\ refreshAttempt < RefreshCap
  /\ refresh' = "asked"
  /\ refreshAttempt' = refreshAttempt + 1
  /\ UNCHANGED <<queue, inflight, task, ws, socket, sessionAccepted, timers, authExpired, dropped,
                 confirmed, budget>>

RefreshCapped ==
  /\ refresh = "begun" /\ refreshAttempt >= RefreshCap
  /\ refresh' = "over"
  /\ authExpired' = TRUE
  /\ UNCHANGED <<queue, inflight, task, ws, socket, sessionAccepted, timers, refreshAttempt, dropped,
                 confirmed, budget>>

\* The new tokens are stored: connect().
Refreshed ==
  /\ refresh = "asked"
  /\ refresh' = "over"
  /\ IF authExpired THEN UNCHANGED <<ws, socket, dropped>> ELSE Connect(socket)
  /\ UNCHANGED <<queue, inflight, task, sessionAccepted, timers, refreshAttempt, authExpired,
                 confirmed, budget>>

\* Faulty variant: a failed refresh ends without a trace.
RefreshForgotten ==
  /\ refresh = "asked"
  /\ refresh' = "over"
  /\ Spend("faults")
  /\ UNCHANGED <<queue, inflight, task, ws, socket, sessionAccepted, timers, refreshAttempt,
                 authExpired, dropped, confirmed>>

\* The server rejected the refresh token, or the request itself failed.
RefreshFails ==
  /\ refresh = "asked"
  /\ refresh' = "over"
  /\ authExpired' = TRUE
  /\ Spend("faults")
  /\ UNCHANGED <<queue, inflight, task, ws, socket, sessionAccepted, timers, refreshAttempt, dropped,
                 confirmed>>

\* The finally: the socket made before it may have been refused already.
RefreshEnds ==
  /\ refresh = "over"
  /\ refresh' = "no"
  /\ UNCHANGED <<queue, inflight, task, ws, socket, sessionAccepted, timers, refreshAttempt,
                 authExpired, dropped, confirmed, budget>>

\* reconnectNow: the old socket is told to close, and its callbacks are still
\* to come.
ReconnectNow ==
  /\ Spend("nudges")
  /\ Connect(IF ws # 0 THEN Send(ws, Plain("close")) ELSE socket)
  /\ sessionAccepted' = FALSE
  /\ refreshAttempt' = 0
  /\ authExpired' = FALSE
  /\ UNCHANGED <<queue, inflight, task, timers, refresh, confirmed>>

\* The service is destroyed with its scope and started again.
Restart ==
  /\ Spend("faults")
  /\ \E s \in Unused :
       /\ \A o \in Unused : s <= o
       /\ ws' = s
       /\ socket' = [o \in Sockets |->
                      Silent(IF o = s THEN "connecting" ELSE IF o \in Unused THEN "unused" ELSE "done")]
  /\ sessionAccepted' = FALSE
  /\ inflight' = {}
  /\ task' = [t \in Tasks |-> NoTask]
  /\ timers' = 0
  /\ refresh' = "no" /\ refreshAttempt' = 0 /\ authExpired' = FALSE /\ dropped' = FALSE
  /\ UNCHANGED <<queue, confirmed>>

-----------------------------------------------------------------------------
(***************************************************************************)
(* The coroutines.  TrySend stands for every call of trySendBatch: the     *)
(* flush tick, after session.accepted, after an ack.                       *)
(***************************************************************************)
TrySend ==
  /\ sessionAccepted /\ inflight = {}
  /\ Launch("query", {}, {})
  /\ UNCHANGED <<queue, inflight, sessionVars, confirmed, budget>>

Pending == {p \in Points : queue[p] = "pending"}

\* dao.getPending: at most BatchSize rows.
Query(t) ==
  /\ task[t].step = "query"
  /\ \E S \in SUBSET Pending :
       /\ Cardinality(S) = IF Cardinality(Pending) < BatchSize THEN Cardinality(Pending) ELSE BatchSize
       /\ task' = [task EXCEPT ![t] = IF S = {} THEN NoTask ELSE [step |-> "send", ok |-> S, bad |-> {}]]
  /\ UNCHANGED <<queue, inflight, sessionVars, confirmed, budget>>

\* inflight = points and sendBatch: the batch goes to whatever ws now is.
SendBatch(t) ==
  /\ task[t].step = "send"
  /\ IF ws # 0
     THEN /\ socket' = Send(ws, Batch(task[t].ok))
          /\ inflight' = task[t].ok
          /\ End(t)
     ELSE /\ inflight' = {}
          /\ Continue(t, "return")
          /\ UNCHANGED socket
  /\ UNCHANGED <<queue, sessionAccepted, ws, timers, authVars, confirmed, budget>>

\* Faulty variants: the ack acks all that is in flight; inflight is not cleared.
AckWholeBatch(t) ==
  /\ task[t].step = "markAcked"
  /\ queue' = [p \in Points |-> IF p \in task[t].ok \cup inflight THEN "acked" ELSE queue[p]]
  /\ Continue(t, "markFailed")
  /\ UNCHANGED <<inflight, sessionVars, confirmed, budget>>

InflightKept(t) ==
  /\ task[t].step = "clear"
  /\ End(t)
  /\ UNCHANGED <<inflight, queue, sessionVars, confirmed, budget>>

\* handleAck
MarkAcked(t) ==
  /\ task[t].step = "markAcked"
  /\ queue' = [p \in Points |-> IF p \in task[t].ok THEN "acked" ELSE queue[p]]
  /\ Continue(t, "markFailed")
  /\ UNCHANGED <<inflight, sessionVars, confirmed, budget>>

MarkFailed(t) ==
  /\ task[t].step = "markFailed"
  /\ queue' = [p \in Points |-> IF p \in task[t].bad THEN "failed" ELSE queue[p]]
  /\ Continue(t, "clear")
  /\ UNCHANGED <<inflight, sessionVars, confirmed, budget>>

ClearInflight(t) ==
  /\ task[t].step = "clear"
  /\ inflight' = {}
  /\ End(t)
  /\ UNCHANGED <<queue, sessionVars, confirmed, budget>>

\* dao.returnToPending, whatever the status has become meanwhile.
ReturnToPending(t) ==
  /\ task[t].step = "return"
  /\ queue' = [p \in Points |-> IF p \in task[t].ok THEN "pending" ELSE queue[p]]
  /\ End(t)
  /\ UNCHANGED <<inflight, sessionVars, confirmed, budget>>

\* The user retries the failed points; the same tap calls ReconnectNow.
RetryFailed ==
  /\ \E p \in Points : queue[p] = "failed"
  /\ queue' = [p \in Points |-> IF queue[p] = "failed" THEN "pending" ELSE queue[p]]
  /\ UNCHANGED <<inflight, sessionVars, task, confirmed, budget>>

-----------------------------------------------------------------------------
(***************************************************************************)
(* The gateway's readLoop on socket s: one message, one answer.            *)
(***************************************************************************)
Reads(s, type) ==
  /\ socket[s].state = "open" /\ socket[s].up # << >>
  /\ Head(socket[s].up).type = type

Answers(s, session, message) ==
  Become(s, [socket[s] EXCEPT !.session = session, !.up = Tail(@), !.down = Append(@, message)])

GatewayUnchanged == UNCHANGED <<queue, inflight, task, ws, sessionAccepted, timers, authVars>>

GatewayStarts(s) ==
  /\ Reads(s, "start")
  /\ Answers(s, TRUE, Plain("accepted"))
  /\ GatewayUnchanged /\ UNCHANGED <<confirmed, budget>>

\* IngestBatch confirms some points and rejects the others.
GatewayAcks(s) ==
  /\ Reads(s, "batch") /\ socket[s].session
  /\ \E S \in SUBSET Head(socket[s].up).ok :
       /\ Answers(s, TRUE, Ack(S, Head(socket[s].up).ok \ S))
       /\ confirmed' = confirmed \cup S
       /\ IF S = Head(socket[s].up).ok THEN UNCHANGED budget ELSE Spend("refusals")
  /\ GatewayUnchanged

\* No session on this connection: SESSION_NOT_ACCEPTED.
GatewayWantsSession(s) ==
  /\ Reads(s, "batch") /\ ~ socket[s].session
  /\ Answers(s, FALSE, Plain("error"))
  /\ GatewayUnchanged /\ UNCHANGED <<confirmed, budget>>

\* StartSession or IngestBatch fails: a global error.
GatewayRefuses(s) ==
  /\ Reads(s, "start") \/ Reads(s, "batch")
  /\ Spend("refusals")
  /\ Answers(s, socket[s].session /\ Reads(s, "batch"), Plain("error"))
  /\ GatewayUnchanged /\ UNCHANGED confirmed

GatewayCloses(s) ==
  /\ Reads(s, "close")
  /\ Answers(s, FALSE, Plain("close"))
  /\ GatewayUnchanged /\ UNCHANGED <<confirmed, budget>>

-----------------------------------------------------------------------------
Callback(s) ==
  \/ Opened(s) \/ SessionAccepted(s) \/ AckArrives(s) \/ ErrorArrives(s)
  \/ Closing(s) \/ Closed(s)

GatewayStep(s) ==
  GatewayStarts(s) \/ GatewayAcks(s) \/ GatewayWantsSession(s) \/ GatewayCloses(s)

Coroutine(t) ==
  Query(t) \/ SendBatch(t) \/ MarkAcked(t) \/ MarkFailed(t) \/ ClearInflight(t) \/ ReturnToPending(t)

Next ==
  \/ \E s \in Sockets : \/ Callback(s) \/ GatewayStep(s) \/ GatewayRefuses(s)
                        \/ ConnectionFails(s) \/ UpgradeRefused(s)
  \/ \E t \in Tasks : Coroutine(t)
  \/ TrySend \/ ReconnectTimer
  \/ RefreshAsks \/ RefreshCapped \/ Refreshed \/ RefreshFails \/ RefreshEnds
  \/ ReconnectNow \/ Restart \/ RetryFailed

Spec == Init /\ [][Next]_vars

(***************************************************************************)
(* Fairness: callbacks come, coroutines run, delays end, a refresh ends,   *)
(* the flush tick returns every 15 seconds and the gateway answers.        *)
(* Nothing obliges a connection to break, or the user to do anything.      *)
(***************************************************************************)
FairSpec ==
  /\ Spec
  /\ \A s \in Sockets : WF_vars(Callback(s)) /\ WF_vars(GatewayStep(s))
  /\ \A t \in Tasks : WF_vars(Coroutine(t))
  /\ WF_vars(TrySend) /\ WF_vars(ReconnectTimer)
  /\ WF_vars(RefreshAsks \/ RefreshCapped \/ Refreshed \/ RefreshEnds)

-----------------------------------------------------------------------------
(***************************************************************************)
(* A point leaves the queue's care only when the gateway has called it     *)
(* accepted or duplicated, whatever acks of earlier batches arrive late,   *)
(* on old sockets, or after the service was restarted (handleAck).         *)
(***************************************************************************)
AckedIsConfirmed == {p \in Points : queue[p] = "acked"} \subseteq confirmed

\* Why it stays so: the acks on their way, and the one a coroutine is carrying
\* out, speak only of points the gateway has confirmed.
AcksAreConfirmed ==
  /\ \A s \in Sockets : \A i \in DOMAIN socket[s].down :
       socket[s].down[i].type = "ack" => socket[s].down[i].ok \subseteq confirmed
  /\ \A t \in Tasks : task[t].step = "markAcked" => task[t].ok \subseteq confirmed

Live == {s \in Sockets : socket[s].state \in {"connecting", "open", "closed"}}
\* A refresh that still has its end before it: connect() or authExpired.
Asking == refresh \in {"begun", "asked"}
Attempts == Cardinality(Live) + timers + IF Asking THEN 1 ELSE 0

(***************************************************************************)
(* The sender is left with neither a socket, nor a reconnect that is       *)
(* scheduled, nor a refresh under way, in two cases only: authentication   *)
(* has expired, or the upgrade of the socket a refresh had just made was   *)
(* refused before the finally of refreshAndReconnect, where compareAndSet  *)
(* sends the second refresh away and nobody else starts one.  Every other  *)
(* callback that drops a socket starts one of the others.                  *)
(***************************************************************************)
NeverGivesUp == Attempts = 0 => authExpired \/ dropped

\* The user has not forced a reconnect; the gateway has refused nothing.
Unforced == budget["nudges"] = MaxNudges
Unrefused == budget["refusals"] = MaxRefusals

(***************************************************************************)
(* Unless the user forces a reconnect there is at most one of them, so no  *)
(* two sockets share the sender's fields: onFailure starts one reconnect,  *)
(* not a timer beside a refresh.                                           *)
(***************************************************************************)
OneConnection == Unforced => Attempts <= 1

(***************************************************************************)
(* sessionAccepted speaks of the socket in ws: the gateway has a session   *)
(* on the connection the next batch will be sent on, unless a forced       *)
(* reconnect brought a second socket in.                                   *)
(***************************************************************************)
SessionIsOwn == Unforced /\ sessionAccepted => ws # 0 /\ socket[ws].session

(***************************************************************************)
(* A session lost to broken connections, refused upgrades and restarts     *)
(* comes back by itself, unless authentication has expired or a refusal    *)
(* was dropped as above: what onFailure, the timer and the refresh are     *)
(* for.  A refused session.start is not tried again on its connection.     *)
(***************************************************************************)
Usable == sessionAccepted /\ ws # 0
SessionRecovers == (~ Usable) ~> (Usable \/ authExpired \/ dropped \/ ~ Unforced \/ ~ Unrefused)

(***************************************************************************)
(* The same of a forced reconnect, as the status screen promises.          *)
(***************************************************************************)
SessionComesBack == (~ Usable) ~> (Usable \/ authExpired \/ dropped)

(***************************************************************************)
(* Whatever is pending is answered for, acked or failed with a reason.     *)
(* websocket-tracker-protocol.md: without an ACK, or when the connection   *)
(* is lost, the client keeps the event as pending and retries.             *)
(***************************************************************************)
QueueDrains == \A p \in Points : (queue[p] = "pending") ~> (queue[p] # "pending")

(***************************************************************************)
(* While no connection breaks and the gateway answers every batch with an  *)
(* ack, the points in flight wait for something that is under way: their   *)
(* batch, its ack, or the coroutine that carries the ack out.  The next    *)
(* trySendBatch needs inflight to be empty, so nothing else may keep it.   *)
(***************************************************************************)
Untroubled == budget["faults"] = MaxFaults /\ Unrefused /\ Unforced

UnderWay ==
  \/ \E s \in Sockets : \/ \E i \in DOMAIN socket[s].up : socket[s].up[i].type = "batch"
                        \/ \E i \in DOMAIN socket[s].down : socket[s].down[i].type = "ack"
  \/ \E t \in Tasks : task[t].step \in {"markAcked", "markFailed", "clear"}

InflightIsAnswered == Untroubled /\ inflight # {} => UnderWay
=============================================================================
