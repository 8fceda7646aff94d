-------------------------- MODULE BatchSenderProofs --------------------------
(***************************************************************************)
(* What BatchSender guarantees for every set of points, every batch size   *)
(* and every number of sockets, coroutines, failures and forced            *)
(* reconnects: its type correctness, that a row is acked only on the       *)
(* gateway's word, that it goes on trying to connect, that it does so on   *)
(* one connection at a time, that its session is that connection's, and    *)
(* that what is in flight is under way.                                    *)
(***************************************************************************)
EXTENDS BatchSender, SequenceTheorems, FiniteSetTheorems, TLAPS

-----------------------------------------------------------------------------
(***************************************************************************)
(* Facts about the operators of the sender.                                *)
(***************************************************************************)

\* The records the actions write.
LEMMA RecordTypes ==
  /\ \A state \in SocketStates : Silent(state) \in Socket /\ Silent(state).down = << >>
  /\ NoTask \in Task /\ NoTask.step = "none"
  /\ \A type \in {"start", "close", "accepted", "error"} :
       Plain(type) \in Message /\ Plain(type).type # "ack"
<1>1. << >> \in Seq(Message)
  OBVIOUS
<1>2. \A state \in SocketStates : Silent(state) \in Socket /\ Silent(state).down = << >>
  BY <1>1 DEF Silent, Socket
<1>3. NoTask \in Task /\ NoTask.step = "none"
  BY DEF NoTask, Task, Steps
<1>4. \A type \in {"start", "close", "accepted", "error"} :
        Plain(type) \in Message /\ Plain(type).type # "ack"
  BY DEF Plain, Message
<1> QED BY <1>2, <1>3, <1>4

\* One socket changes.
LEMMA BecomeTypes ==
  ASSUME socket \in [Sockets -> Socket], NEW s \in Sockets, NEW r \in Socket, Become(s, r)
  PROVE  /\ socket' \in [Sockets -> Socket]
         /\ socket'[s] = r
         /\ \A o \in Sockets \ {s} : socket'[o] = socket[o]
BY DEF Become

\* A message put on a socket by the sender.
LEMMA SendTypes ==
  ASSUME socket \in [Sockets -> Socket], NEW s \in Sockets, NEW m \in Message
  PROVE  /\ Send(s, m) \in [Sockets -> Socket]
         /\ \A o \in Sockets : Send(s, m)[o].down = socket[o].down
<1> DEFINE r == [socket[s] EXCEPT !.up = Append(@, m)]
<1>1. socket[s] \in Socket /\ socket[s].up \in Seq(Message)
  BY DEF Socket
<1>2. Append(socket[s].up, m) \in Seq(Message)
  BY <1>1
<1>3. r \in Socket /\ r.down = socket[s].down
  BY <1>1, <1>2 DEF Socket
<1>4. Send(s, m) = [socket EXCEPT ![s] = r]
  BY DEF Send
<1> HIDE DEF r
<1> QED BY <1>3, <1>4

\* A new connection.
LEMMA ConnectTypes ==
  ASSUME NEW sockets \in [Sockets -> Socket], Connect(sockets)
  PROVE  /\ ws' \in Sockets
         /\ socket' \in [Sockets -> Socket]
         /\ \A o \in Sockets : socket'[o].down \in {<< >>, sockets[o].down}
BY RecordTypes DEF Connect, Unused, SocketStates

\* The front of what arrived on a socket.
LEMMA ArrivedTypes ==
  ASSUME socket \in [Sockets -> Socket], NEW s \in Sockets, socket[s].down # << >>
  PROVE  /\ Head(socket[s].down) \in Message
         /\ Head(socket[s].down).ok \in SUBSET Points
         /\ Head(socket[s].down).bad \in SUBSET Points
         /\ 1 \in DOMAIN socket[s].down
         /\ Head(socket[s].down) = socket[s].down[1]
         /\ [socket[s] EXCEPT !.down = Tail(@)] \in Socket
         /\ [socket[s] EXCEPT !.down = Tail(@)].down = Tail(socket[s].down)
<1>1. socket[s] \in Socket /\ socket[s].down \in Seq(Message)
  BY DEF Socket
<1>2. Head(socket[s].down) \in Message /\ Tail(socket[s].down) \in Seq(Message)
  BY <1>1
<1>3. [socket[s] EXCEPT !.down = Tail(@)] \in Socket
      /\ [socket[s] EXCEPT !.down = Tail(@)].down = Tail(socket[s].down)
  BY <1>1, <1>2 DEF Socket
<1>4. 1 \in DOMAIN socket[s].down /\ Head(socket[s].down) = socket[s].down[1]
  BY <1>1
<1> QED BY <1>2, <1>3, <1>4 DEF Message

\* The gateway reads one message and answers with another.
LEMMA AnswerTypes ==
  ASSUME socket \in [Sockets -> Socket], NEW s \in Sockets, socket[s].up # << >>,
         NEW session \in BOOLEAN, NEW m \in Message, Answers(s, session, m)
  PROVE  /\ socket' \in [Sockets -> Socket]
         /\ socket'[s].down = Append(socket[s].down, m)
         /\ \A o \in Sockets \ {s} : socket'[o] = socket[o]
<1> DEFINE r == [socket[s] EXCEPT !.session = session, !.up = Tail(@), !.down = Append(@, m)]
<1>1. socket[s] \in Socket /\ socket[s].down \in Seq(Message) /\ socket[s].up \in Seq(Message)
  BY DEF Socket
<1>2. Tail(socket[s].up) \in Seq(Message) /\ Append(socket[s].down, m) \in Seq(Message)
  BY <1>1
<1>3. r \in Socket /\ r.down = Append(socket[s].down, m)
  BY <1>1, <1>2 DEF Socket
<1>4. Become(s, r)
  BY DEF Answers
<1> HIDE DEF r
<1> QED BY <1>3, <1>4, BecomeTypes

\* A coroutine is launched, goes on or ends.
LEMMA LaunchTypes ==
  ASSUME task \in [Tasks -> Task], NEW step \in Steps,
         NEW ok \in SUBSET Points, NEW bad \in SUBSET Points, Launch(step, ok, bad)
  PROVE  /\ task' \in [Tasks -> Task]
         /\ \A t \in Tasks :
              task'[t] = task[t] \/ (task'[t].step = step /\ task'[t].ok = ok)
<1> DEFINE r == [step |-> step, ok |-> ok, bad |-> bad]
<1>1. r \in Task /\ r.step = step /\ r.ok = ok
  BY DEF Task
<1>2. PICK u \in Tasks : task' = [task EXCEPT ![u] = r]
  BY DEF Launch, Idle
<1> HIDE DEF r
<1>3. task' \in [Tasks -> Task] /\ \A t \in Tasks : task'[t] = task[t] \/ task'[t] = r
  BY <1>1, <1>2
<1>4. ASSUME NEW t \in Tasks, task'[t] = r
      PROVE  task'[t].step = step /\ task'[t].ok = ok
  BY <1>1, <1>4
<1> QED BY <1>3, <1>4

LEMMA ContinueTypes ==
  ASSUME task \in [Tasks -> Task], NEW t \in Tasks, NEW step \in Steps, Continue(t, step)
  PROVE  /\ task' \in [Tasks -> Task]
         /\ \A u \in Tasks : task'[u] = task[u] \/ task'[u].step = step
<1> DEFINE r == [task[t] EXCEPT !.step = step]
<1>1. r \in Task /\ r.step = step
  BY DEF Task
<1>2. task' = [task EXCEPT ![t] = r]
  BY DEF Continue
<1> HIDE DEF r
<1> QED BY <1>1, <1>2

LEMMA EndTypes ==
  ASSUME task \in [Tasks -> Task], NEW t \in Tasks, End(t)
  PROVE  /\ task' \in [Tasks -> Task]
         /\ \A u \in Tasks : task'[u] = task[u] \/ task'[u].step = "none"
BY RecordTypes DEF End

LEMMA ReturnTypes ==
  ASSUME task \in [Tasks -> Task], inflight \subseteq Points, ReturnInflight
  PROVE  /\ task' \in [Tasks -> Task] /\ inflight' \subseteq Points
         /\ \A t \in Tasks : task'[t] = task[t] \/ task'[t].step = "return"
<1>1. CASE inflight = {}
  BY <1>1 DEF ReturnInflight
<1>2. CASE inflight # {}
  <2>1. inflight' = {} /\ Launch("return", inflight, {})
    BY <1>2 DEF ReturnInflight
  <2>2. "return" \in Steps /\ inflight \in SUBSET Points /\ {} \in SUBSET Points
    BY DEF Steps
  <2> QED BY <2>1, <2>2, LaunchTypes
<1> QED BY <1>1, <1>2

LEMMA SpendTypes ==
  ASSUME budget \in [Kinds -> Nat], NEW kind \in Kinds, Spend(kind)
  PROVE  budget' \in [Kinds -> Nat]
BY DEF Spend

-----------------------------------------------------------------------------
(***************************************************************************)
(* Type correctness.                                                       *)
(***************************************************************************)

\* The parts of TypeOK an action may leave alone.
QueueTypes == queue \in [Points -> {"pending", "acked", "failed"}]
FlagTypes ==
  /\ sessionAccepted \in BOOLEAN /\ refresh \in Refreshing
  /\ authExpired \in BOOLEAN /\ dropped \in BOOLEAN
  /\ refreshAttempt \in 0 .. RefreshCap
  /\ timers \in Nat
SocketTypes == socket \in [Sockets -> Socket] /\ ws \in 0 .. MaxSockets

LEMMA Parts ==
  TypeOK <=> /\ QueueTypes /\ FlagTypes /\ SocketTypes
             /\ task \in [Tasks -> Task] /\ inflight \subseteq Points
             /\ confirmed \subseteq Points /\ budget \in [Kinds -> Nat]
BY DEF TypeOK, QueueTypes, FlagTypes, SocketTypes

LEMMA Limits ==
  /\ MaxSockets \in Nat \ {0} /\ RefreshCap \in Nat \ {0}
  /\ Sockets = 1 .. MaxSockets /\ 1 \in Sockets /\ 0 \in 0 .. MaxSockets
  /\ Allowance \in [Kinds -> Nat]
  /\ {"faults", "refusals", "nudges"} \subseteq Kinds
BY SenderAssumption DEF Sockets, Allowance, Kinds

LEMMA InitTypes == Init => TypeOK
<1> SUFFICES ASSUME Init PROVE TypeOK
  OBVIOUS
<1>1. socket \in [Sockets -> Socket]
  BY RecordTypes DEF Init, SocketStates
<1>2. task \in [Tasks -> Task]
  BY RecordTypes DEF Init
<1>3. QueueTypes
  BY DEF Init, QueueTypes
<1>5. FlagTypes
  <2>1. refreshAttempt \in 0 .. RefreshCap /\ timers \in Nat
    BY Limits DEF Init
  <2>2. /\ sessionAccepted \in BOOLEAN /\ refresh \in Refreshing
        /\ authExpired \in BOOLEAN /\ dropped \in BOOLEAN
    BY DEF Init, Refreshing
  <2> QED BY <2>1, <2>2 DEF FlagTypes
<1>6. ws \in 0 .. MaxSockets
  BY Limits DEF Init
<1>4. inflight \subseteq Points /\ confirmed \subseteq Points /\ budget \in [Kinds -> Nat]
  BY Limits DEF Init
<1> QED BY <1>1, <1>2, <1>3, <1>4, <1>5, <1>6, Parts DEF SocketTypes

\* The callbacks of the listener.
LEMMA CallbackTypes ==
  ASSUME TypeOK, NEW s \in Sockets,
         Callback(s) \/ ConnectionFails(s) \/ UpgradeRefused(s)
  PROVE  TypeOK'
<1>0. socket \in [Sockets -> Socket] /\ task \in [Tasks -> Task] /\ inflight \subseteq Points
      /\ QueueTypes /\ FlagTypes /\ SocketTypes /\ confirmed \subseteq Points
      /\ budget \in [Kinds -> Nat]
  BY Parts DEF SocketTypes
<1>1. CASE Opened(s)
  <2> DEFINE up == IF \E i \in DOMAIN socket[s].up : socket[s].up[i] = Plain("close")
                   THEN socket[s].up ELSE Append(socket[s].up, Plain("start"))
             r == [socket[s] EXCEPT !.state = "open", !.up = up]
  <2>1. socket[s] \in Socket /\ socket[s].up \in Seq(Message) /\ Plain("start") \in Message
    BY <1>0, RecordTypes DEF Socket
  <2>2. up \in Seq(Message)
    BY <2>1
  <2>3. Become(s, r)
    BY <1>1 DEF Opened
  <2> HIDE DEF up
  <2>4. r \in Socket
    BY <2>1, <2>2 DEF Socket, SocketStates
  <2> HIDE DEF r
  <2>5. socket' \in [Sockets -> Socket]
    BY <1>0, <2>3, <2>4, BecomeTypes
  <2>6. FlagTypes'
    BY <1>0, <1>1, Limits DEF Opened, FlagTypes
  <2> QED BY <1>0, <1>1, <2>5, <2>6 DEF Opened, TypeOK, QueueTypes, FlagTypes, SocketTypes
<1>2. ASSUME Receive(s), socket[s].down # << >>
      PROVE  socket' \in [Sockets -> Socket]
  <2> DEFINE r == [socket[s] EXCEPT !.down = Tail(@)]
  <2>1. r \in Socket
    BY <1>0, <1>2, ArrivedTypes
  <2>2. Become(s, r)
    BY <1>2 DEF Receive
  <2> HIDE DEF r
  <2> QED BY <1>0, <2>1, <2>2, BecomeTypes
<1>3. CASE SessionAccepted(s)
  <2>1. socket' \in [Sockets -> Socket]
    BY <1>2, <1>3 DEF SessionAccepted, Arrives
  <2> QED BY <1>0, <1>3, <2>1 DEF SessionAccepted, TypeOK, QueueTypes, FlagTypes, SocketTypes, authVars
<1>4. CASE AckArrives(s)
  <2>1. socket' \in [Sockets -> Socket]
    BY <1>2, <1>4 DEF AckArrives, Arrives
  <2>2. Head(socket[s].down).ok \in SUBSET Points /\ Head(socket[s].down).bad \in SUBSET Points
    BY <1>0, <1>4, ArrivedTypes DEF AckArrives, Arrives
  <2>3. task' \in [Tasks -> Task]
    BY <1>0, <1>4, <2>2, LaunchTypes DEF AckArrives, Steps
  <2> QED BY <1>0, <1>4, <2>1, <2>3 DEF AckArrives, TypeOK, QueueTypes, FlagTypes, SocketTypes, authVars
<1>5. CASE ErrorArrives(s)
  <2>1. socket' \in [Sockets -> Socket]
    BY <1>2, <1>5 DEF ErrorArrives, Arrives
  <2> QED BY <1>0, <1>5, <2>1 DEF ErrorArrives, TypeOK, QueueTypes, FlagTypes, SocketTypes, authVars
<1>6. CASE Closing(s)
  <2>1. socket' \in [Sockets -> Socket]
    BY <1>0, <1>6, BecomeTypes, RecordTypes DEF Closing, SocketStates
  <2>2. task' \in [Tasks -> Task] /\ inflight' \subseteq Points
    BY <1>0, <1>6, ReturnTypes DEF Closing
  <2> QED BY <1>0, <1>6, <2>1, <2>2 DEF Closing, TypeOK, QueueTypes, FlagTypes, SocketTypes, authVars
<1>7. CASE Closed(s)
  <2>1. socket' \in [Sockets -> Socket]
    BY <1>0, <1>7, BecomeTypes, RecordTypes DEF Closed, SocketStates
  <2> QED BY <1>0, <1>7, <2>1, Limits DEF Closed, TypeOK, QueueTypes, FlagTypes, SocketTypes, authVars
<1>8. ASSUME Fails(s)
      PROVE  /\ socket' \in [Sockets -> Socket]
             /\ task' \in [Tasks -> Task] /\ inflight' \subseteq Points
             /\ budget' \in [Kinds -> Nat]
  <2>1. socket' \in [Sockets -> Socket]
    BY <1>0, <1>8, BecomeTypes, RecordTypes DEF Fails, SocketStates
  <2>2. task' \in [Tasks -> Task] /\ inflight' \subseteq Points
    BY <1>0, <1>8, ReturnTypes DEF Fails
  <2>3. budget' \in [Kinds -> Nat]
    BY <1>0, <1>8, SpendTypes, Limits DEF Fails
  <2> QED BY <2>1, <2>2, <2>3
<1>9. CASE ConnectionFails(s) \/ UpgradeRefused(s)
  <2>1. Fails(s)
    BY <1>9 DEF ConnectionFails, UpgradeRefused
  <2>2. timers' \in Nat
    BY <1>0, <1>9 DEF ConnectionFails, UpgradeRefused, FlagTypes
  <2>3. refresh' \in Refreshing /\ dropped' \in BOOLEAN
    <3>1. refresh \in Refreshing /\ dropped \in BOOLEAN
      BY <1>0 DEF FlagTypes
    <3>2. (refresh' = refresh /\ dropped' = dropped) \/ RefreshAndReconnect
      BY <1>9 DEF ConnectionFails, UpgradeRefused
    <3> QED BY <3>1, <3>2 DEF RefreshAndReconnect, Refreshing
  <2> QED BY <1>0, <1>8, <2>1, <2>2, <2>3, Limits DEF Fails, TypeOK, QueueTypes, FlagTypes, SocketTypes
<1> QED BY <1>1, <1>3, <1>4, <1>5, <1>6, <1>7, <1>9 DEF Callback

\* Reconnecting and restarting.
LEMMA ReconnectTypes ==
  ASSUME TypeOK,
         \/ ReconnectTimer \/ RefreshAsks \/ RefreshCapped \/ Refreshed \/ RefreshFails
         \/ RefreshEnds \/ ReconnectNow \/ Restart
  PROVE  TypeOK'
<1>0. socket \in [Sockets -> Socket] /\ task \in [Tasks -> Task] /\ inflight \subseteq Points
      /\ QueueTypes /\ FlagTypes /\ ws \in 0 .. MaxSockets /\ confirmed \subseteq Points
      /\ budget \in [Kinds -> Nat]
  BY Parts DEF SocketTypes
<1>1. ASSUME NEW sockets \in [Sockets -> Socket], Connect(sockets)
      PROVE  SocketTypes'
  <2>1. ws' \in Sockets /\ socket' \in [Sockets -> Socket]
    BY <1>1, ConnectTypes
  <2> QED BY <2>1, Limits DEF SocketTypes
<1>2. ASSUME UNCHANGED <<ws, socket>>
      PROVE  SocketTypes'
  BY <1>0, <1>2 DEF SocketTypes
<1>3. CASE ReconnectTimer
  <2>1. SocketTypes'
    BY <1>0, <1>1, <1>2, <1>3 DEF ReconnectTimer
  <2>2. timers' \in Nat
    BY <1>0, <1>3 DEF ReconnectTimer, FlagTypes
  <2>3. FlagTypes'
    BY <1>0, <1>3, <2>2 DEF ReconnectTimer, Connect, FlagTypes
  <2>4. QueueTypes'
    BY <1>0, <1>3 DEF ReconnectTimer, QueueTypes
  <2> QED BY <1>0, <1>3, <2>1, <2>3, <2>4, Parts DEF ReconnectTimer, TypeOK, QueueTypes, FlagTypes, SocketTypes
<1>4. CASE Refreshed
  <2>1. SocketTypes'
    BY <1>0, <1>1, <1>2, <1>4 DEF Refreshed
  <2>2. FlagTypes'
    BY <1>0, <1>4 DEF Refreshed, Connect, FlagTypes, Refreshing
  <2> QED BY <1>0, <1>4, <2>1, <2>2 DEF Refreshed, TypeOK, QueueTypes, FlagTypes, SocketTypes
<1>5. CASE RefreshFails
  <2>1. budget' \in [Kinds -> Nat]
    BY <1>0, <1>5, SpendTypes, Limits DEF RefreshFails
  <2>2. FlagTypes'
    BY <1>0, <1>5 DEF RefreshFails, FlagTypes, Refreshing
  <2> QED BY <1>0, <1>5, <2>1, <2>2 DEF RefreshFails, TypeOK, QueueTypes, FlagTypes, SocketTypes
<1>6. CASE RefreshAsks \/ RefreshCapped \/ RefreshEnds
  <2>1. refreshAttempt' \in 0 .. RefreshCap
    BY <1>0, <1>6, Limits DEF RefreshAsks, RefreshCapped, RefreshEnds, FlagTypes
  <2>2. FlagTypes'
    BY <1>0, <1>6, <2>1 DEF RefreshAsks, RefreshCapped, RefreshEnds, FlagTypes, Refreshing
  <2> QED BY <1>0, <1>6, <2>2 DEF RefreshAsks, RefreshCapped, RefreshEnds, TypeOK, QueueTypes,
                                  FlagTypes, SocketTypes
<1>7. CASE ReconnectNow
  <2>1. Plain("close") \in Message
    BY RecordTypes
  <2>2. ws # 0 => Send(ws, Plain("close")) \in [Sockets -> Socket]
    BY <1>0, <2>1, SendTypes, Limits
  <2>3. SocketTypes'
    <3>1. CASE ws = 0
      BY <1>0, <1>1, <1>7, <3>1 DEF ReconnectNow
    <3>2. CASE ws # 0
      BY <1>1, <1>7, <2>2, <3>2 DEF ReconnectNow
    <3> QED BY <3>1, <3>2
  <2>4. budget' \in [Kinds -> Nat]
    BY <1>0, <1>7, SpendTypes, Limits DEF ReconnectNow
  <2>5. refreshAttempt' \in 0 .. RefreshCap
    BY <1>7, Limits DEF ReconnectNow
  <2>6. dropped' \in BOOLEAN
    BY <1>7 DEF ReconnectNow, Connect
  <2> QED BY <1>0, <1>7, <2>3, <2>4, <2>5, <2>6 DEF ReconnectNow, TypeOK, QueueTypes, FlagTypes, SocketTypes
<1>8. CASE Restart
  <2>1. ws' \in 0 .. MaxSockets
    BY <1>8, Limits DEF Restart, Unused
  <2>2. socket' \in [Sockets -> Socket]
    BY <1>8, RecordTypes DEF Restart, Unused, SocketStates
  <2>3. task' \in [Tasks -> Task]
    BY <1>8, RecordTypes DEF Restart
  <2>4. budget' \in [Kinds -> Nat]
    BY <1>0, <1>8, SpendTypes, Limits DEF Restart
  <2>5. refreshAttempt' \in 0 .. RefreshCap /\ timers' \in Nat
    BY <1>8, Limits DEF Restart
  <2> QED BY <1>0, <1>8, <2>1, <2>2, <2>3, <2>4, <2>5 DEF Restart, TypeOK, QueueTypes, Refreshing
<1> QED BY <1>3, <1>4, <1>5, <1>6, <1>7, <1>8

\* The coroutines, and the user's retry.
LEMMA CoroutineTypes ==
  ASSUME TypeOK,
         \/ \E t \in Tasks : Coroutine(t)
         \/ TrySend \/ RetryFailed
  PROVE  TypeOK'
<1>0. socket \in [Sockets -> Socket] /\ task \in [Tasks -> Task] /\ inflight \subseteq Points
      /\ QueueTypes /\ FlagTypes /\ ws \in 0 .. MaxSockets /\ confirmed \subseteq Points
      /\ budget \in [Kinds -> Nat]
  BY Parts DEF SocketTypes
<1>1. CASE TrySend
  <2>1. task' \in [Tasks -> Task]
    BY <1>0, <1>1, LaunchTypes DEF TrySend, Steps
  <2> QED BY <1>0, <1>1, <2>1 DEF TrySend, TypeOK, QueueTypes, FlagTypes, sessionVars, authVars
<1>2. CASE RetryFailed
  <2>1. QueueTypes'
    BY <1>0, <1>2 DEF RetryFailed, QueueTypes
  <2> QED BY <1>0, <1>2, <2>1 DEF RetryFailed, TypeOK, QueueTypes, FlagTypes, sessionVars, authVars
<1>3. ASSUME NEW t \in Tasks, Coroutine(t)
      PROVE  TypeOK'
  <2>0. task[t] \in Task /\ task[t].ok \in SUBSET Points /\ task[t].bad \in SUBSET Points
    BY <1>0 DEF Task
  <2>1. CASE Query(t)
    <3>1. \A S \in SUBSET Points : [step |-> "send", ok |-> S, bad |-> {}] \in Task
      BY DEF Task, Steps
    <3>2. PICK S \in SUBSET Pending :
            task' = [task EXCEPT ![t] = IF S = {} THEN NoTask ELSE [step |-> "send", ok |-> S, bad |-> {}]]
      BY <2>1 DEF Query
    <3>3. S \in SUBSET Points
      BY DEF Pending
    <3>4. task' \in [Tasks -> Task]
      BY <1>0, <3>1, <3>2, <3>3, RecordTypes
    <3> QED BY <1>0, <2>1, <3>4 DEF Query, TypeOK, QueueTypes, FlagTypes, sessionVars, authVars
  <2>2. CASE SendBatch(t)
    <3>1. Batch(task[t].ok) \in Message
      BY <2>0 DEF Batch, Message
    <3>2. CASE ws = 0
      <4>1. task' \in [Tasks -> Task]
        BY <1>0, <2>2, <3>2, ContinueTypes DEF SendBatch, Steps
      <4> QED BY <1>0, <2>2, <3>2, <4>1 DEF SendBatch, TypeOK, QueueTypes, FlagTypes, authVars
    <3>3. CASE ws # 0
      <4>1. socket' \in [Sockets -> Socket]
        BY <1>0, <2>2, <3>1, <3>3, SendTypes, Limits DEF SendBatch
      <4>2. task' \in [Tasks -> Task]
        BY <1>0, <2>2, <3>3, EndTypes DEF SendBatch
      <4>3. inflight' \subseteq Points
        BY <2>0, <2>2, <3>3 DEF SendBatch
      <4> QED BY <1>0, <2>2, <4>1, <4>2, <4>3 DEF SendBatch, TypeOK, QueueTypes, FlagTypes, authVars
    <3> QED BY <3>2, <3>3
  <2>3. CASE MarkAcked(t) \/ MarkFailed(t)
    <3>1. QueueTypes'
      BY <1>0, <2>3 DEF MarkAcked, MarkFailed, QueueTypes
    <3>2. task' \in [Tasks -> Task]
      BY <1>0, <2>3, ContinueTypes DEF MarkAcked, MarkFailed, Steps
    <3> QED BY <1>0, <2>3, <3>1, <3>2
            DEF MarkAcked, MarkFailed, TypeOK, QueueTypes, FlagTypes, sessionVars, authVars
  <2>4. CASE ClearInflight(t)
    <3>1. task' \in [Tasks -> Task]
      BY <1>0, <2>4, EndTypes DEF ClearInflight
    <3> QED BY <1>0, <2>4, <3>1 DEF ClearInflight, TypeOK, QueueTypes, FlagTypes, sessionVars, authVars
  <2>5. CASE ReturnToPending(t)
    <3>1. QueueTypes'
      BY <1>0, <2>5 DEF ReturnToPending, QueueTypes
    <3>2. task' \in [Tasks -> Task]
      BY <1>0, <2>5, EndTypes DEF ReturnToPending
    <3> QED BY <1>0, <2>5, <3>1, <3>2
            DEF ReturnToPending, TypeOK, QueueTypes, FlagTypes, sessionVars, authVars
  <2> QED BY <1>3, <2>1, <2>2, <2>3, <2>4, <2>5 DEF Coroutine
<1> QED BY <1>1, <1>2, <1>3

\* The gateway's answers.
LEMMA GatewayTypes ==
  ASSUME TypeOK, NEW s \in Sockets, GatewayStep(s) \/ GatewayRefuses(s)
  PROVE  TypeOK'
<1>0. socket \in [Sockets -> Socket] /\ task \in [Tasks -> Task] /\ inflight \subseteq Points
      /\ QueueTypes /\ FlagTypes /\ ws \in 0 .. MaxSockets /\ confirmed \subseteq Points
      /\ budget \in [Kinds -> Nat]
  BY Parts DEF SocketTypes
<1>1. GatewayUnchanged /\ socket[s].up # << >>
  BY DEF GatewayStep, GatewayRefuses, GatewayStarts, GatewayAcks, GatewayWantsSession, GatewayCloses, Reads
<1>2. ASSUME NEW session \in BOOLEAN, NEW m \in Message, Answers(s, session, m)
      PROVE  socket' \in [Sockets -> Socket]
  BY <1>0, <1>1, <1>2, AnswerTypes
<1>3. ASSUME socket' \in [Sockets -> Socket], confirmed' \subseteq Points, budget' \in [Kinds -> Nat]
      PROVE  TypeOK'
  BY <1>0, <1>1, <1>3 DEF GatewayUnchanged, TypeOK, QueueTypes, FlagTypes, authVars
<1>4. CASE GatewayStarts(s) \/ GatewayWantsSession(s) \/ GatewayCloses(s)
  <2>1. socket' \in [Sockets -> Socket]
    BY <1>2, <1>4, RecordTypes DEF GatewayStarts, GatewayWantsSession, GatewayCloses
  <2> QED BY <1>0, <1>3, <1>4, <2>1 DEF GatewayStarts, GatewayWantsSession, GatewayCloses
<1>5. CASE GatewayAcks(s)
  <2> DEFINE points == Head(socket[s].up).ok
  <2>1. points \in SUBSET Points
    <3>1. socket[s].up \in Seq(Message)
      BY <1>0 DEF Socket
    <3>2. Head(socket[s].up) \in Message
      BY <1>1, <3>1
    <3> QED BY <3>2 DEF Message
  <2>2. PICK S \in SUBSET points :
          /\ Answers(s, TRUE, Ack(S, points \ S))
          /\ confirmed' = confirmed \cup S
          /\ IF S = points THEN UNCHANGED budget ELSE Spend("refusals")
    BY <1>5 DEF GatewayAcks
  <2>3. Ack(S, points \ S) \in Message
    BY <2>1 DEF Ack, Message
  <2>4. socket' \in [Sockets -> Socket]
    BY <1>2, <2>2, <2>3
  <2>5. budget' \in [Kinds -> Nat]
    BY <1>0, <2>2, SpendTypes, Limits
  <2> QED BY <1>0, <1>3, <2>1, <2>2, <2>4, <2>5
<1>6. CASE GatewayRefuses(s)
  <2>1. (socket[s].session /\ Reads(s, "batch")) \in BOOLEAN
    <3>1. socket[s].session \in BOOLEAN
      BY <1>0 DEF Socket
    <3>2. Reads(s, "batch") \in BOOLEAN
      BY DEF Reads
    <3> QED BY <3>1, <3>2
  <2>2. socket' \in [Sockets -> Socket]
    BY <1>2, <1>6, <2>1, RecordTypes DEF GatewayRefuses
  <2>3. budget' \in [Kinds -> Nat]
    BY <1>0, <1>6, SpendTypes, Limits DEF GatewayRefuses
  <2> QED BY <1>0, <1>3, <1>6, <2>2, <2>3 DEF GatewayRefuses
<1> QED BY <1>4, <1>5, <1>6 DEF GatewayStep

LEMMA StepTypes == TypeOK /\ [Next]_vars => TypeOK'
<1> SUFFICES ASSUME TypeOK, [Next]_vars PROVE TypeOK'
  OBVIOUS
<1>1. CASE UNCHANGED vars
  BY <1>1 DEF TypeOK, vars, sessionVars, authVars
<1>2. CASE Next
  BY <1>2, CallbackTypes, ReconnectTypes, CoroutineTypes, GatewayTypes DEF Next
<1> QED BY <1>1, <1>2

\* Every variable of the sender keeps its type: in particular the refresh
\* attempts never pass MAX_REFRESH_ATTEMPTS (doRefresh).
THEOREM TypeCorrect == Spec => []TypeOK
<1>1. Init => TypeOK
  BY InitTypes
<1>2. TypeOK /\ [Next]_vars => TypeOK'
  BY StepTypes
<1> QED BY <1>1, <1>2, PTL DEF Spec

-----------------------------------------------------------------------------
(***************************************************************************)
(* A row is acked only on the gateway's word.  AcksAreConfirmed follows    *)
(* the word from the gateway's answer to the coroutine that carries it     *)
(* out; confirmed only grows.                                              *)
(***************************************************************************)
HonestInv == AckedIsConfirmed /\ AcksAreConfirmed

\* The acks among the messages on their way back on socket r.
Honest(down) ==
  \A i \in DOMAIN down : down[i].type = "ack" => down[i].ok \subseteq confirmed

\* Dropping the front, or adding what is confirmed, keeps acks honest.
LEMMA HonestTail ==
  ASSUME NEW down \in Seq(Message), down # << >>, Honest(down)
  PROVE  Honest(Tail(down))
BY DEF Honest

LEMMA HonestAppend ==
  ASSUME NEW down \in Seq(Message), NEW m \in Message,
         m.type = "ack" => m.ok \subseteq confirmed, Honest(down)
  PROVE  Honest(Append(down, m))
BY DEF Honest

\* Steps that add no ack and take no decision of the gateway.
LEMMA QuietStep ==
  ASSUME HonestInv, socket \in [Sockets -> Socket], task \in [Tasks -> Task],
         confirmed' = confirmed,
         {p \in Points : queue'[p] = "acked"} \subseteq {p \in Points : queue[p] = "acked"},
         \A s \in Sockets : Honest(socket[s].down) => Honest(socket'[s].down),
         \A t \in Tasks : task'[t] = task[t] \/ task'[t].step # "markAcked"
  PROVE  HonestInv'
<1>1. \A s \in Sockets : Honest(socket[s].down)
  BY DEF HonestInv, AcksAreConfirmed, Honest
<1>2. \A s \in Sockets : Honest(socket'[s].down)
  BY <1>1
<1>3. AcksAreConfirmed'
  BY <1>2 DEF HonestInv, AcksAreConfirmed, Honest
<1>4. AckedIsConfirmed'
  BY DEF HonestInv, AckedIsConfirmed
<1> QED BY <1>3, <1>4 DEF HonestInv

\* An empty list of messages holds no dishonest ack.
LEMMA HonestEmpty == Honest(<< >>)
BY DEF Honest

\* Callbacks: an ack that arrives hands its honest list to a coroutine.
LEMMA CallbackHonest ==
  ASSUME TypeOK, HonestInv, NEW s \in Sockets,
         Callback(s) \/ ConnectionFails(s) \/ UpgradeRefused(s)
  PROVE  HonestInv'
<1>0. socket \in [Sockets -> Socket] /\ task \in [Tasks -> Task] /\ inflight \subseteq Points
      /\ socket[s] \in Socket /\ socket[s].down \in Seq(Message)
  BY DEF TypeOK, Socket
<1>1. queue' = queue /\ confirmed' = confirmed
  BY DEF Callback, Opened, SessionAccepted, AckArrives, ErrorArrives, Closing, Closed,
         ConnectionFails, UpgradeRefused, Fails
<1>2. ASSUME NEW r \in Socket, Become(s, r), Honest(socket[s].down) => Honest(r.down),
             \A t \in Tasks : task'[t] = task[t] \/ task'[t].step # "markAcked"
      PROVE  HonestInv'
  <2>1. \A o \in Sockets : Honest(socket[o].down) => Honest(socket'[o].down)
    BY <1>0, <1>2, BecomeTypes
  <2> QED BY <1>0, <1>1, <1>2, <2>1, QuietStep
<1>3. ASSUME NEW state \in SocketStates, Become(s, Silent(state)),
             \A t \in Tasks : task'[t] = task[t] \/ task'[t].step # "markAcked"
      PROVE  HonestInv'
  BY <1>2, <1>3, RecordTypes, HonestEmpty
<1>4. CASE Opened(s)
  <2> DEFINE up == IF \E i \in DOMAIN socket[s].up : socket[s].up[i] = Plain("close")
                   THEN socket[s].up ELSE Append(socket[s].up, Plain("start"))
             r == [socket[s] EXCEPT !.state = "open", !.up = up]
  <2>1. socket[s].up \in Seq(Message) /\ Plain("start") \in Message
    BY <1>0, RecordTypes DEF Socket
  <2>2. up \in Seq(Message)
    BY <2>1
  <2>3. Become(s, r) /\ task' = task
    BY <1>4 DEF Opened
  <2> HIDE DEF up
  <2>4. r \in Socket /\ r.down = socket[s].down
    BY <1>0, <2>2 DEF Socket, SocketStates
  <2> HIDE DEF r
  <2> QED BY <1>2, <2>3, <2>4
<1>5. ASSUME Receive(s), socket[s].down # << >>
      PROVE  \A o \in Sockets : Honest(socket[o].down) => Honest(socket'[o].down)
  <2> DEFINE r == [socket[s] EXCEPT !.down = Tail(@)]
  <2>1. r \in Socket /\ r.down = Tail(socket[s].down)
    BY <1>0, <1>5, ArrivedTypes
  <2>2. Become(s, r)
    BY <1>5 DEF Receive
  <2> HIDE DEF r
  <2>3. Honest(socket[s].down) => Honest(r.down)
    BY <1>0, <1>5, <2>1, HonestTail
  <2> QED BY <1>0, <2>1, <2>2, <2>3, BecomeTypes
<1>6. CASE SessionAccepted(s) \/ ErrorArrives(s)
  <2>1. Receive(s) /\ socket[s].down # << >> /\ task' = task
    BY <1>6 DEF SessionAccepted, ErrorArrives, Arrives
  <2> QED BY <1>0, <1>1, <1>5, <2>1, QuietStep
<1>7. CASE AckArrives(s)
  <2> DEFINE m == Head(socket[s].down)
  <2>1. Receive(s) /\ socket[s].down # << >> /\ m.type = "ack" /\ Launch("markAcked", m.ok, m.bad)
    BY <1>7 DEF AckArrives, Arrives
  <2>2. m.ok \in SUBSET Points /\ m.bad \in SUBSET Points
        /\ 1 \in DOMAIN socket[s].down /\ m = socket[s].down[1]
    BY <1>0, <2>1, ArrivedTypes
  <2>3. m.ok \subseteq confirmed
    BY <2>1, <2>2 DEF HonestInv, AcksAreConfirmed
  <2> HIDE DEF m
  <2>4. \A t \in Tasks : task'[t] = task[t] \/ (task'[t].step = "markAcked" /\ task'[t].ok = m.ok)
    BY <1>0, <2>1, <2>2, LaunchTypes DEF Steps
  <2>5. \A o \in Sockets : Honest(socket'[o].down)
    BY <1>5, <2>1 DEF HonestInv, AcksAreConfirmed, Honest
  <2>6. AcksAreConfirmed'
    <3>1. \A t \in Tasks : task'[t].step = "markAcked" => task'[t].ok \subseteq confirmed
      BY <2>3, <2>4 DEF HonestInv, AcksAreConfirmed
    <3> QED BY <1>1, <2>5, <3>1 DEF AcksAreConfirmed, Honest
  <2> QED BY <1>1, <2>6 DEF HonestInv, AckedIsConfirmed
<1>8. CASE Closing(s)
  <2>1. \A t \in Tasks : task'[t] = task[t] \/ task'[t].step # "markAcked"
    BY <1>0, <1>8, ReturnTypes DEF Closing
  <2> QED BY <1>3, <1>8, <2>1 DEF Closing, SocketStates
<1>9. CASE Closed(s)
  BY <1>3, <1>9 DEF Closed, SocketStates
<1>10. CASE ConnectionFails(s) \/ UpgradeRefused(s)
  <2>1. Become(s, Silent("done")) /\ ReturnInflight
    BY <1>10 DEF ConnectionFails, UpgradeRefused, Fails
  <2>2. \A t \in Tasks : task'[t] = task[t] \/ task'[t].step # "markAcked"
    BY <1>0, <2>1, ReturnTypes
  <2> QED BY <1>3, <2>1, <2>2 DEF SocketStates
<1> QED BY <1>4, <1>6, <1>7, <1>8, <1>9, <1>10 DEF Callback

\* New sockets are silent, and a restart silences the old ones.
LEMMA ReconnectHonest ==
  ASSUME TypeOK, HonestInv,
         \/ ReconnectTimer \/ RefreshAsks \/ RefreshCapped \/ Refreshed \/ RefreshFails
         \/ RefreshEnds \/ ReconnectNow \/ Restart
  PROVE  HonestInv'
<1>0. socket \in [Sockets -> Socket] /\ task \in [Tasks -> Task] /\ ws \in 0 .. MaxSockets
  BY DEF TypeOK
<1>1. queue' = queue /\ confirmed' = confirmed
  BY DEF ReconnectTimer, RefreshAsks, RefreshCapped, Refreshed, RefreshFails, RefreshEnds, ReconnectNow, Restart
<1>2. ASSUME NEW sockets \in [Sockets -> Socket], Connect(sockets),
             \A o \in Sockets : sockets[o].down = socket[o].down
      PROVE  \A o \in Sockets : Honest(socket[o].down) => Honest(socket'[o].down)
  BY <1>2, ConnectTypes, HonestEmpty
<1>3. CASE Restart
  <2>1. \A t \in Tasks : task'[t].step # "markAcked"
    BY <1>3, RecordTypes DEF Restart
  <2>2. \A o \in Sockets : socket'[o].down = << >>
    BY <1>3, RecordTypes DEF Restart, SocketStates
  <2> QED BY <1>0, <1>1, <2>1, <2>2, HonestEmpty, QuietStep
<1>4. CASE ReconnectNow
  <2>1. ws # 0 => /\ Send(ws, Plain("close")) \in [Sockets -> Socket]
                  /\ \A o \in Sockets : Send(ws, Plain("close"))[o].down = socket[o].down
    BY <1>0, RecordTypes, SendTypes, Limits
  <2>2. \A o \in Sockets : Honest(socket[o].down) => Honest(socket'[o].down)
    <3>1. CASE ws = 0
      BY <1>0, <1>2, <1>4, <3>1 DEF ReconnectNow
    <3>2. CASE ws # 0
      BY <1>2, <1>4, <2>1, <3>2 DEF ReconnectNow
    <3> QED BY <3>1, <3>2
  <2> QED BY <1>0, <1>1, <1>4, <2>2, QuietStep DEF ReconnectNow
<1>5. CASE ReconnectTimer \/ RefreshAsks \/ RefreshCapped \/ Refreshed \/ RefreshFails \/ RefreshEnds
  <2>1. Connect(socket) \/ UNCHANGED socket
    BY <1>5 DEF ReconnectTimer, RefreshAsks, RefreshCapped, Refreshed, RefreshFails, RefreshEnds
  <2>2. \A o \in Sockets : Honest(socket[o].down) => Honest(socket'[o].down)
    BY <1>0, <1>2, <2>1
  <2>3. task' = task
    BY <1>5 DEF ReconnectTimer, RefreshAsks, RefreshCapped, Refreshed, RefreshFails, RefreshEnds
  <2> QED BY <1>0, <1>1, <2>2, <2>3, QuietStep
<1> QED BY <1>3, <1>4, <1>5

\* A coroutine acks what it was told, and no other starts to.
LEMMA CoroutineHonest ==
  ASSUME TypeOK, HonestInv,
         \/ \E t \in Tasks : Coroutine(t)
         \/ TrySend \/ RetryFailed
  PROVE  HonestInv'
<1>0. socket \in [Sockets -> Socket] /\ task \in [Tasks -> Task] /\ ws \in 0 .. MaxSockets
  BY DEF TypeOK
<1>1. confirmed' = confirmed
  BY DEF Coroutine, Query, SendBatch, MarkAcked, MarkFailed, ClearInflight, ReturnToPending,
         TrySend, RetryFailed
<1>2. CASE TrySend
  <2>1. \A t \in Tasks : task'[t] = task[t] \/ task'[t].step = "query"
    BY <1>0, <1>2, LaunchTypes DEF TrySend, Steps
  <2>2. socket' = socket /\ queue' = queue
    BY <1>2 DEF TrySend, sessionVars
  <2> QED BY <1>0, <1>1, <2>1, <2>2, QuietStep
<1>3. CASE RetryFailed
  <2>1. {p \in Points : queue'[p] = "acked"} \subseteq {p \in Points : queue[p] = "acked"}
    BY <1>3 DEF RetryFailed
  <2>2. socket' = socket /\ task' = task
    BY <1>3 DEF RetryFailed, sessionVars
  <2> QED BY <1>0, <1>1, <2>1, <2>2, QuietStep
<1>4. ASSUME NEW t \in Tasks, Coroutine(t)
      PROVE  HonestInv'
  <2>1. CASE Query(t)
    <3>1. PICK S \in SUBSET Pending :
            task' = [task EXCEPT ![t] = IF S = {} THEN NoTask ELSE [step |-> "send", ok |-> S, bad |-> {}]]
      BY <2>1 DEF Query
    <3>2. task'[t].step # "markAcked" /\ \A u \in Tasks \ {t} : task'[u] = task[u]
      BY <1>0, <3>1, RecordTypes
    <3>3. socket' = socket /\ queue' = queue
      BY <2>1 DEF Query, sessionVars
    <3> QED BY <1>0, <1>1, <3>2, <3>3, QuietStep
  <2>2. CASE SendBatch(t)
    <3>1. queue' = queue
      BY <2>2 DEF SendBatch
    <3>2. CASE ws = 0
      <4>1. \A u \in Tasks : task'[u] = task[u] \/ task'[u].step = "return"
        BY <1>0, <2>2, <3>2, ContinueTypes DEF SendBatch, Steps
      <4>2. socket' = socket
        BY <2>2, <3>2 DEF SendBatch
      <4> QED BY <1>0, <1>1, <3>1, <4>1, <4>2, QuietStep
    <3>3. CASE ws # 0
      <4>1. Batch(task[t].ok) \in Message
        BY <1>0 DEF Batch, Message, Task
      <4>2. \A o \in Sockets : socket'[o].down = socket[o].down
        BY <1>0, <2>2, <3>3, <4>1, SendTypes, Limits DEF SendBatch
      <4>3. \A u \in Tasks : task'[u] = task[u] \/ task'[u].step = "none"
        BY <1>0, <2>2, <3>3, EndTypes DEF SendBatch
      <4> QED BY <1>0, <1>1, <3>1, <4>2, <4>3, QuietStep
    <3> QED BY <3>2, <3>3
  <2>3. CASE MarkAcked(t)
    <3>1. task[t].ok \subseteq confirmed
      BY <2>3 DEF MarkAcked, HonestInv, AcksAreConfirmed
    <3>2. AckedIsConfirmed'
      BY <1>1, <2>3, <3>1 DEF MarkAcked, HonestInv, AckedIsConfirmed
    <3>3. \A u \in Tasks : task'[u] = task[u] \/ task'[u].step = "markFailed"
      BY <1>0, <2>3, ContinueTypes DEF MarkAcked, Steps
    <3>4. socket' = socket
      BY <2>3 DEF MarkAcked, sessionVars
    <3>5. AcksAreConfirmed'
      BY <1>1, <3>3, <3>4 DEF HonestInv, AcksAreConfirmed
    <3> QED BY <3>2, <3>5 DEF HonestInv
  <2>4. CASE MarkFailed(t)
    <3>1. {p \in Points : queue'[p] = "acked"} \subseteq {p \in Points : queue[p] = "acked"}
      BY <2>4 DEF MarkFailed
    <3>2. \A u \in Tasks : task'[u] = task[u] \/ task'[u].step = "clear"
      BY <1>0, <2>4, ContinueTypes DEF MarkFailed, Steps
    <3>3. socket' = socket
      BY <2>4 DEF MarkFailed, sessionVars
    <3> QED BY <1>0, <1>1, <3>1, <3>2, <3>3, QuietStep
  <2>5. CASE ClearInflight(t) \/ ReturnToPending(t)
    <3>1. {p \in Points : queue'[p] = "acked"} \subseteq {p \in Points : queue[p] = "acked"}
      BY <2>5 DEF ClearInflight, ReturnToPending
    <3>2. \A u \in Tasks : task'[u] = task[u] \/ task'[u].step = "none"
      BY <1>0, <2>5, EndTypes DEF ClearInflight, ReturnToPending
    <3>3. socket' = socket
      BY <2>5 DEF ClearInflight, ReturnToPending, sessionVars
    <3> QED BY <1>0, <1>1, <3>1, <3>2, <3>3, QuietStep
  <2> QED BY <1>4, <2>1, <2>2, <2>3, <2>4, <2>5 DEF Coroutine
<1> QED BY <1>2, <1>3, <1>4

\* The gateway confirms what it acks, in the same step.
LEMMA GatewayHonest ==
  ASSUME TypeOK, HonestInv, NEW s \in Sockets, GatewayStep(s) \/ GatewayRefuses(s)
  PROVE  HonestInv'
<1>0. socket \in [Sockets -> Socket] /\ task \in [Tasks -> Task]
      /\ socket[s].down \in Seq(Message) /\ socket[s].up \in Seq(Message)
  BY DEF TypeOK, Socket
<1>1. queue' = queue /\ task' = task /\ socket[s].up # << >>
  BY DEF GatewayStep, GatewayRefuses, GatewayStarts, GatewayAcks, GatewayWantsSession, GatewayCloses,
         Reads, GatewayUnchanged
<1>2. ASSUME NEW session \in BOOLEAN, NEW m \in Message, m.type # "ack",
             Answers(s, session, m), confirmed' = confirmed
      PROVE  HonestInv'
  <2>1. socket'[s].down = Append(socket[s].down, m) /\ \A o \in Sockets \ {s} : socket'[o] = socket[o]
    BY <1>0, <1>1, <1>2, AnswerTypes
  <2>2. \A o \in Sockets : Honest(socket[o].down) => Honest(socket'[o].down)
    BY <1>0, <1>2, <2>1, HonestAppend
  <2> QED BY <1>0, <1>1, <1>2, <2>2, QuietStep
<1>3. CASE GatewayStarts(s) \/ GatewayWantsSession(s) \/ GatewayCloses(s)
  BY <1>2, <1>3, RecordTypes DEF GatewayStarts, GatewayWantsSession, GatewayCloses
<1>4. CASE GatewayRefuses(s)
  <2>1. (socket[s].session /\ Reads(s, "batch")) \in BOOLEAN
    <3>1. socket[s].session \in BOOLEAN
      BY <1>0 DEF Socket
    <3>2. Reads(s, "batch") \in BOOLEAN
      BY DEF Reads
    <3> QED BY <3>1, <3>2
  <2> QED BY <1>2, <1>4, <2>1, RecordTypes DEF GatewayRefuses
<1>5. CASE GatewayAcks(s)
  <2> DEFINE points == Head(socket[s].up).ok
  <2>1. points \in SUBSET Points
    <3>1. Head(socket[s].up) \in Message
      BY <1>0, <1>1
    <3> QED BY <3>1 DEF Message
  <2>2. PICK S \in SUBSET points :
          Answers(s, TRUE, Ack(S, points \ S)) /\ confirmed' = confirmed \cup S
    BY <1>5 DEF GatewayAcks
  <2>3. Ack(S, points \ S) \in Message /\ Ack(S, points \ S).ok = S
    BY <2>1 DEF Ack, Message
  <2> DEFINE m == Ack(S, points \ S)
  <2> HIDE DEF m
  <2>4. socket'[s].down = Append(socket[s].down, m) /\ \A o \in Sockets \ {s} : socket'[o] = socket[o]
    BY <1>0, <1>1, <2>2, <2>3, AnswerTypes DEF m
  <2>5. \A o \in Sockets : \A i \in DOMAIN socket'[o].down :
          socket'[o].down[i].type = "ack" => socket'[o].down[i].ok \subseteq confirmed'
    <3>1. ASSUME NEW i \in DOMAIN socket'[s].down, socket'[s].down[i].type = "ack"
          PROVE  socket'[s].down[i].ok \subseteq confirmed'
      <4>1. socket'[s].down[i] = m \/ (i \in DOMAIN socket[s].down /\ socket'[s].down[i] = socket[s].down[i])
        BY <1>0, <2>3, <2>4, <3>1 DEF m
      <4> QED BY <2>2, <2>3, <3>1, <4>1 DEF HonestInv, AcksAreConfirmed, m
    <3>2. ASSUME NEW o \in Sockets \ {s}, NEW i \in DOMAIN socket'[o].down,
                 socket'[o].down[i].type = "ack"
          PROVE  socket'[o].down[i].ok \subseteq confirmed'
      BY <2>2, <2>4, <3>2 DEF HonestInv, AcksAreConfirmed
    <3> QED BY <3>1, <3>2
  <2>6. AcksAreConfirmed'
    BY <1>1, <2>2, <2>5 DEF HonestInv, AcksAreConfirmed
  <2>7. AckedIsConfirmed'
    BY <1>1, <2>2 DEF HonestInv, AckedIsConfirmed
  <2> QED BY <2>6, <2>7 DEF HonestInv
<1> QED BY <1>3, <1>4, <1>5 DEF GatewayStep

LEMMA StepHonest == TypeOK /\ HonestInv /\ [Next]_vars => HonestInv'
<1> SUFFICES ASSUME TypeOK, HonestInv, [Next]_vars PROVE HonestInv'
  OBVIOUS
<1>1. CASE UNCHANGED vars
  BY <1>1 DEF HonestInv, AckedIsConfirmed, AcksAreConfirmed, vars, sessionVars
<1>2. CASE Next
  BY <1>2, CallbackHonest, ReconnectHonest, CoroutineHonest, GatewayHonest DEF Next
<1> QED BY <1>1, <1>2

LEMMA InitHonest == Init => HonestInv
<1> SUFFICES ASSUME Init PROVE HonestInv
  OBVIOUS
<1>1. AckedIsConfirmed
  BY DEF Init, AckedIsConfirmed
<1>2. \A s \in Sockets : socket[s].down = << >>
  BY RecordTypes DEF Init, SocketStates
<1>3. \A t \in Tasks : task[t].step = "none"
  BY RecordTypes DEF Init
<1>4. AcksAreConfirmed
  BY <1>2, <1>3 DEF AcksAreConfirmed
<1> QED BY <1>1, <1>4 DEF HonestInv

\* A row of the phone's queue is marked acked, and later cleaned up, only if the
\* gateway has called its point accepted or duplicated: whatever connections
\* break, acks arrive late or on old sockets, batches overlap and restarts
\* happen (handleAck, returnInflightToPending, trySendBatch).
THEOREM AckedHonestly == Spec => []AckedIsConfirmed
<1>1. Init => TypeOK /\ HonestInv
  BY InitTypes, InitHonest
<1>2. (TypeOK /\ HonestInv) /\ [Next]_vars => (TypeOK /\ HonestInv)'
  BY StepTypes, StepHonest
<1>3. TypeOK /\ HonestInv => AckedIsConfirmed
  BY DEF HonestInv
<1> QED BY <1>1, <1>2, <1>3, PTL DEF Spec

-----------------------------------------------------------------------------
(***************************************************************************)
(* The sender goes on trying.  Attempts counts sockets, timers and the     *)
(* refresh; what carries NeverGivesUp is not the number but that one of    *)
(* them lasts: a socket that is told to close does not, and it is told so  *)
(* only by a reconnect that opens another.                                 *)
(***************************************************************************)
Says(q, type) == \E i \in DOMAIN q : q[i].type = type

Lasting(r) == r.state \in {"connecting", "open"} /\ ~Says(r.up, "close") /\ ~Says(r.down, "close")

StillTrying == authExpired \/ dropped \/ timers # 0 \/ Asking \/ \E s \in Sockets : Lasting(socket[s])

LEMMA SaysAppend ==
  ASSUME NEW q \in Seq(Message), NEW m \in Message, NEW type
  PROVE  Says(Append(q, m), type) <=> Says(q, type) \/ m.type = type
<1>1. /\ DOMAIN Append(q, m) = DOMAIN q \cup {Len(q) + 1}
      /\ \A i \in DOMAIN q : Append(q, m)[i] = q[i]
      /\ Append(q, m)[Len(q) + 1] = m
  OBVIOUS
<1> QED BY <1>1 DEF Says

LEMMA SaysTail ==
  ASSUME NEW q \in Seq(Message), q # << >>, NEW type
  PROVE  /\ Says(Tail(q), type) => Says(q, type)
         /\ Head(q).type = type => Says(q, type)
<1>1. /\ \A i \in DOMAIN Tail(q) : i + 1 \in DOMAIN q /\ Tail(q)[i] = q[i + 1]
      /\ 1 \in DOMAIN q /\ Head(q) = q[1]
  OBVIOUS
<1> QED BY <1>1 DEF Says

LEMMA SilentSays ==
  /\ \A type : ~Says(<< >>, type)
  /\ \A state : /\ Silent(state).state = state /\ Silent(state).up = << >>
                /\ Silent(state).down = << >> /\ Silent(state).session = FALSE
BY DEF Says, Silent

\* A message that is sent or received, and what becomes of the socket.
LEMMA SentRecord ==
  ASSUME NEW r \in Socket, NEW m \in Message
  PROVE  /\ [r EXCEPT !.up = Append(@, m)] \in Socket
         /\ [r EXCEPT !.up = Append(@, m)].state = r.state
         /\ [r EXCEPT !.up = Append(@, m)].session = r.session
         /\ [r EXCEPT !.up = Append(@, m)].up = Append(r.up, m)
         /\ [r EXCEPT !.up = Append(@, m)].down = r.down
<1>1. r.up \in Seq(Message)
  BY DEF Socket
<1>2. Append(r.up, m) \in Seq(Message)
  BY <1>1
<1> QED BY <1>2 DEF Socket

LEMMA ReceivedRecord ==
  ASSUME NEW r \in Socket, r.down # << >>
  PROVE  LET a == [r EXCEPT !.down = Tail(@)]
         IN a \in Socket /\ a.state = r.state /\ a.session = r.session
            /\ a.up = r.up /\ a.down = Tail(r.down)
<1>1. r.down \in Seq(Message)
  BY DEF Socket
<1>2. Tail(r.down) \in Seq(Message)
  BY <1>1
<1> QED BY <1>2 DEF Socket

LEMMA OpenedRecord ==
  ASSUME NEW r \in Socket, NEW up \in Seq(Message)
  PROVE  LET a == [r EXCEPT !.state = "open", !.up = up]
         IN a \in Socket /\ a.state = "open" /\ a.session = r.session /\ a.up = up /\ a.down = r.down
BY DEF Socket, SocketStates

\* A new socket lasts.
LEMMA ConnectTries ==
  ASSUME NEW sockets \in [Sockets -> Socket], Connect(sockets)
  PROVE  \E s \in Sockets : Lasting(socket'[s])
<1>1. PICK s \in Sockets : socket' = [sockets EXCEPT ![s] = Silent("connecting")]
  BY DEF Connect, Unused
<1>2. socket'[s] = Silent("connecting")
  BY <1>1
<1> QED BY <1>2, SilentSays DEF Lasting

\* What the gateway's answers have in common.
LEMMA GatewayAnswers ==
  ASSUME TypeOK, NEW s \in Sockets, GatewayStep(s) \/ GatewayRefuses(s)
  PROVE  /\ socket[s].state = "open" /\ socket[s].up # << >>
         /\ Head(socket[s].up).type \in {"start", "batch", "close"}
         /\ UNCHANGED <<ws, sessionAccepted, timers, refresh, authExpired, dropped>>
         /\ budget' = budget \/ \E k \in {"faults", "refusals"} : Spend(k)
         /\ \E session \in BOOLEAN, m \in Message :
              /\ Answers(s, session, m)
              /\ m.type = "close" => Head(socket[s].up).type = "close"
              /\ m.type = "accepted" => Head(socket[s].up).type = "start" /\ session
              /\ m.type # "start"
              /\ socket[s].session /\ Head(socket[s].up).type = "batch" => session
              /\ session => socket[s].session \/ Head(socket[s].up).type = "start"
<1>0. /\ socket[s] \in Socket /\ socket[s].session \in BOOLEAN /\ socket[s].up \in Seq(Message)
      /\ {"faults", "refusals"} \subseteq Kinds
  BY DEF TypeOK, Socket, Kinds
<1>1. /\ socket[s].state = "open" /\ socket[s].up # << >>
      /\ Head(socket[s].up).type \in {"start", "batch", "close"}
      /\ UNCHANGED <<ws, sessionAccepted, timers, refresh, authExpired, dropped>>
      /\ budget' = budget \/ \E k \in {"faults", "refusals"} : Spend(k)
  BY DEF GatewayStep, GatewayRefuses, GatewayStarts, GatewayAcks, GatewayWantsSession, GatewayCloses,
         Reads, GatewayUnchanged, authVars
<1>2. \A type \in {"start", "close", "accepted", "error"} : Plain(type) \in Message /\ Plain(type).type = type
  BY RecordTypes DEF Plain
<1>3. CASE GatewayStarts(s)
  <2>1. Answers(s, TRUE, Plain("accepted")) /\ Head(socket[s].up).type = "start"
    BY <1>3 DEF GatewayStarts, Reads
  <2> QED BY <1>1, <1>2, <2>1
<1>4. CASE GatewayWantsSession(s)
  <2>1. Answers(s, FALSE, Plain("error")) /\ ~socket[s].session
    BY <1>4 DEF GatewayWantsSession
  <2> QED BY <1>1, <1>2, <2>1
<1>5. CASE GatewayCloses(s)
  <2>1. Answers(s, FALSE, Plain("close")) /\ Head(socket[s].up).type = "close"
    BY <1>5 DEF GatewayCloses, Reads
  <2> QED BY <1>1, <1>2, <2>1
<1>6. CASE GatewayRefuses(s)
  <2>1. /\ Answers(s, socket[s].session /\ Reads(s, "batch"), Plain("error"))
        /\ Reads(s, "batch") \in BOOLEAN
        /\ Head(socket[s].up).type = "batch" => Reads(s, "batch")
    BY <1>1, <1>6 DEF GatewayRefuses, Reads
  <2> QED BY <1>0, <1>1, <1>2, <2>1
<1>7. CASE GatewayAcks(s)
  <2>1. Head(socket[s].up) \in Message
    BY <1>0, <1>1
  <2>2. PICK S \in SUBSET Head(socket[s].up).ok : Answers(s, TRUE, Ack(S, Head(socket[s].up).ok \ S))
    BY <1>7 DEF GatewayAcks
  <2>3. Ack(S, Head(socket[s].up).ok \ S) \in Message /\ Ack(S, Head(socket[s].up).ok \ S).type = "ack"
    BY <2>1 DEF Ack, Message
  <2>4. socket[s].session
    BY <1>7 DEF GatewayAcks
  <2> QED BY <1>1, <2>2, <2>3, <2>4
<1> QED BY <1>3, <1>4, <1>5, <1>6, <1>7 DEF GatewayStep

\* A socket that changes goes on lasting, and nothing else is given up.
LEMMA TryingMoves ==
  ASSUME TypeOK, StillTrying, NEW s \in Sockets, NEW r \in Socket, Become(s, r),
         Lasting(socket[s]) => Lasting(r), UNCHANGED <<timers, refresh, authExpired, dropped>>
  PROVE  StillTrying'
<1>1. socket'[s] = r /\ \A o \in Sockets \ {s} : socket'[o] = socket[o]
  BY BecomeTypes DEF TypeOK
<1>2. CASE \E o \in Sockets : Lasting(socket[o])
  BY <1>1, <1>2 DEF StillTrying
<1> QED BY <1>2 DEF StillTrying, Asking

LEMMA CallbackTries ==
  ASSUME TypeOK, StillTrying, NEW s \in Sockets,
         Callback(s) \/ ConnectionFails(s) \/ UpgradeRefused(s)
  PROVE  StillTrying'
<1>0. /\ socket[s] \in Socket /\ socket[s].up \in Seq(Message) /\ socket[s].down \in Seq(Message)
      /\ timers \in Nat
  BY DEF TypeOK, Socket
<1>1. CASE Opened(s)
  <2> DEFINE up == IF \E i \in DOMAIN socket[s].up : socket[s].up[i] = Plain("close")
                   THEN socket[s].up ELSE Append(socket[s].up, Plain("start"))
             r == [socket[s] EXCEPT !.state = "open", !.up = up]
  <2>1. Plain("start") \in Message /\ Plain("start").type = "start"
    BY RecordTypes DEF Plain
  <2>2. up \in Seq(Message) /\ (Says(up, "close") => Says(socket[s].up, "close"))
    BY <1>0, <2>1, SaysAppend
  <2>3. Become(s, r) /\ UNCHANGED <<timers, refresh, authExpired, dropped>>
    BY <1>1 DEF Opened
  <2> HIDE DEF up
  <2>4. r \in Socket /\ r.state = "open" /\ r.up = up /\ r.down = socket[s].down
    BY <1>0, <2>2, OpenedRecord
  <2> HIDE DEF r
  <2>5. Lasting(socket[s]) => Lasting(r)
    BY <2>2, <2>4 DEF Lasting
  <2> QED BY <2>3, <2>4, <2>5, TryingMoves
<1>2. CASE SessionAccepted(s) \/ AckArrives(s) \/ ErrorArrives(s)
  <2> DEFINE r == [socket[s] EXCEPT !.down = Tail(@)]
  <2>1. Become(s, r) /\ UNCHANGED <<timers, refresh, authExpired, dropped>> /\ socket[s].down # << >>
    BY <1>2 DEF SessionAccepted, AckArrives, ErrorArrives, Receive, Arrives, authVars
  <2>2. /\ r \in Socket /\ r.state = socket[s].state
        /\ r.up = socket[s].up /\ r.down = Tail(socket[s].down)
    BY <1>0, <2>1, ReceivedRecord
  <2> HIDE DEF r
  <2>3. Lasting(socket[s]) => Lasting(r)
    BY <1>0, <2>1, <2>2, SaysTail DEF Lasting
  <2> QED BY <2>1, <2>2, <2>3, TryingMoves
<1>3. CASE Closing(s) \/ Closed(s)
  <2>1. PICK state \in {"closed", "done"} : Become(s, Silent(state))
    BY <1>3 DEF Closing, Closed
  <2>2. UNCHANGED <<timers, refresh, authExpired, dropped>>
    BY <1>3 DEF Closing, Closed, authVars
  <2>3. ~Lasting(socket[s])
    BY <1>0, <1>3, SaysTail DEF Closing, Closed, Arrives, Lasting
  <2>4. Silent(state) \in Socket
    BY RecordTypes DEF SocketStates
  <2> QED BY <2>1, <2>2, <2>3, <2>4, TryingMoves
<1>4. CASE ConnectionFails(s)
  BY <1>0, <1>4 DEF ConnectionFails, StillTrying
<1>5. CASE UpgradeRefused(s)
  <2>1. refresh \in {"no", "begun", "asked", "over"}
    BY DEF TypeOK, Refreshing
  <2>2. Asking' \/ dropped'
    BY <1>5, <2>1 DEF UpgradeRefused, RefreshAndReconnect, Asking
  <2> QED BY <2>2 DEF StillTrying
<1> QED BY <1>1, <1>2, <1>3, <1>4, <1>5 DEF Callback

LEMMA ReconnectTries ==
  ASSUME TypeOK, StillTrying,
         \/ ReconnectTimer \/ RefreshAsks \/ RefreshCapped \/ Refreshed \/ RefreshFails
         \/ RefreshEnds \/ ReconnectNow \/ Restart
  PROVE  StillTrying'
<1>0. socket \in [Sockets -> Socket] /\ ws \in 0 .. MaxSockets
  BY DEF TypeOK
<1>1. CASE ReconnectTimer \/ Refreshed
  <2>1. (authExpired /\ authExpired' = authExpired) \/ Connect(socket)
    BY <1>1 DEF ReconnectTimer, Refreshed
  <2> QED BY <1>0, <2>1, ConnectTries DEF StillTrying
<1>2. CASE RefreshAsks \/ RefreshCapped \/ RefreshFails \/ RefreshEnds
  BY <1>2 DEF RefreshAsks, RefreshCapped, RefreshFails, RefreshEnds, StillTrying, Asking
<1>3. CASE ReconnectNow
  <2>1. ws # 0 => Send(ws, Plain("close")) \in [Sockets -> Socket]
    BY <1>0, RecordTypes, SendTypes, Limits
  <2>2. CASE ws = 0
    BY <1>0, <1>3, <2>2, ConnectTries DEF ReconnectNow, StillTrying
  <2>3. CASE ws # 0
    BY <1>3, <2>1, <2>3, ConnectTries DEF ReconnectNow, StillTrying
  <2> QED BY <2>2, <2>3
<1>4. CASE Restart
  <2>1. PICK s \in Sockets : socket' = [o \in Sockets |->
          Silent(IF o = s THEN "connecting" ELSE IF o \in Unused THEN "unused" ELSE "done")]
    BY <1>4 DEF Restart, Unused
  <2>2. socket'[s] = Silent("connecting")
    BY <2>1
  <2>3. Lasting(socket'[s])
    BY <2>2, SilentSays DEF Lasting
  <2> QED BY <2>3 DEF StillTrying
<1> QED BY <1>1, <1>2, <1>3, <1>4

LEMMA GatewayTries ==
  ASSUME TypeOK, StillTrying, NEW s \in Sockets, GatewayStep(s) \/ GatewayRefuses(s)
  PROVE  StillTrying'
<1>0. socket[s] \in Socket /\ socket[s].up \in Seq(Message) /\ socket[s].down \in Seq(Message)
  BY DEF TypeOK, Socket
<1>1. socket[s].up # << >> /\ UNCHANGED <<timers, refresh, authExpired, dropped>>
  BY GatewayAnswers
<1>2. PICK session \in BOOLEAN, m \in Message :
        Answers(s, session, m) /\ (m.type = "close" => Head(socket[s].up).type = "close")
  BY GatewayAnswers
<1> DEFINE r == [socket[s] EXCEPT !.session = session, !.up = Tail(@), !.down = Append(@, m)]
<1>3. Become(s, r)
  BY <1>2 DEF Answers
<1>4. Tail(socket[s].up) \in Seq(Message) /\ Append(socket[s].down, m) \in Seq(Message)
  BY <1>0, <1>1
<1>5. r \in Socket
  BY <1>0, <1>4 DEF Socket
<1>6. r.state = socket[s].state /\ r.up = Tail(socket[s].up) /\ r.down = Append(socket[s].down, m)
  BY <1>0, <1>4 DEF Socket
<1> HIDE DEF r
<1>7. Lasting(socket[s]) => Lasting(r)
  BY <1>0, <1>1, <1>2, <1>6, SaysTail, SaysAppend DEF Lasting
<1> QED BY <1>1, <1>3, <1>5, <1>7, TryingMoves

LEMMA CoroutineTries ==
  ASSUME TypeOK, StillTrying,
         \/ \E t \in Tasks : Coroutine(t)
         \/ TrySend \/ RetryFailed
  PROVE  StillTrying'
<1>1. UNCHANGED <<timers, refresh, authExpired, dropped>>
  BY DEF Coroutine, Query, SendBatch, MarkAcked, MarkFailed, ClearInflight, ReturnToPending,
         TrySend, RetryFailed, sessionVars, authVars
<1>2. CASE UNCHANGED socket
  BY <1>1, <1>2 DEF StillTrying, Asking
<1>3. ASSUME NEW t \in Tasks, SendBatch(t), ws # 0
      PROVE  StillTrying'
  <2> DEFINE m == Batch(task[t].ok)
             r == [socket[ws] EXCEPT !.up = Append(@, m)]
  <2>1. m \in Message /\ m.type = "batch" /\ ws \in Sockets /\ socket[ws] \in Socket
    BY <1>3, Limits DEF TypeOK, Task, Batch, Message
  <2>2. Become(ws, r)
    BY <1>3 DEF SendBatch, Send, Become
  <2> HIDE DEF m
  <2>3. /\ r \in Socket /\ r.state = socket[ws].state
        /\ r.up = Append(socket[ws].up, m) /\ r.down = socket[ws].down
    BY <2>1, SentRecord
  <2> HIDE DEF r
  <2>4. Lasting(socket[ws]) => Lasting(r)
    BY <2>1, <2>3, SaysAppend DEF Lasting, Socket
  <2> QED BY <1>1, <2>1, <2>2, <2>3, <2>4, TryingMoves
<1>4. CASE ~UNCHANGED socket
  <2>1. \E t \in Tasks : SendBatch(t) /\ ws # 0
    BY <1>4 DEF Coroutine, Query, SendBatch, MarkAcked, MarkFailed, ClearInflight, ReturnToPending,
                TrySend, RetryFailed, sessionVars
  <2> QED BY <1>3, <2>1
<1> QED BY <1>2, <1>4

LEMMA StepTries == ASSUME TypeOK, StillTrying, [Next]_vars PROVE StillTrying'
<1>1. CASE UNCHANGED vars
  BY <1>1 DEF StillTrying, Asking, vars, sessionVars, authVars
<1> QED BY <1>1, CallbackTries, ReconnectTries, GatewayTries, CoroutineTries DEF Next

LEMMA InitTries == ASSUME Init PROVE StillTrying
<1>1. socket[1] = Silent("connecting") /\ 1 \in Sockets
  BY Limits DEF Init
<1> QED BY <1>1, SilentSays DEF StillTrying, Lasting

LEMMA LiveIsFinite == IsFiniteSet(Live) /\ Cardinality(Live) \in Nat /\ (Cardinality(Live) = 0 <=> Live = {})
<1>1. IsFiniteSet(Sockets) /\ Live \subseteq Sockets
  BY Limits, FS_Interval DEF Live
<1>2. IsFiniteSet(Live)
  BY <1>1, FS_Subset
<1> QED BY <1>2, FS_EmptySet, FS_CardinalityType

\* Whatever connections break, upgrades are refused, refreshes fail, users force
\* reconnects and services restart: the sender has a socket, a reconnect that is
\* scheduled, or a refresh under way, unless authentication has expired or the last
\* refusal came between the connect() and the finally of a refresh, the one place
\* where refreshAndReconnect sends a caller away with nothing left to reconnect
\* (onFailure, onClosed, refreshAndReconnect, reconnectNow).
THEOREM KeepsTrying == Spec => []NeverGivesUp
<1>1. Init => TypeOK /\ StillTrying
  BY InitTypes, InitTries
<1>2. (TypeOK /\ StillTrying) /\ [Next]_vars => (TypeOK /\ StillTrying)'
  BY StepTypes, StepTries
<1>3. TypeOK /\ StillTrying => NeverGivesUp
  <2> SUFFICES ASSUME TypeOK, StillTrying, Attempts = 0 PROVE authExpired \/ dropped
    BY DEF NeverGivesUp
  <2>1. timers \in Nat
    BY DEF TypeOK
  <2>2. timers = 0 /\ ~Asking /\ Live = {}
    BY <2>1, LiveIsFinite DEF Attempts
  <2>3. \A s \in Sockets : ~Lasting(socket[s])
    BY <2>2 DEF Live, Lasting
  <2> QED BY <2>2, <2>3 DEF StillTrying
<1> QED BY <1>1, <1>2, <1>3, PTL DEF Spec

-----------------------------------------------------------------------------
(***************************************************************************)
(* Trouble is paid for.  Every failure, refusal, restart and forced        *)
(* reconnect spends from its allowance, and nothing gives back.            *)
(***************************************************************************)
Within == \A k \in Kinds : budget[k] <= Allowance[k]

Trouble ==
  \/ \E s \in Sockets : GatewayRefuses(s) \/ ConnectionFails(s) \/ UpgradeRefused(s)
  \/ RefreshFails \/ ReconnectNow \/ Restart

LEMMA Allowances ==
  /\ Kinds = {"faults", "refusals", "nudges"}
  /\ Allowance["faults"] = MaxFaults /\ Allowance["refusals"] = MaxRefusals
  /\ Allowance["nudges"] = MaxNudges
  /\ Allowance \in [Kinds -> Nat]
BY SenderAssumption DEF Kinds, Allowance

LEMMA SpendWithin ==
  ASSUME TypeOK, Within, NEW k \in Kinds, Spend(k)
  PROVE  /\ Within' /\ budget'[k] # Allowance[k]
         /\ \A j \in Kinds : budget'[j] = Allowance[j] => budget[j] = Allowance[j]
<1>1. budget \in [Kinds -> Nat] /\ Allowance \in [Kinds -> Nat]
  BY Allowances DEF TypeOK
<1>2. budget' = [budget EXCEPT ![k] = @ - 1]
  BY DEF Spend
<1>3. budget[k] \in Nat /\ budget[k] <= Allowance[k] /\ Allowance[k] \in Nat
  BY <1>1 DEF Within
<1>4. budget'[k] <= Allowance[k] /\ budget'[k] # Allowance[k]
  BY <1>1, <1>2, <1>3
<1>5. \A j \in Kinds \ {k} : budget'[j] = budget[j]
  BY <1>1, <1>2
<1>6. Allowance' = Allowance
  BY DEF Allowance, Kinds
<1>7. \A j \in Kinds : budget'[j] <= Allowance[j]
  BY <1>4, <1>5 DEF Within
<1> QED BY <1>4, <1>5, <1>6, <1>7 DEF Within

LEMMA TroubleSpends ==
  ASSUME TypeOK, [Next]_vars
  PROVE  /\ budget' = budget \/ \E k \in Kinds : Spend(k)
         /\ Trouble => \E k \in Kinds : Spend(k)
         /\ ReconnectNow => Spend("nudges")
<1>0. Kinds = {"faults", "refusals", "nudges"}
  BY DEF Kinds
<1>1. /\ Trouble => \E k \in Kinds : Spend(k)
      /\ ReconnectNow => Spend("nudges")
  BY <1>0 DEF Trouble, GatewayRefuses, ConnectionFails, UpgradeRefused, Fails, RefreshFails, ReconnectNow,
              Restart
<1>2. CASE UNCHANGED vars
  BY <1>1, <1>2 DEF vars
<1>3. CASE \E s \in Sockets : Callback(s)
  BY <1>1, <1>3 DEF Callback, Opened, SessionAccepted, AckArrives, ErrorArrives, Closing, Closed
<1>4. CASE \E s \in Sockets : GatewayStep(s)
  BY <1>0, <1>1, <1>4, GatewayAnswers
<1>5. CASE ReconnectTimer \/ RefreshAsks \/ RefreshCapped \/ Refreshed \/ RefreshEnds
  BY <1>1, <1>5 DEF ReconnectTimer, RefreshAsks, RefreshCapped, Refreshed, RefreshEnds
<1>6. CASE (\E t \in Tasks : Coroutine(t)) \/ TrySend \/ RetryFailed
  BY <1>1, <1>6 DEF Coroutine, Query, SendBatch, MarkAcked, MarkFailed, ClearInflight, ReturnToPending,
              TrySend, RetryFailed
<1> QED BY <1>1, <1>2, <1>3, <1>4, <1>5, <1>6 DEF Next, Trouble

LEMMA StepWithin ==
  ASSUME TypeOK, Within, [Next]_vars
  PROVE  /\ Within'
         /\ Unforced' => Unforced /\ ~ReconnectNow
         /\ Untroubled' => Untroubled /\ ~Trouble /\ ~(\E k \in Kinds : Spend(k))
<1>1. CASE \E k \in Kinds : Spend(k)
  <2>1. PICK k \in Kinds : Spend(k)
    BY <1>1
  <2>2. /\ Within'
        /\ \A j \in Kinds : budget'[j] = Allowance[j] => budget[j] = Allowance[j]
        /\ ReconnectNow => budget'["nudges"] # Allowance["nudges"]
    BY <2>1, SpendWithin, TroubleSpends, Allowances
  <2>3. budget'[k] # Allowance[k]
    BY <2>1, SpendWithin
  <2>4. ~Untroubled'
    BY <2>3, Allowances DEF Untroubled, Unrefused, Unforced
  <2> QED BY <2>2, <2>4, Allowances DEF Unforced
<1>2. CASE ~(\E k \in Kinds : Spend(k))
  <2>1. budget' = budget /\ ~Trouble /\ ~ReconnectNow
    BY <1>2, TroubleSpends DEF Trouble
  <2> QED BY <1>2, <2>1 DEF Within, Allowance, Kinds, Unforced, Untroubled, Unrefused
<1> QED BY <1>1, <1>2

-----------------------------------------------------------------------------
(***************************************************************************)
(* One connection, and whose session it is.  As long as the user forces    *)
(* no reconnect, nothing is closed from this side, so a socket is left     *)
(* only when it fails: one socket, one timer or one refresh at a time, ws  *)
(* is the socket there is, and an acceptance still on its way speaks of a  *)
(* session the gateway has.                                                *)
(***************************************************************************)
OneStart(q) == \A i, j \in DOMAIN q : q[i].type = "start" /\ q[j].type = "start" => i = j

Agreed(r) ==
  /\ r.state # "closed" /\ ~Says(r.up, "close") /\ ~Says(r.down, "close")
  /\ r.state # "open" => ~Says(r.up, "start") /\ ~Says(r.down, "accepted") /\ ~r.session
  /\ Says(r.up, "start") => ~r.session
  /\ Says(r.down, "accepted") => r.session
  /\ OneStart(r.up)

Single ==
  /\ \A s, u \in Live : s = u
  /\ timers # 0 => timers = 1 /\ Live = {} /\ ~Asking
  /\ Asking => Live = {}

Own ==
  /\ \A s \in Live : ws = s
  /\ sessionAccepted => ws # 0 /\ socket[ws].session

Calm == Single /\ Own /\ \A s \in Sockets : Agreed(socket[s])

CalmInv == Within /\ (Unforced => Calm)

LEMMA OneStartAppend ==
  ASSUME NEW q \in Seq(Message), NEW m \in Message, OneStart(q), m.type = "start" => ~Says(q, "start")
  PROVE  OneStart(Append(q, m))
<1>1. /\ DOMAIN Append(q, m) = DOMAIN q \cup {Len(q) + 1}
      /\ \A i \in DOMAIN q : Append(q, m)[i] = q[i]
      /\ Append(q, m)[Len(q) + 1] = m
  OBVIOUS
<1> QED BY <1>1 DEF Says, OneStart

LEMMA OneStartTail ==
  ASSUME NEW q \in Seq(Message), q # << >>, OneStart(q)
  PROVE  /\ OneStart(Tail(q))
         /\ Head(q).type = "start" => ~Says(Tail(q), "start")
<1>1. /\ \A i \in DOMAIN Tail(q) : i + 1 \in DOMAIN q /\ Tail(q)[i] = q[i + 1] /\ i \in Nat \ {0}
      /\ 1 \in DOMAIN q /\ Head(q) = q[1]
  OBVIOUS
<1>2. OneStart(Tail(q))
  BY <1>1 DEF OneStart
<1>3. Head(q).type = "start" => ~Says(Tail(q), "start")
  BY <1>1 DEF OneStart, Says
<1> QED BY <1>2, <1>3

LEMMA SilentAgrees == \A state \in {"connecting", "unused", "done"} : Agreed(Silent(state))
<1>1. OneStart(<< >>)
  BY DEF OneStart
<1> QED BY <1>1, SilentSays DEF Agreed

\* The socket there is changes, and the sender's fields with it.
LEMMA CalmMoves ==
  ASSUME TypeOK, Calm, NEW s \in Sockets, NEW r \in Socket, Become(s, r), Agreed(r),
         r.state \in {"connecting", "open"} => s \in Live,
         UNCHANGED <<ws, timers, refresh>>,
         sessionAccepted' => ws # 0 /\ (IF ws = s THEN r.session ELSE socket[ws].session)
  PROVE  Calm'
<1>1. socket'[s] = r /\ \A o \in Sockets \ {s} : socket'[o] = socket[o]
  BY BecomeTypes DEF TypeOK
<1>2. ws \in 0 .. MaxSockets
  BY DEF TypeOK
<1>3. Live' \subseteq Live
  BY <1>1 DEF Live, Agreed
<1>4. Single'
  BY <1>3 DEF Calm, Single, Asking
<1>5. sessionAccepted' => socket'[ws].session
  BY <1>1, <1>2, Limits
<1>6. Own'
  BY <1>3, <1>5 DEF Calm, Own
<1>7. \A o \in Sockets : Agreed(socket'[o])
  BY <1>1 DEF Calm
<1> QED BY <1>4, <1>6, <1>7 DEF Calm

\* A socket fails: one reconnect is under way and no socket is left.
LEMMA CalmDrops ==
  ASSUME TypeOK, Calm, NEW s \in Sockets, ConnectionFails(s) \/ UpgradeRefused(s)
  PROVE  Calm'
<1>0. timers \in Nat
  BY DEF TypeOK
<1>1. /\ s \in Live /\ Become(s, Silent("done"))
      /\ ~sessionAccepted'
      /\ \/ timers' = timers + 1 /\ refresh' = refresh
         \/ timers' = timers
  BY DEF ConnectionFails, UpgradeRefused, Fails, Live
<1>2. socket'[s] = Silent("done") /\ \A o \in Sockets \ {s} : socket'[o] = socket[o]
  BY <1>1, BecomeTypes, RecordTypes DEF TypeOK, SocketStates
<1>3. \A o \in Sockets \ {s} : o \notin Live
  BY <1>1 DEF Calm, Single, Live
<1>4. Live' = {}
  BY <1>2, <1>3, SilentSays DEF Live
<1>5. timers = 0 /\ ~Asking
  BY <1>1 DEF Calm, Single
<1>6. Single' /\ Own'
  BY <1>0, <1>1, <1>4, <1>5 DEF Single, Own, Asking
<1>7. \A o \in Sockets : Agreed(socket'[o])
  BY <1>2, SilentAgrees DEF Calm
<1> QED BY <1>6, <1>7 DEF Calm

\* The reconnect ends: with a new socket, or none.
LEMMA CalmConnects ==
  ASSUME TypeOK, Calm, timers # 0 \/ Asking, timers' = 0, ~Asking',
         Connect(socket) \/ UNCHANGED <<ws, socket>>, UNCHANGED sessionAccepted
  PROVE  Calm'
<1>0. Live = {} /\ ~sessionAccepted
  <2>1. Live = {}
    BY DEF Calm, Single
  <2>2. sessionAccepted => ws \in Live
    <3>1. sessionAccepted => ws \in Sockets /\ socket[ws].session
      BY Limits DEF TypeOK, Calm, Own
    <3> QED BY <3>1 DEF Calm, Agreed, Live
  <2> QED BY <2>1, <2>2
<1>1. CASE Connect(socket)
  <2>1. PICK s \in Sockets : ws' = s /\ socket' = [socket EXCEPT ![s] = Silent("connecting")]
    BY <1>1 DEF Connect, Unused
  <2>2. socket'[s] = Silent("connecting") /\ \A o \in Sockets \ {s} : socket'[o] = socket[o]
    BY <2>1 DEF TypeOK
  <2>3. Live' = {s}
    BY <1>0, <2>2, SilentSays DEF Live
  <2>4. Single' /\ Own'
    BY <1>0, <2>1, <2>3 DEF Single, Own
  <2>5. \A o \in Sockets : Agreed(socket'[o])
    BY <2>2, SilentAgrees DEF Calm
  <2> QED BY <2>4, <2>5 DEF Calm
<1>2. CASE UNCHANGED <<ws, socket>>
  <2>1. Live' = {}
    BY <1>0, <1>2 DEF Live
  <2>2. Single' /\ Own'
    BY <1>0, <2>1 DEF Single, Own
  <2> QED BY <1>2, <2>2 DEF Calm
<1> QED BY <1>1, <1>2

LEMMA CalmRestarts ==
  ASSUME TypeOK, Restart
  PROVE  Calm'
<1>1. PICK s \in Sockets : ws' = s /\ socket' = [o \in Sockets |->
        Silent(IF o = s THEN "connecting" ELSE IF o \in Unused THEN "unused" ELSE "done")]
  BY DEF Restart, Unused
<1>2. socket'[s] = Silent("connecting")
  BY <1>1
<1>3. \A o \in Sockets \ {s} : socket'[o] \in {Silent("unused"), Silent("done")}
  BY <1>1
<1>4. Live' = {s}
  BY <1>2, <1>3, SilentSays DEF Live
<1>5. ~sessionAccepted' /\ timers' = 0 /\ ~Asking'
  BY DEF Restart, Asking
<1>6. Single' /\ Own'
  BY <1>1, <1>4, <1>5 DEF Single, Own
<1>7. \A o \in Sockets : Agreed(socket'[o])
  BY <1>2, <1>3, SilentAgrees
<1> QED BY <1>6, <1>7 DEF Calm

LEMMA CallbackCalm ==
  ASSUME TypeOK, Calm, NEW s \in Sockets, Callback(s)
  PROVE  Calm'
<1>0. /\ socket[s] \in Socket /\ socket[s].up \in Seq(Message) /\ socket[s].down \in Seq(Message)
      /\ Agreed(socket[s])
      /\ sessionAccepted => ws # 0 /\ socket[ws].session
      /\ s \in Live => ws = s /\ s # 0
  BY Limits DEF TypeOK, Socket, Calm, Own
<1>1. CASE Opened(s)
  <2> DEFINE up == IF \E i \in DOMAIN socket[s].up : socket[s].up[i] = Plain("close")
                   THEN socket[s].up ELSE Append(socket[s].up, Plain("start"))
             r == [socket[s] EXCEPT !.state = "open", !.up = up]
  <2>1. /\ Plain("start") \in Message /\ Plain("start").type = "start" /\ Plain("close").type = "close"
        /\ socket[s].state = "connecting"
    BY <1>1, RecordTypes DEF Plain, Opened
  <2>2. up = Append(socket[s].up, Plain("start"))
    BY <1>0, <2>1 DEF Agreed, Says
  <2>3. Become(s, r) /\ UNCHANGED <<ws, sessionAccepted, timers, refresh>> /\ s \in Live
    BY <1>1 DEF Opened, Live
  <2> HIDE DEF up
  <2>4. up \in Seq(Message)
    BY <1>0, <2>1, <2>2
  <2>5. r \in Socket /\ r.state = "open" /\ r.session = socket[s].session
        /\ r.up = up /\ r.down = socket[s].down
    BY <1>0, <2>4, OpenedRecord
  <2> HIDE DEF r
  <2>6. OneStart(up) /\ ~Says(up, "close")
    BY <1>0, <2>1, <2>2, OneStartAppend, SaysAppend DEF Agreed
  <2>7. Agreed(r)
    BY <1>0, <2>1, <2>5, <2>6 DEF Agreed
  <2> QED BY <1>0, <2>3, <2>5, <2>7, CalmMoves
<1>2. CASE SessionAccepted(s) \/ AckArrives(s) \/ ErrorArrives(s)
  <2> DEFINE r == [socket[s] EXCEPT !.down = Tail(@)]
  <2>1. /\ Become(s, r) /\ UNCHANGED <<ws, timers, refresh>>
        /\ socket[s].down # << >> /\ s \in Live
        /\ sessionAccepted' => sessionAccepted \/ Head(socket[s].down).type = "accepted"
    BY <1>2 DEF SessionAccepted, AckArrives, ErrorArrives, Receive, Arrives, authVars, Live
  <2>2. /\ r \in Socket /\ r.state = socket[s].state /\ r.session = socket[s].session
        /\ r.up = socket[s].up /\ r.down = Tail(socket[s].down)
    BY <1>0, <2>1, ReceivedRecord
  <2> HIDE DEF r
  <2>3. /\ \A type : Says(Tail(socket[s].down), type) => Says(socket[s].down, type)
        /\ Head(socket[s].down).type = "accepted" => Says(socket[s].down, "accepted")
    BY <1>0, <2>1, SaysTail
  <2>4. Agreed(r)
    BY <1>0, <2>2, <2>3 DEF Agreed
  <2>5. sessionAccepted' => ws # 0 /\ (IF ws = s THEN r.session ELSE socket[ws].session)
    BY <1>0, <2>1, <2>2, <2>3 DEF Agreed
  <2> QED BY <2>1, <2>2, <2>4, <2>5, CalmMoves
<1>3. CASE Closing(s) \/ Closed(s)
  <2>1. FALSE
    BY <1>0, <1>3, SaysTail DEF Closing, Closed, Arrives, Agreed
  <2> QED BY <2>1
<1> QED BY <1>1, <1>2, <1>3 DEF Callback

LEMMA GatewayCalm ==
  ASSUME TypeOK, Calm, NEW s \in Sockets, GatewayStep(s) \/ GatewayRefuses(s)
  PROVE  Calm'
<1>0. /\ socket[s] \in Socket /\ socket[s].up \in Seq(Message) /\ socket[s].down \in Seq(Message)
      /\ Agreed(socket[s])
      /\ sessionAccepted => ws # 0 /\ socket[ws].session
  BY DEF TypeOK, Socket, Calm, Own
<1>1. /\ socket[s].state = "open" /\ socket[s].up # << >>
      /\ Head(socket[s].up).type \in {"start", "batch", "close"}
      /\ UNCHANGED <<ws, sessionAccepted, timers, refresh>>
  BY GatewayAnswers
<1>2. PICK session \in BOOLEAN, m \in Message :
        /\ Answers(s, session, m)
        /\ m.type = "close" => Head(socket[s].up).type = "close"
        /\ m.type = "accepted" => Head(socket[s].up).type = "start" /\ session
        /\ socket[s].session /\ Head(socket[s].up).type = "batch" => session
        /\ session => socket[s].session \/ Head(socket[s].up).type = "start"
  BY GatewayAnswers
<1>3. /\ Says(socket[s].up, Head(socket[s].up).type)
      /\ \A type : Says(Tail(socket[s].up), type) => Says(socket[s].up, type)
      /\ \A type : Says(Append(socket[s].down, m), type) <=> Says(socket[s].down, type) \/ m.type = type
  BY <1>0, <1>1, SaysTail, SaysAppend
<1>4. /\ OneStart(Tail(socket[s].up))
      /\ Head(socket[s].up).type = "start" => ~Says(Tail(socket[s].up), "start")
  BY <1>0, <1>1, OneStartTail DEF Agreed
<1>5. socket[s].session => Head(socket[s].up).type = "batch" /\ session
  BY <1>0, <1>1, <1>2, <1>3 DEF Agreed
<1> DEFINE r == [socket[s] EXCEPT !.session = session, !.up = Tail(@), !.down = Append(@, m)]
<1>6. Become(s, r)
  BY <1>2 DEF Answers
<1>7. Tail(socket[s].up) \in Seq(Message) /\ Append(socket[s].down, m) \in Seq(Message)
  BY <1>0, <1>1
<1>8. r \in Socket
  BY <1>0, <1>7 DEF Socket
<1>9. /\ r.state = socket[s].state /\ r.session = session
      /\ r.up = Tail(socket[s].up) /\ r.down = Append(socket[s].down, m)
  BY <1>0, <1>7 DEF Socket
<1> HIDE DEF r
<1>10. Agreed(r)
  <2>1. ~Says(r.up, "close") /\ ~Says(r.down, "close") /\ OneStart(r.up)
    BY <1>0, <1>1, <1>2, <1>3, <1>4, <1>9 DEF Agreed
  <2>2. Says(r.up, "start") => ~session
    BY <1>0, <1>2, <1>3, <1>4, <1>9 DEF Agreed
  <2>3. Says(r.down, "accepted") => session
    BY <1>0, <1>2, <1>3, <1>5, <1>9 DEF Agreed
  <2> QED BY <1>1, <1>9, <2>1, <2>2, <2>3 DEF Agreed
<1>11. sessionAccepted' => ws # 0 /\ (IF ws = s THEN r.session ELSE socket[ws].session)
  BY <1>0, <1>1, <1>5, <1>9
<1>12. s \in Live
  BY <1>1 DEF Live
<1> QED BY <1>1, <1>6, <1>8, <1>10, <1>11, <1>12, CalmMoves

LEMMA CoroutineCalm ==
  ASSUME TypeOK, Calm,
         \/ \E t \in Tasks : Coroutine(t)
         \/ TrySend \/ RetryFailed
  PROVE  Calm'
<1>1. UNCHANGED <<ws, sessionAccepted, timers, refresh>>
  BY DEF Coroutine, Query, SendBatch, MarkAcked, MarkFailed, ClearInflight, ReturnToPending,
         TrySend, RetryFailed, sessionVars, authVars
<1>2. CASE UNCHANGED socket
  BY <1>1, <1>2 DEF Calm, Single, Own, Live, Asking
<1>3. ASSUME NEW t \in Tasks, SendBatch(t), ws # 0
      PROVE  Calm'
  <2> DEFINE m == Batch(task[t].ok)
             r == [socket[ws] EXCEPT !.up = Append(@, m)]
  <2>1. m \in Message /\ m.type = "batch" /\ ws \in Sockets /\ socket[ws] \in Socket
    BY <1>3, Limits DEF TypeOK, Task, Batch, Message
  <2>2. Become(ws, r)
    BY <1>3 DEF SendBatch, Send, Become
  <2> HIDE DEF m
  <2>3. /\ r \in Socket /\ r.state = socket[ws].state /\ r.session = socket[ws].session
        /\ r.up = Append(socket[ws].up, m) /\ r.down = socket[ws].down
    BY <2>1, SentRecord
  <2> HIDE DEF r
  <2>4. Agreed(socket[ws]) /\ socket[ws].up \in Seq(Message)
    BY <2>1 DEF Calm, Socket
  <2>5. /\ \A type : Says(r.up, type) <=> Says(socket[ws].up, type) \/ m.type = type
        /\ OneStart(r.up)
    BY <2>1, <2>3, <2>4, SaysAppend, OneStartAppend DEF Agreed
  <2>6. Agreed(r)
    BY <2>1, <2>3, <2>4, <2>5 DEF Agreed
  <2>7. sessionAccepted' => ws # 0 /\ r.session
    BY <1>1, <1>3, <2>3 DEF Calm, Own
  <2>8. r.state \in {"connecting", "open"} => ws \in Live
    BY <2>1, <2>3 DEF Live
  <2> QED BY <1>1, <2>1, <2>2, <2>3, <2>6, <2>7, <2>8, CalmMoves
<1>4. CASE ~UNCHANGED socket
  <2>1. \E t \in Tasks : SendBatch(t) /\ ws # 0
    BY <1>4 DEF Coroutine, Query, SendBatch, MarkAcked, MarkFailed, ClearInflight, ReturnToPending,
                TrySend, RetryFailed, sessionVars
  <2> QED BY <1>3, <2>1
<1> QED BY <1>2, <1>4

LEMMA StepCalm == ASSUME TypeOK, CalmInv, [Next]_vars PROVE CalmInv'
<1>1. Within' /\ (Unforced' => Unforced /\ ~ReconnectNow)
  BY StepWithin DEF CalmInv
<1> SUFFICES ASSUME Calm, ~ReconnectNow PROVE Calm'
  BY <1>1 DEF CalmInv
<1>2. CASE UNCHANGED vars
  BY <1>2 DEF Calm, Single, Own, Live, Asking, vars, sessionVars, authVars
<1>3. CASE ReconnectTimer \/ Refreshed
  <2>1. timers \in Nat
    BY DEF TypeOK
  <2>2. /\ timers # 0 \/ Asking
        /\ UNCHANGED sessionAccepted
        /\ Connect(socket) \/ UNCHANGED <<ws, socket>>
    BY <1>3, <2>1 DEF ReconnectTimer, Refreshed, Asking
  <2>3. timers' = 0 /\ ~Asking'
    BY <1>3, <2>1 DEF ReconnectTimer, Refreshed, Calm, Single, Asking
  <2> QED BY <2>2, <2>3, CalmConnects
<1>4. CASE RefreshAsks \/ RefreshCapped \/ RefreshFails \/ RefreshEnds
  BY <1>4 DEF RefreshAsks, RefreshCapped, RefreshFails, RefreshEnds, Calm, Single, Own, Live, Asking
<1> QED BY <1>1, <1>2, <1>3, <1>4, CallbackCalm, GatewayCalm, CoroutineCalm, CalmDrops, CalmRestarts
        DEF Next

LEMMA InitCalm == Init => CalmInv
<1> SUFFICES ASSUME Init PROVE CalmInv
  OBVIOUS
<1>1. /\ socket[1] = Silent("connecting") /\ 1 \in Sockets
      /\ \A s \in Sockets \ {1} : socket[s] = Silent("unused")
  BY Limits DEF Init
<1>2. Live = {1}
  BY <1>1, SilentSays DEF Live
<1>3. Single /\ Own
  BY <1>2 DEF Single, Own, Init, Asking
<1>4. \A s \in Sockets : Agreed(socket[s])
  BY <1>1, SilentAgrees
<1>5. Within
  BY Allowances DEF Init, Within
<1> QED BY <1>3, <1>4, <1>5 DEF CalmInv, Calm

LEMMA CalmAlways == Spec => [](TypeOK /\ CalmInv)
<1>1. Init => TypeOK /\ CalmInv
  BY InitTypes, InitCalm
<1>2. (TypeOK /\ CalmInv) /\ [Next]_vars => (TypeOK /\ CalmInv)'
  BY StepTypes, StepCalm
<1> QED BY <1>1, <1>2, PTL DEF Spec

\* Whatever connections break, upgrades are refused and services restart: as
\* long as the user forces no reconnect there is at most one socket, scheduled
\* reconnect or refresh (onFailure, scheduleReconnect, refreshAndReconnect).
THEOREM ConnectsOnce == Spec => []OneConnection
<1>1. TypeOK /\ CalmInv => OneConnection
  <2> SUFFICES ASSUME TypeOK, Calm PROVE Attempts <= 1
    BY DEF CalmInv, OneConnection
  <2>1. timers \in Nat
    BY DEF TypeOK
  <2>2. CASE Live = {}
    BY <2>1, <2>2, FS_EmptySet DEF Attempts, Calm, Single
  <2>3. CASE Live # {}
    <3>1. PICK s \in Live : TRUE
      BY <2>3
    <3>2. Live = {s}
      BY <3>1 DEF Calm, Single
    <3>3. Cardinality(Live) = 1
      BY <3>2, FS_Singleton
    <3> QED BY <2>3, <3>3 DEF Attempts, Calm, Single
  <2> QED BY <2>2, <2>3
<1> QED BY <1>1, CalmAlways, PTL

\* The session flag speaks of the connection the next batch is sent on, as long
\* as the user forces no reconnect (session.accepted, onFailure, onClosed).
THEOREM SessionBelongs == Spec => []SessionIsOwn
<1>1. TypeOK /\ CalmInv => SessionIsOwn
  BY DEF CalmInv, Calm, Own, SessionIsOwn
<1> QED BY <1>1, CalmAlways, PTL

-----------------------------------------------------------------------------
(***************************************************************************)
(* What is in flight is under way.  While nothing goes wrong the first     *)
(* socket lasts, so a batch that was sent with a session is read with one, *)
(* and the gateway has no answer to it but an ack.                         *)
(***************************************************************************)
Steady ==
  /\ timers = 0 /\ refresh = "no"
  /\ \A t \in Tasks : task[t].step \in {"query", "send"} => sessionAccepted
  /\ \A s \in Sockets : Says(socket[s].up, "batch") => socket[s].session
  /\ inflight # {} => UnderWay

\* The places where what is in flight may be.
Handled == \E t \in Tasks : task[t].step \in {"markAcked", "markFailed", "clear"}

Carried == \E s \in Sockets : Says(socket[s].up, "batch") \/ Says(socket[s].down, "ack")

LEMMA UnderWaySays == (UnderWay <=> Handled \/ Carried) /\ (UnderWay' <=> Handled' \/ Carried')
BY DEF UnderWay, Handled, Carried, Says

LEMMA SaysRest ==
  ASSUME NEW q \in Seq(Message), q # << >>, NEW type, Says(q, type), Head(q).type # type
  PROVE  Says(Tail(q), type)
<1>1. PICK i \in DOMAIN q : q[i].type = type
  BY DEF Says
<1>2. i \in Nat /\ i # 1 /\ i - 1 \in DOMAIN Tail(q) /\ Tail(q)[i - 1] = q[i]
  BY <1>1
<1> QED BY <1>1, <1>2 DEF Says

\* A socket changes and keeps the batches and the acks that are on it.
LEMMA SteadyMoves ==
  ASSUME TypeOK, Steady, NEW s \in Sockets, NEW r \in Socket, Become(s, r),
         Says(r.up, "batch") => r.session,
         \/ Says(socket[s].up, "batch") \/ Says(socket[s].down, "ack")
         => Says(r.up, "batch") \/ Says(r.down, "ack"),
         UNCHANGED <<timers, refresh, inflight, task>>,
         sessionAccepted => sessionAccepted'
  PROVE  Steady'
<1>1. socket'[s] = r /\ \A o \in Sockets \ {s} : socket'[o] = socket[o]
  BY BecomeTypes DEF TypeOK
<1>2. UnderWay => UnderWay'
  <2>1. Handled => Handled'
    BY DEF Handled
  <2>2. Carried => Carried'
    BY <1>1 DEF Carried
  <2> QED BY <2>1, <2>2, UnderWaySays
<1>3. \A o \in Sockets : Says(socket'[o].up, "batch") => socket'[o].session
  BY <1>1 DEF Steady
<1> QED BY <1>2, <1>3 DEF Steady

LEMMA CallbackSteady ==
  ASSUME TypeOK, Calm, Steady, NEW s \in Sockets, Callback(s)
  PROVE  Steady'
<1>0. /\ socket[s] \in Socket /\ socket[s].up \in Seq(Message) /\ socket[s].down \in Seq(Message)
      /\ Agreed(socket[s]) /\ task \in [Tasks -> Task]
  BY DEF TypeOK, Socket, Calm
<1>1. CASE Opened(s)
  <2> DEFINE up == IF \E i \in DOMAIN socket[s].up : socket[s].up[i] = Plain("close")
                   THEN socket[s].up ELSE Append(socket[s].up, Plain("start"))
             r == [socket[s] EXCEPT !.state = "open", !.up = up]
  <2>1. Plain("start") \in Message /\ Plain("start").type = "start"
    BY RecordTypes DEF Plain
  <2>2. up \in Seq(Message) /\ (Says(up, "batch") <=> Says(socket[s].up, "batch"))
    BY <1>0, <2>1, SaysAppend
  <2>3. Become(s, r) /\ UNCHANGED <<timers, refresh, inflight, task, sessionAccepted>>
    BY <1>1 DEF Opened
  <2> HIDE DEF up
  <2>4. r \in Socket /\ r.session = socket[s].session /\ r.up = up /\ r.down = socket[s].down
    BY <1>0, <2>2, OpenedRecord
  <2> HIDE DEF r
  <2>5. Says(r.up, "batch") => r.session
    BY <2>2, <2>4 DEF Steady
  <2> QED BY <2>2, <2>3, <2>4, <2>5, SteadyMoves
<1> DEFINE r == [socket[s] EXCEPT !.down = Tail(@)]
<1>2. ASSUME socket[s].down # << >>
      PROVE  /\ r \in Socket /\ r.session = socket[s].session
             /\ r.up = socket[s].up /\ r.down = Tail(socket[s].down)
  BY <1>0, <1>2, ReceivedRecord
<1>3. CASE SessionAccepted(s) \/ ErrorArrives(s)
  <2>1. /\ Become(s, r) /\ UNCHANGED <<timers, refresh, inflight, task>>
        /\ sessionAccepted => sessionAccepted'
        /\ socket[s].down # << >> /\ Head(socket[s].down).type # "ack"
    BY <1>3 DEF SessionAccepted, ErrorArrives, Receive, Arrives, authVars
  <2> HIDE DEF r
  <2>2. Says(socket[s].down, "ack") => Says(r.down, "ack")
    BY <1>0, <1>2, <2>1, SaysRest
  <2>3. Says(r.up, "batch") => r.session
    BY <1>2, <2>1 DEF Steady
  <2> QED BY <1>2, <2>1, <2>2, <2>3, SteadyMoves
<1>4. CASE AckArrives(s)
  <2>1. /\ Become(s, r) /\ UNCHANGED <<timers, refresh, inflight, sessionAccepted>>
        /\ socket[s].down # << >>
        /\ Launch("markAcked", Head(socket[s].down).ok, Head(socket[s].down).bad)
    BY <1>4 DEF AckArrives, Receive, Arrives, authVars
  <2> HIDE DEF r
  <2>2. PICK u \in Tasks : task' = [task EXCEPT ![u] =
          [step |-> "markAcked", ok |-> Head(socket[s].down).ok, bad |-> Head(socket[s].down).bad]]
    BY <2>1 DEF Launch, Idle
  <2>3. task'[u].step = "markAcked" /\ \A t \in Tasks \ {u} : task'[t] = task[t]
    BY <1>0, <2>2
  <2>4. UnderWay'
    BY <2>3, UnderWaySays DEF Handled
  <2>5. socket'[s] = r /\ \A o \in Sockets \ {s} : socket'[o] = socket[o]
    BY <1>2, <2>1, BecomeTypes DEF TypeOK
  <2>6. \A o \in Sockets : Says(socket'[o].up, "batch") => socket'[o].session
    BY <1>2, <2>1, <2>5 DEF Steady
  <2>7. \A t \in Tasks : task'[t].step \in {"query", "send"} => sessionAccepted'
    BY <2>1, <2>3 DEF Steady
  <2> QED BY <2>1, <2>4, <2>6, <2>7 DEF Steady
<1>5. CASE Closing(s) \/ Closed(s)
  <2>1. FALSE
    BY <1>0, <1>5, SaysTail DEF Closing, Closed, Arrives, Agreed
  <2> QED BY <2>1
<1> QED BY <1>1, <1>3, <1>4, <1>5 DEF Callback

LEMMA GatewaySteady ==
  ASSUME TypeOK, Calm, Steady, NEW s \in Sockets, GatewayStep(s)
  PROVE  Steady'
<1>0. /\ socket[s] \in Socket /\ socket[s].up \in Seq(Message) /\ socket[s].down \in Seq(Message)
      /\ Agreed(socket[s])
  BY DEF TypeOK, Socket, Calm
<1>1. /\ socket[s].up # << >> /\ Says(socket[s].up, Head(socket[s].up).type)
      /\ UNCHANGED <<timers, refresh, inflight, task, sessionAccepted>>
  <2>1. socket[s].up # << >> /\ UNCHANGED <<timers, refresh, inflight, task, sessionAccepted>>
    BY DEF GatewayStep, GatewayStarts, GatewayAcks, GatewayWantsSession, GatewayCloses, Reads,
           GatewayUnchanged, authVars
  <2> QED BY <1>0, <2>1, SaysTail
<1>2. GatewayStarts(s) \/ GatewayAcks(s)
  <2>1. ~GatewayWantsSession(s)
    BY <1>1 DEF GatewayWantsSession, Reads, Steady
  <2>2. ~GatewayCloses(s)
    BY <1>0, <1>1 DEF GatewayCloses, Reads, Agreed
  <2> QED BY <2>1, <2>2 DEF GatewayStep
<1>3. PICK m \in Message :
        /\ Answers(s, TRUE, m)
        /\ Head(socket[s].up).type = "batch" => m.type = "ack"
  <2>1. CASE GatewayStarts(s)
    <3>1. Answers(s, TRUE, Plain("accepted")) /\ Head(socket[s].up).type = "start"
      BY <2>1 DEF GatewayStarts, Reads
    <3>2. Plain("accepted") \in Message
      BY RecordTypes
    <3> QED BY <3>1, <3>2
  <2>2. CASE GatewayAcks(s)
    <3>1. Head(socket[s].up) \in Message
      BY <1>0, <1>1
    <3>2. PICK S \in SUBSET Head(socket[s].up).ok : Answers(s, TRUE, Ack(S, Head(socket[s].up).ok \ S))
      BY <2>2 DEF GatewayAcks
    <3>3. Ack(S, Head(socket[s].up).ok \ S) \in Message /\ Ack(S, Head(socket[s].up).ok \ S).type = "ack"
      BY <3>1 DEF Ack, Message
    <3> QED BY <3>2, <3>3
  <2> QED BY <1>2, <2>1, <2>2
<1> DEFINE r == [socket[s] EXCEPT !.session = TRUE, !.up = Tail(@), !.down = Append(@, m)]
<1>4. Become(s, r)
  BY <1>3 DEF Answers
<1>5. Tail(socket[s].up) \in Seq(Message) /\ Append(socket[s].down, m) \in Seq(Message)
  BY <1>0, <1>1
<1>6. r \in Socket
  BY <1>0, <1>5 DEF Socket
<1>7. r.session = TRUE /\ r.up = Tail(socket[s].up) /\ r.down = Append(socket[s].down, m)
  BY <1>0, <1>5 DEF Socket
<1> HIDE DEF r
<1>8. Says(socket[s].up, "batch") => Says(r.up, "batch") \/ m.type = "ack"
  BY <1>0, <1>1, <1>3, <1>7, SaysRest
<1>9. Says(r.down, "ack") <=> Says(socket[s].down, "ack") \/ m.type = "ack"
  BY <1>0, <1>7, SaysAppend
<1> QED BY <1>1, <1>4, <1>6, <1>7, <1>8, <1>9, SteadyMoves

LEMMA CoroutineSteady ==
  ASSUME TypeOK, Calm, Steady,
         \/ \E t \in Tasks : Coroutine(t)
         \/ TrySend \/ RetryFailed
  PROVE  Steady'
<1>0. task \in [Tasks -> Task] /\ inflight \subseteq Points
  BY DEF TypeOK
<1>1. UNCHANGED <<ws, sessionAccepted, timers, refresh>>
  BY DEF Coroutine, Query, SendBatch, MarkAcked, MarkFailed, ClearInflight, ReturnToPending,
         TrySend, RetryFailed, sessionVars, authVars
<1>2. ASSUME NEW t \in Tasks, UNCHANGED <<socket, inflight>>,
             \A u \in Tasks \ {t} : task'[u] = task[u],
             task'[t].step \in {"query", "send"} => sessionAccepted,
             task[t].step \in {"markAcked", "markFailed", "clear"} /\ inflight # {}
             => task'[t].step \in {"markAcked", "markFailed", "clear"}
      PROVE  Steady'
  <2>1. inflight # {} /\ Handled => Handled'
    BY <1>2 DEF Handled
  <2>2. Carried => Carried'
    BY <1>2 DEF Carried
  <2>3. inflight' # {} => UnderWay'
    BY <1>2, <2>1, <2>2, UnderWaySays DEF Steady
  <2> QED BY <1>1, <1>2, <2>3 DEF Steady
<1>3. ASSUME NEW t \in Tasks, Query(t) \/ MarkAcked(t) \/ MarkFailed(t) \/ ReturnToPending(t)
      PROVE  Steady'
  <2>1. UNCHANGED <<socket, inflight>> /\ \A u \in Tasks \ {t} : task'[u] = task[u]
    BY <1>0, <1>3 DEF Query, MarkAcked, MarkFailed, ReturnToPending, Continue, End, sessionVars
  <2>2. CASE Query(t)
    BY <1>2, <2>1, <2>2 DEF Query, Steady
  <2>3. CASE MarkAcked(t)
    <3>1. task'[t].step = "markFailed"
      BY <1>0, <2>3 DEF MarkAcked, Continue, Task
    <3> QED BY <1>2, <2>1, <3>1
  <2>4. CASE MarkFailed(t)
    <3>1. task'[t].step = "clear"
      BY <1>0, <2>4 DEF MarkFailed, Continue, Task
    <3> QED BY <1>2, <2>1, <3>1
  <2>5. CASE ReturnToPending(t)
    <3>1. task'[t].step = "none" /\ task[t].step = "return"
      BY <1>0, <2>5, RecordTypes DEF ReturnToPending, End
    <3> QED BY <1>2, <2>1, <3>1
  <2> QED BY <1>3, <2>2, <2>3, <2>4, <2>5
<1>4. ASSUME NEW t \in Tasks, SendBatch(t)
      PROVE  Steady'
  <2>0. ws # 0 /\ socket[ws].session /\ ws \in Sockets
    BY <1>4, Limits DEF SendBatch, Steady, Calm, Own, TypeOK
  <2> DEFINE m == Batch(task[t].ok)
             r == [socket[ws] EXCEPT !.up = Append(@, m)]
  <2>1. m \in Message /\ m.type = "batch" /\ socket[ws] \in Socket
    BY <2>0 DEF TypeOK, Task, Batch, Message
  <2>2. Become(ws, r)
    BY <1>4, <2>0 DEF SendBatch, Send, Become
  <2> HIDE DEF m
  <2>3. r \in Socket /\ r.session = socket[ws].session /\ r.up = Append(socket[ws].up, m)
    BY <2>1, SentRecord
  <2> HIDE DEF r
  <2>4. Says(r.up, "batch")
    BY <2>1, <2>3, SaysAppend DEF Socket
  <2>5. socket'[ws] = r /\ \A o \in Sockets \ {ws} : socket'[o] = socket[o]
    BY <2>0, <2>2, <2>3, BecomeTypes DEF TypeOK
  <2>6. UnderWay'
    BY <1>1, <2>0, <2>4, <2>5, UnderWaySays DEF Carried
  <2>7. \A o \in Sockets : Says(socket'[o].up, "batch") => socket'[o].session
    BY <2>0, <2>3, <2>5 DEF Steady
  <2>8. \A u \in Tasks : task'[u] = task[u] \/ task'[u].step = "none"
    BY <1>0, <1>4, <2>0, EndTypes DEF SendBatch
  <2> QED BY <1>1, <2>6, <2>7, <2>8 DEF Steady
<1>5. ASSUME NEW t \in Tasks, ClearInflight(t)
      PROVE  Steady'
  <2>1. inflight' = {} /\ UNCHANGED socket
    BY <1>5 DEF ClearInflight, sessionVars
  <2>2. \A u \in Tasks : task'[u] = task[u] \/ task'[u].step = "none"
    BY <1>0, <1>5, EndTypes DEF ClearInflight
  <2> QED BY <1>1, <2>1, <2>2 DEF Steady
<1>6. CASE TrySend
  <2>1. inflight' = {} /\ UNCHANGED socket /\ sessionAccepted
    BY <1>6 DEF TrySend, sessionVars
  <2> QED BY <1>1, <2>1 DEF Steady
<1>7. CASE RetryFailed
  <2>1. UNCHANGED <<socket, inflight, task>>
    BY <1>7 DEF RetryFailed, sessionVars
  <2> QED BY <1>1, <2>1 DEF Steady, UnderWay
<1> QED BY <1>3, <1>4, <1>5, <1>6, <1>7 DEF Coroutine

LEMMA StepSteady ==
  ASSUME TypeOK, CalmInv, Untroubled => Steady, [Next]_vars
  PROVE  Untroubled' => Steady'
<1>1. Untroubled' => Untroubled /\ ~Trouble /\ Unforced
  BY StepWithin DEF CalmInv, Untroubled
<1> SUFFICES ASSUME Steady, Calm, ~Trouble PROVE Steady'
  BY <1>1 DEF CalmInv
<1>2. CASE UNCHANGED vars
  BY <1>2 DEF Steady, UnderWay, vars, sessionVars, authVars
<1>3. ~ReconnectTimer /\ ~RefreshAsks /\ ~RefreshCapped /\ ~Refreshed /\ ~RefreshEnds
  BY DEF ReconnectTimer, RefreshAsks, RefreshCapped, Refreshed, RefreshEnds, Steady
<1> QED BY <1>2, <1>3, CallbackSteady, GatewaySteady, CoroutineSteady DEF Next, Trouble

\* Whatever is in flight waits for something that is under way, as long as
\* nothing goes wrong: batches, acks and the coroutines that carry acks out may
\* overlap (trySendBatch, sendBatch, handleAck).
THEOREM FlightsAreAnswered == Spec => []InflightIsAnswered
<1> DEFINE I == TypeOK /\ CalmInv /\ (Untroubled => Steady)
<1>1. Init => I
  <2> SUFFICES ASSUME Init PROVE Steady
    BY InitTypes, InitCalm
  <2>1. \A s \in Sockets : socket[s].up = << >>
    BY SilentSays DEF Init
  <2> QED BY <2>1, SilentSays, RecordTypes DEF Init, Steady
<1>2. I /\ [Next]_vars => I'
  BY StepTypes, StepCalm, StepSteady
<1>3. I => InflightIsAnswered
  BY DEF Steady, InflightIsAnswered
<1> QED BY <1>1, <1>2, <1>3, PTL DEF Spec
=============================================================================
