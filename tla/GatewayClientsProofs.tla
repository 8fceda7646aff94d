------------------------- MODULE GatewayClientsProofs -------------------------
(***************************************************************************)
(* For every number of tabs, calls, tasks, sign-ins and faults: whatever   *)
(* the phone, the tabs and the list do, the gateway sees requests          *)
(* TokenRotation knows, so what was proved of it under any clients holds   *)
(* under these.                                                            *)
(*                                                                         *)
(* A client's step is a step of AuthSpec only if it asks with a token that *)
(* was saved and has no other request under way.  The first needs the types *)
(* of every place a pair is kept in; the second, that the app's job says    *)
(* whether the app asks, and that no task of its runs while it signs in.    *)
(*                                                                         *)
(* The last part shows that the tabs ask fairly while nothing fails.       *)
(***************************************************************************)
EXTENDS GatewayClients, GatewayProofs

\* What the app does on the screen of the sign-in.
SigningIn == {"register", "login", "refreshForLogin", "loginAgain"}

\* The app asks while its job says so, and signs in only when no task of its runs.
AskersOK ==
  open = "phone" =>
    /\ IsIdle(App) <=> job.for = "nothing"
    /\ job.for \in SigningIn => screen = "auth" /\ \A t \in Tasks : tasks[t].at = "off"

\* The types of the clients' state while n tokens are saved.
Pairs(n) == [access : 0 .. n, refresh : 0 .. n]

Call(n) == [step : {"new", "sent", "waiting", "done", "failed"}, with : 0 .. n, retried : BOOLEAN]
CallsTyped(n) == [Calls -> Call(n)]

Screens == {"closed", "loading", "auth", "tracking"}
Services == [running : BOOLEAN, expired : BOOLEAN]
JobsTyped == [for : Jobs, saved : 0 .. 2]
TaskSteps == {"off", "read", "decide", "adopt", "next", "check", "begin", "gather", "hand"}
Task(n) == [at : TaskSteps, pair : Pairs(n), renews : BOOLEAN]
TasksTyped(n) == [Tasks -> Task(n)]

\* PhoneTypeOK, with a bound of its own for the tokens.
PhoneTyped(n) ==
  /\ js \in Pairs(n) /\ native \in Pairs(n)
  /\ service \in Services
  /\ screen \in Screens
  /\ tasks \in TasksTyped(n)
  /\ job \in JobsTyped
  /\ overlaps \in Nat /\ excused \in BOOLEAN
\* The inductive invariant: the gateway's, the types, and who asks.
CInv == IInv /\ WebTypeOK /\ PhoneTypeOK /\ AskersOK

-----------------------------------------------------------------------------
(* A client's step is a step of the authentication.                         *)

\* A token that is kept was saved.
LEMMA KeptWasSaved ==
  ASSUME IInv, NEW i \in 0 .. Len(tokens), i # 0
  PROVE  i \in DOMAIN tokens
<1>1. tokens \in Seq(Token)
  BY DEF IInv, Typed
<1> QED BY <1>1

\* A flow with no request under way asks to have such a token refreshed.
LEMMA RefreshIsAsked ==
  ASSUME IInv, NEW f \in Flows \ {Ghost}, NEW i \in 0 .. Len(tokens), i # 0,
         exchange[f].step \notin UnderWay,
         AskRefresh(f, i), UNCHANGED <<now, registered, tokens, faults>>
  PROVE  AuthNext
<1>1. i \in DOMAIN tokens
  BY KeptWasSaved
<1>2. Ask(f)
  BY <1>1 DEF Ask
<1> QED BY <1>2 DEF AuthNext

\* Who is idle, or has an answer, has no request under way.
LEMMA NotUnderWay ==
  ASSUME NEW f, IsIdle(f) \/ Answered(f) \/ NotAnswered(f)
  PROVE  exchange[f].step \notin UnderWay
BY DEF IsIdle, Answered, NotAnswered, UnderWay
LEMMA AnswerIsHeard ==
  ASSUME NEW f \in Flows \ {Ghost}, Answered(f) \/ NotAnswered(f), Heard(f),
         UNCHANGED <<now, registered, tokens, faults>>
  PROVE  AuthNext
<1>1. Hear(f)
  BY DEF Hear, Answered, NotAnswered
<1> QED BY <1>1 DEF AuthNext

LEMMA TabsRefine ==
  ASSUME CInv, TabsStep
  PROVE  [AuthNext]_authVars
<1>1. ASSUME NEW c \in Calls, Send(c) \/ Serve(c) PROVE UNCHANGED authVars
  BY <1>1 DEF Send, Serve
<1>2. ASSUME NEW c \in Calls, Deny(c) PROVE [AuthNext]_authVars
  <2>1. TabOf[c] \in Flows \ {Ghost}
    BY WebAssumption
  <2>2. CASE UNCHANGED exchange
    BY <1>2, <2>2 DEF Deny, authVars
  <2>3. CASE ~UNCHANGED exchange
    <3>1. /\ IsIdle(TabOf[c]) /\ store.refresh # 0 /\ AskRefresh(TabOf[c], store.refresh)
          /\ UNCHANGED <<now, registered, tokens, faults>>
      BY <1>2, <2>3 DEF Deny, RefreshOrWait
    <3>2. store.refresh \in 0 .. Len(tokens)
      BY DEF CInv, WebTypeOK
    <3>3. IInv
      BY DEF CInv
    <3> QED BY <2>1, <3>1, <3>2, <3>3, RefreshIsAsked, NotUnderWay
  <2> QED BY <2>2, <2>3
<1>3. ASSUME NEW tab \in Tabs, Refreshed(tab) \/ RefreshFails(tab) PROVE AuthNext
  <2>1. tab \in Flows \ {Ghost}
    BY WebAssumption
  <2>2. /\ Answered(tab) \/ NotAnswered(tab)
        /\ Heard(tab) /\ UNCHANGED <<now, registered, tokens, faults>>
    BY <1>3 DEF Refreshed, RefreshFails
  <2> QED BY <2>1, <2>2, AnswerIsHeard
<1>4. CASE GatewayNext \/ Tick
  BY <1>4 DEF AuthNext
<1> QED BY <1>1, <1>2, <1>3, <1>4 DEF TabsStep, WebNext

\* The app asks for a refresh only while it has nothing under way.
LEMMA RefreshOnceRefines ==
  ASSUME CInv, open = "phone", job.for \notin SigningIn, CanRefresh,
         RefreshOnce, UNCHANGED <<now, registered, tokens, faults>>
  PROVE  [AuthNext]_authVars
<1>1. CASE Refreshing
  BY <1>1 DEF RefreshOnce, authVars
<1>2. CASE ~Refreshing
  <2>1. job.for = "nothing"
    BY <1>2 DEF CInv, PhoneTypeOK, Jobs, SigningIn, Refreshing
  <2>2. IsIdle(App) /\ js.refresh # 0 /\ AskRefresh(App, js.refresh)
    BY <1>2, <2>1 DEF CInv, AskersOK, RefreshOnce, AsksRefresh, CanRefresh
  <2>3. js.refresh \in 0 .. Len(tokens) /\ App \in Flows \ {Ghost} /\ IInv
    BY PhoneAssumption DEF CInv, PhoneTypeOK
  <2> QED BY <2>2, <2>3, RefreshIsAsked, NotUnderWay
<1> QED BY <1>1, <1>2

LEMMA BeginRefines ==
  ASSUME CInv, open = "phone", NEW t \in Tasks, Begin(t)
  PROVE  [AuthNext]_authVars
<1>1. job.for \notin SigningIn
  BY DEF CInv, AskersOK, Begin
<1>2. CASE UNCHANGED exchange
  BY <1>2 DEF Begin, authVars
<1>3. CASE ~UNCHANGED exchange
  <2>1. CanRefresh /\ RefreshOnce /\ UNCHANGED <<now, registered, tokens, faults>>
    BY <1>3 DEF Begin
  <2> QED BY <1>1, <2>1, RefreshOnceRefines
<1> QED BY <1>2, <1>3

LEMMA PhoneRefines ==
  ASSUME CInv, PhoneStep
  PROVE  [AuthNext]_authVars
<1>0. open = "phone" /\ {App, Service} \subseteq Flows \ {Ghost} /\ IInv
  BY PhoneAssumption DEF PhoneStep, CInv
<1>1. CASE AppOpens \/ Remounts \/ SaveAccess \/ SaveRefresh \/ UserDisables \/ UserReconnects
  BY <1>1 DEF AppOpens, Remounts, SaveAccess, SaveRefresh, UserDisables, UserReconnects
<1>2. ASSUME NEW t \in Tasks, ReadNative(t) \/ Reconcile(t) \/ Adopt(t) \/ AfterSync(t) \/ HandOver(t)
      PROVE  UNCHANGED authVars
  BY <1>2 DEF ReadNative, Reconcile, Adopt, AfterSync, HandOver
<1>3. ASSUME NEW t \in Tasks, Begin(t) PROVE [AuthNext]_authVars
  BY <1>0, <1>3, BeginRefines
<1>4. CASE AppCloses
  BY <1>0, <1>4 DEF AppCloses, AuthNext
<1>5. CASE UserEnables
  <2>1. job.for \notin SigningIn
    BY <1>0, <1>5 DEF UserEnables, CInv, AskersOK
  <2>2. CASE UNCHANGED exchange
    BY <1>5, <2>2 DEF UserEnables, authVars
  <2>3. CASE ~UNCHANGED exchange
    BY <1>0, <1>5, <2>1, <2>3, RefreshOnceRefines DEF UserEnables
  <2> QED BY <2>2, <2>3
<1>6. CASE UserSignsIn
  <2>1. IsIdle(App)
    BY <1>0, <1>6 DEF UserSignsIn, NoJob, CInv, AskersOK
  <2>2. Ask(App)
    BY <1>6, <2>1, NotUnderWay DEF UserSignsIn, Ask
  <2> QED BY <1>0, <2>2 DEF AuthNext
<1>7. CASE RefreshDone
  <2>1. Answered(App) /\ UNCHANGED <<now, registered, tokens, faults>>
    BY <1>7 DEF RefreshDone
  <2>2. CASE Heard(App)
    BY <1>0, <2>1, <2>2, AnswerIsHeard
  <2>3. CASE AskLogin(App)
    <3>1. Ask(App)
      BY <2>1, <2>3, NotUnderWay DEF Ask, AskSignIn
    <3> QED BY <1>0, <3>1 DEF AuthNext
  <2> QED BY <1>7, <2>2, <2>3 DEF RefreshDone
<1>8. CASE SignedIn \/ RequestFails
  BY <1>0, <1>8, AnswerIsHeard DEF SignedIn, RequestFails
<1>9. CASE LoginRefused
  <2>1. NotAnswered(App) /\ js.refresh # 0 /\ AskRefresh(App, js.refresh)
        /\ UNCHANGED <<now, registered, tokens, faults>>
    BY <1>9 DEF LoginRefused, RetriesLogin, AsksRefresh, NotAnswered
  <2>2. js.refresh \in 0 .. Len(tokens)
    BY DEF CInv, PhoneTypeOK
  <2> QED BY <1>0, <2>1, <2>2, RefreshIsAsked, NotUnderWay
<1>10. CASE ServiceRefreshed \/ ServiceRefused
  BY <1>0, <1>10, AnswerIsHeard DEF ServiceRefreshed, ServiceRefused
<1>11. CASE ServiceRefreshes
  <2>1. CASE native.refresh = 0
    BY <1>11, <2>1 DEF ServiceRefreshes, authVars
  <2>2. CASE native.refresh # 0
    <3>1. IsIdle(Service) /\ AskRefresh(Service, native.refresh)
          /\ UNCHANGED <<now, registered, tokens, faults>>
      BY <1>11, <2>2 DEF ServiceRefreshes
    <3>2. native.refresh \in 0 .. Len(tokens)
      BY DEF CInv, PhoneTypeOK
    <3> QED BY <1>0, <2>2, <3>1, <3>2, RefreshIsAsked, NotUnderWay
  <2> QED BY <2>1, <2>2
<1>12. CASE PhoneGateway \/ PhoneTick
  BY <1>12 DEF PhoneGateway, PhoneTick, AuthNext
<1> QED BY <1>1, <1>2, <1>3, <1>4, <1>5, <1>6, <1>7, <1>8, <1>9, <1>10, <1>11, <1>12
        DEF PhoneStep, PhoneNext
LEMMA StepsRefine ==
  ASSUME CInv, [Next]_vars
  PROVE  [AuthNext]_authVars
<1>1. CASE ListStep \/ UNCHANGED vars
  BY <1>1 DEF ListStep, vars
<1> QED BY <1>1, TabsRefine, PhoneRefines DEF Next

-----------------------------------------------------------------------------
(* Who asks.                                                                *)

\* The handlers neither start nor end the request of a client.
LEMMA HandlersKeepAskers ==
  ASSUME IInv, GatewayNext, NEW f \in Flows \ {Ghost}
  PROVE  (exchange'[f].step = "idle") <=> (exchange[f].step = "idle")
<1>0. exchange \in [Flows -> Exchange] /\ Ghost \in Flows
  BY TokenAssumption DEF IInv, Typed
<1>1. ASSUME NEW g \in Flows, Handle(g) \/ StatementFails(g)
      PROVE  \E e \in Exchange :
               /\ exchange' = [exchange EXCEPT ![g] = e] /\ exchange[g].step # "idle"
               /\ g # Ghost => e.step # "idle"
  <2>1. ASSUME NEW step \in Steps, step # "idle", Reaches(g, step), exchange[g].step # "idle"
        PROVE  \E e \in Exchange :
               /\ exchange' = [exchange EXCEPT ![g] = e] /\ exchange[g].step # "idle"
               /\ g # Ghost => e.step # "idle"
    <3>1. /\ At(g, step) \in Exchange /\ At(g, step).step # "idle"
          /\ exchange' = [exchange EXCEPT ![g] = At(g, step)]
      BY <2>1, AtFits DEF Reaches
    <3> QED BY <2>1, <3>1
  <2>2. CASE CreateUser(g) \/ FindUser(g) \/ RevokeToken(g) \/ StatementFails(g)
    <3>1. PICK step \in {"save", "refused"} : Reaches(g, step) /\ exchange[g].step # "idle"
      BY <2>2 DEF CreateUser, FindUser, RevokeToken, StatementFails, UnderWay
    <3> QED BY <3>1, <2>1 DEF Steps
  <2>3. CASE FindToken(g)
    <3> DEFINE e(a) == [step |-> IF a THEN "revoke" ELSE "refused",
                        token |-> exchange[g].token, seen |-> Len(tokens)]
    <3>1. /\ exchange' = [exchange EXCEPT ![g] = e(RefreshValid(exchange[g].token))]
          /\ exchange[g].step # "idle"
      BY <2>3 DEF FindToken, Looked
    <3>2. \A a : e(a) \in Exchange /\ e(a).step # "idle"
      BY <1>0 DEF Exchange, Steps, IInv, Typed
    <3> QED BY <3>1, <3>2
  <2>4. CASE SaveToken(g)
    <3>1. NoExchange \in Exchange
      BY DEF NoExchange, Exchange, Steps
    <3>2. [step |-> "answered", token |-> Len(tokens) + 1, seen |-> 0] \in Exchange
      BY DEF Exchange, Steps, IInv, Typed
    <3> QED BY <2>4, <3>1, <3>2 DEF SaveToken
  <2> QED BY <1>1, <2>2, <2>3, <2>4 DEF Handle
<1>2. ASSUME NEW g \in Flows, Handle(g) \/ StatementFails(g)
      PROVE  (exchange'[f].step = "idle") <=> (exchange[f].step = "idle")
  BY <1>0, <1>1, <1>2
<1>3. ASSUME NEW g \in Flows, ExchangeBreaks(g)
      PROVE  (exchange'[f].step = "idle") <=> (exchange[f].step = "idle")
  BY <1>3 DEF ExchangeBreaks, Parted, UnderWay
<1>4. CASE GhostEnds
  BY <1>0, <1>4 DEF GhostEnds
<1> QED BY <1>2, <1>3, <1>4 DEF GatewayNext

LEMMA AskersFit ==
  ASSUME CInv, PhoneStep
  PROVE  AskersOK'
<1>0. /\ open = "phone" /\ open' = "phone" /\ App \in Flows /\ Service \in Flows
      /\ App # Service /\ App # Ghost /\ Service # Ghost
      /\ exchange \in [Flows -> Exchange] /\ IInv
      /\ job \in JobsTyped
      /\ exchange[App].step = "idle" <=> job.for = "nothing"
      /\ job.for \in SigningIn => screen = "auth" /\ \A t \in Tasks : tasks[t].at = "off"
  BY PhoneAssumption DEF PhoneStep, CInv, IInv, Typed, PhoneTypeOK, AskersOK, IsIdle, JobsTyped
<1> SUFFICES /\ exchange'[App].step = "idle" <=> job'.for = "nothing"
             /\ job'.for \in SigningIn => screen' = "auth" /\ \A t \in Tasks : tasks'[t].at = "off"
  BY DEF AskersOK, IsIdle
<1>1. ASSUME job'.for = job.for, exchange' = exchange, job.for \notin SigningIn
      PROVE  /\ exchange'[App].step = "idle" <=> job'.for = "nothing"
             /\ job'.for \in SigningIn => screen' = "auth" /\ \A t \in Tasks : tasks'[t].at = "off"
  BY <1>0, <1>1
<1>2. CASE AppOpens \/ Remounts
  <2>1. job' = job /\ exchange' = exchange /\ screen # "auth"
    BY <1>2 DEF AppOpens, Remounts, authVars
  <2> QED BY <1>0, <1>1, <2>1
<1>3. ASSUME NEW t \in Tasks, ReadNative(t) \/ Reconcile(t) \/ Adopt(t) \/ AfterSync(t) \/ HandOver(t)
      PROVE  /\ exchange'[App].step = "idle" <=> job'.for = "nothing"
             /\ job'.for \in SigningIn => screen' = "auth" /\ \A u \in Tasks : tasks'[u].at = "off"
  <2>1. job' = job /\ exchange' = exchange /\ tasks[t].at # "off"
    BY <1>3 DEF ReadNative, Reconcile, Adopt, AfterSync, HandOver, authVars
  <2> QED BY <1>0, <1>1, <2>1
<1>4. CASE SaveAccess \/ SaveRefresh
  <2>1. job'.for = job.for /\ UNCHANGED <<exchange, screen, tasks>>
    BY <1>0, <1>4 DEF SaveAccess, SaveRefresh, JobsTyped, authVars
  <2> QED BY <1>0, <2>1
<1>5. CASE AppCloses
  BY <1>0, <1>5 DEF AppCloses, HangUp, Parted, NoExchange, NoJob, SigningIn
<1>6. CASE UserDisables \/ UserReconnects
  BY <1>0, <1>6 DEF authVars, UserDisables, UserReconnects
<1>7. ASSUME RefreshOnce, job.for \notin SigningIn
      PROVE  job'.for = "refresh" /\ exchange'[App].step # "idle"
  <2>1. CASE Refreshing
    BY <1>0, <1>7, <2>1 DEF RefreshOnce, Refreshing, SigningIn
  <2>2. CASE ~Refreshing
    <3>1. job' = [for |-> "refresh", saved |-> 0] /\ AskRefresh(App, js.refresh)
      BY <1>7, <2>2 DEF RefreshOnce, AsksRefresh
    <3>2. exchange'[App].step = "find"
      BY <1>0, <3>1 DEF AskRefresh
    <3> QED BY <3>1, <3>2
  <2> QED BY <2>1, <2>2
<1>8. ASSUME NEW t \in Tasks, Begin(t)
      PROVE  /\ exchange'[App].step = "idle" <=> job'.for = "nothing"
             /\ job'.for \in SigningIn => screen' = "auth" /\ \A u \in Tasks : tasks'[u].at = "off"
  <2>1. job.for \notin SigningIn
    BY <1>0, <1>8 DEF Begin
  <2>2. RefreshOnce \/ UNCHANGED <<job, exchange>>
    BY <1>8 DEF Begin
  <2>3. "refresh" \notin SigningIn
    BY DEF SigningIn
  <2> QED BY <1>0, <1>7, <2>1, <2>2, <2>3
<1>9. CASE UserEnables
  <2>1. job.for \notin SigningIn
    BY <1>0, <1>9 DEF UserEnables
  <2>2. RefreshOnce \/ UNCHANGED <<job, exchange>>
    BY <1>9 DEF UserEnables
  <2>3. "refresh" \notin SigningIn
    BY DEF SigningIn
  <2> QED BY <1>0, <1>7, <2>1, <2>2, <2>3
<1>10. CASE UserSignsIn
  <2>1. screen' = "auth" /\ tasks' = tasks /\ \A t \in Tasks : tasks[t].at = "off"
    BY <1>10 DEF UserSignsIn, Idle
  <2>2. PICK way \in {"register", "login"} :
          exchange' = [exchange EXCEPT ![App] = [step |-> way, token |-> 0, seen |-> 0]]
    BY <1>10 DEF UserSignsIn, AskSignIn, AskLogin, AskAccount
  <2>3. exchange'[App].step = way /\ job'.for = way
    BY <1>0, <1>10, <2>2 DEF UserSignsIn
  <2> QED BY <2>1, <2>3
<1>11. ASSUME Heard(App) PROVE exchange'[App].step = "idle"
  BY <1>0, <1>11 DEF Heard, NoExchange
<1>12. CASE RefreshDone
  <2>1. CASE job' = NoJob /\ Heard(App)
    BY <1>11, <2>1 DEF NoJob, SigningIn
  <2>2. CASE job.for = "refreshForLogin" /\ job' = [for |-> "loginAgain", saved |-> 0] /\ AskLogin(App)
    <3>1. exchange'[App].step = "login"
      BY <1>0, <2>2 DEF AskLogin, AskAccount
    <3>2. screen = "auth" /\ \A t \in Tasks : tasks[t].at = "off"
      BY <1>0, <2>2 DEF SigningIn
    <3>3. screen' = screen /\ \A t \in Tasks : tasks'[t].at = "off"
      BY <1>12, <3>2 DEF RefreshDone, Given
    <3> QED BY <2>2, <3>1, <3>2, <3>3
  <2> QED BY <1>12, <2>1, <2>2 DEF RefreshDone
<1>13. CASE SignedIn \/ RequestFails
  BY <1>11, <1>13 DEF SignedIn, RequestFails, NoJob, SigningIn
<1>14. CASE LoginRefused
  <2>1. /\ job.for = "login" /\ job' = [for |-> "refreshForLogin", saved |-> 0]
        /\ AskRefresh(App, js.refresh) /\ UNCHANGED <<screen, tasks>>
    BY <1>14 DEF LoginRefused, RetriesLogin, AsksRefresh
  <2>2. exchange'[App].step = "find"
    BY <1>0, <2>1 DEF AskRefresh
  <2> QED BY <1>0, <2>1, <2>2 DEF SigningIn
<1>15. CASE ServiceRefreshes \/ ServiceRefreshed \/ ServiceRefused
  <2>1. exchange'[App] = exchange[App]
    BY <1>0, <1>15 DEF ServiceRefreshes, ServiceRefreshed, ServiceRefused, AskRefresh, Heard
  <2>2. UNCHANGED <<job, screen, tasks>>
    BY <1>15 DEF ServiceRefreshes, ServiceRefreshed, ServiceRefused
  <2> QED BY <1>0, <2>1, <2>2
<1>16. CASE PhoneGateway
  <2>1. GatewayNext /\ UNCHANGED <<screen, tasks, job>>
    BY <1>16 DEF PhoneGateway
  <2> QED BY <1>0, <2>1, HandlersKeepAskers
<1>17. CASE PhoneTick
  BY <1>0, <1>17 DEF PhoneTick, Tick
<1> QED BY <1>2, <1>3, <1>4, <1>5, <1>6, <1>8, <1>9, <1>10, <1>12, <1>13, <1>14, <1>15, <1>16, <1>17
        DEF PhoneStep, PhoneNext
-----------------------------------------------------------------------------
(* What is kept was saved.                                                  *)

\* Saved tokens are not lost.
LEMMA TokensAreKept ==
  ASSUME IInv, [AuthNext]_authVars
  PROVE  Len(tokens) \in Nat /\ Len(tokens') \in Nat /\ Len(tokens) <= Len(tokens')
<1>0. tokens \in Seq(Token) /\ tokens' \in Seq(Token)
  BY NextFits DEF IInv, Typed
<1>1. \/ tokens' = tokens
      \/ \E i : tokens' = Revoked(i)
      \/ \E f \in Flows : tokens' = Append(tokens, NewToken(f))
  BY DEF AuthNext, GatewayNext, Handle, CreateUser, FindUser, FindToken, RevokeToken, SaveToken,
         StatementFails, ExchangeBreaks, GhostEnds, Tick, Ask, Hear, HangUp, authVars
<1>2. \A i : Len(Revoked(i)) = Len(tokens)
  BY <1>0 DEF Revoked
<1>3. \A r : Len(Append(tokens, r)) = Len(tokens) + 1
  BY <1>0
<1> QED BY <1>0, <1>1, <1>2, <1>3

\* The pair of an answer was saved.
LEMMA AnswerWasSaved ==
  ASSUME IInv, NEW f \in Flows, Answered(f)
  PROVE  PairOf(f) \in 0 .. Len(tokens)
<1>1. FlowOK(exchange[f], tokens) /\ tokens \in Seq(Token)
  BY DEF IInv, Typed
<1> QED BY <1>1 DEF FlowOK, Answered, PairOf

LEMMA PairsGrow ==
  ASSUME NEW n \in Nat, NEW m \in Nat, n <= m
  PROVE  Pairs(n) \subseteq Pairs(m) /\ CallsTyped(n) \subseteq CallsTyped(m)
<1>1. 0 .. n \subseteq 0 .. m
  OBVIOUS
<1>2. Pairs(n) \subseteq Pairs(m)
  BY <1>1, Zenon DEF Pairs
<1>3. CallsTyped(n) \subseteq CallsTyped(m)
  BY <1>1 DEF CallsTyped, Call
<1> QED BY <1>2, <1>3

\* A call that goes on.
LEMMA CallsFit ==
  ASSUME NEW n \in Nat, calls \in CallsTyped(n), NEW c \in Calls,
         \/ \E i \in 0 .. n : calls' = [calls EXCEPT ![c].step = "sent", ![c].with = i]
         \/ calls' = [calls EXCEPT ![c].step = "done"]
         \/ Waits(c) \/ Fails(c)
  PROVE  calls' \in CallsTyped(n)
  BY DEF CallsTyped, Call, Waits, Fails

LEMMA WebTypesFit ==
  ASSUME CInv, [Next]_vars
  PROVE  WebTypeOK'
<1> DEFINE n == Len(tokens)
           m == Len(tokens')
<1>0. IInv /\ store \in Pairs(n) /\ calls \in CallsTyped(n)
  BY DEF CInv, WebTypeOK, Pairs, CallsTyped, Call
<1>1. n \in Nat /\ m \in Nat /\ n <= m
  BY <1>0, StepsRefine, TokensAreKept
<1> HIDE DEF n, m
<1>2. store \in Pairs(m) /\ calls \in CallsTyped(m) /\ 0 .. n \subseteq 0 .. m
  BY <1>0, <1>1, PairsGrow
<1> SUFFICES store' \in Pairs(m) /\ calls' \in CallsTyped(m)
  BY DEF m, WebTypeOK, Pairs, CallsTyped, Call
<1>3. NoPair \in Pairs(m) /\ \A i \in 0 .. n : Pair(i) \in Pairs(m)
  BY <1>1 DEF NoPair, Pair, Pairs
<1>4. ASSUME NEW c \in Calls, Send(c) \/ Serve(c)
      PROVE  store' \in Pairs(m) /\ calls' \in CallsTyped(m)
  <2>1. store' = store /\ store.access \in 0 .. m
    BY <1>2, <1>4 DEF Send, Serve, Pairs
  <2>2. \/ calls' = [calls EXCEPT ![c].step = "sent", ![c].with = store.access]
        \/ calls' = [calls EXCEPT ![c].step = "done"]
    BY <1>4 DEF Send, Serve
  <2> QED BY <1>1, <1>2, <2>1, <2>2, CallsFit
<1>5. ASSUME NEW c \in Calls, Deny(c)
      PROVE  store' \in Pairs(m) /\ calls' \in CallsTyped(m)
  <2>1. (store' = store \/ store' = NoPair) /\ (Waits(c) \/ Fails(c))
    BY <1>5 DEF Deny, RefreshOrWait
  <2> QED BY <1>1, <1>2, <1>3, <2>1, CallsFit
<1>6. ASSUME NEW tab \in Tabs, Refreshed(tab)
      PROVE  store' \in Pairs(m) /\ calls' \in CallsTyped(m)
  <2>1. PairOf(tab) \in 0 .. n
    BY <1>0, <1>6, AnswerWasSaved, WebAssumption DEF Refreshed, n
  <2>2. store' \in Pairs(m)
    BY <1>3, <1>6, <2>1 DEF Refreshed
  <2>3. calls' \in CallsTyped(m)
    <3>1. [step |-> "sent", with |-> PairOf(tab), retried |-> TRUE] \in Call(m)
      BY <1>2, <2>1 DEF Call
    <3> QED BY <1>2, <1>6, <3>1 DEF Refreshed, CallsTyped, Call
  <2> QED BY <2>2, <2>3
<1>7. ASSUME NEW tab \in Tabs, RefreshFails(tab)
      PROVE  store' \in Pairs(m) /\ calls' \in CallsTyped(m)
  <2>1. calls' \in CallsTyped(m)
    BY <1>2, <1>7 DEF RefreshFails, CallsTyped, Call
  <2> QED BY <1>3, <1>7, <2>1 DEF RefreshFails
<1>8. CASE UNCHANGED webVars
  BY <1>2, <1>8 DEF webVars
<1>9. CASE TabsStep
  BY <1>4, <1>5, <1>6, <1>7, <1>8, <1>9 DEF TabsStep, WebNext
<1> QED BY <1>8, <1>9 DEF Next, PhoneStep, ListStep, vars

\* A task at a first step, whatever the tokens, and what a task goes on with.
LEMMA TasksFit ==
  ASSUME NEW n \in Nat
  PROVE  /\ NoTokens \in Pairs(n) /\ NoJob \in JobsTyped
         /\ \A at \in TaskSteps : Start(at) \in Task(n)
         /\ \A at \in TaskSteps : \A r \in BOOLEAN : [Start(at) EXCEPT !.renews = r] \in Task(n)
         /\ \A at \in TaskSteps : \A p \in Pairs(n) : [Start(at) EXCEPT !.pair = p] \in Task(n)
         /\ Off \in Task(n)
<1>1. NoTokens \in Pairs(n)
  BY DEF NoTokens, Pairs
<1>2. NoJob \in JobsTyped
  BY DEF NoJob, JobsTyped, Jobs
<1>3. \A at \in TaskSteps : Start(at) \in Task(n)
  BY <1>1 DEF Start, Task
<1>4. \A at \in TaskSteps : \A r \in BOOLEAN : [Start(at) EXCEPT !.renews = r] \in Task(n)
  BY <1>1 DEF Start, Task
<1>5. \A at \in TaskSteps : \A p \in Pairs(n) : [Start(at) EXCEPT !.pair = p] \in Task(n)
  BY <1>1 DEF Start, Task
<1>6. Off \in Task(n)
  BY <1>3 DEF Off, TaskSteps
<1> QED BY <1>1, <1>2, <1>3, <1>4, <1>5, <1>6

LEMMA TaskFits ==
  ASSUME NEW n \in Nat, NEW task \in Task(n), NEW at \in TaskSteps, NEW pair \in Pairs(n)
  PROVE  /\ [task EXCEPT !.at = at] \in Task(n)
         /\ [task EXCEPT !.at = at, !.pair = pair] \in Task(n)
         /\ task.pair \in Pairs(n)
BY DEF Task

\* A pair of which one token is replaced.
LEMMA PairsFit ==
  ASSUME NEW n \in Nat, NEW pair \in Pairs(n), NEW i \in 0 .. n
  PROVE  /\ [pair EXCEPT !.access = i] \in Pairs(n) /\ [pair EXCEPT !.refresh = i] \in Pairs(n)
         /\ Both(i) \in Pairs(n) /\ pair.access \in 0 .. n /\ pair.refresh \in 0 .. n
BY DEF Pairs, Both

LEMMA GivenFits ==
  ASSUME NEW n \in Nat, NEW i \in 0 .. n, NEW task \in Task(n)
  PROVE  Given(task, i) \in Task(n)
<1>1. [task EXCEPT !.at = "hand", !.pair.access = i] \in Task(n)
  BY DEF Task, TaskSteps, Pairs
<1>2. Start("begin") \in Task(n)
  BY TasksFit DEF TaskSteps
<1> QED BY <1>1, <1>2 DEF Given

\* The task that goes on is one of its type; the others stay.
LEMMA GoesFits ==
  ASSUME NEW n \in Nat, tasks \in TasksTyped(n), NEW t, NEW to \in Task(n), Goes(t, to)
  PROVE  tasks' \in TasksTyped(n)
BY DEF Goes, TasksTyped

\* The overlaps are counted.
LEMMA OverlapsFit ==
  ASSUME overlaps \in Nat, excused \in BOOLEAN, Overlaps
  PROVE  overlaps' \in Nat /\ excused' \in BOOLEAN
BY DEF Overlaps

\* The steps of reconciliations, which leave the tokens as they are.
LEMMA SyncStepsFit ==
  ASSUME NEW n \in Nat, PhoneTyped(n),
         AppOpens \/ Remounts
           \/ \E t \in Tasks : ReadNative(t) \/ Reconcile(t) \/ Adopt(t) \/ AfterSync(t)
  PROVE  PhoneTyped(n)'
<1>0. /\ js \in Pairs(n) /\ native \in Pairs(n) /\ tasks \in TasksTyped(n)
      /\ overlaps \in Nat /\ excused \in BOOLEAN /\ screen \in Screens
      /\ Start("read") \in Task(n) /\ Start("next") \in Task(n) /\ Off \in Task(n)
  BY TasksFit DEF PhoneTyped, TaskSteps
<1>1. CASE AppOpens \/ Remounts
  <2>1. tasks' \in TasksTyped(n)
    BY <1>0, <1>1, GoesFits DEF AppOpens, Remounts
  <2>2. overlaps' \in Nat /\ excused' \in BOOLEAN
    BY <1>0, <1>1, OverlapsFit DEF AppOpens, Remounts
  <2> QED BY <1>1, <2>1, <2>2 DEF AppOpens, Remounts, PhoneTyped, Screens
<1>2. ASSUME NEW t \in Tasks, ReadNative(t) \/ Reconcile(t) \/ Adopt(t) \/ AfterSync(t)
      PROVE  PhoneTyped(n)'
  <2>0. tasks[t] \in Task(n) /\ tasks[t].pair \in Pairs(n) /\ tasks[t].pair.access \in 0 .. n
        /\ tasks[t].pair.refresh \in 0 .. n
    BY <1>0, PairsFit DEF TasksTyped, Task, Pairs
  <2>1. CASE ReadNative(t)
    <3>1. [Start("decide") EXCEPT !.pair = native] \in Task(n)
      BY <1>0, TasksFit DEF TaskSteps
    <3>2. tasks' \in TasksTyped(n)
      BY <1>0, <2>1, <3>1, GoesFits DEF ReadNative
    <3> QED BY <2>1, <3>2 DEF ReadNative, PhoneTyped
  <2>2. CASE Reconcile(t)
    <3>1. [tasks[t] EXCEPT !.at = "adopt"] \in Task(n)
      BY <1>0, <2>0, TaskFits DEF TaskSteps
    <3>2. PICK to \in Task(n) : Goes(t, to)
      BY <1>0, <2>2, <3>1 DEF Reconcile
    <3>3. tasks' \in TasksTyped(n)
      BY <1>0, <3>2, GoesFits
    <3>4. js' \in Pairs(n)
      BY <1>0, <2>0, <2>2, PairsFit DEF Reconcile
    <3>5. native' \in Pairs(n)
      BY <1>0, <2>2 DEF Reconcile
    <3> QED BY <2>2, <3>3, <3>4, <3>5 DEF Reconcile, PhoneTyped
  <2>3. CASE Adopt(t)
    <3>1. tasks' \in TasksTyped(n)
      BY <1>0, <2>3, GoesFits DEF Adopt
    <3>2. js' \in Pairs(n)
      BY <1>0, <2>0, <2>3, PairsFit DEF Adopt
    <3> QED BY <2>3, <3>1, <3>2 DEF Adopt, PhoneTyped
  <2>4. CASE AfterSync(t)
    <3>1. service.running \in BOOLEAN
      BY DEF PhoneTyped, Services
    <3>2. [Start("begin") EXCEPT !.renews = service.running] \in Task(n)
      BY <3>1, TasksFit DEF TaskSteps
    <3>3. tasks' \in TasksTyped(n)
      BY <1>0, <2>4, <3>2, GoesFits DEF AfterSync
    <3>4. screen' \in Screens
      BY <1>0, <2>4 DEF AfterSync, Screens
    <3> QED BY <2>4, <3>3, <3>4 DEF AfterSync, PhoneTyped
  <2> QED BY <1>2, <2>1, <2>2, <2>3, <2>4
<1> QED BY <1>1, <1>2

\* A sign-in is asked for by its way.
LEMMA SignInTyped ==
  ASSUME NEW n \in Nat, PhoneTyped(n), UserSignsIn, exchange \in [Flows -> Exchange]
  PROVE  PhoneTyped(n)'
<1>1. PICK way \in {"register", "login"} :
        exchange' = [exchange EXCEPT ![App] = [step |-> way, token |-> 0, seen |-> 0]]
  BY DEF UserSignsIn, AskSignIn, AskLogin, AskAccount
<1>2. exchange'[App].step = way
  BY <1>1, PhoneAssumption
<1>3. job' \in JobsTyped
  BY <1>2 DEF UserSignsIn, JobsTyped, Jobs
<1> QED BY <1>3 DEF UserSignsIn, PhoneTyped

\* The steps of tasks that ask, and that hand a pair over.
LEMMA TasksBeginFit ==
  ASSUME NEW n \in Nat, PhoneTyped(n),
         \/ \E t \in Tasks : Begin(t) \/ HandOver(t)
         \/ UserEnables \/ LoginRefused
  PROVE  PhoneTyped(n)'
<1>0. /\ js \in Pairs(n) /\ tasks \in TasksTyped(n) /\ service \in Services /\ job \in JobsTyped
      /\ screen \in Screens /\ overlaps \in Nat /\ excused \in BOOLEAN
      /\ Start("begin") \in Task(n) /\ Start("check") \in Task(n) /\ Off \in Task(n)
  BY TasksFit DEF PhoneTyped, TaskSteps
<1>1. \A for \in Jobs : [for |-> for, saved |-> 0] \in JobsTyped
  BY DEF JobsTyped
<1>2. RefreshOnce => job' \in JobsTyped
  BY <1>0, <1>1 DEF RefreshOnce, AsksRefresh, Jobs
<1>3. ASSUME NEW t \in Tasks, Begin(t) PROVE PhoneTyped(n)'
  <2>0. tasks[t] \in Task(n) /\ [js EXCEPT !.access = 0] \in Pairs(n)
    <3>1. 0 \in 0 .. n
      OBVIOUS
    <3> QED BY <1>0, <3>1, PairsFit DEF TasksTyped
  <2>1. /\ [tasks[t] EXCEPT !.at = "hand", !.pair = js] \in Task(n)
        /\ [tasks[t] EXCEPT !.at = "gather", !.pair = [js EXCEPT !.access = 0]] \in Task(n)
    BY <1>0, <2>0, TaskFits DEF TaskSteps
  <2>2. tasks' \in TasksTyped(n)
    BY <1>0, <1>3, <2>1, GoesFits DEF Begin
  <2>3. job' \in JobsTyped
    BY <1>0, <1>2, <1>3 DEF Begin
  <2> QED BY <1>3, <2>2, <2>3 DEF Begin, PhoneTyped
<1>4. ASSUME NEW t \in Tasks, HandOver(t) PROVE PhoneTyped(n)'
  <2>1. tasks[t].pair \in Pairs(n)
    BY <1>0 DEF TasksTyped, Task
  <2>2. native' \in Pairs(n) /\ service' \in Services
    BY <1>0, <1>4, <2>1 DEF HandOver, Services
  <2>3. tasks' \in TasksTyped(n)
    BY <1>0, <1>4, GoesFits DEF HandOver
  <2> QED BY <1>4, <2>2, <2>3 DEF HandOver, PhoneTyped
<1>5. CASE UserEnables
  <2>1. job' \in JobsTyped
    BY <1>0, <1>2, <1>5 DEF UserEnables
  <2>2. tasks' \in TasksTyped(n)
    BY <1>0, <1>5, GoesFits DEF UserEnables
  <2>3. js' \in Pairs(n) /\ screen' \in Screens
    BY <1>0, <1>5, TasksFit DEF UserEnables, Screens
  <2>4. overlaps' \in Nat /\ excused' \in BOOLEAN
    BY <1>0, <1>5, OverlapsFit DEF UserEnables
  <2> QED BY <1>5, <2>1, <2>2, <2>3, <2>4 DEF UserEnables, PhoneTyped
<1>6. CASE LoginRefused
  BY <1>1, <1>6 DEF LoginRefused, AsksRefresh, PhoneTyped, Jobs
<1> QED BY <1>3, <1>4, <1>5, <1>6

\* The steps that end the app's request, or close the app.
LEMMA AnswersFit ==
  ASSUME NEW n \in Nat, PhoneTyped(n), Answered(App) => PairOf(App) \in 0 .. n,
         AppCloses \/ SaveAccess \/ SaveRefresh \/ RefreshDone \/ SignedIn \/ RequestFails
  PROVE  PhoneTyped(n)'
<1>0. /\ js \in Pairs(n) /\ tasks \in TasksTyped(n) /\ job \in JobsTyped /\ screen \in Screens
      /\ NoTokens \in Pairs(n) /\ NoJob \in JobsTyped
      /\ Start("read") \in Task(n) /\ Off \in Task(n)
  BY TasksFit DEF PhoneTyped, TaskSteps
<1>1. CASE AppCloses
  <2>1. tasks' \in TasksTyped(n)
    BY <1>0, <1>1 DEF AppCloses, TasksTyped
  <2>2. excused' \in BOOLEAN
    BY <1>1 DEF AppCloses
  <2> QED BY <1>0, <1>1, <2>1, <2>2 DEF AppCloses, PhoneTyped, Screens
<1>2. CASE SaveAccess \/ SaveRefresh
  <2>1. PairOf(App) \in 0 .. n
    BY <1>2 DEF SaveAccess, SaveRefresh
  <2>2. js' \in Pairs(n)
    <3>1. \/ js' = [js EXCEPT !.access = PairOf(App)]
          \/ js' = [js EXCEPT !.refresh = PairOf(App)]
      BY <1>2 DEF SaveAccess, SaveRefresh
    <3> QED BY <1>0, <2>1, <3>1, PairsFit
  <2>3. job' \in JobsTyped
    <3>1. PICK k \in {1, 2} : job' = [job EXCEPT !.saved = k]
      BY <1>2 DEF SaveAccess, SaveRefresh
    <3>2. k \in 0 .. 2
      OBVIOUS
    <3> QED BY <1>0, <3>1, <3>2, Zenon DEF JobsTyped
  <2> QED BY <1>2, <2>2, <2>3 DEF SaveAccess, SaveRefresh, PhoneTyped
<1>3. CASE RefreshDone
  <2>1. PairOf(App) \in 0 .. n
    BY <1>3 DEF RefreshDone
  <2>2. native' \in Pairs(n)
    BY <1>0, <1>3, <2>1, PairsFit DEF RefreshDone
  <2>3. tasks' \in TasksTyped(n)
    <3>1. \A t \in Tasks : Given(tasks[t], PairOf(App)) \in Task(n)
      BY <1>0, <2>1, GivenFits DEF TasksTyped
    <3> QED BY <1>3, <3>1 DEF RefreshDone, TasksTyped
  <2>4. job' \in JobsTyped
    BY <1>0, <1>3 DEF RefreshDone, JobsTyped, Jobs
  <2> QED BY <1>3, <2>2, <2>3, <2>4 DEF RefreshDone, PhoneTyped
<1>4. CASE SignedIn
  <2>1. tasks' \in TasksTyped(n)
    BY <1>0, <1>4, GoesFits DEF SignedIn
  <2>2. excused' \in BOOLEAN /\ screen' \in Screens
    BY <1>4 DEF SignedIn, Screens
  <2> QED BY <1>0, <1>4, <2>1, <2>2 DEF SignedIn, PhoneTyped
<1>5. CASE RequestFails
  <2>1. tasks' \in TasksTyped(n)
    BY <1>0, <1>5 DEF RequestFails, TasksTyped
  <2>2. js' \in Pairs(n) /\ screen' \in Screens
    BY <1>0, <1>5 DEF RequestFails, Screens
  <2> QED BY <1>0, <1>5, <2>1, <2>2 DEF RequestFails, PhoneTyped
<1> QED BY <1>1, <1>2, <1>3, <1>4, <1>5

LEMMA ServiceFits ==
  ASSUME NEW n \in Nat, PhoneTyped(n), Answered(Service) => PairOf(Service) \in 0 .. n,
         ServiceRefreshes \/ ServiceRefreshed \/ ServiceRefused \/ UserDisables \/ UserReconnects
  PROVE  PhoneTyped(n)'
<1>0. js \in Pairs(n) /\ service \in Services
  BY DEF PhoneTyped
<1>1. \A b \in BOOLEAN : [service EXCEPT !.expired = b] \in Services
  BY <1>0 DEF Services
<1>2. CASE ServiceRefreshed
  <2>1. native' \in Pairs(n)
    BY <1>0, <1>2, PairsFit DEF ServiceRefreshed
  <2> QED BY <1>2, <2>1 DEF ServiceRefreshed, PhoneTyped
<1>3. CASE ServiceRefreshes \/ ServiceRefused \/ UserDisables \/ UserReconnects
  <2>1. service' \in Services
    <3>1. \/ service' = service \/ service' = [running |-> FALSE, expired |-> FALSE]
          \/ \E b \in BOOLEAN : service' = [service EXCEPT !.expired = b]
      BY <1>3 DEF ServiceRefreshes, ServiceRefused, UserDisables, UserReconnects
    <3>2. [running |-> FALSE, expired |-> FALSE] \in Services
      BY DEF Services
    <3> QED BY <1>0, <1>1, <3>1, <3>2
  <2>2. UNCHANGED <<js, native, screen, tasks, job, overlaps, excused>>
    BY <1>3 DEF ServiceRefreshes, ServiceRefused, UserDisables, UserReconnects
  <2> QED BY <2>1, <2>2 DEF PhoneTyped
<1> QED BY <1>2, <1>3

LEMMA PhoneGrows ==
  ASSUME NEW n \in Nat, NEW m \in Nat, n <= m, PhoneTyped(n)
  PROVE  PhoneTyped(m)
<1>1. Pairs(n) \subseteq Pairs(m)
  BY PairsGrow
<1>2. Task(n) \subseteq Task(m)
  BY <1>1 DEF Task
<1>3. TasksTyped(n) \subseteq TasksTyped(m)
  BY <1>2 DEF TasksTyped
<1> QED BY <1>1, <1>3 DEF PhoneTyped

LEMMA PhoneTypesFit ==
  ASSUME CInv, [Next]_vars
  PROVE  PhoneTypeOK'
<1>1. PICK n \in Nat : n = Len(tokens)
  BY StepsRefine, TokensAreKept DEF CInv
<1>2. PICK m \in Nat : m = Len(tokens') /\ n <= m
  BY <1>1, StepsRefine, TokensAreKept DEF CInv
<1>3. PhoneTyped(n)
  BY <1>1 DEF CInv, PhoneTypeOK, PhoneTyped, Pairs, TasksTyped, Task, TaskSteps,
              Screens, Services, JobsTyped
<1>4. PhoneTyped(m)
  BY <1>2, <1>3, PhoneGrows
<1>5. \A f \in {App, Service} : Answered(f) => PairOf(f) \in 0 .. m
  <2>1. ASSUME NEW f \in {App, Service}, Answered(f) PROVE PairOf(f) \in 0 .. m
    <3>1. PairOf(f) \in 0 .. Len(tokens)
      BY <2>1, AnswerWasSaved, PhoneAssumption DEF CInv
    <3> QED BY <1>1, <1>2, <3>1
  <2> QED BY <2>1
<1>6. PhoneTyped(m)'
  <2>1. CASE UNCHANGED phoneVars
    BY <1>4, <2>1 DEF PhoneTyped, phoneVars
  <2>2. CASE PhoneGateway \/ PhoneTick
    <3>1. UNCHANGED <<js, native, service, screen, tasks, job, overlaps>>
      BY <2>2 DEF PhoneGateway, PhoneTick
    <3>2. excused' \in BOOLEAN
      BY <2>2 DEF PhoneGateway, PhoneTick
    <3> QED BY <1>4, <3>1, <3>2 DEF PhoneTyped
  <2>3. CASE PhoneStep
    <3>1. exchange \in [Flows -> Exchange]
      BY DEF CInv, IInv, Typed
    <3> QED BY <1>4, <1>5, <2>2, <2>3, <3>1, SyncStepsFit, TasksBeginFit, SignInTyped, AnswersFit,
               ServiceFits DEF PhoneStep, PhoneNext
  <2> QED BY <2>1, <2>3 DEF Next, TabsStep, ListStep, vars
<1> QED BY <1>2, <1>6
        DEF PhoneTypeOK, PhoneTyped, Pairs, TasksTyped, Task, TaskSteps,
            Screens, Services, JobsTyped
-----------------------------------------------------------------------------
(* The whole.                                                               *)

\* Nobody asks at the start, and a session there is a tab's.
LEMMA InitRefines ==
  ASSUME Init
  PROVE  AuthInit({}) \/ AuthInit(Flows \ {Ghost})
<1>1. CASE open = "tabs" /\ Tabs # {}
  <2>1. AuthInit(Tabs)
    BY <1>1 DEF Init
  <2>2. Sessions(Tabs) \subseteq Sessions(Flows \ {Ghost}) /\ Tabs \subseteq Flows \ {Ghost}
    BY <1>1, WebAssumption DEF Sessions
  <2> QED BY <1>1, <2>1, <2>2 DEF AuthInit
<1>2. CASE open # "tabs" \/ Tabs = {}
  BY <1>2 DEF Init
<1> QED BY <1>1, <1>2

LEMMA CInvInit == ASSUME Init PROVE CInv
<1>1. IInv
  BY InitRefines, InitFits
<1>2. exchange = [f \in Flows |-> NoExchange] /\ WebInit /\ PhoneInit
  BY DEF Init, AuthInit
<1>3. PICK n \in Nat : n = Len(tokens)
  BY <1>1 DEF IInv, Typed
<1>4. WebTypeOK
  <2>1. store \in Pairs(n)
    BY <1>2, <1>3 DEF WebInit, Pairs
  <2>2. NewCall \in Call(n)
    BY DEF NewCall, Call
  <2>3. calls \in CallsTyped(n)
    BY <1>2, <2>2 DEF WebInit, CallsTyped, Call
  <2> QED BY <1>3, <2>1, <2>3 DEF WebTypeOK, Pairs, CallsTyped, Call
<1>5. PhoneTypeOK
  <2>1. service \in Services /\ tasks \in TasksTyped(n)
    BY <1>2, TasksFit DEF PhoneInit, Services, TasksTyped
  <2>2. PhoneTyped(n)
    BY <1>2, <2>1, TasksFit DEF PhoneInit, PhoneTyped, Screens
  <2> QED BY <1>3, <2>2 DEF PhoneTypeOK, PhoneTyped, Pairs, TasksTyped, Task, TaskSteps,
                            Screens, Services, JobsTyped
<1>6. AskersOK
  <2>1. exchange[App] = NoExchange
    BY <1>2, PhoneAssumption
  <2> QED BY <1>2, <2>1 DEF PhoneInit, AskersOK, IsIdle, NoExchange, NoJob, SigningIn
<1> QED BY <1>1, <1>4, <1>5, <1>6 DEF CInv

LEMMA CInvNext == ASSUME CInv, [Next]_vars PROVE CInv'
<1>1. IInv'
  BY StepsRefine, NextFits DEF CInv
<1>2. AskersOK'
  <2>1. CASE TabsStep \/ ListStep
    BY <2>1 DEF TabsStep, ListStep, AskersOK
  <2>2. CASE UNCHANGED vars
    BY <2>2 DEF vars, authVars, phoneVars, CInv, AskersOK, IsIdle
  <2> QED BY <2>1, <2>2, AskersFit DEF Next
<1> QED BY <1>1, <1>2, WebTypesFit, PhoneTypesFit DEF CInv

\* Whatever the phone, the tabs and the list do, in every order of their steps:
\* the gateway sees requests it knows, of tokens it saved, and one at a time of
\* each tab, of the app (refreshOnce) and of the tracking service.
THEOREM ClientsImplementAuth == Spec => AuthSpec
<1>1. Init => AuthInit({}) \/ AuthInit(Flows \ {Ghost})
  BY InitRefines
<1>2. Init => CInv
  BY CInvInit
<1>3. CInv /\ [Next]_vars => CInv'
  BY CInvNext
<1>4. CInv /\ [Next]_vars => [AuthNext]_authVars
  BY StepsRefine
<1> QED BY <1>1, <1>2, <1>3, <1>4, PTL DEF Spec, AuthSpec

\* The types of the stores, the calls, the tasks and the gateway's rows: every
\* token kept anywhere was saved.
THEOREM ClientTypes == Spec => []TypeOK
<1>1. Init => CInv
  BY CInvInit
<1>2. CInv /\ [Next]_vars => CInv'
  BY CInvNext
<1>3. CInv => WebTypeOK /\ PhoneTypeOK
  BY DEF CInv
<1>4. AuthTypeOK /\ WebTypeOK /\ PhoneTypeOK => TypeOK
  BY DEF TypeOK
<1> QED BY <1>1, <1>2, <1>3, <1>4, ClientsImplementAuth, AuthTypes, PTL DEF Spec

\* With the clients of this repository: a refresh token buys a second pair only
\* in an exchange that looked it up before the first pair was saved.
THEOREM ClientsSpendOnce == Spec => []TokenIsSpentOnce
BY ClientsImplementAuth, SpentOnce, PTL

-----------------------------------------------------------------------------
(* The list.                                                                *)

\* A user who opens no list has none to read, of empty tables.
LEMMA NoTablesAreOK == TablesOK(NoTables, 0)
<1>1. NoTables \in Tables
  BY DEF NoTables, Tables
<1>2. IsFiniteSet({}) /\ {} \cup {} = {}
  BY FS_EmptySet
<1>3. /\ NoTables.points = {} /\ NoTables.trips = {} /\ NoTables.parts = {}
      /\ NoTables.routes = {} /\ NoTables.links = {} /\ NoTables.linking = {}
  BY DEF NoTables
<1>4. Unique({}, 0)
  BY <1>2 DEF Unique
<1> QED BY <1>1, <1>2, <1>3, <1>4 DEF TablesOK, PointsOK, RoutesOK, LinksOK

LEMMA ListInvInit == ASSUME Init PROVE ListInv
<1> DEFINE tables == IF open = "list" THEN FirstTables ELSE {NoTables}
<1>1. ListInit(tables)
  BY DEF Init
<1>2. \A t \in tables : TablesOK(t, 0)
  BY NoTablesAreOK, ListsAssumption
<1> HIDE DEF tables
<1> QED BY <1>1, <1>2, ListStarts

LEMMA ListInvNext == ASSUME ListInv, [Next]_vars PROVE ListInv'
<1>1. CASE ListStep
  BY <1>1, ListStepFits DEF ListStep
<1>2. CASE UNCHANGED listVars
  BY <1>2, ListStutters
<1>3. ListStep \/ UNCHANGED listVars
  BY DEF Next, PhoneStep, TabsStep, vars
<1> QED BY <1>1, <1>2, <1>3

\* Whatever is written and deleted between two pages: a client that has read a
\* list to its end has every record that stood all the time, none twice, in the
\* list's order; and of tables nothing changed, the list itself with its best.
THEOREM ListIsFaithful == Spec => []ListingIsFaithful
<1>1. Init => ListInv
  BY ListInvInit
<1>2. ListInv /\ [Next]_vars => ListInv'
  BY ListInvNext
<1>3. ListInv => ListingIsFaithful
  BY ListingFits
<1> QED BY <1>1, <1>2, <1>3, PTL DEF Spec

\* In every state of the tables the summary of a range is that of the points
\* listed, and the records of a route are of its attempts, which are among its
\* trips, and name trips that are there.
THEOREM RecordsOfOneMoment == Spec => []RecordsAgree
<1>1. Init => ListInv
  BY ListInvInit
<1>2. ListInv /\ [Next]_vars => ListInv'
  BY ListInvNext
<1>3. ListInv => RecordsAgree
  BY TablesAgree
<1> QED BY <1>1, <1>2, <1>3, PTL DEF Spec

-----------------------------------------------------------------------------
(* Who is refused a token.  The handlers, seen from the clients.            *)

InFlight(f) == exchange[f].step \in {"find", "revoke", "save"}

\* A handler that goes on with the request of f.
GoesOn(f) ==
  /\ exchange[f].step \in {"register", "login", "find", "revoke"}
  /\ exchange'[f].token = exchange[f].token /\ exchange'[f].step \in {"revoke", "save", "refused"}
  /\ exchange[f].step \in {"register", "login"} => exchange'[f].step # "revoke" /\ exchange[f].token = 0
  /\ exchange[f].step = "find" /\ exchange'[f].step = "revoke" => tokens[exchange[f].token].revoked # TRUE
  /\ exchange[f].step = "find" => exchange'[f].step # "save"
  /\ exchange[f].step = "find" /\ exchange'[f].step = "refused" => ~RefreshValid(exchange[f].token)
  /\ exchange[f].step = "revoke" => exchange'[f].step = "save"
  /\ Len(tokens') = Len(tokens)
  /\ \A i \in DOMAIN tokens : exchange[f].step # "revoke" \/ i # exchange[f].token => tokens'[i] = tokens[i]

\* A handler that saves the pair of f and answers it.
Saves(f) ==
  /\ exchange[f].step = "save"
  /\ exchange'[f].step = "answered" /\ exchange'[f].token = Len(tokens) + 1
  /\ Len(tokens') = Len(tokens) + 1
  /\ \A i \in DOMAIN tokens : tokens'[i] = tokens[i]
  /\ tokens'[Len(tokens) + 1].parent = exchange[f].token /\ tokens'[Len(tokens) + 1].asker = f
  /\ tokens'[Len(tokens) + 1].issued = now /\ tokens'[Len(tokens) + 1].revoked = FALSE

\* What a statement of a handler does without faults.
LEMMA HandlerMoves ==
  ASSUME IInv, NEW f \in Flows \ {Ghost}, Handle(f)
  PROVE  /\ \A g \in Flows \ {f} : exchange'[g] = exchange[g]
         /\ Extends(tokens, tokens') /\ now' = now /\ faults' = faults
         /\ GoesOn(f) \/ Saves(f)
<1>0. Typed /\ tokens \in Seq(Token)
  BY DEF IInv, Typed
<1>1. \A g \in Flows \ {f} : exchange'[g] = exchange[g]
  BY <1>0, OneFlowMoves
<1>2. Extends(tokens, tokens')
  BY HandlerExtends
<1>3. now' = now /\ faults' = faults
  BY DEF Handle, CreateUser, FindUser, FindToken, RevokeToken, SaveToken
<1>4. CASE CreateUser(f) \/ FindUser(f)
  <2>1. PICK step \in {"save", "refused"} : exchange' = [exchange EXCEPT ![f] = At(f, step)]
    BY <1>4 DEF CreateUser, FindUser, Reaches
  <2>2. exchange'[f].step = step /\ exchange'[f].token = exchange[f].token
    BY <1>0, <2>1 DEF At, Typed
  <2>3. tokens' = tokens /\ exchange[f].step \in {"register", "login"} /\ exchange[f].token = 0
    BY <1>4 DEF CreateUser, FindUser, IInv, FlowOK
  <2> QED BY <1>1, <1>2, <1>3, <2>1, <2>2, <2>3 DEF GoesOn
<1>5. CASE FindToken(f)
  <2> DEFINE t == exchange[f].token
             e == [step |-> IF RefreshValid(t) THEN "revoke" ELSE "refused", token |-> t, seen |-> Len(tokens)]
  <2>1. tokens' = tokens /\ exchange[f].step = "find" /\ exchange' = [exchange EXCEPT ![f] = e]
    BY <1>5 DEF FindToken, Looked
  <2>2. exchange'[f] = e
    BY <1>0, <2>1 DEF Typed
  <2>3. RefreshValid(t) => tokens[t].revoked # TRUE
    BY DEF RefreshValid
  <2>4. /\ exchange'[f].token = t /\ exchange'[f].step \in {"revoke", "refused"}
        /\ exchange'[f].step = "revoke" => RefreshValid(t)
        /\ exchange'[f].step = "refused" => ~RefreshValid(t)
    BY <2>2
  <2> HIDE DEF e
  <2> QED BY <1>1, <1>2, <1>3, <2>1, <2>3, <2>4 DEF GoesOn
<1>6. CASE RevokeToken(f)
  <2>1. /\ exchange[f].step = "revoke" /\ tokens' = Revoked(exchange[f].token)
        /\ exchange' = [exchange EXCEPT ![f] = At(f, "save")]
    BY <1>6 DEF RevokeToken, Reaches
  <2>2. exchange[f].token \in DOMAIN tokens
    BY <2>1 DEF IInv, FlowOK
  <2>3. /\ Len(tokens') = Len(tokens)
        /\ \A k \in DOMAIN tokens : k # exchange[f].token => tokens'[k] = tokens[k]
    BY <1>0, <2>1, <2>2, RevokingExtends
  <2>4. exchange'[f].step = "save" /\ exchange'[f].token = exchange[f].token
    BY <1>0, <2>1 DEF At, Typed
  <2> QED BY <1>1, <1>2, <1>3, <2>1, <2>3, <2>4 DEF GoesOn
<1>7. CASE SaveToken(f)
  <2>1. /\ exchange[f].step = "save" /\ tokens' = Append(tokens, NewToken(f))
        /\ exchange' = [exchange EXCEPT ![f] = [step |-> "answered", token |-> Len(tokens) + 1, seen |-> 0]]
    BY <1>7 DEF SaveToken
  <2>2. exchange'[f].step = "answered" /\ exchange'[f].token = Len(tokens) + 1
    BY <1>0, <2>1 DEF Typed
  <2>3. /\ Len(tokens') = Len(tokens) + 1 /\ \A k \in DOMAIN tokens : tokens'[k] = tokens[k]
        /\ tokens'[Len(tokens) + 1].parent = exchange[f].token /\ tokens'[Len(tokens) + 1].asker = f
        /\ tokens'[Len(tokens) + 1].issued = now /\ tokens'[Len(tokens) + 1].revoked = FALSE
    BY <1>0, <2>1, SavingExtends
  <2> QED BY <1>1, <1>2, <1>3, <2>1, <2>2, <2>3 DEF Saves
<1> QED BY <1>4, <1>5, <1>6, <1>7 DEF Handle

\* Who was given a token for which, after a handler.
LEMMA ChildrenOf ==
  ASSUME IInv, NEW f \in Flows \ {Ghost}, Handle(f), NEW g, NEW t, GivenChild(g, t, tokens')
  PROVE  HasChild(g, t) \/ (Saves(f) /\ g = f /\ t = exchange[f].token)
<1>1. Extends(tokens, tokens') /\ (GoesOn(f) \/ Saves(f))
  BY HandlerMoves
<1>2. /\ DOMAIN tokens' = 1 .. Len(tokens') /\ DOMAIN tokens = 1 .. Len(tokens)
      /\ Len(tokens) \in Nat /\ Len(tokens') \in Nat
  BY <1>1 DEF Extends
<1>3. PICK i \in DOMAIN tokens' : tokens'[i].parent = t /\ tokens'[i].asker = g
  BY DEF GivenChild
<1>4. CASE i \in DOMAIN tokens
  BY <1>1, <1>3, <1>4 DEF Extends, HasChild, GivenChild
<1>5. CASE i \notin DOMAIN tokens
  <2>1. Len(tokens') # Len(tokens)
    BY <1>2, <1>3, <1>5
  <2>2. Saves(f)
    BY <1>1, <2>1 DEF GoesOn
  <2>3. Len(tokens') = Len(tokens) + 1
    BY <2>2 DEF Saves
  <2>4. i = Len(tokens) + 1
    BY <1>2, <1>3, <1>5, <2>3, OldOrLast
  <2> QED BY <1>3, <2>2, <2>4 DEF Saves
<1> QED BY <1>4, <1>5

-----------------------------------------------------------------------------
(* The tabs: one of them refreshes.                                         *)

\* The pair f was answered is nobody else's, and f alone may spend it.
Unheard(f) ==
  /\ PairOf(f) # store.refresh
  /\ \A i \in DOMAIN tokens : tokens[i].parent # PairOf(f)
  /\ \A g \in Flows : InFlight(g) => exchange[g].token # PairOf(f)
  /\ \A g \in Flows \ {f} : Answered(g) => PairOf(g) # PairOf(f)

\* The tabs, while nothing fails: whoever spent the stored token has not heard
\* of it yet.
TabsInv == open = "tabs" /\ faults = 0 =>
  /\ \A f \in Flows : store.refresh # 0 /\ HasChild(f, store.refresh) => Answered(f)
  /\ \A f \in Flows : Answered(f) => Unheard(f)

\* A step without faults, of the tabs or of the gateway for them.
LEMMA TabsSteps ==
  ASSUME CInv, Counted, FairInv, TabsStep, faults' = 0
  PROVE  /\ faults = 0
         /\ \/ \E f \in Flows \ {Ghost} : Handle(f) /\ UNCHANGED webVars
            \/ /\ tokens' = tokens
               /\ \/ /\ exchange' = exchange
                     /\ store' = store \/ store' = NoPair
                  \/ \E f \in Tabs : /\ IsIdle(f) /\ store.refresh # 0 /\ AskRefresh(f, store.refresh)
                                     /\ store' = store
                  \/ \E f \in Tabs : /\ Heard(f)
                                     /\ \/ Answered(f) /\ store' = Pair(PairOf(f))
                                        \/ ~Answered(f) /\ store' = NoPair
<1>1. ASSUME GatewayNext \/ Tick, UNCHANGED webVars
      PROVE  faults = 0 /\ ((\E f \in Flows \ {Ghost} : Handle(f)) \/ (tokens' = tokens /\ exchange' = exchange))
  <2>0. faults = 0 \/ GhostEnds
    BY <1>1 DEF GatewayNext, Tick, Handle, CreateUser, FindUser, FindToken, RevokeToken, SaveToken,
                StatementFails, ExchangeBreaks, Counted
  <2>1. faults = 0
    BY <2>0 DEF GhostEnds
  <2>2. exchange[Ghost].step = "idle" /\ ~GhostEnds
    BY <2>1 DEF FairInv, GhostEnds, IsIdle
  <2>3. \A f \in Flows : ~StatementFails(f) /\ ~ExchangeBreaks(f)
    BY <2>1 DEF StatementFails, ExchangeBreaks
  <2>4. ~Handle(Ghost)
    BY <2>2 DEF Handle, CreateUser, FindUser, FindToken, RevokeToken, SaveToken
  <2>5. CASE Tick
    BY <2>1, <2>5 DEF Tick
  <2> QED BY <1>1, <2>1, <2>2, <2>3, <2>4, <2>5 DEF GatewayNext
<1>2. CASE (GatewayNext \/ Tick) /\ UNCHANGED webVars
  BY <1>1, <1>2 DEF webVars
<1>3. ASSUME NEW c \in Calls, Send(c) \/ Serve(c)
      PROVE  faults = 0 /\ tokens' = tokens /\ exchange' = exchange /\ store' = store
  BY <1>3 DEF Send, Serve, authVars
<1>4. ASSUME NEW c \in Calls, Deny(c)
      PROVE  /\ faults = 0 /\ tokens' = tokens
             /\ \/ exchange' = exchange /\ (store' = store \/ store' = NoPair)
                \/ /\ TabOf[c] \in Tabs
                   /\ IsIdle(TabOf[c]) /\ store.refresh # 0 /\ AskRefresh(TabOf[c], store.refresh)
                   /\ store' = store
  BY <1>4, WebAssumption DEF Deny, RefreshOrWait
<1>5. ASSUME NEW f \in Tabs, Refreshed(f) \/ RefreshFails(f)
      PROVE  /\ faults = 0 /\ tokens' = tokens /\ Heard(f)
             /\ \/ Answered(f) /\ store' = Pair(PairOf(f))
                \/ ~Answered(f) /\ store' = NoPair
  BY <1>5 DEF Refreshed, RefreshFails, Answered, NotAnswered
<1>6. CASE \E c \in Calls : Send(c) \/ Serve(c)
  BY <1>3, <1>6
<1>7. CASE \E c \in Calls : Deny(c)
  <2>1. PICK c \in Calls : Deny(c)
    BY <1>7
  <2> QED BY <1>4, <2>1
<1>8. CASE \E f \in Tabs : Refreshed(f) \/ RefreshFails(f)
  <2>1. PICK f \in Tabs : Refreshed(f) \/ RefreshFails(f)
    BY <1>8
  <2> QED BY <1>5, <2>1
<1> QED BY <1>2, <1>6, <1>7, <1>8 DEF TabsStep, WebNext

\* The tokens asked for and answered were saved.
LEMMA HeldWereSaved ==
  ASSUME IInv, NEW f \in Flows
  PROVE  /\ Len(tokens) \in Nat /\ DOMAIN tokens = 1 .. Len(tokens)
         /\ InFlight(f) => exchange[f].token \in 0 .. Len(tokens)
         /\ Answered(f) => PairOf(f) \in 1 .. Len(tokens)
         /\ \A i \in DOMAIN tokens : tokens[i].parent \in 0 .. Len(tokens)
<1>1. /\ tokens \in Seq(Token) /\ FlowOK(exchange[f], tokens) /\ TokensOK(tokens)
  BY DEF IInv, Typed
<1>2. Len(tokens) \in Nat /\ DOMAIN tokens = 1 .. Len(tokens)
  BY <1>1
<1> QED BY <1>1, <1>2 DEF InFlight, Answered, PairOf, FlowOK, TokensOK

\* Each tab asks fairly.
LEMMA TabsAskFairly ==
  ASSUME CInv, Counted, FairInv, TabsInv, open = "tabs", TabsStep, faults' = 0, NEW f \in Flows
  PROVE  AsksFairly(f)
<1> SUFFICES ASSUME exchange'[f].step = "find", exchange[f].step # "find", HasChild(f, exchange'[f].token)
             PROVE  FALSE
  BY DEF AsksFairly
<1>0. exchange \in [Flows -> Exchange] /\ IInv
  BY DEF CInv, IInv, Typed
<1>1. ASSUME NEW g \in Flows \ {Ghost}, Handle(g) PROVE FALSE
  <2>1. /\ \A h \in Flows \ {g} : exchange'[h] = exchange[h]
        /\ GoesOn(g) \/ Saves(g)
    BY <1>0, <1>1, HandlerMoves
  <2> QED BY <2>1 DEF GoesOn, Saves
<1>2. ASSUME NEW g \in Tabs, IsIdle(g), store.refresh # 0, AskRefresh(g, store.refresh) PROVE FALSE
  <2>1. g \in Flows
    BY WebAssumption
  <2>2. f = g /\ exchange'[f].token = store.refresh
    BY <1>0, <1>2, <2>1 DEF AskRefresh
  <2>3. faults = 0
    BY TabsSteps
  <2> QED BY <1>2, <2>2, <2>3 DEF TabsInv, IsIdle, Answered
<1>3. ASSUME NEW g \in Tabs, Heard(g) PROVE FALSE
  BY <1>0, <1>3, WebAssumption DEF Heard, NoExchange
<1> QED BY <1>1, <1>2, <1>3, TabsSteps

\* The handlers keep the invariant of the tabs.
LEMMA TabsHandle ==
  ASSUME CInv, FairInv, TabsInv, open = "tabs", faults = 0, UNCHANGED <<webVars, open>>,
         NEW f \in Flows \ {Ghost}, Handle(f)
  PROVE  TabsInv'
<1> DEFINE n == Len(tokens)
<1>0. IInv /\ store \in Pairs(n) /\ store' = store
  BY DEF CInv, WebTypeOK, Pairs, webVars
<1>1. /\ \A g \in Flows \ {f} : exchange'[g] = exchange[g]
      /\ Extends(tokens, tokens')
      /\ GoesOn(f) \/ Saves(f)
  BY <1>0, HandlerMoves
<1>2. \A g \in Flows :
         /\ n \in Nat /\ DOMAIN tokens = 1 .. n
         /\ InFlight(g) => exchange[g].token \in 0 .. n
         /\ Answered(g) => PairOf(g) \in 1 .. n
  BY <1>0, HeldWereSaved
<1>3. ~Answered(f)
  BY <1>1 DEF GoesOn, Saves, Answered
<1>4. ASSUME NEW g \in Flows, store.refresh # 0, GivenChild(g, store.refresh, tokens')
      PROVE  exchange'[g].step = "answered"
  <2>1. HasChild(g, store.refresh) \/ (Saves(f) /\ g = f)
    BY <1>0, <1>4, ChildrenOf
  <2>2. CASE HasChild(g, store.refresh)
    <3>1. Answered(g) /\ g # f
      BY <1>3, <1>4, <2>2 DEF TabsInv
    <3> QED BY <1>1, <3>1 DEF Answered
  <2>3. CASE Saves(f) /\ g = f
    BY <2>3 DEF Saves
  <2> QED BY <2>1, <2>2, <2>3
<1>5. ASSUME NEW g \in Flows, g # f, Answered(g) PROVE Unheard(g)'
  <2>1. PairOf(g)' = PairOf(g) /\ Unheard(g) /\ PairOf(g) \in 1 .. n
    BY <1>1, <1>2, <1>5 DEF TabsInv, PairOf
  <2>2. PairOf(g)' # store'.refresh
    BY <1>0, <2>1 DEF Unheard
  <2>3. ASSUME NEW i \in DOMAIN tokens', tokens'[i].parent = PairOf(g) PROVE FALSE
    <3>1. PICK a : a = tokens'[i].asker
      OBVIOUS
    <3>2. GivenChild(a, PairOf(g), tokens')
      BY <2>3, <3>1 DEF GivenChild
    <3>3. HasChild(a, PairOf(g)) \/ (Saves(f) /\ exchange[f].token = PairOf(g))
      BY <1>0, <3>2, ChildrenOf
    <3>4. ~HasChild(a, PairOf(g))
      BY <2>1 DEF Unheard, HasChild, GivenChild
    <3>5. InFlight(f)
      BY <3>3, <3>4 DEF Saves, InFlight
    <3> QED BY <2>1, <3>3, <3>4, <3>5 DEF Unheard
  <2>4. ASSUME NEW h \in Flows, InFlight(h)' PROVE exchange'[h].token # PairOf(g)
    <3>1. CASE h # f
      BY <1>1, <2>1, <2>4, <3>1 DEF Unheard, InFlight
    <3>2. CASE h = f
      <4>1. GoesOn(f)
        BY <1>1, <2>4, <3>2 DEF Saves, InFlight
      <4>2. exchange'[f].token = exchange[f].token /\ (InFlight(f) \/ exchange[f].token = 0)
        BY <4>1 DEF GoesOn, InFlight
      <4> QED BY <2>1, <3>2, <4>2 DEF Unheard
    <3> QED BY <3>1, <3>2
  <2>5. ASSUME NEW h \in Flows \ {g}, Answered(h)' PROVE PairOf(h)' # PairOf(g)
    <3>1. CASE h # f
      BY <1>1, <2>1, <2>5, <3>1 DEF Unheard, Answered, PairOf
    <3>2. CASE h = f
      <4>1. Saves(f)
        BY <1>1, <2>5, <3>2 DEF GoesOn, Answered
      <4>2. PairOf(h)' = n + 1
        BY <3>2, <4>1 DEF Saves, PairOf
      <4>3. n \in Nat
        BY <1>2
      <4> QED BY <2>1, <4>2, <4>3
    <3> QED BY <3>1, <3>2
  <2> QED BY <2>1, <2>2, <2>3, <2>4, <2>5 DEF Unheard
<1>6. ASSUME Saves(f) PROVE Unheard(f)'
  <2>0. n \in Nat /\ DOMAIN tokens = 1 .. n /\ DOMAIN tokens' = 1 .. n + 1
    BY <1>1, <1>2, <1>6 DEF Extends, Saves
  <2>1. PairOf(f)' = n + 1
    BY <1>6 DEF Saves, PairOf
  <2>2. store'.refresh # n + 1
    BY <1>0, <2>0 DEF Pairs
  <2>3. ASSUME NEW i \in DOMAIN tokens' PROVE tokens'[i].parent # n + 1
    <3>1. i \in DOMAIN tokens \/ i = n + 1
      BY <2>0
    <3>2. CASE i \in DOMAIN tokens
      <4>1. tokens'[i].parent \in 0 .. n
        BY <1>0, <1>6, <3>2, HeldWereSaved DEF Saves
      <4> QED BY <2>0, <4>1
    <3>3. CASE i = n + 1
      <4>1. tokens'[i].parent = exchange[f].token /\ InFlight(f)
        BY <1>6, <3>3 DEF Saves, InFlight
      <4> QED BY <1>2, <4>1
    <3> QED BY <3>1, <3>2, <3>3
  <2>4. ASSUME NEW h \in Flows, InFlight(h)' PROVE exchange'[h].token # n + 1
    <3>1. h # f
      BY <1>6, <2>4 DEF Saves, InFlight
    <3> QED BY <1>1, <1>2, <2>4, <3>1 DEF InFlight
  <2>5. ASSUME NEW h \in Flows \ {f}, Answered(h)' PROVE PairOf(h)' # n + 1
    BY <1>1, <1>2, <2>5 DEF Answered, PairOf
  <2> QED BY <2>1, <2>2, <2>3, <2>4, <2>5 DEF Unheard
<1>7. ASSUME NEW g \in Flows, Answered(g)' PROVE Unheard(g)'
  <2>1. CASE g # f
    BY <1>1, <1>5, <1>7, <2>1 DEF Answered
  <2>2. CASE g = f
    <3>1. Saves(f)
      BY <1>1, <1>7, <2>2 DEF GoesOn, Answered
    <3> QED BY <1>6, <2>2, <3>1
  <2> QED BY <2>1, <2>2
<1>8. \A g \in Flows : store'.refresh # 0 /\ HasChild(g, store.refresh)' => Answered(g)'
  BY <1>0, <1>4 DEF HasChild, Answered
<1> QED BY <1>0, <1>7, <1>8 DEF TabsInv

\* The tokens stay as they are, and the exchange of each flow does, or the flow
\* asks with the stored token, or it rests.
LEMMA TabsMove ==
  ASSUME CInv, TabsInv, open = "tabs", faults = 0, open' = open, tokens' = tokens,
         \A g \in Flows : \/ exchange'[g] = exchange[g]
                          \/ exchange'[g].step = "idle"
                          \/ /\ IsIdle(g) /\ exchange'[g].step = "find" /\ store' = store
                             /\ exchange'[g].token = store.refresh,
         \/ /\ store'.refresh \in {store.refresh, 0}
            /\ \A g \in Flows : Answered(g)' \/ ~Answered(g) \/ store'.refresh = 0
         \/ \E f \in Flows : Answered(f) /\ ~Answered(f)' /\ store'.refresh = PairOf(f)
  PROVE  TabsInv'
<1>1. ASSUME NEW g \in Flows, store'.refresh # 0, HasChild(g, store'.refresh)
      PROVE  Answered(g)'
  <2>1. CASE \E f \in Flows : Answered(f) /\ ~Answered(f)' /\ store'.refresh = PairOf(f)
    BY <1>1, <2>1 DEF TabsInv, Unheard, HasChild, GivenChild
  <2>2. CASE /\ store'.refresh \in {store.refresh, 0}
             /\ \A h \in Flows : Answered(h)' \/ ~Answered(h) \/ store'.refresh = 0
    <3>1. store'.refresh = store.refresh
      BY <1>1, <2>2
    <3>2. Answered(g)
      BY <1>1, <3>1 DEF TabsInv
    <3> QED BY <1>1, <2>2, <3>2
  <2> QED BY <2>1, <2>2
<1>2. ASSUME NEW g \in Flows, Answered(g)'
      PROVE  Answered(g) /\ exchange'[g] = exchange[g]
  BY <1>2 DEF Answered
<1>3. ASSUME NEW g \in Flows, Answered(g)' PROVE Unheard(g)'
  <2>1. Answered(g) /\ Unheard(g) /\ PairOf(g)' = PairOf(g)
    BY <1>2, <1>3 DEF TabsInv, PairOf
  <2>2. PairOf(g) # 0
    BY <2>1, HeldWereSaved DEF CInv
  <2>3. PairOf(g) # store'.refresh
    BY <1>3, <2>1, <2>2 DEF Unheard
  <2>4. \A i \in DOMAIN tokens' : tokens'[i].parent # PairOf(g)
    BY <2>1 DEF Unheard
  <2>5. ASSUME NEW h \in Flows, InFlight(h)' PROVE exchange'[h].token # PairOf(g)
    <3>1. CASE exchange'[h] = exchange[h]
      BY <2>1, <2>5, <3>1 DEF Unheard, InFlight
    <3>2. CASE exchange'[h] # exchange[h]
      BY <2>1, <2>5, <3>2 DEF Unheard, InFlight
    <3> QED BY <3>1, <3>2
  <2>6. ASSUME NEW h \in Flows \ {g}, Answered(h)' PROVE PairOf(h)' # PairOf(g)
    <3>1. Answered(h) /\ PairOf(h)' = PairOf(h)
      BY <1>2, <2>6 DEF PairOf
    <3> QED BY <2>1, <2>6, <3>1 DEF Unheard
  <2> QED BY <2>1, <2>3, <2>4, <2>5, <2>6 DEF Unheard
<1>4. \A g \in Flows : store'.refresh # 0 /\ HasChild(g, store.refresh)' => Answered(g)'
  BY <1>1 DEF HasChild
<1> QED BY <1>3, <1>4 DEF TabsInv

\* Every step of the tabs keeps it.
LEMMA TabsFit ==
  ASSUME CInv, Counted, FairInv, TabsInv, open = "tabs", TabsStep
  PROVE  TabsInv'
<1> SUFFICES ASSUME faults' = 0 PROVE TabsInv'
  BY DEF TabsInv
<1>0. /\ faults = 0 /\ open' = open /\ exchange \in [Flows -> Exchange]
      /\ store \in Pairs(Len(tokens)) /\ Tabs \subseteq Flows
  BY TabsSteps, WebAssumption DEF TabsStep, CInv, IInv, Typed, WebTypeOK, Pairs
<1>1. ASSUME NEW f \in Flows \ {Ghost}, Handle(f), UNCHANGED webVars PROVE TabsInv'
  BY <1>0, <1>1, TabsHandle
<1>2. CASE tokens' = tokens /\ exchange' = exchange /\ (store' = store \/ store' = NoPair)
  <2>1. store'.refresh \in {store.refresh, 0}
    BY <1>2 DEF NoPair
  <2>2. \A g \in Flows : Answered(g)' = Answered(g)
    BY <1>2 DEF Answered
  <2> QED BY <1>0, <1>2, <2>1, <2>2, TabsMove
<1>3. ASSUME NEW f \in Tabs, tokens' = tokens, IsIdle(f), store.refresh # 0, AskRefresh(f, store.refresh),
             store' = store
      PROVE  TabsInv'
  <2>1. \A g \in Flows :
          exchange'[g] = IF g = f THEN [step |-> "find", token |-> store.refresh, seen |-> 0] ELSE exchange[g]
    BY <1>0, <1>3 DEF AskRefresh
  <2>2. \A g \in Flows : Answered(g)' \/ ~Answered(g)
    BY <1>3, <2>1 DEF Answered, IsIdle
  <2>3. \A g \in Flows : \/ exchange'[g] = exchange[g]
                         \/ /\ IsIdle(g) /\ exchange'[g].step = "find" /\ store' = store
                            /\ exchange'[g].token = store.refresh
    BY <1>3, <2>1
  <2> QED BY <1>0, <1>3, <2>2, <2>3, TabsMove
<1>4. ASSUME NEW f \in Tabs, tokens' = tokens, Heard(f),
             \/ Answered(f) /\ store' = Pair(PairOf(f))
             \/ ~Answered(f) /\ store' = NoPair
      PROVE  TabsInv'
  <2>1. \A g \in Flows : exchange'[g] = IF g = f THEN NoExchange ELSE exchange[g]
    BY <1>0, <1>4 DEF Heard
  <2>2. \A g \in Flows : exchange'[g] = exchange[g] \/ exchange'[g].step = "idle"
    BY <2>1 DEF NoExchange
  <2>3. CASE Answered(f) /\ store' = Pair(PairOf(f))
    <3>1. Answered(f) /\ ~Answered(f)' /\ store'.refresh = PairOf(f)
      BY <1>0, <2>1, <2>3 DEF Answered, NoExchange, Pair
    <3> QED BY <1>0, <1>4, <2>2, <3>1, TabsMove
  <2>4. CASE store' = NoPair
    <3>1. store'.refresh = 0
      BY <2>4 DEF NoPair
    <3> QED BY <1>0, <1>4, <2>2, <3>1, TabsMove
  <2> QED BY <1>4, <2>3, <2>4
<1> QED BY <1>1, <1>2, <1>3, <1>4, TabsSteps

-----------------------------------------------------------------------------
(* The whole.                                                               *)

\* The inductive invariant of what the tabs are refused.
RivalsInv == CInv /\ IssuedByNow /\ Counted /\ TabsInv /\ (open = "tabs" => FairInv)

\* The parts hold at the start.
LEMMA RivalsInit == ASSUME Init PROVE RivalsInv
<1>1. CInv
  BY CInvInit
<1>2. /\ exchange = [f \in Flows |-> NoExchange] /\ now = 0 /\ faults = 0 /\ registered \in BOOLEAN
      /\ tokens \in Sessions(IF open = "tabs" THEN Tabs ELSE {})
  BY DEF Init, AuthInit
<1>3. \A f \in Flows : exchange[f].step = "idle"
  BY <1>2 DEF NoExchange
<1>4. \A i \in DOMAIN tokens : tokens[i].parent = 0 /\ tokens[i].issued = 0 /\ tokens[i].revoked = FALSE
  BY <1>2 DEF Sessions
<1>5. IssuedByNow /\ Counted
  BY <1>2, <1>4 DEF IssuedByNow, Counted
<1>6. FairInv
  BY <1>3, <1>4, TokenAssumption DEF FairInv
<1>7. TabsInv
  BY <1>3, <1>4 DEF TabsInv, HasChild, GivenChild, Answered
<1> QED BY <1>1, <1>5, <1>6, <1>7 DEF RivalsInv

\* Every step keeps them.
LEMMA RivalsNext ==
  ASSUME RivalsInv, [Next]_vars
  PROVE  RivalsInv'
<1>0. CInv /\ IssuedByNow /\ Counted /\ TabsInv /\ IInv /\ [AuthNext]_authVars
  BY StepsRefine DEF RivalsInv, CInv
<1>1. CInv' /\ IssuedByNow' /\ Counted'
  BY <1>0, CInvNext, IssuedFits, CountedFits
<1>2. CASE PhoneStep \/ ListStep
  <2>1. open' \in {"phone", "list"}
    BY <1>2 DEF PhoneStep, ListStep
  <2> QED BY <1>1, <2>1 DEF RivalsInv, TabsInv
<1>3. CASE TabsStep
  <2>0. open = "tabs" /\ FairInv
    BY <1>3 DEF TabsStep, RivalsInv
  <2>1. TabsInv'
    BY <1>0, <1>3, <2>0, TabsFit
  <2>2. FairInv'
    <3> SUFFICES ASSUME faults' = 0 PROVE FairInv'
      BY DEF FairInv
    <3>1. \A f \in Flows : AsksFairly(f)
      BY <1>0, <1>3, <2>0, TabsAskFairly
    <3> QED BY <1>0, <2>0, <3>1, FairNext
  <2> QED BY <1>1, <2>1, <2>2 DEF RivalsInv
<1>4. CASE UNCHANGED vars
  <2>1. UNCHANGED <<open, exchange, tokens, now, faults, store>>
    BY <1>4 DEF vars, authVars, webVars
  <2>2. TabsInv'
    BY <1>0, <2>1 DEF TabsInv, Unheard, HasChild, Answered, InFlight, PairOf
  <2>3. ASSUME open = "tabs" PROVE FairInv'
    <3> SUFFICES ASSUME faults' = 0 PROVE FairInv'
      BY DEF FairInv
    <3>1. \A f \in Flows : AsksFairly(f)
      BY <2>1 DEF AsksFairly
    <3> QED BY <1>0, <2>3, <3>1, FairNext DEF RivalsInv
  <2> QED BY <1>1, <2>1, <2>2, <2>3 DEF RivalsInv
<1> QED BY <1>2, <1>3, <1>4 DEF Next
\* They say who is refused what.
LEMMA RivalsShown == ASSUME RivalsInv, open = "tabs" PROVE RefusedOnlyToRivals
BY DEF RivalsInv, FairInv, RefusedOnlyToRivals, RivalsOnly, SpentByOther

\* While nothing fails: however many tabs share the stored pair, none is refused a refresh token that is still
\* good for having spent it itself; another tab spent it first (api/client.ts of
\* apps/web queues the calls of one tab behind one refresh).
THEOREM RefusedToRivals == Spec => [](open = "tabs" => RefusedOnlyToRivals)
<1>1. Init => RivalsInv
  BY RivalsInit
<1>2. RivalsInv /\ [Next]_vars => RivalsInv'
  BY RivalsNext
<1>3. RivalsInv => (open = "tabs" => RefusedOnlyToRivals)
  BY RivalsShown
<1> QED BY <1>1, <1>2, <1>3, PTL DEF Spec
=============================================================================

