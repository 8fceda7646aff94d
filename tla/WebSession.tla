----------------------------- MODULE WebSession -----------------------------
(***************************************************************************)
(* The web client's calls.  A call the gateway answers with 401 waits for  *)
(* the one refresh its tab has in flight and is sent once more; a refresh  *)
(* that fails clears the token store, which all tabs share, and signs out. *)
(***************************************************************************)
EXTENDS TokenRotation

CONSTANTS Tabs, Calls, TabOf

ASSUME WebAssumption == Tabs \subseteq Flows /\ Ghost \notin Tabs /\ TabOf \in [Calls -> Tabs]

VARIABLES
  store,   \* localStorage: access_token and refresh_token, 0 when absent
  calls    \* [step, with, retried]: with is the access token it carries

webVars == <<store, calls>>

NoPair == [access |-> 0, refresh |-> 0]

\* What doRefresh stores; a faulty variant keeps the refresh token it has.
AccessOnly(i) == [store EXCEPT !.access = i]
Pair(i) == [access |-> i, refresh |-> i]

NewCall == [step |-> "new", with |-> 0, retried |-> FALSE]

WebTypeOK ==
  /\ store \in [access : 0 .. Len(tokens), refresh : 0 .. Len(tokens)]
  /\ calls \in [Calls -> [step : {"new", "sent", "waiting", "done", "failed"},
                          with : 0 .. Len(tokens), retried : BOOLEAN]]

WebInit ==
  /\ store = [access |-> Len(tokens), refresh |-> Len(tokens)]
  /\ calls = [c \in Calls |-> NewCall]

\* The request interceptor.
Send(c) ==
  /\ calls[c].step = "new" /\ store.access # 0
  /\ calls' = [calls EXCEPT ![c].step = "sent", ![c].with = store.access]
  /\ UNCHANGED <<store, authVars>>

Serve(c) ==
  /\ calls[c].step = "sent" /\ AccessValid(calls[c].with)
  /\ calls' = [calls EXCEPT ![c].step = "done"]
  /\ UNCHANGED <<store, authVars>>

\* AuthMiddleware answers 401 to the access token.
Denied(c) == calls[c].step = "sent" /\ ~AccessValid(calls[c].with)

\* The response interceptor waits for a refresh, starting one if the tab has none
\* in flight.
Waits(c) == calls' = [calls EXCEPT ![c].step = "waiting"]
Fails(c) == calls' = [calls EXCEPT ![c].step = "failed"]

\* Faulty variant: every call starts a refresh of its own.
RefreshAlone(c) ==
  /\ store.refresh # 0
  /\ Waits(c) /\ AskRefresh(TabOf[c], store.refresh)
  /\ UNCHANGED store

RefreshOrWait(c) ==
  \/ /\ ~IsIdle(TabOf[c])
     /\ Waits(c) /\ UNCHANGED <<store, exchange>>
  \/ /\ IsIdle(TabOf[c]) /\ store.refresh # 0
     /\ Waits(c) /\ AskRefresh(TabOf[c], store.refresh)
     /\ UNCHANGED store
  \/ /\ IsIdle(TabOf[c]) /\ store.refresh = 0
     /\ Fails(c) /\ store' = NoPair
     /\ UNCHANGED exchange

Deny(c) ==
  /\ Denied(c)
  /\ \/ calls[c].retried /\ Fails(c) /\ UNCHANGED <<store, exchange>>
     \/ ~calls[c].retried /\ RefreshOrWait(c)
  /\ UNCHANGED <<now, registered, tokens, faults>>

Waiters(tab) == {c \in Calls : TabOf[c] = tab /\ calls[c].step = "waiting"}

\* The waiting calls that are sent again; a faulty variant sends only one.
OneOf(waiters) == IF waiters = {} THEN {} ELSE {CHOOSE c \in waiters : TRUE}
Resent(waiters) == waiters

Refreshed(tab) ==
  /\ Answered(tab)
  /\ store' = Pair(PairOf(tab))
  /\ calls' = [c \in Calls |->
       IF c \in Resent(Waiters(tab))
       THEN [step |-> "sent", with |-> PairOf(tab), retried |-> TRUE] ELSE calls[c]]
  /\ Heard(tab)
  /\ UNCHANGED <<now, registered, tokens, faults>>

RefreshFails(tab) ==
  /\ NotAnswered(tab)
  /\ store' = NoPair
  /\ calls' = [c \in Calls |->
       IF c \in Waiters(tab) THEN [calls[c] EXCEPT !.step = "failed"] ELSE calls[c]]
  /\ Heard(tab)
  /\ UNCHANGED <<now, registered, tokens, faults>>

WebNext ==
  \/ \E c \in Calls : Send(c) \/ Serve(c) \/ Deny(c)
  \/ \E tab \in Tabs : Refreshed(tab) \/ RefreshFails(tab)

\* The browser answers its own promises, and the gateway its requests.
WebFairness ==
  /\ \A c \in Calls : WF_<<webVars, authVars>>(Serve(c) \/ Deny(c))
  /\ \A tab \in Tabs : WF_<<webVars, authVars>>(Refreshed(tab) \/ RefreshFails(tab))

-----------------------------------------------------------------------------

\* A call that was sent is answered or fails: no call waits for ever for a
\* refresh, whatever the refresh came to and whoever else waits for it.
EveryCallSettles ==
  \A c \in Calls : calls[c].step \in {"sent", "waiting"} ~> calls[c].step \in {"done", "failed"}
=============================================================================
