---------------------------- MODULE TokenRotation ----------------------------
(***************************************************************************)
(* The gateway's authentication: accounts, pairs of an access token and a  *)
(* refresh token, and the exchange of a refresh token for a new pair, which *)
(* spends it.                                                              *)
(*                                                                         *)
(* Token i is the i-th refresh token saved, and the access token signed    *)
(* with it; 0 is no token.  A flow is whoever may have a request under     *)
(* way; the handler of a request whose connection broke goes on in the     *)
(* Ghost flow, whose answer nobody hears.  Each step of a handler is one   *)
(* statement of the database.                                              *)
(***************************************************************************)
EXTENDS Integers, Sequences, FiniteSets

CONSTANTS
  Flows, Ghost,            \* who asks
  AccessTTL, RefreshTTL,   \* JWT_ACCESS_TTL, JWT_REFRESH_TTL
  MaxTime,                 \* bound: the last moment
  MaxFaults                \* bound: failing statements and broken connections

ASSUME TokenAssumption ==
  /\ Ghost \in Flows
  /\ AccessTTL \in Nat /\ RefreshTTL \in Nat
  /\ MaxTime \in Nat /\ MaxFaults \in Nat

VARIABLES
  now,
  registered,  \* the account exists
  tokens,      \* refresh_tokens, in the order of the inserts
  exchange,    \* per flow, its request
  faults

authVars == <<now, registered, tokens, exchange, faults>>

\* parent is the token given for this one (0: a sign-in), asker the flow that
\* asked, and seen how many tokens were saved when the parent was looked up.
Token == [parent : Nat, asker : Flows, seen : Nat, issued : Nat, revoked : BOOLEAN]

Steps == {"idle", "register", "login", "find", "revoke", "save", "answered", "refused", "broken"}
UnderWay == {"register", "login", "find", "revoke", "save"}

\* token is the refresh token given, then the pair answered.
NoExchange == [step |-> "idle", token |-> 0, seen |-> 0]
Exchange == [step : Steps, token : Nat, seen : Nat]

AuthTypeOK ==
  /\ now \in Nat /\ registered \in BOOLEAN /\ faults \in Nat
  /\ tokens \in Seq(Token)
  /\ exchange \in [Flows -> Exchange]

\* One session at most, of one of the flows given.
Sessions(signedIn) ==
  IF signedIn = {} THEN {<<>>}
  ELSE {<<[parent |-> 0, asker |-> f, seen |-> 0, issued |-> 0, revoked |-> FALSE]>> : f \in signedIn}

\* The accounts start with no session, or with one signed in by a flow.
AuthInit(signedIn) ==
  /\ now = 0 /\ faults = 0
  /\ registered \in BOOLEAN
  /\ signedIn # {} => registered
  /\ tokens \in Sessions(signedIn)
  /\ exchange = [f \in Flows |-> NoExchange]

AccessExpires(i) == tokens[i].issued + AccessTTL
AccessValid(i) == i # 0 /\ now < AccessExpires(i)
RefreshExpired(i) == now > tokens[i].issued + RefreshTTL
RefreshValid(i) == i # 0 /\ ~RefreshExpired(i) /\ ~tokens[i].revoked

-----------------------------------------------------------------------------
(* The clients' side of a request, for the modules of the clients.          *)

IsIdle(f) == exchange[f].step = "idle"

AskRefresh(f, token) ==
  exchange' = [exchange EXCEPT ![f] = [step |-> "find", token |-> token, seen |-> 0]]

AskAccount(f, way) ==
  exchange' = [exchange EXCEPT ![f] = [step |-> way, token |-> 0, seen |-> 0]]
AskLogin(f) == AskAccount(f, "login")
AskSignIn(f) == AskAccount(f, "register") \/ AskLogin(f)

Answered(f) == exchange[f].step = "answered"
NotAnswered(f) == exchange[f].step \in {"refused", "broken"}
PairOf(f) == exchange[f].token
Heard(f) == exchange' = [exchange EXCEPT ![f] = NoExchange]

-----------------------------------------------------------------------------
(* The handlers.                                                            *)

\* The exchange of f with its request, at the step.
At(f, step) == [step |-> step, token |-> exchange[f].token, seen |-> exchange[f].seen]

Reaches(f, step) == exchange' = [exchange EXCEPT ![f] = At(f, step)]

CreateUser(f) ==
  /\ exchange[f].step = "register"
  /\ registered' = TRUE
  /\ Reaches(f, IF registered THEN "refused" ELSE "save")
  /\ UNCHANGED <<now, tokens, faults>>

FindUser(f) ==
  /\ exchange[f].step = "login"
  /\ \/ registered /\ Reaches(f, "save")
     \/ Reaches(f, "refused")
  /\ UNCHANGED <<now, registered, tokens, faults>>

Looked(f, accepted) ==
  exchange' = [exchange EXCEPT ![f] = [step |-> IF accepted THEN "revoke" ELSE "refused",
                                       token |-> exchange[f].token, seen |-> Len(tokens)]]

\* Faulty variant: the revocation is not looked at.
FindUnchecked(f) ==
  /\ exchange[f].step = "find"
  /\ Looked(f, ~RefreshExpired(exchange[f].token))
  /\ UNCHANGED <<now, registered, tokens, faults>>

FindToken(f) ==
  /\ exchange[f].step = "find"
  /\ Looked(f, RefreshValid(exchange[f].token))
  /\ UNCHANGED <<now, registered, tokens, faults>>

Spent(row) ==
  [parent |-> row.parent, asker |-> row.asker, seen |-> row.seen, issued |-> row.issued, revoked |-> TRUE]

Revoked(i) == [tokens EXCEPT ![i] = Spent(tokens[i])]

RevokeToken(f) ==
  /\ exchange[f].step = "revoke"
  /\ tokens' = Revoked(exchange[f].token)
  /\ Reaches(f, "save")
  /\ UNCHANGED <<now, registered, faults>>

NewToken(f) ==
  [parent |-> exchange[f].token, asker |-> f, seen |-> exchange[f].seen, issued |-> now, revoked |-> FALSE]

\* Faulty variant: the pair is answered although the insert failed.
AnswerUnsaved(f) ==
  /\ exchange[f].step = "save"
  /\ exchange' = [exchange EXCEPT ![f] = [step |-> "answered", token |-> Len(tokens) + 1, seen |-> 0]]
  /\ UNCHANGED <<now, registered, tokens, faults>>

SaveToken(f) ==
  /\ exchange[f].step = "save"
  /\ tokens' = Append(tokens, NewToken(f))
  /\ exchange' = [exchange EXCEPT ![f] = IF f = Ghost THEN NoExchange
       ELSE [step |-> "answered", token |-> Len(tokens) + 1, seen |-> 0]]
  /\ UNCHANGED <<now, registered, faults>>

\* A statement fails, before or after it took effect; every failure is refused.
StatementFails(f) ==
  /\ exchange[f].step \in UnderWay
  /\ faults < MaxFaults
  /\ faults' = faults + 1
  /\ \/ UNCHANGED <<registered, tokens>>
     \/ exchange[f].step = "register" /\ registered' = TRUE /\ UNCHANGED tokens
     \/ exchange[f].step = "revoke" /\ tokens' = Revoked(exchange[f].token) /\ UNCHANGED registered
     \/ exchange[f].step = "save" /\ tokens' = Append(tokens, NewToken(f)) /\ UNCHANGED registered
  /\ Reaches(f, "refused")
  /\ UNCHANGED now

\* What is left of f's request is the Ghost's.
Parted(f, left, ghost) ==
  exchange' = [g \in Flows |-> IF g = f THEN left ELSE IF g = Ghost THEN ghost ELSE exchange[g]]

StillServed(f) == IF exchange[f].step \in UnderWay THEN exchange[f] ELSE NoExchange

\* The request or its answer is lost with the connection; the handler, if it
\* runs, runs on, or stops at a statement its cancelled context fails.
ExchangeBreaks(f) ==
  /\ f # Ghost
  /\ exchange[f].step \in UnderWay \cup {"answered", "refused"}
  /\ faults < MaxFaults
  /\ faults' = faults + 1
  /\ IsIdle(Ghost)
  /\ \E ghost \in {NoExchange, StillServed(f)} :
       Parted(f, [step |-> "broken", token |-> 0, seen |-> 0], ghost)
  /\ UNCHANGED <<now, registered, tokens>>

GhostEnds ==
  /\ ~IsIdle(Ghost)
  /\ exchange' = [exchange EXCEPT ![Ghost] = NoExchange]
  /\ UNCHANGED <<now, registered, tokens, faults>>

Tick ==
  /\ now < MaxTime
  /\ now' = now + 1
  /\ UNCHANGED <<registered, tokens, exchange, faults>>

Handle(f) == CreateUser(f) \/ FindUser(f) \/ FindToken(f) \/ RevokeToken(f) \/ SaveToken(f)

GatewayNext ==
  \/ \E f \in Flows : Handle(f) \/ StatementFails(f) \/ ExchangeBreaks(f)
  \/ GhostEnds

-----------------------------------------------------------------------------
(* The gateway with clients of whatever kind: a flow asks for nothing while *)
(* it has a request under way, and gives only tokens it was answered.       *)

Ask(f) ==
  /\ exchange[f].step \notin UnderWay
  /\ AskSignIn(f) \/ \E t \in DOMAIN tokens : AskRefresh(f, t)
  /\ UNCHANGED <<now, registered, tokens, faults>>

Hear(f) ==
  /\ exchange[f].step \in {"answered", "refused", "broken"}
  /\ Heard(f)
  /\ UNCHANGED <<now, registered, tokens, faults>>

\* The client is gone; the handler goes on.
HangUp(f) ==
  /\ IsIdle(Ghost) /\ faults < MaxFaults
  /\ faults' = faults + 1
  /\ Parted(f, NoExchange, StillServed(f))
  /\ UNCHANGED <<now, registered, tokens>>

AuthNext ==
  \/ GatewayNext \/ Tick
  \/ \E f \in Flows \ {Ghost} : Ask(f) \/ Hear(f) \/ HangUp(f)

\* The authentication the clients' steps implement.
AuthSpec == (AuthInit({}) \/ AuthInit(Flows \ {Ghost})) /\ [][AuthNext]_authVars

-----------------------------------------------------------------------------
(* Properties.                                                              *)

\* A refresh token buys a second pair only in an exchange that looked it up
\* before the first pair was saved: from then on no lookup accepts it.
TokenIsSpentOnce ==
  \A i, j \in DOMAIN tokens :
    i < j /\ tokens[i].parent = tokens[j].parent /\ tokens[i].parent # 0 => tokens[j].seen < i

SpentBy(g, token) ==
  \/ \E i \in DOMAIN tokens : tokens[i].parent = token /\ tokens[i].asker = g
  \/ exchange[g].step = "save" /\ exchange[g].token = token

\* A refresh is refused only because its token is too old or because somebody
\* else spent it: no client is refused a token for having spent it itself.  (What
\* the clients owe while nothing fails: a lost answer makes them ask again.)
RivalsOnly ==
  \A f \in Flows : exchange[f].step = "refused" /\ exchange[f].token # 0 =>
    \/ RefreshExpired(exchange[f].token)
    \/ \E g \in Flows \ {f} : SpentBy(g, exchange[f].token)
=============================================================================
