--------------------------- MODULE GatewayProofs ---------------------------
(***************************************************************************)
(* The gateway under whatever clients: its refresh tokens, for every number *)
(* of flows, tokens and faults, and its lists, for all tables that keep the *)
(* schema's promises, all queries and limits, and any number of changes    *)
(* between two pages.  The theorems about the whole system are in          *)
(* GatewayClientsProofs.                                                   *)
(*                                                                         *)
(* Tokens.  A refresh token buys a second pair only in an exchange that    *)
(* overlaps the first.  TokenIsSpentOnce compares saved tokens only; the   *)
(* invariant that carries it speaks of the exchanges too: a token that has *)
(* bought a pair is revoked (so no later lookup accepts it), and an exchange *)
(* that has looked its token up saw none of the pairs the token has bought *)
(* since.  A second part is for clients that ask fairly: while nothing     *)
(* fails, a revoked token was spent by a flow, so who is refused has a rival. *)
(*                                                                         *)
(* Lists.  A keyset page is the first rows beyond the cursor, in an order  *)
(* that is total, so what stands all the time is listed or lies beyond the *)
(* last row.  What is listed cannot come again: an identifier is never     *)
(* reused, and a row whose key changes gets a later time, which puts it    *)
(* before the cursor of a list of the newest first.                        *)
(***************************************************************************)
EXTENDS TokenRotation, ListBrowsing, FiniteSetTheorems, TLAPS

-----------------------------------------------------------------------------
(* Refresh tokens.                                                          *)

TokensOK(t) ==
  /\ \A i \in DOMAIN t : t[i].parent # 0 => t[i].parent \in DOMAIN t /\ t[t[i].parent].revoked = TRUE
  /\ \A i, j \in DOMAIN t : i < j /\ t[i].parent = t[j].parent /\ t[i].parent # 0 => t[j].seen < i

\* The exchange e fits the tokens t.
FlowOK(e, t) ==
  /\ e.step \in {"register", "login"} => e.token = 0
  /\ e.step \in {"find", "revoke", "answered"} => e.token \in DOMAIN t
  /\ e.step = "save" /\ e.token # 0 => e.token \in DOMAIN t /\ t[e.token].revoked = TRUE
  /\ e.step \in {"revoke", "save"} /\ e.token # 0 =>
       /\ e.seen <= Len(t)
       /\ \A i \in DOMAIN t : t[i].parent = e.token => e.seen < i

Typed == tokens \in Seq(Token) /\ exchange \in [Flows -> Exchange] /\ now \in Nat

IInv == Typed /\ TokensOK(tokens) /\ \A f \in Flows : FlowOK(exchange[f], tokens)

\* Rows are added and revoked, never taken away.
Grows(t, u) ==
  /\ u \in Seq(Token) /\ Len(t) <= Len(u)
  /\ \A i \in DOMAIN t : u[i].parent = t[i].parent /\ (t[i].revoked = TRUE => u[i].revoked = TRUE)

\* An exchange goes on fitting tokens that only grow.
LEMMA FlowFitsGrowth ==
  ASSUME NEW e \in Exchange, NEW t \in Seq(Token), NEW u, Grows(t, u), FlowOK(e, t)
  PROVE  FlowOK(e, u)
<1>1. DOMAIN t = 1 .. Len(t) /\ DOMAIN u = 1 .. Len(u) /\ Len(t) \in Nat /\ Len(u) \in Nat
  BY DEF Grows
<1>2. DOMAIN t \subseteq DOMAIN u
  BY <1>1 DEF Grows
<1>3. ASSUME e.step \in {"revoke", "save"}, e.token # 0, NEW i \in DOMAIN u, u[i].parent = e.token
      PROVE  e.seen < i
  <2>1. e.seen \in Nat /\ e.seen <= Len(t)
    BY <1>3 DEF FlowOK, Exchange
  <2>2. CASE i \in DOMAIN t
    BY <2>2, <1>3 DEF FlowOK, Grows
  <2>3. CASE i \notin DOMAIN t
    BY <2>1, <2>3, <1>1
  <2> QED BY <2>2, <2>3
<1>4. e.step \in {"revoke", "save"} /\ e.token # 0 => e.seen <= Len(u)
  BY <1>1 DEF FlowOK, Grows, Exchange
<1>5. e.step = "save" /\ e.token # 0 => e.token \in DOMAIN u /\ u[e.token].revoked = TRUE
  BY <1>2 DEF FlowOK, Grows
<1> QED BY <1>2, <1>3, <1>4, <1>5 DEF FlowOK

\* A revoked row differs from the row in nothing else.
LEMMA SpentRow ==
  ASSUME NEW row \in Token
  PROVE  /\ Spent(row) \in Token
         /\ Spent(row).parent = row.parent /\ Spent(row).seen = row.seen /\ Spent(row).revoked = TRUE
<1>1. row.parent \in Nat /\ row.asker \in Flows /\ row.seen \in Nat /\ row.issued \in Nat
  BY DEF Token
<1>2. Spent(row) \in Token
  BY <1>1, Zenon DEF Token, Spent
<1> QED BY <1>2 DEF Spent

\* Revoking a token keeps the rows fit.
LEMMA RevokingFits ==
  ASSUME tokens \in Seq(Token), TokensOK(tokens), NEW i \in DOMAIN tokens
  PROVE  /\ Grows(tokens, Revoked(i)) /\ TokensOK(Revoked(i))
         /\ i \in DOMAIN Revoked(i) /\ Revoked(i)[i].revoked = TRUE
<1> DEFINE u == Revoked(i)
           r == Spent(tokens[i])
<1>0. tokens[i] \in Token
  OBVIOUS
<1>1. r \in Token /\ r.parent = tokens[i].parent /\ r.seen = tokens[i].seen /\ r.revoked = TRUE
  BY <1>0, SpentRow
<1>2. u = [tokens EXCEPT ![i] = r]
  BY DEF Revoked
<1> HIDE DEF r, u
<1>3. DOMAIN u = DOMAIN tokens /\ Len(u) = Len(tokens) /\ u \in Seq(Token)
  BY <1>1, <1>2
<1>4. \A k \in DOMAIN tokens : u[k] = IF k = i THEN r ELSE tokens[k]
  BY <1>2
<1>5. \A k \in DOMAIN tokens : u[k].parent = tokens[k].parent /\ u[k].seen = tokens[k].seen
  BY <1>1, <1>4
<1>6. \A k \in DOMAIN tokens : tokens[k].revoked = TRUE => u[k].revoked = TRUE
  BY <1>1, <1>4
<1>7. Grows(tokens, u)
  BY <1>3, <1>5, <1>6 DEF Grows
<1>8. TokensOK(u)
  BY <1>3, <1>5, <1>6 DEF TokensOK
<1> QED BY <1>1, <1>3, <1>4, <1>7, <1>8 DEF u

\* A pair saved by an exchange that fits the rows keeps them fit.
LEMMA SavingFits ==
  ASSUME Typed, TokensOK(tokens), NEW f \in Flows, exchange[f].step = "save",
         FlowOK(exchange[f], tokens)
  PROVE  Grows(tokens, Append(tokens, NewToken(f))) /\ TokensOK(Append(tokens, NewToken(f)))
<1> DEFINE n == NewToken(f)
<1>1. exchange[f] \in Exchange
  BY DEF Typed
<1>2. n \in Token /\ n.parent = exchange[f].token /\ n.seen = exchange[f].seen
  <2>1. exchange[f].token \in Nat /\ exchange[f].seen \in Nat /\ now \in Nat
    BY <1>1 DEF Exchange, Typed
  <2>2. n \in Token
    BY <2>1, Zenon DEF NewToken, Token
  <2> QED BY <2>2 DEF NewToken
<1> HIDE DEF n
<1> DEFINE u == Append(tokens, n)
<1>3. /\ tokens \in Seq(Token) /\ u \in Seq(Token) /\ Len(u) = Len(tokens) + 1
      /\ Len(tokens) \in Nat /\ DOMAIN tokens = 1 .. Len(tokens) /\ DOMAIN u = 1 .. Len(tokens) + 1
  BY <1>2 DEF Typed
<1>4. u[Len(tokens) + 1] = n /\ \A k \in DOMAIN tokens : u[k] = tokens[k]
  BY <1>2, <1>3
<1> HIDE DEF u
<1>5. Grows(tokens, u)
  BY <1>3, <1>4 DEF Grows
<1>6. ASSUME NEW i \in DOMAIN u, u[i].parent # 0
      PROVE  u[i].parent \in DOMAIN u /\ u[u[i].parent].revoked = TRUE
  <2>0. i = Len(tokens) + 1 \/ i \in DOMAIN tokens
    BY <1>3
  <2>1. CASE i = Len(tokens) + 1
    <3>1. exchange[f].token \in DOMAIN tokens /\ tokens[exchange[f].token].revoked = TRUE
      BY <2>1, <1>6, <1>4, <1>2 DEF FlowOK
    <3> QED BY <3>1, <2>1, <1>2, <1>3, <1>4
  <2>2. CASE i \in DOMAIN tokens
    <3>1. tokens[i].parent \in DOMAIN tokens /\ tokens[tokens[i].parent].revoked = TRUE
      BY <2>2, <1>6, <1>4 DEF TokensOK
    <3> QED BY <3>1, <2>2, <1>3, <1>4
  <2> QED BY <2>0, <2>1, <2>2
<1>7. ASSUME NEW i \in DOMAIN u, NEW j \in DOMAIN u, i < j, u[i].parent = u[j].parent, u[i].parent # 0
      PROVE  u[j].seen < i
  <2>1. i \in DOMAIN tokens
    BY <1>3, <1>7
  <2>2. CASE j = Len(tokens) + 1
    <3>1. tokens[i].parent = exchange[f].token /\ exchange[f].token # 0
      BY <2>1, <2>2, <1>2, <1>4, <1>7
    <3>2. exchange[f].seen < i
      BY <3>1, <2>1 DEF FlowOK
    <3> QED BY <3>2, <2>2, <1>2, <1>4
  <2>3. CASE j \in DOMAIN tokens
    BY <2>1, <2>3, <1>4, <1>7 DEF TokensOK
  <2> QED BY <2>2, <2>3, <1>3
<1> QED BY <1>5, <1>6, <1>7 DEF TokensOK, u, n

-----------------------------------------------------------------------------
(* The initial states, and the steps.                                       *)

LEMMA InitFits == ASSUME AuthInit({}) \/ AuthInit(Flows \ {Ghost}) PROVE IInv
<1>1. now \in Nat /\ exchange = [f \in Flows |-> NoExchange]
  BY DEF AuthInit
<1>2. \/ tokens = <<>>
      \/ \E f \in Flows : tokens = <<[parent |-> 0, asker |-> f, seen |-> 0, issued |-> 0, revoked |-> FALSE]>>
  BY DEF AuthInit, Sessions
<1>3. tokens \in Seq(Token) /\ \A i \in DOMAIN tokens : tokens[i].parent = 0
  <2>1. CASE tokens = <<>>
    BY <2>1
  <2>2. CASE \E f \in Flows : tokens = <<[parent |-> 0, asker |-> f, seen |-> 0, issued |-> 0, revoked |-> FALSE]>>
    <3>1. PICK f \in Flows : tokens = <<[parent |-> 0, asker |-> f, seen |-> 0, issued |-> 0, revoked |-> FALSE]>>
      BY <2>2
    <3>2. [parent |-> 0, asker |-> f, seen |-> 0, issued |-> 0, revoked |-> FALSE] \in Token
      BY DEF Token
    <3> QED BY <3>1, <3>2
  <2> QED BY <1>2, <2>1, <2>2
<1>4. TokensOK(tokens)
  BY <1>3 DEF TokensOK
<1>5. NoExchange \in Exchange /\ FlowOK(NoExchange, tokens)
  BY DEF NoExchange, Exchange, Steps, FlowOK
<1> QED BY <1>1, <1>3, <1>4, <1>5 DEF IInv, Typed

\* What a step leaves to show: tokens that grew and stayed fit, and for each flow
\* the exchange it had or one that fits.
LEMMA StepFits ==
  ASSUME IInv, Grows(tokens, tokens'), TokensOK(tokens'), now' \in Nat,
         exchange' \in [Flows -> Exchange],
         \A f \in Flows : exchange'[f] = exchange[f] \/ FlowOK(exchange'[f], tokens')
  PROVE  IInv'
<1>1. tokens' \in Seq(Token)
  BY DEF Grows
<1>2. \A f \in Flows : FlowOK(exchange'[f], tokens')
  <2> TAKE f \in Flows
  <2>1. CASE exchange'[f] = exchange[f]
    <3>1. exchange[f] \in Exchange /\ tokens \in Seq(Token) /\ FlowOK(exchange[f], tokens)
      BY DEF IInv, Typed
    <3>2. FlowOK(exchange[f], tokens')
      BY <3>1, FlowFitsGrowth
    <3> QED BY <3>2, <2>1
  <2>2. CASE FlowOK(exchange'[f], tokens')
    BY <2>2
  <2> QED BY <2>1, <2>2
<1> QED BY <1>1, <1>2 DEF IInv, Typed

\* Unchanged tokens stay fit.
LEMMA SameTokensFit ==
  ASSUME IInv, tokens' = tokens
  PROVE  Grows(tokens, tokens') /\ TokensOK(tokens')
BY DEF IInv, Typed, Grows

\* An exchange that asks nothing any more fits.
LEMMA RestFits ==
  ASSUME NEW e, NEW t, e.step \in {"idle", "refused", "broken"}
  PROVE  FlowOK(e, t)
BY DEF FlowOK

\* A flow that reaches a step, with the tokens as they are.
LEMMA ReachFits ==
  ASSUME IInv, NEW f \in Flows, NEW e \in Exchange, FlowOK(e, tokens), tokens' = tokens,
         now' \in Nat, exchange' = [exchange EXCEPT ![f] = e]
  PROVE  IInv'
<1>1. exchange' \in [Flows -> Exchange] /\ \A g \in Flows : exchange'[g] = IF g = f THEN e ELSE exchange[g]
  BY DEF IInv, Typed
<1>2. Grows(tokens, tokens') /\ TokensOK(tokens')
  BY SameTokensFit
<1>3. \A g \in Flows : exchange'[g] = exchange[g] \/ FlowOK(exchange'[g], tokens')
  BY <1>1
<1> QED BY <1>1, <1>2, <1>3, StepFits


\* A flow that reaches a step has the request it had.
LEMMA AtFits ==
  ASSUME IInv, NEW f \in Flows, NEW step \in Steps
  PROVE  /\ At(f, step) \in Exchange
         /\ At(f, step).step = step
         /\ At(f, step).token = exchange[f].token /\ At(f, step).seen = exchange[f].seen
BY DEF IInv, Typed, Exchange, At

LEMMA SignInFits ==
  ASSUME IInv, NEW f \in Flows, CreateUser(f) \/ FindUser(f)
  PROVE  IInv'
<1>1. exchange[f].token = 0 /\ exchange[f] \in Exchange
  BY DEF IInv, Typed, FlowOK, CreateUser, FindUser
<1>2. PICK step \in {"save", "refused"} : exchange' = [exchange EXCEPT ![f] = At(f, step)]
  BY DEF CreateUser, FindUser, Reaches
<1>3. tokens' = tokens /\ now' \in Nat
  BY DEF CreateUser, FindUser, IInv, Typed
<1>4. At(f, step) \in Exchange /\ FlowOK(At(f, step), tokens)
  BY <1>1, AtFits DEF FlowOK, Steps
<1> QED BY <1>2, <1>3, <1>4, ReachFits

LEMMA FindTokenFits == ASSUME IInv, NEW f \in Flows, FindToken(f) PROVE IInv'
<1> DEFINE t == exchange[f].token
<1>1. exchange[f] \in Exchange /\ t \in Nat /\ t \in DOMAIN tokens /\ Len(tokens) \in Nat
      /\ DOMAIN tokens = 1 .. Len(tokens)
  BY DEF IInv, Typed, FlowOK, FindToken, Exchange
<1>2. PICK accepted \in BOOLEAN :
        /\ accepted => tokens[t].revoked # TRUE
        /\ exchange' = [exchange EXCEPT ![f] =
             [step |-> IF accepted THEN "revoke" ELSE "refused", token |-> t, seen |-> Len(tokens)]]
  <2>1. RefreshValid(t) \in BOOLEAN /\ (RefreshValid(t) => tokens[t].revoked # TRUE)
    BY DEF RefreshValid
  <2> QED BY <2>1 DEF FindToken, Looked
<1> DEFINE e == [step |-> IF accepted THEN "revoke" ELSE "refused", token |-> t, seen |-> Len(tokens)]
<1>3. e \in Exchange
  BY <1>1 DEF Exchange, Steps
<1>4. FlowOK(e, tokens)
  <2>1. CASE accepted
    <3>0. tokens[t].revoked # TRUE
      BY <1>2, <2>1, Zenon
    <3>1. t # 0
      BY <1>1
    <3>2. ASSUME NEW i \in DOMAIN tokens PROVE tokens[i].parent # t
      BY <3>0, <3>1, Zenon DEF IInv, TokensOK
    <3> QED BY <3>2, <1>1, <2>1 DEF FlowOK
  <2>2. CASE ~accepted
    BY <2>2 DEF FlowOK
  <2> QED BY <2>1, <2>2
<1>5. tokens' = tokens /\ now' \in Nat /\ exchange' = [exchange EXCEPT ![f] = e]
  BY <1>2 DEF FindToken, IInv, Typed
<1> HIDE DEF e
<1> QED BY <1>3, <1>4, <1>5, ReachFits

\* A flow's exchange may become one that fits, while the tokens grow.
LEMMA GrowFits ==
  ASSUME IInv, NEW f \in Flows, NEW e \in Exchange, Grows(tokens, tokens'), TokensOK(tokens'),
         FlowOK(e, tokens'), now' \in Nat, exchange' = [exchange EXCEPT ![f] = e]
  PROVE  IInv'
<1>1. exchange' \in [Flows -> Exchange] /\ \A g \in Flows : exchange'[g] = IF g = f THEN e ELSE exchange[g]
  BY DEF IInv, Typed
<1>2. \A g \in Flows : exchange'[g] = exchange[g] \/ FlowOK(exchange'[g], tokens')
  BY <1>1
<1> QED BY <1>1, <1>2, StepFits

LEMMA RevokeTokenFits == ASSUME IInv, NEW f \in Flows, RevokeToken(f) PROVE IInv'
<1> DEFINE t == exchange[f].token
           e == At(f, "save")
<1>1. /\ t \in DOMAIN tokens /\ tokens \in Seq(Token) /\ TokensOK(tokens)
      /\ FlowOK(exchange[f], tokens) /\ exchange[f] \in Exchange
  BY DEF IInv, Typed, FlowOK, RevokeToken
<1>2. /\ tokens' = Revoked(t) /\ exchange' = [exchange EXCEPT ![f] = e] /\ now' \in Nat
  BY DEF RevokeToken, Reaches, IInv, Typed
<1>3. /\ Grows(tokens, tokens') /\ TokensOK(tokens')
      /\ t \in DOMAIN tokens' /\ tokens'[t].revoked = TRUE
  BY <1>1, <1>2, RevokingFits
<1>4. FlowOK(exchange[f], tokens')
  BY <1>1, <1>3, FlowFitsGrowth
<1>5. e \in Exchange /\ e.step = "save" /\ e.token = t /\ e.seen = exchange[f].seen
  BY AtFits DEF Steps
<1>6. exchange[f].step = "revoke"
  BY DEF RevokeToken
<1> HIDE DEF e
<1>7. FlowOK(e, tokens')
  BY <1>3, <1>4, <1>5, <1>6 DEF FlowOK
<1> QED BY <1>2, <1>3, <1>5, <1>7, GrowFits

LEMMA SaveTokenFits == ASSUME IInv, NEW f \in Flows, SaveToken(f) PROVE IInv'
<1>1. /\ Typed /\ TokensOK(tokens) /\ FlowOK(exchange[f], tokens) /\ exchange[f].step = "save"
      /\ tokens' = Append(tokens, NewToken(f)) /\ now' \in Nat
  BY DEF IInv, Typed, SaveToken
<1>2. Grows(tokens, tokens') /\ TokensOK(tokens')
  BY <1>1, SavingFits
<1>3. PICK e \in {NoExchange, [step |-> "answered", token |-> Len(tokens) + 1, seen |-> 0]} :
        exchange' = [exchange EXCEPT ![f] = e]
  BY DEF SaveToken
<1>4. e \in Exchange /\ FlowOK(e, tokens')
  <2>1. /\ Len(tokens) \in Nat /\ Len(tokens') \in Nat /\ Len(tokens') = Len(tokens) + 1
        /\ DOMAIN tokens' = 1 .. Len(tokens')
    <3>1. tokens \in Seq(Token) /\ tokens' \in Seq(Token)
      BY <1>1, <1>2 DEF Typed, Grows
    <3> QED BY <3>1, <1>1
  <2>2. CASE e = NoExchange
    BY <2>2, RestFits DEF NoExchange, Exchange, Steps
  <2>3. CASE e = [step |-> "answered", token |-> Len(tokens) + 1, seen |-> 0]
    BY <2>1, <2>3 DEF Exchange, Steps, FlowOK
  <2> QED BY <1>3, <2>2, <2>3
<1> QED BY <1>1, <1>2, <1>3, <1>4, GrowFits

LEMMA StatementFailsFits == ASSUME IInv, NEW f \in Flows, StatementFails(f) PROVE IInv'
<1> DEFINE e == At(f, "refused")
<1>1. e \in Exchange /\ e.step = "refused"
  BY AtFits DEF Steps
<1>2. exchange' = [exchange EXCEPT ![f] = e] /\ now' \in Nat
  BY DEF StatementFails, Reaches, IInv, Typed
<1> HIDE DEF e
<1>3. FlowOK(e, tokens')
  BY <1>1, RestFits
<1>4. Grows(tokens, tokens') /\ TokensOK(tokens')
  <2>1. CASE tokens' = tokens
    BY <2>1, SameTokensFit
  <2>2. CASE exchange[f].step = "revoke" /\ tokens' = Revoked(exchange[f].token)
    BY <2>2, RevokingFits DEF IInv, Typed, FlowOK
  <2>3. CASE exchange[f].step = "save" /\ tokens' = Append(tokens, NewToken(f))
    BY <2>3, SavingFits DEF IInv
  <2> QED BY <2>1, <2>2, <2>3 DEF StatementFails
<1> QED BY <1>1, <1>2, <1>3, <1>4, GrowFits

\* What is left of a request fits as the request did.
LEMMA StillServedFits ==
  ASSUME IInv, NEW f \in Flows
  PROVE  StillServed(f) \in Exchange /\ FlowOK(StillServed(f), tokens)
<1>1. exchange[f] \in Exchange /\ FlowOK(exchange[f], tokens)
  BY DEF IInv, Typed
<1>2. NoExchange \in Exchange /\ FlowOK(NoExchange, tokens)
  BY DEF NoExchange, Exchange, Steps, FlowOK
<1> QED BY <1>1, <1>2 DEF StillServed

LEMMA PartedFits ==
  ASSUME IInv, NEW f \in Flows, NEW left \in Exchange, NEW ghost \in Exchange,
         FlowOK(left, tokens), FlowOK(ghost, tokens), Parted(f, left, ghost),
         tokens' = tokens, now' \in Nat
  PROVE  IInv'
<1>1. \A g \in Flows : exchange[g] \in Exchange /\ FlowOK(exchange[g], tokens)
  BY DEF IInv, Typed
<1>2. exchange' \in [Flows -> Exchange]
  BY <1>1 DEF Parted
<1>3. \A g \in Flows : FlowOK(exchange'[g], tokens')
  BY <1>1 DEF Parted
<1>4. Grows(tokens, tokens') /\ TokensOK(tokens')
  BY SameTokensFit
<1> QED BY <1>2, <1>3, <1>4, StepFits

LEMMA ExchangeBreaksFits == ASSUME IInv, NEW f \in Flows, ExchangeBreaks(f) PROVE IInv'
<1> DEFINE broken == [step |-> "broken", token |-> 0, seen |-> 0]
<1>1. broken \in Exchange /\ FlowOK(broken, tokens)
  BY RestFits DEF Exchange, Steps
<1>2. PICK ghost \in {NoExchange, StillServed(f)} : Parted(f, broken, ghost)
  BY DEF ExchangeBreaks
<1>3. ghost \in Exchange /\ FlowOK(ghost, tokens)
  <2>1. NoExchange \in Exchange /\ FlowOK(NoExchange, tokens)
    BY DEF NoExchange, Exchange, Steps, FlowOK
  <2>2. StillServed(f) \in Exchange /\ FlowOK(StillServed(f), tokens)
    BY StillServedFits
  <2> QED BY <1>2, <2>1, <2>2
<1>4. tokens' = tokens /\ now' \in Nat
  BY DEF ExchangeBreaks, IInv, Typed
<1> HIDE DEF broken
<1> QED BY <1>1, <1>2, <1>3, <1>4, PartedFits

LEMMA HangUpFits == ASSUME IInv, NEW f \in Flows, HangUp(f) PROVE IInv'
<1>1. NoExchange \in Exchange /\ FlowOK(NoExchange, tokens)
  BY DEF NoExchange, Exchange, Steps, FlowOK
<1>2. tokens' = tokens /\ now' \in Nat /\ Parted(f, NoExchange, StillServed(f))
  BY DEF HangUp, IInv, Typed
<1> QED BY <1>1, <1>2, StillServedFits, PartedFits

\* A flow that rests: what was answered is heard, or the ghost ends.
LEMMA RestingFits ==
  ASSUME IInv, NEW f \in Flows, exchange' = [exchange EXCEPT ![f] = NoExchange],
         UNCHANGED <<now, tokens>>
  PROVE  IInv'
<1>1. NoExchange \in Exchange /\ FlowOK(NoExchange, tokens)
  BY DEF NoExchange, Exchange, Steps, FlowOK
<1>2. now' \in Nat
  BY DEF IInv, Typed
<1> QED BY <1>1, <1>2, ReachFits

LEMMA AskFits == ASSUME IInv, NEW f \in Flows, Ask(f) PROVE IInv'
<1>1. tokens' = tokens /\ now' \in Nat /\ tokens \in Seq(Token)
  BY DEF Ask, IInv, Typed
<1>2. CASE AskSignIn(f)
  <2>1. PICK way \in {"register", "login"} :
          exchange' = [exchange EXCEPT ![f] = [step |-> way, token |-> 0, seen |-> 0]]
    BY <1>2 DEF AskSignIn, AskLogin, AskAccount
  <2>2. [step |-> way, token |-> 0, seen |-> 0] \in Exchange
        /\ FlowOK([step |-> way, token |-> 0, seen |-> 0], tokens)
    BY <2>1 DEF Exchange, Steps, FlowOK
  <2> QED BY <1>1, <2>1, <2>2, ReachFits
<1>3. CASE \E t \in DOMAIN tokens : AskRefresh(f, t)
  <2>1. PICK t \in DOMAIN tokens :
          exchange' = [exchange EXCEPT ![f] = [step |-> "find", token |-> t, seen |-> 0]]
    BY <1>3 DEF AskRefresh
  <2>2. [step |-> "find", token |-> t, seen |-> 0] \in Exchange
        /\ FlowOK([step |-> "find", token |-> t, seen |-> 0], tokens)
    BY <1>1, <2>1 DEF Exchange, Steps, FlowOK
  <2> QED BY <1>1, <2>1, <2>2, ReachFits
<1> QED BY <1>2, <1>3 DEF Ask

LEMMA TickFits == ASSUME IInv, Tick \/ UNCHANGED authVars PROVE IInv'
<1>1. tokens' = tokens /\ exchange' = exchange /\ now' \in Nat
  BY DEF Tick, authVars, IInv, Typed
<1> QED BY <1>1 DEF IInv, Typed

LEMMA NextFits == ASSUME IInv, [AuthNext]_authVars PROVE IInv'
<1>1. ASSUME NEW f \in Flows, Handle(f) PROVE IInv'
  BY <1>1, SignInFits, FindTokenFits, RevokeTokenFits, SaveTokenFits DEF Handle
<1>2. ASSUME NEW f \in Flows, StatementFails(f) PROVE IInv'
  BY <1>2, StatementFailsFits
<1>3. ASSUME NEW f \in Flows, ExchangeBreaks(f) PROVE IInv'
  BY <1>3, ExchangeBreaksFits
<1>4. CASE GhostEnds
  BY <1>4, RestingFits, TokenAssumption DEF GhostEnds
<1>5. CASE Tick \/ UNCHANGED authVars
  BY <1>5, TickFits
<1>6. ASSUME NEW f \in Flows, Ask(f) PROVE IInv'
  BY <1>6, AskFits
<1>7. ASSUME NEW f \in Flows, Hear(f) PROVE IInv'
  BY <1>7, RestingFits DEF Hear, Heard
<1>8. ASSUME NEW f \in Flows, HangUp(f) PROVE IInv'
  BY <1>8, HangUpFits
<1> QED BY <1>1, <1>2, <1>3, <1>4, <1>5, <1>6, <1>7, <1>8 DEF AuthNext, GatewayNext

\* The other two variables.
Counted == registered \in BOOLEAN /\ faults \in Nat

LEMMA CountedFits == ASSUME Counted, [AuthNext]_authVars PROVE Counted'
<1>0. registered \in BOOLEAN /\ faults \in Nat
  BY DEF Counted
<1>1. ASSUME NEW f \in Flows, Handle(f) \/ StatementFails(f) \/ ExchangeBreaks(f) PROVE Counted'
  <2>1. faults' = faults \/ faults' = faults + 1
    BY <1>1 DEF Handle, CreateUser, FindUser, FindToken, RevokeToken, SaveToken,
                StatementFails, ExchangeBreaks
  <2>2. registered' = registered \/ registered' = TRUE
    BY <1>1, Zenon DEF Handle, CreateUser, FindUser, FindToken, RevokeToken, SaveToken,
                StatementFails, ExchangeBreaks
  <2>3. faults' \in Nat
    BY <1>0, <2>1
  <2>4. registered' \in BOOLEAN
    BY <1>0, <2>2, Zenon
  <2> QED BY <2>3, <2>4 DEF Counted
<1>2. ASSUME NEW f \in Flows, Ask(f) \/ Hear(f) \/ HangUp(f) PROVE Counted'
  <2>1. registered' = registered /\ (faults' = faults \/ faults' = faults + 1)
    BY <1>2 DEF Ask, Hear, HangUp
  <2> QED BY <1>0, <2>1 DEF Counted
<1>3. CASE GhostEnds \/ Tick \/ UNCHANGED authVars
  BY <1>3 DEF Counted, GhostEnds, Tick, authVars
<1> QED BY <1>1, <1>2, <1>3 DEF AuthNext, GatewayNext

-----------------------------------------------------------------------------

\* The types of the gateway's authentication, under whatever clients.
THEOREM AuthTypes == AuthSpec => []AuthTypeOK
<1>1. AuthInit({}) \/ AuthInit(Flows \ {Ghost}) => IInv /\ Counted
  BY InitFits DEF AuthInit, Counted
<1>2. IInv /\ Counted /\ [AuthNext]_authVars => IInv' /\ Counted'
  BY NextFits, CountedFits
<1>3. IInv /\ Counted => AuthTypeOK
  BY DEF IInv, Typed, Counted, AuthTypeOK
<1> QED BY <1>1, <1>2, <1>3, PTL DEF AuthSpec

\* For every number of flows, sign-ins, faults and moments: a refresh token buys
\* a second pair only in an exchange that looked it up before the first pair was
\* saved (Refresh: find, revoke and save are three statements).
THEOREM SpentOnce == AuthSpec => []TokenIsSpentOnce
<1>1. AuthInit({}) \/ AuthInit(Flows \ {Ghost}) => IInv
  BY InitFits
<1>2. IInv /\ [AuthNext]_authVars => IInv'
  BY NextFits
<1>3. IInv => TokenIsSpentOnce
  BY DEF IInv, TokensOK, TokenIsSpentOnce
<1> QED BY <1>1, <1>2, <1>3, PTL DEF AuthSpec

-----------------------------------------------------------------------------
(* What is refused while nothing fails.                                     *)

\* Whether f was given a token for this one.
GivenChild(f, t, rows) == \E i \in DOMAIN rows : rows[i].parent = t /\ rows[i].asker = f
HasChild(f, t) == GivenChild(f, t, tokens)

SpentByOther(f, t) == \E g \in Flows \ {f} : SpentBy(g, t)

\* What makes a refusal fair, while nothing fails: the ghost has nothing to do, a
\* revoked token was spent, and a flow that spent its token itself is not alone.
FairInv == faults = 0 =>
  /\ exchange[Ghost].step = "idle"
  /\ \A t \in DOMAIN tokens : tokens[t].revoked = TRUE => \E g \in Flows : SpentBy(g, t)
  /\ \A f \in Flows : exchange[f].step = "find" /\ HasChild(f, exchange[f].token) =>
       SpentByOther(f, exchange[f].token)
  /\ \A f \in Flows : exchange[f].step = "refused" /\ exchange[f].token # 0 =>
       /\ exchange[f].token \in DOMAIN tokens
       /\ RefreshExpired(exchange[f].token) \/ SpentByOther(f, exchange[f].token)

\* A flow that asks for a refresh has not spent the token, or is not alone.
AsksFairly(f) ==
  exchange'[f].step = "find" /\ exchange[f].step # "find" /\ HasChild(f, exchange'[f].token) =>
    SpentByOther(f, exchange'[f].token)

\* Rows are added, and revoked at most.
Extends(t, u) ==
  /\ u \in Seq(Token) /\ Len(t) \in Nat /\ Len(u) \in Nat /\ Len(t) <= Len(u)
  /\ DOMAIN t = 1 .. Len(t) /\ DOMAIN u = 1 .. Len(u)
  /\ \A i \in DOMAIN t :
       /\ u[i].parent = t[i].parent /\ u[i].asker = t[i].asker /\ u[i].issued = t[i].issued
       /\ t[i].revoked = TRUE => u[i].revoked = TRUE

\* Rows that stay as they are, are only added to.
LEMMA SameExtends == ASSUME tokens \in Seq(Token) PROVE Extends(tokens, tokens)
BY DEF Extends

\* So are rows of which one is revoked.
LEMMA RevokingExtends ==
  ASSUME tokens \in Seq(Token), NEW i \in DOMAIN tokens
  PROVE  /\ Extends(tokens, Revoked(i)) /\ Len(Revoked(i)) = Len(tokens)
         /\ \A k \in DOMAIN tokens : k # i => Revoked(i)[k] = tokens[k]
<1> DEFINE u == Revoked(i)
           r == Spent(tokens[i])
<1>0. tokens[i] \in Token
  OBVIOUS
<1>1. /\ r \in Token /\ r.parent = tokens[i].parent /\ r.revoked = TRUE
      /\ r.asker = tokens[i].asker /\ r.issued = tokens[i].issued
  BY <1>0, SpentRow DEF Spent
<1>2. u = [tokens EXCEPT ![i] = r]
  BY DEF Revoked
<1> HIDE DEF r, u
<1>3. DOMAIN u = DOMAIN tokens /\ Len(u) = Len(tokens) /\ u \in Seq(Token)
  BY <1>1, <1>2
<1>4. \A k \in DOMAIN tokens : u[k] = IF k = i THEN r ELSE tokens[k]
  BY <1>2
<1>5. Extends(tokens, u)
  BY <1>1, <1>3, <1>4 DEF Extends
<1> QED BY <1>3, <1>4, <1>5 DEF u

\* So are rows with a new one after them, and this is what the new one says.
LEMMA SavingExtends ==
  ASSUME Typed, NEW f \in Flows
  PROVE  LET u == Append(tokens, NewToken(f))
             n == Len(tokens) + 1
         IN /\ Extends(tokens, u) /\ Len(u) = n
            /\ \A k \in DOMAIN tokens : u[k] = tokens[k]
            /\ u[n].parent = exchange[f].token /\ u[n].asker = f
            /\ u[n].issued = now /\ u[n].revoked = FALSE
<1> DEFINE r == NewToken(f)
           u == Append(tokens, r)
<1>1. /\ r \in Token /\ r.parent = exchange[f].token /\ r.asker = f /\ r.issued = now /\ r.revoked = FALSE
  <2>1. exchange[f].token \in Nat /\ exchange[f].seen \in Nat /\ now \in Nat
    BY DEF Exchange, Typed
  <2>2. r \in Token
    BY <2>1, Zenon DEF NewToken, Token
  <2> QED BY <2>2 DEF NewToken
<1> HIDE DEF r
<1>3. /\ tokens \in Seq(Token) /\ u \in Seq(Token) /\ Len(u) = Len(tokens) + 1
      /\ Len(tokens) \in Nat /\ DOMAIN tokens = 1 .. Len(tokens) /\ DOMAIN u = 1 .. Len(tokens) + 1
  BY <1>1 DEF Typed
<1>4. u[Len(tokens) + 1] = r /\ \A k \in DOMAIN tokens : u[k] = tokens[k]
  BY <1>1, <1>3
<1> HIDE DEF u
<1>5. Extends(tokens, u)
  BY <1>3, <1>4 DEF Extends
<1> QED BY <1>1, <1>3, <1>4, <1>5 DEF u, r

\* A step that is no fault.
LEMMA FaultlessStep ==
  ASSUME Counted, FairInv, [AuthNext]_authVars, faults' = 0
  PROVE  /\ faults = 0
         /\ \/ \E f \in Flows : Handle(f)
            \/ \E f \in Flows \ {Ghost} : Ask(f) \/ Hear(f)
            \/ Tick \/ UNCHANGED authVars
<1>1. ASSUME NEW f \in Flows, StatementFails(f) \/ ExchangeBreaks(f) \/ HangUp(f) PROVE FALSE
  BY <1>1 DEF Counted, StatementFails, ExchangeBreaks, HangUp
<1>2. \/ \E f \in Flows : Handle(f)
      \/ \E f \in Flows \ {Ghost} : Ask(f) \/ Hear(f)
      \/ Tick \/ UNCHANGED authVars \/ GhostEnds
  BY <1>1 DEF AuthNext, GatewayNext
<1>3. faults = 0
  BY <1>2 DEF Handle, CreateUser, FindUser, FindToken, RevokeToken, SaveToken, Ask, Hear, Tick,
              authVars, GhostEnds
<1>4. ~GhostEnds
  BY <1>3 DEF FairInv, GhostEnds, IsIdle
<1> QED BY <1>2, <1>3, <1>4

\* The requests of the others stay as they are.
LEMMA OneFlowMoves ==
  ASSUME Typed, NEW f \in Flows, Handle(f) \/ Ask(f) \/ Hear(f)
  PROVE  \A g \in Flows \ {f} : exchange'[g] = exchange[g]
BY DEF Handle, CreateUser, FindUser, FindToken, RevokeToken, SaveToken, Ask, Hear,
       Reaches, Looked, AskSignIn, AskLogin, AskAccount, AskRefresh, Heard, Typed

\* Having been given a token, and having spent one, is for good.
LEMMA ChildrenStay ==
  ASSUME Extends(tokens, tokens'), NEW f, NEW t, HasChild(f, t)
  PROVE  HasChild(f, t)'
BY DEF Extends, HasChild, GivenChild

\* A flow that has spent a token, or is about to save the pair for it, has spent
\* it after every step that saves the pair or lets it be.
LEMMA SpendingStays ==
  ASSUME Extends(tokens, tokens'), NEW t, NEW g \in Flows, SpentBy(g, t),
         exchange[g].step = "save" /\ exchange[g].token = t =>
           (exchange'[g].step = "save" /\ exchange'[g].token = t) \/ HasChild(g, t)'
  PROVE  SpentBy(g, t)'
<1>1. CASE HasChild(g, t)
  <2>1. HasChild(g, t)'
    BY <1>1, ChildrenStay
  <2> QED BY <2>1 DEF HasChild, GivenChild, SpentBy
<1>2. CASE ~HasChild(g, t)
  BY <1>2 DEF HasChild, GivenChild, SpentBy
<1> QED BY <1>1, <1>2

\* What a handler does to the rows.
LEMMA HandlerExtends ==
  ASSUME IInv, NEW f \in Flows, Handle(f)
  PROVE  /\ Extends(tokens, tokens')
         /\ \A g \in Flows : exchange[g].step = "save" /\ exchange[g].token # 0 =>
              (exchange'[g].step = "save" /\ exchange'[g].token = exchange[g].token)
              \/ GivenChild(g, exchange[g].token, tokens')
<1>0. Typed /\ tokens \in Seq(Token)
  BY DEF IInv, Typed
<1>1. \A g \in Flows \ {f} : exchange'[g] = exchange[g]
  BY <1>0, OneFlowMoves
<1>2. CASE CreateUser(f) \/ FindUser(f) \/ FindToken(f)
  <2>1. tokens' = tokens /\ exchange[f].step # "save"
    BY <1>2 DEF CreateUser, FindUser, FindToken
  <2> QED BY <1>0, <1>1, <2>1, SameExtends
<1>3. CASE RevokeToken(f)
  <2>1. tokens' = Revoked(exchange[f].token) /\ exchange[f].step = "revoke"
    BY <1>3 DEF RevokeToken
  <2>2. exchange[f].token \in DOMAIN tokens
    BY <2>1 DEF IInv, FlowOK
  <2>3. Extends(tokens, tokens')
    BY <1>0, <2>1, <2>2, RevokingExtends
  <2> QED BY <1>1, <2>1, <2>3
<1>4. CASE SaveToken(f)
  <2>1. tokens' = Append(tokens, NewToken(f))
    BY <1>4 DEF SaveToken
  <2>2. /\ Extends(tokens, tokens') /\ Len(tokens') = Len(tokens) + 1
        /\ tokens'[Len(tokens) + 1].parent = exchange[f].token /\ tokens'[Len(tokens) + 1].asker = f
    BY <1>0, <2>1, SavingExtends
  <2>3. Len(tokens) + 1 \in DOMAIN tokens'
    BY <2>2 DEF Extends
  <2>4. GivenChild(f, exchange[f].token, tokens')
    BY <2>2, <2>3 DEF GivenChild
  <2> QED BY <1>1, <2>2, <2>4
<1> QED BY <1>2, <1>3, <1>4 DEF Handle


Excusable(f, t) == RefreshExpired(t) \/ SpentByOther(f, t)

\* What a step leaves to show of the invariant.
LEMMA FairStep ==
  ASSUME IInv, Typed, FairInv, faults = 0, Extends(tokens, tokens'), now <= now', now' \in Nat,
         \A g \in Flows : exchange[g].step = "save" /\ exchange[g].token # 0 =>
           (exchange'[g].step = "save" /\ exchange'[g].token = exchange[g].token)
           \/ GivenChild(g, exchange[g].token, tokens'),
         exchange'[Ghost].step = "idle",
         \A t \in DOMAIN tokens' : tokens'[t].revoked = TRUE =>
           (t \in DOMAIN tokens /\ tokens[t].revoked = TRUE) \/ \E g \in Flows : SpentBy(g, t)',
         \A g \in Flows : exchange'[g].step = "find" /\ GivenChild(g, exchange'[g].token, tokens') =>
           \/ exchange[g].step = "find" /\ exchange'[g].token = exchange[g].token
              /\ HasChild(g, exchange[g].token)
           \/ exchange'[g].token # 0 /\ SpentByOther(g, exchange'[g].token),
         \A g \in Flows : exchange'[g].step = "refused" /\ exchange'[g].token # 0 =>
           \/ exchange[g].step = "refused" /\ exchange'[g].token = exchange[g].token
           \/ exchange'[g].token \in DOMAIN tokens /\ Excusable(g, exchange'[g].token)
  PROVE  FairInv'
<1>1. ASSUME NEW t, t # 0, NEW g \in Flows, SpentBy(g, t) PROVE SpentBy(g, t)'
  <2>1. exchange[g].step = "save" /\ exchange[g].token = t =>
          (exchange'[g].step = "save" /\ exchange'[g].token = t) \/ HasChild(g, t)'
    BY <1>1 DEF HasChild
  <2> QED BY <1>1, <2>1, SpendingStays
<1>2. ASSUME NEW t, t # 0, NEW f \in Flows, SpentByOther(f, t) PROVE SpentByOther(f, t)'
  BY <1>1, <1>2 DEF SpentByOther
<1>3. ASSUME NEW t \in DOMAIN tokens, RefreshExpired(t) PROVE RefreshExpired(t)'
  <2>0. tokens[t] \in Token
    BY DEF Typed
  <2>1. tokens'[t].issued = tokens[t].issued /\ tokens[t].issued \in Nat
    BY <2>0 DEF Extends, Token
  <2> QED BY <1>3, <2>1, TokenAssumption DEF RefreshExpired, Typed
<1>4. DOMAIN tokens \subseteq DOMAIN tokens' /\ 0 \notin DOMAIN tokens
  BY DEF Extends
<1>5. ASSUME NEW t \in DOMAIN tokens, NEW f \in Flows, Excusable(f, t) PROVE Excusable(f, t)'
  BY <1>2, <1>3, <1>4, <1>5 DEF Excusable
<1>6. ASSUME NEW t \in DOMAIN tokens', tokens'[t].revoked = TRUE
      PROVE  \E g \in Flows : SpentBy(g, t)'
  <2>1. CASE t \in DOMAIN tokens /\ tokens[t].revoked = TRUE
    <3>1. PICK g \in Flows : SpentBy(g, t)
      BY <2>1 DEF FairInv
    <3> QED BY <1>1, <1>4, <2>1, <3>1
  <2> QED BY <1>6, <2>1
<1>7. ASSUME NEW f \in Flows, NEW t, t = exchange'[f].token, exchange'[f].step = "find", HasChild(f, t)'
      PROVE  SpentByOther(f, t)'
  <2>1. GivenChild(f, t, tokens')
    BY <1>7 DEF HasChild
  <2>2. CASE exchange[f].step = "find" /\ t = exchange[f].token /\ HasChild(f, t)
    <3>1. SpentByOther(f, t)
      BY <2>2 DEF FairInv
    <3>2. CASE t = 0
      <4>1. exchange[f].token \in DOMAIN tokens
        BY <2>2 DEF IInv, FlowOK
      <4> QED BY <1>4, <2>2, <3>2, <4>1
    <3> QED BY <1>2, <3>1, <3>2
  <2> QED BY <1>2, <1>7, <2>1, <2>2
<1>8. ASSUME NEW f \in Flows, NEW t, t = exchange'[f].token, t # 0, exchange'[f].step = "refused"
      PROVE  t \in DOMAIN tokens' /\ Excusable(f, t)'
  <2>1. t \in DOMAIN tokens /\ Excusable(f, t)
    BY <1>8 DEF FairInv, Excusable
  <2> QED BY <1>4, <1>5, <2>1
<1> QED BY <1>6, <1>7, <1>8 DEF FairInv, Excusable

\* What was seen is fair to refuse.
LEMMA RefusalIsFair ==
  ASSUME IInv, FairInv, faults = 0, NEW f \in Flows, exchange[f].step = "find",
         ~RefreshValid(exchange[f].token)
  PROVE  exchange[f].token \in DOMAIN tokens /\ Excusable(f, exchange[f].token)
<1> DEFINE t == exchange[f].token
<1>1. t \in DOMAIN tokens /\ t # 0
  BY DEF IInv, Typed, FlowOK
<1>2. CASE ~RefreshExpired(t)
  <2>1. tokens[t] \in Token
    BY <1>1 DEF IInv, Typed
  <2>2. tokens[t].revoked = TRUE
    BY <1>1, <1>2, <2>1 DEF RefreshValid, Token
  <2>3. PICK g \in Flows : SpentBy(g, t)
    BY <1>1, <2>2 DEF FairInv
  <2>4. CASE g = f
    <3>1. HasChild(f, t)
      BY <2>3, <2>4 DEF SpentBy, HasChild, GivenChild
    <3> QED BY <1>1, <3>1 DEF FairInv, Excusable
  <2> QED BY <1>1, <2>3, <2>4 DEF Excusable, SpentByOther
<1> QED BY <1>1, <1>2 DEF Excusable

\* A flow moves and the rows are as they were.
LEMMA FairMove ==
  ASSUME IInv, FairInv, faults = 0, NEW f \in Flows, NEW e, UNCHANGED <<now, tokens>>,
         exchange' = [exchange EXCEPT ![f] = e],
         exchange[f].step = "save" /\ exchange[f].token # 0 => e.step = "save" /\ e.token = exchange[f].token,
         f = Ghost => e.step = "idle",
         e.step = "find" /\ HasChild(f, e.token) => e.token # 0 /\ SpentByOther(f, e.token),
         e.step = "refused" /\ e.token # 0 => e.token \in DOMAIN tokens /\ Excusable(f, e.token)
  PROVE  FairInv'
<1>1. \A g \in Flows : exchange'[g] = IF g = f THEN e ELSE exchange[g]
  BY DEF IInv, Typed
<1>2. Typed /\ Extends(tokens, tokens') /\ now <= now' /\ now' \in Nat
  BY SameExtends DEF IInv, Typed
<1>3. \A g : \A t : GivenChild(g, t, tokens') <=> HasChild(g, t)
  BY DEF HasChild
<1>4. exchange'[Ghost].step = "idle"
  BY <1>1, TokenAssumption DEF FairInv
<1>5. \A g \in Flows : exchange'[g].step = "find" /\ GivenChild(g, exchange'[g].token, tokens') =>
           \/ exchange[g].step = "find" /\ exchange'[g].token = exchange[g].token
              /\ HasChild(g, exchange[g].token)
           \/ exchange'[g].token # 0 /\ SpentByOther(g, exchange'[g].token)
  BY <1>1, <1>3
<1>6. \A g \in Flows : exchange[g].step = "save" /\ exchange[g].token # 0 =>
           exchange'[g].step = "save" /\ exchange'[g].token = exchange[g].token
  BY <1>1
<1>7. \A g \in Flows : exchange'[g].step = "refused" /\ exchange'[g].token # 0 =>
           \/ exchange[g].step = "refused" /\ exchange'[g].token = exchange[g].token
           \/ exchange'[g].token \in DOMAIN tokens /\ Excusable(g, exchange'[g].token)
  BY <1>1
<1> QED BY <1>2, <1>4, <1>5, <1>6, <1>7, FairStep

\* A statement of a handler keeps refusals fair: whoever revokes a token is
\* saving a pair for it, and whoever refuses one has looked it up.
LEMMA HandlersAreFair ==
  ASSUME IInv, FairInv, faults = 0, NEW f \in Flows, Handle(f)
  PROVE  FairInv'
<1> DEFINE t == exchange[f].token
<1>0. Typed /\ tokens \in Seq(Token) /\ f # Ghost
  <2>1. exchange[f].step # "idle"
    BY DEF Handle, CreateUser, FindUser, FindToken, RevokeToken, SaveToken
  <2> QED BY <2>1 DEF IInv, Typed, FairInv
<1>1. CASE CreateUser(f) \/ FindUser(f)
  <2>1. PICK step \in {"save", "refused"} : exchange' = [exchange EXCEPT ![f] = At(f, step)]
    BY <1>1 DEF CreateUser, FindUser, Reaches
  <2>2. t = 0 /\ exchange[f].step # "save" /\ UNCHANGED <<now, tokens>>
    BY <1>1 DEF CreateUser, FindUser, IInv, FlowOK
  <2>3. At(f, step).step = step /\ At(f, step).token = t
    BY DEF At
  <2> QED BY <1>0, <2>1, <2>2, <2>3, FairMove
<1>2. CASE FindToken(f)
  <2> DEFINE ok == RefreshValid(t)
             e == [step |-> IF ok THEN "revoke" ELSE "refused", token |-> t, seen |-> Len(tokens)]
  <2>1. /\ exchange[f].step = "find" /\ UNCHANGED <<now, tokens>>
        /\ exchange' = [exchange EXCEPT ![f] = e]
    BY <1>2 DEF FindToken, Looked
  <2>2. ~ok => t \in DOMAIN tokens /\ Excusable(f, t)
    BY <2>1, RefusalIsFair
  <2>3. e.token = t /\ e.step # "find" /\ (e.step = "refused" => ~ok)
    OBVIOUS
  <2> HIDE DEF e, ok
  <2> QED BY <1>0, <2>1, <2>2, <2>3, FairMove
<1>3. CASE RevokeToken(f) \/ SaveToken(f)
  <2>1. Extends(tokens, tokens') /\ now' = now
    BY <1>3, HandlerExtends DEF RevokeToken, SaveToken
  <2>2. \A g \in Flows : exchange[g].step = "save" /\ exchange[g].token # 0 =>
              (exchange'[g].step = "save" /\ exchange'[g].token = exchange[g].token)
              \/ GivenChild(g, exchange[g].token, tokens')
    BY HandlerExtends
  <2>3. \A g \in Flows \ {f} : exchange'[g] = exchange[g]
    BY <1>0, OneFlowMoves
  <2>4. exchange'[Ghost].step = "idle"
    BY <1>0, <2>3, TokenAssumption DEF FairInv
  <2>5. exchange'[f].step \notin {"find", "refused"}
    BY <1>0, <1>3 DEF RevokeToken, SaveToken, Reaches, At, Typed
  <2>6. \A g \in Flows \ {f} : \A s : GivenChild(g, s, tokens') => HasChild(g, s)
    <3>1. CASE RevokeToken(f)
      <4>1. t \in DOMAIN tokens /\ tokens' = Revoked(t)
        BY <3>1 DEF RevokeToken, IInv, FlowOK
      <4>2. Extends(tokens, tokens') /\ Len(tokens') = Len(tokens)
        BY <1>0, <4>1, RevokingExtends
      <4> QED BY <4>2 DEF Extends, HasChild, GivenChild
    <3>2. CASE SaveToken(f)
      <4>1. tokens' = Append(tokens, NewToken(f))
        BY <3>2 DEF SaveToken
      <4>2. /\ Extends(tokens, tokens') /\ Len(tokens') = Len(tokens) + 1
            /\ tokens'[Len(tokens) + 1].asker = f
        BY <1>0, <4>1, SavingExtends
      <4>3. \A i \in DOMAIN tokens' : i = Len(tokens) + 1 \/ i \in DOMAIN tokens
        BY <4>2 DEF Extends
      <4> QED BY <4>2, <4>3 DEF Extends, HasChild, GivenChild
    <3> QED BY <1>3, <3>1, <3>2
  <2>7. ASSUME NEW k \in DOMAIN tokens', tokens'[k].revoked = TRUE
        PROVE  (k \in DOMAIN tokens /\ tokens[k].revoked = TRUE) \/ \E g \in Flows : SpentBy(g, k)'
    <3>1. CASE RevokeToken(f)
      <4>1. t \in DOMAIN tokens /\ tokens' = Revoked(t)
        BY <3>1 DEF RevokeToken, IInv, FlowOK
      <4>2. /\ Extends(tokens, tokens') /\ Len(tokens') = Len(tokens)
            /\ \A j \in DOMAIN tokens : j # t => tokens'[j] = tokens[j]
        BY <1>0, <4>1, RevokingExtends
      <4>3. exchange'[f].step = "save" /\ exchange'[f].token = t
        BY <1>0, <3>1 DEF RevokeToken, Reaches, At, Typed
      <4>4. SpentBy(f, t)'
        BY <4>3 DEF SpentBy
      <4>5. k \in DOMAIN tokens
        BY <4>2 DEF Extends
      <4>6. CASE k = t
        BY <4>3, <4>6 DEF SpentBy
      <4> QED BY <2>7, <4>2, <4>5, <4>6
    <3>2. CASE SaveToken(f)
      <4>1. tokens' = Append(tokens, NewToken(f))
        BY <3>2 DEF SaveToken
      <4>2. /\ Extends(tokens, tokens') /\ Len(tokens') = Len(tokens) + 1
            /\ tokens'[Len(tokens) + 1].revoked = FALSE
            /\ \A j \in DOMAIN tokens : tokens'[j] = tokens[j]
        BY <1>0, <4>1, SavingExtends
      <4>3. k = Len(tokens) + 1 \/ k \in DOMAIN tokens
        BY <4>2 DEF Extends
      <4> QED BY <2>7, <4>2, <4>3
    <3> QED BY <1>3, <3>1, <3>2
  <2>8. now <= now' /\ now' \in Nat
    BY <1>0, <2>1 DEF Typed
  <2>9. \A g \in Flows : exchange'[g].step = "find" /\ GivenChild(g, exchange'[g].token, tokens') =>
          exchange[g].step = "find" /\ exchange'[g].token = exchange[g].token /\ HasChild(g, exchange[g].token)
    BY <2>3, <2>5, <2>6
  <2>10. \A g \in Flows : exchange'[g].step = "refused" => exchange'[g] = exchange[g]
    BY <2>3, <2>5
  <2> QED BY <1>0, <2>1, <2>2, <2>4, <2>7, <2>8, <2>9, <2>10, FairStep
<1> QED BY <1>1, <1>2, <1>3 DEF Handle

\* A step of the gateway and of clients that ask fairly.
LEMMA FairNext ==
  ASSUME IInv, Counted, FairInv, [AuthNext]_authVars, \A f \in Flows : AsksFairly(f)
  PROVE  FairInv'
<1> SUFFICES ASSUME faults' = 0 PROVE FairInv'
  BY DEF FairInv
<1>0. Typed /\ faults = 0
  BY FaultlessStep DEF IInv
<1>1. ASSUME NEW f \in Flows, Handle(f) PROVE FairInv'
  BY <1>0, <1>1, HandlersAreFair
<1>2. ASSUME NEW f \in Flows \ {Ghost}, Hear(f) PROVE FairInv'
  <2>1. /\ exchange' = [exchange EXCEPT ![f] = NoExchange] /\ UNCHANGED <<now, tokens>>
        /\ exchange[f].step # "save"
    BY <1>2 DEF Hear, Heard
  <2>2. NoExchange.step = "idle"
    BY DEF NoExchange
  <2> QED BY <1>0, <2>1, <2>2, FairMove
<1>3. ASSUME NEW f \in Flows \ {Ghost}, Ask(f) PROVE FairInv'
  <2>1. exchange[f].step \notin {"find", "save"} /\ UNCHANGED <<now, tokens>>
    BY <1>3 DEF Ask, UnderWay
  <2>2. CASE AskSignIn(f)
    <3>1. PICK way \in {"register", "login"} :
            exchange' = [exchange EXCEPT ![f] = [step |-> way, token |-> 0, seen |-> 0]]
      BY <2>2 DEF AskSignIn, AskLogin, AskAccount
    <3> DEFINE e == [step |-> way, token |-> 0, seen |-> 0]
    <3>2. e.step \notin {"find", "refused"} /\ exchange' = [exchange EXCEPT ![f] = e]
      BY <3>1
    <3> HIDE DEF e
    <3> QED BY <1>0, <2>1, <3>2, FairMove
  <2>3. CASE \E t \in DOMAIN tokens : AskRefresh(f, t)
    <3>1. PICK t \in DOMAIN tokens :
            exchange' = [exchange EXCEPT ![f] = [step |-> "find", token |-> t, seen |-> 0]]
      BY <2>3 DEF AskRefresh
    <3> DEFINE e == [step |-> "find", token |-> t, seen |-> 0]
    <3>2. exchange'[f] = e /\ e.step = "find" /\ e.token = t /\ exchange' = [exchange EXCEPT ![f] = e]
      BY <1>0, <3>1 DEF Typed
    <3> HIDE DEF e
    <3>3. t # 0
      BY DEF IInv, Typed
    <3>4. HasChild(f, t) => SpentByOther(f, t)
      BY <2>1, <3>2 DEF AsksFairly
    <3> QED BY <1>0, <2>1, <3>2, <3>3, <3>4, FairMove
  <2> QED BY <1>3, <2>2, <2>3 DEF Ask
<1>4. CASE Tick \/ UNCHANGED authVars
  <2>1. UNCHANGED <<tokens, exchange>> /\ now <= now' /\ now' \in Nat
    BY <1>0, <1>4 DEF Tick, authVars, Typed
  <2>2. Extends(tokens, tokens')
    BY <1>0, <2>1, SameExtends DEF Typed
  <2>3. \A g : \A t : GivenChild(g, t, tokens') => HasChild(g, t)
    BY <2>1 DEF HasChild
  <2>4. exchange'[Ghost].step = "idle"
    BY <1>0, <2>1 DEF FairInv
  <2> QED BY <1>0, <2>1, <2>2, <2>3, <2>4, FairStep
<1> QED BY <1>1, <1>2, <1>3, <1>4, FaultlessStep

\* Nothing was issued in the future.
IssuedByNow == \A i \in DOMAIN tokens : tokens[i].issued <= now

\* What a step, a fault too, may do to the rows.
LEMMA RowsChange ==
  ASSUME IInv, [AuthNext]_authVars
  PROVE  /\ now <= now' /\ now \in Nat /\ now' \in Nat
         /\ Extends(tokens, tokens')
         /\ \/ Len(tokens') = Len(tokens)
            \/ /\ Len(tokens') = Len(tokens) + 1
               /\ tokens'[Len(tokens) + 1].issued = now /\ tokens'[Len(tokens) + 1].revoked = FALSE
               /\ \A k \in DOMAIN tokens : tokens'[k] = tokens[k]
<1>0. Typed /\ tokens \in Seq(Token)
  BY DEF IInv, Typed
<1>1. \/ tokens' = tokens
      \/ \E f \in Flows : exchange[f].step = "revoke" /\ tokens' = Revoked(exchange[f].token)
      \/ \E f \in Flows : tokens' = Append(tokens, NewToken(f))
  BY DEF AuthNext, GatewayNext, Handle, CreateUser, FindUser, FindToken, RevokeToken, SaveToken,
         StatementFails, ExchangeBreaks, GhostEnds, Tick, Ask, Hear, HangUp, authVars
<1>2. now' = now \/ now' = now + 1
  BY DEF AuthNext, GatewayNext, Handle, CreateUser, FindUser, FindToken, RevokeToken, SaveToken,
         StatementFails, ExchangeBreaks, GhostEnds, Tick, Ask, Hear, HangUp, authVars
<1>3. now <= now' /\ now \in Nat /\ now' \in Nat
  BY <1>0, <1>2 DEF Typed
<1>4. CASE tokens' = tokens
  BY <1>0, <1>3, <1>4, SameExtends
<1>5. ASSUME NEW f \in Flows, exchange[f].step = "revoke", tokens' = Revoked(exchange[f].token)
      PROVE  Extends(tokens, tokens') /\ Len(tokens') = Len(tokens)
  <2>1. exchange[f].token \in DOMAIN tokens
    BY <1>5 DEF IInv, FlowOK
  <2> QED BY <1>0, <1>5, <2>1, RevokingExtends
<1>6. ASSUME NEW f \in Flows, tokens' = Append(tokens, NewToken(f))
      PROVE  /\ Extends(tokens, tokens') /\ Len(tokens') = Len(tokens) + 1
             /\ tokens'[Len(tokens) + 1].issued = now /\ tokens'[Len(tokens) + 1].revoked = FALSE
             /\ \A k \in DOMAIN tokens : tokens'[k] = tokens[k]
  BY <1>0, <1>6, SavingExtends
<1> QED BY <1>1, <1>3, <1>4, <1>5, <1>6

\* One row more at most: each is an old one or the last.
LEMMA OldOrLast ==
  ASSUME NEW n \in Nat, NEW m, m = n \/ m = n + 1, NEW i \in 1 .. m
  PROVE  i \in 1 .. n \/ (i = n + 1 /\ m = n + 1)
OBVIOUS

\* No step issues a token in the future.
LEMMA IssuedFits == ASSUME IInv, IssuedByNow, [AuthNext]_authVars PROVE IssuedByNow'
<1>1. /\ now <= now' /\ now \in Nat /\ now' \in Nat /\ Extends(tokens, tokens')
      /\ \/ Len(tokens') = Len(tokens)
         \/ Len(tokens') = Len(tokens) + 1 /\ tokens'[Len(tokens) + 1].issued = now
  BY RowsChange
<1>2. \A i \in DOMAIN tokens : tokens[i] \in Token
  BY DEF IInv, Typed
<1> SUFFICES ASSUME NEW i \in DOMAIN tokens' PROVE tokens'[i].issued <= now'
  BY DEF IssuedByNow
<1>0. /\ DOMAIN tokens = 1 .. Len(tokens) /\ DOMAIN tokens' = 1 .. Len(tokens')
      /\ Len(tokens) \in Nat /\ Len(tokens') \in Nat
  BY <1>1 DEF Extends
<1>3. i \in DOMAIN tokens \/ (i = Len(tokens) + 1 /\ Len(tokens') = Len(tokens) + 1)
  <2>1. Len(tokens') = Len(tokens) \/ Len(tokens') = Len(tokens) + 1
    BY <1>1
  <2>2. i \in 1 .. Len(tokens')
    BY <1>0
  <2>3. i \in 1 .. Len(tokens) \/ (i = Len(tokens) + 1 /\ Len(tokens') = Len(tokens) + 1)
    BY <1>0, <2>1, <2>2, OldOrLast
  <2> QED BY <1>0, <2>3
<1>4. CASE i \in DOMAIN tokens
  <2>1. tokens'[i].issued = tokens[i].issued /\ tokens[i].issued <= now /\ tokens[i].issued \in Nat
    BY <1>1, <1>2, <1>4 DEF Extends, IssuedByNow, Token
  <2> QED BY <1>1, <2>1
<1> QED BY <1>1, <1>3, <1>4 DEF Extends

-----------------------------------------------------------------------------
(* Sorting by rank.                                                         *)

\* Total on S and strict, as a set of pairs.
IsOrder(R, S) ==
  /\ \A r \in S : <<r, r>> \notin R
  /\ \A r, s \in S : r # s => <<r, s>> \in R \/ <<s, r>> \in R
  /\ \A r, s, t \in S : <<r, s>> \in R /\ <<s, t>> \in R => <<r, t>> \in R

Below(R, S, r) == {s \in S : <<s, r>> \in R}

\* The members of S by their rank.
ByRank(R, S) ==
  [i \in 1 .. Cardinality(S) |-> CHOOSE r \in S : Cardinality(Below(R, S, r)) = i - 1]

LEMMA RankIsBounded ==
  ASSUME NEW S, IsFiniteSet(S), NEW R, IsOrder(R, S), NEW r \in S
  PROVE  /\ IsFiniteSet(Below(R, S, r))
         /\ Cardinality(Below(R, S, r)) \in 0 .. Cardinality(S) - 1
<1>1. Below(R, S, r) \in SUBSET (S \ {r})
  BY DEF Below, IsOrder
<1>2. IsFiniteSet(S \ {r}) /\ Cardinality(S \ {r}) = Cardinality(S) - 1
  BY FS_RemoveElement
<1>3. IsFiniteSet(Below(R, S, r)) /\ Cardinality(Below(R, S, r)) <= Cardinality(S) - 1
  BY <1>1, <1>2, FS_Subset
<1> QED BY <1>3, FS_CardinalityType

LEMMA RankGrows ==
  ASSUME NEW S, IsFiniteSet(S), NEW R, IsOrder(R, S), NEW r \in S, NEW s \in S, <<r, s>> \in R
  PROVE  Cardinality(Below(R, S, r)) < Cardinality(Below(R, S, s))
<1>1. Below(R, S, r) \in SUBSET Below(R, S, s) /\ r \in Below(R, S, s) /\ r \notin Below(R, S, r)
  BY DEF Below, IsOrder
<1>2. IsFiniteSet(Below(R, S, s))
  BY RankIsBounded
<1>3. /\ Cardinality(Below(R, S, r)) <= Cardinality(Below(R, S, s))
      /\ Cardinality(Below(R, S, r)) # Cardinality(Below(R, S, s))
  BY <1>1, <1>2, FS_Subset
<1>4. Cardinality(Below(R, S, r)) \in Int /\ Cardinality(Below(R, S, s)) \in Int
  BY RankIsBounded
<1> QED BY <1>3, <1>4

\* Every member has a place of its own, in the order.
LEMMA RankSorts ==
  ASSUME NEW S, IsFiniteSet(S), NEW R, IsOrder(R, S)
  PROVE  /\ Cardinality(S) \in Nat
         /\ ByRank(R, S) \in [1 .. Cardinality(S) -> S]
         /\ \A r \in S : \E i \in 1 .. Cardinality(S) : ByRank(R, S)[i] = r
         /\ \A i, j \in 1 .. Cardinality(S) : i < j => <<ByRank(R, S)[i], ByRank(R, S)[j]>> \in R
<1> DEFINE n == Cardinality(S)
           f == ByRank(R, S)
           rank == [r \in S |-> Cardinality(Below(R, S, r)) + 1]
<1>1. n \in Nat
  BY FS_CardinalityType
<1>2. \A r \in S : rank[r] \in 1 .. n
  BY <1>1, RankIsBounded
<1>3. \A r, s \in S : <<r, s>> \in R => rank[r] < rank[s]
  <2> TAKE r, s \in S
  <2> HAVE <<r, s>> \in R
  <2>1. Cardinality(Below(R, S, r)) < Cardinality(Below(R, S, s))
    BY RankGrows
  <2>2. Cardinality(Below(R, S, r)) \in Int /\ Cardinality(Below(R, S, s)) \in Int
    BY RankIsBounded
  <2> QED BY <2>1, <2>2
<1>4. rank \in [S -> 1 .. n]
  BY <1>2
<1>5. f = [i \in 1 .. n |-> CHOOSE r \in S : rank[r] = i]
  <2>1. \A i \in 1 .. n : \A r \in S : Cardinality(Below(R, S, r)) = i - 1 <=> rank[r] = i
    BY <1>1, RankIsBounded
  <2>2. \A i \in 1 .. n : (CHOOSE r \in S : Cardinality(Below(R, S, r)) = i - 1) = CHOOSE r \in S : rank[r] = i
    BY <2>1
  <2> QED BY <2>2 DEF ByRank
<1> HIDE DEF rank, n, f
<1>6. \A r, s \in S : rank[r] = rank[s] => r = s
  <2> SUFFICES ASSUME NEW r \in S, NEW s \in S, rank[r] = rank[s], r # s PROVE FALSE
    OBVIOUS
  <2>1. <<r, s>> \in R \/ <<s, r>> \in R
    BY DEF IsOrder
  <2>2. rank[r] < rank[s] \/ rank[s] < rank[r]
    BY <1>3, <2>1
  <2> QED BY <1>1, <1>2, <2>2
<1>7. rank \in Surjection(S, 1 .. n)
  <2>1. rank \in Injection(S, 1 .. n)
    BY <1>4, <1>6 DEF Injection, IsInjective
  <2>2. IsFiniteSet(1 .. n) /\ Cardinality(1 .. n) = n
    BY <1>1, FS_Interval
  <2> QED BY <2>1, <2>2, FS_Injection DEF n
<1>8. \A i \in 1 .. n : f[i] \in S /\ rank[f[i]] = i
  <2> TAKE i \in 1 .. n
  <2>1. \E r \in S : rank[r] = i
    BY <1>7 DEF Surjection
  <2>2. f[i] = CHOOSE r \in S : rank[r] = i
    BY <1>5
  <2> QED BY <2>1, <2>2
<1>9. \A r \in S : f[rank[r]] = r
  BY <1>2, <1>6, <1>8
<1>10. \A i, j \in 1 .. n : i < j => <<f[i], f[j]>> \in R
  <2> TAKE i, j \in 1 .. n
  <2> HAVE i < j
  <2>1. f[i] # f[j] /\ f[i] \in S /\ f[j] \in S
    BY <1>8
  <2>2. ~ rank[f[j]] < rank[f[i]]
    BY <1>8
  <2> QED BY <1>3, <2>1, <2>2 DEF IsOrder
<1>11. f \in [1 .. n -> S]
  BY <1>5, <1>8
<1> QED BY <1>1, <1>2, <1>9, <1>10, <1>11 DEF n, f

\* A sequence of the members of S in the order is the one by rank.
LEMMA SortingIsUnique ==
  ASSUME NEW S, IsFiniteSet(S), NEW R, IsOrder(R, S), NEW n \in Nat, NEW g \in [1 .. n -> S],
         \A r \in S : \E i \in 1 .. n : g[i] = r,
         \A i, j \in 1 .. n : i < j => <<g[i], g[j]>> \in R
  PROVE  g = ByRank(R, S)
<1>1. \A i, j \in 1 .. n : g[i] = g[j] => i = j
  <2> SUFFICES ASSUME NEW i \in 1 .. n, NEW j \in 1 .. n, g[i] = g[j], i # j PROVE FALSE
    OBVIOUS
  <2>1. i < j \/ j < i
    OBVIOUS
  <2>2. <<g[i], g[i]>> \in R
    BY <2>1
  <2> QED BY <2>2 DEF IsOrder
<1>2. n = Cardinality(S)
  <2>1. g \in Injection(1 .. n, S) /\ g \in Surjection(1 .. n, S)
    BY <1>1 DEF Injection, IsInjective, Surjection
  <2>2. IsFiniteSet(1 .. n) /\ Cardinality(1 .. n) = n
    BY FS_Interval
  <2> QED BY <2>1, <2>2, FS_Surjection
<1>3. \A i \in 1 .. n : Cardinality(Below(R, S, g[i])) = i - 1
  <2> TAKE i \in 1 .. n
  <2> DEFINE h == [j \in 1 .. i - 1 |-> g[j]]
  <2>1. \A j \in 1 .. i - 1 : j \in 1 .. n /\ g[j] \in Below(R, S, g[i])
    BY DEF Below
  <2>2. \A r \in Below(R, S, g[i]) : \E j \in 1 .. i - 1 : g[j] = r
    <3> TAKE r \in Below(R, S, g[i])
    <3>1. PICK j \in 1 .. n : g[j] = r
      BY DEF Below
    <3>2. <<g[j], g[i]>> \in R
      BY <3>1 DEF Below
    <3>3. ~ <<g[i], g[j]>> \in R /\ i # j
      BY <3>2 DEF IsOrder
    <3> QED BY <3>1, <3>3
  <2>3. h \in Surjection(1 .. i - 1, Below(R, S, g[i]))
    BY <2>1, <2>2 DEF Surjection
  <2>4. h \in Injection(1 .. i - 1, Below(R, S, g[i]))
    BY <1>1, <2>1 DEF Injection, IsInjective
  <2>5. IsFiniteSet(1 .. i - 1) /\ Cardinality(1 .. i - 1) = i - 1
    BY FS_Interval
  <2> HIDE DEF h
  <2> QED BY <2>3, <2>4, <2>5, FS_Surjection
<1>4. \A i \in 1 .. n : g[i] = ByRank(R, S)[i]
  <2> TAKE i \in 1 .. n
  <2>1. ByRank(R, S)[i] = CHOOSE r \in S : Cardinality(Below(R, S, r)) = i - 1
    BY <1>2 DEF ByRank
  <2>2. \A r \in S : Cardinality(Below(R, S, r)) = i - 1 => r = g[i]
    <3> TAKE r \in S
    <3> HAVE Cardinality(Below(R, S, r)) = i - 1
    <3>1. PICK j \in 1 .. n : g[j] = r
      OBVIOUS
    <3> QED BY <1>3, <3>1
  <2> QED BY <1>3, <2>1, <2>2
<1>5. ByRank(R, S) = [i \in 1 .. n |-> ByRank(R, S)[i]]
  BY <1>2 DEF ByRank
<1> QED BY <1>4, <1>5

-----------------------------------------------------------------------------
Keys == [id : Int, at : Int]

\* The list's order on the keys of S, and the keys beyond a cursor.
OrderOf(list, S) == {p \in S \X S : Precedes(list, p[1], p[2])}
Beyond(S, list, cursor) == {r \in S : \A c \in cursor : Precedes(list, c, r)}

LEMMA PrecedesIsOrder ==
  ASSUME NEW list
  PROVE  /\ \A r \in Keys : ~ Precedes(list, r, r)
         /\ \A r, s \in Keys : r # s => Precedes(list, r, s) \/ Precedes(list, s, r)
         /\ \A r, s, t \in Keys : Precedes(list, r, s) /\ Precedes(list, s, t) => Precedes(list, r, t)
<1>1. \A r, s \in Keys : r # s => r.id # s.id \/ r.at # s.at
  BY DEF Keys
<1>2. \A r \in Keys : r.id \in Int /\ r.at \in Int
  BY DEF Keys
<1> HIDE DEF Keys
<1>3. \A r \in Keys : ~ Precedes(list, r, r)
  BY <1>2 DEF Precedes
<1>4. \A r, s \in Keys : r # s => Precedes(list, r, s) \/ Precedes(list, s, r)
  BY <1>1, <1>2 DEF Precedes
<1>5. \A r, s, t \in Keys : Precedes(list, r, s) /\ Precedes(list, s, t) => Precedes(list, r, t)
  BY <1>2 DEF Precedes
<1> QED BY <1>3, <1>4, <1>5

LEMMA OrderOfKeys ==
  ASSUME NEW list, NEW S \in SUBSET Keys
  PROVE  IsOrder(OrderOf(list, S), S)
<1>1. \A r, s \in S : <<r, s>> \in OrderOf(list, S) <=> Precedes(list, r, s)
  BY DEF OrderOf
<1>2. \A r \in S : r \in Keys
  OBVIOUS
<1> HIDE DEF Keys
<1> QED BY <1>1, <1>2, PrecedesIsOrder DEF IsOrder

\* The rows after the cursor: all of them, once, in the list's order.
LEMMA RestSorts ==
  ASSUME NEW S \in SUBSET Keys, IsFiniteSet(S), NEW list, NEW cursor
  PROVE  LET T == Beyond(S, list, cursor)
             rest == Rest(S, list, cursor)
         IN /\ IsFiniteSet(T)
            /\ rest = ByRank(OrderOf(list, T), T)
            /\ rest \in Seq(T) /\ Len(rest) = Cardinality(T)
            /\ \A r \in T : \E i \in 1 .. Len(rest) : rest[i] = r
            /\ \A i, j \in 1 .. Len(rest) : i < j => Precedes(list, rest[i], rest[j])
<1> DEFINE T == Beyond(S, list, cursor)
           R == OrderOf(list, T)
<1>1. T \in SUBSET S
  BY DEF Beyond
<1>2. IsFiniteSet(T)
  <2> HIDE DEF T
  <2> QED BY <1>1, FS_Subset
<1>3. IsOrder(R, T)
  <2>1. T \in SUBSET Keys
    BY <1>1
  <2> HIDE DEF T
  <2> QED BY <2>1, OrderOfKeys
<1>4. Rest(S, list, cursor) = ByRank(R, T)
  <2>1. Rest(S, list, cursor) =
          [i \in 1 .. Cardinality(T) |->
             CHOOSE r \in T : Cardinality({s \in T : Precedes(list, s, r)}) = i - 1]
    BY DEF Rest, Sorted, Beyond
  <2>2. \A r \in T : {s \in T : Precedes(list, s, r)} = Below(R, T, r)
    BY DEF Below, OrderOf
  <2> HIDE DEF T, R
  <2> QED BY <2>1, <2>2 DEF ByRank
<1> HIDE DEF T
<1>5. /\ Cardinality(T) \in Nat
      /\ ByRank(R, T) \in [1 .. Cardinality(T) -> T]
      /\ \A r \in T : \E i \in 1 .. Cardinality(T) : ByRank(R, T)[i] = r
      /\ \A i, j \in 1 .. Cardinality(T) : i < j => <<ByRank(R, T)[i], ByRank(R, T)[j]>> \in R
  <2> HIDE DEF R
  <2> QED BY <1>2, <1>3, RankSorts
<1>6. \A r, s : <<r, s>> \in R => Precedes(list, r, s)
  BY DEF OrderOf
<1>7. ByRank(R, T) \in Seq(T) /\ Len(ByRank(R, T)) = Cardinality(T)
  <2> HIDE DEF R
  <2> QED BY <1>5
<1> QED BY <1>2, <1>4, <1>5, <1>6, <1>7 DEF T

\* After the k-th row come the rows from the next one on.
LEMMA RestFollows ==
  ASSUME NEW S \in SUBSET Keys, IsFiniteSet(S), NEW list, NEW k \in 1 .. Len(Rest(S, list, NoCursor))
  PROVE  LET all == Rest(S, list, NoCursor)
             rest == Rest(S, list, {all[k]})
         IN Len(rest) = Len(all) - k /\ \A i \in 1 .. Len(rest) : rest[i] = all[k + i]
<1> DEFINE all == Rest(S, list, NoCursor)
           n == Len(all)
           T == Beyond(S, list, {all[k]})
           g == [i \in 1 .. n - k |-> all[k + i]]
<1>1. Beyond(S, list, NoCursor) = S
  BY DEF Beyond, NoCursor
<1>2. /\ all \in Seq(S)
      /\ \A r \in S : \E i \in 1 .. n : all[i] = r
      /\ \A i, j \in 1 .. n : i < j => Precedes(list, all[i], all[j])
  BY <1>1, RestSorts
<1> HIDE DEF all
<1>3. n \in Nat /\ \A i \in 1 .. n : all[i] \in S /\ all[i] \in Keys
  <2> HIDE DEF Keys
  <2> QED BY <1>2
<1>4. \A i \in 1 .. n : Precedes(list, all[k], all[i]) <=> k < i
  <2> TAKE i \in 1 .. n
  <2>1. k \in 1 .. n
    BY DEF all
  <2>2. CASE k < i
    BY <1>2, <2>1, <2>2
  <2>3. CASE i = k
    BY <1>3, <2>1, <2>3, PrecedesIsOrder
  <2>4. CASE i < k
    BY <1>2, <1>3, <2>1, <2>4, PrecedesIsOrder
  <2> QED BY <1>3, <2>1, <2>2, <2>3, <2>4
<1>5. g \in [1 .. n - k -> T]
  <2>1. \A i \in 1 .. n - k : k + i \in 1 .. n /\ k < k + i
    BY <1>3
  <2>2. \A i \in 1 .. n - k : all[k + i] \in T
    BY <1>3, <1>4, <2>1 DEF Beyond
  <2> QED BY <2>2
<1>6. \A r \in T : \E i \in 1 .. n - k : g[i] = r
  <2> TAKE r \in T
  <2>1. r \in S /\ Precedes(list, all[k], r)
    BY DEF Beyond
  <2>2. PICK i \in 1 .. n : all[i] = r
    BY <1>2, <2>1
  <2>3. k < i
    BY <1>4, <2>1, <2>2
  <2>4. i - k \in 1 .. n - k /\ k + (i - k) = i
    BY <1>3, <2>3
  <2> QED BY <2>2, <2>4
<1>7. \A i, j \in 1 .. n - k : i < j => <<g[i], g[j]>> \in OrderOf(list, T)
  <2> TAKE i, j \in 1 .. n - k
  <2> HAVE i < j
  <2>1. k + i \in 1 .. n /\ k + j \in 1 .. n /\ k + i < k + j
    BY <1>3
  <2>2. Precedes(list, g[i], g[j])
    BY <1>2, <2>1
  <2>3. g[i] \in T /\ g[j] \in T
    BY <1>5
  <2> HIDE DEF T, g
  <2> QED BY <2>2, <2>3 DEF OrderOf
<1>8. IsFiniteSet(T) /\ Rest(S, list, {all[k]}) = ByRank(OrderOf(list, T), T)
  BY RestSorts
<1>9. T \in SUBSET Keys
  BY DEF Beyond
<1>10. n - k \in Nat
  BY <1>3 DEF all
<1> HIDE DEF T, g
<1>11. g = Rest(S, list, {all[k]})
  <2>1. IsOrder(OrderOf(list, T), T)
    BY <1>9, OrderOfKeys
  <2>2. g = ByRank(OrderOf(list, T), T)
    BY <1>5, <1>6, <1>7, <1>8, <1>10, <2>1, SortingIsUnique, SMTT(30)
  <2> QED BY <1>8, <2>2
<1>12. Len(g) = n - k /\ \A i \in 1 .. n - k : g[i] = all[k + i]
  BY <1>5, <1>10 DEF g
<1> QED BY <1>11, <1>12 DEF all

\* A page, and the cursor after it.
LEMMA PageIsRead ==
  ASSUME NEW S \in SUBSET Keys, IsFiniteSet(S), NEW list, NEW cursor, NEW limit \in Nat \ {0}
  PROVE  LET page == Page(S, list, cursor, limit)
             next == NextCursor(S, list, cursor, limit)
             rest == Rest(S, list, cursor)
         IN /\ page \in Seq(S) /\ Len(page) <= Len(rest)
            /\ \A i \in DOMAIN page : page[i] = rest[i] /\ page[i] \in Beyond(S, list, cursor)
            /\ \A i, j \in DOMAIN page : i < j => Precedes(list, page[i], page[j])
            /\ next = NoCursor => Len(page) = Len(rest) /\ Beyond(S, list, cursor) \subseteq ToSet(page)
            /\ next # NoCursor =>
                 /\ page # << >> /\ next = {page[Len(page)]}
                 /\ \A r \in Beyond(S, list, cursor) : r \in ToSet(page) \/ Precedes(list, page[Len(page)], r)
<1> DEFINE rest == Rest(S, list, cursor)
           T == Beyond(S, list, cursor)
           n == Len(rest)
           m == Min({limit, n})
           page == Page(S, list, cursor, limit)
           next == NextCursor(S, list, cursor, limit)
<1>1. /\ rest \in Seq(T)
      /\ \A r \in T : \E i \in 1 .. n : rest[i] = r
      /\ \A i, j \in 1 .. n : i < j => Precedes(list, rest[i], rest[j])
  BY RestSorts
<1>2. T \subseteq S
  BY DEF Beyond
<1>3. page = SubSeq(rest, 1, m)
  BY DEF Page
<1>4. next = IF n > limit THEN {rest[limit]} ELSE {}
  BY DEF NextCursor, NoCursor
<1> HIDE DEF rest, T, page, next
<1>5. n \in Nat /\ m = IF n > limit THEN limit ELSE n
  <2>1. n \in Nat
    BY <1>1
  <2>2. \A x : x \in {limit, n} /\ (\A y \in {limit, n} : x =< y) <=> x = IF n > limit THEN limit ELSE n
    BY <2>1
  <2> HIDE DEF n
  <2> QED BY <2>1, <2>2 DEF Min
<1> HIDE DEF m
<1>6. /\ page \in Seq(T) /\ Len(page) = m /\ m \in 0 .. n
      /\ \A i \in 1 .. m : page[i] = rest[i]
  <2>1. m \in 0 .. n
    BY <1>5
  <2>2. \A i \in 1 .. m : i \in 1 .. n
    BY <1>5, <2>1
  <2> HIDE DEF n
  <2> QED BY <1>1, <1>3, <1>5, <2>1, <2>2 DEF n
<1>7. /\ DOMAIN page = 1 .. m /\ page \in Seq(S)
      /\ \A i \in DOMAIN page : page[i] \in T /\ page[i] = rest[i]
      /\ \A i, j \in DOMAIN page : i < j => Precedes(list, page[i], page[j])
  <2> HIDE DEF m, n
  <2>1. DOMAIN page = 1 .. m
    BY <1>6
  <2>2. page \in Seq(S) /\ \A i \in DOMAIN page : page[i] \in T /\ page[i] = rest[i]
    BY <1>2, <1>6, <2>1
  <2>3. ASSUME NEW i \in 1 .. m, NEW j \in 1 .. m, i < j
        PROVE  Precedes(list, page[i], page[j])
    <3>1. page[i] = rest[i] /\ page[j] = rest[j] /\ i \in 1 .. n /\ j \in 1 .. n
      BY <1>5, <1>6
    <3> QED BY <1>1, <2>3, <3>1
  <2> QED BY <2>1, <2>2, <2>3
<1>8. \A r \in T : r \in ToSet(page) \/ \E i \in m + 1 .. n : r = rest[i]
  <2> TAKE r \in T
  <2>1. PICK i \in 1 .. n : rest[i] = r
    BY <1>1
  <2>2. CASE i <= m
    BY <1>6, <1>7, <2>1, <2>2 DEF ToSet
  <2>3. CASE ~ i <= m
    BY <1>5, <1>6, <2>1, <2>3
  <2> QED BY <2>2, <2>3
<1>9. ASSUME next = {} PROVE Len(page) = n /\ T \subseteq ToSet(page)
  <2>1. m = n
    BY <1>4, <1>5, <1>9
  <2> QED BY <1>5, <1>6, <1>8, <2>1
<1>10. ASSUME next # {}
       PROVE  /\ page # << >> /\ next = {page[Len(page)]}
              /\ \A r \in T : r \in ToSet(page) \/ Precedes(list, page[Len(page)], r)
  <2>1. m = limit /\ n > limit /\ next = {rest[limit]}
    BY <1>4, <1>5, <1>10
  <2>2. page[Len(page)] = rest[m] /\ page # << >>
    BY <1>6, <2>1
  <2>3. \A i \in m + 1 .. n : Precedes(list, rest[m], rest[i])
    BY <1>1, <1>5, <2>1, SMTT(30)
  <2> QED BY <1>8, <2>1, <2>2, <2>3
<1> QED BY <1>5, <1>6, <1>7, <1>9, <1>10 DEF rest, T, page, next, NoCursor

-----------------------------------------------------------------------------
(* What a statement does to the tables.                                     *)

LEMMA FewerAreUnique ==
  ASSUME NEW n \in Nat, NEW rows, \A x \in rows : x.id \in Nat, Unique(rows, n), NEW some \in SUBSET rows
  PROVE  Unique(some, n + 1)
<1>1. IsFiniteSet(some)
  BY FS_Subset DEF Unique
<1>2. \A x \in some : x.id < 10 + (n + 1) /\ \A y \in some : x.id = y.id => x = y
  BY DEF Unique
<1> QED BY <1>1, <1>2 DEF Unique

LEMMA NewIsUnique ==
  ASSUME NEW n \in Nat, NEW rows, \A x \in rows : x.id \in Nat, Unique(rows, n), NEW r, r.id = 10 + n
  PROVE  Unique(rows \cup {r}, n + 1)
<1>1. IsFiniteSet(rows \cup {r})
  BY FS_AddElement DEF Unique
<1>2. \A x \in rows : x.id # r.id /\ x.id < 10 + (n + 1)
  BY DEF Unique
<1>3. r.id < 10 + (n + 1)
  OBVIOUS
<1> QED BY <1>1, <1>2, <1>3 DEF Unique

LEMMA ChangedIsUnique ==
  ASSUME NEW n \in Nat, NEW rows, \A x \in rows : x.id \in Nat, Unique(rows, n),
         NEW old \in rows, NEW r, r.id = old.id
  PROVE  Unique((rows \ {old}) \cup {r}, n + 1)
<1>1. IsFiniteSet(rows \ {old})
  BY FS_RemoveElement DEF Unique
<1>2. IsFiniteSet((rows \ {old}) \cup {r})
  BY <1>1, FS_AddElement
<1>3. \A x \in rows \ {old} : x.id # r.id /\ x.id < 10 + (n + 1)
  BY DEF Unique
<1>4. r.id < 10 + (n + 1)
  BY DEF Unique
<1> QED BY <1>2, <1>3, <1>4 DEF Unique

Point == [id : Nat, device : Devices, at : Int]
Trip == [id : Nat, device : Devices, active : BOOLEAN, started : Int, duration : Int]
Part == [trip : Nat, id : Nat, device : Devices, at : Int]
Route == [id : Nat, device : Devices, updated : Int, first : Nat, last : Nat]
LinkRow == [route : Nat, trip : Nat, matched : Int, duration : Int]

LEMMA TablesTyped ==
  Tables = [points : SUBSET Point, trips : SUBSET Trip, parts : SUBSET Part,
            routes : SUBSET Route, links : SUBSET LinkRow, linking : SUBSET LinkRow]
BY DEF Tables, Point, Trip, Part, Route, LinkRow

\* The columns the lemmas below use, of each table.
LEMMA Columns ==
  ASSUME NEW t \in Tables
  PROVE  /\ t.points \in SUBSET Point /\ \A p \in t.points : p.id \in Nat /\ p.at \in Int
         /\ t.trips \in SUBSET Trip
         /\ \A x \in t.trips : x.id \in Nat /\ x.started \in Int /\ x.duration \in Int /\ x.device \in Devices
         /\ t.parts \in SUBSET Part /\ \A x \in t.parts : x.id \in Nat /\ x.trip \in Nat
         /\ t.routes \in SUBSET Route
         /\ \A r \in t.routes : r.id \in Nat /\ r.updated \in Int /\ r.first \in Nat /\ r.last \in Nat
         /\ t.links \in SUBSET LinkRow /\ t.linking \in SUBSET LinkRow
         /\ \A l \in t.links \cup t.linking : l.trip \in Nat /\ l.matched \in Int /\ l.duration \in Int
<1>1. /\ t.points \in SUBSET Point /\ t.trips \in SUBSET Trip /\ t.parts \in SUBSET Part
      /\ t.routes \in SUBSET Route /\ t.links \in SUBSET LinkRow /\ t.linking \in SUBSET LinkRow
  BY TablesTyped
<1>2. \A p \in t.points : p.id \in Nat /\ p.at \in Int
  BY <1>1 DEF Point
<1>3. \A x \in t.trips : x.id \in Nat /\ x.started \in Int /\ x.duration \in Int /\ x.device \in Devices
  BY <1>1 DEF Trip
<1>4. \A x \in t.parts : x.id \in Nat /\ x.trip \in Nat
  BY <1>1 DEF Part
<1>5. \A r \in t.routes : r.id \in Nat /\ r.updated \in Int /\ r.first \in Nat /\ r.last \in Nat
  BY <1>1 DEF Route
<1>6. \A l \in t.links \cup t.linking : l.trip \in Nat /\ l.matched \in Int /\ l.duration \in Int
  BY <1>1 DEF LinkRow
<1> QED BY <1>1, <1>2, <1>3, <1>4, <1>5, <1>6

\* The tables with these contents, where a conjunct is about what changed.
LEMMA TablesFit ==
  ASSUME NEW t \in Tables, NEW n \in Nat, TablesOK(t, n), NEW u,
         u \in Tables,
         (u.points = t.points /\ u.parts = t.parts) \/ PointsOK(u.points, u.parts, n + 1),
         u.trips = t.trips \/ Unique(u.trips, n + 1),
         (u.routes = t.routes /\ u.trips = t.trips) \/ RoutesOK(u.routes, u.trips, n + 1),
         (u.links = t.links /\ u.linking = t.linking /\ u.trips = t.trips) \/
           LinksOK(u.links, u.linking, u.trips, n + 1)
  PROVE  TablesOK(u, n + 1)
<1>1. PointsOK(t.points, t.parts, n + 1)
  <2>1. Unique(t.points, n + 1)
    BY Columns, FewerAreUnique DEF TablesOK, PointsOK
  <2>2. \A x \in t.parts : x.id < 10 + (n + 1)
    BY Columns DEF TablesOK, PointsOK
  <2> QED BY <2>1, <2>2 DEF TablesOK, PointsOK
<1>2. Unique(t.trips, n + 1)
  BY Columns, FewerAreUnique DEF TablesOK
<1>3. RoutesOK(t.routes, t.trips, n + 1)
  <2>1. Unique(t.routes, n + 1)
    BY Columns, FewerAreUnique DEF TablesOK, RoutesOK
  <2>2. \A r \in t.routes : r.updated < 10 + (n + 1)
    BY Columns DEF TablesOK, RoutesOK
  <2> QED BY <2>1, <2>2 DEF TablesOK, RoutesOK
<1>4. LinksOK(t.links, t.linking, t.trips, n + 1)
  <2>1. \A l \in t.links \cup t.linking : l.trip < 10 + (n + 1) /\ l.matched < 10 + (n + 1)
    BY Columns DEF TablesOK, LinksOK
  <2> QED BY <2>1 DEF TablesOK, LinksOK
<1> QED BY <1>1, <1>2, <1>3, <1>4 DEF TablesOK

-----------------------------------------------------------------------------
(* The keys a list may show.                                                *)

Timed(list) == list \in {"routes", "route_trips", "attempts"}

KeysOf(t, list) ==
  CASE list \in {"points", "trip_points"}   -> {Row(p.id, p.at) : p \in t.points}
    [] list = "trips"                       -> {Row(x.id, x.started) : x \in t.trips}
    [] list = "routes"                      -> {Row(r.id, r.updated) : r \in t.routes}
    [] list \in {"route_trips", "attempts"} -> {Row(l.trip, l.matched) : l \in t.links \cup t.linking}

\* From t to u a key stays, or is new, or is that of a later time.
Moves(t, u, n) ==
  \A list \in Lists : \A k \in KeysOf(u, list) :
    k \in KeysOf(t, list) \/ k.id = 10 + n \/ (Timed(list) /\ k.at = 10 + n)

LEMMA KeysMove ==
  ASSUME NEW t, NEW u, NEW n \in Nat,
         \A p \in u.points : p \in t.points \/ p.id = 10 + n,
         \A x \in u.trips : x.id = 10 + n \/ \E y \in t.trips : x.id = y.id /\ x.started = y.started,
         \A r \in u.routes : r \in t.routes \/ r.updated = 10 + n,
         \A l \in u.links \cup u.linking : l \in t.links \cup t.linking \/ l.matched = 10 + n
  PROVE  Moves(t, u, n)
<1> SUFFICES ASSUME NEW list \in Lists, NEW k \in KeysOf(u, list)
             PROVE  k \in KeysOf(t, list) \/ k.id = 10 + n \/ (Timed(list) /\ k.at = 10 + n)
  BY DEF Moves
<1>1. CASE list \in {"points", "trip_points"}
  BY <1>1 DEF KeysOf, Row
<1>2. CASE list = "trips"
  BY <1>2 DEF KeysOf, Row
<1>3. CASE list = "routes"
  BY <1>3 DEF KeysOf, Row, Timed
<1>4. CASE list \in {"route_trips", "attempts"}
  BY <1>4 DEF KeysOf, Row, Timed
<1> QED BY <1>1, <1>2, <1>3, <1>4 DEF Lists

LEMMA KeysAreUnique ==
  ASSUME NEW t, NEW n \in Nat, TablesOK(t, n), NEW list \in Lists
  PROVE  /\ KeysOf(t, list) \in SUBSET Keys /\ IsFiniteSet(KeysOf(t, list))
         /\ \A k \in KeysOf(t, list) : k.id < 10 + n /\ (Timed(list) => k.at < 10 + n)
         /\ \A k, m \in KeysOf(t, list) : k.id = m.id => k = m
<1>1. t \in Tables
  BY DEF TablesOK
<1>2. CASE list \in {"points", "trip_points"}
  <2> DEFINE f == [p \in t.points |-> Row(p.id, p.at)]
  <2>1. KeysOf(t, list) = {Row(p.id, p.at) : p \in t.points} /\ ~ Timed(list)
    BY <1>2 DEF KeysOf, Timed
  <2>2. f \in Surjection(t.points, KeysOf(t, list))
    BY <2>1 DEF Surjection
  <2>3. IsFiniteSet(KeysOf(t, list))
    BY <2>2, FS_Surjection DEF TablesOK, PointsOK, Unique
  <2>4. \A p \in t.points : Row(p.id, p.at) \in Keys /\ Row(p.id, p.at).id = p.id
    BY <1>1, Columns DEF Row, Keys
  <2> QED BY <1>2, <2>1, <2>3, <2>4 DEF TablesOK, PointsOK, Unique
<1>3. CASE list = "trips"
  <2> DEFINE f == [p \in t.trips |-> Row(p.id, p.started)]
  <2>1. KeysOf(t, list) = {Row(p.id, p.started) : p \in t.trips} /\ ~ Timed(list)
    BY <1>3 DEF KeysOf, Timed
  <2>2. f \in Surjection(t.trips, KeysOf(t, list))
    BY <2>1 DEF Surjection
  <2>3. IsFiniteSet(KeysOf(t, list))
    BY <2>2, FS_Surjection DEF TablesOK, Unique
  <2>4. \A p \in t.trips : Row(p.id, p.started) \in Keys /\ Row(p.id, p.started).id = p.id
    BY <1>1, Columns DEF Row, Keys
  <2> QED BY <1>3, <2>1, <2>3, <2>4 DEF TablesOK, Unique
<1>4. CASE list = "routes"
  <2> DEFINE f == [p \in t.routes |-> Row(p.id, p.updated)]
  <2>1. KeysOf(t, list) = {Row(p.id, p.updated) : p \in t.routes}
    BY <1>4 DEF KeysOf
  <2>2. f \in Surjection(t.routes, KeysOf(t, list))
    BY <2>1 DEF Surjection
  <2>3. IsFiniteSet(KeysOf(t, list))
    BY <2>2, FS_Surjection DEF TablesOK, RoutesOK, Unique
  <2>4. \A p \in t.routes : /\ Row(p.id, p.updated) \in Keys
                            /\ Row(p.id, p.updated).id = p.id /\ Row(p.id, p.updated).at = p.updated
    BY <1>1, Columns DEF Row, Keys
  <2> QED BY <1>4, <2>1, <2>3, <2>4 DEF TablesOK, RoutesOK, Unique
<1>5. CASE list \in {"route_trips", "attempts"}
  <2> DEFINE all == t.links \cup t.linking
             f == [p \in all |-> Row(p.trip, p.matched)]
  <2>1. KeysOf(t, list) = {Row(p.trip, p.matched) : p \in all}
    BY <1>5 DEF KeysOf
  <2>2. f \in Surjection(all, KeysOf(t, list))
    BY <2>1 DEF Surjection
  <2>3. IsFiniteSet(KeysOf(t, list))
    BY <2>2, FS_Surjection DEF TablesOK, LinksOK
  <2>4. \A p \in all : /\ Row(p.trip, p.matched) \in Keys
                       /\ Row(p.trip, p.matched).id = p.trip /\ Row(p.trip, p.matched).at = p.matched
    BY <1>1, Columns DEF Row, Keys
  <2> QED BY <1>5, <2>1, <2>3, <2>4 DEF TablesOK, LinksOK
<1> QED BY <1>2, <1>3, <1>4, <1>5 DEF Lists

\* A list shows keys, and at most one of each row.
LEMMA ListedAreKeys ==
  ASSUME NEW t, NEW n \in Nat, TablesOK(t, n), NEW q, q.list \in Lists
  PROVE  /\ Listed(t, q) \in SUBSET KeysOf(t, q.list)
         /\ Listed(t, q) \in SUBSET Keys /\ IsFiniteSet(Listed(t, q))
<1>1. Listed(t, q) \in SUBSET KeysOf(t, q.list)
  <2>1. CASE q.list = "points"
    BY <2>1 DEF Listed, KeysOf, PointsListed
  <2>2. CASE q.list = "trips"
    BY <2>2 DEF Listed, KeysOf, TripsListed
  <2>3. CASE q.list = "trip_points"
    <3>1. Listed(t, q) = TripPointsListed(t, q) /\ KeysOf(t, q.list) = {Row(p.id, p.at) : p \in t.points}
      BY <2>3 DEF Listed, KeysOf
    <3>2. \A x \in t.parts, p \in t.points : x.id = p.id => Row(x.id, x.at) = Row(p.id, p.at)
      BY DEF TablesOK, PointsOK
    <3> QED BY <3>1, <3>2 DEF TripPointsListed
  <2>4. CASE q.list = "routes"
    BY <2>4 DEF Listed, KeysOf, RoutesListed
  <2>5. CASE q.list = "route_trips"
    BY <2>5 DEF Listed, KeysOf, RouteTripsListed
  <2>6. CASE q.list = "attempts"
    BY <2>6 DEF Listed, KeysOf, AttemptsListed
  <2> QED BY <2>1, <2>2, <2>3, <2>4, <2>5, <2>6 DEF Lists
<1>2. KeysOf(t, q.list) \in SUBSET Keys /\ IsFiniteSet(KeysOf(t, q.list))
  BY KeysAreUnique
<1> QED BY <1>1, <1>2, FS_Subset

-----------------------------------------------------------------------------
\* A statement that keeps the tables' promises and moves no key back.
Evolves == Becomes(db') /\ TablesOK(db', listing.changes + 1) /\ Moves(db, db', listing.changes)

Stored == listing.changes \in Nat /\ TablesOK(db, listing.changes)

LEMMA PointArrivesEvolves ==
  ASSUME Stored, PointArrives
  PROVE  Evolves
<1>1. PICK d \in Devices, at \in {Late, Now} :
        Becomes([db EXCEPT !.points = @ \cup {[id |-> NewId, device |-> d, at |-> at]}])
  BY DEF PointArrives
<1> DEFINE n == listing.changes
           p == [id |-> NewId, device |-> d, at |-> at]
<1>2. n \in Nat /\ TablesOK(db, n) /\ db \in Tables
  BY DEF Stored, TablesOK
<1>3. Becomes(db') /\ db' = [db EXCEPT !.points = @ \cup {p}]
  BY <1>1 DEF Becomes
<1>4. p \in Point /\ p.id = 10 + n
  BY <1>2 DEF Point, NewId, Late, Now
<1> HIDE DEF p, n
<1>5. /\ db' \in Tables /\ db'.points = db.points \cup {p} /\ db'.parts = db.parts /\ db'.trips = db.trips
      /\ db'.routes = db.routes /\ db'.links = db.links /\ db'.linking = db.linking
  BY <1>2, <1>3, <1>4, TablesTyped
<1>6. PointsOK(db'.points, db'.parts, n + 1)
  <2>1. Unique(db.points \cup {p}, n + 1)
    BY <1>2, <1>4, Columns, NewIsUnique DEF TablesOK, PointsOK
  <2>2. \A x \in db.parts : x.id # p.id /\ x.id < 10 + (n + 1)
    BY <1>2, <1>4, Columns DEF TablesOK, PointsOK
  <2> QED BY <1>2, <1>5, <2>1, <2>2 DEF TablesOK, PointsOK
<1>7. TablesOK(db', n + 1)
  BY <1>2, <1>5, <1>6, TablesFit
<1>8. Moves(db, db', n)
  BY <1>2, <1>4, <1>5, KeysMove
<1> QED BY <1>3, <1>7, <1>8 DEF Evolves, n

LEMMA DeletePointEvolves ==
  ASSUME Stored, DeletePoint
  PROVE  Evolves
<1>1. PICK p \in db.points : Becomes([db EXCEPT !.points = @ \ {p}])
  BY DEF DeletePoint
<1> DEFINE n == listing.changes
<1>2. n \in Nat /\ TablesOK(db, n) /\ db \in Tables
  BY DEF Stored, TablesOK
<1>3. Becomes(db') /\ db' = [db EXCEPT !.points = @ \ {p}]
  BY <1>1 DEF Becomes
<1> HIDE DEF n
<1>5. /\ db' \in Tables /\ db'.points = db.points \ {p} /\ db'.parts = db.parts /\ db'.trips = db.trips
      /\ db'.routes = db.routes /\ db'.links = db.links /\ db'.linking = db.linking
  BY <1>2, <1>3, TablesTyped
<1>6. PointsOK(db'.points, db'.parts, n + 1)
  <2>1. Unique(db.points \ {p}, n + 1)
    BY <1>2, Columns, FewerAreUnique DEF TablesOK, PointsOK
  <2>2. \A x \in db.parts : x.id < 10 + (n + 1)
    BY <1>2, Columns DEF TablesOK, PointsOK
  <2> QED BY <1>2, <1>5, <2>1, <2>2 DEF TablesOK, PointsOK
<1>7. TablesOK(db', n + 1)
  BY <1>2, <1>5, <1>6, TablesFit
<1>8. Moves(db, db', n)
  BY <1>2, <1>5, KeysMove
<1> QED BY <1>3, <1>7, <1>8 DEF Evolves, n

\* A new trip refers to nothing, and what refers to a trip stays.
LEMMA TripAddedEvolves ==
  ASSUME Stored, NEW x \in Trip, x.id = NewId, Becomes([db EXCEPT !.trips = @ \cup {x}])
  PROVE  Evolves
<1> DEFINE n == listing.changes
<1>2. n \in Nat /\ TablesOK(db, n) /\ db \in Tables /\ x.id = 10 + n
  BY DEF Stored, TablesOK, NewId
<1>3. Becomes(db') /\ db' = [db EXCEPT !.trips = @ \cup {x}]
  BY DEF Becomes
<1> HIDE DEF n
<1>5. /\ db' \in Tables /\ db'.trips = db.trips \cup {x} /\ db'.parts = db.parts /\ db'.points = db.points
      /\ db'.routes = db.routes /\ db'.links = db.links /\ db'.linking = db.linking
  BY <1>2, <1>3, TablesTyped
<1>6. Unique(db'.trips, n + 1)
  BY <1>2, <1>5, Columns, NewIsUnique DEF TablesOK
<1>7. {y.id : y \in db.trips} \subseteq {y.id : y \in db'.trips}
  BY <1>5
<1>8. RoutesOK(db'.routes, db'.trips, n + 1)
  <2>1. Unique(db.routes, n + 1)
    BY <1>2, Columns, FewerAreUnique DEF TablesOK, RoutesOK
  <2>2. \A r \in db.routes : r.updated < 10 + (n + 1)
    BY <1>2, Columns DEF TablesOK, RoutesOK
  <2>3. \A r \in db.routes : {r.first, r.last} \subseteq {y.id : y \in db.trips}
    BY <1>2 DEF TablesOK, RoutesOK
  <2> QED BY <1>5, <1>7, <2>1, <2>2, <2>3 DEF RoutesOK
<1>9. LinksOK(db'.links, db'.linking, db'.trips, n + 1)
  <2>1. \A l \in db.links \cup db.linking : l.trip < 10 + (n + 1) /\ l.matched < 10 + (n + 1)
    BY <1>2, Columns DEF TablesOK, LinksOK
  <2> QED BY <1>2, <1>5, <1>7, <2>1 DEF TablesOK, LinksOK
<1>10. TablesOK(db', n + 1)
  BY <1>2, <1>5, <1>6, <1>8, <1>9, TablesFit
<1>11. Moves(db, db', n)
  BY <1>2, <1>5, KeysMove
<1> QED BY <1>3, <1>10, <1>11 DEF Evolves, n

LEMMA TripIsNewEvolves ==
  ASSUME Stored, TripStarts \/ TripIsBackfilled
  PROVE  Evolves
<1>1. CASE TripStarts
  <2>1. PICK d \in Devices : Becomes([db EXCEPT !.trips =
          @ \cup {[id |-> NewId, device |-> d, active |-> TRUE, started |-> Now, duration |-> 0]}])
    BY <1>1 DEF TripStarts
  <2>2. [id |-> NewId, device |-> d, active |-> TRUE, started |-> Now, duration |-> 0] \in Trip
    BY DEF Stored, NewId, Now, Trip
  <2> QED BY <2>1, <2>2, TripAddedEvolves
<1>2. CASE TripIsBackfilled
  <2>1. PICK d \in Devices : Becomes([db EXCEPT !.trips =
          @ \cup {[id |-> NewId, device |-> d, active |-> FALSE, started |-> Late, duration |-> 1]}])
    BY <1>2 DEF TripIsBackfilled
  <2>2. [id |-> NewId, device |-> d, active |-> FALSE, started |-> Late, duration |-> 1] \in Trip
    BY DEF Stored, NewId, Late, Trip
  <2> QED BY <2>1, <2>2, TripAddedEvolves
<1> QED BY <1>1, <1>2

LEMMA TripEndsEvolves ==
  ASSUME Stored, TripEnds
  PROVE  Evolves
<1>1. PICK t \in {x \in db.trips : x.active} :
        Becomes([db EXCEPT !.trips = (@ \ {t}) \cup {[t EXCEPT !.active = FALSE, !.duration = Now - t.started]}])
  BY DEF TripEnds
<1> DEFINE n == listing.changes
           x == [t EXCEPT !.active = FALSE, !.duration = Now - t.started]
<1>2. n \in Nat /\ TablesOK(db, n) /\ db \in Tables /\ t \in db.trips /\ t \in Trip
  BY TablesTyped DEF Stored, TablesOK
<1>3. Becomes(db') /\ db' = [db EXCEPT !.trips = (@ \ {t}) \cup {x}]
  BY <1>1 DEF Becomes
<1>4. x \in Trip /\ x.id = t.id /\ x.started = t.started
  <2>1. Now - t.started \in Int
    BY <1>2, Columns DEF Now
  <2>2. x \in Trip
    BY <1>2, <2>1 DEF Trip
  <2>3. x.id = t.id /\ x.started = t.started
    BY <1>2 DEF Trip
  <2> QED BY <2>2, <2>3
<1> HIDE DEF n, x
<1>5. /\ db' \in Tables /\ db'.trips = (db.trips \ {t}) \cup {x} /\ db'.parts = db.parts /\ db'.points = db.points
      /\ db'.routes = db.routes /\ db'.links = db.links /\ db'.linking = db.linking
  BY <1>2, <1>3, <1>4, TablesTyped
<1>6. Unique(db'.trips, n + 1)
  BY <1>2, <1>4, <1>5, Columns, ChangedIsUnique DEF TablesOK
<1>7. {y.id : y \in db.trips} \subseteq {y.id : y \in db'.trips}
  BY <1>2, <1>4, <1>5
<1>8. RoutesOK(db'.routes, db'.trips, n + 1)
  <2>1. Unique(db.routes, n + 1)
    BY <1>2, Columns, FewerAreUnique DEF TablesOK, RoutesOK
  <2>2. \A r \in db.routes : r.updated < 10 + (n + 1)
    BY <1>2, Columns DEF TablesOK, RoutesOK
  <2>3. \A r \in db.routes : {r.first, r.last} \subseteq {y.id : y \in db.trips}
    BY <1>2 DEF TablesOK, RoutesOK
  <2> QED BY <1>5, <1>7, <2>1, <2>2, <2>3 DEF RoutesOK
<1>9. LinksOK(db'.links, db'.linking, db'.trips, n + 1)
  <2>1. \A l \in db.links \cup db.linking : l.trip < 10 + (n + 1) /\ l.matched < 10 + (n + 1)
    BY <1>2, Columns DEF TablesOK, LinksOK
  <2> QED BY <1>2, <1>5, <1>7, <2>1 DEF TablesOK, LinksOK
<1>10. TablesOK(db', n + 1)
  BY <1>2, <1>5, <1>6, <1>8, <1>9, TablesFit
<1>11. Moves(db, db', n)
  BY <1>2, <1>4, <1>5, KeysMove
<1> QED BY <1>3, <1>10, <1>11 DEF Evolves, n

LEMMA PointJoinsTripEvolves ==
  ASSUME Stored, PointJoinsTrip
  PROVE  Evolves
<1>1. PICK t \in {x \in db.trips : x.active}, p \in db.points :
        Becomes([db EXCEPT !.parts = @ \cup {[trip |-> t.id, id |-> p.id, device |-> p.device, at |-> p.at]}])
  BY DEF PointJoinsTrip
<1> DEFINE n == listing.changes
           x == [trip |-> t.id, id |-> p.id, device |-> p.device, at |-> p.at]
<1>2. n \in Nat /\ TablesOK(db, n) /\ db \in Tables /\ t \in Trip /\ p \in Point
  BY TablesTyped DEF Stored, TablesOK
<1>3. Becomes(db') /\ db' = [db EXCEPT !.parts = @ \cup {x}]
  BY <1>1 DEF Becomes
<1>4. x \in Part /\ x.id = p.id /\ x.at = p.at
  BY <1>2 DEF Trip, Point, Part
<1> HIDE DEF n, x
<1>5. /\ db' \in Tables /\ db'.trips = db.trips /\ db'.parts = db.parts \cup {x} /\ db'.points = db.points
      /\ db'.routes = db.routes /\ db'.links = db.links /\ db'.linking = db.linking
  BY <1>2, <1>3, <1>4, TablesTyped
<1>6. PointsOK(db'.points, db'.parts, n + 1)
  <2>1. Unique(db.points, n + 1)
    BY <1>2, Columns, FewerAreUnique DEF TablesOK, PointsOK
  <2>2. \A y \in db.points : y.id = p.id => y = p
    BY <1>2 DEF TablesOK, PointsOK, Unique
  <2>3. \A y \in db.parts : y.id < 10 + (n + 1)
    BY <1>2, Columns DEF TablesOK, PointsOK
  <2>4. x.id < 10 + (n + 1)
    BY <1>2, <1>4, Columns DEF TablesOK, PointsOK, Unique
  <2> QED BY <1>2, <1>4, <1>5, <2>1, <2>2, <2>3, <2>4 DEF TablesOK, PointsOK
<1>7. TablesOK(db', n + 1)
  BY <1>2, <1>5, <1>6, TablesFit
<1>8. Moves(db, db', n)
  BY <1>2, <1>5, KeysMove
<1> QED BY <1>3, <1>7, <1>8 DEF Evolves, n

\* The job's first statement: a route is new or has a later trip, and the link
\* of an unmatched trip is to follow.
LEMMA RouteWrittenEvolves ==
  ASSUME Stored, NEW t \in Unmatched, db.linking = {}, NEW route \in Nat, NEW routes \in SUBSET Route,
         Unique(routes, listing.changes + 1),
         \A r \in routes : r \in db.routes \/ /\ r.updated = Now
                                               /\ {r.first, r.last} \subseteq {x.id : x \in db.trips},
         Becomes([db EXCEPT !.linking = {Link(route, t)}, !.routes = routes])
  PROVE  Evolves
<1> DEFINE n == listing.changes
           l == Link(route, t)
<1>2. n \in Nat /\ TablesOK(db, n) /\ db \in Tables /\ t \in db.trips /\ t \in Trip /\ Now = 10 + n
  BY TablesTyped DEF Stored, TablesOK, Unmatched, Now
<1>3. Becomes(db') /\ db' = [db EXCEPT !.linking = {l}, !.routes = routes]
  BY DEF Becomes
<1>4. l \in LinkRow /\ l.trip = t.id /\ l.matched = 10 + n
  BY <1>2 DEF Link, LinkRow, Trip
<1> HIDE DEF n, l
<1>5. /\ db'.trips = db.trips /\ db'.parts = db.parts /\ db'.points = db.points
      /\ db'.routes = routes /\ db'.links = db.links /\ db'.linking = {l}
  BY <1>2, <1>3, TablesTyped
<1>6. db' \in Tables
  BY <1>2, <1>3, <1>4, TablesTyped
<1>7. RoutesOK(db'.routes, db'.trips, n + 1)
  <2>1. \A r \in routes : r.updated < 10 + (n + 1)
    BY <1>2, Columns DEF TablesOK, RoutesOK
  <2>2. \A r \in routes : {r.first, r.last} \subseteq {x.id : x \in db.trips}
    BY <1>2 DEF TablesOK, RoutesOK
  <2> QED BY <1>5, <2>1, <2>2 DEF RoutesOK, n
<1>8. LinksOK(db'.links, db'.linking, db'.trips, n + 1)
  <2>1. IsFiniteSet(db.links \cup {l})
    BY <1>2, FS_AddElement DEF TablesOK, LinksOK
  <2>2. \A m \in db.links : m.trip # l.trip /\ m.trip < 10 + (n + 1) /\ m.matched < 10 + (n + 1)
    BY <1>2, <1>4, Columns DEF TablesOK, LinksOK, Unmatched
  <2>3. l.trip < 10 + (n + 1) /\ l.matched < 10 + (n + 1)
    BY <1>2, <1>4, Columns DEF TablesOK, Unique
  <2> QED BY <1>2, <1>5, <2>1, <2>2, <2>3 DEF TablesOK, LinksOK
<1>9. TablesOK(db', n + 1)
  BY <1>2, <1>5, <1>6, <1>7, <1>8, TablesFit
<1>10. Moves(db, db', n)
  BY <1>2, <1>4, <1>5, KeysMove
<1> QED BY <1>3, <1>9, <1>10 DEF Evolves, n

LEMMA InsertRouteEvolves ==
  ASSUME Stored, InsertRoute
  PROVE  Evolves
<1>1. PICK t \in Unmatched : /\ db.linking = {}
        /\ Becomes([db EXCEPT !.linking = {Link(NewId, t)}, !.routes =
             @ \cup {[id |-> NewId, device |-> t.device, updated |-> Now, first |-> t.id, last |-> t.id]}])
  BY DEF InsertRoute
<1> DEFINE r == [id |-> NewId, device |-> t.device, updated |-> Now, first |-> t.id, last |-> t.id]
<1>2. db \in Tables /\ t \in db.trips /\ t \in Trip /\ NewId \in Nat
  BY TablesTyped DEF Stored, TablesOK, Unmatched, NewId
<1>3. r \in Route /\ r.id = 10 + listing.changes /\ r.updated = Now /\ r.first = t.id /\ r.last = t.id
  BY <1>2 DEF Route, Trip, NewId, Now, Stored
<1> HIDE DEF r
<1>4. db.routes \cup {r} \in SUBSET Route
  BY <1>2, <1>3, TablesTyped
<1>5. Unique(db.routes \cup {r}, listing.changes + 1)
  BY <1>2, <1>3, Columns, NewIsUnique DEF Stored, TablesOK, RoutesOK
<1>6. Becomes([db EXCEPT !.linking = {Link(NewId, t)}, !.routes = db.routes \cup {r}])
  BY <1>1 DEF r
<1>7. \A x \in db.routes \cup {r} :
        x \in db.routes \/ (x.updated = Now /\ {x.first, x.last} \subseteq {y.id : y \in db.trips})
  BY <1>2, <1>3
<1> QED BY <1>1, <1>2, <1>4, <1>5, <1>6, <1>7, RouteWrittenEvolves

LEMMA IncrRouteStatsEvolves ==
  ASSUME Stored, IncrRouteStats
  PROVE  Evolves
<1>1. PICK t \in Unmatched, o \in db.routes : /\ db.linking = {}
        /\ Becomes([db EXCEPT !.linking = {Link(o.id, t)}, !.routes =
             (@ \ {o}) \cup {[o EXCEPT !.updated = Now, !.last = t.id]}])
  BY DEF IncrRouteStats
<1> DEFINE r == [o EXCEPT !.updated = Now, !.last = t.id]
<1>2. db \in Tables /\ t \in db.trips /\ t \in Trip /\ o \in Route /\ o.id \in Nat
  BY TablesTyped, Columns DEF Stored, TablesOK, Unmatched
<1>3. r \in Route /\ r.id = o.id /\ r.updated = Now /\ r.first = o.first /\ r.last = t.id
  <2>1. Now \in Int /\ t.id \in Nat
    BY <1>2 DEF Trip, Now, Stored
  <2>2. r \in Route
    BY <1>2, <2>1 DEF Route
  <2> QED BY <1>2, <2>2 DEF Route
<1> HIDE DEF r
<1>4. (db.routes \ {o}) \cup {r} \in SUBSET Route
  BY <1>2, <1>3, TablesTyped
<1>5. Unique((db.routes \ {o}) \cup {r}, listing.changes + 1)
  BY <1>2, <1>3, Columns, ChangedIsUnique DEF Stored, TablesOK, RoutesOK
<1>6. Becomes([db EXCEPT !.linking = {Link(o.id, t)}, !.routes = (db.routes \ {o}) \cup {r}])
  BY <1>1 DEF r
<1>7. {r.first, r.last} \subseteq {x.id : x \in db.trips}
  BY <1>2, <1>3 DEF Stored, TablesOK, RoutesOK
<1>8. \A x \in (db.routes \ {o}) \cup {r} :
        x \in db.routes \/ (x.updated = Now /\ {x.first, x.last} \subseteq {y.id : y \in db.trips})
  BY <1>3, <1>7
<1> QED BY <1>1, <1>2, <1>4, <1>5, <1>6, <1>8, RouteWrittenEvolves

LEMMA InsertRouteTripEvolves ==
  ASSUME Stored, InsertRouteTrip
  PROVE  Evolves
<1>1. PICK l \in db.linking :
        Becomes([db EXCEPT !.linking = {},
          !.links = IF RouteExists(db, l.route) /\ GetTrip(db, l.trip) # {} THEN @ \cup {l} ELSE @])
  BY DEF InsertRouteTrip
<1> DEFINE n == listing.changes
           links == IF RouteExists(db, l.route) /\ GetTrip(db, l.trip) # {} THEN db.links \cup {l} ELSE db.links
<1>2. n \in Nat /\ TablesOK(db, n) /\ db \in Tables
  BY DEF Stored, TablesOK
<1>3. Becomes(db') /\ db' = [db EXCEPT !.linking = {}, !.links = links]
  BY <1>1 DEF Becomes
<1>4. links \in SUBSET LinkRow /\ links \subseteq db.links \cup db.linking
  BY <1>2, TablesTyped
<1>5. \A m \in links : m \in db.links \/ (m = l /\ GetTrip(db, l.trip) # {})
  OBVIOUS
<1> HIDE DEF n, links
<1>6. /\ db'.trips = db.trips /\ db'.parts = db.parts /\ db'.points = db.points
      /\ db'.routes = db.routes /\ db'.links = links /\ db'.linking = {}
  BY <1>2, <1>3, TablesTyped
<1>7. db' \in Tables
  BY <1>2, <1>3, <1>4, TablesTyped
<1>8. LinksOK(db'.links, db'.linking, db'.trips, n + 1)
  <2>1. IsFiniteSet(links \cup {})
    BY <1>2, <1>4, FS_Subset DEF TablesOK, LinksOK
  <2>2. \A m \in links : m.trip < 10 + (n + 1) /\ m.matched < 10 + (n + 1)
    BY <1>2, <1>4, Columns DEF TablesOK, LinksOK
  <2>3. \A m \in links : m.trip \in {x.id : x \in db.trips}
    BY <1>2, <1>5 DEF TablesOK, LinksOK, GetTrip
  <2> QED BY <1>2, <1>4, <1>6, <2>1, <2>2, <2>3 DEF TablesOK, LinksOK
<1>9. TablesOK(db', n + 1)
  BY <1>2, <1>6, <1>7, <1>8, TablesFit
<1>10. Moves(db, db', n)
  BY <1>2, <1>4, <1>6, KeysMove
<1> QED BY <1>3, <1>9, <1>10 DEF Evolves, n

\* Rows go, and with a trip the routes and the links that refer to it.
LEMMA DeletionEvolves ==
  ASSUME Stored, NEW u \in Tables, Becomes(u),
         u.points = db.points, u.linking = db.linking,
         u.trips \in SUBSET db.trips, u.parts \in SUBSET db.parts,
         u.routes \in SUBSET db.routes, u.links \in SUBSET db.links,
         \A r \in u.routes : {r.first, r.last} \subseteq {x.id : x \in u.trips},
         \A l \in u.links : l.trip \in {x.id : x \in u.trips}
  PROVE  Evolves
<1> DEFINE n == listing.changes
<1>1. n \in Nat /\ TablesOK(db, n) /\ db \in Tables /\ db' = u /\ Becomes(db')
  BY DEF Stored, TablesOK, Becomes
<1> HIDE DEF n
<1>2. PointsOK(u.points, u.parts, n + 1)
  <2>1. Unique(db.points, n + 1)
    BY <1>1, Columns, FewerAreUnique DEF TablesOK, PointsOK
  <2>2. \A x \in db.parts : x.id < 10 + (n + 1)
    BY <1>1, Columns DEF TablesOK, PointsOK
  <2> QED BY <1>1, <2>1, <2>2 DEF TablesOK, PointsOK
<1>3. Unique(u.trips, n + 1)
  BY <1>1, Columns, FewerAreUnique DEF TablesOK
<1>4. RoutesOK(u.routes, u.trips, n + 1)
  <2>1. Unique(u.routes, n + 1)
    BY <1>1, Columns, FewerAreUnique DEF TablesOK, RoutesOK
  <2>2. \A r \in u.routes : r.updated < 10 + (n + 1)
    BY <1>1, Columns DEF TablesOK, RoutesOK
  <2> QED BY <2>1, <2>2 DEF RoutesOK
<1>5. LinksOK(u.links, u.linking, u.trips, n + 1)
  <2>1. u.links \cup u.linking \in SUBSET (db.links \cup db.linking)
    OBVIOUS
  <2>2. IsFiniteSet(u.links \cup u.linking)
    BY <1>1, <2>1, FS_Subset DEF TablesOK, LinksOK
  <2>3. \A l \in u.links \cup u.linking : l.trip < 10 + (n + 1) /\ l.matched < 10 + (n + 1)
    BY <1>1, <2>1, Columns DEF TablesOK, LinksOK
  <2> QED BY <1>1, <2>1, <2>2, <2>3 DEF TablesOK, LinksOK
<1>6. TablesOK(u, n + 1)
  BY <1>1, <1>2, <1>3, <1>4, <1>5, TablesFit
<1>7. Moves(db, u, n)
  BY <1>1, KeysMove
<1> QED BY <1>1, <1>6, <1>7 DEF Evolves, n

LEMMA DeleteRouteEvolves ==
  ASSUME Stored, DeleteRoute
  PROVE  Evolves
<1>1. PICK r \in db.routes : Becomes(WithoutRoutes(db, {r}))
  BY DEF DeleteRoute
<1> DEFINE u == WithoutRoutes(db, {r})
<1>2. db \in Tables /\ TablesOK(db, listing.changes)
  BY DEF Stored, TablesOK
<1>3. /\ u \in Tables /\ u.points = db.points /\ u.linking = db.linking
      /\ u.trips = db.trips /\ u.parts = db.parts
      /\ u.routes \in SUBSET db.routes /\ u.links \in SUBSET db.links
  BY <1>2, TablesTyped DEF WithoutRoutes
<1>4. \A x \in u.routes : {x.first, x.last} \subseteq {y.id : y \in u.trips}
  BY <1>2, <1>3 DEF TablesOK, RoutesOK
<1>5. \A l \in u.links : l.trip \in {y.id : y \in u.trips}
  BY <1>2, <1>3 DEF TablesOK, LinksOK
<1> HIDE DEF u
<1>6. Becomes(u)
  BY <1>1 DEF u
<1> QED BY <1>3, <1>4, <1>5, <1>6, DeletionEvolves

LEMMA DeleteTripEvolves ==
  ASSUME Stored, DeleteTrip
  PROVE  Evolves
<1>1. PICK t \in db.trips :
        LET kept == WithoutRoutes(db, {r \in db.routes : t.id \in {r.first, r.last}}) IN
        Becomes([kept EXCEPT !.trips = @ \ {t}, !.parts = {x \in @ : x.trip # t.id},
                             !.links = {l \in @ : l.trip # t.id}])
  BY DEF DeleteTrip
<1> DEFINE gone == {r \in db.routes : t.id \in {r.first, r.last}}
           kept == WithoutRoutes(db, gone)
           u == [kept EXCEPT !.trips = @ \ {t}, !.parts = {x \in @ : x.trip # t.id},
                             !.links = {l \in @ : l.trip # t.id}]
<1>2. db \in Tables /\ TablesOK(db, listing.changes)
  BY DEF Stored, TablesOK
<1>3. /\ kept \in Tables /\ kept.points = db.points /\ kept.linking = db.linking
      /\ kept.trips = db.trips /\ kept.parts = db.parts
      /\ kept.routes = db.routes \ gone /\ kept.links \in SUBSET db.links
  BY <1>2, TablesTyped DEF WithoutRoutes
<1> HIDE DEF kept
<1>4. /\ u.points = db.points /\ u.linking = db.linking
      /\ u.trips = db.trips \ {t} /\ u.parts \in SUBSET db.parts
      /\ u.routes = db.routes \ gone
      /\ u.links \in SUBSET db.links /\ \A l \in u.links : l.trip # t.id
  BY <1>3, TablesTyped
<1>5. u \in Tables
  BY <1>3, TablesTyped
<1>6. \A x \in db.trips : x.id # t.id => x \in u.trips
  BY <1>4
<1>7. \A x \in u.routes : {x.first, x.last} \subseteq {y.id : y \in u.trips}
  <2> TAKE x \in u.routes
  <2>1. x \in db.routes /\ t.id \notin {x.first, x.last}
    BY <1>4
  <2>2. {x.first, x.last} \subseteq {y.id : y \in db.trips}
    BY <1>2, <2>1 DEF TablesOK, RoutesOK
  <2> QED BY <1>6, <2>1, <2>2
<1>8. \A l \in u.links : l.trip \in {y.id : y \in u.trips}
  BY <1>2, <1>4, <1>6 DEF TablesOK, LinksOK
<1>9. Becomes(u)
  BY <1>1 DEF kept
<1> HIDE DEF u
<1> QED BY <1>4, <1>5, <1>7, <1>8, <1>9, DeletionEvolves

-----------------------------------------------------------------------------
(* How far the client is.                                                   *)

ListingTyped ==
  /\ query \in Queries
  /\ {"step", "cursor", "best", "rows", "marked", "steady", "changes"} \subseteq DOMAIN listing
  /\ listing.rows \in Seq(Keys)

\* What was listed is in order, and where its key is still about it is the same
\* or, in a list of the newest first, a later one: never one still to come.
InSequence ==
  /\ \A i, j \in DOMAIN listing.rows : i < j =>
       /\ Precedes(query.list, listing.rows[i], listing.rows[j])
       /\ listing.rows[i].id # listing.rows[j].id
  /\ \A i \in DOMAIN listing.rows :
       LET r == listing.rows[i] IN
       /\ r.id < 10 + listing.changes /\ (Timed(query.list) => r.at < 10 + listing.changes)
       /\ \A k \in KeysOf(db, query.list) : k.id = r.id => k = r \/ (Timed(query.list) /\ r.at < k.at)

\* The cursor is the last row listed.
AtCursor ==
  Browsing => listing.cursor = IF listing.rows = << >> THEN NoCursor
                               ELSE {listing.rows[Len(listing.rows)]}

\* What stood all the time was listed or is still to come.
Covered ==
  /\ listing.steady \subseteq Listed(db, query)
  /\ \A s \in listing.steady :
       \/ s \in ToSet(listing.rows)
       \/ listing.step \in {"not found", "bad request"}
       \/ Browsing /\ \A c \in listing.cursor : Precedes(query.list, c, s)

\* As long as nothing changes the rows are the first of the list, and those of
\* the best attempt are marked.
Undisturbed ==
  listing.changes = 0 =>
    /\ Len(listing.rows) <= Len(InOrder(db, query))
    /\ \A i \in DOMAIN listing.rows : listing.rows[i] = InOrder(db, query)[i]
    /\ listing.step = "done" => Len(listing.rows) = Len(InOrder(db, query))
    /\ query.list = "attempts" =>
         /\ listing.marked = Ids(listing.rows) \cap BestTrip(db, query.subject)
         /\ listing.step = "page" => listing.best = BestTrip(db, query.subject)

ListInv == Stored /\ ListingTyped /\ InSequence /\ AtCursor /\ Covered /\ Undisturbed

LEMMA QueryIsTyped ==
  ASSUME NEW q \in Queries
  PROVE  q.list \in Lists /\ q.limit \in Int /\ PageLimit(q) \in Nat \ {0}
<1>1. q.list \in Lists /\ q.limit \in Int
  BY ListsAssumption
<1>2. \A default, most \in Nat \ {0} : Limited(q.limit, default, most) \in Nat \ {0}
  BY <1>1 DEF Limited
<1>3. PageLimit(q) \in Nat \ {0}
  BY <1>1, <1>2 DEF PageLimit, Lists, PointsLimit, TripsLimit, TripPointsLimit, RoutesLimit,
                    RouteTripsLimit, AttemptsLimit
<1> QED BY <1>1, <1>3

LEMMA EvolvesKeeps ==
  ASSUME ListInv, Evolves
  PROVE  ListInv'
<1> DEFINE n == listing.changes
<1>1. /\ query' = query /\ Browsing /\ n \in Nat /\ query.list \in Lists
      /\ listing' = [listing EXCEPT !.changes = @ + 1, !.steady = @ \cap Listed(db', query)]
  BY QueryIsTyped DEF Evolves, Becomes, ListInv, Stored, ListingTyped
<1>2. /\ listing'.rows = listing.rows /\ listing'.cursor = listing.cursor /\ listing'.step = listing.step
      /\ listing'.changes = n + 1 /\ listing'.steady = listing.steady \cap Listed(db', query)
      /\ {"step", "cursor", "best", "rows", "marked", "steady", "changes"} \subseteq DOMAIN listing'
  BY <1>1 DEF ListInv, ListingTyped
<1>3. Stored' /\ ListingTyped'
  BY <1>1, <1>2 DEF Evolves, ListInv, Stored, ListingTyped
<1>4. InSequence'
  <2>1. \A i, j \in DOMAIN listing.rows : i < j =>
          /\ Precedes(query.list, listing.rows[i], listing.rows[j])
          /\ listing.rows[i].id # listing.rows[j].id
    BY DEF ListInv, InSequence
  <2>2. ASSUME NEW i \in DOMAIN listing.rows
        PROVE  LET r == listing.rows[i] IN
               /\ r.id < 10 + (n + 1) /\ (Timed(query.list) => r.at < 10 + (n + 1))
               /\ \A k \in KeysOf(db', query.list) : k.id = r.id => k = r \/ (Timed(query.list) /\ r.at < k.at)
    <3> DEFINE r == listing.rows[i]
    <3>1. r.id \in Int /\ r.at \in Int
      <4>1. listing.rows \in Seq(Keys)
        BY DEF ListInv, ListingTyped
      <4>2. r \in Keys
        <5> HIDE DEF Keys
        <5> QED BY <4>1
      <4> QED BY <4>2 DEF Keys
    <3>2. /\ r.id < 10 + n /\ (Timed(query.list) => r.at < 10 + n)
          /\ \A k \in KeysOf(db, query.list) : k.id = r.id => k = r \/ (Timed(query.list) /\ r.at < k.at)
      BY DEF ListInv, InSequence
    <3> HIDE DEF r
    <3>3. \A k \in KeysOf(db', query.list) :
            k \in KeysOf(db, query.list) \/ k.id = 10 + n \/ (Timed(query.list) /\ k.at = 10 + n)
      BY <1>1 DEF Evolves, Moves
    <3>4. r.id < 10 + (n + 1) /\ (Timed(query.list) => r.at < 10 + (n + 1))
      BY <1>1, <3>1, <3>2
    <3>5. \A k \in KeysOf(db', query.list) : k.id = r.id => k = r \/ (Timed(query.list) /\ r.at < k.at)
      <4> TAKE k \in KeysOf(db', query.list)
      <4> HAVE k.id = r.id
      <4>1. CASE k \in KeysOf(db, query.list)
        BY <3>2, <4>1
      <4>2. CASE k.id = 10 + n
        BY <1>1, <3>1, <3>2, <4>2
      <4>3. CASE Timed(query.list) /\ k.at = 10 + n
        BY <3>2, <4>3
      <4> QED BY <3>3, <4>1, <4>2, <4>3
    <3> QED BY <3>4, <3>5 DEF r
  <2> QED BY <1>1, <1>2, <2>1, <2>2 DEF InSequence
<1>5. AtCursor'
  BY <1>1, <1>2 DEF ListInv, AtCursor, Browsing
<1>6. Covered'
  BY <1>1, <1>2 DEF ListInv, Covered, Browsing
<1>7. Undisturbed'
  BY <1>1, <1>2 DEF Undisturbed
<1> QED BY <1>3, <1>4, <1>5, <1>6, <1>7 DEF ListInv

\* A statement that changes neither the tables nor the rows listed.
LEMMA LookupKeeps ==
  ASSUME ListInv, UNCHANGED <<db, query>>, Browsing,
         {"step", "cursor", "best", "rows", "marked", "steady", "changes"} \subseteq DOMAIN listing',
         listing'.rows = listing.rows, listing'.cursor = listing.cursor, listing'.steady = listing.steady,
         listing'.changes = listing.changes, listing'.marked = listing.marked,
         listing'.step # "done",
         listing'.step = "page" /\ query.list = "attempts" => listing'.best = BestTrip(db, query.subject)
  PROVE  ListInv'
<1>1. Stored' /\ ListingTyped'
  BY DEF ListInv, Stored, ListingTyped
<1>2. InSequence'
  BY DEF ListInv, InSequence
<1>5. AtCursor'
  BY DEF ListInv, AtCursor
<1>3. Covered'
  BY DEF ListInv, Covered, Browsing
<1>4. Undisturbed'
  BY DEF ListInv, Undisturbed
<1> QED BY <1>1, <1>2, <1>3, <1>4, <1>5 DEF ListInv

LEMMA FindRouteKeeps ==
  ASSUME ListInv, FindRoute
  PROVE  ListInv'
<1>1. listing' = [listing EXCEPT !.step =
        IF ~RouteExists(db, query.subject) THEN "not found"
        ELSE IF query.list = "attempts" THEN "best" ELSE "page"]
  BY DEF FindRoute
<1>2. /\ {"step", "cursor", "best", "rows", "marked", "steady", "changes"} \subseteq DOMAIN listing'
      /\ listing'.rows = listing.rows /\ listing'.cursor = listing.cursor /\ listing'.steady = listing.steady
      /\ listing'.changes = listing.changes /\ listing'.marked = listing.marked /\ listing'.step # "done"
      /\ (listing'.step = "page" => query.list # "attempts")
  BY <1>1 DEF ListInv, ListingTyped
<1>3. Browsing
  BY DEF FindRoute, Browsing
<1> QED BY <1>2, <1>3, LookupKeeps DEF FindRoute

LEMMA FindBestKeeps ==
  ASSUME ListInv, FindBest
  PROVE  ListInv'
<1>1. listing' = [listing EXCEPT !.step = "page", !.best = BestTrip(db, query.subject)]
  BY DEF FindBest
<1>2. /\ {"step", "cursor", "best", "rows", "marked", "steady", "changes"} \subseteq DOMAIN listing'
      /\ listing'.rows = listing.rows /\ listing'.cursor = listing.cursor /\ listing'.steady = listing.steady
      /\ listing'.changes = listing.changes /\ listing'.marked = listing.marked /\ listing'.step # "done"
      /\ listing'.best = BestTrip(db, query.subject)
  BY <1>1 DEF ListInv, ListingTyped
<1>3. Browsing
  BY DEF FindBest, Browsing
<1> QED BY <1>2, <1>3, LookupKeeps DEF FindBest

LEMMA RefusalKeeps ==
  ASSUME ListInv, listing.step = "page", query.list = "points",
         listing' = [listing EXCEPT !.step = "bad request"], UNCHANGED <<db, query>>
  PROVE  ListInv'
<1>2. /\ {"step", "cursor", "best", "rows", "marked", "steady", "changes"} \subseteq DOMAIN listing'
      /\ listing'.rows = listing.rows /\ listing'.cursor = listing.cursor /\ listing'.steady = listing.steady
      /\ listing'.changes = listing.changes /\ listing'.marked = listing.marked
      /\ listing'.step = "bad request"
  BY DEF ListInv, ListingTyped
<1>3. Browsing
  BY DEF Browsing
<1> QED BY <1>2, <1>3, LookupKeeps

-----------------------------------------------------------------------------
\* The page's rows follow those listed: they lie beyond the cursor, and none of
\* them is a row listed before under another key.
LEMMA PageFollows ==
  ASSUME ListInv, Browsing, NEW k \in KeysOf(db, query.list),
         \A c \in listing.cursor : Precedes(query.list, c, k),
         NEW i \in DOMAIN listing.rows
  PROVE  Precedes(query.list, listing.rows[i], k) /\ listing.rows[i].id # k.id
<1> DEFINE list == query.list
           r == listing.rows[i]
           last == listing.rows[Len(listing.rows)]
<1>1. /\ listing.rows \in Seq(Keys) /\ k \in Keys /\ r \in Keys /\ last \in Keys
      /\ Len(listing.rows) \in DOMAIN listing.rows /\ i <= Len(listing.rows)
  <2>1. listing.rows \in Seq(Keys) /\ query.list \in Lists
    BY QueryIsTyped DEF ListInv, ListingTyped
  <2>2. k \in Keys
    BY <2>1, KeysAreUnique DEF ListInv, Stored
  <2> HIDE DEF Keys
  <2> QED BY <2>1, <2>2
<1>2. Precedes(list, last, k)
  BY DEF ListInv, AtCursor
<1>3. r = last \/ Precedes(list, r, last)
  BY <1>1 DEF ListInv, InSequence
<1>4. Precedes(list, r, k)
  <2> HIDE DEF r, last, list, Keys
  <2> QED BY <1>1, <1>2, <1>3, PrecedesIsOrder
<1>5. r.id # k.id
  <2> SUFFICES ASSUME r.id = k.id PROVE FALSE
    OBVIOUS
  <2>1. k = r \/ (Timed(list) /\ r.at < k.at)
    BY DEF ListInv, InSequence
  <2>2. CASE k = r
    <3> HIDE DEF r, last, list, Keys
    <3> QED BY <1>1, <1>4, <2>2, PrecedesIsOrder
  <2>3. CASE Timed(list) /\ r.at < k.at
    <3>1. r.at \in Int /\ k.at \in Int
      BY <1>1 DEF Keys
    <3> HIDE DEF r, last, list
    <3> QED BY <1>4, <2>3, <3>1 DEF Precedes, Timed
  <2> QED BY <2>1, <2>2, <2>3
<1> QED BY <1>4, <1>5

\* RestFollows, of sequences that are named.
LEMMA RestFollowsAll ==
  ASSUME NEW S, S \in SUBSET Keys, IsFiniteSet(S), NEW list, NEW k,
         NEW all, all = Rest(S, list, NoCursor), k \in 1 .. Len(all),
         NEW rest, rest = Rest(S, list, {all[k]})
  PROVE  Len(rest) = Len(all) - k /\ \A i \in 1 .. Len(rest) : rest[i] = all[k + i]
BY RestFollows, SMTT(30)

\* The rest of an undisturbed list.
LEMMA RestIsLeft ==
  ASSUME ListInv, Browsing, listing.changes = 0
  PROVE  LET all == InOrder(db, query)
             k == Len(listing.rows)
             rest == Rest(Listed(db, query), query.list, listing.cursor)
         IN /\ Len(all) \in Nat /\ k \in Nat
            /\ Len(rest) = Len(all) - k /\ \A i \in 1 .. Len(rest) : rest[i] = all[k + i]
<1> DEFINE S == Listed(db, query)
           all == InOrder(db, query)
           k == Len(listing.rows)
           rest == Rest(S, query.list, listing.cursor)
<1>1. S \in SUBSET Keys /\ IsFiniteSet(S) /\ query.list \in Lists
  BY QueryIsTyped, ListedAreKeys DEF ListInv, Stored, ListingTyped
<1>2. all = Rest(S, query.list, NoCursor)
  BY DEF InOrder
<1>3. Len(all) \in Nat
  <2>1. all \in Seq(Beyond(S, query.list, NoCursor))
    BY <1>1, <1>2, RestSorts
  <2> QED BY <2>1
<1>4. k \in Nat /\ listing.rows \in Seq(Keys)
  <2> HIDE DEF Keys
  <2> QED BY DEF ListInv, ListingTyped
<1>5. CASE listing.rows = << >>
  <2>1. k = 0 /\ listing.cursor = NoCursor
    BY <1>5 DEF ListInv, AtCursor
  <2> HIDE DEF k, all
  <2> QED BY <1>2, <1>3, <2>1 DEF k, all
<1>6. CASE listing.rows # << >>
  <2>1. k \in DOMAIN listing.rows /\ k \in 1 .. Len(all) /\ listing.cursor = {listing.rows[k]}
    BY <1>3, <1>4, <1>6 DEF ListInv, AtCursor, Undisturbed
  <2>2. listing.cursor = {all[k]}
    BY <2>1 DEF ListInv, Undisturbed
  <2> HIDE DEF k, S
  <2>4. k \in 1 .. Len(Rest(S, query.list, NoCursor))
    BY <1>2, <2>1
  <2>5. /\ Len(rest) = Len(all) - k
        /\ \A i \in 1 .. Len(rest) : rest[i] = all[k + i]
    <3> DEFINE list == query.list
    <3>1. S \in SUBSET Keys /\ IsFiniteSet(S) /\ k \in 1 .. Len(all)
      BY <1>1, <2>1
    <3>2. all = Rest(S, list, NoCursor) /\ rest = Rest(S, list, {all[k]})
      BY <1>2, <2>2
    <3> HIDE DEF list, all, rest, Keys
    <3>3. Len(rest) = Len(all) - k
      BY <3>1, <3>2, RestFollowsAll, SMTT(30)
    <3>4. \A i \in 1 .. Len(rest) : rest[i] = all[k + i]
      BY <3>1, <3>2, RestFollowsAll, SMTT(30)
    <3> QED BY <3>3, <3>4
  <2> HIDE DEF all
  <2>3. Len(rest) = Len(all) - k /\ \A i \in 1 .. Len(rest) : rest[i] = all[k + i]
    BY <2>5
  <2> QED BY <1>3, <1>4, <2>3 DEF k, all, S
<1> QED BY <1>5, <1>6

LEMMA ReadPageKeeps ==
  ASSUME ListInv, NEW list, ReadPage(list)
  PROVE  ListInv'
<1> DEFINE S == Listed(db, query)
           page == PageOf(db, query, listing.cursor)
           next == CursorAfter(db, query, listing.cursor)
           rest == Rest(S, query.list, listing.cursor)
           T == Beyond(S, query.list, listing.cursor)
           m == Len(listing.rows)
           rows == listing.rows \o page
<1>1. /\ listing.step = "page" /\ Browsing /\ UNCHANGED <<db, query>>
      /\ listing' = [listing EXCEPT
           !.step = IF next = NoCursor THEN "done" ELSE FirstStep(query),
           !.cursor = next, !.best = {}, !.rows = @ \o page,
           !.marked = @ \cup {r.id : r \in {x \in ToSet(page) : x.id \in listing.best}}]
  BY DEF ReadPage, Browsing
<1>2. /\ listing'.rows = rows /\ listing'.cursor = next /\ listing'.steady = listing.steady
      /\ listing'.changes = listing.changes
      /\ listing'.marked = listing.marked \cup {r.id : r \in {x \in ToSet(page) : x.id \in listing.best}}
      /\ listing'.step = IF next = NoCursor THEN "done" ELSE FirstStep(query)
      /\ {"step", "cursor", "best", "rows", "marked", "steady", "changes"} \subseteq DOMAIN listing'
  BY <1>1 DEF ListInv, ListingTyped
<1>3. /\ query \in Queries /\ query.list \in Lists /\ PageLimit(query) \in Nat \ {0}
      /\ TablesOK(db, listing.changes) /\ listing.changes \in Nat
  BY QueryIsTyped DEF ListInv, ListingTyped, Stored
<1>4. S \in SUBSET Keys /\ IsFiniteSet(S) /\ S \in SUBSET KeysOf(db, query.list)
  BY <1>3, ListedAreKeys
<1>5. /\ page \in Seq(S) /\ Len(page) <= Len(rest)
      /\ \A i \in DOMAIN page : page[i] = rest[i] /\ page[i] \in T
      /\ \A i, j \in DOMAIN page : i < j => Precedes(query.list, page[i], page[j])
      /\ next = NoCursor => Len(page) = Len(rest) /\ T \subseteq ToSet(page)
      /\ next # NoCursor =>
           /\ page # << >> /\ next = {page[Len(page)]}
           /\ \A r \in T : r \in ToSet(page) \/ Precedes(query.list, page[Len(page)], r)
  BY <1>3, <1>4, PageIsRead DEF PageOf, CursorAfter
<1>6. listing.rows \in Seq(Keys)
  BY DEF ListInv, ListingTyped
<1> HIDE DEF S, page, next, rest, T, Keys
<1>7. page \in Seq(Keys)
  BY <1>4, <1>5
<1>8. /\ rows \in Seq(Keys) /\ Len(rows) = m + Len(page) /\ m \in Nat /\ Len(page) \in Nat
      /\ DOMAIN rows = 1 .. m + Len(page) /\ DOMAIN listing.rows = 1 .. m /\ DOMAIN page = 1 .. Len(page)
      /\ \A i \in 1 .. m : rows[i] = listing.rows[i]
      /\ \A i \in 1 .. Len(page) : rows[m + i] = page[i]
  BY <1>6, <1>7
<1> HIDE DEF rows, m
<1>9. \A i \in DOMAIN rows : i \in 1 .. m \/ (i - m \in 1 .. Len(page) /\ rows[i] = page[i - m])
  <2> TAKE i \in DOMAIN rows
  <2>1. i \in Int /\ 1 <= i /\ i <= m + Len(page)
    BY <1>8
  <2>2. CASE i <= m
    BY <1>8, <2>1, <2>2
  <2>3. CASE ~ i <= m
    <3>1. i - m \in 1 .. Len(page) /\ m + (i - m) = i
      BY <1>8, <2>1, <2>3
    <3> QED BY <1>8, <3>1
  <2> QED BY <2>2, <2>3
<1>10. ToSet(rows) = ToSet(listing.rows) \cup ToSet(page)
  <2>1. ToSet(rows) \subseteq ToSet(listing.rows) \cup ToSet(page)
    BY <1>8, <1>9 DEF ToSet
  <2>2. ToSet(listing.rows) \subseteq ToSet(rows)
    BY <1>8 DEF ToSet
  <2>3. ToSet(page) \subseteq ToSet(rows)
    <3>1. \A i \in 1 .. Len(page) : m + i \in DOMAIN rows
      BY <1>8
    <3> QED BY <1>8, <3>1 DEF ToSet
  <2> QED BY <2>1, <2>2, <2>3
<1>11. \A i \in 1 .. Len(page) : page[i] \in KeysOf(db, query.list)
                                 /\ \A c \in listing.cursor : Precedes(query.list, c, page[i])
  BY <1>4, <1>5, <1>8 DEF T, Beyond
<1>12. Stored' /\ ListingTyped'
  BY <1>1, <1>2, <1>8 DEF ListInv, Stored, ListingTyped
<1>13. InSequence'
  <2>1. ASSUME NEW i \in DOMAIN rows, NEW j \in DOMAIN rows, i < j
        PROVE  Precedes(query.list, rows[i], rows[j]) /\ rows[i].id # rows[j].id
    <3>1. CASE j \in 1 .. m
      BY <1>8, <2>1, <3>1 DEF ListInv, InSequence
    <3>2. CASE i \in 1 .. m /\ j \notin 1 .. m
      <4>1. j - m \in 1 .. Len(page) /\ rows[j] = page[j - m] /\ rows[i] = listing.rows[i]
        BY <1>8, <1>9, <3>2
      <4> QED BY <1>1, <1>8, <1>11, <3>2, <4>1, PageFollows
    <3>3. CASE i \notin 1 .. m /\ j \notin 1 .. m
      <4>1. /\ i - m \in 1 .. Len(page) /\ rows[i] = page[i - m]
            /\ j - m \in 1 .. Len(page) /\ rows[j] = page[j - m]
        BY <1>9, <3>3
      <4>2. i - m < j - m
        BY <1>8, <2>1
      <4>3. Precedes(query.list, rows[i], rows[j])
        BY <1>5, <1>8, <4>1, <4>2
      <4>4. rows[i] # rows[j]
        BY <1>8, <4>3, PrecedesIsOrder
      <4>5. rows[i].id # rows[j].id
        BY <1>3, <1>11, <4>1, <4>4, KeysAreUnique
      <4> QED BY <4>3, <4>5
    <3>4. j \in 1 .. m \/ (i \in 1 .. m /\ j \notin 1 .. m) \/ (i \notin 1 .. m /\ j \notin 1 .. m)
      BY <1>8, <2>1
    <3> QED BY <3>1, <3>2, <3>3, <3>4
  <2>2. ASSUME NEW i \in DOMAIN rows
        PROVE  LET r == rows[i] IN
               /\ r.id < 10 + listing.changes /\ (Timed(query.list) => r.at < 10 + listing.changes)
               /\ \A k \in KeysOf(db, query.list) : k.id = r.id => k = r \/ (Timed(query.list) /\ r.at < k.at)
    <3>1. CASE i \in 1 .. m
      BY <1>8, <3>1 DEF ListInv, InSequence
    <3>2. CASE i \notin 1 .. m
      <4>1. rows[i] \in KeysOf(db, query.list)
        BY <1>9, <1>11, <3>2
      <4> QED BY <1>3, <4>1, KeysAreUnique
    <3> QED BY <3>1, <3>2
  <2> QED BY <1>1, <1>2, <2>1, <2>2 DEF InSequence
<1>14. AtCursor'
  <2>1. CASE next = NoCursor
    BY <1>2, <2>1 DEF AtCursor, Browsing
  <2>2. CASE next # NoCursor
    <3>1. Len(page) \in 1 .. Len(page) /\ next = {page[Len(page)]}
      BY <1>5, <1>8, <2>2
    <3>2. rows[Len(rows)] = page[Len(page)] /\ rows # << >>
      BY <1>8, <3>1
    <3> QED BY <1>2, <3>1, <3>2 DEF AtCursor
  <2> QED BY <2>1, <2>2
<1>15. Covered'
  <2>1. listing'.steady \subseteq Listed(db', query')
    BY <1>1, <1>2 DEF ListInv, Covered
  <2>2. ASSUME NEW s \in listing.steady
        PROVE  s \in ToSet(rows) \/ (next # NoCursor /\ \A c \in next : Precedes(query.list, c, s))
    <3>1. CASE s \in ToSet(listing.rows)
      BY <1>10, <3>1
    <3>2. CASE s \notin ToSet(listing.rows)
      <4>1. s \in T
        BY <1>1, <3>2 DEF ListInv, Covered, T, Beyond, S
      <4> QED BY <1>5, <1>10, <4>1
    <3> QED BY <3>1, <3>2
  <2>3. next # NoCursor => Browsing'
    BY <1>2 DEF Browsing, FirstStep
  <2> QED BY <1>1, <1>2, <2>1, <2>2, <2>3 DEF Covered
<1>16. ASSUME listing.changes = 0
       PROVE  /\ Len(rows) <= Len(InOrder(db, query))
              /\ \A i \in DOMAIN rows : rows[i] = InOrder(db, query)[i]
              /\ listing'.step = "done" => Len(rows) = Len(InOrder(db, query))
  <2> DEFINE all == InOrder(db, query)
  <2>1. /\ Len(all) \in Nat /\ Len(rest) = Len(all) - m
        /\ \A i \in 1 .. Len(rest) : rest[i] = all[m + i]
    BY <1>1, <1>16, RestIsLeft DEF rest, S, m
  <2>2. \A i \in 1 .. m : listing.rows[i] = all[i]
    BY <1>8, <1>16 DEF ListInv, Undisturbed
  <2> HIDE DEF all
  <2>3. Len(rows) <= Len(all)
    BY <1>5, <1>8, <2>1
  <2>4. \A i \in DOMAIN rows : rows[i] = all[i]
    <3> TAKE i \in DOMAIN rows
    <3>1. CASE i \in 1 .. m
      BY <1>8, <2>2, <3>1
    <3>2. CASE i \notin 1 .. m
      <4>1. i - m \in 1 .. Len(page) /\ rows[i] = page[i - m] /\ m + (i - m) = i
        BY <1>8, <1>9, <3>2
      <4>2. i - m \in 1 .. Len(rest)
        BY <1>5, <1>8, <2>1, <4>1
      <4>3. page[i - m] = rest[i - m]
        BY <1>5, <1>8, <4>1
      <4> QED BY <2>1, <4>1, <4>2, <4>3
    <3> QED BY <3>1, <3>2
  <2>5. listing'.step = "done" => Len(rows) = Len(all)
    <3>1. listing'.step = "done" => next = NoCursor
      BY <1>2 DEF FirstStep
    <3> QED BY <1>5, <1>8, <2>1, <3>1
  <2> QED BY <2>3, <2>4, <2>5 DEF all
<1>17. ASSUME listing.changes = 0, query.list = "attempts"
       PROVE  /\ listing'.marked = Ids(rows) \cap BestTrip(db, query.subject)
              /\ listing'.step # "page"
  <2> DEFINE B == BestTrip(db, query.subject)
  <2>1. listing.best = B /\ listing.marked = Ids(listing.rows) \cap B
    BY <1>1, <1>17 DEF ListInv, Undisturbed
  <2>2. Ids(rows) = {r.id : r \in ToSet(rows)} /\ Ids(listing.rows) = {r.id : r \in ToSet(listing.rows)}
    BY DEF Ids, ToSet
  <2> HIDE DEF B
  <2>3. listing'.marked = Ids(rows) \cap B
    BY <1>2, <1>10, <2>1, <2>2
  <2>4. listing'.step # "page"
    BY <1>2, <1>17 DEF FirstStep, OfRoute
  <2> QED BY <2>3, <2>4 DEF B
<1>18. Undisturbed'
  BY <1>1, <1>2, <1>16, <1>17 DEF Undisturbed
<1> QED BY <1>12, <1>13, <1>14, <1>15, <1>18 DEF ListInv

LEMMA ListStepFits ==
  ASSUME ListInv, ListNext
  PROVE  ListInv'
<1>0. Stored
  BY DEF ListInv
<1>1. CASE FindRoute \/ FindBest
  BY <1>1, FindRouteKeeps, FindBestKeeps
<1>2. CASE GetPoints
  BY <1>2, ReadPageKeeps, RefusalKeeps DEF GetPoints
<1>3. CASE ListTrips \/ GetTripPoints \/ ListRoutes \/ ListRouteTrips \/ ListRouteAttempts
  BY <1>3, ReadPageKeeps DEF ListTrips, GetTripPoints, ListRoutes, ListRouteTrips, ListRouteAttempts
<1>4. CASE \/ PointArrives \/ DeletePoint
           \/ TripStarts \/ TripEnds \/ TripIsBackfilled \/ PointJoinsTrip
           \/ InsertRoute \/ IncrRouteStats \/ InsertRouteTrip
           \/ DeleteTrip \/ DeleteRoute
  <2>1. Evolves
    BY <1>0, <1>4, PointArrivesEvolves, DeletePointEvolves, TripIsNewEvolves, TripEndsEvolves,
       PointJoinsTripEvolves, InsertRouteEvolves, IncrRouteStatsEvolves, InsertRouteTripEvolves,
       DeleteTripEvolves, DeleteRouteEvolves
  <2> QED BY <2>1, EvolvesKeeps
<1> QED BY <1>1, <1>2, <1>3, <1>4 DEF ListNext

LEMMA ListStutters ==
  ASSUME ListInv, UNCHANGED listVars
  PROVE  ListInv'
BY ZenonT(40) DEF listVars, ListInv, Stored, ListingTyped, InSequence, AtCursor, Covered, Undisturbed, Browsing

LEMMA ListStarts ==
  ASSUME NEW tables, \A t \in tables : TablesOK(t, 0), ListInit(tables)
  PROVE  ListInv
<1>1. /\ TablesOK(db, 0) /\ query \in Queries
      /\ listing = [step |-> FirstStep(query), cursor |-> NoCursor, best |-> {}, rows |-> <<>>,
                    marked |-> {}, steady |-> Listed(db, query), changes |-> 0]
  BY DEF ListInit
<1>2. Stored /\ ListingTyped
  BY <1>1 DEF Stored, ListingTyped
<1>3. InSequence /\ AtCursor
  BY <1>1 DEF InSequence, AtCursor
<1>4. Covered
  <2>1. Browsing
    BY <1>1 DEF Browsing, FirstStep
  <2> QED BY <1>1, <2>1 DEF Covered, NoCursor
<1>5. Undisturbed
  <2>1. Len(InOrder(db, query)) \in Nat
    <3>1. query.list \in Lists
      BY <1>1, QueryIsTyped
    <3>2. Listed(db, query) \in SUBSET Keys /\ IsFiniteSet(Listed(db, query))
      BY <1>1, <3>1, ListedAreKeys
    <3>3. InOrder(db, query) \in Seq(Beyond(Listed(db, query), query.list, NoCursor))
      BY <3>2, RestSorts DEF InOrder
    <3> QED BY <3>3
  <2>2. listing.rows = << >> /\ listing.step # "done" /\ listing.marked = {} /\ Ids(<< >>) = {}
    BY <1>1 DEF FirstStep, Ids
  <2>3. query.list = "attempts" => listing.step # "page"
    BY <1>1 DEF FirstStep, OfRoute
  <2> QED BY <2>1, <2>2, <2>3 DEF Undisturbed
<1> QED BY <1>2, <1>3, <1>4, <1>5 DEF ListInv

-----------------------------------------------------------------------------
(* The attempts of a route.                                                 *)

Attempt == [trip : Int, started : Int, duration : Int]

FasterPairs(S) == {p \in S \X S : Faster(p[1], p[2])}

LEMMA FasterIsOrder ==
  ASSUME NEW S \in SUBSET Attempt
  PROVE  IsOrder(FasterPairs(S), S)
<1>1. \A a, b \in S : <<a, b>> \in FasterPairs(S) <=> Faster(a, b)
  BY DEF FasterPairs
<1>2. \A a \in S : a.trip \in Int /\ a.started \in Int /\ a.duration \in Int
  BY DEF Attempt
<1>3. \A a, b \in S : a # b => a.trip # b.trip \/ a.started # b.started \/ a.duration # b.duration
  BY DEF Attempt
<1>4. \A a \in S : ~ Faster(a, a)
  BY <1>2 DEF Faster
<1>5. \A a, b \in S : a # b => Faster(a, b) \/ Faster(b, a)
  BY <1>2, <1>3 DEF Faster
<1>6. \A a, b, c \in S : Faster(a, b) /\ Faster(b, c) => Faster(a, c)
  BY <1>2 DEF Faster
<1> QED BY <1>1, <1>4, <1>5, <1>6 DEF IsOrder

\* The first of the attempts sorted by time is the one ranked first.
LEMMA FirstIsFastest ==
  ASSUME NEW S \in SUBSET Attempt, IsFiniteSet(S)
  PROVE  LET sorted == Sorted(S, Faster) IN
         Fastest(S) = IF sorted = << >> THEN {} ELSE {sorted[1]}
<1> DEFINE R == FasterPairs(S)
           n == Cardinality(S)
           sorted == Sorted(S, Faster)
<1>1. IsOrder(R, S)
  BY FasterIsOrder
<1>2. sorted = ByRank(R, S)
  <2>1. sorted = [i \in 1 .. n |-> CHOOSE r \in S : Cardinality({s \in S : Faster(s, r)}) = i - 1]
    BY DEF Sorted
  <2>2. \A r \in S : {s \in S : Faster(s, r)} = Below(R, S, r)
    BY DEF Below, FasterPairs
  <2>3. \A i \in 1 .. n : (CHOOSE r \in S : Cardinality({s \in S : Faster(s, r)}) = i - 1)
                          = CHOOSE r \in S : Cardinality(Below(R, S, r)) = i - 1
    <3> HIDE DEF R, sorted, n
    <3> QED BY <2>2
  <2>4. ByRank(R, S) = [i \in 1 .. n |-> CHOOSE r \in S : Cardinality(Below(R, S, r)) = i - 1]
    BY DEF ByRank
  <2> HIDE DEF R, sorted, n
  <2> QED BY <2>1, <2>3, <2>4
<1>3. \A a, b : <<a, b>> \in R => Faster(a, b)
  BY DEF FasterPairs
<1>4. /\ n \in Nat /\ sorted \in [1 .. n -> S]
      /\ \A r \in S : \E i \in 1 .. n : sorted[i] = r
      /\ \A i, j \in 1 .. n : i < j => <<sorted[i], sorted[j]>> \in R
  <2> HIDE DEF R, sorted
  <2> QED BY <1>1, <1>2, RankSorts
<1> HIDE DEF R, sorted, n
<1>5. CASE n = 0
  <2>1. S = {} /\ sorted = << >>
    BY <1>4, <1>5
  <2> QED BY <2>1 DEF Fastest, sorted
<1>6. CASE n # 0
  <2>1. 1 \in 1 .. n /\ sorted # << >> /\ sorted[1] \in S
    BY <1>4, <1>6
  <2>2. \A b \in S \ {sorted[1]} : Faster(sorted[1], b)
    <3> TAKE b \in S \ {sorted[1]}
    <3>1. PICK i \in 1 .. n : sorted[i] = b
      BY <1>4
    <3>2. 1 < i
      BY <1>4, <3>1
    <3> QED BY <1>3, <1>4, <2>1, <3>1, <3>2
  <2>3. \A a \in Fastest(S) : a = sorted[1]
    <3> SUFFICES ASSUME NEW a \in Fastest(S), a # sorted[1] PROVE FALSE
      OBVIOUS
    <3>1. a \in S /\ Faster(a, sorted[1]) /\ Faster(sorted[1], a)
      BY <2>1, <2>2 DEF Fastest
    <3>2. <<a, sorted[1]>> \in R /\ <<sorted[1], a>> \in R
      BY <2>1, <3>1 DEF R, FasterPairs
    <3> QED BY <1>1, <2>1, <3>1, <3>2 DEF IsOrder
  <2>4. sorted[1] \in Fastest(S)
    BY <2>1, <2>2 DEF Fastest
  <2> QED BY <2>1, <2>3, <2>4 DEF sorted
<1> QED BY <1>5, <1>6

LEMMA AttemptsFit ==
  ASSUME NEW t, NEW n \in Nat, TablesOK(t, n), NEW route
  PROVE  LET S == AttemptsAt(t, route)
             q == {l \in t.links : l.route = route /\ IsAttempt(t, l)}
         IN /\ S \in SUBSET Attempt /\ IsFiniteSet(S)
            /\ {a.trip : a \in S} = {l.trip : l \in q}
            /\ Cardinality(S) = Cardinality({l.trip : l \in q})
<1> DEFINE S == AttemptsAt(t, route)
           q == {l \in t.links : l.route = route /\ IsAttempt(t, l)}
           joined == {x \in t.links \X t.trips :
             x[1].route = route /\ x[1].trip = x[2].id /\ ~x[2].active /\ x[1].duration > 0}
           of(x) == [trip |-> x[2].id, started |-> x[2].started, duration |-> x[1].duration]
           ids == [a \in S |-> a.trip]
<1>1. /\ t \in Tables
      /\ \A l \in t.links : l.trip \in Nat /\ l.duration \in Int
      /\ \A x \in t.trips : x.id \in Nat /\ x.started \in Int
  BY Columns DEF TablesOK
<1>2. /\ IsFiniteSet(t.links) /\ IsFiniteSet(t.trips)
      /\ \A l, m \in t.links : l.trip = m.trip => l = m
      /\ \A x, y \in t.trips : x.id = y.id => x = y
  <2>1. IsFiniteSet(t.links)
    BY FS_Subset DEF TablesOK, LinksOK
  <2> QED BY <2>1 DEF TablesOK, LinksOK, Unique
<1>3. S = {of(x) : x \in joined}
  BY DEF AttemptsAt
<1>4. \A x \in joined : of(x) \in Attempt
  BY <1>1 DEF Attempt
<1>5. IsFiniteSet(joined)
  <2>1. IsFiniteSet(t.links \X t.trips)
    BY <1>2, FS_Product
  <2>2. joined \in SUBSET (t.links \X t.trips)
    OBVIOUS
  <2> HIDE DEF joined
  <2> QED BY <2>1, <2>2, FS_Subset
<1>6. IsFiniteSet(S)
  <2> DEFINE f == [x \in joined |-> of(x)]
  <2>1. f \in Surjection(joined, S)
    <3> HIDE DEF joined, of, S
    <3> QED BY <1>3 DEF Surjection
  <2> HIDE DEF f, joined, S
  <2> QED BY <1>5, <2>1, FS_Surjection
<1>7. \A x, y \in joined : x[2].id = y[2].id => of(x) = of(y)
  BY <1>2
<1>8. \A a, b \in S : a.trip = b.trip => a = b
  <2> TAKE a, b \in S
  <2> HAVE a.trip = b.trip
  <2>1. PICK x \in joined : a = of(x)
    BY <1>3
  <2>2. PICK y \in joined : b = of(y)
    BY <1>3
  <2>3. x[2].id = y[2].id
    BY <2>1, <2>2
  <2> QED BY <1>7, <2>1, <2>2, <2>3
<1>9. {a.trip : a \in S} = {l.trip : l \in q}
  <2>1. \A a \in S : a.trip \in {l.trip : l \in q}
    <3> TAKE a \in S
    <3>1. PICK x \in joined : a = of(x)
      BY <1>3
    <3>2. x[1] \in q /\ a.trip = x[1].trip
      BY <3>1 DEF IsAttempt, GetTrip
    <3> QED BY <3>2
  <2>2. \A l \in q : l.trip \in {a.trip : a \in S}
    <3> TAKE l \in q
    <3>1. PICK x \in t.trips : x.id = l.trip /\ ~x.active
      BY DEF IsAttempt, GetTrip
    <3>2. <<l, x>> \in joined
      BY <3>1 DEF IsAttempt
    <3>3. of(<<l, x>>) \in S /\ of(<<l, x>>).trip = l.trip
      BY <1>3, <3>1, <3>2
    <3> QED BY <3>3
  <2> HIDE DEF S, q
  <2> QED BY <2>1, <2>2
<1>10. Cardinality(S) = Cardinality({l.trip : l \in q})
  <2>1. ids \in Surjection(S, {a.trip : a \in S})
    BY DEF Surjection
  <2>2. ids \in Injection(S, {a.trip : a \in S})
    BY <1>8 DEF Injection, IsInjective
  <2> HIDE DEF S, q, ids
  <2> QED BY <1>6, <1>9, <2>1, <2>2, FS_Surjection
<1>11. S \in SUBSET Attempt
  BY <1>3, <1>4
<1> QED BY <1>6, <1>9, <1>10, <1>11

LEMMA BestIsFastest ==
  ASSUME NEW t, NEW n \in Nat, TablesOK(t, n), NEW route
  PROVE  /\ BestTrip(t, route) = {b.trip : b \in Fastest(AttemptsAt(t, route))}
         /\ Fastest(AttemptsAt(t, route)) \subseteq AttemptsAt(t, route)
<1> DEFINE S == AttemptsAt(t, route)
           sorted == Sorted(S, Faster)
<1>1. S \in SUBSET Attempt /\ IsFiniteSet(S)
  BY AttemptsFit
<1>2. BestTrip(t, route) = IF sorted = << >> THEN {} ELSE {sorted[1].trip}
  BY DEF BestTrip
<1>3. Fastest(S) = IF sorted = << >> THEN {} ELSE {sorted[1]}
  <2> HIDE DEF S
  <2> QED BY <1>1, FirstIsFastest
<1>4. Fastest(S) \subseteq S
  BY DEF Fastest
<1> HIDE DEF S, sorted
<1> QED BY <1>2, <1>3, <1>4 DEF S

-----------------------------------------------------------------------------
\* A whole list has its records once each.
LEMMA InOrderHasAll ==
  ASSUME NEW t, NEW n \in Nat, TablesOK(t, n), NEW q, q.list \in Lists
  PROVE  LET all == InOrder(t, q)
             S == Listed(t, q)
         IN /\ all \in Seq(S) /\ Len(all) = Cardinality(S)
            /\ \A k \in S : \E i \in 1 .. Len(all) : all[i] = k
            /\ \A i, j \in 1 .. Len(all) : i < j => Precedes(q.list, all[i], all[j])
            /\ Ids(all) = {k.id : k \in S}
<1> DEFINE S == Listed(t, q)
           all == InOrder(t, q)
<1>1. S \in SUBSET Keys /\ IsFiniteSet(S)
  BY ListedAreKeys
<1>2. Beyond(S, q.list, NoCursor) = S /\ all = Rest(S, q.list, NoCursor)
  BY DEF Beyond, NoCursor, InOrder
<1>3. /\ all \in Seq(S) /\ Len(all) = Cardinality(S)
      /\ \A k \in S : \E i \in 1 .. Len(all) : all[i] = k
      /\ \A i, j \in 1 .. Len(all) : i < j => Precedes(q.list, all[i], all[j])
  <2> HIDE DEF S, all
  <2> QED BY <1>1, <1>2, RestSorts
<1> HIDE DEF S, all
<1>4. DOMAIN all = 1 .. Len(all) /\ \A i \in DOMAIN all : all[i] \in S
  BY <1>3
<1>5. Ids(all) = {k.id : k \in S}
  BY <1>3, <1>4 DEF Ids
<1> QED BY <1>3, <1>5 DEF S, all

\* The attempts listed are those the records of the route are taken of.
LEMMA AttemptsAreListed ==
  ASSUME NEW t, NEW n \in Nat, TablesOK(t, n), NEW q, q.list = "attempts"
  PROVE  /\ Ids(InOrder(t, q)) = {a.trip : a \in AttemptsAt(t, q.subject)}
         /\ Cardinality(AttemptsAt(t, q.subject)) = Cardinality(Ids(InOrder(t, q)))
<1> DEFINE links == {l \in t.links : l.route = q.subject /\ IsAttempt(t, l)}
<1>1. Listed(t, q) = {Row(l.trip, l.matched) : l \in links}
  BY DEF Listed, AttemptsListed
<1>2. {k.id : k \in Listed(t, q)} = {l.trip : l \in links}
  <2>1. \A l \in links : Row(l.trip, l.matched).id = l.trip
    BY DEF Row
  <2> HIDE DEF links
  <2> QED BY <1>1, <2>1
<1>3. Ids(InOrder(t, q)) = {k.id : k \in Listed(t, q)}
  BY InOrderHasAll DEF Lists
<1>4. {a.trip : a \in AttemptsAt(t, q.subject)} = {l.trip : l \in links}
  BY AttemptsFit
<1>5. Cardinality(AttemptsAt(t, q.subject)) = Cardinality({l.trip : l \in links})
  BY AttemptsFit
<1> QED BY <1>2, <1>3, <1>4, <1>5

LEMMA ListingFits ==
  ASSUME ListInv
  PROVE  ListingIsFaithful
<1> SUFFICES ASSUME listing.step = "done"
             PROVE  /\ \A i, j \in DOMAIN listing.rows : i < j =>
                         /\ Precedes(query.list, listing.rows[i], listing.rows[j])
                         /\ listing.rows[i].id # listing.rows[j].id
                    /\ listing.steady \subseteq ToSet(listing.rows)
                    /\ listing.changes = 0 =>
                         /\ listing.rows = InOrder(db, query)
                         /\ query.list = "attempts" =>
                              listing.marked = {b.trip : b \in GetRouteResult(db, query.subject).best}
  BY DEF ListingIsFaithful
<1>1. \A i, j \in DOMAIN listing.rows : i < j =>
        /\ Precedes(query.list, listing.rows[i], listing.rows[j])
        /\ listing.rows[i].id # listing.rows[j].id
  BY DEF ListInv, InSequence
<1>2. listing.steady \subseteq ToSet(listing.rows)
  BY DEF ListInv, Covered, Browsing
<1>3. ASSUME listing.changes = 0 PROVE listing.rows = InOrder(db, query)
  <2> DEFINE all == InOrder(db, query)
             rows == listing.rows
  <2>1. Len(rows) = Len(all) /\ \A i \in DOMAIN rows : rows[i] = all[i]
    BY <1>3 DEF ListInv, Undisturbed
  <2>2. rows \in Seq(Keys)
    BY DEF ListInv, ListingTyped
  <2>3. all \in Seq(Listed(db, query))
    BY QueryIsTyped, InOrderHasAll DEF ListInv, Stored, ListingTyped
  <2> HIDE DEF all, rows, Keys
  <2>4. rows = all
    BY <2>1, <2>2, <2>3
  <2> QED BY <2>4 DEF all, rows
<1>4. ASSUME listing.changes = 0, query.list = "attempts"
      PROVE  listing.marked = {b.trip : b \in GetRouteResult(db, query.subject).best}
  <2> DEFINE S == AttemptsAt(db, query.subject)
  <2>1. listing.marked = Ids(InOrder(db, query)) \cap BestTrip(db, query.subject)
    BY <1>3, <1>4 DEF ListInv, Undisturbed
  <2>2. BestTrip(db, query.subject) = {b.trip : b \in Fastest(S)} /\ Fastest(S) \subseteq S
    BY BestIsFastest DEF ListInv, Stored
  <2>3. Ids(InOrder(db, query)) = {a.trip : a \in S}
    BY <1>4, AttemptsAreListed DEF ListInv, Stored
  <2>4. GetRouteResult(db, query.subject).best = Fastest(S)
    BY DEF GetRouteResult
  <2> HIDE DEF S
  <2> QED BY <2>1, <2>2, <2>3, <2>4
<1> QED BY <1>1, <1>2, <1>3, <1>4

-----------------------------------------------------------------------------
\* The summary is that of the points listed.
LEMMA SummaryFits ==
  ASSUME NEW t, NEW n \in Nat, TablesOK(t, n), NEW q, q.list = "points"
  PROVE  LET s == GetSummary(t, q)
             points == InOrder(t, q)
         IN /\ s.count = Len(points)
            /\ points # <<>> => /\ s.first = {points[1].at} /\ s.last = {points[Len(points)].at}
                                /\ s.duration = points[Len(points)].at - points[1].at
<1> DEFINE P == {p \in t.points : OfDevice(p, q) /\ InRange(p.at, q)}
           at == {p.at : p \in P}
           S == Listed(t, q)
           points == InOrder(t, q)
           m == Len(points)
           f == [p \in P |-> Row(p.id, p.at)]
<1>1. /\ \A p \in t.points : p.id \in Nat /\ p.at \in Int
      /\ IsFiniteSet(t.points) /\ \A x, y \in t.points : x.id = y.id => x = y
  BY Columns DEF TablesOK, PointsOK, Unique
<1>2. S = {Row(p.id, p.at) : p \in P}
  BY DEF Listed, PointsListed
<1>3. IsFiniteSet(P) /\ P \in SUBSET t.points
  BY <1>1, FS_Subset
<1>4. Cardinality(P) = Cardinality(S)
  <2>1. f \in Surjection(P, S)
    BY <1>2 DEF Surjection
  <2>2. f \in Injection(P, S)
    <3>1. \A x, y \in P : f[x] = f[y] => x = y
      BY <1>1 DEF Row
    <3>2. f \in [P -> S]
      BY <1>2
    <3> HIDE DEF f, P, S
    <3> QED BY <3>1, <3>2 DEF Injection, IsInjective
  <2> HIDE DEF f, P, S
  <2> QED BY <1>3, <2>1, <2>2, FS_Surjection
<1>5. /\ points \in Seq(S) /\ m = Cardinality(S)
      /\ \A k \in S : \E i \in 1 .. m : points[i] = k
      /\ \A i, j \in 1 .. m : i < j => Precedes("points", points[i], points[j])
  <2>1. q.list \in Lists
    BY DEF Lists
  <2> HIDE DEF P, at, f
  <2>2. points \in Seq(S) /\ m = Cardinality(S)
    BY <2>1, InOrderHasAll
  <2>3. \A k \in S : \E i \in 1 .. m : points[i] = k
    BY <2>1, InOrderHasAll
  <2>4. \A i, j \in 1 .. m : i < j => Precedes(q.list, points[i], points[j])
    BY <2>1, InOrderHasAll
  <2> HIDE DEF points, S
  <2> QED BY <2>2, <2>3, <2>4
<1>6. /\ GetSummary(t, q).count = Cardinality(P)
      /\ P # {} => /\ GetSummary(t, q).first = {Min(at)} /\ GetSummary(t, q).last = {Max(at)}
                   /\ GetSummary(t, q).duration = Max(at) - Min(at)
  BY DEF GetSummary, Summary
<1>7. at = {k.at : k \in S} /\ at \in SUBSET Int
  <2>1. \A p \in P : Row(p.id, p.at).at = p.at
    BY DEF Row
  <2>2. at = {k.at : k \in S}
    <3> HIDE DEF P, S
    <3> QED BY <1>2, <2>1
  <2> QED BY <1>1, <2>2
<1>8. P = {} => S = {}
  BY <1>2
<1> HIDE DEF P, at, S, points
<1>9. ASSUME points # << >>
      PROVE  P # {} /\ Min(at) = points[1].at /\ Max(at) = points[m].at
  <2>1. m \in Nat /\ m > 0 /\ 1 \in 1 .. m /\ m \in 1 .. m
    BY <1>5, <1>9
  <2>2. \A i \in 1 .. m : points[i] \in S /\ points[i].at \in at
    BY <1>5, <1>7
  <2>3. \A i \in 1 .. m : points[1].at <= points[i].at /\ points[i].at <= points[m].at
    <3> TAKE i \in 1 .. m
    <3>1. points[i].at \in Int /\ points[1].at \in Int /\ points[m].at \in Int
      BY <1>7, <2>1, <2>2
    <3>2. i = 1 \/ 1 < i
      OBVIOUS
    <3>3. i = m \/ i < m
      BY <2>1
    <3>4. i = 1 \/ Precedes("points", points[1], points[i])
      BY <1>5, <2>1, <3>2
    <3>5. i = m \/ Precedes("points", points[i], points[m])
      BY <1>5, <2>1, <3>3
    <3> QED BY <3>1, <3>4, <3>5 DEF Precedes
  <2>4. \A x \in at : points[1].at <= x /\ x <= points[m].at
    <3> TAKE x \in at
    <3>1. PICK k \in S : x = k.at
      BY <1>7
    <3>2. PICK i \in 1 .. m : points[i] = k
      BY <1>5
    <3> QED BY <2>3, <3>1, <3>2
  <2>5. points[1].at \in at /\ points[m].at \in at
    BY <2>1, <2>2
  <2>6. \A x \in at : (\A y \in at : x =< y) <=> x = points[1].at
    <3> DEFINE least == points[1].at
    <3>1. least \in at /\ \A x \in at : least <= x
      BY <2>4, <2>5
    <3> HIDE DEF least
    <3>2. \A x \in at : (\A y \in at : x =< y) <=> x = least
      BY <1>7, <3>1
    <3> QED BY <3>2 DEF least
  <2>7. \A x \in at : (\A y \in at : x >= y) <=> x = points[m].at
    <3> DEFINE most == points[m].at
    <3>1. most \in at /\ \A x \in at : x <= most
      BY <2>4, <2>5
    <3> HIDE DEF most
    <3>2. \A x \in at : (\A y \in at : x >= y) <=> x = most
      BY <1>7, <3>1
    <3> QED BY <3>2 DEF most
  <2>8. Min(at) = points[1].at
    BY <2>5, <2>6 DEF Min
  <2>9. Max(at) = points[m].at
    BY <2>5, <2>7 DEF Max
  <2>10. P # {}
    BY <1>8, <2>1, <2>2
  <2> QED BY <2>8, <2>9, <2>10
<1> QED BY <1>4, <1>5, <1>6, <1>9 DEF points

\* The records of a route are of its links and their trips.
LEMMA RecordsFit ==
  ASSUME NEW t, NEW n \in Nat, TablesOK(t, n), NEW route, NEW q, NEW u,
         q.list = "attempts", q.subject = route, u.list = "route_trips", u.subject = route
  PROVE  LET attempts == Ids(InOrder(t, q))
             trips == Ids(InOrder(t, u))
             result == GetRouteResult(t, route)
         IN /\ result.attempts = Cardinality(attempts)
            /\ {b.trip : b \in result.best} = BestTrip(t, route)
            /\ {a.trip : a \in result.best \cup result.latest} \subseteq attempts
            /\ attempts \subseteq trips
            /\ \A id \in trips : GetTrip(t, id) # {}
            /\ \A c \in result.comparison : c >= 0
<1> DEFINE S == AttemptsAt(t, route)
           attempts == Ids(InOrder(t, q))
           trips == Ids(InOrder(t, u))
           result == GetRouteResult(t, route)
<1>1. /\ result.attempts = Cardinality(S) /\ result.best = Fastest(S) /\ result.latest = Newest(S)
      /\ result.comparison = {l.duration - b.duration : b \in Fastest(S), l \in Newest(S)}
  BY DEF GetRouteResult, Comparison
<1>2. Fastest(S) \subseteq S /\ Newest(S) \subseteq S
  BY DEF Fastest, Newest
<1>3. attempts = {a.trip : a \in S} /\ Cardinality(S) = Cardinality(attempts)
  BY AttemptsAreListed
<1>4. {b.trip : b \in Fastest(S)} = BestTrip(t, route)
  BY BestIsFastest
<1>5. trips = {l.trip : l \in {x \in t.links : x.route = route /\ GetTrip(t, x.trip) # {}}}
  <2> DEFINE links == {x \in t.links : x.route = route /\ GetTrip(t, x.trip) # {}}
  <2>1. Listed(t, u) = {Row(l.trip, l.matched) : l \in links}
    BY DEF Listed, RouteTripsListed
  <2>2. trips = {k.id : k \in Listed(t, u)}
    BY InOrderHasAll DEF Lists
  <2>3. \A l \in links : Row(l.trip, l.matched).id = l.trip
    BY DEF Row
  <2>4. trips = {l.trip : l \in links}
    <3> HIDE DEF links, trips
    <3> QED BY <2>1, <2>2, <2>3
  <2> QED BY <2>4
<1>6. attempts \subseteq trips
  <2>1. {a.trip : a \in S} = {l.trip : l \in {x \in t.links : x.route = route /\ IsAttempt(t, x)}}
    BY AttemptsFit, Zenon
  <2>2. \A l \in t.links : IsAttempt(t, l) => GetTrip(t, l.trip) # {}
    BY DEF IsAttempt
  <2> HIDE DEF S, attempts, trips
  <2> QED BY <1>3, <1>5, <2>1, <2>2
<1>7. \A id \in trips : GetTrip(t, id) # {}
  <2> HIDE DEF trips
  <2> QED BY <1>5
<1>8. \A b \in Fastest(S), l \in Newest(S) : l.duration - b.duration >= 0
  <2> TAKE b \in Fastest(S), l \in Newest(S)
  <2>1. S \in SUBSET Attempt
    BY AttemptsFit
  <2>2. b.duration \in Int /\ l.duration \in Int
    BY <1>2, <2>1 DEF Attempt
  <2>3. b = l \/ Faster(b, l)
    BY <1>2 DEF Fastest
  <2> HIDE DEF S
  <2> QED BY <2>2, <2>3 DEF Faster
<1> HIDE DEF S, attempts, trips, result
<1>9. {a.trip : a \in result.best \cup result.latest} \subseteq attempts
  BY <1>1, <1>2, <1>3
<1>10. \A c \in result.comparison : c >= 0
  BY <1>1, <1>8
<1> QED BY <1>1, <1>3, <1>4, <1>6, <1>7, <1>9, <1>10 DEF attempts, trips, result

LEMMA TablesAgree ==
  ASSUME ListInv
  PROVE  RecordsAgree
<1>1. /\ TablesOK(db, listing.changes) /\ listing.changes \in Nat
      /\ {"list", "subject", "device", "status", "from", "to", "limit"} \subseteq DOMAIN query
  BY ListsAssumption DEF ListInv, Stored, ListingTyped
<1>2. LET s == GetSummary(db, query)
          points == InOrder(db, [query EXCEPT !.list = "points"])
      IN /\ s.count = Len(points)
         /\ points # <<>> => /\ s.first = {points[1].at} /\ s.last = {points[Len(points)].at}
                             /\ s.duration = points[Len(points)].at - points[1].at
  <2> DEFINE q == [query EXCEPT !.list = "points"]
  <2>1. q.list = "points" /\ q.device = query.device /\ q.from = query.from /\ q.to = query.to
    BY <1>1
  <2> HIDE DEF q
  <2>2. GetSummary(db, query) = GetSummary(db, q)
    BY <2>1 DEF GetSummary, OfDevice, InRange
  <2>3. LET s == GetSummary(db, q)
            points == InOrder(db, q)
        IN /\ s.count = Len(points)
           /\ points # <<>> => /\ s.first = {points[1].at} /\ s.last = {points[Len(points)].at}
                               /\ s.duration = points[Len(points)].at - points[1].at
    BY <1>1, <2>1, SummaryFits
  <2> QED BY <2>2, <2>3 DEF q
<1>3. ASSUME NEW r \in db.routes
      PROVE  LET of(list) == Ids(InOrder(db, [query EXCEPT !.list = list, !.subject = r.id]))
                 result == GetRouteResult(db, r.id)
             IN /\ result.attempts = Cardinality(of("attempts"))
                /\ {b.trip : b \in result.best} = BestTrip(db, r.id)
                /\ {a.trip : a \in result.best \cup result.latest} \subseteq of("attempts")
                /\ of("attempts") \subseteq of("route_trips")
                /\ \A id \in of("route_trips") \cup {r.first, r.last} : GetTrip(db, id) # {}
                /\ \A c \in result.comparison : c >= 0
  <2> DEFINE q == [query EXCEPT !.list = "attempts", !.subject = r.id]
             u == [query EXCEPT !.list = "route_trips", !.subject = r.id]
  <2>1. q.list = "attempts" /\ q.subject = r.id /\ u.list = "route_trips" /\ u.subject = r.id
    BY <1>1
  <2> HIDE DEF q, u
  <2>2. LET attempts == Ids(InOrder(db, q))
            trips == Ids(InOrder(db, u))
            result == GetRouteResult(db, r.id)
        IN /\ result.attempts = Cardinality(attempts)
           /\ {b.trip : b \in result.best} = BestTrip(db, r.id)
           /\ {a.trip : a \in result.best \cup result.latest} \subseteq attempts
           /\ attempts \subseteq trips
           /\ \A id \in trips : GetTrip(db, id) # {}
           /\ \A c \in result.comparison : c >= 0
    BY <1>1, <2>1, RecordsFit
  <2>3. GetTrip(db, r.first) # {} /\ GetTrip(db, r.last) # {}
    BY <1>1 DEF TablesOK, RoutesOK, GetTrip
  <2> QED BY <2>2, <2>3 DEF q, u
<1> QED BY <1>2, <1>3 DEF RecordsAgree
=============================================================================
