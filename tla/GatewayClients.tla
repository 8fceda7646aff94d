--------------------------- MODULE GatewayClients ---------------------------
(***************************************************************************)
(* The gateway and the clients of one user.  What the user has open is     *)
(* chosen at the start: the phone, the tabs of a browser, or a list that   *)
(* is paged through; the three share the gateway's authentication.         *)
(***************************************************************************)
EXTENDS ListBrowsing, WebSession, PhoneSession

VARIABLE open    \* "phone", "tabs" or "list"

vars == <<open, authVars, webVars, phoneVars, listVars>>

Init ==
  /\ open \in {"phone", "tabs", "list"}
  /\ AuthInit(IF open = "tabs" THEN Tabs ELSE {})
  /\ WebInit /\ PhoneInit
  /\ ListInit(IF open = "list" THEN FirstTables ELSE {NoTables})
  /\ IF open = "list" THEN registered ELSE query = CHOOSE q \in Queries : TRUE

PhoneStep ==
  /\ open = "phone"
  /\ PhoneNext \/ PhoneTick \/ PhoneGateway
  /\ UNCHANGED <<open, webVars, listVars>>

TabsStep ==
  /\ open = "tabs"
  /\ WebNext \/ ((GatewayNext \/ Tick) /\ UNCHANGED webVars)
  /\ UNCHANGED <<open, phoneVars, listVars>>

ListStep ==
  /\ open = "list"
  /\ ListNext
  /\ UNCHANGED <<open, authVars, webVars, phoneVars>>

Next == PhoneStep \/ TabsStep \/ ListStep

\* A request that reached the gateway is answered, and the browser goes on with
\* the answer; nothing is promised of the user, of time or of faults.
Fairness ==
  /\ \A tab \in Tabs : WF_authVars(Handle(tab))
  /\ WebFairness

Spec == Init /\ [][Next]_vars /\ Fairness

\* The types of the three parts.  (AuthSpec is a property of this specification:
\* whatever the clients do together, the gateway sees requests TokenRotation
\* knows, one at a time per flow.)
TypeOK == AuthTypeOK /\ WebTypeOK /\ PhoneTypeOK

\* While nothing fails, and the app does one thing at a time, a refresh is
\* refused only to a token that is too old or that somebody else spent.
RefusedOnlyToRivals == faults = 0 /\ overlaps = 0 => RivalsOnly
=============================================================================
