---------------------------- MODULE PointDelivery ----------------------------
(***************************************************************************)
(* What the ingestion path promises about location points, whatever fails  *)
(* on the way: a point is durable on the bus before the tracker hears that *)
(* it was accepted (and may then forget it) and before the worker stores   *)
(* it, and none of the three facts is ever taken back.                     *)
(***************************************************************************)
CONSTANT Points

VARIABLES
  durable,      \* on the event bus
  told,         \* the tracker considers the point delivered
  stored        \* in raw_location_points

vars == <<durable, told, stored>>

Init ==
  /\ durable = {}
  /\ told = {}
  /\ stored = {}

Persist(p) ==
  /\ durable' = durable \cup {p}
  /\ UNCHANGED <<told, stored>>

Tell(S) ==
  /\ S \subseteq durable
  /\ told' = told \cup S
  /\ UNCHANGED <<durable, stored>>

Store(p) ==
  /\ p \in durable
  /\ stored' = stored \cup {p}
  /\ UNCHANGED <<durable, told>>

Next ==
  \/ \E p \in Points : Persist(p) \/ Store(p)
  \/ \E S \in SUBSET Points : Tell(S)

Spec == Init /\ [][Next]_vars
=============================================================================
