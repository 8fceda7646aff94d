-------------------------- MODULE MCRouteMatching --------------------------
(* The TLC runs of RouteMatching. *)
EXTENDS RouteMatching

\* The trip in the middle matches both others, which do not match each other.
Neighbours == {p \in Trips \X Trips : p[1] <= p[2] + 1 /\ p[2] <= p[1] + 1}
=============================================================================
