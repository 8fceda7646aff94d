--------------------------- MODULE RouteMatching ---------------------------
(***************************************************************************)
(* The worker's route matching job and the gateway's deletions of trips,   *)
(* points and routes, which share the tables of points and routes.  The job *)
(* looks at the oldest unmatched trips, one after the other, with separate *)
(* statements and no transaction: what is deleted, or fails, falls         *)
(* between any two of them.                                                *)
(*                                                                         *)
(* A trip is its place in the order of created_at.  Of the geometry only   *)
(* Similar is kept, and of the scores that one similar route wins; where   *)
(* points were deleted, whether trip and route match is left open.         *)
(***************************************************************************)
EXTENDS Naturals, FiniteSets

CONSTANTS
  MaxTrips,      \* bound: trips whose points_count is at least MinTripPoints
  Similar,       \* <<t, s>>: trip t matches a route whose template is trip s
  BatchSize,     \* routeMatchBatchSize (50)
  MaxRoutes,     \* bound: routes in the table at the same time
  MaxFaults,     \* bound: failed statements and worker crashes
  MaxDeletions   \* bound: deletions by users

Trips == 1 .. MaxTrips
Ids == 1 .. MaxRoutes

\* A trip matches the route made of its own points, from its own start to its
\* own end: six decimals of a degree are less than a metre.
ASSUME RouteAssumption ==
  /\ {MaxTrips, MaxFaults, MaxDeletions} \subseteq Nat
  /\ {BatchSize, MaxRoutes} \subseteq Nat \ {0}
  /\ Similar \subseteq Trips \X Trips
  /\ \A t \in Trips : <<t, t>> \in Similar

VARIABLES
  status,        \* of each trip: trips.status, or not there
  points,        \* how many of its points FindTripPointsWithCoords still joins
  routes,        \* the rows of routes, by id
  link,          \* route_trips: the route of each trip, 0 for none
  todo,          \* trips the cycle has selected and not looked at
  trip, step, target,  \* processTrip: its trip, next statement, route
  read,          \* whether the points read for a new route were all of them
  faults,        \* failures so far
  blind,         \* history: routes inserted because a template did not load
  deletions

job == <<todo, trip, step, target, read>>
tables == <<status, points, routes, link>>
vars == <<tables, job, faults, blind, deletions>>

\* A trip has all its points, lost some, or has fewer than MinTripPoints.
Left == {"all", "some", "few"}
Template == {"all", "some"}

Route == [first : Trips, last : Trips, template : Template, count : Nat]

TypeOK ==
  /\ status \in [Trips -> {"active", "completed", "deleted"}]
  /\ points \in [Trips -> Left]
  /\ DOMAIN routes \subseteq Ids
  /\ \A r \in DOMAIN routes : routes[r] \in Route
  /\ link \in [Trips -> DOMAIN routes \cup {0}]
  /\ todo \subseteq Trips
  /\ step \in {"select", "insert", "count", "link"}
  /\ trip \in Trips \cup {0} /\ (step = "select" <=> trip = 0)
  /\ target \in Ids \cup {0} /\ (step \in {"count", "link"} => target # 0)
  /\ read \in Template
  /\ faults \in 0 .. MaxFaults /\ blind \in 0 .. MaxFaults
  /\ deletions \in 0 .. MaxDeletions

Init ==
  /\ status = [t \in Trips |-> "active"]
  /\ points = [t \in Trips |-> "all"]
  /\ routes = << >>
  /\ link = [t \in Trips |-> 0]
  /\ todo = {}
  /\ trip = 0 /\ step = "select" /\ target = 0 /\ read = "all"
  /\ faults = 0 /\ blind = 0 /\ deletions = 0

-----------------------------------------------------------------------------
Fault == faults < MaxFaults /\ faults' = faults + 1

\* processTrip goes on to its next statement, or returns.
Goes(t, s, r) ==
  /\ trip' = t /\ step' = s /\ target' = r /\ todo' = todo \ {t}
  /\ read' = IF s = "insert" THEN points[t] ELSE "all"

Stops == trip' = 0 /\ step' = "select" /\ target' = 0 /\ read' = "all"
Returns == Stops /\ UNCHANGED todo

\* The job stays before the points of a trip.
BetweenTrips == UNCHANGED <<trip, step, target, read>>

UnchangedRest == UNCHANGED <<faults, blind, deletions>>

-----------------------------------------------------------------------------
(***************************************************************************)
(* RunOnce: the oldest unmatched trips.                                    *)
(***************************************************************************)
\* Faulty variant: a trip that was counted is taken for matched.
UnmatchedUncounted ==
  {t \in Trips : status[t] = "completed" /\ link[t] = 0 /\ \A r \in DOMAIN routes : routes[r].last # t}

Unmatched == {t \in Trips : status[t] = "completed" /\ link[t] = 0}

Oldest(S) == {t \in S : Cardinality({u \in S : u < t}) < BatchSize}

Select ==
  /\ step = "select" /\ todo = {}
  /\ Unmatched # {}
  /\ todo' = Oldest(Unmatched)
  /\ UNCHANGED tables /\ BetweenTrips /\ UnchangedRest

Foremost == {t \in todo : \A u \in todo : t <= u}

-----------------------------------------------------------------------------
(***************************************************************************)
(* processTrip up to its decision: the trip's points, the candidate        *)
(* routes, their templates, FindBestMatch.  A route deleted between these  *)
(* reads is no candidate; which similar one wins is left open.             *)
(***************************************************************************)
\* Nothing is missing on either side: Similar decides.
Comparable(t, r) == points[t] = "all" /\ routes[r].template = "all"

\* Faulty variant: the candidates are found through route_trips.
CandidatesWithTrips(t) ==
  {r \in DOMAIN routes : Comparable(t, r) /\ <<t, routes[r].first>> \in Similar
                           /\ \E u \in Trips : link[u] = r}

Candidates(t) == {r \in DOMAIN routes : Comparable(t, r) /\ <<t, routes[r].first>> \in Similar}

\* Routes the trip may or may not match.
Chances(t) == {r \in DOMAIN routes : ~ Comparable(t, r)}

Short(t) == points[t] = "few"

Takes(t) == step = "select" /\ t \in Foremost

\* Fewer than MinTripPoints rows are left of the trip; none if it was deleted.
Skip(t) ==
  /\ Takes(t)
  /\ Short(t)
  /\ todo' = todo \ {t}
  /\ UNCHANGED tables /\ BetweenTrips /\ UnchangedRest

Match(t) ==
  /\ Takes(t)
  /\ ~ Short(t)
  /\ \E r \in Candidates(t) \cup Chances(t) : Goes(t, "count", r)
  /\ UNCHANGED tables /\ UnchangedRest

NoMatch(t) ==
  /\ Takes(t)
  /\ ~ Short(t)
  /\ Candidates(t) = {}
  /\ Goes(t, "insert", 0)
  /\ UNCHANGED tables /\ UnchangedRest

\* FindRouteTemplate fails for all candidates: each is left out with a warning.
MatchBlind(t) ==
  /\ Takes(t)
  /\ ~ Short(t)
  /\ Candidates(t) # {}
  /\ Fault /\ blind' = blind + 1
  /\ Goes(t, "insert", 0)
  /\ UNCHANGED <<tables, deletions>>

\* The points or the candidates cannot be read.
ReadFails(t) ==
  /\ Takes(t)
  /\ Fault
  /\ todo' = todo \ {t}
  /\ UNCHANGED <<tables, blind, deletions>> /\ BetweenTrips

-----------------------------------------------------------------------------
(***************************************************************************)
(* The statements that write.  routes.first_trip_id and last_trip_id       *)
(* reference trips, route_trips references both.                           *)
(***************************************************************************)
Free == {r \in Ids \ DOMAIN routes : \A q \in Ids \ DOMAIN routes : r <= q}

With(r, row) == [q \in DOMAIN routes \cup {r} |-> IF q = r THEN row ELSE routes[q]]

Inserted(r) == routes' = With(r, [first |-> trip, last |-> trip, template |-> read, count |-> 1])

Counted(r) ==
  IF r \in DOMAIN routes
  THEN routes' = With(r, [routes[r] EXCEPT !.last = trip, !.count = @ + 1])
  ELSE UNCHANGED routes

\* Faulty variant: IncrRouteStats follows for a new route too.
InsertRouteThenCount ==
  /\ step = "insert"
  /\ status[trip] = "completed"
  /\ \E r \in Free : Inserted(r) /\ Goes(trip, "count", r)
  /\ UNCHANGED <<status, points, link>> /\ UnchangedRest

InsertRoute ==
  /\ step = "insert"
  /\ status[trip] = "completed"
  /\ \E r \in Free : Inserted(r) /\ Goes(trip, "link", r)
  /\ UNCHANGED <<status, points, link>> /\ UnchangedRest

\* Faulty variant: only last_trip_id is set.
IncrForgotten ==
  /\ step = "count"
  /\ status[trip] = "completed" \/ target \notin DOMAIN routes
  /\ IF target \in DOMAIN routes
     THEN routes' = With(target, [routes[target] EXCEPT !.last = trip])
     ELSE UNCHANGED routes
  /\ Goes(trip, "link", target)
  /\ UNCHANGED <<status, points, link>> /\ UnchangedRest

\* IncrRouteStats: no row to update is no error.
IncrRouteStats ==
  /\ step = "count"
  /\ status[trip] = "completed" \/ target \notin DOMAIN routes
  /\ Counted(target)
  /\ Goes(trip, "link", target)
  /\ UNCHANGED <<status, points, link>> /\ UnchangedRest

\* ON CONFLICT (trip_id) DO NOTHING.
Linked == link' = [link EXCEPT ![trip] = IF @ = 0 THEN target ELSE @]

InsertRouteTrip ==
  /\ step = "link"
  /\ status[trip] = "completed" /\ target \in DOMAIN routes
  /\ Linked
  /\ Returns
  /\ UNCHANGED <<status, points, routes>> /\ UnchangedRest

\* A foreign key is gone: the statement fails and processTrip returns.
ForeignKeyGone ==
  /\ \/ step = "insert" /\ status[trip] = "deleted"
     \/ step = "count" /\ status[trip] = "deleted" /\ target \in DOMAIN routes
     \/ step = "link" /\ (status[trip] = "deleted" \/ target \notin DOMAIN routes)
  /\ Returns
  /\ UNCHANGED tables /\ UnchangedRest

\* The statement fails, or its result is lost and it was carried out.
StatementFails ==
  /\ step # "select"
  /\ Fault
  /\ \/ UNCHANGED <<routes, link>>
     \/ status[trip] = "completed" /\ UNCHANGED link
        /\ \/ step = "insert" /\ \E r \in Free : Inserted(r)
           \/ step = "count" /\ Counted(target)
     \/ status[trip] = "completed" /\ UNCHANGED routes
        /\ step = "link" /\ target \in DOMAIN routes /\ Linked
  /\ Returns
  /\ UNCHANGED <<status, points, blind, deletions>>

\* The worker stops; the next one starts a new cycle.
WorkerCrash ==
  /\ Fault
  /\ todo' = {} /\ Stops
  /\ UNCHANGED <<tables, blind, deletions>>

-----------------------------------------------------------------------------
(***************************************************************************)
(* Trip detection completes a trip; users delete trips, points and routes. *)
(***************************************************************************)
Complete(t) ==
  /\ status[t] = "active"
  /\ status' = [status EXCEPT ![t] = "completed"]
  /\ UNCHANGED <<points, routes, link, job>> /\ UnchangedRest

Deletes == deletions < MaxDeletions /\ deletions' = deletions + 1

\* DELETE FROM routes, which cascades to route_trips.
Removed(R) ==
  /\ routes' = [r \in DOMAIN routes \ R |-> routes[r]]
  /\ link' = [t \in Trips |-> IF link[t] \in R \/ status'[t] = "deleted" THEN 0 ELSE link[t]]

\* An active trip is referenced by trip_detection_state and cannot be deleted.
DeleteTrip(t) ==
  /\ status[t] = "completed"
  /\ Deletes
  /\ status' = [status EXCEPT ![t] = "deleted"]
  /\ points' = [points EXCEPT ![t] = "few"]
  /\ Removed({r \in DOMAIN routes : t \in {routes[r].first, routes[r].last}})
  /\ UNCHANGED <<job, faults, blind>>

\* DELETE FROM raw_location_points cascades to the processed row, trip_points and
\* trips.points_count stay.  What an active trip loses it is as well to lose
\* when it completes: the job does not look at it before.
DeletePoint(t) ==
  /\ status[t] = "completed" /\ ~ Short(t)
  /\ Deletes
  /\ \E left \in {"some", "few"} : points' = [points EXCEPT ![t] = left]
  /\ UNCHANGED <<status, routes, link, job, faults, blind>>

\* Faulty variant: without the cascade.
DeleteRouteOnly(r) ==
  /\ Deletes
  /\ routes' = [q \in DOMAIN routes \ {r} |-> routes[q]]
  /\ UNCHANGED <<status, points, link, job, faults, blind>>

DeleteRoute(r) ==
  /\ Deletes
  /\ UNCHANGED <<status, points>>
  /\ Removed({r})
  /\ UNCHANGED <<job, faults, blind>>

-----------------------------------------------------------------------------
Job ==
  \/ Select
  \/ \E t \in Trips : Skip(t) \/ Match(t) \/ NoMatch(t)
  \/ InsertRoute \/ IncrRouteStats \/ InsertRouteTrip \/ ForeignKeyGone

Failure ==
  \/ \E t \in Trips : MatchBlind(t) \/ ReadFails(t)
  \/ StatementFails \/ WorkerCrash

Users ==
  \/ \E t \in Trips : DeleteTrip(t) \/ DeletePoint(t)
  \/ \E r \in DOMAIN routes : DeleteRoute(r)

Next ==
  \/ Job \/ Failure \/ Users
  \/ \E t \in Trips : Complete(t)

Spec == Init /\ [][Next]_vars

\* The ticker starts the job again and again, and RunOnce goes through its
\* trips whatever becomes of each; nothing obliges users or failures.
FairSpec == Spec /\ WF_vars(Job)

-----------------------------------------------------------------------------
Links(r) == {t \in Trips : link[t] = r}

\* The job has counted a trip on route r and not linked it yet.
Open(r) == IF step = "link" /\ target = r THEN 1 ELSE 0

Deleted == {t \in Trips : status[t] = "deleted"}

(***************************************************************************)
(* No route shows fewer trips than it has: trips_count covers the links,   *)
(* and the one processTrip is about to insert, through retries, failures   *)
(* and deletions (InsertRoute, IncrRouteStats, InsertRouteTrip).           *)
(***************************************************************************)
CountCoversLinks ==
  \A r \in DOMAIN routes : Cardinality(Links(r)) + Open(r) <= routes[r].count

(***************************************************************************)
(* And it shows more only for a reason: every trip too many is owed to a   *)
(* failure between the count and the link, or to a deleted trip, which no  *)
(* statement subtracts.                                                    *)
(***************************************************************************)
DriftIsPaid ==
  \A r \in DOMAIN routes :
    routes[r].count <= Cardinality(Links(r)) + Open(r) + faults + Cardinality(Deleted)

(***************************************************************************)
(* One path is one route: as long as every template could be loaded, no    *)
(* two routes drawn from all the points of their first trips match each    *)
(* other's first trip, although a route is inserted before its trip is     *)
(* linked, the trip is taken up again after a crash, and points are        *)
(* deleted meanwhile.                                                      *)
(***************************************************************************)
OnePathOneRoute ==
  blind = 0 =>
    \A q, r \in {s \in DOMAIN routes : routes[s].template = "all"} :
      {<<routes[q].first, routes[r].first>>, <<routes[r].first, routes[q].first>>} \subseteq Similar
        => q = r

(***************************************************************************)
(* Every completed trip comes to a route, is deleted or loses its points,  *)
(* however few trips a cycle selects (FindUnmatchedTrips, LIMIT), unless   *)
(* older trips fill each cycle that lost theirs: points_count still counts *)
(* the deleted points, so that such a trip is selected in every cycle and  *)
(* skipped in every cycle.                                                 *)
(***************************************************************************)
Starved(t) ==
  Cardinality({u \in Unmatched : u < t /\ Short(u)}) >= BatchSize

EveryTripIsRouted ==
  \A t \in Trips :
    (status[t] = "completed")
      ~> (link[t] # 0 \/ status[t] = "deleted" \/ Short(t) \/ Starved(t))

(***************************************************************************)
(* trip_query.go: DeleteTrip cascades to trip points, route matches, and   *)
(* any routes seeded by this trip.                                         *)
(***************************************************************************)
OnlySeededRoutesGo ==
  [][\A t \in Trips : t \in Deleted' \ Deleted =>
       \A r \in DOMAIN routes \ DOMAIN routes' : routes[r].first = t]_vars
=============================================================================
