----------------------------- MODULE ListQueries -----------------------------
(***************************************************************************)
(* What the gateway reads of one user's records: the six lists it pages,   *)
(* the summary of a range of points and the records of a route.            *)
(*                                                                         *)
(* The tables are one record of sets: raw points, trips, trip_points       *)
(* (parts), routes and route_trips (links).  Identifiers are numbers, in   *)
(* the order their text has.  A route or a trip of another user is the one *)
(* that is not there: every statement filters by the user.                 *)
(***************************************************************************)
EXTENDS KeysetPages, QueryRequests

Lists == {"points", "trips", "trip_points", "routes", "route_trips", "attempts"}

\* The usecases' default and largest pages.
PointsLimit(q) == Limited(q.limit, 1000, 5000)
TripsLimit(q) == Limited(q.limit, 20, 100)
TripPointsLimit(q) == Limited(q.limit, 500, 5000)
RoutesLimit(q) == Limited(q.limit, 50, 200)
RouteTripsLimit(q) == Limited(q.limit, 50, 200)
AttemptsLimit(q) == Limited(q.limit, 50, 200)

PageLimit(q) ==
  CASE q.list = "points"      -> PointsLimit(q)
    [] q.list = "trips"       -> TripsLimit(q)
    [] q.list = "trip_points" -> TripPointsLimit(q)
    [] q.list = "routes"      -> RoutesLimit(q)
    [] q.list = "route_trips" -> RouteTripsLimit(q)
    [] q.list = "attempts"    -> AttemptsLimit(q)

-----------------------------------------------------------------------------
(* Rows.  A row is its key: the identifier and the time it is listed by.    *)

Row(id, at) == [id |-> id, at |-> at]

AnyStatus == "any"

GetTrip(db, id) == {t \in db.trips : t.id = id}
GetRoute(db, id) == {r \in db.routes : r.id = id}

RouteExists(db, id) == GetRoute(db, id) # {}

IsAttempt(db, link) ==
  link.duration > 0 /\ \E t \in GetTrip(db, link.trip) : ~t.active

PointsListed(db, q) ==
  {Row(p.id, p.at) : p \in {x \in db.points : OfDevice(x, q) /\ InRange(x.at, q)}}

TripsListed(db, q) ==
  {Row(t.id, t.started) : t \in {x \in db.trips :
     OfDevice(x, q) /\ q.status \in {AnyStatus, IF x.active THEN "active" ELSE "completed"}}}

\* The places come from the raw points: a part whose point is gone is not listed.
TripPointsListed(db, q) ==
  {Row(x.id, x.at) : x \in {y \in db.parts :
     y.trip = q.subject /\ \E p \in db.points : p.id = y.id /\ p.device = y.device}}

RoutesListed(db, q) == {Row(r.id, r.updated) : r \in {x \in db.routes : OfDevice(x, q)}}

RouteTripsListed(db, q) ==
  {Row(l.trip, l.matched) : l \in {x \in db.links :
     x.route = q.subject /\ GetTrip(db, x.trip) # {}}}

AttemptsListed(db, q) ==
  {Row(l.trip, l.matched) : l \in {x \in db.links : x.route = q.subject /\ IsAttempt(db, x)}}

Listed(db, q) ==
  CASE q.list = "points"      -> PointsListed(db, q)
    [] q.list = "trips"       -> TripsListed(db, q)
    [] q.list = "trip_points" -> TripPointsListed(db, q)
    [] q.list = "routes"      -> RoutesListed(db, q)
    [] q.list = "route_trips" -> RouteTripsListed(db, q)
    [] q.list = "attempts"    -> AttemptsListed(db, q)

InOrder(db, q) == Rest(Listed(db, q), q.list, NoCursor)

PageOf(db, q, cursor) == Page(Listed(db, q), q.list, cursor, PageLimit(q))

CursorAfter(db, q, cursor) ==
  NextCursor(Listed(db, q), q.list, cursor, PageLimit(q))

-----------------------------------------------------------------------------
(* The records of a route and the summary of a range.                       *)

AttemptsAt(db, route) ==
  {[trip |-> m[2].id, started |-> m[2].started, duration |-> m[1].duration] :
     m \in {x \in db.links \X db.trips :
       x[1].route = route /\ x[1].trip = x[2].id /\ ~x[2].active /\ x[1].duration > 0}}

Faster(a, b) ==
  \/ a.duration < b.duration
  \/ a.duration = b.duration /\ (a.started < b.started \/ (a.started = b.started /\ a.trip < b.trip))

Later(a, b) == a.started > b.started \/ (a.started = b.started /\ a.trip < b.trip)

\* The one attempt ROW_NUMBER ranks first, or none.
Fastest(S) == {a \in S : \A b \in S \ {a} : Faster(a, b)}
Newest(S) == {a \in S : \A b \in S \ {a} : Later(a, b)}

\* getBestTripID: the first row of the attempts sorted by time taken.
BestTrip(db, route) ==
  LET sorted == Sorted(AttemptsAt(db, route), Faster) IN
  IF sorted = <<>> THEN {} ELSE {sorted[1].trip}

\* computeComparison: how much slower the latest attempt was than the best.
Comparison(best, latest) == {l.duration - b.duration : b \in best, l \in latest}

GetRouteResult(db, route) ==
  LET S == AttemptsAt(db, route)
      best == Fastest(S)
      latest == Newest(S)
  IN [attempts |-> Cardinality(S), best |-> best, latest |-> latest,
      comparison |-> Comparison(best, latest)]

Summary(S) ==
  LET at == {p.at : p \in S} IN
  [count |-> Cardinality(S),
   first |-> IF S = {} THEN {} ELSE {Min(at)}, last |-> IF S = {} THEN {} ELSE {Max(at)},
   duration |-> IF S = {} THEN 0 ELSE Max(at) - Min(at)]

\* Faulty variant: the range of the summary excludes its last moment.
SummaryShortOfTo(db, q) == Summary({p \in db.points : OfDevice(p, q) /\ q.from <= p.at /\ p.at < q.to})

GetSummary(db, q) == Summary({p \in db.points : OfDevice(p, q) /\ InRange(p.at, q)})
=============================================================================
