---------------------------- MODULE ListBrowsing ----------------------------
(***************************************************************************)
(* One client pages through a list of the gateway, from the first page to  *)
(* the last, while the worker writes the tables and the user deletes from  *)
(* them.  A page is one statement; the lists of a route look the route up  *)
(* in a statement of their own first, and the attempts look up the fastest *)
(* one in another.                                                         *)
(***************************************************************************)
EXTENDS ListQueries

CONSTANTS FirstTables, Queries, Devices, MaxChanges

VARIABLES
  db,        \* the tables, and in `linking' the link of the trip being matched
  query,     \* the list the client pages through, and its filter
  listing    \* how far it is: [step, cursor, best, rows, marked, steady, changes]

listVars == <<db, query, listing>>

\* The tables' columns.
Tables ==
  LET point == [id : Nat, device : Devices, at : Int]
      trip == [id : Nat, device : Devices, active : BOOLEAN, started : Int, duration : Int]
      part == [trip : Nat, id : Nat, device : Devices, at : Int]
      route == [id : Nat, device : Devices, updated : Int, first : Nat, last : Nat]
      link == [route : Nat, trip : Nat, matched : Int, duration : Int]
  IN [points : SUBSET point, trips : SUBSET trip, parts : SUBSET part,
      routes : SUBSET route, links : SUBSET link, linking : SUBSET link]

\* What the schema promises of the tables after n changes: primary keys, and
\* that the identifiers and the times of what is written next are new;
Unique(rows, n) ==
  /\ IsFiniteSet(rows)
  /\ \A x \in rows : x.id < 10 + n /\ \A y \in rows : x.id = y.id => x = y

\* a part has the time of its point;
PointsOK(points, parts, n) ==
  /\ Unique(points, n)
  /\ \A x \in parts : x.id < 10 + n /\ \A p \in points : x.id = p.id => x.at = p.at

\* a route refers to trips;
RoutesOK(routes, trips, n) ==
  /\ Unique(routes, n)
  /\ \A r \in routes : r.updated < 10 + n /\ {r.first, r.last} \subseteq {t.id : t \in trips}

\* a trip has one link, a link refers to a trip.
LinksOK(links, linking, trips, n) ==
  /\ IsFiniteSet(links \cup linking)
  /\ \A l \in links \cup linking :
       /\ l.trip < 10 + n /\ l.matched < 10 + n
       /\ \A m \in links \cup linking : l.trip = m.trip => l = m
  /\ {l.trip : l \in links} \subseteq {t.id : t \in trips}

TablesOK(t, n) ==
  /\ t \in Tables
  /\ PointsOK(t.points, t.parts, n)
  /\ Unique(t.trips, n)
  /\ RoutesOK(t.routes, t.trips, n)
  /\ LinksOK(t.links, t.linking, t.trips, n)

ASSUME ListsAssumption ==
  /\ \A t \in FirstTables : TablesOK(t, 0)
  /\ Queries # {}
  /\ \A q \in Queries :
       /\ {"list", "subject", "device", "status", "from", "to", "limit"} \subseteq DOMAIN q
       /\ q.list \in Lists /\ {q.subject, q.from, q.to, q.limit} \subseteq Int

NoTables == [points |-> {}, trips |-> {}, parts |-> {}, routes |-> {}, links |-> {}, linking |-> {}]

OfRoute(q) == q.list \in {"route_trips", "attempts"}
FirstStep(q) == IF OfRoute(q) THEN "route" ELSE "page"

ListInit(tables) ==
  /\ db \in tables
  /\ query \in Queries
  /\ listing = [step |-> FirstStep(query), cursor |-> NoCursor, best |-> {}, rows |-> <<>>,
                marked |-> {}, steady |-> Listed(db, query), changes |-> 0]

-----------------------------------------------------------------------------
(* The handlers of the lists.                                               *)

FindRoute ==
  /\ listing.step = "route"
  /\ listing' = [listing EXCEPT !.step =
       IF ~RouteExists(db, query.subject) THEN "not found"
       ELSE IF query.list = "attempts" THEN "best" ELSE "page"]
  /\ UNCHANGED <<db, query>>

FindBest ==
  /\ listing.step = "best"
  /\ listing' = [listing EXCEPT !.step = "page", !.best = BestTrip(db, query.subject)]
  /\ UNCHANGED <<db, query>>

\* The page of the list that is asked for.
ReadPage(list) ==
  /\ listing.step = "page" /\ query.list = list
  /\ LET page == PageOf(db, query, listing.cursor)
         next == CursorAfter(db, query, listing.cursor)
     IN listing' = [listing EXCEPT
          !.step = IF next = NoCursor THEN "done" ELSE FirstStep(query),
          !.cursor = next, !.best = {}, !.rows = @ \o page,
          !.marked = @ \cup {r.id : r \in {x \in ToSet(page) : x.id \in listing.best}}]
  /\ UNCHANGED <<db, query>>

\* Only the points are asked for by a range, and refused for a bad one.
GetPoints ==
  \/ ~RangeIsInvalid(query) /\ ReadPage("points")
  \/ /\ listing.step = "page" /\ query.list = "points" /\ RangeIsInvalid(query)
     /\ listing' = [listing EXCEPT !.step = "bad request"]
     /\ UNCHANGED <<db, query>>

ListTrips == ReadPage("trips")
GetTripPoints == ReadPage("trip_points")
ListRoutes == ReadPage("routes")
ListRouteTrips == ReadPage("route_trips")
ListRouteAttempts == ReadPage("attempts")

-----------------------------------------------------------------------------
(* What happens to the tables meanwhile.                                    *)

Browsing == listing.step \notin {"done", "not found", "bad request"}

\* The times of what is new: late, or now.
Now == 10 + listing.changes
NewId == 10 + listing.changes
Late == 2

\* A statement of the worker or of another handler turns the tables into t.
Becomes(t) ==
  /\ Browsing /\ listing.changes < MaxChanges
  /\ db' = t
  /\ listing' = [listing EXCEPT !.changes = @ + 1, !.steady = @ \cap Listed(t, query)]
  /\ UNCHANGED query

PointArrives == \E d \in Devices, at \in {Late, Now} :
  Becomes([db EXCEPT !.points = @ \cup {[id |-> NewId, device |-> d, at |-> at]}])

DeletePoint == \E p \in db.points : Becomes([db EXCEPT !.points = @ \ {p}])

\* ApplyBatch: a trip starts, ends, is found whole in late points, or gets a point.
TripStarts == \E d \in Devices :
  /\ \A t \in db.trips : t.device = d => ~t.active
  /\ Becomes([db EXCEPT !.trips =
       @ \cup {[id |-> NewId, device |-> d, active |-> TRUE, started |-> Now, duration |-> 0]}])

TripEnds == \E t \in {x \in db.trips : x.active} :
  Becomes([db EXCEPT !.trips = (@ \ {t}) \cup {[t EXCEPT !.active = FALSE, !.duration = Now - t.started]}])

TripIsBackfilled == \E d \in Devices :
  Becomes([db EXCEPT !.trips =
    @ \cup {[id |-> NewId, device |-> d, active |-> FALSE, started |-> Late, duration |-> 1]}])

PointJoinsTrip == \E t \in {x \in db.trips : x.active}, p \in db.points :
  /\ p.device = t.device /\ \A x \in db.parts : x.id # p.id
  /\ Becomes([db EXCEPT !.parts = @ \cup {[trip |-> t.id, id |-> p.id, device |-> p.device, at |-> p.at]}])

\* The matching job: the route is created or counted first, the link follows.
Link(route, t) == [route |-> route, trip |-> t.id, matched |-> Now, duration |-> t.duration]

Unmatched == {t \in db.trips : ~t.active /\ \A l \in db.links : l.trip # t.id}

InsertRoute == \E t \in Unmatched :
  /\ db.linking = {}
  /\ Becomes([db EXCEPT !.linking = {Link(NewId, t)}, !.routes =
       @ \cup {[id |-> NewId, device |-> t.device, updated |-> Now, first |-> t.id, last |-> t.id]}])

IncrRouteStats == \E t \in Unmatched, r \in db.routes :
  /\ db.linking = {}
  /\ Becomes([db EXCEPT !.linking = {Link(r.id, t)}, !.routes =
       (@ \ {r}) \cup {[r EXCEPT !.updated = Now, !.last = t.id]}])

\* The foreign keys refuse a link whose route or trip was deleted meanwhile.
InsertRouteTrip == \E l \in db.linking :
  LET stands == RouteExists(db, l.route) /\ GetTrip(db, l.trip) # {} IN
  Becomes([db EXCEPT !.linking = {}, !.links = IF stands THEN @ \cup {l} ELSE @])

WithoutRoutes(t, gone) ==
  [t EXCEPT !.routes = @ \ gone,
            !.links = {l \in @ : \A r \in gone : r.id # l.route}]

\* The routes that begin or end with the trip go first; parts and links cascade.
DeleteTrip ==
  \E t \in db.trips :
    LET kept == WithoutRoutes(db, {r \in db.routes : t.id \in {r.first, r.last}}) IN
    Becomes([kept EXCEPT !.trips = @ \ {t}, !.parts = {x \in @ : x.trip # t.id},
                         !.links = {l \in @ : l.trip # t.id}])

DeleteRoute == \E r \in db.routes : Becomes(WithoutRoutes(db, {r}))

ListNext ==
  \/ FindRoute \/ FindBest
  \/ GetPoints \/ ListTrips \/ GetTripPoints \/ ListRoutes \/ ListRouteTrips \/ ListRouteAttempts
  \/ PointArrives \/ DeletePoint
  \/ TripStarts \/ TripEnds \/ TripIsBackfilled \/ PointJoinsTrip
  \/ InsertRoute \/ IncrRouteStats \/ InsertRouteTrip
  \/ DeleteTrip \/ DeleteRoute

-----------------------------------------------------------------------------

Ids(rows) == {rows[i].id : i \in DOMAIN rows}

\* A finished listing is in the list's order, has no record twice, and has every
\* record that stood unchanged from its first page to its last; when nothing at
\* all changed it is the list, and the attempt marked as the best is the best.
ListingIsFaithful ==
  listing.step = "done" =>
    /\ \A i, j \in DOMAIN listing.rows : i < j =>
         /\ Precedes(query.list, listing.rows[i], listing.rows[j])
         /\ listing.rows[i].id # listing.rows[j].id
    /\ listing.steady \subseteq ToSet(listing.rows)
    /\ listing.changes = 0 =>
         /\ listing.rows = InOrder(db, query)
         /\ query.list = "attempts" =>
              listing.marked = {b.trip : b \in GetRouteResult(db, query.subject).best}

\* The queries of one moment agree: the summary of a range with its points, the
\* records of a route with its attempts and its links, and each route with the
\* trips it names.
RecordsAgree ==
  /\ LET s == GetSummary(db, query)
         points == InOrder(db, [query EXCEPT !.list = "points"])
     IN /\ s.count = Len(points)
        /\ points # <<>> => /\ s.first = {points[1].at} /\ s.last = {points[Len(points)].at}
                            /\ s.duration = points[Len(points)].at - points[1].at
  /\ \A r \in db.routes :
       LET of(list) == Ids(InOrder(db, [query EXCEPT !.list = list, !.subject = r.id]))
           result == GetRouteResult(db, r.id)
       IN /\ result.attempts = Cardinality(of("attempts"))
          /\ {b.trip : b \in result.best} = BestTrip(db, r.id)
          /\ {a.trip : a \in result.best \cup result.latest} \subseteq of("attempts")
          /\ of("attempts") \subseteq of("route_trips")
          /\ \A id \in of("route_trips") \cup {r.first, r.last} : GetTrip(db, id) # {}
          /\ \A c \in result.comparison : c >= 0
=============================================================================
