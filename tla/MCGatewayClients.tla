--------------------------- MODULE MCGatewayClients ---------------------------
(* Four points and four trips of two devices, two routes, and ties in every    *)
(* order a list has; pages of one record and of the default size.              *)
EXTENDS GatewayClients

Point(id, device, at) == [id |-> id, device |-> device, at |-> at]
Trip(id, device, started, duration) ==
  [id |-> id, device |-> device, active |-> duration = 0, started |-> started, duration |-> duration]
Part(trip, id, at) == [trip |-> trip, id |-> id, device |-> "d1", at |-> at]
Route(id, first, last) == [id |-> id, device |-> "d1", updated |-> 6, first |-> first, last |-> last]
LinkOf(route, trip, matched, duration) ==
  [route |-> route, trip |-> trip, matched |-> matched, duration |-> duration]

MCFirstTables == {[
  points |-> {Point(1, "d1", 1), Point(2, "d2", 3), Point(3, "d1", 3), Point(4, "d1", 5)},
  trips |-> {Trip(1, "d1", 1, 2), Trip(2, "d2", 1, 2), Trip(3, "d1", 3, 1), Trip(4, "d1", 3, 0)},
  parts |-> {Part(4, 3, 3), Part(4, 4, 5)},
  routes |-> {Route(1, 1, 2), Route(2, 3, 3)},
  links |-> {LinkOf(1, 1, 4, 2), LinkOf(1, 2, 4, 2), LinkOf(2, 3, 6, 1)},
  linking |-> {}]}

Query(list, subject, device, status, limit) ==
  [list |-> list, subject |-> subject, device |-> device, status |-> status,
   from |-> 1, to |-> 5, limit |-> limit]

MCQueries ==
  {Query(list, 0, device, AnyStatus, limit) :
     list \in {"points", "trips", "routes"}, device \in {AnyDevice, "d1"}, limit \in {0, 1}}
  \cup {[Query("points", 0, AnyDevice, AnyStatus, 1) EXCEPT !.from = 6]}
  \cup {Query("trips", 0, AnyDevice, "completed", 1), Query("trip_points", 4, AnyDevice, AnyStatus, 1)}
  \cup {Query(list, 1, AnyDevice, AnyStatus, limit) : list \in {"route_trips", "attempts"}, limit \in {0, 1}}

MCTabOf == [c \in Calls |-> IF c = "c3" THEN "tab2" ELSE "tab1"]
=============================================================================
