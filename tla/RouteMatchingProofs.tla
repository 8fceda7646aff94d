------------------------ MODULE RouteMatchingProofs ------------------------
(***************************************************************************)
(* The tables of route matching: their types and references, one route for *)
(* one path, and the counter of trips against the links, for every number  *)
(* of trips, routes, failures and deletions and every similarity.          *)
(***************************************************************************)
EXTENDS RouteMatching, FiniteSetTheorems, TLAPS

-----------------------------------------------------------------------------
(***************************************************************************)
(* Types, in three parts: the tables, the job's memory, the counters.      *)
(***************************************************************************)
RoutesOK == DOMAIN routes \subseteq Ids /\ \A r \in DOMAIN routes : routes[r] \in Route

TablesOK ==
  /\ status \in [Trips -> {"active", "completed", "deleted"}]
  /\ points \in [Trips -> Left]
  /\ RoutesOK
  /\ link \in [Trips -> DOMAIN routes \cup {0}]

JobOK ==
  /\ todo \subseteq Trips
  /\ step \in {"select", "insert", "count", "link"}
  /\ trip \in Trips \cup {0} /\ (step = "select" <=> trip = 0)
  /\ target \in Ids \cup {0} /\ (step \in {"count", "link"} => target # 0)
  /\ read \in Template

CountersOK ==
  /\ faults \in 0 .. MaxFaults /\ blind \in 0 .. MaxFaults
  /\ deletions \in 0 .. MaxDeletions

LEMMA Parts == TypeOK <=> TablesOK /\ JobOK /\ CountersOK
BY DEF TypeOK, TablesOK, JobOK, CountersOK, RoutesOK

\* Trips and ids are positive numbers.
LEMMA Positive ==
  /\ Trips \subseteq Nat /\ 0 \notin Trips
  /\ Ids \subseteq Nat /\ 0 \notin Ids
  /\ MaxFaults \in Nat /\ MaxDeletions \in Nat
BY RouteAssumption DEF Trips, Ids

\* Writing one row of routes keeps the table well formed and drops no link.
LEMMA WithTypes ==
  ASSUME TablesOK, NEW r \in Ids, NEW row \in Route, routes' = With(r, row)
  PROVE  /\ RoutesOK' /\ DOMAIN routes' = DOMAIN routes \cup {r} /\ routes'[r] = row
         /\ \A q \in DOMAIN routes \ {r} : routes'[q] = routes[q]
         /\ UNCHANGED link => link' \in [Trips -> DOMAIN routes' \cup {0}]
<1>1. DOMAIN routes' = DOMAIN routes \cup {r}
  BY DEF With
<1>2. \A q \in DOMAIN routes' : routes'[q] = IF q = r THEN row ELSE routes[q]
  BY DEF With
<1>3. RoutesOK'
  BY <1>1, <1>2 DEF RoutesOK, TablesOK
<1>4. UNCHANGED link => link' \in [Trips -> DOMAIN routes' \cup {0}]
  BY <1>1 DEF TablesOK
<1> QED BY <1>1, <1>2, <1>3, <1>4

LEMMA InsertedTypes ==
  ASSUME TablesOK, trip \in Trips, read \in Template, NEW r \in Ids, Inserted(r)
  PROVE  /\ routes' = With(r, [first |-> trip, last |-> trip, template |-> read, count |-> 1])
         /\ [first |-> trip, last |-> trip, template |-> read, count |-> 1] \in Route
BY DEF Inserted, Route

LEMMA CountedTypes ==
  ASSUME TablesOK, trip \in Trips, NEW r \in DOMAIN routes, Counted(r)
  PROVE  LET row == [routes[r] EXCEPT !.last = trip, !.count = @ + 1]
         IN  routes' = With(r, row) /\ row \in Route
<1>1. routes[r] \in Route
  BY DEF TablesOK, RoutesOK
<1>2. routes[r].count + 1 \in Nat
  BY <1>1 DEF Route
<1>3. [routes[r] EXCEPT !.last = trip, !.count = routes[r].count + 1] \in Route
  BY <1>1, <1>2 DEF Route
<1> QED BY <1>3 DEF Counted

LEMMA LinkedTypes ==
  ASSUME TablesOK, trip \in Trips, target \in DOMAIN routes, Linked
  PROVE  /\ link' \in [Trips -> DOMAIN routes \cup {0}]
         /\ link'[trip] = IF link[trip] = 0 THEN target ELSE link[trip]
         /\ \A t \in Trips \ {trip} : link'[t] = link[t]
BY DEF Linked, TablesOK

\* The cascade leaves no link to a route that is gone.
LEMMA RemovedTypes ==
  ASSUME TablesOK, NEW R \in SUBSET DOMAIN routes, Removed(R)
  PROVE  /\ RoutesOK' /\ link' \in [Trips -> DOMAIN routes' \cup {0}]
         /\ DOMAIN routes' = DOMAIN routes \ R
         /\ \A r \in DOMAIN routes' : routes'[r] = routes[r]
BY DEF Removed, TablesOK, RoutesOK

-----------------------------------------------------------------------------
\* The ways the job moves on.
LEMMA JobTypes ==
  ASSUME JobOK,
         \/ UNCHANGED job
         \/ \E t \in Trips, s \in {"count", "link"}, r \in Ids : Goes(t, s, r)
         \/ \E t \in Trips : points[t] \in Template /\ Goes(t, "insert", 0)
         \/ Returns
         \/ BetweenTrips /\ todo' \subseteq Trips
         \/ WorkerCrash
  PROVE  JobOK'
BY Positive DEF JobOK, job, Goes, Returns, Stops, BetweenTrips, WorkerCrash, Template

LEMMA FaultTypes ==
  ASSUME CountersOK, Fault
  PROVE  faults' \in 0 .. MaxFaults
BY Positive DEF CountersOK, Fault

-----------------------------------------------------------------------------
LEMMA InitTypes == Init => TypeOK
BY Positive DEF Init, TypeOK, Ids, Left, Template

(***************************************************************************)
(* What one statement can do to the tables, carried out or reported.       *)
(***************************************************************************)
Ready == trip \in Trips /\ read \in Template /\ status[trip] = "completed"

WritesRoute == Ready /\ step = "insert" /\ (\E r \in Free : Inserted(r))
               /\ UNCHANGED <<status, points, link>>

WritesCount ==
  /\ Ready /\ step = "count" /\ target \in DOMAIN routes
  /\ Counted(target) /\ UNCHANGED <<status, points, link>>

WritesLink ==
  /\ Ready /\ step = "link" /\ target \in DOMAIN routes
  /\ Linked /\ UNCHANGED <<status, points, routes>>

Writes == WritesRoute \/ WritesCount \/ WritesLink \/ UNCHANGED tables

LEMMA StepWrites == ASSUME TypeOK, Job \/ Failure PROVE Writes
<1>1. read \in Template /\ (step # "select" => trip \in Trips)
  BY DEF TypeOK
<1>2. CASE InsertRoute
  BY <1>1, <1>2 DEF InsertRoute, Writes, WritesRoute, Ready
<1>3. CASE IncrRouteStats
  BY <1>1, <1>3 DEF IncrRouteStats, Counted, Writes, WritesCount, Ready, tables
<1>4. CASE InsertRouteTrip
  BY <1>1, <1>4 DEF InsertRouteTrip, Writes, WritesLink, Ready
<1>5. CASE StatementFails
  BY <1>1, <1>5 DEF StatementFails, Counted, Writes, WritesRoute, WritesCount, WritesLink, Ready, tables
<1>6. CASE Select \/ ForeignKeyGone \/ WorkerCrash
  BY <1>6 DEF Select, ForeignKeyGone, WorkerCrash, Writes
<1>7. ASSUME NEW t \in Trips, Skip(t) \/ Match(t) \/ NoMatch(t) \/ MatchBlind(t) \/ ReadFails(t)
      PROVE  Writes
  BY <1>7 DEF Skip, Match, NoMatch, MatchBlind, ReadFails, Writes, tables
<1> QED BY <1>2, <1>3, <1>4, <1>5, <1>6, <1>7 DEF Job, Failure

LEMMA WritesTypes == ASSUME TypeOK, Writes PROVE TablesOK'
<1>1. TablesOK
  BY Parts
<1>2. CASE WritesRoute
  <2>1. PICK r \in Free : Inserted(r)
    BY <1>2 DEF WritesRoute
  <2>2. r \in Ids
    BY DEF Free
  <2>3. RoutesOK' /\ link' \in [Trips -> DOMAIN routes' \cup {0}]
    BY <1>1, <1>2, <2>1, <2>2, InsertedTypes, WithTypes DEF WritesRoute, Ready
  <2> QED BY <1>1, <1>2, <2>3 DEF WritesRoute, TablesOK
<1>3. CASE WritesCount
  <2>1. target \in Ids
    BY <1>1, <1>3 DEF WritesCount, TablesOK, RoutesOK
  <2>2. RoutesOK' /\ link' \in [Trips -> DOMAIN routes' \cup {0}]
    BY <1>1, <1>3, <2>1, CountedTypes, WithTypes DEF WritesCount, Ready
  <2> QED BY <1>1, <1>3, <2>2 DEF WritesCount, TablesOK
<1>4. CASE WritesLink
  BY <1>1, <1>4, LinkedTypes DEF WritesLink, Ready, TablesOK, RoutesOK
<1>5. CASE UNCHANGED tables
  BY <1>1, <1>5 DEF tables, TablesOK, RoutesOK
<1> QED BY <1>2, <1>3, <1>4, <1>5 DEF Writes

LEMMA SelectedTypes == Oldest(Unmatched) \subseteq Trips
BY DEF Oldest, Unmatched

LEMMA JobStepTypes == ASSUME TypeOK, Job \/ Failure PROVE JobOK'
<1>1. TablesOK /\ JobOK
  BY Parts
<1>2. step # "select" => trip \in Trips
  BY <1>1 DEF JobOK
<1>3. CASE Select
  BY <1>1, <1>3, SelectedTypes, JobTypes DEF Select
<1>4. ASSUME NEW t \in Trips, Skip(t) \/ ReadFails(t) PROVE JobOK'
  <2>1. BetweenTrips /\ todo' \subseteq Trips
    BY <1>1, <1>4 DEF Skip, ReadFails, JobOK
  <2> QED BY <1>1, <2>1, JobTypes
<1>5. ASSUME NEW t \in Trips, Match(t) PROVE JobOK'
  <2>1. \E r \in Ids : Goes(t, "count", r)
    BY <1>1, <1>5 DEF Match, Candidates, Chances, TablesOK, RoutesOK
  <2> QED BY <1>1, <2>1, JobTypes
<1>6. ASSUME NEW t \in Trips, NoMatch(t) \/ MatchBlind(t) PROVE JobOK'
  <2>1. points[t] \in Template /\ Goes(t, "insert", 0)
    BY <1>1, <1>6 DEF NoMatch, MatchBlind, TablesOK, Short, Left, Template
  <2> QED BY <1>1, <2>1, JobTypes
<1>7. CASE InsertRoute
  <2>1. \E r \in Ids : Goes(trip, "link", r)
    BY <1>7 DEF InsertRoute, Free
  <2>2. trip \in Trips
    BY <1>2, <1>7 DEF InsertRoute
  <2> QED BY <1>1, <2>1, <2>2, JobTypes
<1>8. CASE IncrRouteStats
  <2>1. Goes(trip, "link", target) /\ trip \in Trips /\ target \in Ids
    BY <1>1, <1>2, <1>8 DEF IncrRouteStats, JobOK
  <2> QED BY <1>1, <2>1, JobTypes
<1>9. CASE InsertRouteTrip \/ ForeignKeyGone \/ StatementFails \/ WorkerCrash
  BY <1>1, <1>9, JobTypes DEF InsertRouteTrip, ForeignKeyGone, StatementFails
<1> QED BY <1>3, <1>4, <1>5, <1>6, <1>7, <1>8, <1>9 DEF Job, Failure

\* A template fails to load at most once for every failure.
BlindIsFault == blind <= faults

TypeInv == TypeOK /\ BlindIsFault

LEMMA CounterTypes == ASSUME TypeInv, [Next]_vars PROVE CountersOK' /\ BlindIsFault'
<1>1. CountersOK /\ BlindIsFault
  BY Parts DEF TypeInv
<1>2. CASE UnchangedRest
  BY <1>1, <1>2 DEF UnchangedRest, CountersOK, BlindIsFault
<1>3. CASE Failure
  <2>1. Fault /\ UNCHANGED deletions /\ (UNCHANGED blind \/ blind' = blind + 1)
    BY <1>3 DEF Failure, MatchBlind, ReadFails, StatementFails, WorkerCrash
  <2> QED BY <1>1, <2>1, Positive DEF CountersOK, BlindIsFault, Fault
<1>4. CASE Users
  <2>1. Deletes /\ UNCHANGED <<faults, blind>>
    BY <1>4 DEF Users, DeleteTrip, DeletePoint, DeleteRoute
  <2> QED BY <1>1, <2>1, Positive DEF CountersOK, BlindIsFault, Deletes
<1>5. Job \/ (\E t \in Trips : Complete(t)) \/ UNCHANGED vars => UnchangedRest
  BY DEF Job, Select, Skip, Match, NoMatch, InsertRoute, IncrRouteStats, InsertRouteTrip,
         ForeignKeyGone, Complete, UnchangedRest, vars
<1> QED BY <1>2, <1>3, <1>4, <1>5 DEF Next

\* What a deletion removes, and whose links.
LEMMA UserStep ==
  ASSUME TypeOK, Users
  PROVE  /\ status' \in [Trips -> {"active", "completed", "deleted"}]
         /\ points' \in [Trips -> Left]
         /\ UNCHANGED <<job, faults, blind>>
         /\ \/ \E R \in SUBSET DOMAIN routes : Removed(R)
            \/ UNCHANGED <<status, routes, link>>
BY DEF Users, DeleteTrip, DeletePoint, DeleteRoute, TypeOK, Left

LEMMA StepTypes == TypeInv /\ [Next]_vars => TypeInv'
<1> SUFFICES ASSUME TypeInv, [Next]_vars PROVE TypeInv'
  OBVIOUS
<1>1. TypeOK /\ TablesOK /\ JobOK
  BY Parts DEF TypeInv
<1>2. CountersOK' /\ BlindIsFault'
  BY CounterTypes
<1>3. TablesOK' /\ JobOK'
  <2>1. CASE Job \/ Failure
    BY <1>1, <2>1, StepWrites, WritesTypes, JobStepTypes
  <2>2. CASE Users
    <3>1. TablesOK'
      BY <1>1, <2>2, UserStep, RemovedTypes DEF TablesOK, RoutesOK
    <3>2. JobOK'
      BY <1>1, <2>2, UserStep, JobTypes
    <3> QED BY <3>1, <3>2
  <2>3. ASSUME NEW t \in Trips, Complete(t) PROVE TablesOK' /\ JobOK'
    BY <1>1, <2>3, JobTypes DEF Complete, TablesOK, RoutesOK
  <2>4. CASE UNCHANGED vars
    BY <1>1, <2>4, JobTypes DEF vars, tables, TablesOK, RoutesOK
  <2> QED BY <2>1, <2>2, <2>3, <2>4 DEF Next
<1>4. TypeOK'
  BY <1>2, <1>3 DEF TypeOK, TablesOK, RoutesOK, JobOK, CountersOK
<1> QED BY <1>2, <1>4 DEF TypeInv

(***************************************************************************)
(* Every variable keeps its type; in particular no link refers to a route  *)
(* that is gone, through deletions between any two statements of the job.  *)
(***************************************************************************)
THEOREM TypeCorrect == Spec => []TypeOK
<1>1. Init => TypeInv
  BY InitTypes DEF Init, TypeInv, BlindIsFault
<1>2. TypeInv => TypeOK
  BY DEF TypeInv
<1> QED BY <1>1, <1>2, StepTypes, PTL DEF Spec

-----------------------------------------------------------------------------
(***************************************************************************)
(* One path, one route.  The route is inserted one step after the search   *)
(* found no candidate; what is missing is that there is still none.        *)
(***************************************************************************)
\* Routes drawn from all the points of their first trip.
Whole == {r \in DOMAIN routes : routes[r].template = "all"}

Alike(t) == {r \in Whole : <<t, routes[r].first>> \in Similar}

StillNone == step = "insert" /\ blind = 0 /\ read = "all" => Alike(trip) = {}

PathInv == TypeInv /\ OnePathOneRoute /\ StillNone

\* Routes that stay keep the template they were created from.
NoneAdded ==
  /\ DOMAIN routes' \subseteq DOMAIN routes
  /\ \A r \in DOMAIN routes' :
       routes'[r].first = routes[r].first /\ routes'[r].template = routes[r].template

LEMMA NoneAddedPath ==
  ASSUME PathInv, NoneAdded, blind' = 0 => blind = 0
  PROVE  OnePathOneRoute' /\ (\A t : Alike(t)' \subseteq Alike(t))
BY DEF PathInv, NoneAdded, OnePathOneRoute, Alike, Whole

LEMMA WritesAdd == ASSUME TypeOK, Writes PROVE NoneAdded \/ WritesRoute
<1>1. TablesOK
  BY Parts
<1>2. CASE WritesCount
  <2> DEFINE row == [routes[target] EXCEPT !.last = trip, !.count = @ + 1]
  <2>1. target \in Ids /\ target \in DOMAIN routes
    BY <1>1, <1>2 DEF WritesCount, TablesOK, RoutesOK
  <2>2. routes' = With(target, row) /\ row \in Route
    BY <1>1, <1>2, <2>1, CountedTypes DEF WritesCount, Ready
  <2>3. row.first = routes[target].first /\ row.template = routes[target].template
    BY <1>1, <2>1 DEF TablesOK, RoutesOK, Route
  <2>4. /\ DOMAIN routes' = DOMAIN routes \cup {target} /\ routes'[target] = row
        /\ \A q \in DOMAIN routes \ {target} : routes'[q] = routes[q]
    <3> HIDE DEF row
    <3> QED BY <1>1, <2>1, <2>2, WithTypes
  <2> QED BY <2>1, <2>3, <2>4 DEF NoneAdded
<1>3. CASE WritesLink \/ UNCHANGED tables
  BY <1>3 DEF WritesLink, NoneAdded, tables
<1> QED BY <1>2, <1>3 DEF Writes

LEMMA AddedPath ==
  ASSUME PathInv, WritesRoute, blind' = 0 => blind = 0
  PROVE  OnePathOneRoute'
<1>1. TablesOK
  BY Parts DEF PathInv, TypeInv
<1>2. PICK r \in Free : Inserted(r)
  BY DEF WritesRoute
<1>3. r \in Ids \ DOMAIN routes
  BY DEF Free
<1>4. /\ DOMAIN routes' = DOMAIN routes \cup {r}
      /\ routes'[r].first = trip /\ routes'[r].template = read
      /\ \A q \in DOMAIN routes : routes'[q] = routes[q]
  <2> DEFINE row == [first |-> trip, last |-> trip, template |-> read, count |-> 1]
  <2>1. routes' = With(r, row) /\ row \in Route
    BY <1>1, <1>2, <1>3, InsertedTypes DEF WritesRoute, Ready
  <2>2. row.first = trip /\ row.template = read
    OBVIOUS
  <2> HIDE DEF row
  <2>3. DOMAIN routes' = DOMAIN routes \cup {r} /\ routes'[r] = row
        /\ \A q \in DOMAIN routes \ {r} : routes'[q] = routes[q]
    BY <1>1, <1>3, <2>1, WithTypes
  <2> QED BY <1>3, <2>2, <2>3
<1>5. blind = 0 /\ read = "all" => \A q \in Whole : <<trip, routes[q].first>> \notin Similar
  BY DEF PathInv, StillNone, Alike, WritesRoute
<1> QED BY <1>3, <1>4, <1>5 DEF PathInv, OnePathOneRoute, Whole

LEMMA PathStep == PathInv /\ [Next]_vars => PathInv'
<1> SUFFICES ASSUME PathInv, [Next]_vars PROVE PathInv'
  OBVIOUS
<1>1. TypeInv /\ TypeOK /\ TypeInv'
  BY StepTypes DEF PathInv, TypeInv
<1>2. blind' = 0 => blind = 0
  <2>1. Job \/ Users \/ (\E t \in Trips : Complete(t)) \/ UNCHANGED vars => UNCHANGED blind
    BY DEF Job, Select, Skip, Match, NoMatch, InsertRoute, IncrRouteStats, InsertRouteTrip, ForeignKeyGone,
           Users, DeleteTrip, DeletePoint, DeleteRoute, Complete, UnchangedRest, vars
  <2>2. Failure => UNCHANGED blind \/ blind' = blind + 1
    BY DEF Failure, MatchBlind, ReadFails, StatementFails, WorkerCrash
  <2>3. blind \in Nat
    BY <1>1, Positive DEF TypeOK
  <2> QED BY <2>1, <2>2, <2>3 DEF Next
<1>3. NoneAdded \/ WritesRoute
  <2>1. CASE Job \/ Failure
    BY <1>1, <2>1, StepWrites, WritesAdd
  <2>2. CASE Users
    BY <1>1, <2>2, UserStep, RemovedTypes, Parts DEF NoneAdded
  <2>3. ASSUME NEW t \in Trips, Complete(t) PROVE NoneAdded
    BY <2>3 DEF Complete, NoneAdded
  <2>4. CASE UNCHANGED vars
    BY <2>4 DEF vars, tables, NoneAdded
  <2> QED BY <2>1, <2>2, <2>3, <2>4 DEF Next
<1>4. OnePathOneRoute'
  BY <1>2, <1>3, NoneAddedPath, AddedPath
<1>5. StillNone'
  <2> SUFFICES ASSUME step' = "insert", blind' = 0, read' = "all" PROVE Alike(trip)' = {}
    BY DEF StillNone
  <2>1. CASE Users \/ (\E t \in Trips : Complete(t)) \/ UNCHANGED vars
    <3>1. UNCHANGED job
      BY <1>1, <2>1, UserStep DEF Complete, UnchangedRest, vars
    <3>2. NoneAdded
      <4>1. CASE Users
        BY <1>1, <4>1, UserStep, RemovedTypes, Parts DEF NoneAdded
      <4> QED BY <2>1, <4>1 DEF Complete, NoneAdded, vars, tables
    <3>3. Alike(trip)' \subseteq Alike(trip)
      BY <1>2, <3>1, <3>2, NoneAddedPath DEF job, Alike, Whole
    <3> QED BY <1>2, <3>1, <3>3 DEF PathInv, StillNone, job
  <2>2. ASSUME NEW t \in Trips, NoMatch(t) PROVE Alike(trip)' = {}
    BY <2>2 DEF NoMatch, Goes, Candidates, Comparable, Alike, Whole, tables
  <2>3. ASSUME NEW t \in Trips, MatchBlind(t) PROVE FALSE
    BY <1>1, <2>3, Positive DEF MatchBlind, TypeOK
  <2>4. ASSUME NEW t \in Trips, Skip(t) \/ Match(t) \/ ReadFails(t) PROVE FALSE
    BY <2>4 DEF Skip, Match, ReadFails, Takes, Goes, BetweenTrips
  <2>5. ~(Select \/ InsertRoute \/ IncrRouteStats \/ InsertRouteTrip \/ ForeignKeyGone
          \/ StatementFails \/ WorkerCrash)
    BY DEF Select, InsertRoute, IncrRouteStats, InsertRouteTrip, ForeignKeyGone, StatementFails,
           WorkerCrash, Goes, Returns, Stops, BetweenTrips
  <2> QED BY <2>1, <2>2, <2>3, <2>4, <2>5 DEF Next, Job, Failure
<1> QED BY <1>1, <1>4, <1>5 DEF PathInv

(***************************************************************************)
(* As long as every template could be loaded, no two routes match each     *)
(* other's template (FindBestMatch, InsertRoute).                          *)
(***************************************************************************)
THEOREM OnePath == Spec => []OnePathOneRoute
<1>1. Init => PathInv
  BY InitTypes DEF Init, PathInv, TypeInv, BlindIsFault, OnePathOneRoute, StillNone
<1>2. PathInv => OnePathOneRoute
  BY DEF PathInv
<1> QED BY <1>1, <1>2, PathStep, PTL DEF Spec

-----------------------------------------------------------------------------
(***************************************************************************)
(* trips_count of a route against the trips linked to it: never too small, *)
(* and too large only by failures and deleted trips.                       *)
(***************************************************************************)
Size(r) == Cardinality(Links(r))

\* Now and after the step.
LEMMA LinksFinite ==
  ASSUME NEW r
  PROVE  /\ IsFiniteSet(Links(r)) /\ Size(r) \in Nat
         /\ IsFiniteSet(Links(r)') /\ Size(r)' \in Nat
<1>1. IsFiniteSet(Trips)
  BY FS_Interval, RouteAssumption DEF Trips
<1>2. Links(r) \subseteq Trips /\ Links(r)' \subseteq Trips
  BY DEF Links
<1> QED BY <1>1, <1>2, FS_Subset, FS_CardinalityType DEF Size

LEMMA CountIsNat == ASSUME TypeOK, NEW r \in DOMAIN routes PROVE routes[r].count \in Nat
BY DEF TypeOK, Route

LEMMA OpenIsBit == \A r : Open(r) \in {0, 1} /\ Open(r)' \in {0, 1}
BY DEF Open

-----------------------------------------------------------------------------
(***************************************************************************)
(* What each write does to the counters and to the number of links.        *)
(***************************************************************************)
LEMMA RouteAdds ==
  ASSUME TypeOK, Ready, NEW r \in Free, Inserted(r), UNCHANGED link
  PROVE  /\ DOMAIN routes' = DOMAIN routes \cup {r}
         /\ routes'[r].count = 1 /\ Size(r)' = 0
         /\ \A q \in DOMAIN routes : q # r /\ routes'[q].count = routes[q].count /\ Size(q)' = Size(q)
<1>1. TablesOK /\ r \in Ids /\ r \notin DOMAIN routes /\ r # 0 /\ trip \in Trips /\ read \in Template
  BY Parts, Positive DEF Free, Ready
<1>2. /\ routes' = With(r, [first |-> trip, last |-> trip, template |-> read, count |-> 1])
      /\ [first |-> trip, last |-> trip, template |-> read, count |-> 1] \in Route
  BY <1>1, InsertedTypes
<1>3. /\ DOMAIN routes' = DOMAIN routes \cup {r}
      /\ routes'[r] = [first |-> trip, last |-> trip, template |-> read, count |-> 1]
      /\ \A q \in DOMAIN routes \ {r} : routes'[q] = routes[q]
  BY <1>1, <1>2, WithTypes
<1>4. \A q : Links(q)' = Links(q)
  BY DEF Links
<1>5. Links(r) = {}
  BY <1>1 DEF Links, TablesOK
<1>6. Size(r)' = 0
  BY <1>4, <1>5, FS_EmptySet DEF Size
<1> QED BY <1>1, <1>3, <1>4, <1>6 DEF Size

LEMMA CountAdds ==
  ASSUME TypeOK, WritesCount
  PROVE  /\ DOMAIN routes' = DOMAIN routes /\ target \in DOMAIN routes
         /\ routes'[target].count = routes[target].count + 1
         /\ \A q \in DOMAIN routes \ {target} : routes'[q].count = routes[q].count
         /\ \A q : Size(q)' = Size(q)
<1> DEFINE row == [routes[target] EXCEPT !.last = trip, !.count = @ + 1]
<1>1. TablesOK /\ target \in Ids /\ target \in DOMAIN routes /\ trip \in Trips
  BY Parts DEF WritesCount, Ready, TablesOK, RoutesOK
<1>2. routes' = With(target, row) /\ row \in Route
  BY <1>1, CountedTypes DEF WritesCount
<1>3. row.count = routes[target].count + 1
  BY <1>1 DEF TablesOK, RoutesOK, Route
<1>4. /\ DOMAIN routes' = DOMAIN routes \cup {target} /\ routes'[target] = row
      /\ \A q \in DOMAIN routes \ {target} : routes'[q] = routes[q]
  <2> HIDE DEF row
  <2> QED BY <1>1, <1>2, WithTypes
<1>5. \A q : Links(q)' = Links(q)
  BY DEF Links, WritesCount
<1> QED BY <1>1, <1>3, <1>4, <1>5 DEF Size

LEMMA LinkAdds ==
  ASSUME TypeOK, WritesLink
  PROVE  /\ UNCHANGED routes
         /\ \A q \in DOMAIN routes :
              Size(q)' = IF q = target /\ link[trip] = 0 THEN Size(q) + 1 ELSE Size(q)
<1>1. TablesOK /\ target \in DOMAIN routes /\ target # 0 /\ 0 \notin DOMAIN routes /\ trip \in Trips
  BY Parts, Positive DEF WritesLink, Ready, TablesOK, RoutesOK
<1>2. /\ link'[trip] = IF link[trip] = 0 THEN target ELSE link[trip]
      /\ \A t \in Trips \ {trip} : link'[t] = link[t]
  BY <1>1, LinkedTypes DEF WritesLink
<1>3. ASSUME NEW q \in DOMAIN routes
      PROVE  Size(q)' = IF q = target /\ link[trip] = 0 THEN Size(q) + 1 ELSE Size(q)
  <2>1. CASE q = target /\ link[trip] = 0
    <3>1. Links(q)' = Links(q) \cup {trip} /\ trip \notin Links(q)
      BY <1>1, <1>2, <2>1 DEF Links
    <3>2. Size(q)' = Size(q) + 1
      BY <3>1, LinksFinite, FS_AddElement DEF Size
    <3> QED BY <2>1, <3>2
  <2>2. CASE ~(q = target /\ link[trip] = 0)
    <3>1. Links(q)' = Links(q)
      BY <1>1, <1>2, <2>2 DEF Links
    <3> QED BY <2>2, <3>1 DEF Size
  <2> QED BY <2>1, <2>2
<1> QED BY <1>3 DEF WritesLink

LEMMA RemovalKeeps ==
  ASSUME TypeOK, Users
  PROVE  /\ DOMAIN routes' \subseteq DOMAIN routes
         /\ \A q \in DOMAIN routes' : routes'[q] = routes[q] /\ Size(q)' <= Size(q)
<1>1. TablesOK /\ 0 \notin DOMAIN routes
  BY Parts, Positive DEF TablesOK, RoutesOK
<1>2. ASSUME NEW R \in SUBSET DOMAIN routes, Removed(R)
      PROVE  /\ DOMAIN routes' \subseteq DOMAIN routes
             /\ \A q \in DOMAIN routes' : routes'[q] = routes[q] /\ Links(q)' \subseteq Links(q)
  <2>1. DOMAIN routes' = DOMAIN routes \ R /\ \A q \in DOMAIN routes' : routes'[q] = routes[q]
    BY <1>1, <1>2, RemovedTypes
  <2>2. \A q \in DOMAIN routes' : Links(q)' \subseteq Links(q)
    BY <1>1, <1>2, <2>1 DEF Links, Removed
  <2> QED BY <2>1, <2>2
<1>3. CASE UNCHANGED <<status, routes, link>>
  <2>1. \A q : Links(q)' = Links(q)
    BY <1>3 DEF Links
  <2>2. \A q \in DOMAIN routes' : Size(q) \in Nat /\ Size(q)' = Size(q)
    BY <2>1, LinksFinite DEF Size
  <2>3. \A q \in DOMAIN routes' : Size(q)' <= Size(q)
    BY <2>2
  <2> QED BY <1>3, <2>3
<1>4. CASE \E R \in SUBSET DOMAIN routes : Removed(R)
  BY <1>2, <1>4, LinksFinite, FS_Subset DEF Size
<1> QED BY <1>3, <1>4, UserStep

-----------------------------------------------------------------------------
(***************************************************************************)
(* CountCoversLinks is inductive with the types: the counter goes first,   *)
(* and until the link follows the trip is Open.                            *)
(***************************************************************************)
\* Whatever is written, the links alone stay covered.
LEMMA WritesCover ==
  ASSUME TypeOK, CountCoversLinks, Writes, NEW q \in DOMAIN routes'
  PROVE  Size(q)' <= routes'[q].count
<1>1. q \in DOMAIN routes => Size(q) + Open(q) <= routes[q].count /\ routes[q].count \in Nat
  BY CountIsNat DEF CountCoversLinks, Size
<1>2. Size(q) \in Nat /\ Open(q) \in {0, 1}
  BY LinksFinite, OpenIsBit
<1>3. CASE WritesRoute
  <2>1. PICK r \in Free : Inserted(r)
    BY <1>3 DEF WritesRoute
  <2>2. CASE q = r
    <3>1. routes'[q].count = 1 /\ Size(q)' = 0
      BY <1>3, <2>1, <2>2, RouteAdds DEF WritesRoute
    <3> QED BY <3>1
  <2>3. CASE q # r
    <3>1. q \in DOMAIN routes
      BY <1>3, <2>1, <2>3, RouteAdds DEF WritesRoute
    <3>2. routes'[q].count = routes[q].count /\ Size(q)' = Size(q)
      BY <1>3, <2>1, <3>1, RouteAdds DEF WritesRoute
    <3> QED BY <1>1, <1>2, <3>1, <3>2
  <2> QED BY <2>2, <2>3
<1>4. CASE WritesCount
  <2>1. q \in DOMAIN routes /\ Size(q)' = Size(q)
    BY <1>4, CountAdds
  <2>2. routes'[q].count \in {routes[q].count, routes[q].count + 1}
    BY <1>4, <2>1, CountAdds
  <2> QED BY <1>1, <1>2, <2>1, <2>2
<1>5. CASE WritesLink
  <2>1. q \in DOMAIN routes /\ routes'[q] = routes[q]
    BY <1>5, LinkAdds
  <2>2. Size(q)' = IF q = target /\ link[trip] = 0 THEN Size(q) + 1 ELSE Size(q)
    BY <1>5, <2>1, LinkAdds
  <2>3. q = target => Open(q) = 1
    BY <1>5 DEF WritesLink, Open
  <2>4. Size(q)' <= Size(q) + Open(q)
    BY <1>2, <2>2, <2>3
  <2>5. Size(q)' \in Nat
    BY LinksFinite
  <2> QED BY <1>1, <1>2, <2>1, <2>4, <2>5
<1>6. CASE UNCHANGED tables
  <2>1. routes' = routes /\ Size(q)' = Size(q)
    BY <1>6 DEF tables, Size, Links
  <2> QED BY <1>1, <1>2, <2>1
<1> QED BY <1>3, <1>4, <1>5, <1>6 DEF Writes

LEMMA CoversStep == TypeInv /\ CountCoversLinks /\ [Next]_vars => CountCoversLinks'
<1> SUFFICES ASSUME TypeInv, CountCoversLinks, [Next]_vars, NEW q \in DOMAIN routes'
             PROVE  Size(q)' + Open(q)' <= routes'[q].count
  BY DEF CountCoversLinks, Size
<1>1. TypeOK
  BY DEF TypeInv
<1>2. /\ q \in DOMAIN routes => Size(q) + Open(q) <= routes[q].count
      /\ q \in DOMAIN routes => routes[q].count \in Nat
  BY <1>1, CountIsNat DEF CountCoversLinks, Size
<1>3. Size(q) \in Nat /\ Size(q)' \in Nat /\ Open(q) \in {0, 1} /\ Open(q)' \in {0, 1}
  BY LinksFinite, OpenIsBit
<1>4. step # "select" => trip \in Trips
  BY <1>1 DEF TypeOK
<1>5. CASE InsertRoute
  <2>1. PICK r \in Free : Inserted(r) /\ Goes(trip, "link", r)
    BY <1>5 DEF InsertRoute
  <2>2. Ready /\ UNCHANGED link
    BY <1>1, <1>4, <1>5 DEF InsertRoute, Ready, TypeOK
  <2>3. CASE q = r
    <3>1. routes'[q].count = 1 /\ Size(q)' = 0
      BY <1>1, <2>1, <2>2, <2>3, RouteAdds
    <3> QED BY <1>3, <3>1
  <2>4. CASE q # r
    <3>1. q \in DOMAIN routes
      BY <1>1, <2>1, <2>2, <2>4, RouteAdds
    <3>2. routes'[q].count = routes[q].count /\ Size(q)' = Size(q)
      BY <1>1, <2>1, <2>2, <3>1, RouteAdds
    <3>3. Open(q)' = 0
      BY <2>1, <2>4 DEF Open, Goes
    <3> QED BY <1>2, <1>3, <3>1, <3>2, <3>3
  <2> QED BY <2>3, <2>4
<1>6. CASE IncrRouteStats
  <2>1. step = "count" /\ target' = target /\ Open(q) = 0
    BY <1>6 DEF IncrRouteStats, Goes, Open
  <2>2. CASE target \in DOMAIN routes
    <3>1. WritesCount
      BY <1>1, <1>4, <1>6, <2>2 DEF IncrRouteStats, WritesCount, Ready, TypeOK
    <3>2. q \in DOMAIN routes /\ Size(q)' = Size(q)
      BY <1>1, <3>1, CountAdds
    <3>3. CASE q = target
      <4>1. routes'[q].count = routes[q].count + 1
        BY <1>1, <3>1, <3>3, CountAdds
      <4> QED BY <1>2, <1>3, <2>1, <3>2, <4>1
    <3>4. CASE q # target
      <4>1. routes'[q].count = routes[q].count
        BY <1>1, <3>1, <3>2, <3>4, CountAdds
      <4>2. Open(q)' = 0
        BY <2>1, <3>4 DEF Open
      <4> QED BY <1>2, <1>3, <3>2, <4>1, <4>2
    <3> QED BY <3>3, <3>4
  <2>3. CASE target \notin DOMAIN routes
    <3>1. routes' = routes /\ Size(q)' = Size(q)
      BY <1>6, <2>3 DEF IncrRouteStats, Counted, Size, Links
    <3>2. Open(q)' = 0
      BY <2>1, <2>3, <3>1 DEF Open
    <3> QED BY <1>2, <1>3, <3>1, <3>2
  <2> QED BY <2>2, <2>3
<1>7. CASE (Job \/ Failure) /\ ~InsertRoute /\ ~IncrRouteStats
  <2>1. step' # "link"
    BY <1>7 DEF Job, Failure, Select, Skip, Match, NoMatch, InsertRouteTrip, ForeignKeyGone, MatchBlind,
                ReadFails, StatementFails, WorkerCrash, Takes, Goes, Returns, Stops, BetweenTrips
  <2>2. Open(q)' = 0
    BY <2>1 DEF Open
  <2>3. Size(q)' <= routes'[q].count
    BY <1>1, <1>7, StepWrites, WritesCover
  <2> QED BY <1>3, <2>2, <2>3
<1>8. CASE Users
  <2>1. q \in DOMAIN routes /\ routes'[q] = routes[q] /\ Size(q)' <= Size(q)
    BY <1>1, <1>8, RemovalKeeps
  <2>2. Open(q)' = Open(q)
    BY <1>1, <1>8, UserStep DEF Open, job
  <2> QED BY <1>2, <1>3, <2>1, <2>2
<1>9. CASE (\E t \in Trips : Complete(t)) \/ UNCHANGED vars
  <2>1. routes' = routes /\ Size(q)' = Size(q) /\ Open(q)' = Open(q)
    BY <1>9 DEF Complete, vars, tables, job, Size, Links, Open
  <2> QED BY <1>2, <2>1
<1> QED BY <1>5, <1>6, <1>7, <1>8, <1>9 DEF Next

(***************************************************************************)
(* trips_count is never below the number of a route's trips: each trip is  *)
(* counted before it is linked (InsertRoute, IncrRouteStats come first).   *)
(***************************************************************************)
THEOREM CountsCover == Spec => []CountCoversLinks
<1>1. Init => TypeInv /\ CountCoversLinks
  BY InitTypes DEF Init, TypeInv, BlindIsFault, CountCoversLinks
<1> QED BY <1>1, StepTypes, CoversStep, PTL DEF Spec

-----------------------------------------------------------------------------
(***************************************************************************)
(* The other direction.  A trip in hand is not linked, so the link adds to *)
(* the route that was counted; and a deleted trip in hand is not pending   *)
(* any more, its deletion pays for the count.                              *)
(***************************************************************************)
InHand ==
  /\ step # "select" => link[trip] = 0 /\ trip \notin todo
  /\ \A t \in todo : link[t] = 0

Pending(r) == IF step = "link" /\ target = r /\ status[trip] = "completed" THEN 1 ELSE 0

\* route_trips.trip_id references trips, on delete cascade.
NoDeadLinks == \A t \in Deleted : link[t] = 0

Debt == faults + Cardinality(Deleted)

CountIsOwed == \A r \in DOMAIN routes : routes[r].count <= Size(r) + Pending(r) + Debt

DriftInv == TypeInv /\ InHand /\ NoDeadLinks /\ CountIsOwed

LEMMA NoDeadLinksStep == TypeInv /\ NoDeadLinks /\ [Next]_vars => NoDeadLinks'
<1> SUFFICES ASSUME TypeInv, NoDeadLinks, [Next]_vars PROVE NoDeadLinks'
  OBVIOUS
<1>1. TypeOK
  BY DEF TypeInv
<1>2. CASE Job \/ Failure
  <2>1. Writes
    BY <1>1, <1>2, StepWrites
  <2>2. CASE WritesLink
    <3>1. \A t \in Trips \ {trip} : link'[t] = link[t]
      BY <1>1, <2>2 DEF WritesLink, Linked, TypeOK
    <3> QED BY <2>2, <3>1 DEF WritesLink, Ready, NoDeadLinks, Deleted
  <2> QED BY <2>1, <2>2 DEF Writes, WritesRoute, WritesCount, tables, NoDeadLinks, Deleted
<1>3. CASE Users
  <2>1. (\E R \in SUBSET DOMAIN routes : Removed(R)) \/ UNCHANGED <<status, routes, link>>
    BY <1>1, <1>3, UserStep
  <2> QED BY <2>1 DEF Removed, NoDeadLinks, Deleted
<1>4. CASE (\E t \in Trips : Complete(t)) \/ UNCHANGED vars
  BY <1>1, <1>4 DEF Complete, vars, tables, TypeOK, NoDeadLinks, Deleted
<1> QED BY <1>2, <1>3, <1>4 DEF Next

LEMMA InHandStep == TypeInv /\ InHand /\ [Next]_vars => InHand'
<1> SUFFICES ASSUME TypeInv, InHand, [Next]_vars PROVE InHand'
  OBVIOUS
<1>1. TypeOK /\ (step # "select" => trip \in Trips) /\ todo \subseteq Trips /\ 0 \notin Trips
  BY Positive DEF TypeInv, TypeOK
<1>2. CASE Select
  BY <1>1, <1>2 DEF Select, Oldest, Unmatched, BetweenTrips, InHand, tables
<1>3. ASSUME NEW t \in Trips, Skip(t) \/ ReadFails(t) PROVE InHand'
  BY <1>3 DEF Skip, ReadFails, Takes, BetweenTrips, InHand, tables
<1>4. ASSUME NEW t \in Trips, Match(t) \/ NoMatch(t) \/ MatchBlind(t) PROVE InHand'
  BY <1>4 DEF Match, NoMatch, MatchBlind, Takes, Foremost, Goes, InHand, tables
<1>5. CASE InsertRoute \/ IncrRouteStats
  BY <1>5 DEF InsertRoute, IncrRouteStats, Goes, InHand
<1>6. CASE InsertRouteTrip \/ StatementFails
  <2>1. step' = "select" /\ UNCHANGED todo /\ step # "select"
    BY <1>6 DEF InsertRouteTrip, StatementFails, Returns, Stops
  <2>2. UNCHANGED link \/ Linked
    BY <1>6 DEF InsertRouteTrip, StatementFails
  <2>3. \A t \in Trips \ {trip} : link'[t] = link[t]
    BY <1>1, <2>2 DEF Linked, TypeOK
  <2> QED BY <1>1, <2>1, <2>3 DEF InHand
<1>7. CASE ForeignKeyGone \/ WorkerCrash
  BY <1>7 DEF ForeignKeyGone, WorkerCrash, Returns, Stops, InHand, tables
<1>8. CASE Users
  <2>1. /\ UNCHANGED job
        /\ (\E R \in SUBSET DOMAIN routes : Removed(R)) \/ UNCHANGED <<status, routes, link>>
    BY <1>1, <1>8, UserStep
  <2>2. \A t \in Trips : link[t] = 0 => link'[t] = 0
    BY <2>1 DEF Removed
  <2> QED BY <1>1, <2>1, <2>2 DEF InHand, job
<1>9. CASE (\E t \in Trips : Complete(t)) \/ UNCHANGED vars
  BY <1>9 DEF Complete, vars, tables, job, InHand
<1> QED BY <1>2, <1>3, <1>4, <1>5, <1>6, <1>7, <1>8, <1>9 DEF Next, Job, Failure

LEMMA DebtIsNat ==
  ASSUME TypeOK
  PROVE  /\ IsFiniteSet(Deleted) /\ Cardinality(Deleted) \in Nat
         /\ faults \in Nat /\ Debt \in Nat
<1>1. IsFiniteSet(Deleted)
  <2>1. IsFiniteSet(Trips) /\ Deleted \subseteq Trips
    BY FS_Interval, RouteAssumption DEF Trips, Deleted
  <2> QED BY <2>1, FS_Subset
<1>2. Cardinality(Deleted) \in Nat
  BY <1>1, FS_CardinalityType
<1>3. faults \in Nat
  BY Positive DEF TypeOK
<1> QED BY <1>1, <1>2, <1>3 DEF Debt

LEMMA PendingIsBit == \A r : Pending(r) \in {0, 1} /\ Pending(r)' \in {0, 1}
BY DEF Pending

\* Who can change status.
LEMMA DebtSame == ASSUME UNCHANGED status PROVE Cardinality(Deleted)' = Cardinality(Deleted)
BY DEF Deleted

\* A write without its report costs one more at most.
LEMMA WritesOwe ==
  ASSUME TypeOK, CountIsOwed, Writes, NEW q \in DOMAIN routes'
  PROVE  routes'[q].count <= Size(q)' + Debt + 1
<1>1. q \in DOMAIN routes => routes[q].count <= Size(q) + Pending(q) + Debt /\ routes[q].count \in Nat
  BY CountIsNat DEF CountIsOwed
<1>2. Size(q) \in Nat /\ Size(q)' \in Nat /\ Pending(q) \in {0, 1} /\ Debt \in Nat
  BY LinksFinite, PendingIsBit, DebtIsNat
<1>3. CASE WritesRoute
  <2>1. PICK r \in Free : Inserted(r)
    BY <1>3 DEF WritesRoute
  <2>2. CASE q = r
    <3>1. routes'[q].count = 1
      BY <1>3, <2>1, <2>2, RouteAdds DEF WritesRoute
    <3> QED BY <1>2, <3>1
  <2>3. CASE q # r
    <3>1. q \in DOMAIN routes
      BY <1>3, <2>1, <2>3, RouteAdds DEF WritesRoute
    <3>2. routes'[q].count = routes[q].count /\ Size(q)' = Size(q)
      BY <1>3, <2>1, <3>1, RouteAdds DEF WritesRoute
    <3> QED BY <1>1, <1>2, <3>1, <3>2
  <2> QED BY <2>2, <2>3
<1>4. CASE WritesCount
  <2>1. q \in DOMAIN routes /\ Size(q)' = Size(q)
    BY <1>4, CountAdds
  <2>2. routes'[q].count \in {routes[q].count, routes[q].count + 1}
    BY <1>4, <2>1, CountAdds
  <2>3. Pending(q) = 0
    BY <1>4 DEF WritesCount, Pending
  <2> QED BY <1>1, <1>2, <2>1, <2>2, <2>3
<1>5. CASE WritesLink
  <2>1. q \in DOMAIN routes /\ routes'[q] = routes[q]
    BY <1>5, LinkAdds
  <2>2. Size(q)' = IF q = target /\ link[trip] = 0 THEN Size(q) + 1 ELSE Size(q)
    BY <1>5, <2>1, LinkAdds
  <2> QED BY <1>1, <1>2, <2>1, <2>2
<1>6. CASE UNCHANGED tables
  <2>1. routes' = routes /\ Size(q)' = Size(q)
    BY <1>6 DEF tables, Size, Links
  <2> QED BY <1>1, <1>2, <2>1
<1> QED BY <1>3, <1>4, <1>5, <1>6 DEF Writes

\* A deletion that takes a link away adds a deleted trip.
LEMMA UsersOwe ==
  ASSUME TypeOK, InHand, NoDeadLinks, CountIsOwed, Users, NEW q \in DOMAIN routes'
  PROVE  routes'[q].count <= Size(q)' + Pending(q)' + Debt'
<1>1. q \in DOMAIN routes /\ routes'[q] = routes[q]
  BY RemovalKeeps
<1>2. routes[q].count <= Size(q) + Pending(q) + Debt /\ routes[q].count \in Nat
  BY <1>1, CountIsNat DEF CountIsOwed
<1>3. Size(q) \in Nat /\ Size(q)' \in Nat /\ Pending(q) \in {0, 1} /\ Pending(q)' \in {0, 1}
  BY LinksFinite, PendingIsBit
<1>4. Cardinality(Deleted) \in Nat /\ faults \in Nat /\ IsFiniteSet(Deleted)
  BY DebtIsNat
<1>5. q # 0 /\ UNCHANGED <<job, faults>>
  BY <1>1, Positive, UserStep DEF TypeOK
<1>6. ASSUME NEW t \in Trips, DeleteTrip(t) PROVE routes'[q].count <= Size(q)' + Pending(q)' + Debt'
  <2>1. Cardinality(Deleted)' = Cardinality(Deleted) + 1
    <3>1. Deleted' = Deleted \cup {t} /\ t \notin Deleted
      BY <1>6 DEF DeleteTrip, Deleted, TypeOK
    <3> QED BY <1>4, <3>1, FS_AddElement
  <2>2. Debt' = Debt + 1
    BY <1>4, <1>5, <2>1 DEF Debt
  <2>3. Links(q)' = Links(q) \ {t}
    <3>1. \A u \in Trips : status'[u] = "deleted" <=> u \in Deleted \cup {t}
      BY <1>6 DEF DeleteTrip, Deleted, TypeOK
    <3>2. PICK R \in SUBSET DOMAIN routes : Removed(R) /\ q \notin R
      BY <1>6 DEF DeleteTrip, Removed
    <3> QED BY <1>5, <3>1, <3>2 DEF NoDeadLinks, Removed, Links
  <2>4. Size(q)' = IF t \in Links(q) THEN Size(q) - 1 ELSE Size(q)
    BY <2>3, LinksFinite, FS_RemoveElement DEF Size
  <2>5. CASE t \in Links(q)
    <3>1. Pending(q)' = Pending(q)
      <4>1. step # "select" => trip # t
        BY <1>5, <2>5 DEF InHand, Links
      <4>2. step = "link" => status'[trip] = status[trip]
        BY <1>6, <4>1 DEF DeleteTrip, TypeOK
      <4> QED BY <1>5, <4>2 DEF Pending, job
    <3> QED BY <1>1, <1>2, <1>3, <1>4, <2>2, <2>4, <2>5, <3>1 DEF Debt
  <2>6. CASE t \notin Links(q)
    BY <1>1, <1>2, <1>3, <1>4, <2>2, <2>4, <2>6 DEF Debt
  <2> QED BY <2>5, <2>6
<1>7. ASSUME NEW r \in DOMAIN routes, DeleteRoute(r)
      PROVE  routes'[q].count <= Size(q)' + Pending(q)' + Debt'
  <2>1. q # r
    BY <1>7 DEF DeleteRoute, Removed
  <2>2. UNCHANGED status /\ Debt' = Debt
    BY <1>5, <1>7 DEF DeleteRoute, Debt, Deleted
  <2>3. Links(q)' = Links(q)
    BY <1>5, <1>7, <2>1, <2>2 DEF DeleteRoute, Removed, Links, NoDeadLinks, Deleted
  <2>4. Size(q)' = Size(q) /\ Pending(q)' = Pending(q)
    BY <1>5, <2>2, <2>3 DEF Size, Pending, job
  <2> QED BY <1>1, <1>2, <2>2, <2>4
<1>8. ASSUME NEW t \in Trips, DeletePoint(t)
      PROVE  routes'[q].count <= Size(q)' + Pending(q)' + Debt'
  BY <1>1, <1>2, <1>5, <1>8 DEF DeletePoint, Size, Links, Pending, Debt, Deleted, job
<1> QED BY <1>6, <1>7, <1>8 DEF Users

LEMMA OwedStep == DriftInv /\ [Next]_vars => CountIsOwed'
<1> SUFFICES ASSUME DriftInv, [Next]_vars, NEW q \in DOMAIN routes'
             PROVE  routes'[q].count <= Size(q)' + Pending(q)' + Debt'
  BY DEF CountIsOwed
<1>1. TypeOK /\ InHand /\ NoDeadLinks /\ CountIsOwed
  BY DEF DriftInv, TypeInv
<1>2. /\ q \in DOMAIN routes => routes[q].count <= Size(q) + Pending(q) + Debt
      /\ q \in DOMAIN routes => routes[q].count \in Nat
  BY <1>1, CountIsNat DEF CountIsOwed
<1>3. Size(q) \in Nat /\ Size(q)' \in Nat /\ Pending(q) \in {0, 1} /\ Pending(q)' \in {0, 1}
  BY LinksFinite, PendingIsBit
<1>4. Debt \in Nat /\ faults \in Nat /\ Cardinality(Deleted) \in Nat
  BY <1>1, DebtIsNat
<1>5. step # "select" => trip \in Trips
  BY <1>1 DEF TypeOK
<1>6. CASE Failure
  <2>1. Writes /\ faults' = faults + 1
    BY <1>1, <1>6, StepWrites DEF Failure, MatchBlind, ReadFails, StatementFails, WorkerCrash, Fault
  <2>2. UNCHANGED status
    BY <2>1 DEF Writes, WritesRoute, WritesCount, WritesLink, tables
  <2>3. Debt' = Debt + 1
    BY <1>4, <2>1, <2>2, DebtSame DEF Debt
  <2>4. routes'[q].count <= Size(q)' + Debt + 1
    BY <1>1, <2>1, WritesOwe
  <2>5. routes'[q].count \in Nat
    BY StepTypes, CountIsNat DEF DriftInv, TypeInv, TypeOK, Route
  <2> QED BY <1>3, <1>4, <2>3, <2>4, <2>5
<1>7. ASSUME Job PROVE Debt' = Debt
  <2>1. Writes /\ UNCHANGED faults
    BY <1>1, <1>7, StepWrites DEF Job, Select, Skip, Match, NoMatch, InsertRoute, IncrRouteStats,
         InsertRouteTrip, ForeignKeyGone, UnchangedRest
  <2>2. UNCHANGED status
    BY <2>1 DEF Writes, WritesRoute, WritesCount, WritesLink, tables
  <2> QED BY <2>1, <2>2, DebtSame DEF Debt
<1>8. CASE InsertRoute
  <2>1. PICK r \in Free : Inserted(r) /\ Goes(trip, "link", r)
    BY <1>8 DEF InsertRoute
  <2>2. Ready /\ UNCHANGED <<status, link>>
    BY <1>1, <1>5, <1>8 DEF InsertRoute, Ready, TypeOK
  <2>3. CASE q = r
    <3>1. routes'[q].count = 1 /\ Size(q)' = 0
      BY <1>1, <2>1, <2>2, <2>3, RouteAdds
    <3>2. Pending(q)' = 1
      BY <2>1, <2>2, <2>3 DEF Pending, Goes, Ready
    <3> QED BY <1>4, <1>7, <1>8, <3>1, <3>2 DEF Job
  <2>4. CASE q # r
    <3>1. q \in DOMAIN routes
      BY <1>1, <2>1, <2>2, <2>4, RouteAdds
    <3>2. routes'[q].count = routes[q].count /\ Size(q)' = Size(q)
      BY <1>1, <2>1, <2>2, <3>1, RouteAdds
    <3>3. Pending(q) = 0
      BY <1>8 DEF InsertRoute, Pending
    <3> QED BY <1>2, <1>3, <1>4, <1>7, <1>8, <3>1, <3>2, <3>3 DEF Job
  <2> QED BY <2>3, <2>4
<1>9. CASE IncrRouteStats
  <2>1. Debt' = Debt /\ Pending(q) = 0
    BY <1>7, <1>9 DEF Job, IncrRouteStats, Pending
  <2>2. CASE target \in DOMAIN routes
    <3>1. WritesCount
      BY <1>1, <1>5, <1>9, <2>2 DEF IncrRouteStats, WritesCount, Ready, TypeOK
    <3>2. q \in DOMAIN routes /\ Size(q)' = Size(q)
      BY <1>1, <3>1, CountAdds
    <3>3. CASE q = target
      <4>1. routes'[q].count = routes[q].count + 1
        BY <1>1, <3>1, <3>3, CountAdds
      <4>2. Pending(q)' = 1
        BY <1>9, <3>1, <3>3 DEF IncrRouteStats, WritesCount, Ready, Goes, Pending
      <4> QED BY <1>2, <1>3, <1>4, <2>1, <3>2, <4>1, <4>2
    <3>4. CASE q # target
      <4>1. routes'[q].count = routes[q].count
        BY <1>1, <3>1, <3>2, <3>4, CountAdds
      <4> QED BY <1>2, <1>3, <1>4, <2>1, <3>2, <4>1
    <3> QED BY <3>3, <3>4
  <2>3. CASE target \notin DOMAIN routes
    <3>1. routes' = routes /\ Size(q)' = Size(q)
      BY <1>9, <2>3 DEF IncrRouteStats, Counted, Size, Links
    <3> QED BY <1>2, <1>3, <1>4, <2>1, <3>1
  <2> QED BY <2>2, <2>3
<1>10. CASE InsertRouteTrip
  <2>1. WritesLink /\ link[trip] = 0
    BY <1>1, <1>5, <1>10 DEF InsertRouteTrip, WritesLink, Ready, InHand, TypeOK
  <2>2. q \in DOMAIN routes /\ routes'[q] = routes[q]
    BY <1>1, <2>1, LinkAdds
  <2>3. Size(q)' = IF q = target THEN Size(q) + 1 ELSE Size(q)
    BY <1>1, <2>1, <2>2, LinkAdds
  <2>4. q # target => Pending(q) = 0
    BY DEF Pending
  <2>5. Debt' = Debt
    BY <1>7, <1>10 DEF Job
  <2> QED BY <1>2, <1>3, <1>4, <2>2, <2>3, <2>4, <2>5
<1>11. CASE ForeignKeyGone \/ Select \/ \E t \in Trips : Skip(t) \/ Match(t) \/ NoMatch(t)
  <2>1. UNCHANGED tables
    BY <1>11 DEF ForeignKeyGone, Select, Skip, Match, NoMatch
  <2>2. routes' = routes /\ Size(q)' = Size(q) /\ Debt' = Debt
    BY <1>7, <1>11, <2>1 DEF tables, Size, Links, Job
  <2>3. Pending(q) = 0
    BY <1>11, <2>2 DEF ForeignKeyGone, Select, Skip, Match, NoMatch, Takes, Pending
  <2> QED BY <1>2, <1>3, <1>4, <2>2, <2>3
<1>12. CASE Users
  BY <1>1, <1>12, UsersOwe
<1>13. CASE (\E t \in Trips : Complete(t)) \/ UNCHANGED vars
  <2>1. UNCHANGED <<routes, link, faults, job>>
    BY <1>13 DEF Complete, UnchangedRest, vars, tables
  <2>2. routes' = routes /\ Size(q)' = Size(q)
    BY <2>1 DEF Size, Links
  <2>3. \A t \in Trips : (status'[t] = "deleted" <=> status[t] = "deleted")
                         /\ (status[t] = "completed" => status'[t] = "completed")
    BY <1>1, <1>13 DEF Complete, TypeOK, vars, tables
  <2>4. Debt' = Debt
    BY <2>1, <2>3 DEF Debt, Deleted
  <2>5. Pending(q) <= Pending(q)'
    BY <1>5, <2>1, <2>3 DEF Pending, job
  <2> QED BY <1>2, <1>3, <1>4, <2>2, <2>4, <2>5
<1> QED
  BY <1>6, <1>8, <1>9, <1>10, <1>11, <1>12, <1>13 DEF Next, Job

(***************************************************************************)
(* trips_count exceeds the trips of its route only by failed statements,   *)
(* crashes and deleted trips, which no statement subtracts.                *)
(***************************************************************************)
THEOREM CountsAreOwed == Spec => []DriftIsPaid
<1>1. Init => DriftInv
  BY InitTypes DEF Init, DriftInv, TypeInv, BlindIsFault, InHand, NoDeadLinks, Deleted, CountIsOwed
<1>2. DriftInv /\ [Next]_vars => DriftInv'
  BY StepTypes, InHandStep, NoDeadLinksStep, OwedStep DEF DriftInv
<1>3. DriftInv => DriftIsPaid
  <2> SUFFICES ASSUME DriftInv, NEW r \in DOMAIN routes
               PROVE  routes[r].count <= Size(r) + Open(r) + faults + Cardinality(Deleted)
    BY DEF DriftIsPaid, Size
  <2>1. TypeOK /\ routes[r].count <= Size(r) + Pending(r) + Debt
    BY DEF DriftInv, TypeInv, CountIsOwed
  <2>2. Pending(r) <= Open(r) /\ Pending(r) \in {0, 1} /\ Open(r) \in {0, 1}
    BY DEF Pending, Open
  <2>3. Size(r) \in Nat /\ faults \in Nat /\ Cardinality(Deleted) \in Nat /\ routes[r].count \in Nat
    BY <2>1, LinksFinite, DebtIsNat, CountIsNat
  <2> QED BY <2>1, <2>2, <2>3 DEF Debt
<1> QED BY <1>1, <1>2, <1>3, PTL DEF Spec
=============================================================================
