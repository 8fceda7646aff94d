------------------------ MODULE TripDetectionProofs ------------------------
(***************************************************************************)
(* Theorems about TripDetection, for every number of points and instants,  *)
(* every setting of the limits and every way points are cut into cycles.   *)
(*                                                                         *)
(* One invariant holds of the tables and of the copy a cycle works on      *)
(* (Sound); a second one ties the copy to the tables and to the points of  *)
(* the cycle that are still to come (InCycle), a third one is about points *)
(* that arrive in time (InTime).                                           *)
(***************************************************************************)
EXTENDS TripDetection, TLAPS

(***************************************************************************)
(* What a detection row s, the trips tr and the classes r of the rows say  *)
(* of each other; act are the points of the active trip not yet written.   *)
(***************************************************************************)

\* The trip of the row is the open one.
TripIsOpen(s, tr) ==
  /\ s.trip \in {0} \cup DOMAIN tr
  /\ s.trip # 0 <=> s.state \in {"TRIP_ACTIVE", "STOP_CANDIDATE"}
  /\ \A i \in DOMAIN tr : tr[i].ended = 0 <=> i = s.trip

\* The row's times: the last point is the last accepted one; a candidate began
\* with movement after all trips, a stop after its trip began.
RowIsTimed(s, tr, r) ==
  /\ \A u \in Accepted(r) : u <= s.last
  /\ s.state # "IDLE" => s.last # 0
  /\ s.state = "MOTION_CANDIDATE" =>
       /\ s.candidate \in Accepted(r) /\ r[s.candidate] = "moving"
       /\ \A i \in DOMAIN tr : /\ tr[i].ended < s.candidate
                               /\ \A p \in tr[i].points : p < s.candidate
  /\ s.state = "STOP_CANDIDATE" => tr[s.trip].started < s.stop /\ s.stop <= s.last

\* A trip began with movement and was confirmed later.
TripsAreTimed(s, tr, r) ==
  \A i \in DOMAIN tr :
    /\ tr[i].started \in Accepted(r) /\ r[tr[i].started] = "moving"
    /\ tr[i].started < tr[i].born /\ tr[i].born <= s.last
    /\ tr[i].ended # 0 => tr[i].started < tr[i].ended
    /\ tr[i].ended <= s.last
    /\ tr[i].points \subseteq Accepted(r)

Ordered(tr) ==
  \A i, j \in DOMAIN tr :
    i < j => /\ 0 < tr[i].ended /\ tr[i].ended < tr[j].started
             /\ \A p \in tr[i].points : p < tr[j].started

\* Trips have the accepted points up to their confirmation, and the last one.
Complete(s, tr, r, act) ==
  /\ \A i \in DOMAIN tr :
       \A p \in Accepted(r) : tr[i].started <= p /\ p <= tr[i].born => p \in tr[i].points
  /\ s.state = "TRIP_ACTIVE" /\ s.last > tr[s.trip].born => s.last \in tr[s.trip].points \cup act

Sound(s, tr, r, act) ==
  /\ TripIsOpen(s, tr) /\ RowIsTimed(s, tr, r) /\ TripsAreTimed(s, tr, r)
  /\ Ordered(tr) /\ Complete(s, tr, r, act)

\* What a completed trip is, it stays; the checkpoint does not go back.
Later(s, tr, t, ur) ==
  /\ s.last <= t.last
  /\ \A i \in DOMAIN tr :
       i \in DOMAIN ur /\ ur[i].started = tr[i].started /\ (tr[i].ended # 0 => ur[i] = tr[i])

\* The points in the cycle's hand: candidates are the accepted points since
\* the candidate began, as far back as they go, and active belongs to a trip.
InHand ==
  /\ candidates # {} => mstate.state = "MOTION_CANDIDATE"
  /\ \A q \in candidates :
       /\ mstate.candidate <= q
       /\ \A p \in Accepted(mrows) \ candidates : mstate.candidate <= p => p < q
  /\ active # {} => mstate.state = "TRIP_ACTIVE"

\* Points still to come are late, or after the last one.
Ahead == \A u \in todo : u > state.last => u > mstate.last

InCycle == Later(state, trips, mstate, mtrips) /\ InHand /\ Ahead

\* Whatever was processed lies behind the watermark, and a punctual point that
\* was not is ahead of it: in the cycle, or after all of the cycle's points.
InTime ==
  /\ mstate.last # 0 => mstate.last < Boundary
  /\ \A u \in todo : u < Boundary
  /\ \A t \in punctual :
       /\ t \notin DOMAIN rows /\ t > state.last
       /\ t \in DOMAIN mrows => mrows[t] # "late_arrival"
       /\ t \notin DOMAIN mrows =>
            /\ t > mstate.last
            /\ t \notin todo => \A u \in todo : u < t

IInv ==
  /\ TypeOK
  /\ Sound(state, trips, rows, {}) /\ Sound(mstate, mtrips, mrows, active)
  /\ InCycle /\ InTime

-----------------------------------------------------------------------------
(***************************************************************************)
(* The fields of the records.                                              *)
(***************************************************************************)
LEMMA Instants ==
  0 \in 0 .. MaxTime /\ Times \subseteq 0 .. MaxTime /\ 0 \in Nat /\ 1 \in Nat
  BY DetectionAssumption DEF Times

LEMMA ResetFields ==
  ASSUME NEW s \in Detection
  PROVE  /\ ResetCandidate(s) \in Detection
         /\ ResetCandidate(s).state = IF s.state = "MOTION_CANDIDATE" THEN "IDLE" ELSE s.state
         /\ ResetCandidate(s).trip = s.trip /\ ResetCandidate(s).stop = s.stop
         /\ ResetCandidate(s).last = s.last
<1> DEFINE status == IF s.state = "MOTION_CANDIDATE" THEN "IDLE" ELSE s.state
           reset == [s EXCEPT !.state = status, !.candidate = 0, !.far = FALSE, !.good = 0]
<1>1. status \in States
  BY DEF Detection, States
<1>2. ResetCandidate(s) = reset
  BY DEF ResetCandidate
<1> HIDE DEF status
<1>3. reset \in Detection
  BY <1>1, Instants, Zenon DEF Detection
<1>4. /\ reset.state = status
      /\ reset.trip = s.trip /\ reset.stop = s.stop /\ reset.last = s.last
  BY DEF Detection
<1> QED BY <1>2, <1>3, <1>4 DEF status

LEMMA StartFields ==
  ASSUME NEW s \in Detection, NEW t \in Times
  PROVE  /\ StartCandidate(s, t) \in Detection
         /\ StartCandidate(s, t).state = "MOTION_CANDIDATE" /\ StartCandidate(s, t).candidate = t
         /\ StartCandidate(s, t).trip = s.trip /\ StartCandidate(s, t).stop = s.stop
<1> "MOTION_CANDIDATE" \in States /\ t \in 0 .. MaxTime
  BY Instants DEF States
<1>1. StartCandidate(s, t) \in Detection
  BY Instants, Zenon DEF StartCandidate, Detection
<1>2. /\ StartCandidate(s, t).state = "MOTION_CANDIDATE" /\ StartCandidate(s, t).candidate = t
      /\ StartCandidate(s, t).trip = s.trip /\ StartCandidate(s, t).stop = s.stop
  BY DEF StartCandidate, Detection
<1> QED BY <1>1, <1>2

\* The row after point t.
LEMMA GoesFields ==
  ASSUME NEW s \in Detection, NEW t \in Times, Goes(t, s)
  PROVE  /\ mstate' \in Detection /\ mstate'.last = t
         /\ mstate'.state = s.state /\ mstate'.trip = s.trip
         /\ mstate'.candidate = s.candidate /\ mstate'.stop = s.stop
  BY DetectionAssumption DEF Goes, Detection, Times

LEMMA NoTripFields ==
  ASSUME mstate \in Detection
  PROVE  NoTrip \in Detection /\ NoTrip.state = "IDLE" /\ NoTrip.trip = 0
<1> "IDLE" \in States
  BY DEF States
<1>1. NoTrip \in Detection
  BY Instants, Zenon DEF NoTrip, Detection
<1>2. NoTrip.state = "IDLE" /\ NoTrip.trip = 0
  BY DEF NoTrip, Detection
<1> QED BY <1>1, <1>2

\* The row of a trip that is stopped, or goes on.
Stopped(status, at) == [mstate EXCEPT !.state = status, !.stop = at]

LEMMA StopFields ==
  ASSUME mstate \in Detection, NEW status \in States, NEW at \in 0 .. MaxTime
  PROVE  /\ Stopped(status, at) \in Detection
         /\ Stopped(status, at).state = status /\ Stopped(status, at).stop = at
         /\ Stopped(status, at).trip = mstate.trip
<1>1. Stopped(status, at) \in Detection
  BY Zenon DEF Detection, Stopped
<1>2. /\ Stopped(status, at).state = status /\ Stopped(status, at).stop = at
      /\ Stopped(status, at).trip = mstate.trip
  BY DEF Detection, Stopped
<1> QED BY <1>1, <1>2

LEMMA CountedFields ==
  ASSUME mstate \in Detection, NEW v, v.far \in BOOLEAN
  PROVE  /\ Counted(v) \in Detection
         /\ Counted(v).state = mstate.state /\ Counted(v).trip = mstate.trip
         /\ Counted(v).candidate = mstate.candidate /\ Counted(v).stop = mstate.stop
<1> DEFINE good == IF v.class = "moving" THEN mstate.good + 1 ELSE mstate.good
           far == mstate.far \/ v.far
           counted == [mstate EXCEPT !.far = far, !.good = good]
<1>1. good \in Nat
  BY DEF Detection
<1>2. far \in BOOLEAN
  BY Zenon DEF Detection
<1>3. Counted(v) = counted
  BY DEF Counted
<1> HIDE DEF good, far
<1>4. counted \in Detection
  BY <1>1, <1>2, Zenon DEF Detection
<1>5. /\ counted.state = mstate.state /\ counted.trip = mstate.trip
      /\ counted.candidate = mstate.candidate /\ counted.stop = mstate.stop
  BY DEF Detection
<1> QED BY <1>3, <1>4, <1>5

\* The row after a candidate is confirmed as trip number k.
Started(c, k) == ResetCandidate([c EXCEPT !.state = "TRIP_ACTIVE", !.trip = k])

LEMMA StartedFields ==
  ASSUME NEW c \in Detection, NEW k \in Nat
  PROVE  Started(c, k) \in Detection /\ Started(c, k).state = "TRIP_ACTIVE" /\ Started(c, k).trip = k
<1> DEFINE d == [c EXCEPT !.state = "TRIP_ACTIVE", !.trip = k]
<1> "TRIP_ACTIVE" \in States
  BY DEF States
<1>1. d \in Detection
  BY Zenon DEF Detection
<1>2. d.state = "TRIP_ACTIVE" /\ d.trip = k
  BY DEF Detection
<1> HIDE DEF d
<1>3. Started(c, k) = ResetCandidate(d)
  BY DEF d, Started
<1> QED BY <1>1, <1>2, <1>3, ResetFields

\* Fields of a trip that grows or ends.
LEMMA GrownFields ==
  ASSUME NEW tr \in Trip, NEW at \in 0 .. MaxTime, active \subseteq Times
  PROVE  /\ Grown(tr, at) \in Trip
         /\ Grown(tr, at).started = tr.started /\ Grown(tr, at).born = tr.born
         /\ Grown(tr, at).ended = at /\ Grown(tr, at).points = tr.points \cup active
  BY DEF Grown, Trip

LEMMA VerdictFields ==
  ASSUME NEW t, NEW v \in Verdicts(t)
  PROVE  /\ v.class \in Classes /\ v.far \in BOOLEAN
         /\ v.class = "still" => v.since \in Times /\ InWindow(v.since, t)
<1> DEFINE B == IF mstate.last # 0 /\ t - mstate.last <= SegmentMaxGap THEN BOOLEAN ELSE {}
           plain == {Verdict("plain", 0, FALSE, away) : away \in BOOLEAN}
           moving == {Verdict("moving", 0, far, away) : far, away \in B}
           still == {Verdict("still", s, FALSE, FALSE) : s \in {s \in Times : InWindow(s, t)}}
<1>0. Verdicts(t) = plain \cup moving \cup still
  BY DEF Verdicts
<1>1. CASE v \in plain
  <2>1. PICK away \in BOOLEAN : v = Verdict("plain", 0, FALSE, away)
    BY <1>1, Zenon
  <2>2. v.class = "plain" /\ v.far = FALSE
    BY <2>1 DEF Verdict
  <2>3. v.class \in Classes /\ v.class # "still"
    BY <2>2 DEF Classes
  <2> QED BY <2>2, <2>3, Zenon
<1>2. CASE v \in moving
  <2> \A b \in B : b \in BOOLEAN
    BY Zenon
  <2> HIDE DEF B
  <2>1. PICK far \in B, away \in B : v = Verdict("moving", 0, far, away)
    BY <1>2
  <2>2. v.class = "moving" /\ v.far = far
    BY <2>1 DEF Verdict
  <2>3. v.class \in Classes /\ v.class # "still"
    BY <2>2 DEF Classes
  <2> QED BY <2>2, <2>3, Zenon
<1>3. CASE v \in still
  <2>1. PICK u \in Times : InWindow(u, t) /\ v = Verdict("still", u, FALSE, FALSE)
    BY <1>3, Zenon
  <2>2. v.class = "still" /\ v.since = u /\ v.far = FALSE
    BY <2>1 DEF Verdict
  <2>3. v.class \in Classes
    BY <2>2 DEF Classes
  <2> QED BY <2>1, <2>2, <2>3, Zenon
<1> HIDE DEF plain, moving, still
<1>4. v \in plain \/ v \in moving \/ v \in still
  BY <1>0
<1> QED BY <1>1, <1>2, <1>3, <1>4, Zenon

-----------------------------------------------------------------------------
(***************************************************************************)
(* Taking a point, and what it leaves of the trips.                        *)
(***************************************************************************)
\* The types, as facts about single elements.
LEMMA Elements ==
  ASSUME TypeOK
  PROVE  /\ state \in Detection /\ mstate \in Detection
         /\ trips \in Seq(Trip) /\ mtrips \in Seq(Trip)
         /\ \A i \in DOMAIN trips : trips[i] \in Trip
         /\ \A i \in DOMAIN mtrips : mtrips[i] \in Trip
         /\ Accepted(mrows) \subseteq raw /\ Accepted(rows) \subseteq raw
         /\ candidates \subseteq Accepted(mrows) /\ active \subseteq Accepted(mrows)
         /\ raw \subseteq Int /\ raw \subseteq Times /\ todo \subseteq raw
         /\ state.last \in Nat /\ mstate.last \in Nat /\ mstate.trip \in Nat
<1>1. state \in Detection /\ mstate \in Detection
  BY DEF TypeOK
<1>2. trips \in Seq(Trip) /\ mtrips \in Seq(Trip)
  BY DEF TypeOK
<1>3. /\ \A i \in DOMAIN trips : trips[i] \in Trip
      /\ \A i \in DOMAIN mtrips : mtrips[i] \in Trip
  BY <1>2
<1>4. Accepted(mrows) \subseteq raw /\ Accepted(rows) \subseteq raw
  BY DEF TypeOK, Accepted
<1>5. candidates \subseteq Accepted(mrows) /\ active \subseteq Accepted(mrows)
  BY DEF TypeOK
<1>6. raw \subseteq Int /\ raw \subseteq Times /\ todo \subseteq raw
  BY DEF TypeOK, Times
<1>7. state.last \in Nat /\ mstate.last \in Nat /\ mstate.trip \in Nat
  BY <1>1, DetectionAssumption DEF Detection
<1> QED BY <1>1, <1>2, <1>3, <1>4, <1>5, <1>6, <1>7

LEMMA TripTimes ==
  ASSUME NEW trip \in Trip
  PROVE  /\ trip.started \in Int /\ trip.born \in Int /\ trip.ended \in Int
         /\ trip.started \in Times /\ trip.ended \in 0 .. MaxTime
  BY DEF Trip, Times

\* A row is added behind nothing that is accepted; the rest of the cycle's
\* points come later.
LEMMA Taken ==
  ASSUME TypeOK, NEW t, NEW c \in Rejected \cup Classes, Take(t, c)
  PROVE  /\ t \in todo /\ t \in Times /\ t \in Int /\ t \notin DOMAIN mrows /\ running
         /\ mrows' \in [DOMAIN mrows' -> Rejected \cup Classes]
         /\ DOMAIN mrows' = DOMAIN mrows \cup {t}
         /\ \A u \in DOMAIN mrows : mrows'[u] = mrows[u]
         /\ mrows'[t] = c
         /\ todo' \subseteq todo /\ t \notin todo' /\ todo' = todo \ {t}
         /\ \A u \in todo : t <= u
         /\ \A u \in todo' : t < u
<1>1. /\ t \in todo /\ running /\ \A u \in todo : t <= u
      /\ todo' = todo \ {t}
      /\ mrows' = [u \in DOMAIN mrows \cup {t} |-> IF u = t THEN c ELSE mrows[u]]
  BY DEF Take
<1>2. t \in Times /\ t \in Int /\ t \notin DOMAIN mrows /\ todo \subseteq Int
  BY <1>1 DEF TypeOK, Times
<1>3. mrows \in [DOMAIN mrows -> Rejected \cup Classes]
  BY DEF TypeOK
<1>4. /\ DOMAIN mrows' = DOMAIN mrows \cup {t}
      /\ \A u \in DOMAIN mrows : mrows'[u] = mrows[u]
      /\ mrows'[t] = c
  BY <1>1, <1>2
<1>5. mrows' \in [DOMAIN mrows' -> Rejected \cup Classes]
  BY <1>1, <1>3
<1>6. \A u \in todo' : t < u
  BY <1>1, <1>2
<1> QED BY <1>1, <1>2, <1>4, <1>5, <1>6

LEMMA TakenAccepted ==
  ASSUME TypeOK, NEW t, NEW c \in Classes, Take(t, c)
  PROVE  /\ Accepted(mrows') = Accepted(mrows) \cup {t}
         /\ \A u \in Accepted(mrows) : mrows'[u] = mrows[u]
<1>1. c \in Rejected \cup Classes
  OBVIOUS
<1>2. /\ DOMAIN mrows' = DOMAIN mrows \cup {t} /\ mrows'[t] = c
      /\ \A u \in DOMAIN mrows : mrows'[u] = mrows[u]
  BY <1>1, Taken
<1> QED BY <1>2 DEF Accepted

LEMMA TakenRejected ==
  ASSUME TypeOK, NEW t, NEW c \in Rejected, Take(t, c)
  PROVE  /\ Accepted(mrows') = Accepted(mrows)
         /\ \A u \in Accepted(mrows) : mrows'[u] = mrows[u]
<1>1. c \in Rejected \cup Classes /\ c \notin Classes
  BY DEF Rejected, Classes
<1>2. /\ DOMAIN mrows' = DOMAIN mrows \cup {t} /\ mrows'[t] = c
      /\ \A u \in DOMAIN mrows : mrows'[u] = mrows[u]
      /\ t \notin DOMAIN mrows
  BY <1>1, Taken
<1> QED BY <1>1, <1>2 DEF Accepted

\* Trips stay as timed when a later point t is accepted, and lack no point.
LEMMA RowsGrow ==
  ASSUME NEW s, NEW n, NEW tr \in Seq(Trip), NEW r, NEW q, NEW t \in Int,
         TripsAreTimed(s, tr, r),
         \A i \in DOMAIN tr : \A p \in Accepted(r) :
           tr[i].started <= p /\ p <= tr[i].born => p \in tr[i].points,
         Accepted(q) = Accepted(r) \cup {t},
         \A u \in Accepted(r) : q[u] = r[u],
         n.last = t, s.last \in Int, s.last < t
  PROVE  /\ TripsAreTimed(n, tr, q)
         /\ \A i \in DOMAIN tr : \A p \in Accepted(q) :
              tr[i].started <= p /\ p <= tr[i].born => p \in tr[i].points
         /\ \A i \in DOMAIN tr : tr[i].born < t
<1>0. \A i \in DOMAIN tr : tr[i] \in Trip
  OBVIOUS
<1>1. \A i \in DOMAIN tr : tr[i].started \in Int /\ tr[i].born \in Int /\ tr[i].ended \in Int
  BY <1>0, TripTimes
<1>2. \A i \in DOMAIN tr : tr[i].born < t
  BY <1>1 DEF TripsAreTimed
<1>3. TripsAreTimed(n, tr, q)
  <2> SUFFICES ASSUME NEW i \in DOMAIN tr
               PROVE  /\ tr[i].started \in Accepted(q) /\ q[tr[i].started] = "moving"
                      /\ tr[i].started < tr[i].born /\ tr[i].born <= n.last
                      /\ tr[i].ended # 0 => tr[i].started < tr[i].ended
                      /\ tr[i].ended <= n.last
                      /\ tr[i].points \subseteq Accepted(q)
    BY DEF TripsAreTimed
  <2>1. /\ tr[i].started \in Accepted(r) /\ r[tr[i].started] = "moving"
        /\ tr[i].started < tr[i].born /\ tr[i].born <= s.last
        /\ tr[i].ended # 0 => tr[i].started < tr[i].ended
        /\ tr[i].ended <= s.last
        /\ tr[i].points \subseteq Accepted(r)
    BY DEF TripsAreTimed
  <2>2. tr[i].started \in Accepted(q) /\ q[tr[i].started] = "moving" /\ tr[i].points \subseteq Accepted(q)
    BY <2>1
  <2>3. tr[i].born <= n.last /\ tr[i].ended <= n.last
    BY <2>1, <1>1
  <2> QED BY <2>1, <2>2, <2>3
<1>4. \A i \in DOMAIN tr : \A p \in Accepted(q) :
        tr[i].started <= p /\ p <= tr[i].born => p \in tr[i].points
  <2> SUFFICES ASSUME NEW i \in DOMAIN tr, NEW p \in Accepted(q),
                      tr[i].started <= p, p <= tr[i].born
               PROVE  p \in tr[i].points
    OBVIOUS
  <2>1. p # t
    BY <1>1, <1>2
  <2> QED BY <2>1
<1> QED BY <1>2, <1>3, <1>4

\* The trip of the row takes the batch's points, and ends at "at" unless it is 0.
LEMMA GrowTrip ==
  ASSUME TypeOK, Sound(mstate, mtrips, mrows, active), Later(state, trips, mstate, mtrips),
         mstate.trip # 0, NEW at \in 0 .. MaxTime,
         at # 0 => mtrips[mstate.trip].started < at, at <= mstate.last,
         NEW tr, tr = [mtrips EXCEPT ![mstate.trip] = Grown(mtrips[mstate.trip], at)]
  PROVE  /\ tr \in Seq(Trip) /\ DOMAIN tr = DOMAIN mtrips
         /\ \A i \in DOMAIN tr : tr[i].started = mtrips[i].started
         /\ \A i \in DOMAIN tr : tr[i].ended = 0 <=> i = mstate.trip /\ at = 0
         /\ TripsAreTimed(mstate, tr, mrows) /\ Ordered(tr)
         /\ Complete(mstate, tr, mrows, {})
         /\ Later(state, trips, mstate, tr)
<1> DEFINE k == mstate.trip
           g == Grown(mtrips[k], at)
<1>1. /\ mtrips \in Seq(Trip) /\ \A i \in DOMAIN mtrips : mtrips[i] \in Trip
      /\ active \subseteq Accepted(mrows) /\ Accepted(mrows) \subseteq raw
      /\ raw \subseteq Times /\ raw \subseteq Int /\ mstate.last \in Nat
  BY Elements
<1>2. k \in DOMAIN mtrips /\ \A i \in DOMAIN mtrips : mtrips[i].ended = 0 <=> i = k
  BY DEF Sound, TripIsOpen
<1>3. mtrips[k] \in Trip
  BY <1>1, <1>2
<1>4. /\ g \in Trip /\ g.started = mtrips[k].started /\ g.born = mtrips[k].born
      /\ g.ended = at /\ g.points = mtrips[k].points \cup active
  BY <1>1, <1>3, GrownFields
<1> HIDE DEF g
<1>5. /\ tr \in Seq(Trip) /\ DOMAIN tr = DOMAIN mtrips /\ tr[k] = g
      /\ \A i \in DOMAIN mtrips : i # k => tr[i] = mtrips[i]
  <2>1. tr = [mtrips EXCEPT ![k] = g]
    BY DEF g
  <2> QED BY <2>1, <1>1, <1>2, <1>4
<1> HIDE DEF k
<1>6. \A i \in DOMAIN mtrips :
        /\ tr[i].started = mtrips[i].started /\ tr[i].born = mtrips[i].born
        /\ tr[i].points = IF i = k THEN mtrips[i].points \cup active ELSE mtrips[i].points
        /\ tr[i].ended = IF i = k THEN at ELSE mtrips[i].ended
  BY <1>4, <1>5
<1>7. \A i \in DOMAIN mtrips :
        /\ mtrips[i].started \in Int /\ mtrips[i].born \in Int /\ mtrips[i].ended \in Int
  BY <1>1, TripTimes
<1>8. \A i \in DOMAIN tr : tr[i].ended = 0 <=> i = k /\ at = 0
  BY <1>2, <1>5, <1>6, ZenonT(40)
<1>9. TripsAreTimed(mstate, tr, mrows)
  <2> SUFFICES ASSUME NEW i \in DOMAIN mtrips
               PROVE  /\ tr[i].started \in Accepted(mrows) /\ mrows[tr[i].started] = "moving"
                      /\ tr[i].started < tr[i].born /\ tr[i].born <= mstate.last
                      /\ tr[i].ended # 0 => tr[i].started < tr[i].ended
                      /\ tr[i].ended <= mstate.last
                      /\ tr[i].points \subseteq Accepted(mrows)
    BY <1>5 DEF TripsAreTimed
  <2>1. /\ mtrips[i].started \in Accepted(mrows) /\ mrows[mtrips[i].started] = "moving"
        /\ mtrips[i].started < mtrips[i].born /\ mtrips[i].born <= mstate.last
        /\ mtrips[i].ended # 0 => mtrips[i].started < mtrips[i].ended
        /\ mtrips[i].ended <= mstate.last
        /\ mtrips[i].points \subseteq Accepted(mrows)
    BY DEF Sound, TripsAreTimed
  <2> QED BY <2>1, <1>1, <1>6 DEF k
<1>10. Ordered(tr)
  <2> SUFFICES ASSUME NEW i \in DOMAIN mtrips, NEW j \in DOMAIN mtrips, i < j
               PROVE  /\ 0 < tr[i].ended /\ tr[i].ended < tr[j].started
                      /\ \A p \in tr[i].points : p < tr[j].started
    BY <1>5 DEF Ordered
  <2>1. /\ 0 < mtrips[i].ended /\ mtrips[i].ended < mtrips[j].started
        /\ \A p \in mtrips[i].points : p < mtrips[j].started
    BY DEF Sound, Ordered
  <2>2. i # k
    BY <2>1, <1>2
  <2> QED BY <2>1, <2>2, <1>6
<1>11. Complete(mstate, tr, mrows, {})
  <2>1. ASSUME NEW i \in DOMAIN tr, NEW p \in Accepted(mrows), tr[i].started <= p, p <= tr[i].born
        PROVE  p \in tr[i].points
    <3>1. p \in mtrips[i].points
      BY <2>1, <1>5, <1>6 DEF Sound, Complete
    <3> QED BY <3>1, <2>1, <1>5, <1>6
  <2>2. ASSUME mstate.state = "TRIP_ACTIVE", mstate.last > tr[k].born
        PROVE  mstate.last \in tr[k].points
    <3>1. mstate.last \in mtrips[k].points \cup active
      BY <2>2, <1>2, <1>6 DEF Sound, Complete, k
    <3> QED BY <3>1, <1>2, <1>6
  <2> QED BY <2>1, <2>2 DEF Complete, k
<1>12. Later(state, trips, mstate, tr)
  <2> SUFFICES ASSUME NEW i \in DOMAIN trips
               PROVE  /\ i \in DOMAIN tr /\ tr[i].started = trips[i].started
                      /\ trips[i].ended # 0 => tr[i] = trips[i]
    BY DEF Later
  <2>1. /\ i \in DOMAIN mtrips /\ mtrips[i].started = trips[i].started
        /\ trips[i].ended # 0 => mtrips[i] = trips[i]
    BY DEF Later
  <2>2. ASSUME trips[i].ended # 0 PROVE tr[i] = trips[i]
    <3>1. mtrips[i] = trips[i] /\ mtrips[i].ended # 0
      BY <2>1, <2>2
    <3>2. i # k
      BY <3>1, <2>1, <1>2
    <3> QED BY <3>1, <3>2, <2>1, <1>5
  <2>3. i \in DOMAIN tr /\ tr[i].started = trips[i].started
    BY <2>1, <1>5, <1>6
  <2> QED BY <2>2, <2>3
<1> QED BY <1>5, <1>6, <1>8, <1>9, <1>10, <1>11, <1>12 DEF k

-----------------------------------------------------------------------------
(***************************************************************************)
(* Accepting a point.                                                      *)
(***************************************************************************)
\* What every accepted point finds.
LEMMA AcceptFacts ==
  ASSUME IInv, NEW t, NEW v \in Verdicts(t), NEW status, Accept(t, v, status)
  PROVE  /\ Take(t, v.class) /\ v.class \in Classes /\ t > state.last /\ mstate.state = status
         /\ t \in Int /\ t \in Times /\ t > 0 /\ mstate.last \in Nat /\ mstate.last < t
         /\ Accepted(mrows') = Accepted(mrows) \cup {t} /\ mrows'[t] = v.class
         /\ \A u \in Accepted(mrows) : mrows'[u] = mrows[u]
         /\ \A u \in Accepted(mrows) : u \in Int /\ u <= mstate.last /\ u < t
         /\ \A i \in DOMAIN mtrips :
              /\ mtrips[i].ended \in Int /\ mtrips[i].ended < t
              /\ \A p \in mtrips[i].points : p \in Int /\ p < t
<1>1. TypeOK /\ v.class \in Classes
  BY VerdictFields DEF IInv
<1>2. v.class \in Rejected \cup Classes
  BY <1>1
<1>3. Take(t, v.class) /\ t > state.last /\ mstate.state = status
  BY DEF Accept
<1>4. t \in todo /\ t \in Times /\ t \in Int /\ mrows'[t] = v.class
  BY <1>1, <1>2, <1>3, Taken
<1>5. /\ Accepted(mrows') = Accepted(mrows) \cup {t}
      /\ \A u \in Accepted(mrows) : mrows'[u] = mrows[u]
  BY <1>1, <1>3, TakenAccepted
<1>6. mstate.last \in Nat /\ Accepted(mrows) \subseteq Int /\ \A i \in DOMAIN mtrips : mtrips[i] \in Trip
  BY <1>1, Elements
<1>7. mstate.last < t
  BY <1>3, <1>4, <1>6 DEF IInv, InCycle, Ahead
<1>8. \A u \in Accepted(mrows) : u <= mstate.last
  BY DEF IInv, Sound, RowIsTimed
<1>9. t > 0
  BY <1>4 DEF Times
<1>10. \A i \in DOMAIN mtrips :
         mtrips[i].ended \in Int /\ mtrips[i].ended <= mstate.last /\ mtrips[i].points \subseteq Accepted(mrows)
  BY <1>6, TripTimes DEF IInv, Sound, TripsAreTimed
<1>11. \A u \in Accepted(mrows) : u \in Int /\ u <= mstate.last /\ u < t
  BY <1>4, <1>6, <1>7, <1>8
<1>12. \A i \in DOMAIN mtrips :
         /\ mtrips[i].ended \in Int /\ mtrips[i].ended < t
         /\ \A p \in mtrips[i].points : p \in Int /\ p < t
  BY <1>4, <1>6, <1>7, <1>10, <1>11
<1> QED BY <1>1, <1>3, <1>4, <1>5, <1>6, <1>7, <1>9, <1>11, <1>12

\* A point is accepted and the trips, old or changed, take it into account:
\* what is left to show of a step that accepts a point.
LEMMA Accepts ==
  ASSUME IInv, NEW t, NEW v \in Verdicts(t), NEW status, Accept(t, v, status),
         mstate' \in Detection, mstate'.last = t, mtrips' \in Seq(Trip),
         candidates' \subseteq candidates \cup {t}, active' \subseteq active \cup {t},
         Sound(mstate', mtrips', mrows', active'), Later(state, trips, mstate', mtrips'), InHand'
  PROVE  IInv'
<1> DEFINE c == v.class
<1>1. /\ Take(t, c) /\ c \in Classes /\ t > state.last /\ mstate.last < t /\ mstate.last \in Nat
      /\ Accepted(mrows') = Accepted(mrows) \cup {t} /\ t \in Int
  BY AcceptFacts
<1> HIDE DEF c
<1>2. TypeOK /\ c \in Rejected \cup Classes
  BY <1>1 DEF IInv
<1>3. /\ t \in todo /\ t \notin DOMAIN mrows
      /\ mrows' \in [DOMAIN mrows' -> Rejected \cup Classes]
      /\ DOMAIN mrows' = DOMAIN mrows \cup {t}
      /\ \A u \in DOMAIN mrows : mrows'[u] = mrows[u]
      /\ mrows'[t] = c
      /\ todo' = todo \ {t}
      /\ \A u \in todo : t <= u
      /\ \A u \in todo' : t < u
  BY <1>1, <1>2, Taken
<1>4. UNCHANGED <<now, raw, punctual, state, rows, trips, running, faults>>
  BY <1>1 DEF Take, arrivals, database
<1>5. todo \subseteq raw /\ raw \subseteq Int /\ state.last \in Nat
  BY <1>2, Elements
<1>6. TypeOK'
  <2>1. now' \in Nat /\ raw' \subseteq Times /\ punctual' \subseteq raw'
    BY <1>2, <1>4 DEF TypeOK
  <2>2. {state', mstate'} \subseteq Detection /\ {trips', mtrips'} \subseteq Seq(Trip)
    BY <1>2, <1>4 DEF TypeOK
  <2>3. rows' \in [DOMAIN rows' -> Rejected \cup Classes] /\ DOMAIN rows' \subseteq raw'
    BY <1>2, <1>4 DEF TypeOK
  <2>4. mrows' \in [DOMAIN mrows' -> Rejected \cup Classes] /\ DOMAIN mrows' \subseteq raw'
    BY <1>2, <1>3, <1>4, <1>5 DEF TypeOK
  <2>5. running' \in BOOLEAN
    BY <1>2, <1>4 DEF TypeOK
  <2>6. todo' \subseteq raw' \ DOMAIN mrows'
    BY <1>2, <1>3, <1>4 DEF TypeOK
  <2>7. candidates' \cup active' \subseteq Accepted(mrows')
    BY <1>1, <1>2 DEF TypeOK
  <2>8. faults' \in 0 .. MaxFaults
    BY <1>2, <1>4 DEF TypeOK
  <2> QED BY <2>1, <2>2, <2>3, <2>4, <2>5, <2>6, <2>7, <2>8 DEF TypeOK
<1>7. Sound(state', trips', rows', {})
  BY <1>4 DEF IInv
<1>8. Later(state', trips', mstate', mtrips')
  BY <1>4
<1>9. Ahead'
  BY <1>3 DEF Ahead
<1>10. InTime'
  <2>1. Boundary' = Boundary
    BY <1>4 DEF Boundary
  <2>2. t < Boundary /\ \A u \in todo' : u < Boundary
    BY <1>3 DEF IInv, InTime
  <2> SUFFICES ASSUME NEW p \in punctual
               PROVE  /\ p \notin DOMAIN rows /\ p > state.last
                      /\ p \in DOMAIN mrows' => mrows'[p] # "late_arrival"
                      /\ p \notin DOMAIN mrows' =>
                           /\ p > t
                           /\ p \notin todo' => \A u \in todo' : u < p
    BY <1>4, <2>1, <2>2 DEF InTime
  <2>3. /\ p \notin DOMAIN rows /\ p > state.last
        /\ p \in DOMAIN mrows => mrows[p] # "late_arrival"
        /\ p \notin DOMAIN mrows => (p \notin todo => \A u \in todo : u < p)
    BY DEF IInv, InTime
  <2>4. p \in DOMAIN mrows' => mrows'[p] # "late_arrival"
    BY <1>1, <1>3, <2>3 DEF Classes
  <2>5. ASSUME p \notin DOMAIN mrows' PROVE p > t
    <3>1. p # t /\ p \notin DOMAIN mrows
      BY <2>5, <1>3
    <3>2. CASE p \in todo
      BY <3>1, <3>2, <1>3
    <3>3. CASE p \notin todo
      BY <3>1, <3>3, <2>3, <1>3
    <3> QED BY <3>2, <3>3
  <2>6. ASSUME p \notin DOMAIN mrows', p \notin todo' PROVE \A u \in todo' : u < p
    BY <2>6, <2>3, <1>3
  <2> QED BY <2>3, <2>4, <2>5, <2>6
<1> QED BY <1>6, <1>7, <1>8, <1>9, <1>10 DEF IInv, InCycle

\* A point is accepted and the trips tr, which are sound without it, stay.
LEMMA Kept ==
  ASSUME IInv, NEW t, NEW v \in Verdicts(t), NEW status, Accept(t, v, status),
         mstate'.last = t, mtrips' \in Seq(Trip),
         TripsAreTimed(mstate, mtrips', mrows), Ordered(mtrips'),
         Complete(mstate, mtrips', mrows, active)
  PROVE  /\ TripsAreTimed(mstate', mtrips', mrows') /\ Ordered(mtrips')
         /\ \A i \in DOMAIN mtrips' : \A p \in Accepted(mrows') :
              mtrips'[i].started <= p /\ p <= mtrips'[i].born => p \in mtrips'[i].points
         /\ \A u \in Accepted(mrows') : u <= mstate'.last
         /\ mstate'.last # 0
<1>1. /\ t \in Int /\ t > 0 /\ mstate.last \in Int /\ mstate.last < t
      /\ Accepted(mrows') = Accepted(mrows) \cup {t}
      /\ \A u \in Accepted(mrows) : mrows'[u] = mrows[u]
      /\ \A u \in Accepted(mrows) : u \in Int /\ u <= mstate.last /\ u < t
  BY AcceptFacts
<1>2. \A i \in DOMAIN mtrips' : \A p \in Accepted(mrows) :
        mtrips'[i].started <= p /\ p <= mtrips'[i].born => p \in mtrips'[i].points
  BY DEF Complete
<1>3. /\ TripsAreTimed(mstate', mtrips', mrows')
      /\ \A i \in DOMAIN mtrips' : \A p \in Accepted(mrows') :
           mtrips'[i].started <= p /\ p <= mtrips'[i].born => p \in mtrips'[i].points
  BY <1>1, <1>2, RowsGrow
<1> QED BY <1>1, <1>3

LEMMA OldKept ==
  ASSUME IInv
  PROVE  /\ TripsAreTimed(mstate, mtrips, mrows) /\ Ordered(mtrips)
         /\ Complete(mstate, mtrips, mrows, active)
         /\ mtrips \in Seq(Trip) /\ mstate \in Detection
         /\ Later(state, trips, mstate, mtrips) /\ state.last <= mstate.last
         /\ state.last \in Nat /\ mstate.last \in Nat
  BY Elements DEF IInv, Sound, InCycle, Later

\* What a moving point starts: a candidate after all trips, or nothing.
LEMMA Opened ==
  ASSUME IInv, NEW t, NEW v \in Verdicts(t), NEW status, Accept(t, v, status),
         NEW s \in Detection, s.state = "IDLE", s.trip = 0, Goes(t, Evaluate(s, t, v)),
         mtrips' \in Seq(Trip), DOMAIN mtrips' = DOMAIN mtrips,
         TripsAreTimed(mstate, mtrips', mrows), Ordered(mtrips'),
         Complete(mstate, mtrips', mrows, active),
         \A i \in DOMAIN mtrips' : mtrips'[i].ended # 0,
         Later(state, trips, mstate, mtrips'),
         candidates' = Opens(t, v), active' = {}
  PROVE  IInv'
<1> DEFINE e == Evaluate(s, t, v)
<1>1. /\ v.class \in Classes /\ t \in Int /\ t \in Times /\ t > 0 /\ mstate.last \in Int /\ mstate.last < t
      /\ Accepted(mrows') = Accepted(mrows) \cup {t} /\ mrows'[t] = v.class
      /\ \A u \in Accepted(mrows) : u \in Int /\ u <= mstate.last /\ u < t
      /\ t > state.last
  BY AcceptFacts
<1>0. t \in Times
  BY <1>1
<1>2. /\ e \in Detection
      /\ v.class = "moving" => e.state = "MOTION_CANDIDATE" /\ e.candidate = t
      /\ v.class # "moving" => e = s
      /\ e.trip = s.trip
  <2>1. CASE v.class = "moving"
    <3>1. e = StartCandidate(s, t)
      BY <2>1 DEF Evaluate
    <3> HIDE DEF e
    <3> QED BY <1>0, <2>1, <3>1, StartFields
  <2>2. CASE v.class # "moving"
    BY <2>2 DEF Evaluate
  <2> QED BY <2>1, <2>2
<1> HIDE DEF e
<1>3. /\ mstate' \in Detection /\ mstate'.last = t
      /\ mstate'.state = e.state /\ mstate'.trip = 0 /\ mstate'.candidate = e.candidate
  BY <1>1, <1>2, GoesFields DEF e
<1>4. mstate'.state = IF v.class = "moving" THEN "MOTION_CANDIDATE" ELSE "IDLE"
  BY <1>2, <1>3
<1>5. /\ TripsAreTimed(mstate', mtrips', mrows') /\ Ordered(mtrips')
      /\ \A i \in DOMAIN mtrips' : \A p \in Accepted(mrows') :
           mtrips'[i].started <= p /\ p <= mtrips'[i].born => p \in mtrips'[i].points
      /\ \A u \in Accepted(mrows') : u <= mstate'.last
      /\ mstate'.last # 0
  BY <1>3, Kept
<1>6. TripIsOpen(mstate', mtrips')
  <2>1. \A i \in DOMAIN mtrips' : mtrips'[i].ended = 0 <=> i = mstate'.trip
    BY <1>3
  <2>2. mstate'.state \notin {"TRIP_ACTIVE", "STOP_CANDIDATE"}
    BY <1>4
  <2> QED BY <1>3, <2>1, <2>2 DEF TripIsOpen
<1>7. RowIsTimed(mstate', mtrips', mrows')
  <2>1. ASSUME mstate'.state = "MOTION_CANDIDATE"
        PROVE  /\ mstate'.candidate \in Accepted(mrows') /\ mrows'[mstate'.candidate] = "moving"
               /\ \A i \in DOMAIN mtrips' : /\ mtrips'[i].ended < mstate'.candidate
                                            /\ \A p \in mtrips'[i].points : p < mstate'.candidate
    <3>1. v.class = "moving" /\ mstate'.candidate = t
      BY <2>1, <1>2, <1>3, <1>4
    <3>2. \A i \in DOMAIN mtrips' : mtrips'[i].ended <= mstate.last /\ mtrips'[i].points \subseteq Accepted(mrows)
      BY DEF TripsAreTimed
    <3>3. \A i \in DOMAIN mtrips' : mtrips'[i] \in Trip
      OBVIOUS
    <3>4. \A i \in DOMAIN mtrips' : mtrips'[i].ended \in Int
      BY <3>3, TripTimes
    <3> QED BY <3>1, <3>2, <3>4, <1>1
  <2>2. mstate'.state # "STOP_CANDIDATE"
    BY <1>4
  <2> QED BY <1>5, <2>1, <2>2 DEF RowIsTimed
<1>8. Complete(mstate', mtrips', mrows', active')
  BY <1>4, <1>5 DEF Complete
<1>9. Sound(mstate', mtrips', mrows', active')
  BY <1>5, <1>6, <1>7, <1>8 DEF Sound
<1>10. Later(state, trips, mstate', mtrips')
  BY <1>1, <1>3, OldKept DEF Later
<1>11. InHand'
  <2>1. CASE v.class = "moving"
    <3>1. candidates' = {t} /\ mstate'.state = "MOTION_CANDIDATE" /\ mstate'.candidate = t
      BY <2>1, <1>2, <1>3, <1>4 DEF Opens
    <3>2. \A p \in Accepted(mrows') \ {t} : p < t
      BY <1>1
    <3> QED BY <3>1, <3>2, <1>1 DEF InHand
  <2>2. CASE v.class # "moving"
    BY <2>2 DEF InHand, Opens
  <2> QED BY <2>1, <2>2
<1>12. candidates' \subseteq candidates \cup {t} /\ active' \subseteq active \cup {t}
  BY DEF Opens
<1> QED BY <1>3, <1>9, <1>10, <1>11, <1>12, Accepts

-----------------------------------------------------------------------------
(***************************************************************************)
(* The actions that accept a point.                                        *)
(***************************************************************************)
LEMMA IdlePreserves ==
  ASSUME IInv, NEW t, NEW v \in Verdicts(t), Idle(t, v)
  PROVE  IInv'
<1>1. /\ Accept(t, v, "IDLE") /\ Goes(t, Evaluate(mstate, t, v))
      /\ candidates' = candidates \cup Opens(t, v)
      /\ mtrips' = mtrips /\ active' = active
  BY DEF Idle
<1>2. mstate.state = "IDLE"
  BY <1>1 DEF Accept
<1>3. candidates = {} /\ active = {}
  BY <1>2 DEF IInv, InCycle, InHand
<1>4. mstate.trip = 0 /\ \A i \in DOMAIN mtrips : mtrips[i].ended # 0
  BY <1>2, OldKept DEF IInv, Sound, TripIsOpen
<1>5. candidates' = Opens(t, v) /\ active' = {}
  BY <1>1, <1>3
<1> QED BY <1>1, <1>2, <1>4, <1>5, OldKept, Opened

LEMMA AbandonPreserves ==
  ASSUME IInv, NEW t, NEW v \in Verdicts(t), Abandon(t, v)
  PROVE  IInv'
<1> DEFINE s == ResetCandidate(mstate)
<1>1. /\ Accept(t, v, "MOTION_CANDIDATE") /\ Goes(t, Evaluate(s, t, v))
      /\ candidates' = Opens(t, v)
      /\ mtrips' = mtrips /\ active' = active
  BY DEF Abandon
<1>2. mstate.state = "MOTION_CANDIDATE"
  BY <1>1 DEF Accept
<1>3. active = {}
  BY <1>2 DEF IInv, InCycle, InHand
<1>4. mstate.trip = 0 /\ \A i \in DOMAIN mtrips : mtrips[i].ended # 0
  BY <1>2, OldKept DEF IInv, Sound, TripIsOpen
<1>5. s \in Detection /\ s.state = "IDLE" /\ s.trip = 0
  BY <1>2, <1>4, OldKept, ResetFields
<1> HIDE DEF s
<1>6. candidates' = Opens(t, v) /\ active' = {}
  BY <1>1, <1>3
<1> QED BY <1>1, <1>4, <1>5, <1>6, OldKept, Opened

LEMMA EndBySilencePreserves ==
  ASSUME IInv, NEW t, NEW v \in Verdicts(t), EndBySilence(t, v)
  PROVE  IInv'
<1>1. /\ Accept(t, v, "TRIP_ACTIVE") /\ Goes(t, Evaluate(NoTrip, t, v))
      /\ candidates' = candidates \cup Opens(t, v)
      /\ mtrips' = Completed(mstate.last) /\ active' = {}
  BY DEF EndBySilence
<1>2. mstate.state = "TRIP_ACTIVE"
  BY <1>1 DEF Accept
<1>3. candidates = {}
  BY <1>2 DEF IInv, InCycle, InHand
<1>4. mstate.trip # 0 /\ mstate.trip \in DOMAIN mtrips
  BY <1>2 DEF IInv, Sound, TripIsOpen
<1>5. mstate.last # 0 /\ mstate.last \in 0 .. MaxTime
  BY <1>2, OldKept DEF IInv, Sound, RowIsTimed, Detection
<1>6. mtrips[mstate.trip].started < mstate.last
  <2>1. mtrips[mstate.trip].started \in Int /\ mtrips[mstate.trip].born \in Int
    BY <1>4, OldKept, TripTimes
  <2> QED BY <1>4, <2>1, OldKept DEF TripsAreTimed
<1>7. TypeOK /\ Sound(mstate, mtrips, mrows, active) /\ Later(state, trips, mstate, mtrips)
  BY DEF IInv, InCycle
<1>8. mtrips' = [mtrips EXCEPT ![mstate.trip] = Grown(mtrips[mstate.trip], mstate.last)]
  BY <1>1 DEF Completed
<1>9. /\ mtrips' \in Seq(Trip) /\ DOMAIN mtrips' = DOMAIN mtrips
      /\ \A i \in DOMAIN mtrips' : mtrips'[i].ended = 0 <=> i = mstate.trip /\ mstate.last = 0
      /\ TripsAreTimed(mstate, mtrips', mrows) /\ Ordered(mtrips')
      /\ Complete(mstate, mtrips', mrows, {})
      /\ Later(state, trips, mstate, mtrips')
  <2>1. mstate.last <= mstate.last
    BY <1>5
  <2> QED BY <1>4, <1>5, <1>6, <1>7, <1>8, <2>1, GrowTrip, ZenonT(40)
<1>10. Complete(mstate, mtrips', mrows, active)
  BY <1>9 DEF Complete
<1>11. NoTrip \in Detection /\ NoTrip.state = "IDLE" /\ NoTrip.trip = 0
  BY OldKept, NoTripFields
<1>12. candidates' = Opens(t, v) /\ \A i \in DOMAIN mtrips' : mtrips'[i].ended # 0
  BY <1>1, <1>3, <1>5, <1>9
<1> QED BY <1>1, <1>9, <1>10, <1>11, <1>12, Opened

\* The trips stay, and so does the row's trip.
LEMMA Stays ==
  ASSUME IInv, NEW t, NEW v \in Verdicts(t), NEW status, Accept(t, v, status),
         mtrips' = mtrips, mstate'.last = t, mstate'.trip = mstate.trip,
         mstate'.state \in {"TRIP_ACTIVE", "STOP_CANDIDATE"} <=> status \in {"TRIP_ACTIVE", "STOP_CANDIDATE"}
  PROVE  /\ TripIsOpen(mstate', mtrips')
         /\ TripsAreTimed(mstate', mtrips', mrows') /\ Ordered(mtrips')
         /\ \A i \in DOMAIN mtrips' : \A p \in Accepted(mrows') :
              mtrips'[i].started <= p /\ p <= mtrips'[i].born => p \in mtrips'[i].points
         /\ \A u \in Accepted(mrows') : u <= mstate'.last
         /\ mstate'.last # 0
         /\ mtrips' \in Seq(Trip)
         /\ Later(state, trips, mstate', mtrips')
<1>1. mstate.state = status /\ t > state.last
  BY DEF Accept
<1>2. TripIsOpen(mstate', mtrips')
  BY <1>1 DEF IInv, Sound, TripIsOpen
<1>3. Later(state, trips, mstate', mtrips')
  <2>1. t \in Int
    BY AcceptFacts
  <2> QED BY <1>1, <2>1, OldKept DEF Later
<1> QED BY <1>2, <1>3, OldKept, Kept

LEMMA ContinuePreserves ==
  ASSUME IInv, NEW t, NEW v \in Verdicts(t), Continue(t, v)
  PROVE  IInv'
<1>1. /\ Accept(t, v, "MOTION_CANDIDATE") /\ Goes(t, Counted(v))
      /\ candidates' = candidates \cup {t}
      /\ mtrips' = mtrips /\ active' = active
  BY DEF Continue, Motion
<1>2. /\ mstate.state = "MOTION_CANDIDATE" /\ t \in Times /\ t \in Int
      /\ Accepted(mrows') = Accepted(mrows) \cup {t}
      /\ \A u \in Accepted(mrows) : mrows'[u] = mrows[u]
      /\ \A u \in Accepted(mrows) : u \in Int /\ u < t
  BY <1>1, AcceptFacts
<1>3. active = {}
  BY <1>2 DEF IInv, InCycle, InHand
<1>4. /\ Counted(v) \in Detection
      /\ Counted(v).state = mstate.state /\ Counted(v).trip = mstate.trip
      /\ Counted(v).candidate = mstate.candidate
  BY OldKept, VerdictFields, CountedFields
<1>5. /\ mstate' \in Detection /\ mstate'.last = t
      /\ mstate'.state = "MOTION_CANDIDATE" /\ mstate'.trip = mstate.trip
      /\ mstate'.candidate = mstate.candidate
  BY <1>1, <1>2, <1>4, GoesFields
<1>6. /\ TripIsOpen(mstate', mtrips')
      /\ TripsAreTimed(mstate', mtrips', mrows') /\ Ordered(mtrips')
      /\ \A i \in DOMAIN mtrips' : \A p \in Accepted(mrows') :
           mtrips'[i].started <= p /\ p <= mtrips'[i].born => p \in mtrips'[i].points
      /\ \A u \in Accepted(mrows') : u <= mstate'.last
      /\ mstate'.last # 0 /\ mtrips' \in Seq(Trip)
      /\ Later(state, trips, mstate', mtrips')
  BY <1>1, <1>5, Stays
<1>7. /\ mstate.candidate \in Accepted(mrows) /\ mrows[mstate.candidate] = "moving"
      /\ \A i \in DOMAIN mtrips : /\ mtrips[i].ended < mstate.candidate
                                  /\ \A p \in mtrips[i].points : p < mstate.candidate
  BY <1>2 DEF IInv, Sound, RowIsTimed
<1>8. RowIsTimed(mstate', mtrips', mrows')
  <2>1. mstate'.candidate \in Accepted(mrows') /\ mrows'[mstate'.candidate] = "moving"
    BY <1>2, <1>5, <1>7
  <2> QED BY <1>1, <1>5, <1>6, <1>7, <2>1 DEF RowIsTimed
<1>9. Complete(mstate', mtrips', mrows', active')
  BY <1>5, <1>6 DEF Complete
<1>10. InHand'
  <2>1. \A q \in candidates' :
          /\ mstate'.candidate <= q
          /\ \A p \in Accepted(mrows') \ candidates' : mstate'.candidate <= p => p < q
    <3>1. mstate.candidate <= t
      BY <1>2, <1>7
    <3>2. \A q \in candidates : \A p \in Accepted(mrows) \ candidates : mstate.candidate <= p => p < q
      BY DEF IInv, InCycle, InHand
    <3>3. \A q \in candidates : mstate.candidate <= q
      BY DEF IInv, InCycle, InHand
    <3> QED BY <1>1, <1>2, <1>5, <3>1, <3>2, <3>3
  <2> QED BY <2>1, <1>1, <1>3, <1>5 DEF InHand
<1>11. Sound(mstate', mtrips', mrows', active')
  BY <1>6, <1>8, <1>9 DEF Sound
<1>12. candidates' \subseteq candidates \cup {t} /\ active' \subseteq active \cup {t}
  BY <1>1
<1> QED BY <1>1, <1>5, <1>6, <1>10, <1>11, <1>12, Accepts

\* The active trip goes on, with or without a stop: t is one of its points.
LEMMA TravelPreserves ==
  ASSUME IInv, NEW t, NEW v \in Verdicts(t), Travel(t, v) \/ Resume(t, v)
  PROVE  IInv'
<1> DEFINE status == mstate.state
<1>1. /\ status \in {"TRIP_ACTIVE", "STOP_CANDIDATE"} /\ Accept(t, v, status)
      /\ mtrips' = mtrips /\ candidates' = candidates /\ active' = active \cup {t}
  BY DEF Travel, Resume, Accept
<1>2. t \in Times
  BY <1>1, AcceptFacts
<1>3. /\ mstate' \in Detection /\ mstate'.last = t
      /\ mstate'.state = "TRIP_ACTIVE" /\ mstate'.trip = mstate.trip
  <2>1. CASE Travel(t, v)
    <3>1. Goes(t, mstate) /\ mstate.state = "TRIP_ACTIVE"
      BY <2>1 DEF Travel, Accept
    <3> QED BY <3>1, <1>2, OldKept, GoesFields
  <2>2. CASE Resume(t, v)
    <3> DEFINE s == Stopped("TRIP_ACTIVE", 0)
    <3>1. Goes(t, s)
      BY <2>2 DEF Resume, Stopped
    <3>2. "TRIP_ACTIVE" \in States /\ 0 \in 0 .. MaxTime
      BY Instants DEF States
    <3>3. s \in Detection /\ s.state = "TRIP_ACTIVE" /\ s.trip = mstate.trip
      BY <3>2, OldKept, StopFields
    <3> HIDE DEF s
    <3> QED BY <3>1, <3>3, <1>2, GoesFields
  <2> QED BY <2>1, <2>2
<1>4. candidates = {}
  BY <1>1 DEF IInv, InCycle, InHand
<1> HIDE DEF status
<1>5. /\ TripIsOpen(mstate', mtrips')
      /\ TripsAreTimed(mstate', mtrips', mrows') /\ Ordered(mtrips')
      /\ \A i \in DOMAIN mtrips' : \A p \in Accepted(mrows') :
           mtrips'[i].started <= p /\ p <= mtrips'[i].born => p \in mtrips'[i].points
      /\ \A u \in Accepted(mrows') : u <= mstate'.last
      /\ mstate'.last # 0 /\ mtrips' \in Seq(Trip)
      /\ Later(state, trips, mstate', mtrips')
  BY <1>1, <1>3, Stays
<1>6. RowIsTimed(mstate', mtrips', mrows')
  BY <1>3, <1>5 DEF RowIsTimed
<1>7. Complete(mstate', mtrips', mrows', active')
  <2>1. mstate'.last \in mtrips'[mstate'.trip].points \cup active'
    BY <1>1, <1>3
  <2> QED BY <2>1, <1>5 DEF Complete
<1>8. Sound(mstate', mtrips', mrows', active')
  BY <1>5, <1>6, <1>7 DEF Sound
<1>9. InHand'
  BY <1>1, <1>3, <1>4 DEF InHand
<1>10. candidates' \subseteq candidates \cup {t} /\ active' \subseteq active \cup {t}
  BY <1>1
<1> QED BY <1>1, <1>3, <1>5, <1>8, <1>9, <1>10, Accepts

LEMMA WaitPreserves ==
  ASSUME IInv, NEW t, NEW v \in Verdicts(t), Wait(t, v)
  PROVE  IInv'
<1>1. /\ Accept(t, v, "STOP_CANDIDATE") /\ Goes(t, mstate)
      /\ mtrips' = mtrips /\ candidates' = candidates /\ active' = active
  BY DEF Wait
<1>2. mstate.state = "STOP_CANDIDATE" /\ t \in Times /\ t \in Int /\ mstate.last < t /\ mstate.last \in Int
  BY <1>1, AcceptFacts
<1>3. /\ mstate' \in Detection /\ mstate'.last = t
      /\ mstate'.state = "STOP_CANDIDATE" /\ mstate'.trip = mstate.trip
      /\ mstate'.stop = mstate.stop
  BY <1>1, <1>2, OldKept, GoesFields
<1>4. candidates = {} /\ active = {}
  BY <1>2 DEF IInv, InCycle, InHand
<1>5. /\ TripIsOpen(mstate', mtrips')
      /\ TripsAreTimed(mstate', mtrips', mrows') /\ Ordered(mtrips')
      /\ \A i \in DOMAIN mtrips' : \A p \in Accepted(mrows') :
           mtrips'[i].started <= p /\ p <= mtrips'[i].born => p \in mtrips'[i].points
      /\ \A u \in Accepted(mrows') : u <= mstate'.last
      /\ mstate'.last # 0 /\ mtrips' \in Seq(Trip)
      /\ Later(state, trips, mstate', mtrips')
  BY <1>1, <1>3, Stays
<1>6. RowIsTimed(mstate', mtrips', mrows')
  <2>1. mtrips[mstate.trip].started < mstate.stop /\ mstate.stop <= mstate.last
    BY <1>2 DEF IInv, Sound, RowIsTimed
  <2>2. mstate.stop \in Int
    BY OldKept DEF Detection
  <2>3. mstate.stop <= t
    BY <2>1, <2>2, <1>2
  <2> QED BY <2>1, <2>3, <1>1, <1>3, <1>5 DEF RowIsTimed
<1>7. Complete(mstate', mtrips', mrows', active')
  BY <1>3, <1>5 DEF Complete
<1>8. Sound(mstate', mtrips', mrows', active')
  BY <1>5, <1>6, <1>7 DEF Sound
<1>9. InHand'
  BY <1>1, <1>4 DEF InHand
<1>10. candidates' \subseteq candidates \cup {t} /\ active' \subseteq active \cup {t}
  BY <1>1
<1> QED BY <1>1, <1>3, <1>5, <1>8, <1>9, <1>10, Accepts

\* A candidate becomes a trip, behind all others.
LEMMA ConfirmPreserves ==
  ASSUME IInv, NEW t, NEW v \in Verdicts(t), Confirm(t, v)
  PROVE  IInv'
<1> DEFINE points == candidates \cup {t}
           trip == [started |-> mstate.candidate, born |-> t, ended |-> 0,
                    points |-> points \cup Backfill(mstate.candidate, points)]
           k == Len(mtrips) + 1
<1>1. /\ Accept(t, v, "MOTION_CANDIDATE") /\ Goes(t, Started(Counted(v), k))
      /\ mtrips' = Append(mtrips, trip)
      /\ candidates' = {} /\ active' = active
  BY DEF Confirm, Motion, Started
<1>2. /\ mstate.state = "MOTION_CANDIDATE" /\ t \in Times /\ t \in Int /\ t > state.last
      /\ Accepted(mrows') = Accepted(mrows) \cup {t}
      /\ \A u \in Accepted(mrows) : mrows'[u] = mrows[u]
      /\ \A u \in Accepted(mrows) : u \in Int /\ u < t
  BY <1>1, AcceptFacts
<1>3. active = {}
  BY <1>2 DEF IInv, InCycle, InHand
<1>4. mtrips \in Seq(Trip) /\ k \in Nat /\ Len(mtrips) \in Nat
  BY OldKept
<1>5. mstate' \in Detection /\ mstate'.last = t /\ mstate'.state = "TRIP_ACTIVE" /\ mstate'.trip = k
  <2>1. Counted(v) \in Detection
    BY OldKept, VerdictFields, CountedFields
  <2> HIDE DEF k
  <2>2. /\ Started(Counted(v), k) \in Detection
        /\ Started(Counted(v), k).state = "TRIP_ACTIVE" /\ Started(Counted(v), k).trip = k
    BY <2>1, <1>4, StartedFields
  <2> QED BY <2>2, <1>1, <1>2, GoesFields
<1>6. /\ mstate.candidate \in Accepted(mrows) /\ mrows[mstate.candidate] = "moving"
      /\ \A i \in DOMAIN mtrips : /\ mtrips[i].ended < mstate.candidate
                                  /\ \A p \in mtrips[i].points : p < mstate.candidate
  BY <1>2 DEF IInv, Sound, RowIsTimed
<1>7. /\ Accepted(mrows) \subseteq Times /\ candidates \subseteq Accepted(mrows)
      /\ raw \subseteq Int
  BY Elements DEF IInv
<1>8. /\ trip \in Trip /\ trip.started = mstate.candidate /\ trip.born = t /\ trip.ended = 0
      /\ trip.points = points \cup Backfill(mstate.candidate, points)
      /\ trip.points \subseteq Accepted(mrows')
  <2>1. Backfill(mstate.candidate, points) \subseteq Accepted(mrows)
    BY DEF Backfill
  <2> DEFINE all == points \cup Backfill(mstate.candidate, points)
  <2>2. all \subseteq Times /\ all \subseteq Accepted(mrows')
    BY <2>1, <1>2, <1>7
  <2> HIDE DEF all
  <2>3. /\ trip = [started |-> mstate.candidate, born |-> t, ended |-> 0, points |-> all]
        /\ mstate.candidate \in Times
    BY <1>6, <1>7 DEF all
  <2> HIDE DEF trip
  <2>4. /\ trip \in Trip /\ trip.started = mstate.candidate /\ trip.born = t /\ trip.ended = 0
        /\ trip.points = all
    BY <2>2, <2>3, <1>2, Instants DEF Trip
  <2> QED BY <2>2, <2>4 DEF all
\* Every accepted point since the candidate began is a candidate or backfilled.
<1>9. \A p \in Accepted(mrows') : mstate.candidate <= p => p \in trip.points
  <2> SUFFICES ASSUME NEW p \in Accepted(mrows), mstate.candidate <= p, p \notin points
               PROVE  p \in Backfill(mstate.candidate, points)
    BY <1>2, <1>8
  <2>1. \A q \in candidates : p < q
    BY DEF IInv, InCycle, InHand
  <2> QED BY <2>1, <1>2 DEF Backfill
<1> HIDE DEF trip
<1>10. /\ mtrips' \in Seq(Trip) /\ DOMAIN mtrips' = DOMAIN mtrips \cup {k} /\ k \notin DOMAIN mtrips
       /\ \A i \in DOMAIN mtrips : mtrips'[i] = mtrips[i] /\ i < k
       /\ mtrips'[k] = trip
  BY <1>1, <1>4, <1>8
<1> HIDE DEF k
<1>11. mstate.trip = 0 /\ \A i \in DOMAIN mtrips : mtrips[i].ended # 0
  BY <1>2, <1>4 DEF IInv, Sound, TripIsOpen
<1>12. /\ TripsAreTimed(mstate', mtrips, mrows')
       /\ \A i \in DOMAIN mtrips : \A p \in Accepted(mrows') :
            mtrips[i].started <= p /\ p <= mtrips[i].born => p \in mtrips[i].points
       /\ \A u \in Accepted(mrows') : u <= mstate'.last
  <2>1. mstate.last \in Int /\ mstate.last < t /\ \A u \in Accepted(mrows) : u <= mstate.last
    BY <1>1, AcceptFacts
  <2>2. \A i \in DOMAIN mtrips : \A p \in Accepted(mrows) :
          mtrips[i].started <= p /\ p <= mtrips[i].born => p \in mtrips[i].points
    BY OldKept DEF Complete
  <2>3. TripsAreTimed(mstate, mtrips, mrows)
    BY OldKept
  <2>4. /\ TripsAreTimed(mstate', mtrips, mrows')
        /\ \A i \in DOMAIN mtrips : \A p \in Accepted(mrows') :
             mtrips[i].started <= p /\ p <= mtrips[i].born => p \in mtrips[i].points
    BY <1>2, <1>4, <1>5, <2>1, <2>2, <2>3, RowsGrow, SMTT(30)
  <2> QED BY <2>4, <1>2, <1>5
<1>13. TripIsOpen(mstate', mtrips')
  <2>1. trip.ended = 0 /\ k # 0
    BY <1>8, <1>4 DEF k
  <2>2. mstate'.trip = k /\ mstate'.state = "TRIP_ACTIVE"
    BY <1>5
  <2>3. \A i \in DOMAIN mtrips' : mtrips'[i].ended = 0 <=> i = k
    <3>1. ASSUME NEW i \in DOMAIN mtrips PROVE mtrips'[i].ended # 0 /\ i # k
      BY <3>1, <1>10, <1>11
    <3> QED BY <3>1, <2>1, <1>10
  <2> QED BY <2>1, <2>2, <2>3, <1>10 DEF TripIsOpen
<1>14. RowIsTimed(mstate', mtrips', mrows')
  <2>1. mstate'.last # 0
    BY <1>2, <1>5 DEF Times
  <2> QED BY <2>1, <1>5, <1>12 DEF RowIsTimed
<1>15. TripsAreTimed(mstate', mtrips', mrows')
  <2>1. /\ trip.started \in Accepted(mrows') /\ mrows'[trip.started] = "moving"
        /\ trip.started < trip.born /\ trip.born <= mstate'.last
        /\ trip.ended # 0 => trip.started < trip.ended
        /\ trip.ended <= mstate'.last
        /\ trip.points \subseteq Accepted(mrows')
    BY <1>2, <1>5, <1>6, <1>8 DEF Times
  <2>2. \A i \in DOMAIN mtrips' : i = k \/ i \in DOMAIN mtrips
    BY <1>10
  <2> QED BY <2>1, <2>2, <1>10, <1>12 DEF TripsAreTimed
<1>16. Ordered(mtrips')
  <2> SUFFICES ASSUME NEW i \in DOMAIN mtrips', NEW j \in DOMAIN mtrips', i < j
               PROVE  /\ 0 < mtrips'[i].ended /\ mtrips'[i].ended < mtrips'[j].started
                      /\ \A p \in mtrips'[i].points : p < mtrips'[j].started
    BY DEF Ordered
  <2>1. i # k
    <3>1. j \in Int /\ j <= k /\ k \in Int
      BY <1>4, <1>10 DEF k
    <3> QED BY <3>1
  <2>2. i \in DOMAIN mtrips /\ mtrips'[i] = mtrips[i] /\ mtrips[i].ended # 0
    BY <2>1, <1>10, <1>11
  <2>3. CASE j = k
    <3>1. mtrips[i] \in Trip
      BY <2>2, <1>4
    <3>2. mtrips[i].ended \in 0 .. MaxTime
      BY <3>1, TripTimes
    <3>3. 0 < mtrips[i].ended
      BY <3>2, <2>2
    <3> QED BY <2>2, <2>3, <3>3, <1>6, <1>8, <1>10
  <2>4. CASE j # k
    <3>1. j \in DOMAIN mtrips /\ mtrips'[j] = mtrips[j]
      BY <2>4, <1>10
    <3> QED BY <2>2, <3>1, OldKept DEF Ordered
  <2> QED BY <2>3, <2>4
<1>17. Complete(mstate', mtrips', mrows', active')
  <2>1. ASSUME NEW i \in DOMAIN mtrips', NEW p \in Accepted(mrows'),
               mtrips'[i].started <= p, p <= mtrips'[i].born
        PROVE  p \in mtrips'[i].points
    <3>1. CASE i = k
      BY <2>1, <3>1, <1>8, <1>9, <1>10
    <3>2. CASE i # k
      BY <2>1, <3>2, <1>10, <1>12
    <3> QED BY <3>1, <3>2
  <2>2. ~ (mstate'.last > mtrips'[mstate'.trip].born)
    BY <1>2, <1>5, <1>8, <1>10
  <2> QED BY <2>1, <2>2 DEF Complete
<1>18. Sound(mstate', mtrips', mrows', active')
  BY <1>13, <1>14, <1>15, <1>16, <1>17 DEF Sound
<1>19. Later(state, trips, mstate', mtrips')
  <2>1. state.last <= mstate'.last
    BY <1>2, <1>5, OldKept
  <2>2. \A i \in DOMAIN trips :
          /\ i \in DOMAIN mtrips /\ mtrips[i].started = trips[i].started
          /\ trips[i].ended # 0 => mtrips[i] = trips[i]
    BY OldKept DEF Later
  <2> QED BY <2>1, <2>2, <1>10 DEF Later
<1>20. InHand'
  BY <1>1, <1>3 DEF InHand
<1>21. candidates' \subseteq candidates \cup {t} /\ active' \subseteq active \cup {t}
  BY <1>1
<1> QED BY <1>1, <1>5, <1>10, <1>18, <1>19, <1>20, <1>21, Accepts

\* The trip is written and waits: its stop began after it did, for a window
\* with movement is not a stationary one.
LEMMA PausePreserves ==
  ASSUME IInv, NEW t, NEW v \in Verdicts(t), Pause(t, v)
  PROVE  IInv'
<1> DEFINE at == mtrips[mstate.trip].ended
<1>1. /\ Accept(t, v, "TRIP_ACTIVE") /\ Goes(t, Stopped("STOP_CANDIDATE", v.since))
      /\ v.class = "still"
      /\ mtrips' = [mtrips EXCEPT ![mstate.trip] = Grown(mtrips[mstate.trip], at)]
      /\ active' = {} /\ candidates' = candidates
  BY DEF Pause, Stopped, Flushed
<1>2. /\ mstate.state = "TRIP_ACTIVE" /\ t \in Times /\ t \in Int /\ t > state.last
      /\ \A u \in Accepted(mrows) : u \in Int /\ u < t
  BY <1>1, AcceptFacts
<1>3. candidates = {}
  BY <1>2 DEF IInv, InCycle, InHand
<1>4. /\ mstate.trip # 0 /\ mstate.trip \in DOMAIN mtrips
      /\ at = 0
  BY <1>2 DEF IInv, Sound, TripIsOpen
<1>5. v.since \in Times /\ InWindow(v.since, t)
  BY <1>1, VerdictFields
<1>6. mstate' \in Detection /\ mstate'.last = t
      /\ mstate'.state = "STOP_CANDIDATE" /\ mstate'.trip = mstate.trip /\ mstate'.stop = v.since
  <2> DEFINE s == Stopped("STOP_CANDIDATE", v.since)
  <2>1. "STOP_CANDIDATE" \in States /\ v.since \in 0 .. MaxTime
    BY <1>5, Instants DEF States
  <2>2. /\ s \in Detection /\ s.state = "STOP_CANDIDATE" /\ s.stop = v.since
        /\ s.trip = mstate.trip
    BY <2>1, OldKept, StopFields
  <2> HIDE DEF s
  <2>3. Goes(t, s)
    BY <1>1 DEF s
  <2> QED BY <2>2, <2>3, <1>2, GoesFields
<1>7. /\ mtrips[mstate.trip].started \in Accepted(mrows) /\ mrows[mtrips[mstate.trip].started] = "moving"
      /\ mtrips[mstate.trip] \in Trip
  BY <1>4, OldKept DEF TripsAreTimed
<1>8. mtrips[mstate.trip].started < v.since /\ v.since <= t
  <2>1. v.since \in Accepted(mrows) \cup {t} /\ v.since \in Int
    BY <1>5 DEF InWindow, Times
  <2>2. ~ (v.since <= mtrips[mstate.trip].started)
    BY <1>5, <1>7 DEF InWindow
  <2>3. mtrips[mstate.trip].started \in Int
    BY <1>7, TripTimes
  <2> QED BY <2>1, <2>2, <2>3, <1>2
<1> HIDE DEF at
<1>9. /\ mtrips' \in Seq(Trip) /\ DOMAIN mtrips' = DOMAIN mtrips
      /\ \A i \in DOMAIN mtrips' : mtrips'[i].started = mtrips[i].started
      /\ \A i \in DOMAIN mtrips' : mtrips'[i].ended = 0 <=> i = mstate.trip /\ at = 0
      /\ TripsAreTimed(mstate, mtrips', mrows) /\ Ordered(mtrips')
      /\ Complete(mstate, mtrips', mrows, {})
      /\ Later(state, trips, mstate, mtrips')
  <2>1. at <= mstate.last /\ at \in 0 .. MaxTime
    BY <1>4, OldKept, Instants
  <2>2. TypeOK /\ Sound(mstate, mtrips, mrows, active) /\ Later(state, trips, mstate, mtrips)
    BY DEF IInv, InCycle
  <2>3. at # 0 => mtrips[mstate.trip].started < at
    BY <1>4
  <2>4. mtrips' = [mtrips EXCEPT ![mstate.trip] = Grown(mtrips[mstate.trip], at)] /\ mstate.trip # 0
    BY <1>1, <1>4
  <2> QED BY <2>1, <2>2, <2>3, <2>4, GrowTrip, ZenonT(40)
<1>10. Complete(mstate, mtrips', mrows, active)
  BY <1>9 DEF Complete
<1>11. /\ TripsAreTimed(mstate', mtrips', mrows') /\ Ordered(mtrips')
       /\ \A i \in DOMAIN mtrips' : \A p \in Accepted(mrows') :
            mtrips'[i].started <= p /\ p <= mtrips'[i].born => p \in mtrips'[i].points
       /\ \A u \in Accepted(mrows') : u <= mstate'.last
       /\ mstate'.last # 0
  BY <1>1, <1>6, <1>9, <1>10, Kept
<1>12. TripIsOpen(mstate', mtrips')
  BY <1>4, <1>6, <1>9 DEF TripIsOpen
<1>13. RowIsTimed(mstate', mtrips', mrows')
  <2>1. mtrips'[mstate'.trip].started < mstate'.stop /\ mstate'.stop <= mstate'.last
    BY <1>4, <1>6, <1>8, <1>9
  <2> QED BY <2>1, <1>6, <1>11 DEF RowIsTimed
<1>14. Complete(mstate', mtrips', mrows', active')
  BY <1>6, <1>11 DEF Complete
<1>15. Sound(mstate', mtrips', mrows', active')
  BY <1>11, <1>12, <1>13, <1>14 DEF Sound
<1>16. Later(state, trips, mstate', mtrips')
  BY <1>2, <1>6, <1>9, OldKept DEF Later
<1>17. InHand'
  BY <1>1, <1>3 DEF InHand
<1>18. candidates' \subseteq candidates \cup {t} /\ active' \subseteq active \cup {t}
  BY <1>1
<1> QED BY <1>1, <1>6, <1>9, <1>15, <1>16, <1>17, <1>18, Accepts

LEMMA EndByStopPreserves ==
  ASSUME IInv, NEW t, NEW v \in Verdicts(t), EndByStop(t, v)
  PROVE  IInv'
<1> DEFINE at == mstate.stop
<1>1. /\ Accept(t, v, "STOP_CANDIDATE") /\ Goes(t, NoTrip)
      /\ mtrips' = [mtrips EXCEPT ![mstate.trip] = Grown(mtrips[mstate.trip], at)]
      /\ active' = active /\ candidates' = candidates
  BY DEF EndByStop, Completed
<1>2. mstate.state = "STOP_CANDIDATE" /\ t \in Times /\ t \in Int /\ t > state.last
  BY <1>1, AcceptFacts
<1>3. candidates = {} /\ active = {}
  BY <1>2 DEF IInv, InCycle, InHand
<1>4. mstate.trip # 0 /\ mstate.trip \in DOMAIN mtrips
  BY <1>2 DEF IInv, Sound, TripIsOpen
<1>5. mtrips[mstate.trip].started < at /\ at <= mstate.last /\ at \in 0 .. MaxTime
  BY <1>2, OldKept DEF IInv, Sound, RowIsTimed, Detection
<1>6. at # 0
  <2>1. mtrips[mstate.trip] \in Trip
    BY <1>4, OldKept
  <2>2. mtrips[mstate.trip].started \in Times
    BY <2>1, TripTimes
  <2>3. mtrips[mstate.trip].started \in Int /\ mtrips[mstate.trip].started > 0
    BY <2>2 DEF Times
  <2> QED BY <2>3, <1>5
<1>7. mstate' \in Detection /\ mstate'.last = t /\ mstate'.state = "IDLE" /\ mstate'.trip = 0
  <2>1. NoTrip \in Detection /\ NoTrip.state = "IDLE" /\ NoTrip.trip = 0
    BY OldKept, NoTripFields
  <2> QED BY <2>1, <1>1, <1>2, GoesFields
<1> HIDE DEF at
<1>8. /\ mtrips' \in Seq(Trip) /\ DOMAIN mtrips' = DOMAIN mtrips
      /\ \A i \in DOMAIN mtrips' : mtrips'[i].ended = 0 <=> i = mstate.trip /\ at = 0
      /\ TripsAreTimed(mstate, mtrips', mrows) /\ Ordered(mtrips')
      /\ Complete(mstate, mtrips', mrows, {})
      /\ Later(state, trips, mstate, mtrips')
  <2>1. TypeOK /\ Sound(mstate, mtrips, mrows, active) /\ Later(state, trips, mstate, mtrips)
    BY DEF IInv, InCycle
  <2> QED BY <2>1, <1>1, <1>4, <1>5, GrowTrip
<1>9. Complete(mstate, mtrips', mrows, active)
  BY <1>8 DEF Complete
<1>10. /\ TripsAreTimed(mstate', mtrips', mrows') /\ Ordered(mtrips')
       /\ \A i \in DOMAIN mtrips' : \A p \in Accepted(mrows') :
            mtrips'[i].started <= p /\ p <= mtrips'[i].born => p \in mtrips'[i].points
       /\ \A u \in Accepted(mrows') : u <= mstate'.last
       /\ mstate'.last # 0
  BY <1>1, <1>7, <1>8, <1>9, Kept
<1>11. TripIsOpen(mstate', mtrips')
  <2>1. \A i \in DOMAIN mtrips' : mtrips'[i].ended # 0 /\ i # 0
    BY <1>6, <1>8
  <2> QED BY <2>1, <1>7 DEF TripIsOpen
<1>12. RowIsTimed(mstate', mtrips', mrows')
  BY <1>7, <1>10 DEF RowIsTimed
<1>13. Complete(mstate', mtrips', mrows', active')
  BY <1>7, <1>10 DEF Complete
<1>14. Sound(mstate', mtrips', mrows', active')
  BY <1>10, <1>11, <1>12, <1>13 DEF Sound
<1>15. Later(state, trips, mstate', mtrips')
  BY <1>2, <1>7, <1>8, OldKept DEF Later
<1>16. InHand'
  BY <1>1, <1>3 DEF InHand
<1>17. candidates' \subseteq candidates \cup {t} /\ active' \subseteq active \cup {t}
  BY <1>1
<1> QED BY <1>1, <1>7, <1>8, <1>14, <1>15, <1>16, <1>17, Accepts

-----------------------------------------------------------------------------
(***************************************************************************)
(* The other actions.                                                      *)
(***************************************************************************)
\* A punctual point is after the checkpoint: it is not the one refused as late.
LEMMA RejectPreserves ==
  ASSUME IInv, NEW t, Reject(t)
  PROVE  IInv'
<1> DEFINE c == IF t <= state.last THEN "late_arrival" ELSE "noise"
<1>1. Take(t, c) /\ UNCHANGED <<mstate, mtrips, candidates, active>>
  BY DEF Reject
<1>2. c \in Rejected /\ (c = "late_arrival" => t <= state.last)
  BY DEF Rejected
<1> HIDE DEF c
<1>3. TypeOK /\ c \in Rejected \cup Classes
  BY <1>2 DEF IInv
<1>4. /\ t \in todo /\ t \in Int /\ t \notin DOMAIN mrows
      /\ mrows' \in [DOMAIN mrows' -> Rejected \cup Classes]
      /\ DOMAIN mrows' = DOMAIN mrows \cup {t}
      /\ \A u \in DOMAIN mrows : mrows'[u] = mrows[u]
      /\ mrows'[t] = c
      /\ todo' = todo \ {t}
  BY <1>1, <1>3, Taken
<1>5. /\ Accepted(mrows') = Accepted(mrows)
      /\ \A u \in Accepted(mrows) : mrows'[u] = mrows[u]
  BY <1>1, <1>2, <1>3, TakenRejected
<1>6. UNCHANGED <<now, raw, punctual, state, rows, trips, running, faults>>
  BY <1>1 DEF Take, arrivals, database
<1>7. todo \subseteq raw /\ raw \subseteq Int /\ state.last \in Nat
  BY <1>3, Elements
<1>8. TypeOK'
  <2>1. now' \in Nat /\ raw' \subseteq Times /\ punctual' \subseteq raw'
    BY <1>3, <1>6 DEF TypeOK
  <2>2. {state', mstate'} \subseteq Detection /\ {trips', mtrips'} \subseteq Seq(Trip)
    BY <1>1, <1>3, <1>6 DEF TypeOK
  <2>3. rows' \in [DOMAIN rows' -> Rejected \cup Classes] /\ DOMAIN rows' \subseteq raw'
    BY <1>3, <1>6 DEF TypeOK
  <2>4. mrows' \in [DOMAIN mrows' -> Rejected \cup Classes] /\ DOMAIN mrows' \subseteq raw'
    BY <1>3, <1>4, <1>6, <1>7 DEF TypeOK
  <2>5. running' \in BOOLEAN
    BY <1>3, <1>6 DEF TypeOK
  <2>6. todo' \subseteq raw' \ DOMAIN mrows'
    BY <1>3, <1>4, <1>6 DEF TypeOK
  <2>7. candidates' \cup active' \subseteq Accepted(mrows')
    BY <1>1, <1>3, <1>5 DEF TypeOK
  <2>8. faults' \in 0 .. MaxFaults
    BY <1>3, <1>6 DEF TypeOK
  <2> QED BY <2>1, <2>2, <2>3, <2>4, <2>5, <2>6, <2>7, <2>8 DEF TypeOK
<1>9. Sound(state', trips', rows', {})
  BY <1>6 DEF IInv
<1>10. Sound(mstate', mtrips', mrows', active')
  <2>1. RowIsTimed(mstate', mtrips', mrows')
    BY <1>1, <1>5 DEF IInv, Sound, RowIsTimed
  <2>2. TripsAreTimed(mstate', mtrips', mrows')
    BY <1>1, <1>5 DEF IInv, Sound, TripsAreTimed
  <2>3. Complete(mstate', mtrips', mrows', active')
    BY <1>1, <1>5 DEF IInv, Sound, Complete
  <2> QED BY <1>1, <2>1, <2>2, <2>3 DEF IInv, Sound
<1>11. InCycle'
  <2>1. Later(state', trips', mstate', mtrips')
    BY <1>1, <1>6 DEF IInv, InCycle
  <2>2. InHand'
    BY <1>1, <1>5 DEF IInv, InCycle, InHand
  <2>3. Ahead'
    BY <1>1, <1>4, <1>6 DEF IInv, InCycle, Ahead
  <2> QED BY <2>1, <2>2, <2>3 DEF InCycle
<1>12. InTime'
  <2>1. Boundary' = Boundary
    BY <1>6 DEF Boundary
  <2>2. \A u \in todo' : u < Boundary
    BY <1>4 DEF IInv, InTime
  <2> SUFFICES ASSUME NEW p \in punctual
               PROVE  /\ p \notin DOMAIN rows /\ p > state.last
                      /\ p \in DOMAIN mrows' => mrows'[p] # "late_arrival"
                      /\ p \notin DOMAIN mrows' =>
                           /\ p > mstate.last
                           /\ p \notin todo' => \A u \in todo' : u < p
    BY <1>1, <1>6, <2>1, <2>2 DEF IInv, InTime
  <2>3. /\ p \notin DOMAIN rows /\ p > state.last
        /\ p \in DOMAIN mrows => mrows[p] # "late_arrival"
        /\ p \notin DOMAIN mrows =>
             /\ p > mstate.last
             /\ p \notin todo => \A u \in todo : u < p
    BY DEF IInv, InTime
  <2>4. ASSUME p = t PROVE mrows'[p] # "late_arrival"
    BY <2>3, <2>4, <1>2, <1>4, <1>7
  <2> QED BY <2>3, <2>4, <1>4
<1> QED BY <1>8, <1>9, <1>10, <1>11, <1>12 DEF IInv

\* What ApplyBatch writes.
LEMMA FinalIsSound ==
  ASSUME IInv
  PROVE  /\ FinalTrips \in Seq(Trip)
         /\ Sound(mstate, FinalTrips, mrows, {})
         /\ Later(state, trips, mstate, FinalTrips)
<1>1. CASE mstate.state = "TRIP_ACTIVE"
  <2> DEFINE at == mtrips[mstate.trip].ended
  <2>1. FinalTrips = [mtrips EXCEPT ![mstate.trip] = Grown(mtrips[mstate.trip], at)]
    BY <1>1 DEF FinalTrips, Flushed
  <2>2. mstate.trip # 0 /\ mstate.trip \in DOMAIN mtrips /\ at = 0
    BY <1>1 DEF IInv, Sound, TripIsOpen
  <2> HIDE DEF at
  <2>3. at <= mstate.last /\ at \in 0 .. MaxTime /\ (at # 0 => mtrips[mstate.trip].started < at)
    BY <2>2, OldKept, Instants
  <2>4. TypeOK /\ Sound(mstate, mtrips, mrows, active) /\ Later(state, trips, mstate, mtrips)
    BY DEF IInv, InCycle
  <2> DEFINE tr == FinalTrips
  <2> HIDE DEF tr
  <2>5. tr = [mtrips EXCEPT ![mstate.trip] = Grown(mtrips[mstate.trip], at)] /\ mstate.trip # 0
    BY <2>1, <2>2 DEF tr
  <2>6. /\ tr \in Seq(Trip) /\ DOMAIN tr = DOMAIN mtrips
        /\ \A i \in DOMAIN tr : tr[i].ended = 0 <=> i = mstate.trip /\ at = 0
        /\ TripsAreTimed(mstate, tr, mrows) /\ Ordered(tr)
        /\ Complete(mstate, tr, mrows, {})
        /\ Later(state, trips, mstate, tr)
    BY <2>3, <2>4, <2>5, GrowTrip
  <2>7. TripIsOpen(mstate, tr)
    BY <1>1, <2>2, <2>6 DEF TripIsOpen
  <2>8. RowIsTimed(mstate, tr, mrows)
    BY <1>1 DEF IInv, Sound, RowIsTimed
  <2> QED BY <2>6, <2>7, <2>8 DEF Sound, tr
<1>2. CASE mstate.state # "TRIP_ACTIVE"
  <2>1. FinalTrips = mtrips /\ active = {}
    BY <1>2 DEF FinalTrips, IInv, InCycle, InHand
  <2> QED BY <2>1, OldKept DEF IInv
<1> QED BY <1>1, <1>2

LEMMA ApplyPreserves ==
  ASSUME IInv, Apply
  PROVE  IInv'
<1>1. /\ state' = mstate /\ rows' = mrows /\ trips' = FinalTrips
      /\ mtrips' = FinalTrips /\ candidates' = {} /\ active' = {}
      /\ running' = FALSE
      /\ punctual' = punctual \ DOMAIN mrows
      /\ UNCHANGED <<now, raw, todo, mstate, mrows, faults>>
      /\ todo = {}
  BY DEF Apply
<1>2. FinalTrips \in Seq(Trip) /\ Sound(mstate, FinalTrips, mrows, {})
  BY FinalIsSound
<1>3. TypeOK'
  <2>1. TypeOK
    BY DEF IInv
  <2>2. now' \in Nat /\ raw' \subseteq Times /\ punctual' \subseteq raw'
    BY <1>1, <2>1 DEF TypeOK
  <2>3. {state', mstate'} \subseteq Detection /\ {trips', mtrips'} \subseteq Seq(Trip)
    BY <1>1, <1>2, <2>1 DEF TypeOK
  <2>4. /\ rows' \in [DOMAIN rows' -> Rejected \cup Classes] /\ DOMAIN rows' \subseteq raw'
        /\ mrows' \in [DOMAIN mrows' -> Rejected \cup Classes] /\ DOMAIN mrows' \subseteq raw'
    BY <1>1, <2>1 DEF TypeOK
  <2>5. running' \in BOOLEAN
    BY <1>1
  <2>6. /\ todo' \subseteq raw' \ DOMAIN mrows'
        /\ candidates' \cup active' \subseteq Accepted(mrows')
        /\ faults' \in 0 .. MaxFaults
    BY <1>1, <2>1 DEF TypeOK
  <2> QED BY <2>2, <2>3, <2>4, <2>5, <2>6 DEF TypeOK
<1>4. Sound(state', trips', rows', {}) /\ Sound(mstate', mtrips', mrows', active')
  BY <1>1, <1>2
<1>5. InCycle'
  <2>1. Later(state', trips', mstate', mtrips')
    BY <1>1, OldKept DEF Later
  <2> QED BY <1>1, <2>1 DEF InCycle, InHand, Ahead
<1>6. InTime'
  <2>1. Boundary' = Boundary
    BY <1>1 DEF Boundary
  <2> QED BY <1>1, <2>1 DEF IInv, InTime
<1> QED BY <1>3, <1>4, <1>5, <1>6 DEF IInv

\* A cycle starts from the tables, or fails and leaves them: the copy is theirs.
LEMMA FromTables ==
  ASSUME IInv, mstate' = state, mrows' = rows, mtrips' = trips,
         candidates' = {}, active' = {},
         UNCHANGED <<now, raw, state, rows, trips>>,
         punctual' \subseteq punctual,
         running' \in BOOLEAN, faults' \in 0 .. MaxFaults,
         todo' \subseteq raw \ DOMAIN rows,
         \A u \in todo' : u < Boundary,
         \A p \in punctual' : p \notin todo' => \A u \in todo' : u < p
  PROVE  IInv'
<1>1. TypeOK'
  <2>1. TypeOK
    BY DEF IInv
  <2>2. now' \in Nat /\ raw' \subseteq Times /\ punctual' \subseteq raw'
    BY <2>1 DEF TypeOK
  <2>3. {state', mstate'} \subseteq Detection /\ {trips', mtrips'} \subseteq Seq(Trip)
    BY <2>1 DEF TypeOK
  <2>4. /\ rows' \in [DOMAIN rows' -> Rejected \cup Classes] /\ DOMAIN rows' \subseteq raw'
        /\ mrows' \in [DOMAIN mrows' -> Rejected \cup Classes] /\ DOMAIN mrows' \subseteq raw'
    BY <2>1 DEF TypeOK
  <2>5. /\ todo' \subseteq raw' \ DOMAIN mrows'
        /\ candidates' \cup active' \subseteq Accepted(mrows')
    BY <2>1 DEF TypeOK
  <2> QED BY <2>2, <2>3, <2>4, <2>5 DEF TypeOK
<1>2. Sound(state', trips', rows', {}) /\ Sound(mstate', mtrips', mrows', active')
  BY DEF IInv
<1>3. InCycle'
  <2>1. Later(state', trips', mstate', mtrips')
    BY OldKept DEF Later
  <2> QED BY <2>1 DEF InCycle, InHand, Ahead
<1>4. InTime'
  <2>1. Boundary' = Boundary
    BY DEF Boundary
  <2>2. Boundary \in Int
    BY DetectionAssumption, SMTT(30) DEF Boundary, IInv, TypeOK
  <2>3. state.last # 0 => state.last < Boundary
    BY <2>2, OldKept DEF IInv, InTime
  <2> QED BY <2>1, <2>3 DEF IInv, InTime
<1> QED BY <1>1, <1>2, <1>3, <1>4 DEF IInv

LEMMA AbortPreserves ==
  ASSUME IInv, Abort
  PROVE  IInv'
<1>1. /\ mstate' = state /\ mrows' = rows /\ mtrips' = trips
      /\ candidates' = {} /\ active' = {} /\ todo' = {}
      /\ UNCHANGED <<now, raw, state, rows, trips, punctual>>
      /\ running' = FALSE /\ faults < MaxFaults /\ faults' = faults + 1
  BY DEF Abort, arrivals, database
<1>2. faults' \in 0 .. MaxFaults
  BY <1>1, DetectionAssumption, SMTT(30) DEF IInv, TypeOK
<1>3. running' \in BOOLEAN
  BY <1>1
<1> QED BY <1>1, <1>2, <1>3, FromTables

LEMMA BeginCyclePreserves ==
  ASSUME IInv, BeginCycle
  PROVE  IInv'
<1>1. /\ mstate' = state /\ mrows' = rows /\ mtrips' = trips
      /\ candidates' = {} /\ active' = {}
      /\ todo' = {t \in Unprocessed : From <= t /\ t < Boundary}
      /\ punctual' = punctual \cap WithinLookback
      /\ UNCHANGED <<now, raw, state, rows, trips, faults>>
      /\ running' = TRUE
  BY DEF BeginCycle, database
<1>2. /\ faults' \in 0 .. MaxFaults /\ punctual \subseteq raw
      /\ raw \subseteq Int /\ state.last \in Nat /\ Boundary \in Int
  <2>1. faults' \in 0 .. MaxFaults /\ punctual \subseteq raw /\ now \in Nat
    BY <1>1 DEF IInv, TypeOK
  <2>2. raw \subseteq Int /\ state.last \in Nat
    BY Elements DEF IInv
  <2>3. Boundary \in Int
    BY <2>1, DetectionAssumption DEF Boundary
  <2> QED BY <2>1, <2>2, <2>3
<1>3. running' \in BOOLEAN
  BY <1>1
<1>4. todo' \subseteq raw \ DOMAIN rows /\ \A u \in todo' : u < Boundary
  BY <1>1 DEF Unprocessed
<1>5. ASSUME NEW p \in punctual', p \notin todo' PROVE \A u \in todo' : u < p
  <2>1. p \in raw /\ p \notin DOMAIN rows /\ p > state.last /\ p \in WithinLookback
    BY <1>1, <1>2 DEF IInv, InTime
  <2>2. From <= p
    <3>1. CASE state.last = 0
      BY <2>1, <3>1 DEF WithinLookback
    <3>2. CASE state.last # 0
      BY <2>1, <3>2, <1>2, DetectionAssumption DEF From
    <3> QED BY <3>1, <3>2
  <2>3. ~ (p < Boundary)
    BY <1>1, <1>5, <2>1, <2>2 DEF Unprocessed
  <2> QED BY <1>2, <1>4, <2>1, <2>3
<1> QED BY <1>1, <1>2, <1>3, <1>4, <1>5, FromTables

\* A point that arrives in time is not behind the boundary.
LEMMA ArrivePreserves ==
  ASSUME IInv, NEW t \in Times, Arrive(t)
  PROVE  IInv'
<1>1. /\ t <= now /\ t \notin raw /\ raw' = raw \cup {t}
      /\ punctual' = IF now <= t + LateWindow THEN punctual \cup {t} ELSE punctual
      /\ UNCHANGED <<now, state, rows, trips, running, todo, mstate, mrows, mtrips,
                     candidates, active, faults>>
  BY DEF Arrive, database, memory
<1>2. /\ TypeOK /\ now \in Nat /\ t \in Int /\ t > 0 /\ LateWindow \in Nat
      /\ raw \subseteq Int /\ todo \subseteq raw
  <2>1. TypeOK
    BY DEF IInv
  <2>2. now \in Nat
    BY <2>1 DEF TypeOK
  <2>3. t \in Int /\ t > 0 /\ LateWindow \in Nat
    BY DetectionAssumption DEF Times
  <2>4. raw \subseteq Int /\ todo \subseteq raw
    BY <2>1, Elements
  <2> QED BY <2>1, <2>2, <2>3, <2>4
<1>3. TypeOK'
  <2>1. now' \in Nat /\ raw' \subseteq Times /\ punctual' \subseteq raw'
    BY <1>1, <1>2 DEF TypeOK
  <2>2. {state', mstate'} \subseteq Detection /\ {trips', mtrips'} \subseteq Seq(Trip)
    BY <1>1, <1>2 DEF TypeOK
  <2>3. /\ rows' \in [DOMAIN rows' -> Rejected \cup Classes] /\ DOMAIN rows' \subseteq raw'
        /\ mrows' \in [DOMAIN mrows' -> Rejected \cup Classes] /\ DOMAIN mrows' \subseteq raw'
    BY <1>1, <1>2 DEF TypeOK
  <2>4. running' \in BOOLEAN
    BY <1>1, <1>2 DEF TypeOK
  <2>5. /\ todo' \subseteq raw' \ DOMAIN mrows'
        /\ candidates' \cup active' \subseteq Accepted(mrows')
        /\ faults' \in 0 .. MaxFaults
    BY <1>1, <1>2 DEF TypeOK
  <2> QED BY <2>1, <2>2, <2>3, <2>4, <2>5 DEF TypeOK
<1>4. Sound(state', trips', rows', {}) /\ Sound(mstate', mtrips', mrows', active')
  BY <1>1 DEF IInv
<1>5. InCycle'
  BY <1>1 DEF IInv, InCycle, InHand, Ahead
<1>6. InTime'
  <2>1. Boundary' = Boundary /\ Boundary \in Int
    BY <1>1, <1>2 DEF Boundary
  <2>2. ASSUME now <= t + LateWindow
        PROVE  /\ t \notin DOMAIN rows /\ t \notin DOMAIN mrows
               /\ t > state.last /\ t > mstate.last /\ \A u \in todo : u < t
    <3>1. Boundary <= t
      BY <1>2, <2>2 DEF Boundary
    <3>2. t \notin DOMAIN rows /\ t \notin DOMAIN mrows
      BY <1>1, <1>2 DEF TypeOK
    <3>3. t > mstate.last
      BY <1>2, <2>1, <3>1, OldKept DEF IInv, InTime
    <3>4. t > state.last
      BY <1>2, <3>3, OldKept
    <3>5. \A u \in todo : u < t
      BY <1>2, <2>1, <3>1 DEF IInv, InTime
    <3> QED BY <3>2, <3>3, <3>4, <3>5
  <2> QED BY <1>1, <2>1, <2>2 DEF IInv, InTime
<1> QED BY <1>3, <1>4, <1>5, <1>6 DEF IInv

LEMMA TickPreserves ==
  ASSUME IInv, Tick
  PROVE  IInv'
<1>1. /\ now' = now + 1
      /\ UNCHANGED <<raw, punctual, state, rows, trips, running, todo, mstate, mrows, mtrips,
                     candidates, active, faults>>
  BY DEF Tick, database, memory
<1>2. TypeOK /\ now \in Nat /\ LateWindow \in Nat
  BY DetectionAssumption DEF IInv, TypeOK
<1>3. TypeOK'
  BY <1>1, <1>2 DEF TypeOK
<1>4. Sound(state', trips', rows', {}) /\ Sound(mstate', mtrips', mrows', active')
  BY <1>1 DEF IInv
<1>5. InCycle'
  BY <1>1 DEF IInv, InCycle, InHand, Ahead
<1>6. InTime'
  <2>1. Boundary' = Boundary + 1 /\ Boundary \in Int
    BY <1>1, <1>2 DEF Boundary
  <2>2. mstate.last \in Int /\ todo \subseteq Int
    BY <1>2, Elements
  <2>3. mstate'.last # 0 => mstate'.last < Boundary'
    BY <1>1, <2>1, <2>2 DEF IInv, InTime
  <2>4. \A u \in todo' : u < Boundary'
    BY <1>1, <2>1, <2>2 DEF IInv, InTime
  <2> QED BY <1>1, <2>3, <2>4 DEF IInv, InTime
<1> QED BY <1>3, <1>4, <1>5, <1>6 DEF IInv

-----------------------------------------------------------------------------
(***************************************************************************)
(* The invariant, and what it gives.                                       *)
(***************************************************************************)
LEMMA InitEstablishes ==
  ASSUME Init
  PROVE  IInv
<1>1. NoState \in Detection
  BY DetectionAssumption DEF NoState, Detection, States
<1>2. NoState.state = "IDLE" /\ NoState.trip = 0 /\ NoState.last = 0
  BY DEF NoState
<1>3. << >> \in Seq(Trip) /\ DOMAIN << >> = {}
  OBVIOUS
<1>4. Accepted(<< >>) = {}
  BY <1>3 DEF Accepted
<1>5. << >> \in [DOMAIN << >> -> Rejected \cup Classes]
  BY <1>3
<1>6. TypeOK
  <2>1. now \in Nat /\ raw \subseteq Times /\ punctual \subseteq raw
    BY DEF Init
  <2>2. {state, mstate} \subseteq Detection /\ {trips, mtrips} \subseteq Seq(Trip)
    BY <1>1, <1>3 DEF Init
  <2>3. /\ rows \in [DOMAIN rows -> Rejected \cup Classes] /\ DOMAIN rows \subseteq raw
        /\ mrows \in [DOMAIN mrows -> Rejected \cup Classes] /\ DOMAIN mrows \subseteq raw
    BY <1>3, <1>5 DEF Init
  <2>4. running \in BOOLEAN /\ todo \subseteq raw \ DOMAIN mrows
    BY DEF Init
  <2>5. candidates \cup active \subseteq Accepted(mrows) /\ faults \in 0 .. MaxFaults
    BY DetectionAssumption DEF Init
  <2> QED BY <2>1, <2>2, <2>3, <2>4, <2>5 DEF TypeOK
<1>7. Sound(NoState, << >>, << >>, {})
  BY <1>2, <1>3, <1>4
     DEF Sound, TripIsOpen, RowIsTimed, TripsAreTimed, Ordered, Complete
<1>8. InCycle /\ InTime
  BY <1>2, <1>3 DEF Init, InCycle, Later, InHand, Ahead, InTime
<1> QED BY <1>6, <1>7, <1>8 DEF Init, IInv

LEMMA NextPreserves ==
  ASSUME IInv, [Next]_vars
  PROVE  IInv'
<1>1. CASE Tick
  BY <1>1, TickPreserves
<1>2. CASE \E t \in Times : Arrive(t)
  BY <1>2, ArrivePreserves
<1>3. CASE BeginCycle
  BY <1>3, BeginCyclePreserves
<1>4. ASSUME NEW t \in todo, Step(t)
      PROVE  IInv'
  <2>1. CASE Reject(t)
    BY <2>1, RejectPreserves
  <2>2. ASSUME NEW v \in Verdicts(t), Process(t, v)
        PROVE  IInv'
    <3>1. CASE Idle(t, v)
      BY <3>1, IdlePreserves
    <3>2. CASE Abandon(t, v)
      BY <3>2, AbandonPreserves
    <3>3. CASE Continue(t, v)
      BY <3>3, ContinuePreserves
    <3>4. CASE Confirm(t, v)
      BY <3>4, ConfirmPreserves
    <3>5. CASE EndBySilence(t, v)
      BY <3>5, EndBySilencePreserves
    <3>6. CASE Pause(t, v)
      BY <3>6, PausePreserves
    <3>7. CASE Travel(t, v) \/ Resume(t, v)
      BY <3>7, TravelPreserves
    <3>8. CASE EndByStop(t, v)
      BY <3>8, EndByStopPreserves
    <3>9. CASE Wait(t, v)
      BY <3>9, WaitPreserves
    <3> QED BY <2>2, <3>1, <3>2, <3>3, <3>4, <3>5, <3>6, <3>7, <3>8, <3>9 DEF Process
  <2> QED BY <1>4, <2>1, <2>2 DEF Step
<1>5. CASE Apply
  BY <1>5, ApplyPreserves
<1>6. CASE Abort
  BY <1>6, AbortPreserves
<1>7. CASE UNCHANGED vars
  <2>1. UNCHANGED <<now, raw, punctual, state, rows, trips, running, todo, mstate, mrows, mtrips,
                    candidates, active, faults>>
    BY <1>7 DEF vars, arrivals, database, memory
  <2>2. TypeOK'
    BY <2>1 DEF IInv, TypeOK
  <2>3. InCycle' /\ InTime'
    BY <2>1 DEF IInv, InCycle, InHand, Ahead, InTime, Boundary
  <2> QED BY <2>1, <2>2, <2>3 DEF IInv
<1> QED BY <1>1, <1>2, <1>3, <1>4, <1>5, <1>6, <1>7 DEF Next

(***************************************************************************)
(* The tables and the copy a cycle works on are sound after every step.    *)
(***************************************************************************)
THEOREM DetectionIsSound == Spec => []IInv
<1>1. Init => IInv
  BY InitEstablishes
<1>2. IInv /\ [Next]_vars => IInv'
  BY NextPreserves
<1> QED BY <1>1, <1>2, PTL DEF Spec

(***************************************************************************)
(* Type correctness: rows and batches name raw points only, a point of a   *)
(* cycle is not processed twice, the points a batch holds are accepted.    *)
(***************************************************************************)
THEOREM DetectionTypes == Spec => []TypeOK
<1>1. IInv => TypeOK
  BY DEF IInv
<1> QED BY <1>1, DetectionIsSound, PTL

(***************************************************************************)
(* After any crash or failed transaction the one trip that is TRIP_ACTIVE  *)
(* is the detection row's, which has one exactly in a trip's states.       *)
(***************************************************************************)
THEOREM OneTripIsActive == Spec => []OneActiveTrip
<1>1. ASSUME IInv PROVE OneActiveTrip
  <2>1. TripIsOpen(state, trips)
    BY <1>1 DEF IInv, Sound
  <2>2. 0 \notin DOMAIN trips
    BY <1>1, Elements DEF IInv
  <2>3. Open(trips) = {state.trip} \ {0}
    BY <2>1, <2>2 DEF TripIsOpen, Open
  <2> QED BY <2>1, <2>3 DEF OneActiveTrip, TripIsOpen
<1> QED BY <1>1, DetectionIsSound, PTL

(***************************************************************************)
(* Trips follow each other and share no point; none ends before it begins, *)
(* in the tables or in a batch.                                            *)
(***************************************************************************)
THEOREM TripsStayApart == Spec => []TripsAreDisjoint
<1>1. ASSUME IInv PROVE TripsAreDisjoint
  <2>1. Ordered(trips)
    BY <1>1 DEF IInv, Sound
  <2>2. TripsAreTimed(mstate, mtrips, mrows)
    BY <1>1, OldKept
  <2> QED BY <2>1, <2>2 DEF TripsAreDisjoint, Ordered, TripsAreTimed
<1> QED BY <1>1, DetectionIsSound, PTL

(***************************************************************************)
(* Backfill and flush lose nothing: a trip has every accepted point up to  *)
(* its confirmation, and after a commit the last point of the active trip. *)
(***************************************************************************)
THEOREM PointsReachTheirTrip == Spec => []TripsKeepTheirPoints
<1>1. ASSUME IInv PROVE TripsKeepTheirPoints
  <2>1. Complete(state, trips, rows, {})
    BY <1>1 DEF IInv, Sound
  <2> QED BY <2>1 DEF TripsKeepTheirPoints, Complete
<1> QED BY <1>1, DetectionIsSound, PTL

(***************************************************************************)
(* A point that arrives within the late-arrival window is never refused as *)
(* late, however cycles are cut and whatever fails in between.             *)
(***************************************************************************)
THEOREM PunctualPointsAreKept == Spec => []PunctualIsNotLate
<1>1. ASSUME IInv PROVE PunctualIsNotLate
  BY <1>1 DEF IInv, InTime, PunctualIsNotLate
<1> QED BY <1>1, DetectionIsSound, PTL

(***************************************************************************)
(* Completed trips and the checkpoint are final.                           *)
(***************************************************************************)
THEOREM CompletedTripsStay == Spec => HistoryIsFinal
<1>1. ASSUME IInv, [Next]_vars PROVE [HistoryStays]_vars
  <2>1. CASE Apply
    <3>1. Later(state, trips, mstate, FinalTrips)
      BY <1>1, FinalIsSound
    <3>2. state' = mstate /\ trips' = FinalTrips
      BY <2>1 DEF Apply
    <3>3. state.last \in Nat /\ mstate.last \in Nat
      BY <1>1, OldKept
    <3> QED BY <3>1, <3>2, <3>3 DEF HistoryStays, Later
  <2>2. CASE UNCHANGED database
    <3>1. state' = state /\ trips' = trips
      BY <2>2 DEF database
    <3>2. state.last \in Nat
      BY <1>1, OldKept
    <3> QED BY <3>1, <3>2 DEF HistoryStays
  <2>3. CASE UNCHANGED vars
    BY <2>3
  <2>4. (\E t \in todo : Step(t)) => UNCHANGED database
    <3> SUFFICES ASSUME NEW t \in todo, Step(t) PROVE UNCHANGED database
      OBVIOUS
    <3>1. CASE Reject(t)
      BY <3>1 DEF Reject, Take
    <3>2. ASSUME NEW v \in Verdicts(t), Process(t, v) PROVE UNCHANGED database
      BY <3>2 DEF Process, Idle, Abandon, Continue, Confirm, EndBySilence, Pause, Travel,
                  Resume, EndByStop, Wait, Motion, Accept, Take
    <3> QED BY <3>1, <3>2 DEF Step
  <2>5. (\E t \in Times : Arrive(t)) => UNCHANGED database
    BY DEF Arrive
  <2>6. Tick \/ BeginCycle \/ Abort => UNCHANGED database
    BY DEF Tick, BeginCycle, Abort
  <2> QED BY <1>1, <2>1, <2>2, <2>3, <2>4, <2>5, <2>6 DEF Next
<1>2. IInv /\ [Next]_vars => [HistoryStays]_vars
  BY <1>1
<1> QED BY <1>2, DetectionIsSound, PTL DEF Spec, HistoryIsFinal
=============================================================================
