---------------------------- MODULE TripDetection ----------------------------
(***************************************************************************)
(* The worker's trip detection job for one (user_id, device_id) pair: raw  *)
(* points arrive in any order, a cycle loads the detection state and the   *)
(* unprocessed points behind the late-arrival watermark, runs each of them *)
(* through the noise pipeline and the state machine of ProcessBatch, and   *)
(* applies the result in one transaction, which may fail.  The worker may  *)
(* crash at any point of a cycle.                                          *)
(*                                                                         *)
(* A point is its recorded_at.  Of the noise pipeline only the verdicts    *)
(* are kept, with what ties them to each other (Verdicts).                 *)
(***************************************************************************)
EXTENDS Integers, Sequences, FiniteSets

CONSTANTS
  MaxTime,            \* bound: recorded_at and the clock
  LateWindow,         \* LateArrivalWindowSec (45)
  Lookback,           \* maxLookback (24 h)
  MotionMinDuration,  \* MotionMinDurationSec (45)
  MotionMinPoints,    \* MotionMinGoodPoints (3)
  StopMinDuration,    \* StopMinDurationSec (180)
  StationaryWindow,   \* StationaryWindowSec (60)
  SegmentMaxGap,      \* SegmentMaxGapSec (120)
  MaxPoints,          \* bound: raw points
  MaxDelay,           \* bound: how long after recorded_at a point may arrive
  MaxFaults           \* bound: crashes and failed transactions

ASSUME DetectionAssumption ==
  /\ {MaxTime, LateWindow, StationaryWindow, SegmentMaxGap, MaxPoints,
      MaxDelay, MaxFaults} \subseteq Nat
  /\ {Lookback, MotionMinDuration, MotionMinPoints, StopMinDuration} \subseteq Nat \ {0}

VARIABLES
  now, raw,     \* the clock, raw_location_points
  punctual,     \* history: points without a row that arrived no later than
                \* LateWindow, not behind the lookback of the first cycle
  state,        \* trip_detection_state
  rows,         \* processed_location_points: the class of each row
  trips,        \* trips with their trip_points
  running,      \* a cycle is under way
  todo,         \* its points not yet processed
  mstate, mrows, mtrips,  \* what its transaction will leave in the tables
  candidates, active,     \* candidatePoints and activePoints
  faults

arrivals == <<now, raw, punctual>>
database == <<state, rows, trips>>
memory == <<mstate, mrows, mtrips, candidates, active>>
vars == <<arrivals, database, running, todo, memory, faults>>

Times == 1 .. MaxTime
States == {"IDLE", "MOTION_CANDIDATE", "TRIP_ACTIVE", "STOP_CANDIDATE"}

\* Why a row was not accepted, or what an accepted one shows: movement
\* evidence, a stationary window, or neither.
Rejected == {"late_arrival", "noise"}
Classes == {"moving", "still", "plain"}

\* 0 stands for null.  far: the candidate's distance reached MotionMinDistanceM.
Detection == [state : States, trip : Nat, candidate : 0 .. MaxTime, far : BOOLEAN,
              good : Nat, stop : 0 .. MaxTime, last : 0 .. MaxTime]

\* ended is 0 while the trip is TRIP_ACTIVE; born is the confirming point.
Trip == [started : Times, born : Times, ended : 0 .. MaxTime, points : SUBSET Times]

Accepted(r) == {t \in DOMAIN r : r[t] \in Classes}

TypeOK ==
  /\ now \in Nat /\ raw \subseteq Times /\ punctual \subseteq raw
  /\ {state, mstate} \subseteq Detection
  /\ {trips, mtrips} \subseteq Seq(Trip)
  /\ rows \in [DOMAIN rows -> Rejected \cup Classes] /\ DOMAIN rows \subseteq raw
  /\ mrows \in [DOMAIN mrows -> Rejected \cup Classes] /\ DOMAIN mrows \subseteq raw
  /\ running \in BOOLEAN /\ todo \subseteq raw \ DOMAIN mrows
  /\ candidates \cup active \subseteq Accepted(mrows)
  /\ faults \in 0 .. MaxFaults

\* LoadState of a pair without a row.
NoState == [state |-> "IDLE", trip |-> 0, candidate |-> 0, far |-> FALSE, good |-> 0,
            stop |-> 0, last |-> 0]

Init ==
  /\ now = 0 /\ raw = {} /\ punctual = {}
  /\ state = NoState /\ rows = << >> /\ trips = << >>
  /\ running = FALSE /\ todo = {}
  /\ mstate = NoState /\ mrows = << >> /\ mtrips = << >>
  /\ candidates = {} /\ active = {}
  /\ faults = 0

-----------------------------------------------------------------------------
\* The clock: until every point may have passed the watermark.
Tick ==
  /\ now <= MaxTime + LateWindow
  /\ now' = now + 1
  /\ UNCHANGED <<raw, punctual, database, running, todo, memory, faults>>

\* The consumer inserts a raw point, at any time after it was recorded.
Arrive(t) ==
  /\ t <= now /\ now <= t + MaxDelay /\ t \notin raw
  /\ Cardinality(raw) < MaxPoints
  /\ raw' = raw \cup {t}
  /\ punctual' = IF now <= t + LateWindow THEN punctual \cup {t} ELSE punctual
  /\ UNCHANGED <<now, database, running, todo, memory, faults>>

(***************************************************************************)
(* The start of a cycle: the pair has a point before the boundary that is  *)
(* unprocessed and not older than the state allows, and processPair loads. *)
(***************************************************************************)
\* Faulty variant: processed points are selected again.
AllRaw == raw

Unprocessed == raw \ DOMAIN rows
Boundary == now - LateWindow

PairIsLoaded ==
  \E t \in Unprocessed : t < Boundary /\ (state.last = 0 \/ t >= state.last - LateWindow)

From == IF state.last # 0 THEN state.last - LateWindow ELSE Boundary - Lookback

WithinLookback == {t \in Times : state.last = 0 => From <= t}

\* Faulty variant: the late-arrival window is not waited for.
BeginCycleEagerly ==
  /\ ~ running /\ PairIsLoaded
  /\ running' = TRUE
  /\ todo' = {t \in Unprocessed : From <= t /\ t <= now}
  /\ mstate' = state /\ mrows' = rows /\ mtrips' = trips
  /\ candidates' = {} /\ active' = {}
  /\ punctual' = punctual \cap WithinLookback
  /\ UNCHANGED <<now, raw, database, faults>>

BeginCycle ==
  /\ ~ running /\ PairIsLoaded
  /\ running' = TRUE
  /\ todo' = {t \in Unprocessed : From <= t /\ t < Boundary}
  /\ mstate' = state /\ mrows' = rows /\ mtrips' = trips
  /\ candidates' = {} /\ active' = {}
  /\ punctual' = punctual \cap WithinLookback
  /\ UNCHANGED <<now, raw, database, faults>>

-----------------------------------------------------------------------------
(***************************************************************************)
(* The noise pipeline's verdict on t, the next point in recorded_at order. *)
(* Evidence of movement needs a distance, hence an accepted point no more  *)
(* than SegmentMaxGap before.  A stationary point lies in a window that    *)
(* starts at an accepted point, holds no movement (its speeds are below    *)
(* the movement speed, its activities none) and has marked the batch's own *)
(* points stationary.  far: the distance gained completes the minimum;     *)
(* away: the point is farther than StopRadiusM from the stop's centre.     *)
(***************************************************************************)
\* Faulty variant: movement does not disqualify a window.
InAnyWindow(s, t) == s \in Accepted(mrows) \cup {t} /\ t - s <= StationaryWindow

InWindow(s, t) ==
  /\ s \in Accepted(mrows) \cup {t}
  /\ t - s <= StationaryWindow
  /\ \A u \in Accepted(mrows) :
       s <= u => mrows[u] # "moving" /\ (u \notin DOMAIN rows => mrows[u] = "still")

Verdict(class, since, far, away) == [class |-> class, since |-> since, far |-> far, away |-> away]

Verdicts(t) ==
  {Verdict("plain", 0, FALSE, away) : away \in BOOLEAN}
    \cup {Verdict("moving", 0, far, away) : far, away \in
            IF mstate.last # 0 /\ t - mstate.last <= SegmentMaxGap THEN BOOLEAN ELSE {}}
    \cup {Verdict("still", s, FALSE, FALSE) : s \in {s \in Times : InWindow(s, t)}}

Gap(t) == mstate.last # 0 /\ t - mstate.last > StopMinDuration

\* t is taken from the batch; its row has the class c.
Take(t, c) ==
  /\ running /\ t \in todo /\ \A u \in todo : t <= u
  /\ todo' = todo \ {t}
  /\ mrows' = [u \in DOMAIN mrows \cup {t} |-> IF u = t THEN c ELSE mrows[u]]
  /\ UNCHANGED <<arrivals, database, running, faults>>

\* Not after LastProcessedAt, or refused by the validator or as an outlier.
Reject(t) ==
  /\ Take(t, IF t <= state.last THEN "late_arrival" ELSE "noise")
  /\ UNCHANGED <<mstate, mtrips, candidates, active>>

Accept(t, v, status) ==
  /\ t > state.last
  /\ Take(t, v.class)
  /\ mstate.state = status

Goes(t, s) == mstate' = [s EXCEPT !.last = t]

\* startCandidate and resetCandidate
StartCandidate(s, t) ==
  [s EXCEPT !.state = "MOTION_CANDIDATE", !.candidate = t, !.far = FALSE, !.good = 1]

ResetCandidate(s) ==
  [s EXCEPT !.state = IF s.state = "MOTION_CANDIDATE" THEN "IDLE" ELSE s.state,
            !.candidate = 0, !.far = FALSE, !.good = 0]

\* The state after s at t: a moving point opens a candidate.
Evaluate(s, t, v) == IF v.class = "moving" THEN StartCandidate(s, t) ELSE s
Opens(t, v) == IF v.class = "moving" THEN {t} ELSE {}

Idle(t, v) ==
  /\ Accept(t, v, "IDLE")
  /\ Goes(t, Evaluate(mstate, t, v))
  /\ candidates' = candidates \cup Opens(t, v)
  /\ UNCHANGED <<mtrips, active>>

-----------------------------------------------------------------------------
\* MOTION_CANDIDATE: abandoned, continued or confirmed.
Abandon(t, v) ==
  /\ Accept(t, v, "MOTION_CANDIDATE")
  /\ v.class = "still" \/ Gap(t)
  /\ Goes(t, Evaluate(ResetCandidate(mstate), t, v))
  /\ candidates' = Opens(t, v)
  /\ UNCHANGED <<mtrips, active>>

Counted(v) == [mstate EXCEPT !.far = mstate.far \/ v.far,
                             !.good = IF v.class = "moving" THEN mstate.good + 1 ELSE mstate.good]

Confirmed(t, v) ==
  /\ t - mstate.candidate >= MotionMinDuration
  /\ Counted(v).far
  /\ Counted(v).good >= MotionMinPoints

Motion(t, v) ==
  /\ Accept(t, v, "MOTION_CANDIDATE")
  /\ v.class # "still" /\ ~ Gap(t)

Continue(t, v) ==
  /\ Motion(t, v) /\ ~ Confirmed(t, v)
  /\ Goes(t, Counted(v))
  /\ candidates' = candidates \cup {t}
  /\ UNCHANGED <<mtrips, active>>

\* Faulty variant: no backfill.
BackfillNothing(since, points) == {}

\* What backfillTripPoints adds: the accepted rows of earlier batches between
\* the candidate's start and the trip's first point of this batch.
Backfill(since, points) == {u \in Accepted(mrows) : since <= u /\ \A p \in points : u < p}

Confirm(t, v) ==
  /\ Motion(t, v) /\ Confirmed(t, v)
  /\ LET points == candidates \cup {t} IN
     mtrips' = Append(mtrips, [started |-> mstate.candidate, born |-> t, ended |-> 0,
                               points |-> points \cup Backfill(mstate.candidate, points)])
  /\ Goes(t, ResetCandidate([Counted(v) EXCEPT !.state = "TRIP_ACTIVE", !.trip = Len(mtrips) + 1]))
  /\ candidates' = {}
  /\ UNCHANGED active

-----------------------------------------------------------------------------
\* flushActive adds the batch's points to the trip; a complete command ends it.
Grown(trip, at) ==
  [started |-> trip.started, born |-> trip.born, ended |-> at, points |-> trip.points \cup active]

Flushed == [mtrips EXCEPT ![mstate.trip] = Grown(mtrips[mstate.trip], mtrips[mstate.trip].ended)]

\* Faulty variant of the next: the trip is not marked completed.
LeftOpen(at) == Flushed

Completed(at) == [mtrips EXCEPT ![mstate.trip] = Grown(mtrips[mstate.trip], at)]

\* Faulty variant: active_trip_id is not reset.
TripKept == [mstate EXCEPT !.state = "IDLE", !.stop = 0]

NoTrip == [mstate EXCEPT !.state = "IDLE", !.trip = 0, !.stop = 0]

\* Faulty variant: the trip is completed but stays the active one.
EndWithoutReset(t, v) ==
  /\ Accept(t, v, "TRIP_ACTIVE")
  /\ Gap(t)
  /\ mtrips' = Completed(mstate.last)
  /\ active' = {}
  /\ Goes(t, mstate)
  /\ UNCHANGED candidates

\* TRIP_ACTIVE: ended by a silence, paused, continued.
EndBySilence(t, v) ==
  /\ Accept(t, v, "TRIP_ACTIVE")
  /\ Gap(t)
  /\ mtrips' = Completed(mstate.last)
  /\ active' = {}
  /\ Goes(t, Evaluate(NoTrip, t, v))
  /\ candidates' = candidates \cup Opens(t, v)

Pause(t, v) ==
  /\ Accept(t, v, "TRIP_ACTIVE")
  /\ ~ Gap(t) /\ v.class = "still"
  /\ mtrips' = Flushed
  /\ active' = {}
  /\ Goes(t, [mstate EXCEPT !.state = "STOP_CANDIDATE", !.stop = v.since])
  /\ UNCHANGED candidates

Travel(t, v) ==
  /\ Accept(t, v, "TRIP_ACTIVE")
  /\ ~ Gap(t) /\ v.class # "still"
  /\ active' = active \cup {t}
  /\ Goes(t, mstate)
  /\ UNCHANGED <<mtrips, candidates>>

\* STOP_CANDIDATE: the trip resumes, ends, or the stop goes on.
Leaves(v) == v.class # "still" /\ v.away

Resume(t, v) ==
  /\ Accept(t, v, "STOP_CANDIDATE")
  /\ Leaves(v)
  /\ active' = active \cup {t}
  /\ Goes(t, [mstate EXCEPT !.state = "TRIP_ACTIVE", !.stop = 0])
  /\ UNCHANGED <<mtrips, candidates>>

EndByStop(t, v) ==
  /\ Accept(t, v, "STOP_CANDIDATE")
  /\ ~ Leaves(v) /\ t - mstate.stop >= StopMinDuration
  /\ mtrips' = Completed(mstate.stop)
  /\ Goes(t, NoTrip)
  /\ UNCHANGED <<candidates, active>>

Wait(t, v) ==
  /\ Accept(t, v, "STOP_CANDIDATE")
  /\ ~ Leaves(v) /\ t - mstate.stop < StopMinDuration
  /\ Goes(t, mstate)
  /\ UNCHANGED <<mtrips, candidates, active>>

-----------------------------------------------------------------------------
(***************************************************************************)
(* The end of a cycle.  Outside a cycle memory mirrors the tables.         *)
(***************************************************************************)
\* Faulty variant: the last flush is forgotten.
Unflushed == mtrips

FinalTrips == IF mstate.state = "TRIP_ACTIVE" THEN Flushed ELSE mtrips

\* ApplyBatch commits.
Apply ==
  /\ running /\ todo = {}
  /\ state' = mstate /\ rows' = mrows /\ trips' = FinalTrips
  /\ running' = FALSE /\ mtrips' = FinalTrips
  /\ candidates' = {} /\ active' = {}
  /\ punctual' = punctual \ DOMAIN mrows
  /\ UNCHANGED <<now, raw, todo, mstate, mrows, faults>>

\* A query or the transaction fails, or the worker crashes: nothing is left.
Abort ==
  /\ running /\ faults < MaxFaults
  /\ faults' = faults + 1
  /\ running' = FALSE /\ todo' = {}
  /\ mstate' = state /\ mrows' = rows /\ mtrips' = trips
  /\ candidates' = {} /\ active' = {}
  /\ UNCHANGED <<arrivals, database>>

Process(t, v) ==
  \/ Idle(t, v) \/ Abandon(t, v) \/ Continue(t, v) \/ Confirm(t, v)
  \/ EndBySilence(t, v) \/ Pause(t, v) \/ Travel(t, v)
  \/ Resume(t, v) \/ EndByStop(t, v) \/ Wait(t, v)

Step(t) == Reject(t) \/ \E v \in Verdicts(t) : Process(t, v)

Next ==
  \/ Tick \/ (\E t \in Times : Arrive(t)) \/ BeginCycle
  \/ (\E t \in todo : Step(t)) \/ Apply \/ Abort

Spec == Init /\ [][Next]_vars

-----------------------------------------------------------------------------
Open(tr) == {i \in DOMAIN tr : tr[i].ended = 0}

(***************************************************************************)
(* The detection row and the trips table agree after any crash or failed   *)
(* transaction: the one trip that is TRIP_ACTIVE, if any, is the row's     *)
(* active_trip_id, and the row has one exactly in the states of a trip.    *)
(***************************************************************************)
OneActiveTrip ==
  /\ Open(trips) = {state.trip} \ {0}
  /\ state.trip # 0 <=> state.state \in {"TRIP_ACTIVE", "STOP_CANDIDATE"}

(***************************************************************************)
(* The trips of a device follow each other, only the last may be active,   *)
(* and no point belongs to two: neither the backdated end of a stop nor    *)
(* the backfill of a candidate reaches into another trip, or before the    *)
(* trip's own start (the table's CHECK on duration_sec would make          *)
(* ApplyBatch fail in every later cycle of the pair).                      *)
(***************************************************************************)
TripsAreDisjoint ==
  /\ \A i \in DOMAIN mtrips : mtrips[i].ended # 0 => mtrips[i].ended > mtrips[i].started
  /\ \A i, j \in DOMAIN trips :
       i < j => /\ 0 < trips[i].ended /\ trips[i].ended < trips[j].started
                /\ \A p \in trips[i].points : p < trips[j].started

(***************************************************************************)
(* A trip holds every accepted point from the candidate's first to the one *)
(* that confirmed it, those of earlier batches and of batches before a     *)
(* crash included (candidatePoints and backfillTripPoints), and travelled  *)
(* points do not stay in a batch's memory: after a commit in TRIP_ACTIVE   *)
(* the last point processed is in the active trip, whichever branch took   *)
(* it and whatever the batch ended on (flushActive).                       *)
(***************************************************************************)
TripsKeepTheirPoints ==
  /\ \A i \in DOMAIN trips :
       \A p \in Accepted(rows) : trips[i].started <= p /\ p <= trips[i].born => p \in trips[i].points
  /\ state.state = "TRIP_ACTIVE" /\ state.last > trips[state.trip].born
       => state.last \in trips[state.trip].points

(***************************************************************************)
(* A point that arrives within the window is never refused as late: cycles *)
(* stay behind the watermark and take points in recorded_at order, so no   *)
(* later point was processed before it arrived (RunOnce, processPair).     *)
(***************************************************************************)
PunctualIsNotLate == \A t \in punctual \cap DOMAIN mrows : mrows[t] # "late_arrival"

(***************************************************************************)
(* A completed trip never changes, no trip is removed, and the checkpoint  *)
(* never goes back.                                                        *)
(***************************************************************************)
HistoryStays ==
  /\ state'.last >= state.last
  /\ \A i \in DOMAIN trips :
       i \in DOMAIN trips' /\ trips'[i].started = trips[i].started
                           /\ (trips[i].ended # 0 => trips'[i] = trips[i])

HistoryIsFinal == [][HistoryStays]_vars

(***************************************************************************)
(* trip_detection.go: a long silence ends the trip at the last known       *)
(* point; the late point starts a fresh evaluation instead of extending    *)
(* the trip.                                                               *)
(***************************************************************************)
SilenceEndsTrip ==
  \A i \in DOMAIN trips : \A t \in trips[i].points :
    t > trips[i].born =>
      \E u \in Accepted(rows) : u < t /\ t - u <= StopMinDuration
=============================================================================
