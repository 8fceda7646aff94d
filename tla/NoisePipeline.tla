---------------------------- MODULE NoisePipeline ----------------------------
(***************************************************************************)
(* The worker's noise pipeline as a function of its inputs: what one raw   *)
(* point becomes, given the accepted points before it, and how a           *)
(* stationary window rewrites the rows of its own batch.                   *)
(*                                                                         *)
(* A position is a place on a line, in metres, and a time is in seconds.   *)
(* A speed is a fraction of metres m over seconds s, so that comparing it  *)
(* with a ceiling is exact.  A filtered position is rounded to the metre.  *)
(***************************************************************************)
EXTENDS Integers, Sequences, FiniteSets, SequencesExt

CONSTANTS
  Noise,         \* domain.NoiseConfig: the fields the pipeline reads
  WeightUnit     \* a common multiple of the accuracies, for the weights

ASSUME NoiseAssumption ==
  /\ {Noise.SmoothingPoints, Noise.StationaryMinPoints, WeightUnit} \subseteq Nat \ {0}
  /\ {Noise.StationaryWindowSec, Noise.SegmentMaxGapSec} \subseteq Nat

NoSpeed == -1    \* the client reported no speed (SpeedMps is nil)

\* RawLocationPoint: a device's reading.
Reading(device, id, at, x, acc, speed, activity) ==
  [device |-> device, id |-> id, at |-> at, x |-> x, acc |-> acc, speed |-> speed, activity |-> activity]

\* ProcessedLocationPoint: the reading, the verdict, the filtered position and
\* the distance; IsStationary is reason = "stationary", IsOutlier "teleport".
Row(fix, accepted, reason, x, delta, implied) ==
  [fix |-> fix, accepted |-> accepted, reason |-> reason, x |-> x, delta |-> delta, implied |-> implied]

Ratio(m, s) == [m |-> m, s |-> s]
AtMost(speed, ceiling) == speed.m * ceiling.s <= ceiling.m * speed.s

Before(r, q) == r.at < q.at \/ (r.at = q.at /\ r.id < q.id)

HaversineM(x, y) == IF x < y THEN y - x ELSE x - y

Clamp(value, low, high) == Max({low, Min({high, value})})

\* The rows of a window ordered by time that are not older than the cutoff.
Trim(window, at, seconds) == SelectSeq(window, LAMBDA r : r.fix.at >= at - seconds)

-----------------------------------------------------------------------------
\* Validator.Validate: the reason to refuse the reading, if any.
Validate(fix) ==
  IF fix.acc < 0 THEN "invalid_point"
  ELSE IF fix.acc > Noise.GarbageAccuracyM THEN "garbage_accuracy"
  ELSE IF fix.acc > Noise.UsableAccuracyM THEN "poor_accuracy"
  ELSE ""

MaxSpeed(activity) ==
  CASE activity = "running" -> Noise.RunningMaxSpeedMps
    [] activity = "bicycle" -> Noise.BikeMaxSpeedMps
    [] activity = "vehicle" -> Noise.VehicleMaxSpeedMps
    [] OTHER -> Noise.WalkingMaxSpeedMps

\* The speed from the previous accepted point to the reading.
Implied(window, fix) ==
  IF window = << >> \/ fix.at <= Last(window).fix.at
  THEN Ratio(0, 1)
  ELSE Ratio(HaversineM(Last(window).fix.x, fix.x), fix.at - Last(window).fix.at)

\* SpeedOutlierDetector.Detect: too fast for the activity, and impossible even
\* for a vehicle or followed by a reading (next holds at most one) that snaps
\* back.
IsOutlier(window, fix, next) ==
  /\ window # << >>
  /\ \/ fix.at <= Last(window).fix.at
     \/ /\ ~ AtMost(Implied(window, fix), MaxSpeed(fix.activity))
        /\ \/ ~ AtMost(Implied(window, fix), Noise.VehicleMaxSpeedMps)
           \/ \E n \in next : HaversineM(Last(window).fix.x, n.x) < HaversineM(Last(window).fix.x, fix.x)

\* WeightedMovingAverage.Smooth: the average of the reading and the filtered
\* positions of the last few points, weighted by accuracy.
Weight(acc) == WeightUnit \div Max({acc, 1})

Recent(window) ==
  SubSeq(window, Max({1, Len(window) - Noise.SmoothingPoints + 2}), Len(window))

Smooth(window, fix) ==
  LET recent == Recent(window)
      total == FoldLeft(LAMBDA sum, r : sum + r.x * Weight(r.fix.acc), fix.x * Weight(fix.acc), recent)
      weight == FoldLeft(LAMBDA sum, r : sum + Weight(r.fix.acc), Weight(fix.acc), recent)
  IN total \div weight

-----------------------------------------------------------------------------
\* The last row that established a position, or else the previous one.
Anchor(window) ==
  LET i == SelectLastInSeq(window, LAMBDA r : r.reason \notin {"jitter", "stationary"}) IN
  IF i = 0 THEN Last(window) ELSE window[i]

JitterRadius(anchor, fix) ==
  Clamp((anchor.fix.acc + fix.acc) \div 2, Noise.NoiseMinRadiusM, Noise.NoiseMaxRadiusM)

\* The reading on the raw track: a break after a long gap, jitter, or a distance.
Measure(window, fix) ==
  LET moved == HaversineM(Anchor(window).fix.x, fix.x) IN
  IF window = << >> THEN [reason |-> "", delta |-> 0]
  ELSE IF fix.at - Last(window).fix.at > Noise.SegmentMaxGapSec
    THEN [reason |-> "segment_break", delta |-> 0]
  ELSE IF moved < JitterRadius(Anchor(window), fix)
    THEN [reason |-> "jitter", delta |-> 0]
  ELSE [reason |-> "", delta |-> moved]

SpeedOf(row) == IF row.fix.speed = NoSpeed THEN row.implied ELSE Ratio(row.fix.speed, 1)

\* WindowStationaryDetector.Detect
IsStationaryWindow(window) ==
  /\ Len(window) >= Noise.StationaryMinPoints
  /\ Last(window).fix.at - window[1].fix.at >= Noise.StationaryMinDurationSec
  /\ \A i \in DOMAIN window :
       /\ HaversineM(window[1].x, window[i].x) <= Noise.StationaryRadiusM
       /\ window[i].fix.activity \notin {"walking", "running"}
       /\ AtMost(SpeedOf(window[i]), Noise.StationaryMaxSpeedMps)

Still(row) == [row EXCEPT !.reason = "stationary", !.delta = 0]

Refused(fix, reason, implied) == Row(fix, FALSE, reason, 0, 0, implied)

Admitted(window, fix) ==
  LET measure == Measure(window, fix)
      smooth == Smooth(Trim(window, fix.at, Noise.SegmentMaxGapSec), fix)
      row == Row(fix, TRUE, measure.reason, smooth, measure.delta, Implied(window, fix))
  IN IF IsStationaryWindow(Trim(Append(window, row), fix.at, Noise.StationaryWindowSec))
     THEN Still(row) ELSE row

\* processOne: through is LastProcessedAt, 0 when there is none.
ProcessOne(window, fix, next, through) ==
  IF fix.at <= through THEN Refused(fix, "late_arrival", Ratio(0, 1))
  ELSE IF Validate(fix) # "" THEN Refused(fix, Validate(fix), Ratio(0, 1))
  ELSE IF IsOutlier(window, fix, next) THEN Refused(fix, "teleport", Implied(window, fix))
  ELSE Admitted(window, fix)

\* The window after the row, when it is accepted.
Slide(window, row) == Trim(Append(window, row), row.fix.at, Noise.StationaryWindowSec)

\* markStationaryWindow: the batch's accepted rows since the window's start are
\* stationary, when the row is.  The window itself keeps the rows it had.
MarkStationaryWindow(rows, row, since) ==
  [e \in DOMAIN rows |->
     IF row.reason = "stationary" /\ rows[e].accepted /\ rows[e].fix.at >= since
     THEN Still(rows[e]) ELSE rows[e]]
=============================================================================
