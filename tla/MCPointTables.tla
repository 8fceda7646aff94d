---------------------------- MODULE MCPointTables ----------------------------
(* The TLC runs of PointTables. *)
EXTENDS PointTables

\* DefaultNoiseConfig
Defaults ==
  [UsableAccuracyM |-> 50, GarbageAccuracyM |-> 100,
   WalkingMaxSpeedMps |-> Ratio(7, 2), RunningMaxSpeedMps |-> Ratio(7, 1),
   BikeMaxSpeedMps |-> Ratio(15, 1), VehicleMaxSpeedMps |-> Ratio(60, 1),
   NoiseMinRadiusM |-> 8, NoiseMaxRadiusM |-> 30, SmoothingPoints |-> 5,
   StationaryWindowSec |-> 60, StationaryMinDurationSec |-> 45, StationaryRadiusM |-> 35,
   StationaryMaxSpeedMps |-> Ratio(1, 2), StationaryMinPoints |-> 4, SegmentMaxGapSec |-> 120]

One == CHOOSE d \in Devices : TRUE

\* The readings of event e, for each time, place and reported speed.
Fixes(d, e, times, places, speeds) ==
  {Reading(d, e, at, x, 10, v, "unknown") : at \in times, x \in places, v \in speeds}

\* A place, a long gap, four points at another place, and a step away.
GapWalk ==
  << Fixes(One, 1, {10}, {0}, {NoSpeed}), Fixes(One, 2, {150}, {0, 60}, {NoSpeed}),
     Fixes(One, 3, {170}, {60}, {NoSpeed}), Fixes(One, 4, {190}, {60}, {NoSpeed}),
     Fixes(One, 5, {210}, {60}, {NoSpeed}), Fixes(One, 6, {230}, {60, 100}, {NoSpeed}) >>
GapBoundaries == {220, 240}

\* One device stands, walks or waits out a long gap; another reports once, at
\* the time of the first one's second point.
Other == CHOOSE d \in Devices : d # One
MixedWalk ==
  << Fixes(One, 1, {10}, {0}, {NoSpeed}),
     Fixes(One, 2, {30}, {0}, {NoSpeed}) \cup Fixes(One, 2, {30}, {60}, {3}),
     Fixes(One, 3, {50}, {8}, {NoSpeed}) \cup Fixes(One, 3, {170}, {60}, {3}),
     Fixes(One, 4, {70}, {0, 1500}, {NoSpeed}) \cup Fixes(One, 4, {190}, {120}, {3}),
     {Reading(Other, 5, 30, 0, 10, 3, "unknown")} >>
MixedBoundaries == {60, 200}
=============================================================================
