---------------------------- MODULE PointQueries ----------------------------
(***************************************************************************)
(* The gateway's analyses of the processed points of a user: the           *)
(* simplified track and the fastest sections.  Each is one SQL statement   *)
(* and a computation, so it is a function of the rows as they are at one   *)
(* moment.                                                                 *)
(***************************************************************************)
EXTENDS NoisePipeline, QueryRequests

CONSTANT FastLimits     \* the section counts a caller may ask for (5, 10, 20)

-----------------------------------------------------------------------------
(***************************************************************************)
(* GetTrack.  The rows of a device fall into segments at the breaks of the *)
(* noise pipeline; within a segment, a stretch is a maximal run of rows    *)
(* that agree on being still.                                              *)
(***************************************************************************)
Ordered(r, q) == Before(r.fix, q.fix)

AcceptedRows(rows, q) == {r \in rows : r.accepted /\ InRange(r.fix.at, q) /\ OfDevice(r.fix, q)}

\* device_segment: the breaks of the device up to the row.
Segment(rows, r) ==
  Cardinality({b \in rows : /\ b.reason = "segment_break" /\ b.fix.device = r.fix.device
                            /\ ~ Ordered(r, b)})

SameSegment(rows, r, q) == r.fix.device = q.fix.device /\ Segment(rows, r) = Segment(rows, q)

\* The row b is one of r and q, or is between them.
Between(b, r, q) ==
  \/ ~ Ordered(b, r) /\ ~ Ordered(q, b)
  \/ ~ Ordered(b, q) /\ ~ Ordered(r, b)

Stretch(rows, still, r) ==
  {q \in rows :
     /\ SameSegment(rows, r, q)
     /\ \A b \in rows : b.fix.device = r.fix.device /\ Between(b, r, q) => still[b] = still[r]}

Duration(S) == Max({r.fix.at : r \in S}) - Min({r.fix.at : r \in S})

\* A row is still when the pipeline says so or its reported speed, none being
\* zero, is under the threshold.
IsStill(r, threshold) == r.reason = "stationary" \/ Max({r.fix.speed, 0}) < threshold

StillAt(rows, threshold) == [r \in rows |-> IsStill(r, threshold)]

\* reclassified: a movement shorter than minMove is part of the stay around it.
Reclassified(rows, still, minMove) ==
  [r \in rows |-> still[r] \/ Duration(Stretch(rows, still, r)) < minMove]

OrDefault(value, default) == IF value >= 0 THEN value ELSE default

MinStaySec(q) == OrDefault(q.minStay, 60)
MinMoveSec(q) == OrDefault(q.minMove, 30)
Threshold(q) == OrDefault(q.threshold, 2)

StillRows(rows, q) == Reclassified(rows, StillAt(rows, Threshold(q)), MinMoveSec(q))

\* The stays, each the set of its rows, and the rows that are moves.
TrackStays(rows, q) ==
  LET still == StillRows(rows, q) IN
  {S \in {Stretch(rows, still, r) : r \in {r \in rows : still[r]}} : Duration(S) >= MinStaySec(q)}

\* Faulty variant: rows of short stays are left out.
MovesOnly(rows, q) == {r \in rows : ~ StillRows(rows, q)[r]}

TrackMoves(rows, q) ==
  LET still == StillRows(rows, q) IN
  {r \in rows : ~ still[r] \/ Duration(Stretch(rows, still, r)) < MinStaySec(q)}

TrackStatus(q) == Status(q, Junk \in {q.minStay, q.minMove, q.threshold})

-----------------------------------------------------------------------------
(***************************************************************************)
(* GetFastSegments.  An edge joins two consecutive moving rows of a        *)
(* segment; its speed is in hundredths of a metre per second.  A section   *)
(* is a maximal run of joined edges that reach the threshold.              *)
(***************************************************************************)
FastPresets == [soft |-> [percentile |-> 75, minDuration |-> 15],
                normal |-> [percentile |-> 85, minDuration |-> 20],
                strict |-> [percentile |-> 95, minDuration |-> 30]]

FastStatus(q) == Status(q, q.preset \notin DOMAIN FastPresets \/ q.limit \notin FastLimits)

MovingRows(rows, q) == {r \in AcceptedRows(rows, q) : r.reason # "stationary"}

\* buildSpeedEdges
Adjacent(rows, r, q) ==
  /\ SameSegment(rows, r, q) /\ r.fix.at < q.fix.at
  /\ ~ \E b \in rows : b.fix.device = r.fix.device /\ Ordered(r, b) /\ Ordered(b, q)

SpeedEdge(rows, r, q) ==
  [from |-> r, to |-> q, segment |-> Segment(rows, r),
   distance |-> HaversineM(r.x, q.x),
   speed |-> (100 * HaversineM(r.x, q.x)) \div (q.fix.at - r.fix.at)]

SpeedEdges(rows) ==
  {SpeedEdge(rows, p[1], p[2]) : p \in {p \in rows \X rows : Adjacent(rows, p[1], p[2])}}

Slower(e, f) == e.speed < f.speed \/ (e.speed = f.speed /\ Ordered(e.from, f.from))

\* percentile: between the two nearest ranks, in proportion.
Percentile(edges, p) ==
  LET sorted == SetToSortSeq(edges, Slower)
      position == p * (Len(sorted) - 1)
      lower == sorted[position \div 100 + 1].speed
      upper == IF position % 100 = 0 THEN lower ELSE sorted[position \div 100 + 2].speed
  IN lower + ((upper - lower) * (position % 100)) \div 100

Median(edges) == Percentile(edges, 50)

\* collectFastSegments: the maximal runs of edges that reach the threshold.
Amid(g, e, f) == Between(g.from, e.from, f.from)

\* Faulty variant: a run goes on in the next segment.
RunOnwards(edges, threshold, e) ==
  {f \in edges : \A g \in edges : Amid(g, e, f) => g.speed >= threshold}

FastRun(edges, threshold, e) ==
  {f \in edges : f.segment = e.segment /\ \A g \in edges : Amid(g, e, f) => g.speed >= threshold}

FastRuns(edges, threshold) ==
  {FastRun(edges, threshold, e) : e \in {e \in edges : e.speed >= threshold}}

Distance(edges) == MapThenSumSet(LAMBDA e : e.distance, edges)

Started(S) == Min({e.from.fix.at : e \in S})
Ended(S) == Max({e.to.fix.at : e \in S})

Section(S, baseline) ==
  LET distance == Distance(S)
      average == (100 * distance) \div (Ended(S) - Started(S))
  IN [edges |-> S, started |-> Started(S), ended |-> Ended(S), average |-> average,
      baseline |-> baseline,
      uplift |-> IF baseline > 0 THEN (100 * average) \div baseline - 100 ELSE 0]

DeviceSections(edges, preset) ==
  {Section(S, Median(edges)) :
     S \in {S \in FastRuns(edges, Percentile(edges, preset.percentile)) :
              Ended(S) - Started(S) >= preset.minDuration}}

Ranked(s, t) ==
  \/ s.uplift > t.uplift
  \/ s.uplift = t.uplift /\ s.average > t.average
  \/ s.uplift = t.uplift /\ s.average = t.average /\ s.started < t.started

GetFastSegments(rows, q) ==
  LET edges == SpeedEdges(MovingRows(rows, q))
      of == [d \in {e.from.fix.device : e \in edges} |-> {e \in edges : e.from.fix.device = d}]
      all == UNION {DeviceSections(of[d], FastPresets[q.preset]) : d \in DOMAIN of}
      ranked == SetToSortSeq(all, Ranked)
  IN SubSeq(ranked, 1, Min({q.limit, Len(ranked)}))
=============================================================================
