----------------------------- MODULE PointTables -----------------------------
(***************************************************************************)
(* The points of one user: raw_location_points, filled by the consumer     *)
(* from messages that may come again, processed_location_points, filled by *)
(* the detection job, and the gateway's callers, who delete points and     *)
(* draw tracks of them.                                                    *)
(*                                                                         *)
(* A cycle of the job for a device reads its checkpoint and the            *)
(* unprocessed points, then the accepted history, runs the noise pipeline  *)
(* point by point, and applies the rows in one transaction.  Arrivals and  *)
(* deletions fall between any two of these.  Of the trips only the         *)
(* checkpoint is here: TripDetection has the rest.                         *)
(***************************************************************************)
EXTENDS PointQueries

CONSTANTS
  Devices, Events,
  Readings,        \* of each event, the readings its message may hold
  Boundaries,      \* bound: the watermarks now - LateArrivalWindowSec of cycles
  LateWindow,      \* late_arrival_window_sec (45)
  Lookback,        \* maxLookback (24 h)
  HistoryLimit,    \* limit of FetchProcessedHistory (100)
  MaxDeletes, MaxRepeats, MaxFaults   \* bounds

NoDevice == "none"

ASSUME TablesAssumption ==
  /\ Events \subseteq Nat /\ NoDevice \notin Devices
  /\ \A e \in Events : \A f \in Readings[e] : f.id = e /\ f.device \in Devices /\ f.at \in Nat \ {0}
  /\ {LateWindow, Lookback, HistoryLimit, MaxDeletes, MaxRepeats, MaxFaults} \subseteq Nat

VARIABLES
  sent,          \* the reading of each event that was published
  raw,           \* events with a row in raw_location_points
  rows,          \* processed_location_points, by event
  last,          \* last_processed_recorded_at of each device, 0 when NULL
  boundary,      \* the watermark of the latest cycle
  device,        \* the device a cycle works on
  step,          \* its next statement
  todo,          \* points it has read and not processed
  window,        \* the pipeline's window of accepted rows
  batch,         \* the rows it has made, by event
  onTrack,       \* history: events deleted after they were accepted
  budget         \* what may still happen

tables == <<raw, rows, last>>
cycle == <<boundary, device, step, todo, window, batch>>
vars == <<sent, tables, cycle, onTrack, budget>>

Init ==
  /\ sent = << >> /\ raw = {} /\ rows = << >>
  /\ last = [d \in Devices |-> 0]
  /\ boundary = 0 /\ device = NoDevice /\ step = "idle"
  /\ todo = {} /\ window = << >> /\ batch = << >>
  /\ onTrack = {}
  /\ budget = [deletes |-> MaxDeletes, repeats |-> MaxRepeats, faults |-> MaxFaults]

Spend(what) ==
  /\ budget[what] > 0
  /\ budget' = [budget EXCEPT ![what] = @ - 1]

Rows == {rows[e] : e \in DOMAIN rows}

-----------------------------------------------------------------------------
\* The consumer stores a point, for the first time or again after a deletion:
\* a second copy of its message, when the row is gone, is a new row.
Stored(e) ==
  /\ raw' = raw \cup {e}
  /\ UNCHANGED <<rows, last, cycle, onTrack>>

Arrive(e) ==
  /\ e \notin DOMAIN sent
  /\ \E f \in Readings[e] : sent' = [o \in DOMAIN sent \cup {e} |-> IF o = e THEN f ELSE sent[o]]
  /\ Stored(e)
  /\ UNCHANGED budget

ArriveAgain(e) ==
  /\ e \in DOMAIN sent \ raw
  /\ Spend("repeats")
  /\ Stored(e)
  /\ UNCHANGED sent

\* DeletePoint: the processed row goes with the raw one (ON DELETE CASCADE).
DeletePoint(e) ==
  /\ e \in raw
  /\ Spend("deletes")
  /\ raw' = raw \ {e}
  /\ rows' = [o \in DOMAIN rows \ {e} |-> rows[o]]
  /\ onTrack' = IF e \in DOMAIN rows /\ rows[e].accepted THEN onTrack \cup {e} ELSE onTrack
  /\ UNCHANGED <<sent, last, cycle>>

-----------------------------------------------------------------------------
(***************************************************************************)
(* processPair, statement by statement.                                    *)
(***************************************************************************)
From(d, to) == IF last[d] # 0 THEN last[d] - LateWindow ELSE to - Lookback

Unprocessed(d) == {e \in raw \ DOMAIN rows : sent[e].device = d}

\* LoadDistinctUserDevicePairs, LoadState and FetchUnprocessedPoints.
FetchPoints(d, to) ==
  /\ step = "idle" /\ to >= boundary
  /\ \E e \in Unprocessed(d) : sent[e].at < to /\ (last[d] = 0 \/ sent[e].at >= last[d] - LateWindow)
  /\ boundary' = to /\ device' = d /\ step' = "history"
  /\ todo' = {e \in Unprocessed(d) : From(d, to) <= sent[e].at /\ sent[e].at < to}
  /\ UNCHANGED <<sent, tables, window, batch, onTrack, budget>>

\* The accepted rows of the device before the boundary, the last ones in order.
History(d, to) ==
  LET all == SetToSortSeq({r \in Rows : r.fix.device = d /\ r.accepted /\ r.fix.at < to}, Ordered) IN
  SubSeq(all, Max({1, Len(all) - HistoryLimit + 1}), Len(all))

FetchProcessedHistory ==
  /\ step = "history"
  /\ step' = "process"
  /\ window' = History(device, boundary)
  /\ UNCHANGED <<sent, tables, boundary, device, todo, batch, onTrack, budget>>

\* ProcessBatch: the next point in order, with the one after it.
Foremost(S) == {e \in S : \A o \in S : o = e \/ Before(sent[e], sent[o])}

\* Faulty variant: nothing is late, the history decides.
RowAnyway(e) == ProcessOne(window, sent[e], {sent[o] : o \in Foremost(todo \ {e})}, 0)

\* The row of point e, the window and the batch after it.
RowOf(e) == ProcessOne(window, sent[e], {sent[o] : o \in Foremost(todo \ {e})}, last[device])

WindowAfter(row) == IF row.accepted THEN Slide(window, row) ELSE window

BatchAfter(e, row) ==
  LET grown == [o \in DOMAIN batch \cup {e} |-> IF o = e THEN row ELSE batch[o]] IN
  IF row.accepted THEN MarkStationaryWindow(grown, row, WindowAfter(row)[1].fix.at) ELSE grown

ProcessPoint(e) ==
  /\ step = "process" /\ e \in Foremost(todo)
  /\ window' = WindowAfter(RowOf(e))
  /\ batch' = BatchAfter(e, RowOf(e))
  /\ todo' = todo \ {e}
  /\ UNCHANGED <<sent, tables, boundary, device, step, onTrack, budget>>

CycleEnds ==
  /\ device' = NoDevice /\ step' = "idle" /\ todo' = {}
  /\ window' = << >> /\ batch' = << >>
  /\ UNCHANGED boundary

Done == step = "process" /\ todo = {}

\* ApplyBatch: the rows refer to raw points (a foreign key); one that is there
\* already stays as it is.
Apply ==
  /\ Done /\ DOMAIN batch \subseteq raw
  /\ rows' = [e \in DOMAIN rows \cup DOMAIN batch |-> IF e \in DOMAIN rows THEN rows[e] ELSE batch[e]]
  /\ last' = [last EXCEPT ![device] =
                Max({@} \cup {batch[e].fix.at : e \in {e \in DOMAIN batch : batch[e].accepted}})]
  /\ CycleEnds
  /\ UNCHANGED <<sent, raw, onTrack, budget>>

\* A point of the batch was deleted meanwhile: the transaction fails.
ForeignKeyFails ==
  /\ Done /\ ~ DOMAIN batch \subseteq raw
  /\ CycleEnds
  /\ UNCHANGED <<sent, tables, onTrack, budget>>

\* A statement fails, or the worker crashes.
Abort ==
  /\ step # "idle"
  /\ Spend("faults")
  /\ CycleEnds
  /\ UNCHANGED <<sent, tables, onTrack>>

Next ==
  \/ \E e \in Events : Arrive(e) \/ ArriveAgain(e) \/ DeletePoint(e)
  \/ \E d \in Devices, to \in Boundaries : FetchPoints(d, to)
  \/ FetchProcessedHistory
  \/ \E e \in todo : ProcessPoint(e)
  \/ Apply \/ ForeignKeyFails \/ Abort

Spec == Init /\ [][Next]_vars

-----------------------------------------------------------------------------
(***************************************************************************)
(* A point the user deleted from the track does not come back: when a      *)
(* second copy of its message is stored, the checkpoint has passed it and  *)
(* the pipeline refuses it as late, whatever cycle was running meanwhile.  *)
(***************************************************************************)
DeletedStaysOffTrack == \A e \in onTrack \cap DOMAIN rows : ~ rows[e].accepted

(***************************************************************************)
(* The simplified track shows every accepted point of the range once, as a *)
(* move or within one stay, whatever the durations asked for; a stay lies  *)
(* within one segment of one device, and no other item falls into it.      *)
(***************************************************************************)
TrackRequests ==
  {[device |-> AnyDevice, from |-> 1, to |-> 1000, threshold |-> Absent,
    minStay |-> s[1], minMove |-> s[2]] : s \in {<<0, Absent>>, <<Absent, 0>>, <<Junk, 0>>}}

TrackIsPartition ==
  \A q \in {q \in TrackRequests : TrackStatus(q) = 200} :
    LET shown == AcceptedRows(Rows, q)
        stays == TrackStays(shown, q)
        moves == TrackMoves(shown, q)
    IN /\ (UNION stays) \cup moves = shown /\ (UNION stays) \cap moves = {}
       /\ \A S \in stays : \A r, t \in S :
            /\ SameSegment(shown, r, t)
            /\ \A o \in shown \ S :
                 o.fix.device = r.fix.device => ~ (Ordered(r, o) /\ Ordered(o, t))

(***************************************************************************)
(* A fastest section is one unbroken stretch of movement, at least as long *)
(* as the preset asks and no slower than the device's usual speed; the     *)
(* sections of a device do not overlap, and they are ranked by uplift.     *)
(***************************************************************************)
FastRequests ==
  {[device |-> AnyDevice, from |-> 1, to |-> 1000, preset |-> p, limit |-> l] :
     p \in {"soft", "hard"}, l \in FastLimits}

FastSectionsAreFast ==
  \A q \in {q \in FastRequests : FastStatus(q) = 200} :
    LET sections == GetFastSegments(Rows, q) IN
    /\ \A i \in DOMAIN sections :
         LET s == sections[i] IN
         /\ \A e, f \in s.edges : SameSegment(MovingRows(Rows, q), e.from, f.to)
         /\ \A e \in s.edges : e.to.fix.at = s.ended \/ \E f \in s.edges : f.from = e.to
         /\ s.ended - s.started >= FastPresets[q.preset].minDuration
         /\ s.average >= s.baseline /\ s.uplift >= 0
    /\ \A i, j \in DOMAIN sections :
         i < j => /\ sections[i].edges \cap sections[j].edges = {}
                  /\ sections[i].uplift >= sections[j].uplift

(***************************************************************************)
(* processed_location_point.go: beyond a gap of SegmentMaxGapSec the       *)
(* points belong to different segments, distance is not attributed across  *)
(* the gap: a row's distance leads from a row on its own side.             *)
(***************************************************************************)
Across(r, q) ==
  \E g, h \in Rows :
    /\ g.accepted /\ h.accepted /\ g.fix.device = r.fix.device /\ h.fix.device = r.fix.device
    /\ ~ Ordered(g, r) /\ Ordered(g, h) /\ ~ Ordered(q, h)
    /\ h.fix.at - g.fix.at > Noise.SegmentMaxGapSec
    /\ ~ \E o \in Rows : o.accepted /\ o.fix.device = r.fix.device /\ Ordered(g, o) /\ Ordered(o, h)

DistanceStopsAtGaps ==
  \A q \in Rows :
    q.accepted /\ q.delta > 0 =>
      \E r \in Rows : /\ r.accepted /\ r.fix.device = q.fix.device /\ Ordered(r, q)
                      /\ ~ Across(r, q)
                      /\ q.delta = HaversineM(r.fix.x, q.fix.x)
=============================================================================
