-------------------------- MODULE PointTablesProofs --------------------------
(***************************************************************************)
(* For every number of devices, events, deletions and faults: a deleted    *)
(* point stays off the track, and the track is a partition of the accepted *)
(* points.                                                                 *)
(*                                                                         *)
(* The first rests on the checkpoint: whatever was accepted, in the table  *)
(* or deleted since, the checkpoint of its device has passed, and what a   *)
(* cycle has accepted but not yet applied it has not.  The second rests on *)
(* the order of the rows: it is total because their events differ, so a    *)
(* stretch is a class of an equivalence and has no holes.                  *)
(***************************************************************************)
EXTENDS PointTables, FiniteSetTheorems, WellFoundedInduction, TLAPS

\* The largest element of a finite set of numbers is in the set and bounds it.
LEMMA MaxIsLargest ==
  ASSUME NEW S \in SUBSET Int, IsFiniteSet(S), S # {}
  PROVE  Max(S) \in S /\ \A x \in S : x <= Max(S)
<1> DEFINE Bad == {T \in SUBSET S : T # {} /\ ~ \E m \in T : \A x \in T : x <= m}
<1>1. Bad = {}
  <2> SUFFICES ASSUME Bad # {} PROVE FALSE
    OBVIOUS
  <2>1. SUBSET S = FiniteSubsetsOf(S)
    BY FS_FiniteSubsetsOfFinite
  <2>a. IsWellFoundedOn(StrictSubsetOrdering(S), SUBSET S)
    BY <2>1, FS_StrictSubsetOrderingWellFounded
  <2>b. Bad \subseteq SUBSET S
    OBVIOUS
  <2>2. PICK T \in Bad : \A U \in Bad : <<U, T>> \notin StrictSubsetOrdering(S)
    <3> HIDE DEF Bad
    <3> QED BY <2>a, <2>b, WFMin
  <2>3. PICK y \in T : TRUE
    OBVIOUS
  <2>4. T \ {y} \notin Bad
    BY <2>2, <2>3 DEF StrictSubsetOrdering
  <2>5. CASE T = {y}
    BY <2>2, <2>5
  <2>6. CASE T # {y}
    <3>1. PICK m \in T \ {y} : \A x \in T \ {y} : x <= m
      BY <2>2, <2>3, <2>4, <2>6
    <3>2. m \in Int /\ y \in Int /\ \A x \in T : x \in Int
      BY <2>2, <2>3, <3>1
    <3>3. CASE y <= m
      BY <2>2, <3>1, <3>2, <3>3
    <3>4. CASE ~ y <= m
      <4>1. \A x \in T : x <= y
        BY <3>1, <3>2, <3>4
      <4> QED BY <2>2, <2>3, <4>1
    <3> QED BY <3>3, <3>4
  <2> QED BY <2>5, <2>6
<1>2. \E m \in S : \A x \in S : x <= m
  BY <1>1
<1>3. \E m \in S : \A x \in S : m >= x
  BY <1>2
<1>4. Max(S) \in S /\ \A x \in S : Max(S) >= x
  BY <1>3 DEF Max
<1> QED BY <1>4

LEMMA MinIsSmallest ==
  ASSUME NEW S \in SUBSET Int, IsFiniteSet(S), S # {}
  PROVE  Min(S) \in S /\ \A x \in S : Min(S) <= x
<1> DEFINE N == {-x : x \in S}
           neg == [x \in S |-> -x]
<1>1. neg \in Surjection(S, N)
  BY DEF Surjection
<1>2. IsFiniteSet(N) /\ N \in SUBSET Int /\ N # {}
  <2>1. N \in SUBSET Int
    OBVIOUS
  <2>3. N # {}
    OBVIOUS
  <2>2. IsFiniteSet(N)
    <3> HIDE DEF N, neg
    <3> QED BY <1>1, FS_Surjection
  <2> QED BY <2>1, <2>2, <2>3
<1>3. \A x \in N : x <= Max(N)
  BY <1>2, MaxIsLargest
<1>4. PICK m \in S : Max(N) = -m
  BY <1>2, MaxIsLargest
<1>5. \A x \in S : m <= x
  <2> TAKE x \in S
  <2>1. -x \in N
    OBVIOUS
  <2>2. -x <= -m
    BY <2>1, <1>3, <1>4
  <2>3. x \in Int /\ m \in Int
    BY <1>4
  <2> QED BY <2>2, <2>3
<1>6. \E k \in S : \A x \in S : k =< x
  BY <1>5
<1>7. Min(S) \in S /\ \A x \in S : Min(S) =< x
  BY <1>6 DEF Min
<1> QED BY <1>7

-----------------------------------------------------------------------------
\* A set of rows as a query sees it: finite, at times that are numbers, of
\* different events.
Line(S) ==
  /\ IsFiniteSet(S)
  /\ \A r \in S : r.fix.at \in Nat /\ r.fix.id \in Nat
  /\ \A r, q \in S : r.fix.id = q.fix.id => r = q

LEMMA OrderIsStrict ==
  ASSUME NEW S, Line(S)
  PROVE  /\ \A r, q \in S : Ordered(r, q) => ~ Ordered(q, r)
         /\ \A r, q \in S : r # q => Ordered(r, q) \/ Ordered(q, r)
         /\ \A r, q, t \in S : Ordered(r, q) /\ Ordered(q, t) => Ordered(r, t)
<1>1. \A r, q \in S : Ordered(r, q) => ~ Ordered(q, r)
  BY DEF Line, Ordered, Before
<1>2. \A r, q \in S : r # q => Ordered(r, q) \/ Ordered(q, r)
  BY DEF Line, Ordered, Before
<1>3. \A r, q, t \in S : Ordered(r, q) /\ Ordered(q, t) => Ordered(r, t)
  BY DEF Line, Ordered, Before
<1> QED BY <1>1, <1>2, <1>3

\* Segments are numbered in the order of the rows.
LEMMA SegmentsGrow ==
  ASSUME NEW S, Line(S), NEW r \in S, NEW q \in S,
         r.fix.device = q.fix.device, ~ Ordered(q, r)
  PROVE  /\ Segment(S, r) \in Nat /\ Segment(S, q) \in Nat
         /\ Segment(S, r) <= Segment(S, q)
<1> DEFINE Breaks(p) == {b \in S : /\ b.reason = "segment_break" /\ b.fix.device = p.fix.device
                                   /\ ~ Ordered(p, b)}
<1>1. IsFiniteSet(Breaks(q)) /\ Cardinality(Breaks(q)) \in Nat
  <2>1. Breaks(q) \in SUBSET S /\ IsFiniteSet(S)
    BY DEF Line
  <2>2. IsFiniteSet(Breaks(q))
    <3> HIDE DEF Breaks
    <3> QED BY <2>1, FS_Subset
  <2> QED BY <2>2, FS_CardinalityType
<1>2. Breaks(r) \in SUBSET Breaks(q)
  <2> SUFFICES ASSUME NEW b \in S, ~ Ordered(r, b), Ordered(q, b)
               PROVE  FALSE
    OBVIOUS
  <2> QED BY OrderIsStrict
<1>3. /\ IsFiniteSet(Breaks(r)) /\ Cardinality(Breaks(r)) <= Cardinality(Breaks(q))
  <2> HIDE DEF Breaks
  <2> QED BY <1>1, <1>2, FS_Subset
<1>4. Cardinality(Breaks(r)) \in Nat
  BY <1>3, FS_CardinalityType
<1>5. Segment(S, r) = Cardinality(Breaks(r)) /\ Segment(S, q) = Cardinality(Breaks(q))
  BY DEF Segment
<1> QED BY <1>1, <1>3, <1>4, <1>5

LEMMA StretchBegins ==
  ASSUME NEW S, Line(S), NEW still, NEW r \in S
  PROVE  r \in Stretch(S, still, r)
<1>1. \A b \in S : Between(b, r, r) => b = r
  BY OrderIsStrict DEF Between
<1> QED BY <1>1 DEF Stretch, SameSegment

\* The rows of a stretch have the same stretch.
LEMMA StretchIsClass ==
  ASSUME NEW S, Line(S), NEW still, NEW r \in S, NEW q \in Stretch(S, still, r)
  PROVE  still[q] = still[r] /\ Stretch(S, still, q) = Stretch(S, still, r)
<1>1. q \in S /\ SameSegment(S, r, q)
      /\ \A b \in S : b.fix.device = r.fix.device /\ Between(b, r, q) => still[b] = still[r]
  BY DEF Stretch
<1>2. still[q] = still[r]
  <2>1. Between(q, r, q)
    BY <1>1, OrderIsStrict DEF Between
  <2> QED BY <1>1, <2>1 DEF SameSegment
<1>3. \A b, t \in S : Between(b, q, t) => Between(b, r, q) \/ Between(b, r, t)
  BY <1>1, OrderIsStrict DEF Between
<1>4. \A b, t \in S : Between(b, r, t) => Between(b, r, q) \/ Between(b, q, t)
  BY <1>1, OrderIsStrict DEF Between
<1>5. ASSUME NEW t \in Stretch(S, still, r) PROVE t \in Stretch(S, still, q)
  BY <1>1, <1>2, <1>3 DEF Stretch, SameSegment
<1>6. ASSUME NEW t \in Stretch(S, still, q) PROVE t \in Stretch(S, still, r)
  BY <1>1, <1>2, <1>4 DEF Stretch, SameSegment
<1> QED BY <1>2, <1>5, <1>6

\* A stretch has every row of the device between two of its own.
LEMMA StretchIsUnbroken ==
  ASSUME NEW S, Line(S), NEW still, NEW a \in S,
         NEW r \in Stretch(S, still, a), NEW t \in Stretch(S, still, a),
         NEW o \in S, o.fix.device = r.fix.device, Ordered(r, o), Ordered(o, t)
  PROVE  o \in Stretch(S, still, a)
<1>1. r \in S /\ t \in S /\ SameSegment(S, a, r) /\ SameSegment(S, a, t)
  BY DEF Stretch
<1>2. Segment(S, r) <= Segment(S, o) /\ Segment(S, o) <= Segment(S, t)
  <2>1. ~ Ordered(o, r) /\ ~ Ordered(t, o)
    BY <1>1, OrderIsStrict
  <2> QED BY <1>1, <2>1, SegmentsGrow DEF SameSegment
<1>3. Segment(S, r) \in Nat /\ Segment(S, o) \in Nat /\ Segment(S, t) \in Nat
  <2>1. ~ Ordered(o, o) /\ ~ Ordered(r, r) /\ ~ Ordered(t, t)
    BY <1>1, OrderIsStrict
  <2> QED BY <1>1, <2>1, SegmentsGrow
<1>4. SameSegment(S, a, o)
  BY <1>1, <1>2, <1>3 DEF SameSegment
<1>5. \A b \in S : Between(b, a, o) => Between(b, a, r) \/ Between(b, a, t)
  BY <1>1, OrderIsStrict DEF Between
<1> QED BY <1>1, <1>4, <1>5 DEF Stretch

LEMMA DurationIsNumber ==
  ASSUME NEW S, Line(S), NEW T \in SUBSET S, T # {}
  PROVE  Duration(T) \in Int
<1> DEFINE Times == {r.fix.at : r \in T}
           at == [r \in T |-> r.fix.at]
<1>1. IsFiniteSet(T)
  BY FS_Subset DEF Line
<1>2. at \in Surjection(T, Times)
  BY DEF Surjection
<1>3. IsFiniteSet(Times)
  <2> HIDE DEF at, Times
  <2> QED BY <1>1, <1>2, FS_Surjection
<1>4. Times \in SUBSET Int /\ Times # {}
  BY DEF Line
<1>5. Max(Times) \in Int /\ Min(Times) \in Int
  <2> HIDE DEF Times
  <2> QED BY <1>3, <1>4, MaxIsLargest, MinIsSmallest
<1> QED BY <1>5 DEF Duration

\* The track of a request, whatever its rows and the durations asked for.
LEMMA TrackOfLine ==
  ASSUME NEW shown, Line(shown), NEW q, MinStaySec(q) \in Int
  PROVE  LET stays == TrackStays(shown, q)
             moves == TrackMoves(shown, q)
         IN /\ (UNION stays) \cup moves = shown /\ (UNION stays) \cap moves = {}
            /\ \A S \in stays : \A r, t \in S :
                 /\ SameSegment(shown, r, t)
                 /\ \A o \in shown \ S :
                      o.fix.device = r.fix.device => ~ (Ordered(r, o) /\ Ordered(o, t))
<1> DEFINE still == StillRows(shown, q)
           Of(r) == Stretch(shown, still, r)
           stays == TrackStays(shown, q)
           moves == TrackMoves(shown, q)
<1>1. \A S \in stays : \E r \in shown : S = Of(r) /\ still[r] /\ Duration(S) >= MinStaySec(q)
  BY DEF TrackStays
<1>2. \A r \in shown : still[r] /\ Duration(Of(r)) >= MinStaySec(q) => Of(r) \in stays
  BY DEF TrackStays
<1>3. moves = {r \in shown : ~ still[r] \/ Duration(Of(r)) < MinStaySec(q)}
  BY DEF TrackMoves
<1> HIDE DEF still, stays, moves
<1>4. \A r \in shown : r \in Of(r) /\ Duration(Of(r)) \in Int /\ Of(r) \in SUBSET shown
  <2> TAKE r \in shown
  <2>1. r \in Of(r) /\ Of(r) \in SUBSET shown
    BY StretchBegins DEF Stretch
  <2> HIDE DEF Of
  <2> QED BY <2>1, DurationIsNumber
<1>5. \A r \in shown : \A p \in Of(r) : still[p] = still[r] /\ Of(p) = Of(r) /\ SameSegment(shown, r, p)
  BY StretchIsClass DEF Stretch
<1>6. ASSUME NEW a \in shown, NEW r \in Of(a), NEW t \in Of(a), NEW o \in shown,
             o.fix.device = r.fix.device, Ordered(r, o), Ordered(o, t)
      PROVE  o \in Of(a)
  BY <1>6, StretchIsUnbroken
<1> HIDE DEF Of
<1>7. (UNION stays) \cup moves = shown
  <2>1. (UNION stays) \cup moves \subseteq shown
    BY <1>1, <1>3, <1>4
  <2>2. ASSUME NEW r \in shown, r \notin moves PROVE r \in UNION stays
    BY <1>2, <1>3, <1>4, <2>2
  <2> QED BY <2>1, <2>2
<1>8. ASSUME NEW S \in stays, NEW p \in S, p \in moves PROVE FALSE
  <2>1. PICK r \in shown : S = Of(r) /\ still[r] /\ Duration(S) >= MinStaySec(q)
    BY <1>1
  <2>2. p \in shown /\ still[p] /\ Of(p) = S
    BY <1>4, <1>5, <2>1
  <2>3. ~ Duration(S) < MinStaySec(q)
    BY <1>4, <2>1
  <2> QED BY <1>3, <1>8, <2>2, <2>3
<1>9. ASSUME NEW S \in stays, NEW r \in S, NEW t \in S
      PROVE  /\ SameSegment(shown, r, t)
             /\ \A o \in shown \ S :
                  o.fix.device = r.fix.device => ~ (Ordered(r, o) /\ Ordered(o, t))
  <2>1. PICK a \in shown : S = Of(a)
    BY <1>1
  <2>2. SameSegment(shown, a, r) /\ SameSegment(shown, a, t)
    BY <1>5, <2>1
  <2>3. SameSegment(shown, r, t)
    BY <2>2 DEF SameSegment
  <2>4. \A o \in shown \ S : o.fix.device = r.fix.device => ~ (Ordered(r, o) /\ Ordered(o, t))
    BY <1>6, <2>1
  <2> QED BY <2>3, <2>4
<1> QED BY <1>7, <1>8, <1>9 DEF stays, moves

-----------------------------------------------------------------------------
\* A row of the reading f.
IsRow(r, f) == {"fix", "accepted"} \subseteq DOMAIN r /\ r.fix = f

LEMMA RowIsRow ==
  ASSUME NEW f, NEW accepted, NEW reason, NEW x, NEW delta, NEW implied
  PROVE  /\ IsRow(Row(f, accepted, reason, x, delta, implied), f)
         /\ Row(f, accepted, reason, x, delta, implied).fix = f
         /\ Row(f, accepted, reason, x, delta, implied).accepted = accepted
BY DEF IsRow, Row

LEMMA StillKeeps ==
  ASSUME NEW f, NEW r, IsRow(r, f)
  PROVE  IsRow(Still(r), f) /\ Still(r).accepted = r.accepted
BY DEF IsRow, Still

\* What the pipeline makes of a reading is a row of it, and a reading that is
\* not after the checkpoint is not accepted.
LEMMA VerdictIsRow ==
  ASSUME NEW w, NEW f, NEW next, NEW through
  PROVE  /\ IsRow(ProcessOne(w, f, next, through), f)
         /\ ProcessOne(w, f, next, through).accepted => ~ f.at <= through
<1>1. \A reason, implied : IsRow(Refused(f, reason, implied), f) /\ ~ Refused(f, reason, implied).accepted
  BY RowIsRow DEF Refused
<1>2. IsRow(Admitted(w, f), f)
  <2> DEFINE row == Row(f, TRUE, Measure(w, f).reason,
                        Smooth(Trim(w, f.at, Noise.SegmentMaxGapSec), f), Measure(w, f).delta, Implied(w, f))
             still == IsStationaryWindow(Trim(Append(w, row), f.at, Noise.StationaryWindowSec))
  <2>1. Admitted(w, f) = IF still THEN Still(row) ELSE row
    BY DEF Admitted
  <2>2. IsRow(row, f)
    BY RowIsRow
  <2> HIDE DEF row, still
  <2> QED BY <2>1, <2>2, StillKeeps
<1> QED BY <1>1, <1>2 DEF ProcessOne

\* A stationary window changes no row's reading and no verdict.
LEMMA MarkingKeeps ==
  ASSUME NEW B, NEW row, NEW since, NEW of, \A e \in DOMAIN B : IsRow(B[e], of[e])
  PROVE  LET M == MarkStationaryWindow(B, row, since) IN
         DOMAIN M = DOMAIN B /\ \A e \in DOMAIN B : IsRow(M[e], of[e]) /\ M[e].accepted = B[e].accepted
BY StillKeeps DEF MarkStationaryWindow

-----------------------------------------------------------------------------
SentOK ==
  /\ IsFiniteSet(DOMAIN sent)
  /\ \A e \in DOMAIN sent : /\ e \in Nat /\ sent[e].id = e
                            /\ sent[e].device \in Devices /\ sent[e].at \in Nat \ {0}

\* The rows, in the table or in a batch, are rows of what was published.
Rendered(B) == DOMAIN B \subseteq DOMAIN sent /\ \A e \in DOMAIN B : IsRow(B[e], sent[e])

\* The checkpoint of the device has passed the event.
Passed(e) == sent[e].at <= last[sent[e].device]

TablesOK ==
  /\ raw \subseteq DOMAIN sent /\ DOMAIN rows \subseteq raw
  /\ last \in [Devices -> Nat]
  /\ Rendered(rows)
  /\ \A e \in DOMAIN rows : rows[e].accepted => Passed(e)
  /\ onTrack \subseteq DOMAIN sent /\ \A e \in onTrack : Passed(e)

\* A cycle holds unprocessed points of its device, and accepts what is new.
CycleOK ==
  /\ step # "idle" => device \in Devices
  /\ step # "process" => DOMAIN batch = {}
  /\ todo \subseteq DOMAIN sent /\ \A e \in todo : sent[e].device = device
  /\ Rendered(batch)
  /\ \A e \in DOMAIN batch : /\ sent[e].device = device
                             /\ batch[e].accepted => ~ Passed(e)

IInv == SentOK /\ TablesOK /\ CycleOK /\ DeletedStaysOffTrack

LEMMA InitHolds == Init => IInv
<1> SUFFICES ASSUME Init PROVE IInv
  OBVIOUS
<1>1. DOMAIN sent = {} /\ DOMAIN rows = {} /\ DOMAIN batch = {}
  BY DEF Init
<1>2. SentOK
  BY <1>1, FS_EmptySet DEF SentOK
<1>3. TablesOK
  BY <1>1 DEF Init, TablesOK, Rendered
<1>4. CycleOK
  BY <1>1 DEF Init, CycleOK, Rendered
<1>5. DeletedStaysOffTrack
  BY <1>1 DEF DeletedStaysOffTrack
<1> QED BY <1>2, <1>3, <1>4, <1>5 DEF IInv

\* The readings of the events are what the assumption says, whatever arrives.
LEMMA ArriveKeeps ==
  ASSUME IInv, NEW e \in Events, Arrive(e)
  PROVE  IInv'
<1>1. PICK f \in Readings[e] : sent' = [o \in DOMAIN sent \cup {e} |-> IF o = e THEN f ELSE sent[o]]
  BY DEF Arrive
<1>2. DOMAIN sent' = DOMAIN sent \cup {e} /\ e \notin DOMAIN sent
      /\ \A o \in DOMAIN sent : sent'[o] = sent[o]
  BY <1>1 DEF Arrive
<1>3. /\ raw' = raw \cup {e} /\ rows' = rows /\ last' = last /\ boundary' = boundary
      /\ device' = device /\ step' = step /\ todo' = todo /\ batch' = batch /\ onTrack' = onTrack
  BY DEF Arrive, Stored, cycle
<1>4. SentOK'
  <2>1. IsFiniteSet(DOMAIN sent')
    BY <1>2, FS_AddElement DEF IInv, SentOK
  <2>2. e \in Nat /\ sent'[e] = f /\ f.id = e /\ f.device \in Devices /\ f.at \in Nat \ {0}
    BY <1>1, TablesAssumption
  <2> QED BY <1>2, <2>1, <2>2 DEF IInv, SentOK
<1>5. TablesOK'
  BY <1>2, <1>3 DEF IInv, TablesOK, Rendered, Passed
<1>6. CycleOK'
  BY <1>2, <1>3 DEF IInv, CycleOK, Rendered, Passed
<1>7. DeletedStaysOffTrack'
  BY <1>3 DEF IInv, DeletedStaysOffTrack
<1> QED BY <1>4, <1>5, <1>6, <1>7 DEF IInv

LEMMA ArriveAgainKeeps ==
  ASSUME IInv, NEW e \in Events, ArriveAgain(e)
  PROVE  IInv'
<1>1. /\ sent' = sent /\ raw' = raw \cup {e} /\ e \in DOMAIN sent /\ rows' = rows /\ last' = last
      /\ device' = device /\ step' = step /\ todo' = todo /\ batch' = batch /\ onTrack' = onTrack
  BY DEF ArriveAgain, Stored, cycle
<1>2. SentOK' /\ CycleOK' /\ DeletedStaysOffTrack'
  BY <1>1 DEF IInv, SentOK, CycleOK, Rendered, Passed, DeletedStaysOffTrack
<1>3. TablesOK'
  BY <1>1 DEF IInv, TablesOK, Rendered, Passed
<1> QED BY <1>2, <1>3 DEF IInv

LEMMA DeletePointKeeps ==
  ASSUME IInv, NEW e \in Events, DeletePoint(e)
  PROVE  IInv'
<1>1. /\ sent' = sent /\ raw' = raw \ {e} /\ last' = last /\ e \in raw
      /\ DOMAIN rows' = DOMAIN rows \ {e} /\ \A o \in DOMAIN rows \ {e} : rows'[o] = rows[o]
      /\ onTrack' = IF e \in DOMAIN rows /\ rows[e].accepted THEN onTrack \cup {e} ELSE onTrack
      /\ device' = device /\ step' = step /\ todo' = todo /\ batch' = batch
  BY DEF DeletePoint, cycle
<1>2. SentOK' /\ CycleOK'
  BY <1>1 DEF IInv, SentOK, CycleOK, Rendered, Passed
<1>3. TablesOK'
  BY <1>1 DEF IInv, TablesOK, Rendered, Passed
<1>4. DeletedStaysOffTrack'
  BY <1>1 DEF IInv, DeletedStaysOffTrack
<1> QED BY <1>2, <1>3, <1>4 DEF IInv

LEMMA FetchPointsKeeps ==
  ASSUME IInv, NEW d \in Devices, NEW to \in Boundaries, FetchPoints(d, to)
  PROVE  IInv'
<1>1. /\ sent' = sent /\ raw' = raw /\ rows' = rows /\ last' = last /\ batch' = batch /\ onTrack' = onTrack
      /\ step = "idle" /\ step' = "history" /\ device' = d /\ todo' \subseteq Unprocessed(d)
  BY DEF FetchPoints, tables
<1>2. SentOK' /\ TablesOK' /\ DeletedStaysOffTrack'
  BY <1>1 DEF IInv, SentOK, TablesOK, Rendered, Passed, DeletedStaysOffTrack
<1>3. CycleOK'
  BY <1>1 DEF IInv, CycleOK, TablesOK, Rendered, Passed, Unprocessed
<1> QED BY <1>2, <1>3 DEF IInv

LEMMA FetchHistoryKeeps ==
  ASSUME IInv, FetchProcessedHistory
  PROVE  IInv'
<1>1. /\ sent' = sent /\ raw' = raw /\ rows' = rows /\ last' = last /\ onTrack' = onTrack
      /\ device' = device /\ todo' = todo /\ batch' = batch /\ step = "history" /\ step' = "process"
  BY DEF FetchProcessedHistory, tables
<1>2. SentOK' /\ TablesOK' /\ CycleOK' /\ DeletedStaysOffTrack'
  BY <1>1 DEF IInv, SentOK, TablesOK, CycleOK, Rendered, Passed, DeletedStaysOffTrack
<1> QED BY <1>2 DEF IInv

LEMMA ProcessPointKeeps ==
  ASSUME IInv, NEW e \in todo, ProcessPoint(e)
  PROVE  IInv'
<1> DEFINE row == RowOf(e)
           grown == [o \in DOMAIN batch \cup {e} |-> IF o = e THEN row ELSE batch[o]]
<1>1. /\ sent' = sent /\ raw' = raw /\ rows' = rows /\ last' = last /\ onTrack' = onTrack
      /\ device' = device /\ step' = step /\ step = "process" /\ todo' = todo \ {e}
      /\ batch' = BatchAfter(e, row)
  BY DEF ProcessPoint, tables
<1>2. SentOK' /\ TablesOK' /\ DeletedStaysOffTrack'
  BY <1>1 DEF IInv, SentOK, TablesOK, Rendered, Passed, DeletedStaysOffTrack
<1>3. IsRow(row, sent[e]) /\ (row.accepted => ~ sent[e].at <= last[device])
  BY VerdictIsRow DEF RowOf
<1>4. e \in DOMAIN sent /\ sent[e].device = device
  BY DEF IInv, CycleOK
<1> HIDE DEF row
<1>5. /\ DOMAIN grown = DOMAIN batch \cup {e} /\ grown[e] = row
      /\ \A o \in DOMAIN batch \ {e} : grown[o] = batch[o]
  OBVIOUS
<1>6. /\ \A o \in DOMAIN grown : IsRow(grown[o], sent[o])
      /\ \A o \in DOMAIN grown : sent[o].device = device /\ (grown[o].accepted => ~ Passed(o))
  BY <1>3, <1>4, <1>5 DEF IInv, CycleOK, Rendered, Passed
<1>7. /\ DOMAIN batch' = DOMAIN grown
      /\ \A o \in DOMAIN grown : IsRow(batch'[o], sent[o]) /\ batch'[o].accepted = grown[o].accepted
  <2> DEFINE since == WindowAfter(row)[1].fix.at
  <2>1. batch' = IF row.accepted THEN MarkStationaryWindow(grown, row, since) ELSE grown
    BY <1>1 DEF BatchAfter
  <2> HIDE DEF since, grown
  <2>2. CASE row.accepted
    BY <1>6, <2>1, <2>2, MarkingKeeps
  <2>3. CASE ~ row.accepted
    BY <1>6, <2>1, <2>3
  <2> QED BY <2>2, <2>3
<1> HIDE DEF grown
<1>8. CycleOK'
  <2>1. DOMAIN batch' \subseteq DOMAIN sent
    BY <1>4, <1>5, <1>7 DEF IInv, CycleOK, Rendered
  <2>2. \A o \in DOMAIN batch' : sent[o].device = device /\ (batch'[o].accepted => ~ Passed(o))
    BY <1>6, <1>7
  <2> QED BY <1>1, <1>7, <2>1, <2>2 DEF IInv, CycleOK, Rendered, Passed
<1> QED BY <1>2, <1>8 DEF IInv

LEMMA CycleEndKeeps ==
  ASSUME IInv, CycleEnds, UNCHANGED <<sent, raw, onTrack>>, TablesOK', DeletedStaysOffTrack'
  PROVE  IInv'
<1>1. sent' = sent /\ step' = "idle" /\ todo' = {} /\ DOMAIN batch' = {}
  BY DEF CycleEnds
<1>2. SentOK' /\ CycleOK'
  BY <1>1 DEF IInv, SentOK, CycleOK, Rendered
<1> QED BY <1>2 DEF IInv

\* The checkpoint passes what is applied: the largest accepted time.
LEMMA ApplyKeeps ==
  ASSUME IInv, Apply
  PROVE  IInv'
<1> DEFINE new == {o \in DOMAIN batch : batch[o].accepted}
           Times == {batch[o].fix.at : o \in new}
           at == [o \in new |-> batch[o].fix.at]
           All == {last[device]} \cup Times
<1>1. /\ sent' = sent /\ raw' = raw /\ onTrack' = onTrack /\ step = "process" /\ DOMAIN batch \subseteq raw
      /\ rows' = [o \in DOMAIN rows \cup DOMAIN batch |-> IF o \in DOMAIN rows THEN rows[o] ELSE batch[o]]
      /\ last' = [last EXCEPT ![device] = Max(All)]
  BY DEF Apply, Done
<1>2. device \in Devices /\ last \in [Devices -> Nat]
  BY <1>1 DEF IInv, CycleOK, TablesOK
<1>3. \A o \in DOMAIN batch : o \in DOMAIN sent /\ batch[o].fix = sent[o] /\ sent[o].device = device
                              /\ sent[o].at \in Nat
  BY DEF IInv, CycleOK, SentOK, Rendered, IsRow, Row
<1>4. All \in SUBSET Int /\ All # {} /\ All \in SUBSET Nat
  BY <1>2, <1>3
<1>5. IsFiniteSet(All)
  <2>1. at \in Surjection(new, Times)
    BY DEF Surjection
  <2>2. new \in SUBSET DOMAIN sent /\ IsFiniteSet(DOMAIN sent)
    BY <1>3 DEF IInv, SentOK
  <2>3. IsFiniteSet(new)
    <3> HIDE DEF new
    <3> QED BY <2>2, FS_Subset
  <2>4. IsFiniteSet(Times)
    <3> HIDE DEF new, Times, at
    <3> QED BY <2>1, <2>3, FS_Surjection
  <2>5. IsFiniteSet(Times \cup {last[device]})
    <3> HIDE DEF Times
    <3> QED BY <2>4, FS_AddElement
  <2>6. All = Times \cup {last[device]}
    OBVIOUS
  <2> QED BY <2>5, <2>6
<1>6. Max(All) \in Nat /\ \A x \in All : x <= Max(All)
  <2> HIDE DEF All
  <2> QED BY <1>4, <1>5, MaxIsLargest
<1>7. last[device] <= Max(All) /\ \A o \in DOMAIN batch : batch[o].accepted => sent[o].at <= Max(All)
  BY <1>3, <1>6
<1> HIDE DEF All
<1>8. last' \in [Devices -> Nat] /\ \A o \in DOMAIN sent : Passed(o) => Passed(o)'
  <2>1. last' \in [Devices -> Nat] /\ \A d \in Devices : last[d] <= last'[d]
    BY <1>1, <1>2, <1>6, <1>7
  <2> QED BY <1>1, <1>2, <2>1 DEF IInv, SentOK, Passed
<1>9. TablesOK'
  <2>1. Rendered(rows)'
    BY <1>1, <1>3 DEF IInv, TablesOK, CycleOK, Rendered
  <2>2. ASSUME NEW o \in DOMAIN rows', rows'[o].accepted PROVE Passed(o)'
    <3>1. CASE o \in DOMAIN rows
      BY <1>1, <1>8, <2>2, <3>1 DEF IInv, TablesOK, Rendered
    <3>2. CASE o \notin DOMAIN rows
      <4>1. o \in DOMAIN batch /\ batch[o].accepted
        BY <1>1, <2>2, <3>2
      <4> QED BY <1>1, <1>2, <1>3, <1>7, <4>1 DEF Passed
    <3> QED BY <3>1, <3>2
  <2>3. onTrack' \subseteq DOMAIN sent' /\ \A o \in onTrack' : Passed(o)'
    BY <1>1, <1>8 DEF IInv, TablesOK
  <2>4. raw' \subseteq DOMAIN sent' /\ DOMAIN rows' \subseteq raw'
    BY <1>1 DEF IInv, TablesOK
  <2> QED BY <1>8, <2>1, <2>2, <2>3, <2>4 DEF TablesOK
<1>10. DeletedStaysOffTrack'
  <2> SUFFICES ASSUME NEW o \in onTrack', o \in DOMAIN rows', rows'[o].accepted PROVE FALSE
    BY DEF DeletedStaysOffTrack
  <2>1. CASE o \in DOMAIN rows
    BY <1>1, <2>1 DEF IInv, DeletedStaysOffTrack
  <2>2. CASE o \notin DOMAIN rows
    <3>1. o \in DOMAIN batch /\ batch[o].accepted /\ o \in onTrack
      BY <1>1, <2>2
    <3> QED BY <3>1 DEF IInv, CycleOK, TablesOK
  <2> QED BY <2>1, <2>2
<1>11. CycleEnds /\ UNCHANGED <<sent, raw, onTrack>>
  BY DEF Apply
<1> QED BY <1>9, <1>10, <1>11, CycleEndKeeps

LEMMA GivingUpKeeps ==
  ASSUME IInv, ForeignKeyFails \/ Abort
  PROVE  IInv'
<1>1. CycleEnds /\ sent' = sent /\ raw' = raw /\ rows' = rows /\ last' = last /\ onTrack' = onTrack
  BY DEF ForeignKeyFails, Abort, tables
<1>2. TablesOK' /\ DeletedStaysOffTrack'
  BY <1>1 DEF IInv, TablesOK, Rendered, Passed, DeletedStaysOffTrack
<1> QED BY <1>1, <1>2, CycleEndKeeps

LEMMA StepKeeps == IInv /\ [Next]_vars => IInv'
<1> SUFFICES ASSUME IInv, [Next]_vars PROVE IInv'
  OBVIOUS
<1>1. CASE UNCHANGED vars
  BY <1>1 DEF IInv, vars, tables, cycle, SentOK, TablesOK, CycleOK, Rendered, Passed, DeletedStaysOffTrack
<1>2. ASSUME NEW e \in Events, Arrive(e) \/ ArriveAgain(e) \/ DeletePoint(e) PROVE IInv'
  BY <1>2, ArriveKeeps, ArriveAgainKeeps, DeletePointKeeps
<1>3. ASSUME NEW d \in Devices, NEW to \in Boundaries, FetchPoints(d, to) PROVE IInv'
  BY <1>3, FetchPointsKeeps
<1>4. ASSUME NEW e \in todo, ProcessPoint(e) PROVE IInv'
  BY <1>4, ProcessPointKeeps
<1>5. CASE FetchProcessedHistory
  BY <1>5, FetchHistoryKeeps
<1>6. CASE Apply
  BY <1>6, ApplyKeeps
<1>7. CASE ForeignKeyFails \/ Abort
  BY <1>7, GivingUpKeeps
<1> QED BY <1>1, <1>2, <1>3, <1>4, <1>5, <1>6, <1>7 DEF Next

-----------------------------------------------------------------------------
LEMMA Invariance == Spec => []IInv
<1> QED BY InitHolds, StepKeeps, PTL DEF Spec

\* A point the user deleted from the track does not come back, for any number
\* of devices, events, deletions, repeated messages and failures.
THEOREM DeletedStays == Spec => []DeletedStaysOffTrack
<1>1. IInv => DeletedStaysOffTrack
  BY DEF IInv
<1> QED BY <1>1, Invariance, PTL

\* The simplified track shows every accepted point once, and a stay has every
\* row of its device between two of its own, whatever the cycles stored.
THEOREM TrackPartitions == Spec => []TrackIsPartition
<1>1. IInv => TrackIsPartition
  <2> SUFFICES ASSUME IInv PROVE TrackIsPartition
    OBVIOUS
  <2>1. \A e \in DOMAIN rows : e \in DOMAIN sent /\ rows[e].fix = sent[e] /\ sent[e].id = e
                               /\ e \in Nat /\ sent[e].at \in Nat
    BY DEF IInv, TablesOK, SentOK, Rendered, IsRow, Row
  <2>2. IsFiniteSet(Rows)
    <3>1. DOMAIN rows \in SUBSET DOMAIN sent /\ IsFiniteSet(DOMAIN sent)
      BY <2>1 DEF IInv, SentOK
    <3>2. IsFiniteSet(DOMAIN rows)
      BY <3>1, FS_Subset
    <3>3. [e \in DOMAIN rows |-> rows[e]] \in Surjection(DOMAIN rows, Rows)
      BY DEF Surjection, Rows
    <3> QED BY <3>2, <3>3, FS_Surjection
  <2>3. \A r \in Rows : \E e \in DOMAIN rows : r = rows[e] /\ r.fix.id = e /\ r.fix.at \in Nat /\ e \in Nat
    BY <2>1 DEF Rows
  <2>4. Line(Rows)
    BY <2>2, <2>3 DEF Line
  <2>5. ASSUME NEW q \in TrackRequests
        PROVE  Line(AcceptedRows(Rows, q)) /\ MinStaySec(q) \in Int
    <3>1. AcceptedRows(Rows, q) \in SUBSET Rows
      BY DEF AcceptedRows
    <3>2. IsFiniteSet(AcceptedRows(Rows, q))
      BY <2>2, <3>1, FS_Subset
    <3>3. MinStaySec(q) \in Int
      BY DEF TrackRequests, MinStaySec, OrDefault, Absent, Junk
    <3> QED BY <2>4, <3>1, <3>2, <3>3 DEF Line
  <2>6. ASSUME NEW q \in TrackRequests
        PROVE  LET shown == AcceptedRows(Rows, q)
                   stays == TrackStays(shown, q)
                   moves == TrackMoves(shown, q)
               IN /\ (UNION stays) \cup moves = shown /\ (UNION stays) \cap moves = {}
                  /\ \A S \in stays : \A r, t \in S :
                       /\ SameSegment(shown, r, t)
                       /\ \A o \in shown \ S :
                            o.fix.device = r.fix.device => ~ (Ordered(r, o) /\ Ordered(o, t))
    BY <2>5, <2>6, TrackOfLine
  <2> QED BY <2>6 DEF TrackIsPartition
<1> QED BY <1>1, Invariance, PTL
=============================================================================
