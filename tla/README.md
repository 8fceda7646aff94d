# WRANY in TLA+

WRANY records where a phone has been. An Android tracker queues location points
and sends them in batches over a WebSocket; `tracking-gateway` publishes them on
NATS JetStream; `tracking-worker` stores them, cuts them into trips and groups
the trips into routes; a web client and the phone query the result. This
directory holds TLA+ models of the parts of that path that are hard to test,
the TLC runs that check them, and TLAPS proofs of what matters most.

Paths below are relative to `src/`.

## 1. Inventory

| Component | State | Operations | Hard behaviour | What makes it correct |
|---|---|---|---|---|
| Android sender (`apps/android-tracker/.../tracking/BatchSender.kt`, `LocationQueue.kt`) | row status in `location_queue`; `inflight`, `ws`, `sessionAccepted`, refresh and auth flags | socket callbacks, flush tick, `trySendBatch`, `handleAck`, reconnect, refresh, restart | callbacks on one thread per socket interleave with coroutines at every suspension; two sockets share one listener | a row is acked only on the gateway's word; the sender stops trying only when authentication has expired or a refusal was dropped; a lost session comes back |
| Gateway ingestion (`services/tracking-gateway/internal/usecase/tracker_ingestion.go`, `transport/http/websocket_handler.go`) | `ingested_location_events` (the ledger), one handler per connection | session.start, location.batch | crash or lost reply between publish, ledger row and answer; two connections with the same point | publish before acknowledge; the ledger closes a point |
| Event bus (`libs/eventbus/nats`) | stream, de-duplication window, delivery counts | publish with PubAck, fetch, ack, nak, AckWait, MaxDeliver | lost PubAck, window expiry, late acks, redelivery, delivery limit | attempts are spent only by failures; a message is acked only after it was processed, however late the ack |
| Worker consumer (`services/tracking-worker/internal/transport/nats`, `usecase/location_event_processor.go`) | `raw_location_points`, fetched batch | fetch, store, dead letter, ack or nak | crash between insert and ack; AckWait runs for the whole batch | process before acknowledge; everything settles |
| Worker noise pipeline (`usecase/noise/pipeline.go`) | none of its own; the window it loads from `processed_location_points` | `ProcessBatch` | late points, outliers, stationary windows that rewrite rows of their batch and reach into earlier ones; points deleted while a cycle runs | a deleted point does not come back; what is computed from the rows afterwards (track, sections) is consistent |
| Worker trip detection (`usecase/trip_detection.go`, `trip_detection_job.go`, `storage/postgres/trip_repo.go`) | `trip_detection_state`, `processed_location_points`, `trips`, `trip_points` | `RunOnce` every 30 s | points out of order and late; candidates spread over batches; backdated ends; failed transactions | one active trip, trips disjoint, nothing travelled is lost, history is final |
| Worker route matching (`usecase/route_matching*.go`, `storage/postgres/route_repo.go`) | `routes`, `route_trips` | `RunOnce` | three statements without a transaction; a limit of 50 trips per cycle, in which trips that lost their points come first for ever | a trip is in one route; counters agree with it; a trip waits only behind such trips |
| Authentication (`usecase/auth.go`, `storage/postgres/token_repo.go`) | `users`, `refresh_tokens` | login, register, refresh | find, check, revoke, save are separate statements; lost answers | a token that has bought a pair is never accepted again by a later lookup |
| Browser's tokens (`apps/web/src/api/client.ts`) | one pair in `localStorage`, shared by the tabs; the queue of calls that wait for a refresh | request and response interceptors, `doRefresh` | several calls are denied at once; several tabs | every call is answered or fails; no tab is refused a token it spent itself |
| Phone's tokens (`httpClient.ts`, `tokenSync.ts`, `tokenStorage.ts`, `TrackingStatusScreen.tsx`, `BatchSender.kt`) | a pair in AsyncStorage, a pair in the service's preferences | refresh on both sides, reconciliation, hand-over, sign-in | the app and the service spend tokens on their own; a pair is written in two steps; every mount of a screen starts a reconciliation beside what is under way | somebody holds a live token as long as the app does one thing at a time |
| Gateway queries (`usecase/tracking_query.go`, `trip_query.go`, `route_*query.go`) | none | keyset pages, summary, track, fastest sections, records of a route; deletions | rows inserted, changed and deleted between two pages; two statements per page | no row twice, none left out; answers agree with each other |
| Android motion (`MotionStateMachine.kt`) | mode, time still, cooldown | location and activity events | events of two providers interleave | not modelled yet, section 9 |
| Devices, health, configuration, migrations, observability, screens and maps | tables written by single statements, or none | | I/O and rendering | not modelled, section 8 |

How they interact: the sender and the gateway exchange `session.start`,
`session.accepted`, `location.batch`, `location.batch.ack` and `error` on a
WebSocket. The gateway and the worker share the stream and the tables. Inside
the worker the consumer, trip detection and route matching run in one process
and share only tables: `raw_location_points` is written by the first and read by
the second, `trips` is written by the second and read by the third. The gateway
reads all of them and deletes from them. The phone's JavaScript, its native
service and the browser's tabs share the server's refresh tokens; the first two
copy pairs to each other. `PROJECT.json` lists the hazards, each at its line.

## 2. Modules

```
PointDelivery                 abstract promise of the ingestion path
   ^ implemented by
LocationPipeline  = TrackerIngestion (gateway) + LocationConsumer (worker)
                    over EventBus (JetStream)
   ^ theorems: LocationPipelineProofs
BatchSender                   the phone's end of the WebSocket, with the gateway's answers
   ^ theorems: BatchSenderProofs
PointTables  = the detection cycle's points, over PointQueries (the gateway's
               analyses), NoisePipeline (verdicts) and QueryRequests
   ^ theorems: PointTablesProofs
TripDetection                 the trip job over raw_location_points
   ^ theorems: TripDetectionProofs
RouteMatching                 the route job and the users' deletions over routes, route_trips
   ^ theorems: RouteMatchingProofs
TokenRotation!AuthSpec        authentication under any clients
   ^ theorems: GatewayProofs                ^ implemented by
GatewayClients = PhoneSession + WebSession (both over TokenRotation)
                 + ListBrowsing (over ListQueries, KeysetPages, QueryRequests)
   ^ theorems: GatewayClientsProofs, over GatewayProofs (tokens and lists by themselves)
MC*                           constants for TLC
```

**EventBus.** `stream` is the list of stored messages, `window` the
`Nats-Msg-Id`s still remembered, `delivery[i]` the consumer's status and attempt
count for sequence number i. `ServerAccepts` is what the server does with
`PublishMsg` (`jetstream.go:83-106`): an id in the window is acknowledged
without being stored, which `Publish` cannot tell apart. `Deliver`, `Returned`,
`ServerAck`, `ServerNak` and `AckWaitLapses` are the consumer side as
`ConsumerConfig` sets it up (explicit ack, `AckWait`, `MaxDeliver`): a delivery
that comes to nothing is ready again or, at the limit, `exhausted`. `faults`
counts infrastructure failures; every action that stands for one goes through
`Fault`, so that properties can speak of how many there were.

**TrackerIngestion.** `handler[c]` is the stack of the goroutine of connection
c inside `IngestBatch`: the events still to do, the one in hand, and the result
lists. `CheckEvent` is validation and `IsDuplicate`, `PublishEvent` /
`PublishFails` the bus call, `MarkPublished` / `MarkFails` the ledger row,
`Reply` / `ReplyLost` / `ReplyError` the answer. Each is one call, so a
`GatewayCrash` or a step of another connection falls between any two. A failure
of a call that writes leaves the write done or not. The tracker is left free: it
may send any set of points of one device at any time on any connection. That
covers retries after lost answers, two live sockets and the user's retry button.
Events of a batch are taken in any order. `told` is a history variable: what
trackers have heard is accepted or duplicated.

**LocationConsumer.** `batch` is what the worker fetched and has not handled,
`job` the message whose settlement is decided but not sent. `StorePoint`,
`StoreFails`, `DeadLetter`, `DeadLetterFails` are the branches of
`Process`; `Settle` is `handle`'s ack or nak, `SettleLost` one the server never
hears. `Redeliver` is AckWait running out for a message no process holds,
`SlowWorker` (a fault) for one that is still held. `WorkerCrash` is also the
consumer loop leaving in the middle of a batch when its context is cancelled.

**LocationPipeline** composes the three and states their properties.
**PointDelivery** is the abstract specification: a point becomes durable, then
may be told and stored, and nothing is taken back. `Promise` is the refinement
mapping: durable is the set of points on the stream, stored the raw table.

**BatchSender.** `queue` is the status column, `socket[s]` each WebSocket opened
with the messages under way in both directions, `ws` and the flags are the
fields of the class, `task[t]` a coroutine at one of its suspension points.
Every callback of the listener is an action and touches the shared fields
whichever socket it is about, as in the code. `Query` and `SendBatch` are the
two halves of `trySendBatch` around `dao.getPending`; `MarkAcked`,
`MarkFailed`, `ClearInflight` are the suspension points of `handleAck`. The
gateway's half of the socket is `GatewayStarts`, `GatewayAcks`,
`GatewayWantsSession`, `GatewayRefuses`, `GatewayCloses`. Modelling decisions:
  - `connect()` is taken with an access token in the preferences, and the socket is in
    `ws` before any of its callbacks runs;
  - `refresh` is the coroutine of `refreshAndReconnect`: `RefreshAsks`, one of
    `Refreshed`, `RefreshFails`, `RefreshCapped`, and `RefreshEnds`, the `finally` that
    sets `refreshing` to false. A refused upgrade that falls between the last two is
    sent away by `compareAndSet` and starts nothing; `dropped` is history and
    remembers it until the next `connect()`;
  - rows are in the queue from the start; insertion, `clearFailed` and
    `cleanupOld` are not actions;
  - `GatewayAcks` answers as `IngestBatch` may: any split of the batch.

**NoisePipeline, PointTables, PointQueries.** `NoisePipeline` is `ProcessBatch` as
functions: `ProcessOne` gives the row of one reading from the window of accepted
rows before it, `MarkStationaryWindow` rewrites the batch. Positions lie on a
line, in metres; the checks, ceilings, smoothing weights and radii are those of
the code. Speeds are fractions, so comparisons are exact. `PointTables` runs it
as the job does: `FetchPoints`, `FetchProcessedHistory`, `ProcessPoint` once per
point in order, `Apply`, with stores (`Arrive`, `ArriveAgain` for a second copy
of a message), `DeletePoint`, failures and crashes between any two;
`ForeignKeyFails` is the transaction whose point was deleted meanwhile.
`PointQueries` is what the gateway computes from the rows: `TrackStays` and
`TrackMoves` are the window functions of `GetTrack` as sets (segments by breaks,
maximal stretches, reclassified short moves), `GetFastSegments` the edges,
percentile, runs and ranking of the fastest sections. `QueryRequests` holds the
range checks and the status of a request.

**TripDetection.** One (user, device) pair; a point is its `recorded_at`.
`Arrive` is the consumer's insert, at most `MaxDelay` after the fact. `BeginCycle`
is the selection of the pair and the load of state and points behind the
watermark, `Take` the next point in order. `Reject` and `Process` are one
iteration of the loop of `ProcessBatch`, with one action per branch of the state
machine, and `Apply` is `buildBatch` and the one transaction. `mstate`, `mrows`,
`mtrips` are the values the transaction will write; `Abort` drops them. The
noise pipeline's verdict is a choice in `Verdicts(t)`, which keeps what ties
verdicts to each other: movement needs an accepted point no more than
`SegmentMaxGap` before, a stationary window starts at an accepted point of the
last `StationaryWindow` and holds no movement. Positions appear only as two
booleans: the candidate has covered the minimum distance (`far`), the point is
outside the stop's radius (`away`). `born` (a trip's confirming point) and
`punctual` are history. Trip events are left out: no
payload passes its own validation (section 8), so none is published.

**RouteMatching.** `status` is the trip's row, `routes` and `link` are the two
tables, `todo`, `trip`, `step`, `target` the memory of `RunOnce` and
`processTrip`, `points` whether the trip's rows still join to processed points. Each statement that writes is an action (`InsertRoute`,
`IncrRouteStats`, `InsertRouteTrip`), since no transaction holds them together;
what `processTrip` reads before its decision is one action, `Match` or `NoMatch`.
`MatchBlind` is the branch that leaves out candidates whose template fails to
load, `ForeignKeyGone` a write that refers to a row deleted meanwhile,
`StatementFails` an error with or without effect, `WorkerCrash` the end of the
process. The gateway's `DeleteTrip` is one transaction and cascades; `DeleteRoute`
is one statement. `DeletePoint` is the gateway's deletion of a raw point: the processed row goes with it
(migration 0008), `trip_points` and `trips.points_count` stay, so the trip is selected as
before and, once fewer than `MinTripPoints` rows join, skipped in every cycle (`Skip`).
Modelling decisions:
  - of a trip's points the model knows whether all are left, some were lost, or fewer
    than `MinTripPoints` are left (`Left`), and of a route's template whether it was drawn
    from all of them; between a trip and a route that both lost nothing `Similar`
    decides, otherwise whether they match is left open;
  - a trip is its place in the order of `created_at`; paths appear as the relation
    `Similar` between a trip and the trip whose points are a route's template. It
    is reflexive (a trip matches the route made of it) and nothing else: it need
    be neither symmetric nor transitive. Which of several similar routes wins is
    left open, as scores are not modelled;
  - an active trip is not deleted: `trip_detection_state` refers to it;
  - an id of `routes` may come back after the route is deleted and is not in the
    table twice; the code draws UUIDs, of which the model needs no more;
  - `route.matched.v1` is left out, no stream takes its subject.

**KeysetPages, ListQueries, ListBrowsing.** `KeysetPages` is the pagination all
lists share: rows beyond the cursor in the list's order, one more than the
page, the last row kept as the next cursor. `ListQueries` states what each list
selects from the tables, the limits, `GetSummary`, `GetRouteResult` (the ranked
attempts) and the best trip. `ListBrowsing` is one client paging to the end: one
action per handler, with the second statement of the route's lists
(`FindRoute`, `FindBest`) an action of its own, while every writer of the
tables may step in between: points that arrive late or now, trips that start,
end or are backfilled, the three statements of matching, the users' deletions
with their cascades. `steady` is history: the records that stood unchanged since
the first page. `TablesOK` is what the schema promises of the tables (primary keys,
one link per trip, references) and that identifiers and write times are new; the first
tables keep it (`ListsAssumption`), and that every statement keeps it is proved.
`Sorted` gives each row the place its rank in the order says, which is what
sorting by a total order comes to and, unlike a sort that is a fold, can be reasoned about.

**TokenRotation.** `tokens[i]` is the i-th row of `refresh_tokens` and the access
token signed with it; `exchange[f]` the request of flow f. `FindToken`,
`RevokeToken`, `SaveToken`, `CreateUser`, `FindUser` are one statement each;
`StatementFails` is an error before or after it took effect; `ExchangeBreaks`
loses the request or the answer, and the handler, when it runs on, becomes the
`Ghost` flow. Access and refresh tokens expire by the clock `now`. `parent`,
`asker` and `seen` of a token are history. `AuthSpec` is the abstract system:
the handlers with flows that ask, hear and hang up as they like, one request at
a time per flow.

**WebSession.** `store` is the browser's `localStorage`, shared by its tabs, and
`calls[c]` a call of one tab. `Deny` is the response interceptor: a call that gets
401 starts the tab's refresh, waits for the one in flight, or clears the store.
`Refreshed` and `RefreshFails` finish the queue. A second tab is a second flow with the
same store: two tabs can spend each other's token, and the one refused signs both out.

**PhoneSession.** `js` and `native` are the two stores; `job` is the app's shared
refresh or a sign-in, with the number of writes of its answer, and `tasks` are the
asynchronous functions under way. A mount of a screen starts one, at any time:
`AppOpens` (`App.tsx:17-26`), `SignedIn`, and `Remounts`, the user's switch to the other tab
and back (`App.tsx:65-70`, `TrackingStatusScreen.tsx:102-106`); so does the button,
`UserEnables` (`handleEnable`). Nothing ends a task when its screen is unmounted, and
nothing keeps two apart. Every await is a place where another task may go on: `ReadNative`,
`Reconcile`, `Adopt` are `syncTokensFromNative`, `AfterSync` what follows it
(`autoConnectIfReady`; the permission to know where the phone is may be missing), `Begin`
what `startNativeTracking` and `refreshNativeCredentials` read before the token is fresh,
`HandOver` the `updateTokens` or `enableTracking` after it. Several tasks wait for one refresh
(`RefreshOnce`, `RefreshDone`). A login that is refused is sent once more after a refresh with
whatever the store holds (`LoginRefused`): `apiFetch` takes its 401 for that of an expired
token (`httpClient.ts:100-110`; `authApi.ts` passes no token of its own). The service
refreshes with what is in `native` and stops when refused. Minutes do not pass between
two awaits of a task that waits for no answer (`AtRest`); `clearTokens` is one step.

`overlaps` and `excused` are history. An overlap is a task that starts beside another.
`excused` says whether something has happened since the last sign-in that may cost the
session and is not one task's doing: it is true before the first sign-in and after
  - a fault (a failing statement, a broken connection): an answer may be lost after
    the old token was revoked, and no client can repair that;
  - the app being closed in the middle of a request or of an adoption;
  - a refresh token that grows older than its time to live while it is the last one
    or while a request is under way: the gateway refuses what it was about to spend;
  - an overlap: two tasks side by side do lose the session (section 5). The excuse
    is a condition the code does not establish, and named so in `SessionSurvives`.

**GatewayClients** composes the three over one authentication; `open` says what
the user has open (the phone, two tabs, or a list). The three share no state but the
gateway's, and the lists touch no tokens, so their product would add nothing to
their properties. The property `AuthSpec` says that whatever the clients do is
something `TokenRotation` allows.

## 3. Runs

| Run | Module, specification | Checks |
|---|---|---|
| `pipeline` | LocationPipeline, `FairSpec` | publish before acknowledge, process before acknowledge, the ledger closes a point, attempts paid by failures, the inductive invariants, refinement of PointDelivery; everything settles and confirmed points are stored |
| `pipeline_exhausted` | LocationPipeline, `FairSpec` | finding: no dead letter at MaxDeliver |
| `sender` | BatchSender, `FairSpec` | acked is confirmed; the sender gives up in two cases only, has one connection, and its session flag is about it; points in flight wait for something under way; a lost session comes back |
| `sender_race` | BatchSender, `FairSpec` | finding: a batch stays in flight for ever |
| `sender_reconnect` | BatchSender, `FairSpec` | finding: a forced reconnect loses the new socket |
| `trips` | TripDetection, `Spec` | the table and the detection row agree, trips disjoint and with their points, punctual points are not late, history final |
| `trips_silence` | TripDetection, `Spec` | finding: a silence in STOP_CANDIDATE does not end the trip |
| `routes` | RouteMatching, `FairSpec` | counters against links in both directions, one route for one path, every completed trip is routed, deleted, short of points or behind a cycle full of short trips |
| `routes_delete` | RouteMatching, `Spec` | finding: deleting the trip matched last deletes a route it did not seed |
| `tracks` | PointTables, `Spec` | a deleted point stays off the track; stays and moves partition the accepted points; fastest sections are unbroken, long and fast enough, disjoint and ranked |
| `tracks_gap` | PointTables, `Spec` | finding: a distance is measured across a gap |
| `gateway` | GatewayClients, `Spec` | a token is spent once, a client is refused only for age or for a rival, the phone's session survives whatever one task at a time does, every browser call settles, the clients implement `AuthSpec`; finished listings are in order, complete and without repeats; summary and records agree with the lists |

Bounds, and why they are enough:

  - `pipeline`: one device, a valid and an invalid point, a message of another
    producer that does not decode, two connections,
    `MaxDeliver` 2, fetches of two, two faults, two messages on the stream: the
    point and either the message that does not decode or a second copy of the
    point. Two connections with one point and one expiry of the window are what a
    second copy needs; two faults are a lost PubAck followed by a lost answer or a
    crash, or two failed deliveries, which is what giving up takes. Batches hold
    one point: a larger batch adds only partial results, and every safety
    property of the run is proved for batches of any size (section 6).
  - `sender`: two points in one batch, so verdicts can differ; three sockets (the
    old, the new and one more), two coroutines at a time, and any two
    (`MaxTroubles`) of broken connections, failed refreshes, restarts, refusals
    and forced reconnects. Two refusals, one on each side of a refresh, are what dropping the
    second takes. Every race found needs at most two sockets and two coroutines; `MaxSockets` is what two troubles can use up at most unless the user
    forces a reconnect, so liveness is not cut off by it.
  - `trips`: six instants and five points make two trips with a stop or a
    silence between them; arrival up to two late with a window of one gives
    punctual and late points; all limits are 1 or 2 so that each comparison is
    met from both sides. `StationaryWindow` > `StopMinDuration` lets a stop be
    dated back to an earlier batch. The production order
    `SegmentMaxGap` < `StopMinDuration` is reversed in the run: with it a point
    after a silence is never moving, and two branches could not be reached.
  - `routes`: three trips in a chain, each similar to its neighbours only, so a trip
    can match two routes that do not match each other; two per cycle, so that
    trips wait behind others; two failures and two deletions, enough to count a
    trip twice, to lose the route and then the trip in the job's hand, or to make the
    two trips short that fill a cycle in front of the third.
    `MaxRoutes` never binds: as long as a trip's own route is there, only `MatchBlind`,
    or a point lost since, makes it another, and no state has more than five routes.
  - `tracks`: the production noise settings. One device's four readings, each
    with alternatives (stand, step, walk, jump, wait out a gap longer than 120 s),
    make every verdict but those of accuracy; the second device's reading at the same moment tells
    segments of devices apart. Two watermarks, so a batch may be cut anywhere;
    one deletion, one second copy, one failure. `LateWindow`, `Lookback` and
    `HistoryLimit` are production values too.
  - `gateway`: TTLs of two and a `Margin` of two, so the app finds an access
    token stale that the gateway still takes; three moments, one
    fault or one overlap (they share `MaxFaults`), nobody signs in once three tokens are
    saved, and the app has two tasks at most. Two calls in one tab (one starts the refresh,
    one waits) and one in another tab. The lists have ties in every order, pages of one row and of
    the default size, and two changes of the tables anywhere; one change makes
    most repeats and gaps, the second one undoes or moves what the first did.
  - `MaxStream` bounds the window's expiry and the other producer through
    `LocationPipeline!Room` (neither happens when the stream could not take another
    copy of every valid point), so no publish is ever disabled by the bound; `MaxFaults`, `MaxRefusals`, `MaxNudges`, `MaxChanges`,
    `MaxDeletes` and `MaxRepeats` bound what nature and the user do. `MaxTasks` disables a
    step that would launch a third coroutine.

Deadlock is not checked where the bounds make the system stop: all points stored,
clock at its end, faults spent, the list read.

## 4. Fairness

`LocationPipeline!FairSpec`: a handler that started a batch runs on (goroutine),
the worker's loop keeps fetching, handling and settling (`Consume` is an endless
loop that also continues after errors), and AckWait is a timer of the server.
Nothing is assumed of trackers, of the window or of failures, and failures are
bounded in number, not in time. `BatchSender!FairSpec`: callbacks of a live socket
are delivered, launched coroutines run, a delay ends, a refresh ends, the flush tick
returns every 15 s, the gateway's read loop answers. Nothing obliges a
connection to break or the user to act. Weak fairness suffices everywhere:
each of these steps stays enabled until it is taken, or is taken over by another
that is also fair. `RouteMatching!FairSpec`: the ticker starts `RunOnce` again and
again and `RunOnce` goes on to the next trip after any error, so some step of the
job is taken whenever one is possible; failures and deletions are bounded in
number and nothing obliges them. `GatewayClients!Spec`: a request of a browser tab that reached the gateway is answered
(`Handle`), a call that was sent gets its answer (`Serve`, `Deny`), and the promise of the
refresh runs its callbacks (`Refreshed`, `RefreshFails`). Nothing is assumed
of the phone, of time, of the user or of faults. TripDetection and PointTables have
safety properties only: a trip need not end if the phone never sends another
point.

## 5. Findings

  1. **No dead letter at the delivery limit** (`pipeline_exhausted`,
     `libs/eventbus/nats/consumer.go:26`). docs/architecture/event-bus.md:95
     promises one.
  2. **An `error` answer stops the sender** (`sender_race`, `BatchSender.kt:139`).
     It is only logged, `inflight` stays set, nothing more is sent until the
     connection breaks. The protocol document says the client keeps the event
     pending and retries.
  3. **Check-then-suspend in `trySendBatch`** (`sender_race`, `BatchSender.kt:268`).
     The batch may go to a socket that has no session yet, which runs into 2.
  4. **Forced reconnect** (`sender_reconnect`, `BatchSender.kt:174`). The old
     socket's `onClosed` clears the new `ws`.
  5. **Silence in STOP_CANDIDATE** (`trips_silence`, `trip_detection.go:232`). The
     trip is extended by a point that comes after any gap.
  6. **Deletion of a route's last trip** (`routes_delete`,
     `tracking-gateway/internal/storage/postgres/trip_query_repo.go:163`). The
     comment of `DeleteTrip` (`usecase/trip_query.go:81-82`) speaks of routes seeded by
     the trip; the statement also deletes routes whose `last_trip_id` it is, with
     the links of all their other trips.
  7. **A mark lost to a stationary window** (`tracks_gap`,
     `noise/pipeline.go:87`, `markStationaryWindow`). The row after a long gap
     is marked `segment_break` and, when a stationary window of its batch covers
     it, `stationary` instead. `lastAnchor` of the next batch passes over it and
     measures the next step from before the gap, against
     `domain/processed_location_point.go:116-118`. `PointQueries!Segment` loses the
     boundary with it.

Noticed while modelling, without a run of their own: `tokenSync.ts:11-12` says that its
helpers "keep the two stores reconciled to avoid wrongly logging the user out". That is
so while the app does one thing at a time, remounts included: the `gateway` run checks it.
Of two tasks side by side it is not, in two ways TLC shows when `SessionSurvives` does not
excuse an overlap, without any fault:
  - a torn pair: one reconciliation has written the access token of the service's newer
    pair and not yet its refresh token (`tokenStorage.ts:10-11`); the other reads the store,
    takes what it finds for the newer pair and pushes [new access, spent refresh] over the
    service's good one;
  - a stale push: two reconciliations have read the service's pair, whose refresh token is
    spent; the first pushes the app's pair, the service refreshes with it, and the second
    pushes the same pair over the one the service was given. The app holds nothing else.

A switch of tabs at the wrong moment is enough (`App.tsx:65-69`). Even a single task hands
over a spent token: `startNativeTracking` and `refreshNativeCredentials` read
`getRefreshToken` beside `getValidToken` (`TrackingStatusScreen.tsx:176-177`, `:195-196`), so after
a refresh the service gets the new access token with the refresh token just spent, against
`tokenSync.ts:52-53`; the next reconciliation repairs it, if it comes before the access
token expires, and otherwise the service is refused and waits for one. The button is
harsher: `handleEnable` refreshes before it reconciles, so when the service has spent the
app's refresh token in the background it wipes the tokens and shows the sign-in
(`TrackingStatusScreen.tsx:222-230`) while the service still has a good pair.

`refreshAndReconnect` calls `connect()` before its `finally` clears `refreshing`
(`BatchSender.kt:197`, `:202`). When the new socket is refused in between, the second refresh is
sent away by `compareAndSet` and the sender is left without a socket, a timer or a refresh
although authentication has not expired; only the user or a restart of the service
brings it back. It takes a network round trip within two statements of one coroutine.
`NeverGivesUp` and `SessionRecovers` name it as their second exception (`dropped`), and the
`sender` run reaches it.

Two tabs of one browser refuse each other's refresh and the loser signs both out
(`RefusedOnlyToRivals` says it takes a rival); `handleEnable` wipes good tokens also when the
network fails; a login with a wrong password spends the stored refresh token, if there is one; the
documentation of `GetTripPoints` lists a 404 it never answers
(`trip_handler.go:179`).

## 6. Proofs

TLC answers for the instances above; TLAPS for every value of the constants:
any number of points, connections, sockets, coroutines and faults, any
`MaxDeliver`, any length of the stream, any number of trips, routes and deletions
and any similarity of paths, any settings of the trip detection and any cut of its
points into cycles, any number of clients and of tokens.

| Theorem | States | Rests on |
|---|---|---|
| `LocationPipelineProofs!TypeCorrect` | `[](TypeOK /\ ReadyHasAttemptLeft)` | itself inductive |
| `LocationPipelineProofs!Durable` | `[]ConfirmedIsDurable` | `Backed` |
| `LocationPipelineProofs!Processed` | `[]AckedIsProcessed` | `DecidedIsProcessed` |
| `LocationPipelineProofs!GivenUpLate` | `[]GivenUpOnlyAfterFaults` | `AttemptsArePaid` |
| `LocationPipelineProofs!RawIsValid` | `[]RawCameThroughBus` | `OnlyValid` |
| `LocationPipelineProofs!Implements` | `DeliveryPromise` (the abstract `PointDelivery!Spec`) | `Backed` |
| `LocationPipelineProofs!LedgerCloses` | `LedgerClosesPoint` | `TypeInv` |
| `LocationPipelineProofs!BooksAreKept` | `[]Bookkeeping` | the inductive invariants of the above together |
| `BatchSenderProofs!TypeCorrect` | `[]TypeOK` | itself inductive |
| `BatchSenderProofs!AckedHonestly` | `[]AckedIsConfirmed` | `AcksAreConfirmed` |
| `BatchSenderProofs!KeepsTrying` | `[]NeverGivesUp` | `StillTrying` |
| `BatchSenderProofs!ConnectsOnce` | `[]OneConnection` | `Calm` |
| `BatchSenderProofs!SessionBelongs` | `[]SessionIsOwn` | `Calm` |
| `BatchSenderProofs!FlightsAreAnswered` | `[]InflightIsAnswered` | `Calm`, `Steady` |
| `RouteMatchingProofs!TypeCorrect` | `[]TypeOK` | `BlindIsFault` |
| `RouteMatchingProofs!OnePath` | `[]OnePathOneRoute` | `StillNone` |
| `RouteMatchingProofs!CountsCover` | `[]CountCoversLinks` | itself inductive, with the types |
| `RouteMatchingProofs!CountsAreOwed` | `[]DriftIsPaid` | `InHand`, `NoDeadLinks`, `CountIsOwed` |
| `TripDetectionProofs!DetectionTypes` | `[]TypeOK` | `IInv` |
| `TripDetectionProofs!OneTripIsActive` | `[]OneActiveTrip` | `TripIsOpen` |
| `TripDetectionProofs!TripsStayApart` | `[]TripsAreDisjoint` | `TripsAreTimed`, `Ordered` |
| `TripDetectionProofs!PointsReachTheirTrip` | `[]TripsKeepTheirPoints` | `Complete`, `InHand` |
| `TripDetectionProofs!PunctualPointsAreKept` | `[]PunctualIsNotLate` | `InTime` |
| `TripDetectionProofs!CompletedTripsStay` | `HistoryIsFinal` | `Later` |
| `GatewayProofs!AuthTypes` | `AuthSpec => []AuthTypeOK` | `Typed` |
| `GatewayProofs!SpentOnce` | `AuthSpec => []TokenIsSpentOnce` | `TokensOK`, `FlowOK` |
| `GatewayClientsProofs!ClientsImplementAuth` | `Spec => AuthSpec` (the clients implement the authentication's specification) | `CInv` |
| `GatewayClientsProofs!ClientTypes` | `[]TypeOK` | `CInv` |
| `GatewayClientsProofs!ClientsSpendOnce` | `[]TokenIsSpentOnce` | the first, and `SpentOnce` |
| `GatewayClientsProofs!RefusedToRivals` | `[](open = "tabs" => RefusedOnlyToRivals)` | `FairInv`, `TabsInv` |
| `GatewayClientsProofs!ListIsFaithful` | `[]ListingIsFaithful` | `ListInv` |
| `GatewayClientsProofs!RecordsOfOneMoment` | `[]RecordsAgree` | `Stored` of `ListInv` |
| `PointTablesProofs!DeletedStays` | `[]DeletedStaysOffTrack` | `IInv` |
| `PointTablesProofs!TrackPartitions` | `[]TrackIsPartition` | `IInv`, the order of the rows |

**Assumptions.** `BusAssumption`, `IngestionAssumption`, `SenderAssumption`,
`RouteAssumption`, `DetectionAssumption`, `TokenAssumption`, `WebAssumption` and
`PhoneAssumption` type the constants (`RouteAssumption` also says that a trip matches
itself, `PhoneAssumption` that the app and the service are two flows: they refresh by
separate requests, from JavaScript and from Kotlin; and that the margin `bufferSec`,
60 seconds in `jwt.ts:40`, is not zero). `ListsAssumption` says that the
tables a list is read from keep the schema's promises and that a query is of a list
and has its fields. One promise is more than a key of a table: points are told apart by
their `event_id` alone, as the cursor of `GetPoints` does, though the primary key is
per device; it is `UniqueEventIds` again. `Durable`, `Implements` and `BooksAreKept` also assume `UniqueEventIds`, that no two
points share an `event_id`. The protocol promises it per device only and
JetStream's window does not look at the device, so this is an assumption about
clients (they draw UUIDs), not about the code; the other theorems do without it.

**Type correctness** of the pipeline needs one fact that is not a type: a ready
message has an attempt left. Without it `Fetch` could push the counter past
`MaxDeliver`; with it the two are inductive together.

**Durable.** `ConfirmedIsDurable` is not inductive. The ledger row is written from
the goroutine's memory, so what the goroutine holds between `Publish` and
`MarkPublished` must already be on the stream; and `Publish` succeeds without
storing anything when the id is in the window, so an id in the window must stand
for a message. `Backed` adds exactly these two. Only `ServerAccepts` uses
`UniqueEventIds`: the id in the window then is this point's own.

**Processed.** A settlement is decided in one step and sent in another, and a crash,
a lapse or a redelivery may come between; `DecidedIsProcessed` carries the fact
that an ack is only decided once the row or the dead letter exists. `raw` and
`deadLetters` only grow, so it does not matter how late the ack arrives.

**GivenUpLate.** An attempt is counted at delivery and justified later. The
invariant says that every attempt but the open one has been paid for by a fault,
where the open one belongs to a message the worker still holds and has not
decided to nak. A crash is one fault and opens up every held message at
once, which is why the bound is on faults and not on faults per message.

**Implements.** `durable` is the set of points on the stream, `told` the answers
heard, `stored` the raw table. `Reply` is `Tell` (what it tells is durable by
`Backed`), `StorePoint` is `Store` (what was delivered is on the stream), a
publish that is stored is `Persist`, and every other step stutters. A retry that
stores a second copy after the window has closed is a stutter too.

**AckedHonestly.** A row is marked acked by a coroutine that took the list from a
message that took it from the gateway, with a socket breaking and the service
restarting in between. `AcksAreConfirmed` holds of every ack on every socket's
way back and of every coroutine that is about to mark rows; `confirmed` only grows.

**KeepsTrying.** The property counts sockets, timers and the refresh; its invariant
does not. `StillTrying` says that one of them lasts: a socket that has been told to close,
or is about to hear so, does not count, because `onClosed` schedules nothing. It is told so
only by `reconnectNow`, which opens another in the same step. What is left is expired
authentication and `dropped`: a refresh that is begun or asked still ends in `connect()` or
`authExpired`, but one that is over does not, and a refusal may find it there.

**ConnectsOnce**, **SessionBelongs.** As long as no reconnect is forced, nothing is
closed from this side, so a socket is left only by failing, and a failure starts one timer
or one refresh (`Single`). `Agreed` says what the two ends of a socket owe each
other: one `session.start` per connection, and an acceptance on its way back speaks of a
session the gateway has. `Own` needs both. The condition is stated on the allowance of
forced reconnects, which `StepWithin` shows is never given back.

**FlightsAreAnswered.** On top of `Calm`, while nothing at all goes wrong: a batch is
sent only with a session and read with one (`Steady`), so its answer is an ack; what
clears `inflight` early, the ack of an older batch, makes the property easier and not
harder.

**OnePath.** The route is inserted one statement after the search that found no
candidate. `StillNone` says there still is none: only the job adds routes, what
users do removes them, and a route keeps the template it was created from; `read`
remembers whether the points read were all of the trip's, whatever is deleted since. With two
workers it would fail.

**CountsCover** and **CountsAreOwed.** Every write is one of three, reported or
not (`StepWrites`), and the lemmas `RouteAdds`, `CountAdds`, `LinkAdds` say what each does
to a counter and to the number of links; so a failed statement needs no case of its
own. Upwards the invariant is inductive because the count comes before the link.
Downwards it is not: the link must add a trip that was not linked yet (`InHand`), and
when the trip in hand is deleted between count and link, the deletion has already
paid for the count that the failing foreign key leaves behind; `Pending` is `Open`
without such trips.

**Trip detection.** The six theorems rest on one invariant. `Sound` says what a
detection row, the trips and the classes of the points owe each other; it holds
of the tables and of the values a cycle has in memory, so a commit and an abort
both keep it. Its points that are not obvious: a trip starts at a point that showed
movement, and a stationary window holds none, so the stop of a pause starts after the trip
did and a backdated end cannot precede the start (`PausePreserves`); a candidate starts
after everything that belongs to a trip, so neither a new trip nor its backfill
reaches into an old one (`RowIsTimed`, `Ordered`). `InHand` says that the
candidates in memory are the last accepted points, which is what lets
`backfillTripPoints` fetch only what lies before the first of them. `InTime` puts everything processed
behind the boundary, and a punctual point that has no row either
among the cycle's points or after all of them. Of the verdicts the proof uses only
that window: it holds for every noise pipeline that keeps it.

**SpentOnce.** A token that is looked up, found good and revoked in three statements may
be looked up by a second exchange in between, so "a token buys one pair" is false;
what holds is that whoever looks it up after the first pair was saved is
refused. Two facts carry it: a token that has bought a pair is revoked, and an exchange
between lookup and save saw, at its lookup, none of the pairs bought since
(`TokensOK`, `FlowOK`). The clients of `AuthSpec` are arbitrary.

**ClientsImplementAuth.** The phone and the browser are such clients. Their step is a
step of `AuthSpec` if they ask with a token that was saved and have nothing else under
way. The first needs the types of every place a pair is kept in (both stores of the
phone, its tasks, the browser's store, its calls), and that the pair of an answer was
saved (`FlowOK`). The second, `AskersOK`, is the point: a tab looks at its own
request, but `refreshOnce` looks only at the app's shared promise. So that promise must be
there exactly while the app asks, and no task may reach `getValidToken` while the
app signs in, or waits for the refresh of a refused login: the screens see to it, and the guard of `UserSignsIn`, which says that
nobody types a password faster than a task gets past its reads of the store. `ClientsSpendOnce` then follows from `SpentOnce` without
another induction.

**RefusedToRivals.** Who is refused a token that has not expired is refused because it
was revoked. While nothing fails a revoked token has been spent, or is being spent, by
some flow (`FairInv`); so it is enough that no flow asks with a token it has spent
itself, unless another one has spent it too (`AsksFairly`). For the tabs that is
because a tab stores its new pair in the step that hears of it (`TabsInv`: whoever spent the
stored token has not heard its answer yet). Of the phone the same is only model-checked.

**ListIsFaithful.** A page is the first rows beyond the cursor, so what stood all the
time is listed or lies beyond the last row (`Covered`). That no record comes twice
needs more, because rows change between two pages: a route that is matched again and
a trip that is linked anew come back under another key. `InSequence` says that such
a key is later than the one listed, which in a list of the newest first is before the
cursor; it is inductive because identifiers and write times are never reused
(`Evolves`, proved for each of the eleven statements that write). `Undisturbed` is the
case without writes, down to the best attempt, which `FindBest` looks up once per page.
Sorting by rank is a bijection in order (`RankSorts`) and the only one
(`SortingIsUnique`), so the rest after the k-th row is the list from k + 1 on.

**RecordsOfOneMoment** takes of the same invariant only the tables' promises. `Fastest`,
the window function's first rank, is the first row of the sorted attempts because the
order is total (`FirstIsFastest`); a route's trips are there because of its references.

**DeletedStays.** A cycle reads points, computes, and writes in a later step; the
user deletes in between, and a second copy of a message may store the point again
after it. What protects the track is the checkpoint: whatever was accepted, in the
table or deleted since, the checkpoint of its device has passed, and what a cycle has
accepted but not applied it has not (`CycleOK`). So what a cycle writes as accepted
was never on the track before, and a deleted point that is stored again is computed as a
late reading, which the pipeline does not accept (`VerdictIsRow`) and a stationary window
does not change (`MarkingKeeps`).

**TrackPartitions.** `GetTrack` forms stretches by window functions over the rows of a
device in order. The order of (`recorded_at`, `event_id`) is total, so a stretch is a class of
an equivalence (`StretchIsClass`) and has no holes (`StretchIsUnbroken`), before and
after short moves are reclassified: the lemmas hold for every labelling of the rows.

**How they compose.** A row the phone calls acked is confirmed (`AckedHonestly`);
`confirmed` there and `told` in the pipeline are the same answers, so it is on the
stream (`Durable`); and a message the consumer acked is in the raw table or the
dead letters (`Processed`). So nothing leaves the phone's queue before the system
holds it. The three are proved separately; the joint between `confirmed` and
`told` is by reading, no module composes the two yet.

## 7. Only model-checked

  - Liveness (`EverythingSettles`, `ConfirmedIsStored`, `SessionRecovers`,
    `EveryTripIsRouted`, `EveryCallSettles`): fairness and ENABLED are out of the
    prover's reach.
  - The phone's half of `RefusedOnlyToRivals`, and `SessionSurvives`.
  - `FastSectionsAreFast`: the percentile sorts speeds and the distance of a section is
    a sum; both are folds, and the prover has no induction over data.
  - What `ProcessBatch` computes for a given batch: a fold over the readings. The proofs
    about the tables hold for every verdict it may give.

## 8. Not modelled, and why

  - The motion state machine: planned, section 9.
  - Two devices that use one `event_id` within the window, and two workers on one
    database: `PROJECT.json` has them as hazards, the models assume them away.
  - The sphere: positions lie on a line, so no property depends on a turn. Accuracy of
    readings is one value in the runs; the code's two accuracy verdicts are in `Validate`.
  - The scores of route matching (`FindBestMatch` beyond "a similar route wins").
  - In the clients: sign-in and logout of the browser, network failures of its calls
    (a failed refresh is there), `MAX_REFRESH_ATTEMPTS`; in the gateway's
    authentication: passwords, validation, and all accounts but one.
  - A hand-over or an adoption that stays suspended for minutes (`AtRest`): the
    service may then have refreshed, and the older pair overwrites the newer one.
    Closing the app is one of the faults, and excuses the session only in the
    middle of a request or of an adoption.
  - A reconnect intent to a stopped service recreates its sender; `HandOver` treats it
    as running from then on.
  - A trip ends only when a later point is processed: a phone that is switched off leaves
    its trip active. `PROJECT.json` has it as a hazard.
  - Speeds in the summary, the polyline of a route (`GetRoutePoints`), `GetMe`, the list
    of devices: one statement that reads.
  - Device registration and health: one statement on a unique key each.
  - Migrations, configuration, start-up: run once before anything else.
  - Metrics, logs, traces: no effect on the rest.
  - Screens, maps and the generated API client: rendering.
  - Trip events on the bus: none passes its own validation
    (`trip_detection_job.go:209` and `:223`), there is nothing to observe. `route.matched.v1` has no stream.
  - Frame sizes, pings and read deadlines of the WebSocket: they appear as a
    connection that breaks.

## 9. Plan

Modules, in order:

  1. `MotionStateMachine`: modes, cooldown and the time still; sampling never stops
     while the phone moves.
  2. `EndToEnd`: BatchSender's gateway replaced by TrackerIngestion, so that the
     joint of section 6 becomes a refinement, and its refresh by PhoneSession's.
  3. TripDetection over PointTables in place of the contract `Verdicts`.
  4. Devices: registration against the ownership check of `session.start`.

Proofs: the joint of `EndToEnd`; the contract `Verdicts` of TripDetection as a theorem
about `ProcessBatch`, as far as it needs no induction over the readings. The order is
by what is lost when it breaks: points first, then trips, routes, sessions, answers.
