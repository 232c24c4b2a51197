# Verification of WhaleTale

WhaleTale counts people per zone on a box in the shop ("edge"), ships rolled-up
buckets to a cloud service, and there attributes them to the occupants of the
spaces, raises alerts and bills the site. This directory holds TLA+ models of its
core, TLC configurations that check them on small instances, and proofs of the
main results that TLAPS checks.

All paths below are relative to the repository root; `api/` is
`cloud/whaletale_cloud/api/`.

## 1. The system

### Parts, state, operations

| Part | State | Operations |
|---|---|---|
| Zone counter, `edge/agent/counter.py` | live and parked tracks, inside count, statistics of the bucket | `update`, `end_track`, `accrue_to`, `finalize` |
| Aggregator, `edge/agent/aggregate.py` | start of the bucket in progress | `update` (roll, then count), `end_track`, `close` |
| Pipeline, `edge/agent/pipeline.py`, `decode.py`, `calibration.py` | a thread per camera with its newest frame; drift detectors; totals per bucket; health window | `run`, `on_bucket`, `_check_drift`, `_flush_camera_health`, `close` |
| Store, `edge/agent/store.py` | SQLite tables `observation`, `site_total`, `camera_health`; `synced_at` is the watermark | write (upsert and re-arm), read unsynced, mark, prune |
| Sync, `edge/sync/client.py`, `sync_cli.py` | `last_sync_at`, in memory | `push_once`, `drain`, `heartbeat` |
| Ingest and heartbeat API, `api/ingest.py`, `api/heartbeat.py`, `api/deps.py` | Postgres rows | upsert of rows, insert of a heartbeat |
| Zone versions, `api/operator/routes.py`, `validation.py` | `zone_versions`, never deleted | `reshape_zone` |
| Attribution, `attribution.py` | none; reads versions, observations, tenancies | `attribute_space` |
| Tenancies, `api/operator/routes.py`, `validation.py`, `schedule.py` | `tenancies` | create, delete, read the occupant and the grid |
| Billing, `billing.py` | `subscriptions`, and the payment service's copy | `handle_webhook`, `preview_change`, `apply_change`, `is_read_only` |
| Fleet, `fleet.py` | `alerts` | `evaluate_fleet`, `sync_alerts` |
| Reports, `report.py`, `normalization.py`, `metrics.py` | none; the queries of a request read what is committed | `build_report`, `normalize_space`, `iter_daily_anomalies` |
| Console (`web/`), detector, onboarding tools | | clients, inference, I/O: see section 8 |

### How they interact

The agent (camera threads and one loop) and the sync process are two processes on
one SQLite file, and nothing but single-statement transactions lies between them.
The sync process reads unsynced rows, POSTs them and marks them by key. The cloud
runs every request in a transaction under READ COMMITTED; the console, the box, the
payment service and the scheduled evaluation reach the same tables at the same
time, and almost nothing locks. Zone versions tie the two sides together: the box
counts with the versions in its site file, read once at start, while editors
reshape zones in the cloud.

### What is hard

* Two processes on the watermark: a bucket may be rewritten while it is shipped.
* A request may be lost, refused, answered into the void, or executed after a later one.
* Crashes of agent and sync between any two statements.
* Power that fails between a commit and the disk, on a box whose rows are already sent.
* An API that answers before it commits.
* Frames, lost tracks, bucket boundaries, grace windows and shutdown in any order.
* Cameras that stall: buckets arrive late, totals have been written.
* Check-then-write transactions that interleave: zones, tenancies, alerts, quantities.
* Calls to a service that cannot be taken back when the commit is lost.
* Retries and reordering of webhooks; time windows that are set again.
* Answers made of many queries, with payloads arriving in between; weeks that differ in
  length when the clocks change.
* Sweeps and flags that live in memory and meet threads that come and go.

`PROJECT.json` lists these hazards line by line, with the properties that cover
each, or why none does.

### What makes each part correct

| Part | Property |
|---|---|
| Upload | what is marked synced was answered for, and agrees with the cloud unless it was rewritten on its way; no bucket is lost but by a commit that fails behind its answer; what was on the disk survives a power loss; the backlog drains |
| Counting | each entry is exactly one visit; nobody is counted as two heads; times fit their buckets; grace windows close |
| Totals | a total is the sum of its rows, is written once, and no shutdown leaves one out |
| Cameras | a camera that has failed or moved is reported, a passing change of light flags none, and a moved one is not counted |
| Zones | one shape per space and instant; no lost update; history is fixed |
| Attribution | what a report said stays, however late rows arrive |
| Tenancies | nobody is double booked; grid and attribution agree |
| Billing | the row follows the service, however events are delivered; nobody is shut out early; the billed quantity is the service's |
| Reports | the parts of one answer agree; a baseline is made of the same weekdays; a rank is behind all that are better and before all that are worse; occupancy spans cover the period |
| Alerts | one open row per key; a silent box is found; open rows become what is wrong |

## 2. Modules

| Module | Models | Builds on |
|---|---|---|
| `DurableUpload` | abstract: where each row is, what the cloud has answered for (`owed`) and may yet store or drop; the edge claims only what was answered for | |
| `EdgeSync` | store, `push_once`, API, both processes | refines `DurableUpload` |
| `EdgePower` | the disk behind the store, power loss, an API that answers first | EXTENDS `EdgeSync` |
| `ZoneCounter` | `counter.py` as operators on its state | |
| `ZoneBuckets` | `aggregate.py` and `_ZoneRunner.process` | EXTENDS `ZoneCounter` |
| `SiteTotals` | `on_bucket` and totals for all runners, power loss, restart | |
| `CameraPipeline` | worker threads, the loop, drift, health rows | |
| `SpaceHistory` | abstract: the shape of each space at each instant, a history that grows at its end | |
| `ZoneVersions` | concurrent `reshape_zone` | refines `SpaceHistory` |
| `BucketAttribution` | site file, late rows, `attribution.py` on top of reshapes | EXTENDS `ZoneVersions` |
| `Tenancies` | concurrent planners, conflict check, occupants, grid | |
| `Billing` | webhooks and quantity | |
| `FleetAlerts` | heartbeats, conditions, concurrent `sync_alerts` | |
| `Reports` | a request for a space as its queries, and what is computed of them | |
| `ZoneBucketsProofs`, `SiteTotalsProofs`, `TenanciesProofs`, `BillingProofs`, `ReportsProofs` | theorems | EXTEND their module |
| `HealthProofs` | theorems about `CameraPipeline`, then about `FleetAlerts`, which share no state | EXTENDS both |
| `EdgeSyncProofs` | theorems about `EdgeSync`, then about `EdgePower` | EXTENDS `EdgePower` |
| `ZoneVersionsProofs` | theorems about `ZoneVersions`, then about `BucketAttribution` | EXTENDS `BucketAttribution` |
| `MC*` | model values and functions for TLC | EXTEND their module |

Operators under a comment "Mutant:" are plausible bugs in the definition that
follows them. They are used by nothing; put in place of that definition each makes
the property named for it in `PROJECT.json` fail, which shows that the property can.

### State and actions against the code

* **EdgeSync.** `val`, `synced`, `writes` are a row of the local table, its
  `synced_at` and how often the agent has written it. A value is the number of the
  write that produced it, so "older" is `<`. `pc`, `obs`, `tots`, `awaiting` are the
  locals of `push_once`; `inflight` holds requests on the wire or in the API, and one
  may outlive the client that sent it (the 15 s timeout). `ReadObservations` and
  `ReadTotals` are two SELECTs; `MarkObservation` and `MarkTotal` one row of an
  `executemany` each, as a crash can come between. `Upsert`, `Commit`, `AnswerOk` and
  their failures are the request in the API: the answer goes out before `get_session`
  commits, as in the locked FastAPI (section 6), and the commit may still fail (`Abort`).
  `raced`, `late` and `dropped` are history variables: rows rewritten while a copy was on
  its way, requests executed when nobody waited for them any more, and rows whose commit
  failed behind its answer and that have not been stored since.
* **EdgePower.** `disk` is the state of the store that a power loss goes back to:
  `store.py:117` opens it in WAL mode with `synchronous` left at NORMAL, where a commit is atomic
  but reaches the disk with the next sync of the log (`Flush`). `PowerLoss` takes the store
  back to `disk`, rows and marks alike, and starts both processes anew; a request that has
  left the box goes on. Here what the API has answered for does commit (`AnsweredCommits`).
* **ZoneCounter, ZoneBuckets.** A ground point is one of a few places; the polygon,
  the polygon plus exit margin and plus catchment are nested sets of places. Time is
  whole seconds. One frame is `NextFrame`, `EndLost` for each lost id, `BeginUpdate`,
  `Roll` for each boundary passed, `BeginCount`, `Advance` for each live id and
  `EndFrame` (expiry and peak), in the order of `process` and `update`.
  `sealed` sums what the finished buckets hold, `walked` (for the properties) is the ids that
  have been in the polygon.
* **SiteTotals.** An aggregator is its bucket and the entries in it. `Roll` is one
  `on_bucket`, whose store write and bookkeeping are one step and whose totals
  (`WriteDue`) follow one by one, for the process may lose power between them. `close` is
  `BeginClose`, `CloseRunner` for each runner in any order and `CloseTotals`.
  `looked`, `even`, `split` and `born` are for the properties: `even` ends when a runner is left
  two buckets behind another, `split` has the buckets `close` found some runners in and others past.
* **CameraPipeline.** `worker[c]` is a thread: opening, decoding or over, its
  consecutive failures, its error. `latest` is the frame nobody has taken. The loop
  is `NewRound`, `Take` per worker, then `Look` (nothing fresh) or `Count`, which contains
  the drift sweep and the health rows in the order of the code. A frame is the view it
  shows; `Far` says which pairs of views have hashes further apart than the threshold. `Change`
  is whatever makes a camera show another view, a bump, the light or the scene, for the hash
  knows none from the other; `last` (for the properties) is what the latest checks in a row saw.
* **ZoneVersions.** `editor` holds a save: sent, read (the open version it saw),
  stamped (`datetime.now`), done; `met` (for the properties) is the rows its overlap check has
  seen. UPDATE, INSERT and COMMIT are one step:
  whoever waits for the row lock or the unique index comes out as if it had come later.
  An id is an index into `versions`. The refinement into `SpaceHistory` maps the table to
  which version covers each instant (`Timeline`) and the start of the open one (`Since`).
  `ImplementsHistory` asks for a little more than the refinement: every commit is a
  `Redraw`, none a stutter.
* **BucketAttribution.** Adds the versions in the box's site file (`Reload` is the
  restart that reads a new one), rows not yet shipped (`Count`, `Upload`), rows accepted.
  `Resolve` is the selection in `attribute_space`: `Effective` is the primary version at
  the bucket's start, `StandIns` the failover versions, `Heard` those of them with a row of
  the bucket, and `Decide` prefers the primary.
* **Tenancies.** A planner's save is `Check`, `Stamp`, `Commit` or `Abandon`. Days are
  numbers, an RRULE is its weekdays, a daily window is a pair of times of day. `knew` (for
  the properties) is the rows the check of a save has seen.
* **Billing.** `outbox` holds the events that may still come, in any order and, as a delivered
  one may stay in it, any number of times; an event carries the status the service had when it
  made it, and invoices that were open when the subscription was cancelled are still charged.
  `Deliver` is `handle_webhook`. An operator's apply is `Read`, `Charge` (the call) and
  `Commit` or `Lose`. Both halves are one row, so they are one module; their steps
  do not depend on each other.
* **FleetAlerts.** A heartbeat is its cameras' states with ages for times. An
  evaluation is `Judge`, `ReadOpen` and `Commit`, and another may come in between.
  The unique index is `Admitted`: a commit that breaks it is rolled back.
* **Reports.** A request is `Ask`, one `ReadNext` for each query of its `Script`
  (`build_report`, `normalize_space`, each day of `iter_daily_anomalies`, and `normalize_space`
  once more for the page), and `Close`; `Ingest` is a payload that commits between any two of
  them, and `moved` says whether one wrote what had already been read (`Touches`); payloads for other
  days, or for what is yet to be read, do an answer no harm. `seen` holds the results, and what the code computes of them are operators on it:
  `Compare` is `_compare` in integers, `Ranks` the places `_peer_rank` may give, `Spans`
  `_occupancy_spans`. `Midnight` is the first bucket of each local day, so days may be longer
  or shorter than others, and `Shifted` goes back by local days as `_shift_wall_clock` does.

## 3. Runs

`tlc -config <cfg> <MC module>`; all finish on a small machine in less than four minutes
each.

| Run | Distinct states | Shows |
|---|---|---|
| `sync_safety` | 912 000 | an API that answers before it commits, and may fail to, crashes, lost, late and refused requests and rewrites: `SyncedWasTaken`, `NothingLost`, `SyncedAgrees`, `CloudForward`, and `ImplementsUpload` (refinement) |
| `sync_power` | 474 000 | with power loss, where what was answered commits: `AckIsDurable`, `DiskIsKept`, and `Drains` (liveness): once attempts stop failing, nothing stays pending |
| `sync_rearm` | (violation) | `SyncedIsStored`, "only marks them synced on a 2xx ack": a rewrite during the POST is marked with its value unsent |
| `zone_buckets` | 396 000 | `VisitsConserved`, `GraceEnds`, `OccupiedFits`, `HeadsCountedOnce` |
| `site_totals` | 3 142 000 | `PunctualTotalsExact`, `TotalWrittenOnce`, `RowWrittenOnce`, `ShutdownCompletes` |
| `cameras` | 662 000 | `DeadIsReported` (liveness) |
| `drift` | 440 000 | `DriftIsCounted`, `FlagIsSustained`, `DriftIsFlagged` (liveness) |
| `zones` | 1 125 000 | two editors, the box and the reports together: `OneShape`, `BaseReplaced`, `ReportsKept`, and `ImplementsHistory` (refinement) |
| `tenancies` | 89 000 | two planners: `NoDoubleBooking`, `GridAgrees`, `BookedSlotKept` |
| `billing` | 674 000 | events in any order and any number of times, two operators, lost commits: `RowFollows`, `GraceIsGranted`, `BilledAlike` |
| `fleet` | 456 000 | `OneOpen`, `SilenceIsFound`, `NeverWorse`, `MatchesEvaluated`, `Settles` (liveness) |
| `reports` | 751 000 | `DetailAgrees`, `BaselineClean`, `RankIsEarned`, `SpansTile` |

`tenancies` also checks the type invariant of its module. The others are proved (section 4), and
a run may take any of them in (`TypeOK`, `ZoneTypeOK`, `PipelineTypeOK`) as one more INVARIANT.
`zone_versions.cfg` with
`MCZoneVersions` is a wider instance of the zones alone, two editors and two spaces, for
`ZoneTypeOK`, `OneShape`, `BaseReplaced` and `PastKept`, and `zone_overlap.cfg` one with two
polygons for `OverlapConfirmed`; all of these are proved.

### Bounds and why they are enough

* `sync_safety`: two observations and a total, batch of one (so the order of the
  watermark matters), two outstanding requests (one late, one newer; a third repeats
  the second), two writes per row (a value and its rewrite). `SlotSymmetry` is sound:
  slots occur in no property.
* `sync_power`: one observation, which may be written twice (`Rewritten`), the total of its
  bucket, two requests, and one power loss (`MaxLosses`), which finds every mix of flushed and
  unflushed rows and marks. What a second loss adds is proved. No symmetry, because of liveness.
* `zone_buckets`: two ids and three places (catchment, exit margin, polygon) with a reentry
  distance of one; buckets two seconds wide over five, so a grace window crosses a
  boundary and a gap jumps over a bucket. A claim needs one old and one new id.
* `site_totals`: two cameras, three buckets (the lag is one, so the third is the
  first that can be late) and two processes.
* `cameras`: a live camera and a file with one reconnect and kills, one view;
  `drift`: one live camera whose view changes as it likes between what it was aimed at, what it
  shows when moved and one at dusk that is near to both, two checks to flag it. Together they
  fire every action; both in one instance have over five million states.
* `zones`: two editors, each free to save again, time to 3 and four rows: both orders of
  stamp and commit on top of a primary and a failover version. One space and one polygon, and
  nobody acknowledges an overlap (`Acks`), for overlap is not in these properties. Rows of
  one bucket are followed (`Watched`), the later one, so that saves fall before its start
  and into it.
* `tenancies`: two planners with a save each, five days in weeks of two, a horizon of one day, a
  closed day; permanent tenancies with and without an end and with and without a daily window,
  single days and recurring ones. So pairs that raced, pairs beyond the horizon and pairs whose windows
  are not kept to all occur beside those the check can tell. `PlannerSymmetry` is sound.
* `billing`: five events in three units of time with a grace window of one, delivered in any
  order and any number of times; two operators and three cameras. The two halves share no
  variable, so `OnePart` lets one of them move at a time.
* `fleet`: one box with one camera, two heartbeats, two evaluators, thresholds at zero
  hours so that one tick passes them. With a second evaluation every race of insert and
  resolve is there.
* `reports`: two spaces, six days in weeks of two with the clocks put back twice, a baseline
  of two weeks, pasts with gaps, with a day unlike the others and with none, one day excluded
  or none, the other space archived or not, periods of one and two days, and one payload (`MaxIngests`) anywhere in the
  request. `Scale` is divisible by all totals of the instance, so rates are exact.

Every bound is a named constant. Deadlock is not checked in `zone_buckets` and
`site_totals`: the first ends with `Close`, the second when its processes are used up.

### Fairness

Liveness is checked under these assumptions only:

* `EdgeSync!Fairness`, in `PowerSpec`: `sync_cli.py:65-86` loops for ever and systemd restarts it
  (`edge/deploy/whaletale-sync.service`), so reads and the end of a round are weakly
  fair. Posting and marking are strongly fair, for crashes interrupt them again and
  again. The API finishes each request one way or another. That requests succeed is
  *not* assumed: `Drains` says what follows if attempts stop failing.
* `CameraPipeline!FairPipeline`: threads run, the loop runs, `Restart=always`. Rounds in
  which an hour, or a minute, has passed come again and again if rounds do (strong
  fairness of `Count` with a sweep, with a flush). That the moved camera is in a
  sweep is not assumed but is a premise of `DriftIsFlagged`.
* `FleetAlerts!FairSpec`: evaluations are scheduled (`docs/runbook.md:138`) and go on.
  Heartbeats are bounded, so "once nothing changes" is reached.

## 4. Proofs

TLAPS proves, for every value of the constants allowed by the named assumptions, every
safety and action property of the passing runs and the type invariants of all modules, and of
some liveness properties the part that is safety:

* **`EdgeSyncProofs`** (assumes `EdgeSyncAssumption`): `TypeCorrect`, `SyncedRowsWereTaken`
  (`SyncedWasTaken`), `NoRowLost`, `SyncedRowsAgree`, `CloudNeverStepsBack` (`CloudForward`), and
  `Refinement`, that `EdgeSync` implements `DurableUpload`, all for an API whose commit follows
  its answer and may fail. The properties are not inductive: they speak of the mark, but what
  makes it right is the request it answers. `IInv` adds `LocalInv` (a local row is its last
  write, one that was pruned was answered for, and so is a synced one, at its last value
  unless raced), `BatchInv` (what `push_once` has read is a
  genuine value of its row, the current one unless raced, and was answered for once it is being
  marked), `FlightInv` (the same for every request) and `AwaitInv` (the client waits
  for a request that carries what it has read and has not been answered). `InvStep` goes action by action.
* **`EdgeSyncProofs`**, second part (assumes `EdgeSyncAssumption`, `PowerAssumption`):
  `PowerInvariance`, `MarkedRowsAreStored` (`AckIsDurable`) and `DiskStays`
  (`DiskIsKept`), for any number of rows, requests and power losses, where what was answered
  commits. A value of a row is
  `Covered` if the cloud has it or a newer one, or a request that was answered will store one.
  `PowerInv` says that every mark, in the store or on the disk, stands for a covered row
  (`Safe`), and that no copy on its way is older than the box or the disk (`Newer`); without
  the last an old copy could be marked after a power loss. Type correctness under `PowerNext` is
  `TypeStep` of the first part.
* **`ZoneBucketsProofs`** (assumes `CounterAssumption`, `BucketsAssumption`):
  `TypeCorrect`, `GraceWindowCloses`, `OccupiedFitsBucket`, `NoVisitLost`,
  `HeadsAreCountedOnce`.
  `IInv` = `TypeOK` with `Ids` (every id in use has been given out; live and parked ids
  are apart, and so are those of the frame from parked and lost ones) and `Clock` (neither
  the counter nor the bucket's start is ahead of the frame). Visits are counted by the cardinality of the ids
  inside, so lemmas `MovedInside`, `OneMore` and `Removal` say how one step of one track
  changes it. `HeadsCountedOnce` is not inductive, for it says nothing of ids the frame shows
  for the first time. `Heads` says it of all that are `Open`, those among them: a step
  that counts passers-by decides at least as many (`Decided`). `Walked` says that an id seen in the polygon has entered
  for as long as the counter keeps it.
* **`SiteTotalsProofs`** (assumes `SiteAssumption`, `NoneIsNoTotal`): `TypeCorrect`,
  `PunctualTotalsAreExact`, `ShutdownIsComplete`, `TotalsWrittenOnce`, `RowsWrittenOnce`
  (`RowWrittenOnce`) and `PunctualSharesAreShares`, for any zones, cameras, buckets and processes. The bookkeeping in memory is the sum of the rows of this process
  (`Tallied`, which needs `Fresh`: a runner has no row yet of the bucket it is in), and what is
  written is the bookkeeping (`Settled`). That no row comes after its total is `Behind`: no
  runner is in a bucket that is written. While the process runs it holds as long as no runner is
  left two buckets behind (`even`), because a bucket is written only when some runner is two ahead
  (`Ahead`). `Ending` says what `close` has reached, and that it breaks `Behind` for no bucket but
  those in `split`.
  `PunctualSharesAreShares` is what holds of `ShareIsAShare` (section 5): the rows of a process
  sum up to its totals, so a zone has no more entries than the site in a bucket that the
  process saw begin, while `even` holds and outside `split`.
* **`ZoneVersionsProofs`** (assumes `ZoneAssumption`): `TypeCorrect`,
  `OneShapeAlways`, `NoEditUndone`, `HistoryStays`, for any number of editors, spaces,
  polygons and saves. `IInv` = `ZoneTypeOK` with `SeenIsBase` (a save in progress that
  names a base has read that base), `OneShape`, `BaseIsKnown` (a base is a row) and
  `BaseReplaced`.
  `OneShape` itself carries the argument that the close and the insert meet at one
  instant (`SavedShapes`: what covers an instant after a save). From it,
  `ZonesImplementHistory` (`ImplementsHistory`, and `SpaceHistory`'s own specification):
  a save that is admitted is a `Redraw` (`SaveRedraws`), for the open version is the one
  that covers the last instant (`OpenIsLast`).
  `OverlapsAreConfirmed` (`OverlapConfirmed`), for any number of editors, with
  `CheckStands`: what the check of a save has met and could overlap stays away from it, for
  the polygon of a version never changes, or has been acknowledged.
* **`ZoneVersionsProofs`**, second part (assumes `ZoneAssumption`, `BucketAssumption`): `ZonesBehave`
  (`Spec => ZoneSpec`, so all of the first part holds here), `RowsTypeCorrect`, and
  `ReportsStay` (`ReportsKept`) under `OneStandIn`: at most one failover version per space at
  first, and no save makes another. From `OneShape` and `PastRows`: while every
  save in progress has its stamp after a bucket, the set of versions in effect at its start
  does not change, rows are only added, and so `Decide` only goes from a stand-in to a primary.
* **`TenanciesProofs`** (assumes `TenancyAssumption`, `NoneIsNoRow`): `TypeCorrect`; `NobodyBookedTwice`
  (`NoDoubleBooking`) and `BookedSlotStays` (`BookedSlotKept`), for any number of planners, any
  tenancies and any horizon. `IInv` = `TypeOK` with `Drawn` (a stamp is drawn
  once). `Known` adds that the stamps a check has seen are those of rows that had been
  committed, and `CheckCompares` that the check looked at every day two tenancies share, but for
  those it cannot tell (`Uncompared`): beyond its horizon, or with a window that is not kept to.
  `GridAndBucketsAgree` (`GridAgrees`) holds under `WindowsHoldBuckets`,
  whoever plans and whatever overlaps: a row is in the grid of a day if and only if it holds a
  bucket of it, and both read the row with the least stamp first.
* **`BillingProofs`** (assumes `BillingAssumption`): `TypeCorrect`,
  `RowSaysWhatServiceSays` (`RowFollows`), `NobodyShutOutEarly` (`GraceIsGranted`) and
  `RowBilledAlike` (`BilledAlike`), for any deliveries, any number of operators and any lost
  commits. `Newest` says what the newest event says of the service, and the row once it is
  applied last; `Window` that from the first failure told to the next payment there is a window
  that lasts long enough; `InHand` that, unless the last call met another or lost its commit, at
  most one operator is between call and commit and has in hand what the service has.
* **`HealthProofs`**, cameras (assumes `PipelineAssumption`, `NothingIsNothing`): `CamerasTypeCorrect`,
  `FlagsAreSustained` (`FlagIsSustained`), `DriftChecksCount` (`DriftIsCounted`) and
  `DeadIsNotRevived`, for any cameras, views, threshold, kills and restarts. `CameraInv` = `PipelineTypeOK` with `Spent` (a
  worker that is not over has attempts left and no error; without it the failures have no
  bound), `OneFrame` (a batch has one frame of a camera, so `Shown` is that one) and `Streaks` (as many of
  the latest checks of a camera as its streak counts saw a view far from its reference). `DriftIsCounted` and `DeadStaysDead` are what is safety in `DriftIsFlagged` and
  `DeadIsReported`: once the frames show the drift, each check counts and no step takes the
  count or the flag back (`CheckCounts`, `SteadyStep`), so `Samples` of them flag the camera; and a worker that
  has given up stays so, and nothing written meanwhile says online. That checks and health rows
  come is fairness, and left to TLC.
* **`HealthProofs`**, alerts (assumes `FleetAssumption`): `TypeCorrect`, `OneOpenAlways`
  (`OneOpen`), `SilentBoxIsFound` (`SilenceIsFound`), `AlertsNeverWorse` (`NeverWorse`) and
  `AlertsMatchEvaluated` (`MatchesEvaluated`), for any boxes, reports and number of evaluators, and
  for names that boxes share too. `OneOpen` is inductive by the index. `Heard` says that
  no heartbeat tells of a sync later than itself. That there is always an unused id is an
  argument on finite sets. `CommittedKeys` says what a commit makes of the open keys when the
  rows it has read may have been changed by others (`CommitMatches`), and `ClashIsRefused` that one
  whose alerts clash, with each other or with what was opened meanwhile, changes nothing.
* **`ReportsProofs`** (assumes `ReportsAssumption`, `RowsAssumption`, `NoneIsNothing`):
  `TypeCorrect`, `AnswersAgree` (`DetailAgrees`), `BaselinesAreClean` (`BaselineClean`),
  `RanksAreEarned` (`RankIsEarned`) and `SpansTileThePeriod` (`SpansTile`), for any spaces,
  histories, payloads and periods, and any local calendar. `IInv` = `TypeOK` with `Reading`
  (`seen` and `todo` are queries and their results), `Current` (while no payload wrote what was read, each
  query would return what it returned) and `Grown` (rows are upserted and never deleted,
  `api/ingest.py:59-108`, so a bucket found once is found by each later query of the same rows; this
  is why a space with rows is ranked though payloads came in between). The parts of an
  answer are then functions of the script (`Parts`, `PartsAgree`), of the calendar
  (`PeriodIsDays`, `EarlierDay`), of sums taken day by day (`SumByParts`, `DaySums`), of the
  peers ahead and behind (an archived space is none), and of the spans after each day (`SpansAreTiled`).

Sums, folds over sequences and `FlattenSeq` are defined by the library with a recursion
over sets, and induction theorems take an operator, which the provers cannot instantiate. The
lemmas on them are proved without: a statement that fails for some subset of a finite set
fails for a smallest one (`Minimal`, from `WFMin` and the order of subsets), which
leads to a contradiction by one unfolding. The first of them stand in `SiteTotalsProofs`
and again in `ReportsProofs`, which build on different components.

Two theorems have a hypothesis beyond the assumptions on the constants:

| Hypothesis | Where it comes from |
|---|---|
| `WindowsHoldBuckets` | daily windows that hold the start of a bucket, so none across midnight; section 5 (`MCOvernight`) |
| `OneStandIn` | sites with at most one failover camera per space, as the seed data has it; end of section 5 |

`NothingIsNothing` and the `NoneIs...` assumptions say that the model value for "nothing" is not one of the values
it stands beside; `RowsAssumption` says that histories and payloads are made of rows.

Left to TLC: liveness (`Drains`, `DeadIsReported`, `DriftIsFlagged`, `Settles`), as
liveness under fairness and ENABLED are beyond the prover. No module with a theorem has a
recursive operator.

## 5. What the code does not keep

`sync_rearm` is a listed run. The others are found the same way: with the
configuration named, or with that of a listed run after the change given (and the
property given as its only one). Most contradict the words of a document or test,
quoted above the property in its module; the others are what a property of section 3 excepts.

| Property | Configuration | What happens |
|---|---|---|
| `EdgeSync!ResendIsHarmless` | `sync_resend.cfg` | a request that outlives its client's timeout is executed after a newer one, and the upsert (`api/ingest.py:71`) takes the cloud back |
| `EdgeSync!KnownRowsShip` | `sync_unknown_zone.cfg` | one unknown zone version answers 422 to the whole batch, and the oldest rows are in every later one |
| `EdgeSync!AckIsDurable` | `sync_early_ack.cfg` | where the framework answers before the dependency of `api/deps.py:29` commits, and that commit fails, a row is marked and then rolled back |
| `EdgeSync!CloudForward` | `sync_power.cfg` (PROPERTY) | power loss takes a row back to an older value, which is sent again over the newer one (`store.py:117`) |
| `ZoneBuckets!BucketHoldsOccupied` | `zone_buckets.cfg` | `close` finalizes at the wall clock without rolling (`aggregate.py:192`) |
| `ZoneBuckets!PeakSeesOccupants` | `zone_buckets.cfg` | inside across a boundary and gone at the next frame: occupied time with peak 0 (`counter.py:130`) |
| `ZoneBuckets!ExpiryLandsInItsBucket` | `zone_buckets.cfg` (PROPERTY) | a dropped track is counted in the bucket in which its grace ends (`counter.py:193`) |
| `SiteTotals!ShareIsAShare` | `site_share.cfg` | a stalled camera hands over rows whose total is written; a zone has more entries than the site (`pipeline.py:243`) |
| `SiteTotals!CloseIsExact` | `site_close.cfg` | at SIGTERM, with one zone a bucket ahead of another and closed first, the total of the bucket the other is still in is written, and its row never added (`pipeline.py:343`) |
| `SiteTotals!ActiveCamerasSaw` | `site_totals.cfg` | the catch-up loop counts an offline camera as active (`pipeline.py:236`) |
| `SiteTotals!RestartKeepsCounts` | `site_totals.cfg` (PROPERTY) | a restart inside a bucket replaces the row of its first part (`pipeline.py:220`) |
| `CameraPipeline!DriftIsNoticed` | `drift_starved.cfg` | a sweep checks the cameras of one round; one that is fresh in other rounds is never checked (`pipeline.py:271`) |
| `CameraPipeline!PausedIsPaused` | `drift.cfg`, `SPECIFICATION PipelineSpec` (PROPERTY) | flags are in memory: after a restart a camera reported as moved is counted (`pipeline.py:166`) |
| `CameraPipeline!BudgetSpent` | `cameras.cfg`, `SPECIFICATION PipelineSpec` | one reopen that fails ends a live camera with attempts left (`decode.py:131`) |
| `ZoneVersions!OverlapAlwaysConfirmed` | `zone_overlap_race.cfg` | two saves on two spaces do not see each other; that nothing else goes unconfirmed is `OverlapConfirmed` (`zone_overlap.cfg`) |
| `ZoneVersions!LoserIsWarned` | `zone_overlap_race.cfg` | the save that loses at the unique index is an internal error, not a warning |
| `BucketAttribution!AcceptedIsAttributed` | `zones.cfg` | rows counted with a closed version are accepted and never reported (`api/ingest.py:43`) |
| `Tenancies!NobodyTwice` | `booking_race.cfg` | two planners check before either commits |
| `Tenancies!NobodyTwice` | `booking_race.cfg`, `Planners = {ada}`, `Offers <- MCWholeDays`, `Horizon = 1` | an open-ended tenancy is not compared beyond the horizon (`validation.py:110`) |
| `Tenancies!NobodyTwice` | `booking_race.cfg`, `Planners = {ada}` | daily windows let permanent tenancies share a day, and attribution ignores them (`attribution.py:237`) |
| `Tenancies!GridAgrees` | `tenancies.cfg`, `Offers <- MCOvernight` | a window across midnight is in the grid and never attributed (`attribution.py:245`) |
| `Billing!CanceledStays` | `billing.cfg` (PROPERTY) | an invoice charged after the cancellation sets the row active or past due again (`billing.py:156`) |
| `Billing!ShutOnlyAfterGrace` | `billing.cfg` | a `past_due` status that arrives before its failure has no window, and shuts at once (`billing.py:86`) |
| `Billing!GraceEnds` | `billing.cfg` | each retry sets the window again (`billing.py:157`) |
| `Billing!BilledAlikeAlways` | `billing.cfg` | calls and commits in different orders; a commit lost behind the call, or a call that is answered too late (`billing.py:117`) |
| `Billing!NoRefund` | `billing.cfg` | a decrease at the service looks like an increase and is prorated (`billing.py:116`): one operator charges three, a camera goes, another has read two and one and sends two; or the first call has lost its commit |
| `Billing!ChargedAsShown` | `billing.cfg` (PROPERTY) | a camera registered between preview and apply (`billing.py:112`) |
| `FleetAlerts!Settles` | `fleet_shared.cfg` | two boxes with a dark camera of one name: every evaluation fails on the unique index (`fleet.py:288`) |
| `FleetAlerts!StaleIsFound` | `fleet.cfg`, `SPECIFICATION Spec` (PROPERTY) | a restart of sync reports no `last_sync_at`, and the alert is taken back (`fleet.py:167`) |
| `Reports!ExcludedDaysDropped` | `report_baseline.cfg` | only the first day of a shifted period is looked up among the excluded days (`normalization.py:88`) |
| `Reports!OutlierIsFlagged` | `report_steady.cfg` | a baseline that never varied has deviation 0, and no day is an anomaly against it |


Smaller remarks, met while reading and not checked as properties:

* With several failover versions on one space the SELECT of `attribute_space` leaves their
  order open, and a bucket may be given to another of them next time. `ReportsKept` is
  for one.
* Peers with one capture rate get places by the order in which the SELECT returns them, so a
  rank may change without any change of data (`Ranks` is the set of places).
* `_current_occupant` (`api/operator/routes.py:110`) looks an occupant up by name, among all sites,
  and names are not unique.
* `demo_period` (`report.py:288`) takes the end of its period in absolute time, an hour off
  when the clocks change within it.

## 6. Abstractions to keep in mind

* Commits are durable in Postgres, and in SQLite everywhere but in `EdgePower`.
* Clocks do not step back.
* `Resolve` of `BucketAttribution` reads in one step; that an answer is made of many
  queries is what `Reports` is about, where one `attribute_space` is a step.
* Means, deviations and rates of `Reports` are compared in integers, without rounding.
* The read-only gate of billing (`_require_writable`) is not in the other modules:
  it only takes steps away.
* `get_session` commits after its `yield`. In the version of FastAPI that `cloud/uv.lock:293`
  names that code runs after the answer has been sent, and so it does in the model, where the
  commit may fail behind its 200. `SyncedWasTaken`, `NothingLost` and `SyncedAgrees` say that
  this is the only way to lose a row, and with a rewrite on its way the only one to make a mark wrong; that it is one is `AckIsDurable`
  (`sync_early_ack.cfg`, section 5). A commit in the handler, before its answer, would take
  that failure away.
* The hash of a frame is its view, and `Far` any relation on views that relates
  none to itself: light and scene may be as far from the reference as a bump, and flag a
  camera that was not moved, as `docs/runbook.md:136` says; a bump may be too near to be seen.
* Archiving: nothing in `src` sets `archived_at`, so a space is archived or not for the whole of a
  behaviour of `Reports`.
* Prices and amounts of billing are left out; whether a change is prorated is `Prorates`.

## 7. Plan

1. *Done:* the modules, runs and proofs above.
2. Modules: the limiter and the login throttle under a thread pool (`api/security.py`);
   the store's integrity check.
3. Composition: `CameraPipeline` with `SiteTotals` (a flagged camera stalls its runners),
   and `EdgeSync` with the unknown zones `ZoneVersions` produces.
4. An abstract specification of the alerts (a set of keys that follows the findings)
   implemented by `FleetAlerts` where alerts do not clash, which `CommittedKeys` prepares.

## 8. Not modelled

The person detector and the tracker (inputs), geometry, percentiles and estimated dwell,
z-scores as they are shown, hourly bars, low-confidence counts, the rendering of reports and
`demo_period` (formatting and floating-point arithmetic on what `Reports` has read), parsing
of configuration, onboarding tools (sequential, around network probes and one encrypted
file), creating and renaming occupants (one row each), migrations, logging and headers, the
web console (a client whose every effect is an action of the API's models), the license
script.
