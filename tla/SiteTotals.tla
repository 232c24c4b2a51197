------------------------------ MODULE SiteTotals ------------------------------
(***************************************************************************)
(* edge/agent/pipeline.py, MultiCameraPipeline: what becomes of the        *)
(* buckets of all zones of all cameras.  Each finished bucket becomes an   *)
(* observation row, and their sum per bucket the site total, which is      *)
(* written as soon as some zone hands over a later bucket.                 *)
(*                                                                         *)
(* The aggregators are reduced to the bucket in progress and the entries   *)
(* in it (ZoneBuckets has the rest), a frame to its camera and bucket.  A  *)
(* store write is durable when it returns; everything else is lost when    *)
(* the process ends, in good order (Close) or not (Crash).                 *)
(***************************************************************************)
EXTENDS Integers, FiniteSets, FiniteSetsExt

CONSTANTS
    Runners,            \* one _ZoneRunner per zone
    Cameras,
    CameraOf,           \* Runners -> Cameras
    MaxBucket,          \* bounds the clock
    MaxEntries,         \* bounds the entries of one bucket of one zone
    MaxRuns,            \* bounds the number of processes
    None

ASSUME SiteAssumption ==
    /\ IsFiniteSet(Runners)
    /\ CameraOf \in [Runners -> Cameras]
    /\ MaxBucket \in Nat /\ MaxEntries \in Nat /\ MaxRuns \in Nat \ {0}
    /\ None \notin Int

Buckets == 0 .. MaxBucket

VARIABLES
    clock,              \* the bucket the wall clock is in
    runs,               \* how many processes have been started
    phase,              \* "idle", "frame" or "closing", and "down"
    frame,              \* bucket of the frame in hand
    todo,               \* runners process or close has not reached yet
    at, cur,            \* bucket in progress of a runner, entries in it
    siteEntries, siteCameras, siteWritten,      \* the bookkeeping per bucket
    before,             \* on_bucket still has totals older than this to write
    rows, totals,       \* the two tables of the store
    \* kept for the properties
    looked,             \* the buckets a camera had a frame in
    even,               \* no runner has been left two buckets behind
    split,              \* the buckets close found some runners in and others past
    born                \* the clock when the process started

memory == <<at, cur, siteEntries, siteCameras, siteWritten>>
vars == <<clock, runs, phase, frame, todo, memory, before, rows, totals, looked, even, split, born>>

Total == [people : Nat, cameras : SUBSET Cameras]

ASSUME NoneIsNoTotal == None \notin Total

Empty == /\ phase' = "idle" /\ frame' = 0 /\ todo' = {} /\ before' = 0
         /\ at' = [r \in Runners |-> None] /\ cur' = [r \in Runners |-> 0]
         /\ siteEntries' = [b \in Buckets |-> 0]
         /\ siteCameras' = [b \in Buckets |-> {}]
         /\ siteWritten' = {}
         /\ even' = TRUE /\ split' = {}

Init ==
    /\ clock = 0 /\ runs = 1
    /\ phase = "idle" /\ frame = 0 /\ todo = {} /\ before = 0
    /\ at = [r \in Runners |-> None] /\ cur = [r \in Runners |-> 0]
    /\ siteEntries = [b \in Buckets |-> 0]
    /\ siteCameras = [b \in Buckets |-> {}]
    /\ siteWritten = {}
    /\ rows = [r \in Runners |-> [b \in Buckets |-> None]]
    /\ totals = [b \in Buckets |-> None]
    /\ looked = [c \in Cameras |-> {}]
    /\ even = TRUE /\ split = {} /\ born = -1

Tick ==
    /\ clock < MaxBucket
    /\ clock' = clock + 1
    /\ UNCHANGED <<runs, phase, frame, todo, memory, before, rows, totals, looked, even, split, born>>

\* The next frame of a batch: captured since the loop last came round, so at most
\* one boundary ago.
TakeFrame(c, b) ==
    /\ phase = "idle"
    /\ b \in {clock - 1, clock} \cap Buckets
    /\ \A r \in Runners : CameraOf[r] = c /\ at[r] # None => at[r] <= b
    /\ phase' = "frame" /\ frame' = b
    /\ todo' = {r \in Runners : CameraOf[r] = c}
    /\ looked' = [looked EXCEPT ![c] = @ \cup {b}]
    /\ UNCHANGED <<clock, runs, memory, before, rows, totals, even, split, born>>

Known == {b \in Buckets : siteCameras[b] # {}}

\* Mutant: totals up to and including the bucket just handed over.
DueInclusive == {b \in Known : b <= before /\ b \notin siteWritten}

\* What _write_completed_site_totals has left to write.
Due == {b \in Known : b < before /\ b \notin siteWritten}

OneBehind(f) == \A r, s \in Runners : f[r] # None /\ f[s] # None => f[r] - f[s] <= 1

\* on_bucket, called by _flush for the bucket runner r has in progress.
HandOver(r, next) ==
    LET b == at[r] IN
    /\ before = 0
    /\ rows' = [rows EXCEPT ![r][b] = cur[r]]
    /\ siteEntries' = [siteEntries EXCEPT ![b] = @ + cur[r]]
    /\ siteCameras' = [siteCameras EXCEPT ![b] = @ \cup {CameraOf[r]}]
    /\ before' = b
    /\ at' = [at EXCEPT ![r] = next]
    /\ cur' = [cur EXCEPT ![r] = 0]
    /\ UNCHANGED <<clock, runs, phase, frame, siteWritten, totals, looked, born>>

\* Mutant: the bucket that has been handed over stays in progress.
RollInPlace(r) ==
    /\ phase = "frame"
    /\ r \in todo
    /\ at[r] # None /\ at[r] < frame
    /\ HandOver(r, at[r])
    /\ UNCHANGED <<even, split, todo>>

\* One round of the aggregator's loop at a bucket boundary.
Roll(r) ==
    /\ phase = "frame"
    /\ r \in todo
    /\ at[r] # None /\ at[r] < frame
    /\ HandOver(r, at[r] + 1)
    /\ even' = (even /\ OneBehind([at EXCEPT ![r] = @ + 1]))
    /\ UNCHANGED <<split, todo>>

\* _flush_site_total.
WriteTotal(b) ==
    /\ totals' = [totals EXCEPT ![b] = [people |-> siteEntries[b], cameras |-> siteCameras[b]]]
    /\ siteWritten' = siteWritten \cup {b}
    /\ UNCHANGED <<clock, runs, phase, frame, todo, at, cur, siteEntries, siteCameras,
                   rows, looked, even, split, born>>

\* The older totals, oldest first, before on_bucket returns.
WriteDue ==
    /\ before > 0
    /\ \/ Due # {} /\ WriteTotal(Min(Due)) /\ UNCHANGED before
       \/ /\ Due = {}
          /\ before' = 0
          /\ UNCHANGED <<clock, runs, phase, frame, todo, memory, rows, totals, looked, even, split, born>>

\* The frame is counted in the bucket it belongs to.
Count(r, n) ==
    /\ phase = "frame" /\ before = 0
    /\ r \in todo
    /\ at[r] = None \/ at[r] = frame
    /\ cur[r] + n <= MaxEntries
    /\ at' = [at EXCEPT ![r] = frame]
    /\ cur' = [cur EXCEPT ![r] = @ + n]
    /\ todo' = todo \ {r}
    /\ even' = (even /\ OneBehind([at EXCEPT ![r] = frame]))
    /\ UNCHANGED <<clock, runs, phase, frame, siteEntries, siteCameras, siteWritten,
                   before, rows, totals, looked, split, born>>

EndFrame ==
    /\ phase = "frame" /\ todo = {}
    /\ phase' = "idle" /\ frame' = 0
    /\ UNCHANGED <<clock, runs, todo, memory, before, rows, totals, looked, even, split, born>>

\* SIGTERM: run returns and close starts on the runners.
BeginClose ==
    /\ phase = "idle"
    /\ phase' = "closing"
    /\ todo' = {r \in Runners : at[r] # None}
    /\ split' = {b \in Buckets : \E r, s \in todo' : at[r] <= b /\ b < at[s]}
    /\ UNCHANGED <<clock, runs, frame, memory, before, rows, totals, looked, even, born>>

CloseRunner(r) ==
    /\ phase = "closing"
    /\ r \in todo
    /\ HandOver(r, None)
    /\ todo' = todo \ {r}
    /\ UNCHANGED <<even, split>>

\* Mutant: close leaves the totals of the last buckets unwritten.
CloseForgetsTotals ==
    /\ phase = "closing" /\ before = 0 /\ todo = {}
    /\ phase' = "down"
    /\ UNCHANGED <<clock, runs, frame, todo, memory, before, rows, totals, looked, even, split, born>>

\* Mutant: close also writes the totals that are there already.
CloseRewrites ==
    /\ phase = "closing" /\ before = 0 /\ todo = {}
    /\ \E b \in Known : WriteTotal(b)
    /\ UNCHANGED before

\* The rest of the totals, then the store is closed.
CloseTotals ==
    /\ phase = "closing" /\ before = 0 /\ todo = {}
    /\ \/ /\ Known \ siteWritten # {}
          /\ WriteTotal(Min(Known \ siteWritten)) /\ UNCHANGED before
       \/ /\ Known \ siteWritten = {}
          /\ phase' = "down"
          /\ UNCHANGED <<clock, runs, frame, todo, memory, before, rows, totals, looked, even, split, born>>

\* The process is started again, after it stopped or lost power at any point.
Restart ==
    /\ runs < MaxRuns
    /\ runs' = runs + 1
    /\ Empty
    /\ born' = clock
    /\ UNCHANGED <<clock, rows, totals, looked>>

Next ==
    \/ Tick
    \/ \E c \in Cameras, b \in Buckets : TakeFrame(c, b)
    \/ \E r \in Runners : Roll(r) \/ CloseRunner(r) \/ \E n \in 0 .. MaxEntries : Count(r, n)
    \/ WriteDue \/ EndFrame \/ BeginClose \/ CloseTotals \/ Restart

Spec == Init /\ [][Next]_vars
-----------------------------------------------------------------------------
TypeOK ==
    /\ clock \in Buckets /\ runs \in 1 .. MaxRuns
    /\ phase \in {"idle", "frame", "closing", "down"}
    /\ frame \in Buckets /\ todo \subseteq Runners /\ before \in Buckets
    /\ at \in [Runners -> Buckets \cup {None}] /\ cur \in [Runners -> 0 .. MaxEntries]
    /\ siteEntries \in [Buckets -> Nat] /\ siteCameras \in [Buckets -> SUBSET Cameras]
    /\ siteWritten \subseteq Buckets
    /\ rows \in [Runners -> [Buckets -> Nat \cup {None}]]
    /\ totals \in [Buckets -> Total \cup {None}]
    /\ looked \in [Cameras -> SUBSET Buckets]
    /\ even \in BOOLEAN /\ split \subseteq Buckets /\ born \in Int

Producers(b) == {r \in Runners : rows[r][b] # None}

Summed(b) == [people |-> SumFunctionOnSet([r \in Runners |-> rows[r][b]], Producers(b)),
              cameras |-> {CameraOf[r] : r \in Producers(b)}]

\* Waiting one bucket with a site total is enough as long as no runner is left two
\* buckets behind another: what is written for a bucket this process saw begin is
\* the sum of its rows and the cameras that produced them (pipeline.py:235-256).
\* Excepted are the buckets that close, at SIGTERM, finds some runners still in and
\* others past: it may write their totals before the rows are there (CloseIsExact).
PunctualTotalsExact ==
    even => \A b \in siteWritten \ split : b > born => totals[b] = Summed(b)

\* A process writes each site total once, however many zones hand buckets over
\* after it: a second write would arm the row for another upload
\* (pipeline.py:241-247).
TotalWrittenOnce ==
    [][\A b \in siteWritten : runs' = runs => totals'[b] = totals[b]]_vars

\* The row of a bucket that this process saw begin is handed over once: neither a later
\* frame nor close, which finalizes whatever is in progress, replaces it
\* (aggregate.py:159-192, pipeline.py:215-233).
RowWrittenOnce ==
    [][\A r \in Runners, b \in Buckets :
            b > born /\ rows[r][b] # None => rows'[r][b] = rows[r][b]]_vars

\* A process that stops in good order leaves no bucket of its own without a total
\* (pipeline.py:343-351).
ShutdownCompletes ==
    phase = "down" => \A b \in Buckets : b > born /\ Producers(b) # {} => totals[b] # None

-----------------------------------------------------------------------------
(* What documents and tests say and the code does not keep. *)

\* cloud/tests/test_metrics.py:88, 0 < traffic_share <= 1: no zone has more entries
\* than the site.
ShareIsAShare ==
    \A r \in Runners, b \in Buckets :
        rows[r][b] # None /\ totals[b] # None => rows[r][b] <= totals[b].people

\* The same of the totals close writes: with the runner that is ahead closed first,
\* _write_completed_site_totals writes the bucket the other is still in, and the row
\* that one hands over next is never added (pipeline.py:343-351).
CloseIsExact == even => \A b \in siteWritten : b > born => totals[b] = Summed(b)

\* docs/edge-cases.md:14, "Camera offline mid-bucket, mark partial, record
\* active_cameras, no extrapolation": an active camera has seen the bucket.
ActiveCamerasSaw ==
    \A b \in Buckets : totals[b] # None => \A c \in totals[b].cameras : b \in looked[c]

\* docs/runbook.md:56, "unsynced data is never discarded": a row is not replaced by
\* one that knows less.
RestartKeepsCounts ==
    [][\A r \in Runners, b \in Buckets :
            rows[r][b] # None => rows'[r][b] >= rows[r][b]]_vars
=============================================================================
