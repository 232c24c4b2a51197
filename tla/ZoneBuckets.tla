----------------------------- MODULE ZoneBuckets -----------------------------
(***************************************************************************)
(* edge/agent/aggregate.py, WallClockAggregator, over the ZoneCounter, as  *)
(* _ZoneRunner.process drives it (edge/agent/pipeline.py): for each frame  *)
(* first end_track for every lost id, then update, which hands over every  *)
(* bucket whose end has passed and only then looks at the frame.           *)
(*                                                                         *)
(* The code runs in one thread; its steps are kept apart because the order *)
(* of lost tracks, bucket boundary and observations is what the properties *)
(* are about.  The tracker (norfair) is external: any set of known and     *)
(* fresh ids, in any places.                                               *)
(***************************************************************************)
EXTENDS ZoneCounter

CONSTANTS
    Width,              \* bucket_seconds
    MaxT                \* bounds the clock

ASSUME BucketsAssumption == Width \in Nat \ {0} /\ MaxT \in Nat

VARIABLES
    phase,              \* where process is
    now,                \* captured_at of the frame
    frame,              \* live ids of the frame and their ground points
    lost, todo,         \* ids still to end, ids still to advance
    used,               \* ids the tracker has given out
    walked,             \* history: ids seen in the zone polygon
    bstart,             \* _bucket_start_ts
    handed,             \* the last bucket handed to on_bucket
    sealed              \* what the buckets handed over so far add up to

frameVars == <<now, frame, used, walked>>
vars == <<counterVars, phase, frameVars, lost, todo, bstart, handed, sealed>>

Init ==
    /\ CounterInit
    /\ phase = "idle" /\ now = -1
    /\ frame = [i \in {} |-> 0] /\ lost = {} /\ todo = {}
    /\ used = {} /\ walked = {}
    /\ bstart = None
    /\ handed = None
    /\ sealed = [entries |-> 0, dwells |-> 0, passersby |-> 0]

\* A frame arrives: the tracker's live ids are old ones and fresh ones.
Frame(t, ids, gps) ==
    /\ phase = "idle"
    /\ t > now
    /\ now' = t /\ frame' = gps
    /\ used' = used \cup ids
    /\ lost' = DOMAIN frame \ ids
    /\ todo' = ids
    /\ phase' = "ending"
    /\ UNCHANGED <<counterVars, walked, bstart, handed, sealed>>

\* aggregator.end_track, which does not look at the bucket boundary.
EndLost(i) ==
    /\ phase = "ending"
    /\ i \in lost
    /\ lost' = lost \ {i}
    /\ IF bstart # None THEN EndTrack(i, now) ELSE UNCHANGED counterVars
    /\ UNCHANGED <<phase, frameVars, todo, bstart, handed, sealed>>

Aligned(t) == t - (t % Width)

\* aggregator.update begins; the first frame opens the first bucket.
BeginUpdate ==
    /\ phase = "ending"
    /\ lost = {}
    /\ bstart' = IF bstart = None THEN Aligned(now) ELSE bstart
    /\ phase' = "rolling"
    /\ UNCHANGED <<counterVars, frameVars, lost, todo, handed, sealed>>

\* _flush: the counter gets fresh stats, on_bucket gets the old ones.
Hand(st) ==
    /\ stats' = NoStats
    /\ handed' = [start |-> bstart, stats |-> st]
    /\ sealed' = [entries |-> sealed.entries + st.entries,
                  dwells |-> sealed.dwells + st.dwells,
                  passersby |-> sealed.passersby + st.passersby]

\* One round of the while loop: split the time at the boundary and flush.
Roll ==
    /\ phase = "rolling"
    /\ now >= bstart + Width
    /\ Hand(Accrued(bstart + Width))
    /\ lastT' = bstart + Width
    /\ bstart' = bstart + Width
    /\ UNCHANGED <<live, parked, ts, droppedAt, insideCount,
                   phase, frameVars, lost, todo>>

\* counter.update begins: accrue_to.
BeginCount ==
    /\ phase = "rolling"
    /\ now < bstart + Width
    /\ stats' = Accrued(now)
    /\ lastT' = now
    /\ phase' = "counting"
    /\ UNCHANGED <<live, parked, ts, droppedAt, insideCount,
                   frameVars, lost, todo, bstart, handed, sealed>>

Advance(i) ==
    /\ phase = "counting"
    /\ i \in todo
    /\ todo' = todo \ {i}
    /\ \/ AdvanceKnown(i, frame[i], now)
       \/ AdvanceFresh(i, frame[i], now)
       \/ \E j \in parked : AdvanceClaiming(i, j, frame[i], now)
    /\ walked' = IF frame[i] \in EnterPlaces THEN walked \cup {i} ELSE walked
    /\ UNCHANGED <<lastT, insideCount, phase, now, frame, used, lost,
                   bstart, handed, sealed>>

EndFrame ==
    /\ phase = "counting"
    /\ todo = {}
    /\ EndUpdate(now)
    /\ phase' = "idle"
    /\ UNCHANGED <<frameVars, lost, todo, bstart, handed, sealed>>

\* close: finalize at the wall clock's time and flush the bucket in progress,
\* without rolling to that time first.
Close(t) ==
    /\ phase = "idle"
    /\ bstart # None
    /\ t >= now
    /\ LET end == IF t < bstart THEN bstart ELSE t
       IN  Hand(FinalStats(end)) /\ lastT' = end
    /\ live' = {} /\ parked' = {}
    /\ Forgotten(Tracks)
    /\ bstart' = None
    /\ phase' = "closed"
    /\ UNCHANGED <<insideCount, frameVars, lost, todo>>

\* norfair hands out ids in ascending order.
FreshIds(n) ==
    {ids \in SUBSET (Tracks \ used) :
        Cardinality(ids) = n /\ \A i \in ids, j \in Tracks \ (used \cup ids) : i < j}

NextFrame ==
    \E t \in 0 .. MaxT, n \in 0 .. Cardinality(Tracks) :
        \E kept \in SUBSET DOMAIN frame, ids \in FreshIds(n) :
            \E gps \in [kept \cup ids -> Places] : Frame(t, kept \cup ids, gps)

Next ==
    \/ NextFrame
    \/ \E i \in lost : EndLost(i)
    \/ BeginUpdate \/ Roll \/ BeginCount
    \/ \E i \in todo : Advance(i)
    \/ EndFrame
    \/ \E t \in 0 .. MaxT : Close(t)

Spec == Init /\ [][Next]_vars
-----------------------------------------------------------------------------
TypeOK ==
    /\ live \in SUBSET Tracks /\ parked \in SUBSET Tracks
    /\ ts \in [Tracks -> TrackState] /\ droppedAt \in [Tracks -> Int]
    /\ lastT \in Int \cup {None} /\ insideCount \in Nat /\ stats \in ZoneStats
    /\ phase \in {"idle", "ending", "rolling", "counting", "closed"}
    /\ now \in Int
    /\ lost \in SUBSET Tracks /\ todo \in SUBSET Tracks /\ used \in SUBSET Tracks
    /\ walked \in SUBSET Tracks
    /\ DOMAIN frame \subseteq Tracks /\ \A i \in DOMAIN frame : frame[i] \in Places
    /\ bstart \in Int \cup {None}
    /\ sealed \in [entries : Nat, dwells : Nat, passersby : Nat]

\* Every entry is one visit: it has left its dwell, or its person is still
\* inside, in view or within the grace window.  Buckets, occlusions, claims and
\* expiry neither lose a visit nor count it twice (counter.py:132-217).
VisitsConserved ==
    sealed.entries + stats.entries
        = sealed.dwells + stats.dwells + Cardinality(Inside(live \cup parked))

\* A visit is not held open longer than the grace window after the last frame
\* (counter.py:183-193).
GraceEnds ==
    phase = "idle" => \A i \in parked : now - droppedAt[i] <= ReentrySeconds

\* The occupied time of the bucket in progress fits into the part of the bucket
\* that has been looked at, so a full bucket never exceeds its width, however
\* long the gap between two frames (aggregate.py:172-181).
OccupiedFits ==
    bstart # None => /\ stats.occupied <= (IF lastT = None THEN 0 ELSE lastT - bstart)
                     /\ stats.occupied <= stats.persons

\* Whoever walked in is no passer-by, and nobody is two: the passers-by handed over
\* so far, the tracks in view or within the grace window that may still turn out
\* one, and the ids that were seen in the polygon are different ids, however often
\* a track is lost, parked, claimed and expired (counter.py:195-217).
HeadsCountedOnce ==
    sealed.passersby + stats.passersby
        + Cardinality({i \in live \cup parked : ~ts[i].entered})
        + Cardinality(walked) <= Cardinality(used)

-----------------------------------------------------------------------------
(* What the documents say and the code does not keep. *)

\* docs/metrics.md:13, "wall-clock seconds during which >= 1 person was inside":
\* no bucket has more of them than it is wide.
BucketHoldsOccupied == handed # None => handed.stats.occupied <= Width

\* counter.py:42, "max concurrent people inside during the bucket".
PeakSeesOccupants ==
    handed # None => (handed.stats.occupied > 0 => handed.stats.peak > 0)

\* docs/metrics.md:53-56, "event metrics (entries, dwell samples, passersby) are
\* attributed to the bucket where the event resolves (... a passerby to where the
\* track is dropped)": what _expire_parked counts was dropped in this bucket.
ExpiryLandsInItsBucket ==
    [][phase = "counting" /\ phase' = "idle"
        => \A i \in Stale(now) : ts[i].state = "inside" \/ (ts[i].seen /\ ~ts[i].entered)
                => droppedAt[i] >= bstart]_vars
=============================================================================
