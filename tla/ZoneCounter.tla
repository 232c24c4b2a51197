----------------------------- MODULE ZoneCounter -----------------------------
(***************************************************************************)
(* edge/agent/counter.py: the accounting of one zone, as the operations    *)
(* the aggregator calls (ZoneBuckets makes a specification of them).       *)
(*                                                                         *)
(* A track is a person as the tracker sees them: OUTSIDE, PENDING (in, but *)
(* not yet for min_dwell_seconds) or INSIDE (counted as an entry).  A      *)
(* track the tracker drops is parked for reentry_seconds; a fresh track    *)
(* that appears within reentry_distance of it inherits its state, so that  *)
(* an occlusion is not a second visit.                                     *)
(*                                                                         *)
(* Ground points are places on a line, which is all the three nested       *)
(* polygons and the Euclidean distance are used for.  Of dwell_samples the *)
(* number is kept, not the values; time is in whole ticks.                 *)
(***************************************************************************)
EXTENDS Integers, FiniteSets

CONSTANTS
    Tracks,             \* track ids; the tracker never reuses one
    Places,             \* ground points
    EnterPlaces,        \* covered by the zone polygon
    StayPlaces,         \* ... by the polygon plus exit_margin
    CatchmentPlaces,    \* ... by the polygon plus catchment_margin
    MinDwell,           \* min_dwell_seconds
    ReentrySeconds,
    ReentryDistance,
    None

ASSUME CounterAssumption ==
    /\ IsFiniteSet(Tracks)
    /\ Places \subseteq Int
    /\ EnterPlaces \subseteq StayPlaces
    /\ MinDwell \in Nat /\ ReentrySeconds \in Nat /\ ReentryDistance \in Nat
    /\ None \notin Int

VARIABLES
    live,               \* ids in _tracks
    parked,             \* ids in _parked
    ts,                 \* the _TrackState of a live or parked id
    droppedAt,          \* when a parked id was dropped
    lastT,              \* _last_t
    insideCount,        \* _inside_count, as of lastT
    stats               \* the ZoneStats of the bucket in progress

counterVars == <<live, parked, ts, droppedAt, lastT, insideCount, stats>>

TrackState == [state : {"outside", "pending", "inside"}, since : Int,
               entered : BOOLEAN, seen : BOOLEAN, at : Places \cup {None}]
ZoneStats == [entries : Nat, exits : Nat, dwells : Nat, passersby : Nat,
              merged : Nat, peak : Nat, occupied : Nat, persons : Nat]

NewTrack == [state |-> "outside", since |-> 0,
             entered |-> FALSE, seen |-> FALSE, at |-> None]
NoStats == [entries |-> 0, exits |-> 0, dwells |-> 0, passersby |-> 0,
            merged |-> 0, peak |-> 0, occupied |-> 0, persons |-> 0]

CounterInit ==
    /\ live = {} /\ parked = {}
    /\ ts = [i \in Tracks |-> NewTrack]
    /\ droppedAt = [i \in Tracks |-> 0]
    /\ lastT = None
    /\ insideCount = 0
    /\ stats = NoStats

ReentryEnabled == ReentrySeconds > 0 /\ ReentryDistance > 0
Inside(S) == {i \in S : ts[i].state = "inside"}
Distance(p, q) == IF p < q THEN q - p ELSE p - q

\* Mutant: the interval is credited to the people who are inside now.
AccruedAhead(t) ==
    LET dt == IF lastT = None THEN 0 ELSE t - lastT
        n == Cardinality(Inside(live))
    IN  IF dt > 0 /\ n > 0
        THEN [stats EXCEPT !.occupied = @ + dt * n, !.persons = @ + dt * n]
        ELSE stats

\* accrue_to: the time since lastT belongs to those who were inside then.
Accrued(t) ==
    LET dt == IF lastT = None THEN 0 ELSE t - lastT
    IN  IF dt > 0 /\ insideCount > 0
        THEN [stats EXCEPT !.occupied = @ + dt, !.persons = @ + dt * insideCount]
        ELSE stats

\* _claim_parked: the parked tracks a fresh one at p may continue, the closest
\* first; which of two equally close ones is left open.
Claimable(p, t) ==
    LET near == {i \in parked : /\ t - droppedAt[i] <= ReentrySeconds
                                /\ Distance(p, ts[i].at) <= ReentryDistance}
    IN  IF ~ReentryEnabled THEN {}
        ELSE {i \in near : \A j \in near : Distance(p, ts[i].at) <= Distance(p, ts[j].at)}

\* Where a track was, plus one observation of it at p.
Observed(s, p) ==
    [s EXCEPT !.at = p,
              !.entered = @ \/ p \in EnterPlaces,
              !.seen = @ \/ p \in CatchmentPlaces]

ComesIn(s, p) == s.state = "outside" /\ p \in EnterPlaces
IsCounted(s, p, t) == s.state = "pending" /\ p \in StayPlaces /\ t - s.since >= MinDwell
TurnsBack(s, p) == s.state = "pending" /\ p \notin StayPlaces
Leaves(s, p) == s.state = "inside" /\ p \notin StayPlaces

Moved(s, p, t) ==
    CASE ComesIn(s, p) -> [Observed(s, p) EXCEPT !.state = "pending", !.since = t]
      [] IsCounted(s, p, t) -> [Observed(s, p) EXCEPT !.state = "inside"]
      [] TurnsBack(s, p) \/ Leaves(s, p) -> [Observed(s, p) EXCEPT !.state = "outside"]
      [] OTHER -> Observed(s, p)

One(b) == IF b THEN 1 ELSE 0

\* What _advance counts for a track that was in state s.
Counted(st, s, p, t) ==
    [st EXCEPT !.entries = @ + One(IsCounted(s, p, t)),
               !.exits = @ + One(Leaves(s, p)),
               !.dwells = @ + One(Leaves(s, p))]

\* _advance of a track the counter knows.
AdvanceKnown(i, p, t) ==
    /\ i \in live
    /\ ts' = [ts EXCEPT ![i] = Moved(ts[i], p, t)]
    /\ stats' = Counted(stats, ts[i], p, t)
    /\ UNCHANGED <<live, parked, droppedAt>>

\* _advance of a track id seen for the first time and near no parked one.
AdvanceFresh(i, p, t) ==
    /\ i \notin live
    /\ Claimable(p, t) = {}
    /\ live' = live \cup {i}
    /\ ts' = [ts EXCEPT ![i] = Moved(NewTrack, p, t)]
    /\ stats' = Counted(stats, NewTrack, p, t)
    /\ UNCHANGED <<parked, droppedAt>>

\* Mutant: the parked state is copied to the fresh track and stays parked.
AdvanceCopying(i, j, p, t) ==
    /\ i \notin live
    /\ j \in Claimable(p, t)
    /\ live' = live \cup {i}
    /\ ts' = [ts EXCEPT ![i] = Moved(ts[j], p, t)]
    /\ stats' = Counted([stats EXCEPT !.merged = @ + One(ts[j].state # "outside")],
                        ts[j], p, t)
    /\ UNCHANGED <<parked, droppedAt>>

\* _advance of a fresh id that takes over the parked track j.
AdvanceClaiming(i, j, p, t) ==
    /\ i \notin live
    /\ j \in Claimable(p, t)
    /\ live' = live \cup {i}
    /\ parked' = parked \ {j}
    /\ ts' = [ts EXCEPT ![i] = Moved(ts[j], p, t), ![j] = NewTrack]
    /\ stats' = Counted([stats EXCEPT !.merged = @ + One(ts[j].state # "outside")],
                        ts[j], p, t)
    /\ droppedAt' = [droppedAt EXCEPT ![j] = 0]

\* Mutant: whoever came near is a passer-by, walked in or not.
PassedByAll(S) == {i \in S : ts[i].seen}

\* _classify_on_remove, for a set of tracks: those inside leave a dwell, those
\* that came near and never in were passers-by.
PassedBy(S) == {i \in S : ts[i].seen /\ ~ts[i].entered}
Classified(st, S) ==
    [st EXCEPT !.dwells = @ + Cardinality(Inside(S)),
               !.passersby = @ + Cardinality(PassedBy(S))]
Forgotten(S) == /\ ts' = [i \in Tracks |-> IF i \in S THEN NewTrack ELSE ts[i]]
                /\ droppedAt' = [i \in Tracks |-> IF i \in S THEN 0 ELSE droppedAt[i]]

\* end_track: park when the grace window is configured, classify otherwise.
EndTrack(i, t) ==
    /\ live' = live \ {i}
    /\ IF i \in live /\ ReentryEnabled
       THEN /\ parked' = parked \cup {i}
            /\ droppedAt' = [droppedAt EXCEPT ![i] = t]
            /\ UNCHANGED <<ts, stats>>
       ELSE /\ stats' = Classified(stats, {i} \cap live)
            /\ Forgotten({i} \cap live)
            /\ UNCHANGED parked
    /\ UNCHANGED <<lastT, insideCount>>

\* Mutant: only the visits among the parked tracks expire.
StaleVisits(t) ==
    {i \in parked : t - droppedAt[i] > ReentrySeconds /\ ts[i].state = "inside"}

Stale(t) == {i \in parked : t - droppedAt[i] > ReentrySeconds}

\* The end of update: _expire_parked, then the head count.
EndUpdate(t) ==
    /\ parked' = parked \ Stale(t)
    /\ Forgotten(Stale(t))
    /\ insideCount' = Cardinality(Inside(live))
    /\ stats' = [Classified(stats, Stale(t)) EXCEPT
                    !.peak = IF @ < Cardinality(Inside(live))
                             THEN Cardinality(Inside(live)) ELSE @]
    /\ UNCHANGED <<live, lastT>>

\* finalize; _inside_count stays what it was.
FinalStats(t) == Classified(Accrued(t), live \cup parked)
=============================================================================
