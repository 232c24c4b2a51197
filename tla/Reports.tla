------------------------------- MODULE Reports -------------------------------
(***************************************************************************)
(* What the console says about a space: build_report and normalize_space   *)
(* (cloud/whaletale_cloud/report.py, normalization.py, metrics.py) behind  *)
(* GET /spaces/{id} and report.pdf, while the ingest API goes on writing.  *)
(*                                                                         *)
(* Every figure of an answer comes from a query of its own, and the        *)
(* session reads committed data: between any two of them a payload may     *)
(* arrive.  A request is the sequence of its queries (Script), each one a  *)
(* step.  The rows of a space are what attribute_space returns for it      *)
(* (BucketAttribution); the calendar is that of the site, whose local days *)
(* differ in length when the clocks change.                                *)
(***************************************************************************)
EXTENDS Integers, Sequences, FiniteSets, FiniteSetsExt, Functions, SequencesExt

CONSTANTS
    Spaces,             \* the spaces of one kind at the site
    Midnight,           \* the first bucket of each local day, and the end of the last
    Week,               \* days in a week
    BaselineWeeks,      \* settings.baseline_weeks
    Sigma,              \* settings.anomaly_sigma
    Histories,          \* the rows there are at first
    Payloads,           \* rows and totals a payload may carry
    Exclusions,         \* the days annotated exclude_from_baseline
    Archivals,          \* the spaces with an archived_at, which no code in src/ sets
    Periods,            \* first and last day a request may ask for
    Scale,              \* one, in the unit capture rates are computed in
    MaxIngests,         \* bounds the payloads
    None

Days == 0 .. Len(Midnight) - 2
Buckets == 0 .. Midnight[Len(Midnight)] - 1

ASSUME ReportsAssumption ==
    /\ IsFiniteSet(Spaces)
    /\ Midnight \in Seq(Nat) /\ Len(Midnight) > 1 /\ Midnight[1] = 0
    /\ \A i, j \in 1 .. Len(Midnight) : i < j => Midnight[i] < Midnight[j]
    /\ Week \in Nat \ {0} /\ BaselineWeeks \in Nat /\ Sigma \in Nat /\ Scale \in Nat \ {0}
    /\ MaxIngests \in Nat
    /\ Exclusions \subseteq SUBSET Days /\ Archivals \subseteq SUBSET Spaces
    /\ \A p \in Periods : p \in Days \X Days /\ p[1] <= p[2]

\* What a row says, and what a payload may carry.
RowType == [entries : Nat, passersby : Nat, occupant : STRING \cup {None}]

ASSUME RowsAssumption ==
    /\ Histories \subseteq [Spaces -> [Buckets -> RowType \cup {None}]]
    /\ Payloads \subseteq [row : RowType, total : Nat \cup {None}]

ASSUME NoneIsNothing == None \notin RowType \cup [space : Spaces, days : Periods]

VARIABLES
    rows,               \* the attributed row of each space and bucket, or None
    people,             \* site_totals.total_people; 0 where there is no row
    excluded,           \* days with an exclude_from_baseline annotation
    archived,           \* spaces that are archived
    ingests,            \* how many payloads have come
    asked,              \* the request being answered: its space and its days
    todo,               \* the queries it still has to make
    seen,               \* what the queries it has made returned
    moved               \* whether a payload wrote what it had already read

dbVars == <<rows, people, excluded, archived, ingests>>
vars == <<dbVars, asked, todo, seen, moved>>

-----------------------------------------------------------------------------
(* The calendar. *)

\* The instant a local day begins; there is no data before day 0.
Begins(d) == IF d < 0 THEN 0 ELSE Midnight[d + 1]
LocalDay(b) == CHOOSE d \in Days : Begins(d) <= b /\ b < Begins(d + 1)
Between(from, to) == {b \in Buckets : from <= b /\ b < to}

\* Mutant: the end belongs to the period.
PeriodAndItsEnd(days) == Between(Begins(days[1]), Begins(days[2] + 1) + 1)

\* _period: from the midnight that begins the first day to the one that ends the
\* last.
PeriodBuckets(days) == Between(Begins(days[1]), Begins(days[2] + 1))

\* Mutant: the shift is made in absolute time, by days as long as the first one.
ShiftedByTheClock(days, w) ==
    LET back == w * Week * Begins(1)
    IN  Between(Begins(days[1]) - back, Begins(days[2] + 1) - back)

\* _shift_wall_clock: the same local times some weeks earlier.
Shifted(days, w) == <<days[1] - w * Week, days[2] - w * Week>>
ShiftedBuckets(days, w) ==
    Between(Begins(Shifted(days, w)[1]), Begins(Shifted(days, w)[2] + 1))


-----------------------------------------------------------------------------
(* The queries of a request, in the order of the code.  What each is for:   *)
(* the part of the answer, the figure it gives, the space, the days the     *)
(* part is about and how many weeks back the figure is taken.               *)

Query(part, of, space, days, back) ==
    [part |-> part, of |-> of, space |-> space, days |-> days, back |-> back]

Trailing(part, space, days) ==
    [w \in 1 .. BaselineWeeks |-> Query(part, "self", space, days, w)]

\* normalize_space, with the queries of _peer_rank.  The queries for excluded days
\* and archived spaces are made here and disregarded later, where the code skips them.
Normalize(part, space, days) ==
    <<Query(part, "self", space, days, 0), Query(part, "people", space, days, 0)>>
    \o Trailing(part, space, days)
    \o [i \in 1 .. Cardinality(Spaces) |->
            Query(part, "peer", SetToSeq(Spaces)[i], days, 0)]

\* iter_daily_anomalies: normalize_space for each local day; the ranks and the
\* shares of the days are not used, and the queries for them are left out.
EachDay(space, days) ==
    FlattenSeq([i \in 1 .. days[2] - days[1] + 1 |->
                    LET d == <<days[1] + i - 1, days[1] + i - 1>>
                    IN  <<Query("day", "self", space, d, 0)>> \o Trailing("day", space, d)])

\* space_detail: build_report and then normalize_space once more.
Script(space, days) ==
    <<Query("report", "self", space, days, 0), Query("report", "people", space, days, 0)>>
    \o Normalize("normalized", space, days)
    \o EachDay(space, days)
    \o Normalize("norm", space, days)

BucketsOf(q) == IF q.back = 0 THEN PeriodBuckets(q.days) ELSE ShiftedBuckets(q.days, q.back)

\* site_people_by_bucket, or attribute_space.
Result(q) ==
    IF q.of = "people" THEN Restrict(people, BucketsOf(q))
    ELSE Restrict(rows[q.space], {b \in BucketsOf(q) : rows[q.space][b] # None})

-----------------------------------------------------------------------------
Init ==
    /\ rows \in Histories
    /\ people \in {[b \in Buckets |-> p] : p \in {0, 4}}
    /\ excluded \in Exclusions /\ archived \in Archivals
    /\ ingests = 0
    /\ asked = None /\ todo = << >> /\ seen = << >> /\ moved = FALSE

\* Whether a row of a space, and a total unless it is None, is among what a query reads.
Touches(s, b, total, q) ==
    b \in BucketsOf(q) /\ (IF q.of = "people" THEN total # None ELSE q.space = s)

\* One payload, one transaction: a row for a bucket of a space and, unless it went
\* with another payload, the total of the bucket.
Ingest(s, b, r, total) ==
    /\ ingests < MaxIngests
    /\ ingests' = ingests + 1
    /\ rows' = [rows EXCEPT ![s][b] = r]
    /\ people' = [people EXCEPT ![b] = IF total = None THEN @ ELSE total]
    /\ moved' = (moved \/ \E i \in DOMAIN seen : Touches(s, b, total, seen[i].query))
    /\ UNCHANGED <<excluded, archived, asked, todo, seen>>

\* The operator opens a space.
Ask(space, days) ==
    /\ asked = None
    /\ asked' = [space |-> space, days |-> days]
    /\ todo' = Script(space, days)
    /\ seen' = << >>
    /\ moved' = FALSE
    /\ UNCHANGED dbVars

ReadNext ==
    /\ todo # << >>
    /\ seen' = Append(seen, [query |-> Head(todo), result |-> Result(Head(todo))])
    /\ todo' = Tail(todo)
    /\ UNCHANGED <<dbVars, asked, moved>>

\* The answer has been read; the next one starts from nothing.
Close ==
    /\ asked # None /\ todo = << >>
    /\ asked' = None /\ seen' = << >> /\ moved' = FALSE
    /\ UNCHANGED <<dbVars, todo>>

Next ==
    \/ \E s \in Spaces, b \in Buckets, p \in Payloads : Ingest(s, b, p.row, p.total)
    \/ \E s \in Spaces, days \in Periods : Ask(s, days)
    \/ ReadNext
    \/ Close

Spec == Init /\ [][Next]_vars

-----------------------------------------------------------------------------
(* What the code makes of the results. *)

Answered == asked # None /\ todo = << >>

Got(q) == seen[CHOOSE i \in DOMAIN seen : seen[i].query = q].result
Self(part, days, back) == Got(Query(part, "self", asked.space, days, back))
People(part) == Got(Query(part, "people", asked.space, asked.days, 0))
PeerRows(part, s) == Got(Query(part, "peer", s, asked.days, 0))

\* aggregate.
Entries(rs) == SumFunction([b \in DOMAIN rs |-> rs[b].entries])
Passersby(rs) == SumFunction([b \in DOMAIN rs |-> rs[b].passersby])
SitePeople(rs, totals) == SumFunctionOnSet(totals, DOMAIN rs)

\* MetricSet.capture_rate.
CaptureRate(rs) ==
    LET all == Entries(rs) + Passersby(rs)
    IN  IF all = 0 THEN 0 ELSE (Scale * Entries(rs)) \div all

\* MetricSet.traffic_share, as a fraction.
TrafficShare(rs, totals) ==
    IF SitePeople(rs, totals) = 0 THEN None ELSE <<Entries(rs), SitePeople(rs, totals)>>

\* The weeks a comparison uses: only the first day of a period is looked up among
\* the excluded days, and a period without rows does not count.
Baseline(part, days) ==
    {w \in 1 .. BaselineWeeks :
        /\ Shifted(days, w)[1] \notin excluded
        /\ DOMAIN Self(part, days, w) # {}}

\* _compare, without roots and divisions: mean and deviation of n values are S/n and
\* sqrt(n*Q - S^2)/n.
Compare(value, weeks, baseline) ==
    LET n == Cardinality(weeks)
        S == SumFunctionOnSet(baseline, weeks)
        Q == SumFunctionOnSet([w \in weeks |-> baseline[w] * baseline[w]], weeks)
        spread == n * Q - S * S
        off == n * value - S
    IN  [value |-> value, n |-> n, sum |-> S,
         anomaly |-> n >= 2 /\ spread > 0 /\ off * off > Sigma * Sigma * spread]

AgainstItself(part, days, Figure(_)) ==
    Compare(Figure(Self(part, days, 0)), Baseline(part, days),
            [w \in 1 .. BaselineWeeks |-> Figure(Self(part, days, w))])

EntriesVsSelf(part, days) == AgainstItself(part, days, Entries)
CaptureVsSelf(part, days) == AgainstItself(part, days, CaptureRate)
IsAnomaly(part, days) == EntriesVsSelf(part, days).anomaly \/ CaptureVsSelf(part, days).anomaly

\* The days _anomalies lists.
AnomalyDays ==
    {d \in asked.days[1] .. asked.days[2] : IsAnomaly("day", <<d, d>>)}

\* Mutant: archived spaces keep their places.
RankedOnceOpen(part) == {s \in Spaces : DOMAIN PeerRows(part, s) # {}}

\* The peers _peer_rank compares: a space that is archived or without rows has no place.
Ranked(part) == {s \in Spaces \ archived : DOMAIN PeerRows(part, s) # {}}

\* _peer_rank: the places the space may be given.  The sort is stable, and the
\* SELECT leaves the order of the peers open, so peers with the same rate may come
\* before it or after.
Ranks(part) ==
    LET rate == [s \in Ranked(part) |-> CaptureRate(PeerRows(part, s))]
        above == {s \in Ranked(part) : rate[s] > rate[asked.space]}
        level == {s \in Ranked(part) \ {asked.space} : rate[s] = rate[asked.space]}
    IN  IF asked.space \notin Ranked(part) THEN {}
        ELSE Cardinality(above) + 1 .. Cardinality(above) + Cardinality(level) + 1

\* _daily: the entries of each weekday.
Daily(rs) ==
    [weekday \in 0 .. Week - 1 |->
        SumFunction([b \in {b \in DOMAIN rs : LocalDay(b) % Week = weekday} |-> rs[b].entries])]

\* _occupancy_spans: who held most of the buckets of each day, the first of them if
\* several did, and equal days joined.
HolderOf(rs, d) ==
    LET on == {b \in DOMAIN rs : LocalDay(b) = d}
        held(o) == {b \in on : rs[b].occupant = o}
        most(b) == \A c \in on : Cardinality(held(rs[c].occupant)) <= Cardinality(held(rs[b].occupant))
    IN  IF on = {} THEN None ELSE rs[Min({b \in on : most(b)})].occupant

Joined(spans, who, d) ==
    IF spans # << >> /\ Last(spans).who = who
    THEN [spans EXCEPT ![Len(spans)].to = d]
    ELSE Append(spans, [who |-> who, from |-> d, to |-> d])
DaysOf(days) == [i \in 1 .. days[2] - days[1] + 1 |-> days[1] + i - 1]

\* Mutant: days without rows are passed over.
SpansOfData(rs, days) ==
    FoldLeft(LAMBDA spans, d : IF HolderOf(rs, d) = None THEN spans
                               ELSE Joined(spans, HolderOf(rs, d), d),
             << >>, DaysOf(days))

Spans(rs, days) ==
    FoldLeft(LAMBDA spans, d : Joined(spans, HolderOf(rs, d), d), << >>, DaysOf(days))

-----------------------------------------------------------------------------
TypeOK ==
    /\ rows \in [Spaces -> [Buckets -> RowType \cup {None}]]
    /\ people \in [Buckets -> Nat] /\ excluded \subseteq Days /\ archived \subseteq Spaces
    /\ ingests \in 0 .. MaxIngests /\ moved \in BOOLEAN
    /\ asked = None \/ asked \in [space : Spaces, days : Periods]
    /\ asked = None => todo = << >> /\ seen = << >>
    /\ asked # None =>
            [i \in DOMAIN seen |-> seen[i].query] \o todo = Script(asked.space, asked.days)

\* One answer is put together from four readings of the same period.  If no payload
\* wrote what some of them had read they are one story, though others came in between:
\* the headline, both comparisons and the days add up to the same entries, the shares
\* are the same, both rankings leave the space the same places, and a day asked for by
\* itself is judged alike by itself and in the list of anomalies.  Where a peer has the
\* same rate the places are several, and the two rankings may still choose differently
\* (report.py:101-114, routes.py:168-191, metrics.py:62-90, normalization.py:184-202).
DetailAgrees ==
    Answered /\ ~moved =>
        LET report == Self("report", asked.days, 0)
            days == asked.days[1] .. asked.days[2]
            ofDay == [d \in days |-> EntriesVsSelf("day", <<d, d>>).value]
            Share(part) == TrafficShare(Self(part, asked.days, 0), People(part))
        IN  /\ \A part \in {"normalized", "norm"} :
                    /\ EntriesVsSelf(part, asked.days).value = Entries(report)
                    /\ CaptureVsSelf(part, asked.days).value = CaptureRate(report)
                    /\ Share(part) = Share("report")
                    /\ Ranks(part) = Ranks("norm")
            /\ SumFunction(ofDay) = Entries(report)
            /\ \A wd \in 0 .. Week - 1 :
                    Daily(report)[wd] = SumFunctionOnSet(ofDay, {d \in days : d % Week = wd})
            /\ Cardinality(days) = 1 => (AnomalyDays # {}) = IsAnomaly("norm", asked.days)

\* The baseline of a day is made of the same weekdays of the trailing weeks and of
\* nothing else, whatever the clocks did in between: of the rows of those local
\* days, all of them, unless the day is excluded or has none
\* (normalization.py:81-97, 214-226; docs/metrics.md:33-40).
BaselineClean ==
    Answered /\ ~moved =>
        \A d \in asked.days[1] .. asked.days[2] :
            LET then(w) == {b \in Buckets : /\ LocalDay(b) = d - w * Week
                                           /\ rows[asked.space][b] # None}
                weeks == {w \in 1 .. BaselineWeeks : then(w) # {} /\ d - w * Week \notin excluded}
                all == {b \in Buckets : \E w \in weeks : b \in then(w)}
                judged == EntriesVsSelf("day", <<d, d>>)
            IN  /\ judged.n = Cardinality(weeks)
                /\ judged.sum = SumFunction([b \in all |-> rows[asked.space][b].entries])

\* A space that has rows is given a place among its peers, also if they arrived in the
\* middle of the request, unless it is archived, and then it is given none.  If no payload
\* wrote what had been read, the place lies behind all peers of a better capture rate and
\* before all of a worse one, archived peers counting as neither
\* (normalization.py:183-211).
RankIsEarned ==
    Answered =>
        \A part \in {"normalized", "norm"} :
            /\ asked.space \in archived => Ranks(part) = {}
            /\ asked.space \notin archived /\ DOMAIN Self("report", asked.days, 0) # {} =>
                    Ranks(part) # {}
            /\ ~moved =>
                    LET measured(s) == Result(Query(part, "peer", s, asked.days, 0))
                        rate(s) == CaptureRate(measured(s))
                        peers == {s \in Spaces \ archived : DOMAIN measured(s) # {}}
                        better == {s \in peers : rate(s) > rate(asked.space)}
                        worse == {s \in peers : rate(s) < rate(asked.space)}
                    IN  \A rank \in Ranks(part) :
                            /\ Cardinality(better) < rank
                            /\ rank <= Cardinality(peers) - Cardinality(worse)

\* The occupancy of a report covers its period: the spans follow on one another from
\* the first day to the last, none is split in two, and no row of a day says
\* otherwise than most rows of it (report.py:214-234).
SpansTile ==
    Answered =>
        LET rs == Self("report", asked.days, 0)
            spans == Spans(rs, asked.days)
        IN  /\ spans # << >> /\ spans[1].from = asked.days[1] /\ Last(spans).to = asked.days[2]
            /\ \A i \in 1 .. Len(spans) - 1 :
                    /\ spans[i + 1].from = spans[i].to + 1
                    /\ spans[i + 1].who # spans[i].who
            /\ \A i \in DOMAIN spans : \A d \in spans[i].from .. spans[i].to :
                    LET on == {b \in DOMAIN rs : LocalDay(b) = d}
                        held == {b \in on : rs[b].occupant = spans[i].who}
                    IN  /\ on = {} => spans[i].who = None
                        /\ \A b \in on : Cardinality({c \in on : rs[c].occupant = rs[b].occupant})
                                            <= Cardinality(held)

-----------------------------------------------------------------------------
(* What the documents say and the code does not keep. *)

\* normalization.py:5-6, "same weekday and clock hours, trailing N weeks, with
\* exclude_from_baseline days dropped": no excluded day is in a baseline.
ExcludedDaysDropped ==
    Answered =>
        \A w \in Baseline("norm", asked.days) :
            excluded \cap (Shifted(asked.days, w)[1] .. Shifted(asked.days, w)[2]) = {}

\* docs/metrics.md:38-40, "Anomalies (> 2 SD from the trailing baseline) are
\* surfaced": a day unlike a baseline that never varied is one.
OutlierIsFlagged ==
    Answered =>
        LET e == EntriesVsSelf("norm", asked.days)
            steady == \A w \in Baseline("norm", asked.days) :
                          Entries(Self("norm", asked.days, w)) * e.n = e.sum
        IN  e.n >= 2 /\ steady /\ e.value * e.n # e.sum => e.anomaly
=============================================================================
