----------------------------- MODULE FleetAlerts -----------------------------
(***************************************************************************)
(* cloud/whaletale_cloud/fleet.py: the alerts of one site, derived from    *)
(* the heartbeats of its boxes (evaluate_fleet) and kept in the alerts     *)
(* table (sync_alerts).                                                    *)
(*                                                                         *)
(* An evaluation judges the boxes, reads the open rows, and flushes and    *)
(* commits what it makes of them; heartbeats, and another evaluation, come *)
(* in between.  Times are hours; messages and severities are left out.     *)
(***************************************************************************)
EXTENDS Integers, Sequences, FiniteSets, FiniteSetsExt

CONSTANTS
    Boxes,
    Label,              \* box -> its name
    CamerasOf,          \* box -> the names of its cameras
    Reports,            \* what a heartbeat may say, with ages for times
    Evaluators,
    DarkHours, StaleHours,
    Baseline,           \* baseline_heartbeats
    MinSamples,         \* the samples a baseline takes
    MaxTime,            \* bounds the clock
    MaxBeats,           \* bounds the heartbeats of a box
    None

CameraReport == [age : Nat \cup {None}, moved : BOOLEAN, confidence : Nat \cup {None}]
Report == [behind : BOOLEAN, diskLow : BOOLEAN, syncAge : Nat \cup {None}, camera : CameraReport]

ASSUME FleetAssumption ==
    /\ IsFiniteSet(Boxes) /\ IsFiniteSet(Evaluators) /\ \A b \in Boxes : IsFiniteSet(CamerasOf[b])
    /\ Reports \subseteq Report
    /\ DarkHours \in Nat /\ StaleHours \in Nat /\ Baseline \in Nat \ {0} /\ MinSamples \in Nat \ {0}
    /\ MaxTime \in Nat /\ MaxBeats \in Nat /\ None \notin Int

Times == 0 .. MaxTime
Instant == Int \cup {None}

VARIABLES
    now,
    paired, revoked,    \* boxes
    seen,               \* edge_boxes.last_seen_at
    beat,               \* the latest heartbeat of a box
    samples,            \* the confidences of the last ones, the latest at the end
    sent,               \* how many there have been
    open,               \* open rows of the alerts table: a key, an id and a box
    evaluator           \* what each evaluation has got to

vars == <<now, paired, revoked, seen, beat, samples, sent, open, evaluator>>
fleet == <<now, paired, revoked, seen, beat, samples, sent>>

Kinds == {"agent_behind", "never_reported", "sync_stale", "disk_low",
          "camera_dark", "camera_moved", "low_confidence"}
CameraNames == UNION {CamerasOf[b] : b \in Boxes}
Key == Kinds \X ({Label[b] : b \in Boxes} \cup CameraNames)
Found == Boxes \X Key

Beat == [behind : BOOLEAN, diskLow : BOOLEAN, sync : Instant,
         camera : [frame : Instant, moved : BOOLEAN, confidence : Nat \cup {None}]]

Idle == [pc |-> "idle", found |-> {}, rows |-> {}]

Init ==
    /\ now = 0
    /\ paired = {} /\ revoked = {}
    /\ seen = [b \in Boxes |-> None]
    /\ beat = [b \in Boxes |-> None] /\ samples = [b \in Boxes |-> <<>>]
    /\ sent = [b \in Boxes |-> 0]
    /\ open = {}
    /\ evaluator = [e \in Evaluators |-> Idle]

-----------------------------------------------------------------------------
(* The boxes. *)

Tick ==
    /\ now < MaxTime
    /\ now' = now + 1
    /\ UNCHANGED <<paired, revoked, seen, beat, samples, sent, open, evaluator>>

Pair(b) ==
    /\ b \notin paired
    /\ paired' = paired \cup {b}
    /\ UNCHANGED <<now, revoked, seen, beat, samples, sent, open, evaluator>>

Revoke(b) ==
    /\ b \in paired \ revoked
    /\ revoked' = revoked \cup {b}
    /\ UNCHANGED <<now, paired, seen, beat, samples, sent, open, evaluator>>

Ago(age) == IF age = None THEN None ELSE now - age

LastOf(s, n) == IF Len(s) <= n THEN s ELSE SubSeq(s, Len(s) - n + 1, Len(s))

\* authenticate and heartbeat; all cameras of a box report alike.
Heartbeat(b, r) ==
    /\ b \in paired \ revoked
    /\ sent[b] < MaxBeats
    /\ beat' = [beat EXCEPT ![b] =
                   [behind |-> r.behind, diskLow |-> r.diskLow, sync |-> Ago(r.syncAge),
                    camera |-> [frame |-> Ago(r.camera.age), moved |-> r.camera.moved,
                                confidence |-> r.camera.confidence]]]
    /\ samples' = [samples EXCEPT ![b] = LastOf(Append(@, r.camera.confidence), Baseline)]
    /\ sent' = [sent EXCEPT ![b] = @ + 1]
    /\ seen' = [seen EXCEPT ![b] = now]
    /\ UNCHANGED <<now, paired, revoked, open, evaluator>>

\* A call to ingest, which leaves last_seen_at.
Contact(b) ==
    /\ b \in paired \ revoked
    /\ seen' = [seen EXCEPT ![b] = now]
    /\ UNCHANGED <<now, paired, revoked, beat, samples, sent, open, evaluator>>

-----------------------------------------------------------------------------
(* evaluate_fleet. *)

Older(t, hours) == t # None /\ now - t > hours

\* Mutant: only the heartbeat is asked when the box has synced.
LastSyncOfBeat(b, hb) == hb.sync

LastSync(b, hb) == IF hb.sync # None THEN hb.sync ELSE seen[b]

\* _confidence_baseline and its use: enough samples, and less than 70% of their mean.
LowConfidence(b, hb) ==
    LET sampled == {i \in DOMAIN samples[b] : samples[b][i] # None}
        total == MapThenSumSet(LAMBDA i : samples[b][i], sampled)
    IN  /\ hb.camera.confidence # None
        /\ Cardinality(sampled) >= MinSamples
        /\ 10 * Cardinality(sampled) * hb.camera.confidence < 7 * total

\* The kinds a camera is reported under: dark, else moved, else of low confidence.
CameraKinds(b, hb) ==
    LET dark == hb.camera.frame = None \/ Older(hb.camera.frame, DarkHours) IN
    {k \in {"camera_dark", "camera_moved", "low_confidence"} :
        CASE k = "camera_dark" -> dark
          [] k = "camera_moved" -> ~ dark /\ hb.camera.moved
          [] k = "low_confidence" -> ~ dark /\ ~ hb.camera.moved /\ LowConfidence(b, hb)}

\* _box_alerts.
BoxAlerts(b) ==
    IF beat[b] = None THEN {<<"never_reported", Label[b]>>}
    ELSE LET hb == beat[b]
             kinds == {k \in {"agent_behind", "sync_stale", "disk_low"} :
                          CASE k = "agent_behind" -> hb.behind
                            [] k = "sync_stale" -> Older(LastSync(b, hb), StaleHours)
                            [] k = "disk_low" -> hb.diskLow}
         IN  (kinds \X {Label[b]}) \cup (CameraKinds(b, hb) \X CamerasOf[b])

\* evaluate_fleet: what is found wrong, and at which box.
Findings == UNION {{b} \X BoxAlerts(b) : b \in paired \ revoked}

Judge(e) ==
    /\ evaluator[e].pc = "idle"
    /\ evaluator' = [evaluator EXCEPT ![e] = [pc |-> "judged", found |-> Findings, rows |-> {}]]
    /\ UNCHANGED <<fleet, open>>

-----------------------------------------------------------------------------
(* sync_alerts. *)

ReadOpen(e) ==
    /\ evaluator[e].pc = "judged"
    /\ evaluator' = [evaluator EXCEPT ![e].pc = "read", ![e].rows = open]
    /\ UNCHANGED <<fleet, open>>

Keys(rows) == {row[1] : row \in rows}

\* Mutant: a key is current only if a row is added for it.
CurrentIfAdded(e) == {f[2] : f \in evaluator[e].found} \ Keys(evaluator[e].rows)

Current(e) == {f[2] : f \in evaluator[e].found}

\* Mutant: a row that is open is left open.
KeptForEver(e) == open

\* What stays of the open rows: a row this evaluation has read is resolved when its
\* key is not found any more.
Kept(e) == {row \in open : row \in evaluator[e].rows => row[1] \in Current(e)}

\* What is added: a row for every finding without an open one.
Added(e) == {f \in evaluator[e].found : f[2] \notin Keys(evaluator[e].rows)}

\* Mutant: there is no unique index.
AdmittedUnchecked(e) == TRUE

\* uq_alerts_open: no two of the rows added, and none that was added meanwhile,
\* have the same key.
Admitted(e) ==
    /\ \A f, g \in Added(e) : f[2] = g[2] => f = g
    /\ \A f \in Added(e) : f[2] \notin Keys(open)

\* An id no open row has, nor one an evaluation may still resolve.
NewId ==
    LET referred == open \cup UNION {evaluator[e].rows : e \in Evaluators}
    IN  CHOOSE n \in 1 .. Cardinality(referred) + 1 : \A row \in referred : row[2] # n

\* The flush and the commit; a violated index undoes the whole evaluation.
Commit(e) ==
    /\ evaluator[e].pc = "read"
    /\ IF Admitted(e)
       THEN open' = Kept(e) \cup {<<f[2], NewId, f[1]>> : f \in Added(e)}
       ELSE UNCHANGED open
    /\ evaluator' = [evaluator EXCEPT ![e] = Idle]
    /\ UNCHANGED fleet

Evaluate(e) == Judge(e) \/ ReadOpen(e) \/ Commit(e)

Next ==
    \/ Tick
    \/ \E b \in Boxes : \/ Pair(b) \/ Revoke(b) \/ Contact(b)
                        \/ \E r \in Reports : Heartbeat(b, r)
    \/ \E e \in Evaluators : Evaluate(e)

Spec == Init /\ [][Next]_vars

\* docs/runbook.md:138, "Schedule it (every few minutes)".
FairSpec == Spec /\ \A e \in Evaluators : WF_vars(Evaluate(e))
-----------------------------------------------------------------------------
TypeOK ==
    /\ now \in Times
    /\ paired \subseteq Boxes /\ revoked \subseteq paired
    /\ seen \in [Boxes -> Times \cup {None}]
    /\ \A b \in Boxes : /\ sent[b] \in 0 .. MaxBeats
                        /\ beat[b] \in Beat \cup {None}
                        /\ samples[b] \in Seq(Nat \cup {None}) /\ Len(samples[b]) <= Baseline
    /\ open \subseteq Key \X Nat \X Boxes
    /\ \A e \in Evaluators : /\ evaluator[e].pc \in {"idle", "judged", "read"}
                             /\ evaluator[e].found \subseteq Found
                             /\ evaluator[e].rows \subseteq Key \X Nat \X Boxes

\* fleet.py:11, "one open alerts row per (site, kind, subject)", whatever evaluations
\* run at once (models.py:352-359, fleet.py:278-300).
OneOpen == \A row, other \in open : row[1] = other[1] => row = other

\* A box that has reported once and then falls silent is found within the stale
\* window, whatever its last heartbeat said of syncing (fleet.py:166-168,
\* deps.py:80).
SilenceIsFound ==
    \A b \in paired \ revoked :
        beat[b] # None /\ Older(seen[b], StaleHours) =>
            <<b, <<"sync_stale", Label[b]>>>> \in Findings

\* docs/runbook.md:138, "It resolves rows whose condition is gone": once nothing
\* changes any more the open rows are what is wrong, and stay so, whatever
\* evaluations have raced before.  It takes labels and camera names that no two boxes
\* share (fleet.py:278-307).
Settles == <>[](Keys(open) = {f[2] : f \in Findings})

Undisturbed(e) == evaluator[e].pc # "idle" => evaluator[e].found = Findings
Names == {f[2] : f \in Findings}

\* The keys the table is wrong about: open and not found, or found and not open.
Wrong == (Keys(open) \ Names) \cup (Names \ Keys(open))

\* Evaluations that have all seen the boxes as they are make the table only better,
\* whatever rows they have read and in whatever order they commit: no alert that is
\* right is resolved, and none is opened that is not found (fleet.py:278-307).
NeverWorse ==
    [][(\A e \in Evaluators : Undisturbed(e)) /\ UNCHANGED fleet => Wrong' \subseteq Wrong]_vars

\* An alert the evaluation adds has the key of another it adds, or of one that was
\* opened since it read the rows.
Clash(e) ==
    \E f \in Added(e) : \/ f[2] \in Keys(open)
                        \/ \E g \in Added(e) : g # f /\ g[2] = f[2]

\* fleet.py:275, "Upsert open alert rows to match `evaluated`; resolve those that
\* cleared", with other evaluations committing meanwhile and whatever names boxes share:
\* an evaluation whose alerts clash leaves every row as it was.  After any other, an alert
\* it found is open, unless a row it took for open has been resolved since; and a row it
\* has not found is open only if it was opened since.
MatchesEvaluated ==
    [][\A e \in Evaluators :
          evaluator[e].pc = "read" /\ evaluator'[e].pc = "idle" =>
              LET found == {f[2] : f \in evaluator[e].found}
                  rows == evaluator[e].rows
              IN  IF Clash(e)
                  THEN open' = open
                  ELSE /\ found \subseteq Keys(open') \cup (Keys(rows) \ Keys(open))
                       /\ \A row \in open' : row[1] \in found \/ row \in open \ rows]_vars

\* docs/index.html:626, "No successful sync for more than 6 h": an alert that says so
\* is not taken back before the box tells of a sync (fleet.py:167).
StaleIsFound ==
    [][\A b \in paired \ revoked :
          /\ <<b, <<"sync_stale", Label[b]>>>> \in Findings
          /\ beat'[b] # beat[b] /\ b \notin revoked'
          => \/ <<b, <<"sync_stale", Label[b]>>>> \in Findings'
             \/ beat'[b].sync # None]_vars
=============================================================================
