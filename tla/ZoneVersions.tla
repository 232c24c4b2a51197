---------------------------- MODULE ZoneVersions ----------------------------
(***************************************************************************)
(* The zones of a site over time: cloud/whaletale_cloud/api/operator/      *)
(* routes.py reshape_zone and validation.py find_zone_overlaps, on the     *)
(* zone_versions table of models.py.                                       *)
(*                                                                         *)
(* A save is a transaction of several statements under READ COMMITTED, so  *)
(* the saves of two editors interleave between them; the UPDATE, the       *)
(* INSERT and the COMMIT are one step, for a transaction that waits for    *)
(* the row lock or the unique index of another comes out as if it had come *)
(* after it.  A polygon is a value, and which of them overlap is given.    *)
(***************************************************************************)
EXTENDS Integers, Sequences

CONSTANTS
    Spaces,
    CameraOf,           \* Spaces -> cameras
    Related(_, _),      \* one space is the parent of the other
    Polygons,
    Overlap(_, _),      \* polygons that share min_iou of their area
    FirstRows,          \* the versions onboarding has left
    Editors,
    Acks,               \* whether requests acknowledge overlaps: BOOLEAN, or less
    MaxTime,            \* bounds the clock
    MaxVersions,        \* bounds the table
    None

Times == 0 .. MaxTime

VARIABLES
    now,
    versions,           \* committed rows of zone_versions; an id is an index
    editor              \* what each editor's save has got to

zvars == <<now, versions, editor>>

Version == [space : Spaces, polygon : Polygons, primary : BOOLEAN,
            from : Times, to : Times \cup {None},
            base : Nat \cup {None}, ack : BOOLEAN, met : SUBSET Nat]   \* the request that made it

Idle == [pc |-> "idle"]
Request == [pc : {"sent", "read", "cleared", "stamped"}, space : Spaces,
            polygon : Polygons, base : Nat \cup {None}, ack : BOOLEAN,
            seen : Nat, met : SUBSET Nat, at : Times]
Outcome == [pc : {"reload", "overlap", "error"}]

Ids == DOMAIN versions
IsOpenPrimary(i) == versions[i].primary /\ versions[i].to = None
OpenPrimaries(s) == {i \in Ids : versions[i].space = s /\ IsOpenPrimary(i)}
Covers(v, t) == v.from <= t /\ (v.to = None \/ t < v.to)
ShapesAt(s, t) ==
    {i \in Ids : versions[i].space = s /\ versions[i].primary /\ Covers(versions[i], t)}

\* Every space has one open primary, and perhaps failovers on other cameras.
ASSUME ZoneAssumption ==
    /\ FirstRows \in Seq(Version)
    /\ \A i \in DOMAIN FirstRows :
           LET v == FirstRows[i] IN v.from = 0 /\ v.to = None /\ v.base = None /\ ~ v.ack /\ v.met = {}
    /\ \A s \in Spaces : \E i \in DOMAIN FirstRows : \A j \in DOMAIN FirstRows :
           FirstRows[j].space = s /\ FirstRows[j].primary <=> j = i
    /\ Acks \subseteq BOOLEAN /\ MaxTime \in Nat /\ MaxVersions \in Nat /\ None \notin Int
    /\ \A s, u \in Spaces : Related(s, u) \in BOOLEAN /\ Related(s, u) = Related(u, s)
    /\ \A p, q \in Polygons : Overlap(p, q) \in BOOLEAN /\ Overlap(p, q) = Overlap(q, p)

ZoneInit ==
    /\ now = 0
    /\ versions = FirstRows
    /\ editor = [e \in Editors |-> Idle]

Answer(e, outcome) == editor' = [editor EXCEPT ![e] = [pc |-> outcome]]

\* GET zone-versions/current, drawing and posting; base_version_id is the version
\* that was drawn on, or left out.
Draw(e, s, p, ack) ==
    /\ editor[e].pc = "idle"
    /\ \E i \in OpenPrimaries(s) : \E base \in {i, None} :
           editor' = [editor EXCEPT ![e] = [pc |-> "sent", space |-> s, polygon |-> p,
                                            base |-> base, ack |-> ack, seen |-> 0, met |-> {},
                                            at |-> 0]]
    /\ UNCHANGED <<now, versions>>

\* Mutant: the base is not compared.
ReadAnyBase(e) ==
    /\ editor[e].pc = "sent"
    /\ \E i \in OpenPrimaries(editor[e].space) :
           editor' = [editor EXCEPT ![e].pc = "read", ![e].seen = i]
    /\ UNCHANGED <<now, versions>>

\* The versions of the space are read and the base compared.
Read(e) ==
    LET r == editor[e] IN
    /\ r.pc = "sent"
    /\ \E i \in OpenPrimaries(r.space) :
           IF r.base \in {None, i}
           THEN editor' = [editor EXCEPT ![e].pc = "read", ![e].seen = i]
           ELSE Answer(e, "reload")
    /\ UNCHANGED <<now, versions>>

\* The open zones of other spaces on the camera.
Neighbours(s) ==
    {i \in Ids : /\ versions[i].space # s /\ CameraOf[versions[i].space] = CameraOf[s]
                 /\ IsOpenPrimary(i)}

\* find_zone_overlaps, less the parent and the children.
Unconfirmed(s, p) ==
    {i \in Neighbours(s) : Overlap(p, versions[i].polygon) /\ ~ Related(s, versions[i].space)}

\* An overlap nobody acknowledged is answered with a question.  Which zones it has
\* met is kept for the properties.
CheckOverlap(e) ==
    LET r == editor[e] IN
    /\ r.pc = "read"
    /\ IF r.ack \/ Unconfirmed(r.space, r.polygon) = {}
       THEN editor' = [editor EXCEPT ![e].pc = "cleared", ![e].met = Neighbours(r.space)]
       ELSE Answer(e, "overlap")
    /\ UNCHANGED <<now, versions>>

\* datetime.now, which has moved on since the version that was read was made.
Stamp(e) ==
    /\ editor[e].pc = "cleared"
    /\ versions[editor[e].seen].from < now
    /\ editor' = [editor EXCEPT ![e].pc = "stamped", ![e].at = now]
    /\ UNCHANGED <<now, versions>>

\* Mutant: the clock is read once more, and the new version begins after the old one ends.
NewVersionLater(r) == [space |-> r.space, polygon |-> r.polygon, primary |-> TRUE,
                       from |-> now, to |-> None, base |-> r.base, ack |-> r.ack, met |-> r.met]

NewVersion(r) == [space |-> r.space, polygon |-> r.polygon, primary |-> TRUE,
                  from |-> r.at, to |-> None, base |-> r.base, ack |-> r.ack, met |-> r.met]

\* Mutant: there is no unique index.
AdmittedWithoutIndex(r) == versions[r.seen].from < r.at

\* effective_range_ordered and uq_zone_versions_open_primary.
Admitted(r) == versions[r.seen].from < r.at /\ OpenPrimaries(r.space) = {r.seen}

\* Flush and commit: close the version that was read, insert the new one.
Save(e) ==
    LET r == editor[e] IN
    /\ r.pc = "stamped"
    /\ IF Admitted(r)
       THEN /\ Len(versions) < MaxVersions
            /\ versions' = Append([versions EXCEPT ![r.seen].to = r.at], NewVersion(r))
            /\ editor' = [editor EXCEPT ![e] = Idle]
       ELSE Answer(e, "error") /\ UNCHANGED versions
    /\ UNCHANGED now

\* The editor reads the answer, or the connection is lost and the transaction
\* rolled back.
Leave(e) ==
    /\ editor[e].pc # "idle"
    /\ editor' = [editor EXCEPT ![e] = Idle]
    /\ UNCHANGED <<now, versions>>

Tick ==
    /\ now < MaxTime
    /\ now' = now + 1
    /\ UNCHANGED <<versions, editor>>

Saving(e) ==
    \/ \E s \in Spaces, p \in Polygons, ack \in Acks : Draw(e, s, p, ack)
    \/ Read(e) \/ CheckOverlap(e) \/ Stamp(e) \/ Save(e) \/ Leave(e)

ZoneNext == Tick \/ \E e \in Editors : Saving(e)

ZoneSpec == ZoneInit /\ [][ZoneNext]_zvars
-----------------------------------------------------------------------------
ZoneTypeOK ==
    /\ now \in Times
    /\ versions \in Seq(Version)
    /\ editor \in [Editors -> {Idle} \cup Request \cup Outcome]

\* Whatever editors do at once, a space has one shape at every instant, none of
\* its history is without one and none has two (models.py:139-150,
\* routes.py:493-503).
OneShape ==
    \A s \in Spaces, t \in Times : \E i \in Ids : ShapesAt(s, t) = {i}

\* A save that says which version it was drawn on replaces that version and no
\* other, so no edit is undone by one that has not seen it (routes.py:459-463).
BaseReplaced ==
    \A i \in Ids : versions[i].base # None =>
        LET b == versions[versions[i].base] IN b.space = versions[i].space /\ b.to = versions[i].from

\* A save changes nothing about instants before the save was stamped
\* (routes.py:493-503, "Reports before today keep version N").
PastKept ==
    [][\A t \in Times : (\A e \in Editors : editor[e].pc = "stamped" => t < editor[e].at)
          => \A i \in Ids' : versions'[i].from <= t =>
                 i \in Ids /\ (Covers(versions'[i], t) <=> Covers(versions[i], t))]_zvars

\* Refinement: which version covers an instant, and since when the open one has.
Timeline == [s \in Spaces |-> [t \in Times |-> ShapesAt(s, t)]]
Since == [s \in Spaces |-> versions[CHOOSE i \in OpenPrimaries(s) : TRUE].from]

History == INSTANCE SpaceHistory WITH
    Instants <- Times, Shapes <- {{i} : i \in 1 .. Len(FirstRows) + MaxVersions},
    timeline <- Timeline, since <- Since

\* Saves that interleave, fail and overtake one another add up to a history that
\* grows at its end: every commit draws one space anew, from an instant after its last
\* change on (routes.py:434-515, models.py:139-151).
ImplementsHistory ==
    /\ History!HistoryInit
    /\ [][versions' # versions => History!HistoryNext]_versions

\* The open zones of two spaces of one camera, neither the parent of the other, overlap.
Overlapping(i, j) ==
    /\ IsOpenPrimary(i) /\ IsOpenPrimary(j)
    /\ versions[i].space # versions[j].space
    /\ CameraOf[versions[i].space] = CameraOf[versions[j].space]
    /\ ~ Related(versions[i].space, versions[j].space)
    /\ Overlap(versions[i].polygon, versions[j].polygon)

\* Where open zones overlap, whoever saved the later of them has acknowledged it, unless
\* the check of the later has not met the earlier: then each of the two saves was checked
\* before the other was there (validation.py:48-85, routes.py:465-491).
OverlapConfirmed ==
    \A i, j \in Ids : Overlapping(i, j) /\ i \in versions[j].met => versions[j].ack

\* docs/edge-cases.md:42, "Two zones overlapping on one camera, allowed but warn and
\* confirm parent/child", of all that has been saved.
OverlapAlwaysConfirmed ==
    \A i, j \in Ids : i < j /\ Overlapping(i, j) /\ j > Len(FirstRows) => versions[j].ack

\* docs/edge-cases.md:61, "Two operators editing zones at once, optimistic locking
\* on zone_versions, conflict warning": the save that comes second is answered with
\* the warning and not with an internal error.
LoserIsWarned == \A e \in Editors : editor[e].pc # "error"
=============================================================================
