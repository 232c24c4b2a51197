-------------------------- MODULE BucketAttribution --------------------------
(***************************************************************************)
(* cloud/whaletale_cloud/attribution.py: which observation of which        *)
(* version of a zone speaks for a space in a bucket, while editors reshape *)
(* the zone (ZoneVersions), the box counts with the versions of the site   *)
(* file it was started with (edge/agent/siteconfig.py) and its rows arrive *)
(* late and in any order.  What is counted is left out: a row is a version *)
(* and a bucket.                                                           *)
(***************************************************************************)
EXTENDS ZoneVersions

CONSTANTS
    BucketLen,
    Watched             \* bounds the buckets whose rows are followed

ASSUME BucketAssumption == BucketLen \in Nat \ {0} /\ Watched \subseteq Nat

VARIABLES
    counting,           \* the versions in the box's site file
    buffered,           \* rows the box has not got rid of
    observations        \* rows the cloud has accepted

vars == <<zvars, counting, buffered, observations>>

Buckets == {b \in Times : b * BucketLen \in Times}
Start(b) == b * BucketLen

Init ==
    /\ ZoneInit
    /\ counting = Ids
    /\ buffered = {} /\ observations = {}

\* A version's row of the bucket that is running, written when the bucket ends or
\* the agent stops in it; a camera that is down writes none.
Count(i) ==
    /\ i \in counting
    /\ now \div BucketLen \in Watched
    /\ buffered' = buffered \cup {<<i, now \div BucketLen>>}
    /\ UNCHANGED <<zvars, counting, observations>>

\* The agent is restarted with a site file made from the open versions.
Reload ==
    /\ counting' = {i \in Ids : versions[i].to = None}
    /\ UNCHANGED <<zvars, buffered, observations>>

\* _ingest_observations, which asks of a version only that it is one of the site's.
Upload(row) ==
    /\ row \in buffered
    /\ row[1] \in Ids
    /\ observations' = observations \cup {row}
    /\ buffered' = buffered \ {row}
    /\ UNCHANGED <<zvars, counting>>

Next ==
    \/ ZoneNext /\ UNCHANGED <<counting, buffered, observations>>
    \/ \E i \in Ids : Count(i)
    \/ Reload
    \/ \E row \in buffered : Upload(row)

Spec == Init /\ [][Next]_vars
-----------------------------------------------------------------------------
Primaries(s) == {i \in Ids : versions[i].space = s /\ versions[i].primary}
Secondaries(s) == {i \in Ids : versions[i].space = s /\ ~ versions[i].primary}

\* Mutant: the open version speaks for all of history.
EffectiveOpen(s, t) == OpenPrimaries(s)

\* _effective_version: the primary version in effect at an instant, if any.
Effective(s, t) == {i \in Primaries(s) : Covers(versions[i], t)}

\* The failover versions in effect.
StandIns(s, t) == {i \in Secondaries(s) : Covers(versions[i], t)}

Heard(V, b) == {i \in V : <<i, b>> \in observations}

Nobody == [version |-> None, quality |-> "ok"]

\* _resolve_bucket: the primary if it was heard, else a stand-in; which of several is
\* not said, for the SELECT has no order.
Decide(primary, standIn) ==
    IF primary # {} THEN [version |-> CHOOSE i \in primary : TRUE, quality |-> "ok"]
    ELSE IF standIn # {} THEN [version |-> CHOOSE i \in standIn : TRUE, quality |-> "degraded"]
    ELSE Nobody

Resolve(s, b) == Decide(Heard(Effective(s, Start(b)), b), Heard(StandIns(s, Start(b)), b))

TypeOK ==
    /\ ZoneTypeOK
    /\ counting \subseteq Ids
    /\ buffered \subseteq Ids \X Buckets /\ observations \subseteq Ids \X Buckets

\* What a report has said of a bucket stays, however the zone is reshaped and
\* whatever arrives later; only a gap or a stand-in is replaced, by the primary
\* (attribution.py:131-159, routes.py:493-503).
ReportsKept ==
    [][\A s \in Spaces, b \in {row[2] : row \in observations} :
          /\ Resolve(s, b) # Nobody
          /\ \A e \in Editors : editor[e].pc = "stamped" => Start(b) < editor[e].at
          => Resolve(s, b)' = Resolve(s, b) \/ /\ Resolve(s, b).quality = "degraded"
                                               /\ Resolve(s, b)'.quality = "ok"
                                               /\ Resolve(s, b)' # Nobody]_vars

\* docs/runbook.md:71: after a reshape a box with a stale zone configuration is
\* answered HTTP 422 and "the buckets stay buffered and retry", so a row of a
\* primary version that is accepted speaks for its space.
AcceptedIsAttributed ==
    \A row \in observations :
        LET v == versions[row[1]] IN
        v.primary => Resolve(v.space, row[2]).version = row[1]
=============================================================================
