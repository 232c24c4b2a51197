------------------------------ MODULE EdgeSync ------------------------------
(***************************************************************************)
(* The path of a rollup row from the edge box to the cloud database:       *)
(*                                                                         *)
(*   edge/agent/store.py            the SQLite tables and their watermark  *)
(*   edge/sync/client.py            push_once: read, POST, mark            *)
(*   edge/sync/sync_cli.py          the loop around it                     *)
(*   cloud/.../api/ingest.py        the upsert                             *)
(*   cloud/.../api/deps.py          the transaction around the request     *)
(*                                                                         *)
(* Two processes write the store, the agent (buckets) and the sync service *)
(* (the watermark), each in single-statement transactions.  A request can  *)
(* be lost, refused, answered into the void, or outlive the 15 s timeout   *)
(* of the client that sent it and be executed after a later one.  The API  *)
(* answers a request before it commits it: in the FastAPI of cloud/uv.lock *)
(* the part of get_session after its yield runs once the answer has gone,  *)
(* and when that commit fails, nobody tells the client.                    *)
(*                                                                         *)
(* Data is abstracted to what the protocol can tell apart: the n-th value  *)
(* written under a key is the number n, and the history variable writes    *)
(* counts them.                                                            *)
(***************************************************************************)
EXTENDS Integers, FiniteSets

CONSTANTS
    ObsKeys,            \* observation rows: (zone_version_id, bucket_start)
    TotalKeys,          \* site_total rows: (site_id, bucket_start)
    BucketOf,           \* the bucket_start of each row
    UnknownKeys,        \* observations whose zone version is not at the site
    Batch,              \* LIMIT of a read of the watermark
    Keep,               \* synced rows prune_synced leaves in place
    Slots,              \* bounds the requests outstanding at one time
    MaxWrites,          \* bounds the writes of one row
    Rewritten,          \* bounds the rows that are written more than once
    None

Keys == ObsKeys \cup TotalKeys
Vals == 0 .. MaxWrites
Rows == [key : Keys, val : 1 .. MaxWrites]
Requests == [obs : SUBSET Rows, tots : SUBSET Rows,
             stage : {"transit", "open", "replied"}]

ASSUME EdgeSyncAssumption ==
    /\ ObsKeys \cap TotalKeys = {}
    /\ \A k \in Keys : BucketOf[k] \in Int
    /\ UnknownKeys \subseteq ObsKeys
    /\ Batch \in Nat \ {0}
    /\ Keep \in Nat
    /\ MaxWrites \in Nat
    /\ Rewritten \subseteq Keys
    /\ None \notin Slots
    /\ None \notin Requests

VARIABLES
    val,                \* the row in the local table; 0 when there is none
    synced,             \* rows whose synced_at is not NULL
    writes,             \* how often the agent has written each row
    pc,                 \* where push_once is
    obs, tots,          \* the rows push_once has read
    awaiting,           \* the request push_once is waiting on
    inflight,           \* requests on the wire or in the API
    cloud,              \* the committed row in Postgres; 0 when there is none
    raced,              \* rows rewritten while a copy of them was on its way
    late,               \* requests executed when nobody waited for them any more
    dropped             \* rows answered for and rolled back, not stored since

storeVars == <<val, synced, writes, raced>>
clientVars == <<pc, obs, tots, awaiting>>
tables == <<cloud, dropped>>
cloudVars == <<inflight, late, tables>>
vars == <<val, synced, writes, pc, obs, tots, awaiting, inflight, cloud, raced, late, dropped>>

KeysOf(R) == {r.key : r \in R}
Pending == {k \in Keys : val[k] # 0 /\ k \notin synced}
RowsIn(s) == inflight[s].obs \cup inflight[s].tots
Busy(s) == inflight[s] # None
OnItsWay(k) == \/ k \in KeysOf(obs \cup tots)
               \/ \E s \in Slots : Busy(s) /\ k \in KeysOf(RowsIn(s))

Init ==
    /\ val = [k \in Keys |-> 0]
    /\ synced = {}
    /\ writes = [k \in Keys |-> 0]
    /\ pc = "idle"
    /\ obs = {} /\ tots = {}
    /\ awaiting = None
    /\ inflight = [s \in Slots |-> None]
    /\ cloud = [k \in Keys |-> 0]
    /\ raced = {} /\ late = {} /\ dropped = {}

-----------------------------------------------------------------------------
(* The agent's side of the store. *)

MayWrite(k) == writes[k] < MaxWrites /\ (writes[k] = 0 \/ k \in Rewritten)

\* Mutant: the conflict clause keeps synced_at.
AgentWriteKeepsMark(k) ==
    /\ MayWrite(k)
    /\ writes' = [writes EXCEPT ![k] = @ + 1]
    /\ val' = [val EXCEPT ![k] = writes[k] + 1]
    /\ raced' = IF OnItsWay(k) THEN raced \cup {k} ELSE raced
    /\ UNCHANGED <<synced, clientVars, cloudVars>>

\* write_observation, write_site_total: an upsert that clears synced_at.
AgentWrite(k) ==
    /\ MayWrite(k)
    /\ writes' = [writes EXCEPT ![k] = @ + 1]
    /\ val' = [val EXCEPT ![k] = writes[k] + 1]
    /\ synced' = synced \ {k}
    /\ raced' = IF OnItsWay(k) THEN raced \cup {k} ELSE raced
    /\ UNCHANGED <<clientVars, cloudVars>>

\* The newest Keep of the synced observations.
Newest(S) ==
    {K \in SUBSET S :
        /\ Cardinality(K) = IF Keep < Cardinality(S) THEN Keep ELSE Cardinality(S)
        /\ \A k \in K, j \in S \ K : BucketOf[k] >= BucketOf[j]}

\* Mutant: prune_synced without its WHERE synced_at IS NOT NULL.
PruneUnsynced ==
    LET rows == {k \in ObsKeys : val[k] # 0}
    IN  \E kept \in Newest(rows) :
            /\ rows # kept
            /\ val' = [k \in Keys |-> IF k \in rows \ kept THEN 0 ELSE val[k]]
            /\ synced' = synced \ (rows \ kept)
            /\ UNCHANGED <<writes, raced, clientVars, cloudVars>>

\* prune_synced: only observations, and only synced ones.
Prune ==
    LET shipped == synced \cap ObsKeys
    IN  \E kept \in Newest(shipped) :
            /\ shipped # kept
            /\ val' = [k \in Keys |-> IF k \in shipped \ kept THEN 0 ELSE val[k]]
            /\ synced' = synced \ (shipped \ kept)
            /\ UNCHANGED <<writes, raced, clientVars, cloudVars>>

-----------------------------------------------------------------------------
(* push_once. *)

\* SELECT ... WHERE synced_at IS NULL ORDER BY bucket_start LIMIT Batch, with
\* the order of rows of one bucket left open.
Oldest(S) ==
    {K \in SUBSET S :
        /\ Cardinality(K) = IF Batch < Cardinality(S) THEN Batch ELSE Cardinality(S)
        /\ \A k \in K, j \in S \ K : BucketOf[k] <= BucketOf[j]}

RowsOf(K) == {[key |-> k, val |-> val[k]] : k \in K}

\* The two reads are two statements; the agent may write between them.
ReadObservations ==
    /\ pc = "idle"
    /\ \E K \in Oldest(Pending \cap ObsKeys) : obs' = RowsOf(K)
    /\ pc' = "reading"
    /\ UNCHANGED <<storeVars, tots, awaiting, cloudVars>>

ReadTotals ==
    /\ pc = "reading"
    /\ \E K \in Oldest(Pending \cap TotalKeys) : tots' = RowsOf(K)
    /\ pc' = IF obs = {} /\ tots' = {} THEN "idle" ELSE "posting"
    /\ UNCHANGED <<storeVars, obs, awaiting, cloudVars>>

Post(s) ==
    /\ pc = "posting"
    /\ inflight[s] = None
    /\ inflight' = [inflight EXCEPT
                        ![s] = [obs |-> obs, tots |-> tots, stage |-> "transit"]]
    /\ awaiting' = s
    /\ pc' = "waiting"
    /\ UNCHANGED <<storeVars, obs, tots, late, tables>>

\* What every way out of push_once but the 2xx has in common: nothing is
\* marked and the rows are forgotten.
GiveUp ==
    /\ pc' = "idle"
    /\ obs' = {} /\ tots' = {}
    /\ awaiting' = None

\* URLError or OSError: no route, or no answer within the timeout.  What was
\* sent stays sent.
Unreachable ==
    /\ pc \in {"posting", "waiting"}
    /\ GiveUp
    /\ UNCHANGED <<storeVars, cloudVars>>

\* The service is killed and restarted (Restart=always) in the middle of
\* push_once; while it posts, that looks like Unreachable.
SyncCrash ==
    /\ pc \in {"reading", "marking"}
    /\ GiveUp
    /\ UNCHANGED <<storeVars, cloudVars>>

\* The ack: push_once goes on to mark what it read.
AckArrives(s) ==
    /\ awaiting = s
    /\ pc' = "marking"
    /\ awaiting' = None
    /\ UNCHANGED <<obs, tots>>

\* Mutant: the mark is a high-water mark over bucket_start, not a set of keys.
MarkUpTo(r) ==
    /\ pc = "marking"
    /\ r \in obs
    /\ \A q \in obs : BucketOf[r.key] <= BucketOf[q.key]
    /\ obs' = obs \ {r}
    /\ synced' = synced \cup {k \in ObsKeys : val[k] # 0 /\ BucketOf[k] <= BucketOf[r.key]}
    /\ UNCHANGED <<val, writes, raced, pc, tots, awaiting, cloudVars>>

\* One row of an executemany, in the order the rows were read; isolation_level
\* is None, so every row is its own transaction and matches by key alone.
MarkObservation(r) ==
    /\ pc = "marking"
    /\ r \in obs
    /\ \A q \in obs : BucketOf[r.key] <= BucketOf[q.key]
    /\ obs' = obs \ {r}
    /\ synced' = IF val[r.key] = 0 THEN synced ELSE synced \cup {r.key}
    /\ UNCHANGED <<val, writes, raced, pc, tots, awaiting, cloudVars>>

\* Mutant: the site totals are sent but never marked.
MarkTotalForgotten(r) ==
    /\ pc = "marking"
    /\ obs = {}
    /\ r \in tots
    /\ tots' = tots \ {r}
    /\ UNCHANGED <<storeVars, pc, obs, awaiting, cloudVars>>

MarkTotal(r) ==
    /\ pc = "marking"
    /\ obs = {}
    /\ r \in tots
    /\ \A q \in tots : BucketOf[r.key] <= BucketOf[q.key]
    /\ tots' = tots \ {r}
    /\ synced' = IF val[r.key] = 0 THEN synced ELSE synced \cup {r.key}
    /\ UNCHANGED <<val, writes, raced, pc, obs, awaiting, cloudVars>>

\* push_once returns ok; drain or the loop of the service calls it again.
Finish ==
    /\ pc = "marking"
    /\ obs = {} /\ tots = {}
    /\ pc' = "idle"
    /\ UNCHANGED <<storeVars, obs, tots, awaiting, cloudVars>>

-----------------------------------------------------------------------------
(* The network and the API. *)

At(s, stages) == Busy(s) /\ inflight[s].stage \in stages
Gone(s) == inflight' = [inflight EXCEPT ![s] = None] /\ late' = late \ {s}
MoveTo(s, st) == inflight' = [inflight EXCEPT ![s].stage = st]

\* A row the cloud has answered for, in a transaction that is yet to commit.
Owes(k) == \E s \in Slots : At(s, {"replied"}) /\ k \in KeysOf(RowsIn(s))
OwesValue(k, v) == \E s \in Slots : At(s, {"replied"}) /\ [key |-> k, val |-> v] \in RowsIn(s)

\* The client's view when request s will not be answered: nothing, until the
\* timeout.
NoAnswer(s) ==
    /\ awaiting' = IF awaiting = s THEN None ELSE awaiting
    /\ UNCHANGED <<pc, obs, tots>>

\* Mutant: push_once does not look at the status.
RefusedIsAck(s) == AckArrives(s) \/ NoAnswer(s)

\* A non-2xx answer reaches the client, if it is still there, or is lost.
Refused(s) == (awaiting = s /\ GiveUp) \/ NoAnswer(s)

LoseRequest(s) ==
    /\ At(s, {"transit"})
    /\ Gone(s)
    /\ NoAnswer(s)
    /\ UNCHANGED <<storeVars, tables>>

\* 422 for the whole payload when one zone version is unknown; 401, 403, 409,
\* 429 and 500 for reasons of their own.  Nothing is written.
Reject(s) ==
    /\ At(s, {"transit"})
    /\ Gone(s)
    /\ Refused(s)
    /\ UNCHANGED <<storeVars, tables>>

Execute(s) ==
    /\ MoveTo(s, "open")
    /\ late' = IF awaiting = s THEN late ELSE late \cup {s}
    /\ UNCHANGED <<storeVars, clientVars, tables>>

\* Mutant: the rows are looked up and written at the commit, without a lock.
UpsertUnlocked(s) ==
    /\ At(s, {"transit"})
    /\ KeysOf(inflight[s].obs) \cap UnknownKeys = {}
    /\ Execute(s)

\* The two upserts run inside the request's transaction and lock their rows.
Upsert(s) ==
    /\ At(s, {"transit"})
    /\ KeysOf(inflight[s].obs) \cap UnknownKeys = {}
    /\ \A t \in Slots \ {s} :
            At(t, {"open", "replied"}) => KeysOf(RowsIn(t)) \cap KeysOf(RowsIn(s)) = {}
    /\ Execute(s)

\* The 200 is sent before the transaction commits; it arrives if the client is
\* still waiting for it.
Answered(s) ==
    /\ At(s, {"open"})
    /\ MoveTo(s, "replied")
    /\ UNCHANGED <<storeVars, late, tables>>

\* get_session: commit ends the transaction; the upsert overwrites.
Commit(s) ==
    /\ At(s, {"replied"})
    /\ cloud' = [k \in Keys |->
                    IF \E r \in RowsIn(s) : r.key = k
                    THEN (CHOOSE r \in RowsIn(s) : r.key = k).val
                    ELSE cloud[k]]
    /\ dropped' = dropped \ KeysOf(RowsIn(s))
    /\ Gone(s)
    /\ UNCHANGED <<storeVars, clientVars>>

\* get_session: the handler, the commit or the whole process fails.  A client
\* that already has its answer is not told.
Abort(s) ==
    /\ At(s, {"open", "replied"})
    /\ dropped' = IF At(s, {"replied"}) THEN dropped \cup KeysOf(RowsIn(s)) ELSE dropped
    /\ Gone(s)
    /\ Refused(s)
    /\ UNCHANGED <<storeVars, cloud>>

AnswerOk(s) == Answered(s) /\ AckArrives(s)
AnswerLost(s) == Answered(s) /\ NoAnswer(s)

-----------------------------------------------------------------------------
Agent == Prune \/ \E k \in Keys : AgentWrite(k)

Client ==
    \/ ReadObservations \/ ReadTotals \/ Finish \/ Unreachable \/ SyncCrash
    \/ \E s \in Slots : Post(s)
    \/ \E r \in obs : MarkObservation(r)
    \/ \E r \in tots : MarkTotal(r)

Cloud ==
    \E s \in Slots :
        \/ LoseRequest(s) \/ Reject(s) \/ Upsert(s) \/ Commit(s) \/ Abort(s)
        \/ AnswerOk(s) \/ AnswerLost(s)

Next == Agent \/ Client \/ Cloud

Spec == Init /\ [][Next]_vars

\* The service runs in an endless loop under Restart=always and is not killed at
\* the same point of every round (SF); it always leaves its wait, by the timeout
\* if by nothing else; the API works on what it has received.  The network, the
\* refusals and the agent owe nothing.
Fairness ==
    /\ WF_vars(ReadObservations) /\ SF_vars(ReadTotals) /\ WF_vars(Finish)
    /\ WF_vars(Unreachable)
    /\ SF_vars(\E s \in Slots : Post(s))
    /\ SF_vars(\E r \in obs : MarkObservation(r))
    /\ SF_vars(\E r \in tots : MarkTotal(r))
    /\ \A s \in Slots :
        /\ WF_vars(Upsert(s) \/ Reject(s)) /\ WF_vars(Commit(s) \/ Abort(s))
        /\ WF_vars(AnswerOk(s) \/ AnswerLost(s))

FairSpec == Spec /\ Fairness
-----------------------------------------------------------------------------
TypeOK ==
    /\ val \in [Keys -> Vals] /\ writes \in [Keys -> Vals] /\ cloud \in [Keys -> Vals]
    /\ synced \in SUBSET Keys /\ raced \in SUBSET Keys
    /\ pc \in {"idle", "reading", "posting", "waiting", "marking"}
    /\ obs \in SUBSET Rows /\ tots \in SUBSET Rows
    /\ awaiting \in Slots \cup {None}
    /\ inflight \in [Slots -> Requests \cup {None}]
    /\ late \in SUBSET Slots /\ dropped \in SUBSET Keys

\* The cloud has answered for row k: it has stored it, is about to, or has failed to.
Taken(k) == cloud[k] # 0 \/ Owes(k) \/ k \in dropped

\* A row the edge has stopped sending was answered for: it is stored, or in a
\* transaction that has been answered and is yet to commit, or such a commit has
\* failed behind its answer; never a row that was only read, sent or refused
\* (client.py:105-123, deps.py:29-33).
SyncedWasTaken == \A k \in synced : Taken(k)

\* A bucket that was written is on the box at its last value or was answered for,
\* whatever crashes, timeouts, retries and pruning there have been: the commit that
\* fails behind its answer is the only way to lose one (store.py:269-282,
\* client.py:118-123, deps.py:32-36).
NothingLost == \A k \in Keys : writes[k] # 0 => val[k] = writes[k] \/ Taken(k)

\* If no bucket was rewritten while a copy of it was on its way and no commit failed
\* behind its answer, "synced" means that the cloud has exactly this value or is
\* about to commit it: partial marks, retries and requests that outlive their
\* timeout cannot make the two differ.
SyncedAgrees ==
    \A k \in synced \ (raced \cup dropped) : cloud[k] = val[k] \/ OwesValue(k, val[k])

\* Only a request that was executed after its client had given up on it takes the
\* cloud back to an older value of a row: as long as it is waited for, nothing newer
\* is under way, and from then to its commit its locks keep the rows
\* (ingest.py:71-79, client.py:105-124).
CloudForward ==
    [][\A k \in Keys : cloud'[k] < cloud[k] =>
            \E s \in late \ late' : k \in KeysOf(RowsIn(s))]_<<cloud, late>>

\* Once no attempt fails any more, the backlog is shipped to the last row: every
\* round makes progress, however many rounds failed or died half-way before
\* (client.py:132-143, sync_cli.py:65-86).
AttemptFails == pc \in {"posting", "waiting"} /\ pc' = "idle"
Drains == <>[][~AttemptFails]_vars => <>[](Pending = {})

-----------------------------------------------------------------------------
(* Refinement: the rows are where DurableUpload says they are. *)
Where == [k \in Keys |-> IF cloud[k] # 0 THEN "cloud"
                         ELSE IF writes[k] # 0 THEN "edge" ELSE "nowhere"]
Owed == {k \in Keys : Owes(k)}
Claimed == {k \in Keys : writes[k] # 0 /\ k \notin Pending}

Upload == INSTANCE DurableUpload WITH where <- Where, owed <- Owed, claimed <- Claimed

\* The store, the client and the API implement the durable upload.
ImplementsUpload == Upload!UpSpec

-----------------------------------------------------------------------------
(* What the documents say and the code does not keep. *)

\* client.py:4-6, "only marks them synced on a 2xx ack": a row marked synced is
\* the row that was acknowledged, which the cloud has or is about to commit, unless
\* that commit fails.
SyncedIsStored == \A k \in synced \ dropped : cloud[k] = val[k] \/ OwesValue(k, val[k])

\* "It only marks them synced on a 2xx ack, so a dropped WAN just means the same
\* rows go again" (client.py:4-6): a row that is marked has been stored, or a
\* request that will store it is still there.
AckIsDurable ==
    \A k \in synced :
        cloud[k] # 0 \/ \E s \in Slots : Busy(s) /\ k \in KeysOf(RowsIn(s))

\* client.py:6-7, "a resend is harmless": no request undoes a later one.
ResendIsHarmless == [][\A k \in Keys : cloud'[k] >= cloud[k]]_cloud

\* runbook.md:55, "rollups buffer in SQLite and ship when the link returns": a
\* bucket of a known zone is shipped in the end, whatever else is in its batch.
KnownRowsShip == \A k \in Keys \ UnknownKeys : (k \in Pending) ~> (cloud[k] # 0)
=============================================================================
