--------------------------- MODULE EdgeSyncProofs ---------------------------
(***************************************************************************)
(* Proofs about EdgeSync and EdgePower for any rows, batch size, number of *)
(* outstanding requests, rewrites and power losses.                        *)
(*                                                                         *)
(* First the machine without power losses, in which the commit behind an   *)
(* answer may fail.                                                        *)
(***************************************************************************)
EXTENDS EdgePower, TLAPS

\* A copy r of a row, on its way somewhere: it is a value that was written,
\* and the last one unless the row was rewritten meanwhile.
Genuine(r) ==
    /\ r.val <= writes[r.key]
    /\ r.key \notin raced => r.val = writes[r.key]

\* The cloud has answered for row k, and has its last value unless the row was
\* rewritten, or the transaction is still open or was rolled back.
Held(k) ==
    \/ Owes(k) \/ k \in dropped
    \/ cloud[k] # 0 /\ (k \notin raced => cloud[k] = writes[k])

LocalInv ==
    \A k \in Keys :
        /\ val[k] \in {0, writes[k]}
        /\ cloud[k] <= writes[k]
        /\ val[k] = 0 /\ writes[k] # 0 => Taken(k)
        /\ k \in synced => val[k] # 0 /\ Held(k)

BatchInv ==
    \A r \in obs \cup tots : Genuine(r) /\ (pc = "marking" => Held(r.key))

FlightInv == \A s \in Slots : Busy(s) => \A r \in RowsIn(s) : Genuine(r)

\* The request the client waits for carries what the client will mark, and has not
\* been answered.
AwaitInv ==
    awaiting # None =>
        /\ pc = "waiting" /\ Busy(awaiting) /\ RowsIn(awaiting) = obs \cup tots
        /\ inflight[awaiting].stage # "replied"

IInv == TypeOK /\ LocalInv /\ BatchInv /\ FlightInv /\ AwaitInv
-----------------------------------------------------------------------------
(* Helpers: what the reads return and what a request is. *)

LEMMA ReadRows ==
    ASSUME TypeOK, NEW K \in SUBSET Pending
    PROVE  RowsOf(K) \in SUBSET Rows
<1> SUFFICES ASSUME NEW k \in K PROVE [key |-> k, val |-> val[k]] \in Rows
    BY DEF RowsOf
<1>1. k \in Keys /\ val[k] \in Vals /\ val[k] # 0
    BY DEF Pending, TypeOK
<1> QED BY <1>1, EdgeSyncAssumption DEF Vals, Rows

LEMMA BusyRequest ==
    ASSUME TypeOK, NEW s \in Slots, Busy(s)
    PROVE  /\ inflight[s] \in Requests
           /\ RowsIn(s) \in SUBSET Rows
BY DEF TypeOK, Busy, RowsIn, Requests

\* A slot that is freed or moves to another stage is still well typed.
LEMMA SlotTypes ==
    ASSUME TypeOK, NEW s \in Slots, Busy(s),
           NEW st \in {"transit", "open", "replied"},
           Gone(s) \/ MoveTo(s, st)
    PROVE  inflight' \in [Slots -> Requests \cup {None}]
<1>1. inflight[s] \in Requests
    BY BusyRequest
<1>2. [inflight[s] EXCEPT !.stage = st] \in Requests
    BY <1>1 DEF Requests
<1> QED BY <1>2 DEF TypeOK, Gone, MoveTo

LEMMA TypeStep == TypeOK /\ [Next]_vars => TypeOK'
<1> SUFFICES ASSUME TypeOK, [Next]_vars PROVE TypeOK'
    OBVIOUS
<1> USE DEF storeVars, clientVars, cloudVars, tables
<1>1. ASSUME NEW k \in Keys, AgentWrite(k) PROVE TypeOK'
  <2>1. writes[k] + 1 \in Vals
      BY <1>1, EdgeSyncAssumption DEF AgentWrite, MayWrite, TypeOK, Vals
  <2> QED BY <1>1, <2>1 DEF AgentWrite, TypeOK
<1>2. CASE Prune
    BY <1>2, EdgeSyncAssumption DEF Prune, TypeOK, Vals
<1>3. CASE ReadObservations
  <2>1. PICK K \in Oldest(Pending \cap ObsKeys) : obs' = RowsOf(K)
      BY <1>3 DEF ReadObservations
  <2>2. obs' \in SUBSET Rows
      BY <2>1, ReadRows DEF Oldest
  <2> QED BY <1>3, <2>2 DEF ReadObservations, TypeOK
<1>4. CASE ReadTotals
  <2>1. PICK K \in Oldest(Pending \cap TotalKeys) : tots' = RowsOf(K)
      BY <1>4 DEF ReadTotals
  <2>2. tots' \in SUBSET Rows
      BY <2>1, ReadRows DEF Oldest
  <2> QED BY <1>4, <2>2 DEF ReadTotals, TypeOK
<1>5. ASSUME NEW s \in Slots, Post(s) PROVE TypeOK'
  <2>1. [obs |-> obs, tots |-> tots, stage |-> "transit"] \in Requests
      BY DEF TypeOK, Requests
  <2> QED BY <1>5, <2>1 DEF Post, TypeOK
<1>6. CASE Unreachable \/ SyncCrash
    BY <1>6 DEF Unreachable, SyncCrash, GiveUp, TypeOK
<1>7. ASSUME NEW r \in obs, MarkObservation(r) PROVE TypeOK'
  <2>1. r.key \in Keys
      BY DEF TypeOK, Rows
  <2> QED BY <1>7, <2>1 DEF MarkObservation, TypeOK
<1>8. ASSUME NEW r \in tots, MarkTotal(r) PROVE TypeOK'
  <2>1. r.key \in Keys
      BY DEF TypeOK, Rows
  <2> QED BY <1>8, <2>1 DEF MarkTotal, TypeOK
<1>9. CASE Finish
    BY <1>9 DEF Finish, TypeOK
<1>10. ASSUME NEW s \in Slots,
              LoseRequest(s) \/ Reject(s) \/ Upsert(s) \/ Abort(s)
                  \/ AnswerOk(s) \/ AnswerLost(s)
       PROVE  TypeOK'
  <2>1. inflight' \in [Slots -> Requests \cup {None}]
      BY <1>10, SlotTypes
      DEF LoseRequest, Reject, Upsert, Execute, Abort, AnswerOk, AnswerLost, Answered, At
  <2>2. /\ pc' \in {"idle", "reading", "posting", "waiting", "marking"}
        /\ obs' \in SUBSET Rows /\ tots' \in SUBSET Rows
        /\ awaiting' \in Slots \cup {None}
      BY <1>10 DEF LoseRequest, Reject, Upsert, Execute, Abort, AnswerOk, AnswerLost,
                   Refused, NoAnswer, GiveUp, AckArrives, TypeOK
  <2>3. UNCHANGED <<val, synced, writes, raced, cloud>> /\ late' \in SUBSET Slots
      BY <1>10 DEF LoseRequest, Reject, Upsert, Execute, Abort, AnswerOk, AnswerLost,
                   Answered, Gone, TypeOK
  <2>4. dropped' \in SUBSET Keys
    <3>1. At(s, {"replied"}) => KeysOf(RowsIn(s)) \subseteq Keys
        BY BusyRequest DEF At, KeysOf, Rows
    <3> QED BY <1>10, <3>1 DEF LoseRequest, Reject, Upsert, Execute, Abort, AnswerOk,
                               AnswerLost, Answered, TypeOK
  <2> QED BY <2>1, <2>2, <2>3, <2>4 DEF TypeOK
<1>11. ASSUME NEW s \in Slots, Commit(s) PROVE TypeOK'
  <2>1. inflight' \in [Slots -> Requests \cup {None}]
      BY <1>11, SlotTypes DEF Commit, At
  <2>2. ASSUME NEW k \in Keys, \E r \in RowsIn(s) : r.key = k
        PROVE  (CHOOSE r \in RowsIn(s) : r.key = k).val \in Vals
      BY <2>2, <1>11, BusyRequest, EdgeSyncAssumption DEF Commit, At, Rows, Vals
  <2>3. cloud' \in [Keys -> Vals]
      BY <1>11, <2>2 DEF Commit, TypeOK
  <2> QED BY <1>11, <2>1, <2>3 DEF Commit, Gone, TypeOK
<1>12. CASE UNCHANGED vars
    BY <1>12 DEF vars, TypeOK
<1> QED BY <1>1, <1>2, <1>3, <1>4, <1>5, <1>6, <1>7, <1>8, <1>9, <1>10, <1>11, <1>12
        DEF Next, Agent, Client, Cloud

\* TypeOK.
THEOREM TypeCorrect == Spec => []TypeOK
<1>1. Init => TypeOK
    BY EdgeSyncAssumption DEF Init, TypeOK, Vals
<1> QED BY <1>1, TypeStep, PTL DEF Spec

-----------------------------------------------------------------------------
(* The inductive invariant. *)

\* A row of a read is the last value written.
LEMMA ReadsGenuine ==
    ASSUME TypeOK, LocalInv, NEW K \in SUBSET Pending, NEW r \in RowsOf(K)
    PROVE  Genuine(r)
<1>1. PICK k \in K : r = [key |-> k, val |-> val[k]]
    BY DEF RowsOf
<1>2. k \in Keys /\ val[k] # 0 /\ val[k] \in {0, writes[k]} /\ writes[k] \in Vals
    BY <1>1 DEF Pending, LocalInv, TypeOK
<1> QED BY <1>1, <1>2, EdgeSyncAssumption DEF Genuine, Vals

\* What a slot that is freed or moves on does to the others: nothing; and its
\* rows stay what they are.
LEMMA SlotRows ==
    ASSUME TypeOK, NEW s \in Slots, Busy(s), NEW st,
           Gone(s) \/ MoveTo(s, st), NEW t \in Slots, Busy(t)'
    PROVE  /\ Busy(t) /\ RowsIn(t)' = RowsIn(t)
           /\ t # s => inflight'[t] = inflight[t]
           /\ t = s => MoveTo(s, st) /\ inflight'[t].stage = st
BY BusyRequest DEF TypeOK, Gone, MoveTo, Busy, RowsIn, Requests

\* One step of the network or the API on request s.
CloudStep(s) ==
    \/ LoseRequest(s) \/ Reject(s) \/ Upsert(s) \/ Commit(s) \/ Abort(s)
    \/ AnswerOk(s) \/ AnswerLost(s)

LEMMA CloudFrame ==
    ASSUME TypeOK, NEW s \in Slots, CloudStep(s)
    PROVE  /\ Busy(s) /\ UNCHANGED <<val, synced, writes, raced>>
           /\ \E st \in {"open", "replied"} : Gone(s) \/ MoveTo(s, st)
           /\ \A t \in Slots \ {s} : inflight'[t] = inflight[t]
           /\ ~Commit(s) => UNCHANGED cloud
           /\ At(s, {"replied"}) => Commit(s) \/ Abort(s)
<1> USE DEF storeVars, clientVars, tables
<1>1. /\ Busy(s) /\ UNCHANGED <<val, synced, writes, raced>>
      /\ \E st \in {"open", "replied"} : Gone(s) \/ MoveTo(s, st)
      /\ ~Commit(s) => UNCHANGED cloud
    BY DEF CloudStep, LoseRequest, Reject, Upsert, Execute, Commit, Abort, AnswerOk,
           AnswerLost, Answered, At
<1>2. \A t \in Slots \ {s} : inflight'[t] = inflight[t]
    BY <1>1 DEF Gone, MoveTo, TypeOK
<1>3. At(s, {"replied"}) => Commit(s) \/ Abort(s)
    BY DEF CloudStep, LoseRequest, Reject, Upsert, AnswerOk, AnswerLost, Answered, At
<1> QED BY <1>1, <1>2, <1>3

\* What a commit leaves under a key it carries is one of the values it carries.
LEMMA CommitWrites ==
    ASSUME TypeOK, FlightInv, NEW s \in Slots, Commit(s), NEW k \in Keys
    PROVE  \/ k \notin KeysOf(RowsIn(s)) /\ cloud'[k] = cloud[k]
           \/ \E r \in RowsIn(s) : r.key = k /\ r \in Rows /\ Genuine(r) /\ cloud'[k] = r.val
<1>1. Busy(s)
    BY DEF Commit, At
<1>2. \A r \in RowsIn(s) : r \in Rows /\ Genuine(r)
    BY <1>1, BusyRequest DEF FlightInv
<1>3. CASE k \in KeysOf(RowsIn(s))
  <2>1. \E r \in RowsIn(s) : r.key = k
      BY <1>3 DEF KeysOf
  <2> QED BY <2>1, <1>2 DEF Commit
<1>4. CASE k \notin KeysOf(RowsIn(s))
    BY <1>4 DEF Commit, KeysOf
<1> QED BY <1>3, <1>4

\* What the cloud has answered for stays answered for.
LEMMA CloudKeeps ==
    ASSUME TypeOK, FlightInv, NEW s \in Slots, CloudStep(s), NEW k \in Keys
    PROVE  (Held(k) => Held(k)') /\ (Taken(k) => Taken(k)')
<1> USE DEF storeVars, tables
<1>1. UNCHANGED <<writes, raced>>
    BY CloudFrame
<1>2. CASE Commit(s) /\ k \in KeysOf(RowsIn(s))
  <2>1. PICK r \in RowsIn(s) : r.key = k /\ r \in Rows /\ Genuine(r) /\ cloud'[k] = r.val
      BY <1>2, CommitWrites
  <2>2. cloud'[k] # 0 /\ (k \notin raced => cloud'[k] = writes[k])
      BY <2>1, EdgeSyncAssumption DEF Genuine, Rows
  <2> QED BY <1>1, <2>2 DEF Held, Taken
<1>3. CASE Abort(s) /\ At(s, {"replied"}) /\ k \in KeysOf(RowsIn(s))
    BY <1>3 DEF Abort, Held, Taken
<1>4. CASE ~(At(s, {"replied"}) /\ k \in KeysOf(RowsIn(s)))
  <2>1. Owes(k) => Owes(k)'
    <3> SUFFICES ASSUME NEW t \in Slots, At(t, {"replied"}), k \in KeysOf(RowsIn(t))
                 PROVE  Owes(k)'
        BY DEF Owes
    <3>1. inflight'[t] = inflight[t]
        BY <1>4, CloudFrame
    <3> QED BY <3>1 DEF Owes, At, Busy, RowsIn
  <2>2. k \in dropped => k \in dropped'
      BY <1>4 DEF CloudStep, LoseRequest, Reject, Upsert, Execute, Commit, Abort,
                  AnswerOk, AnswerLost, Answered
  <2>3. cloud'[k] = cloud[k]
    <3>1. CASE Commit(s)
        BY <1>4, <3>1, CommitWrites DEF Commit, KeysOf
    <3> QED BY <3>1, CloudFrame
  <2> QED BY <1>1, <2>1, <2>2, <2>3 DEF Held, Taken
<1> QED BY <1>2, <1>3, <1>4, CloudFrame

LEMMA OwesFrame ==
    ASSUME UNCHANGED inflight
    PROVE  /\ \A k : Owes(k)' <=> Owes(k)
           /\ \A s \in Slots : (Busy(s)' <=> Busy(s)) /\ RowsIn(s)' = RowsIn(s)
BY DEF Owes, At, Busy, RowsIn

\* Marking one row r of the batch, which the cloud holds.
LEMMA MarkPreserves ==
    ASSUME IInv, pc = "marking", NEW r \in obs \cup tots,
           synced' = IF val[r.key] = 0 THEN synced ELSE synced \cup {r.key},
           UNCHANGED <<val, writes, raced, inflight, cloud, dropped>>
    PROVE  LocalInv'
<1>1. Held(r.key) /\ r.key \in Keys
    BY DEF IInv, BatchInv, TypeOK, Rows
<1>2. \A k \in Keys : (Held(k) => Held(k)') /\ (Taken(k) => Taken(k)')
    BY OwesFrame DEF Held, Taken
<1> QED BY <1>1, <1>2 DEF IInv, LocalInv

LEMMA InvStep ==
    ASSUME IInv, TypeOK', [Next]_vars
    PROVE  IInv'
<1> USE DEF storeVars, clientVars, cloudVars, tables
<1>1. ASSUME NEW k \in Keys, AgentWrite(k) PROVE IInv'
  <2>1. \A j \in Keys : writes'[j] = IF j = k THEN writes[k] + 1 ELSE writes[j]
      BY <1>1 DEF AgentWrite, IInv, TypeOK
  <2>2. \A r \in Rows : Genuine(r) /\ (r.key = k => k \in raced') => Genuine(r)'
      BY <1>1, <2>1, EdgeSyncAssumption DEF AgentWrite, Genuine, IInv, TypeOK, Rows, Vals
  <2>3. \A j \in Keys : /\ Held(j) /\ (j = k => k \in raced') => Held(j)'
                        /\ Taken(j) => Taken(j)'
      BY <1>1, <2>1, OwesFrame DEF AgentWrite, Held, Taken
  <2>4. LocalInv'
    <3>1. ASSUME NEW j \in Keys, j # k PROVE LocalInv!(j)'
        BY <1>1, <2>1, <2>3, <3>1 DEF AgentWrite, IInv, LocalInv, TypeOK
    <3>2. LocalInv!(k)'
        BY <1>1, <2>1, EdgeSyncAssumption DEF AgentWrite, IInv, LocalInv, TypeOK, Vals
    <3> QED BY <3>1, <3>2 DEF LocalInv
  <2>5. BatchInv'
    <3> SUFFICES ASSUME NEW r \in obs \cup tots
                 PROVE  Genuine(r)' /\ (pc = "marking" => Held(r.key)')
        BY <1>1 DEF AgentWrite, BatchInv
    <3>1. r \in Rows /\ r.key \in Keys /\ (r.key = k => k \in raced')
        BY <1>1 DEF AgentWrite, OnItsWay, KeysOf, IInv, TypeOK, Rows
    <3> QED BY <3>1, <2>2, <2>3 DEF IInv, BatchInv
  <2>6. FlightInv'
    <3> SUFFICES ASSUME NEW s \in Slots, Busy(s), NEW r \in RowsIn(s)
                 PROVE  Genuine(r)'
        BY <1>1 DEF AgentWrite, FlightInv, Busy, RowsIn
    <3>1. r \in Rows /\ r.key \in Keys
        BY BusyRequest DEF IInv, Rows
    <3>2. r.key = k => k \in raced'
        BY <1>1 DEF AgentWrite, OnItsWay, KeysOf
    <3> QED BY <3>1, <3>2, <2>2, <2>3 DEF IInv, FlightInv
  <2>7. AwaitInv'
      BY <1>1 DEF AgentWrite, IInv, AwaitInv, Busy, RowsIn
  <2> QED BY <2>4, <2>5, <2>6, <2>7 DEF IInv
<1>2. CASE Prune
  <2>1. PICK kept \in Newest(synced \cap ObsKeys) :
            /\ val' = [k \in Keys |-> IF k \in (synced \cap ObsKeys) \ kept THEN 0 ELSE val[k]]
            /\ synced' = synced \ ((synced \cap ObsKeys) \ kept)
            /\ UNCHANGED <<writes, raced, pc, obs, tots, awaiting, inflight, cloud, dropped>>
      BY <1>2 DEF Prune
  <2>2. \A k \in Keys : (Held(k) <=> Held(k)') /\ (Taken(k) <=> Taken(k)') /\ (Held(k) => Taken(k))
      BY <2>1, OwesFrame DEF Held, Taken
  <2>3. LocalInv'
      BY <2>1, <2>2 DEF IInv, LocalInv
  <2>4. \A r : Genuine(r) <=> Genuine(r)'
      BY <2>1 DEF Genuine
  <2>5. BatchInv' /\ FlightInv' /\ AwaitInv'
      BY <2>1, <2>2, <2>4, OwesFrame DEF IInv, BatchInv, FlightInv, AwaitInv, TypeOK, Rows
  <2> QED BY <2>3, <2>5 DEF IInv
<1>3. CASE ReadObservations \/ ReadTotals
  <2>1. \A r \in Rows : Genuine(r) = Genuine(r)'
      BY <1>3 DEF ReadObservations, ReadTotals, Genuine
  <2>2. LocalInv' /\ FlightInv'
    <3>1. UNCHANGED <<val, synced, writes, raced, inflight, cloud, dropped>>
        BY <1>3 DEF ReadObservations, ReadTotals
    <3>2. \A k \in Keys : (Held(k) <=> Held(k)') /\ (Taken(k) <=> Taken(k)')
        BY <3>1, OwesFrame DEF Held, Taken
    <3> QED BY <3>1, <3>2, OwesFrame DEF IInv, LocalInv, FlightInv, Genuine
  <2>3. AwaitInv'
      BY <1>3 DEF ReadObservations, ReadTotals, IInv, AwaitInv
  <2>4. pc' # "marking"
      BY <1>3 DEF ReadObservations, ReadTotals
  <2>5. \A r \in (obs \cup tots)' : Genuine(r)
    <3>1. CASE ReadObservations
        BY <3>1, ReadsGenuine DEF ReadObservations, Oldest, IInv, BatchInv
    <3>2. CASE ReadTotals
        BY <3>2, ReadsGenuine DEF ReadTotals, Oldest, IInv, BatchInv
    <3> QED BY <1>3, <3>1, <3>2
  <2>6. BatchInv'
      BY <2>1, <2>4, <2>5 DEF BatchInv, TypeOK
  <2> QED BY <2>2, <2>3, <2>6 DEF IInv
<1>4. ASSUME NEW s \in Slots, Post(s) PROVE IInv'
  <2>1. UNCHANGED <<val, synced, writes, raced, cloud, dropped, obs, tots>>
      BY <1>4 DEF Post
  <2>2. /\ inflight'[s] = [obs |-> obs, tots |-> tots, stage |-> "transit"] /\ inflight[s] = None
        /\ \A t \in Slots \ {s} : inflight'[t] = inflight[t]
      BY <1>4 DEF Post, IInv, TypeOK
  <2>3. \A k \in Keys : (Held(k) => Held(k)') /\ (Taken(k) => Taken(k)')
    <3>1. \A k \in Keys : Owes(k) => Owes(k)'
        BY <2>2 DEF Owes, At, Busy, RowsIn
    <3> QED BY <2>1, <3>1 DEF Held, Taken
  <2>4. RowsIn(s)' = obs \cup tots
      BY <2>2 DEF RowsIn
  <2>5. FlightInv'
    <3> SUFFICES ASSUME NEW t \in Slots, Busy(t)', NEW r \in RowsIn(t)' PROVE Genuine(r)'
        BY DEF FlightInv
    <3>1. CASE t = s
        BY <3>1, <2>1, <2>4 DEF IInv, BatchInv, Genuine
    <3>2. CASE t # s
        BY <3>2, <2>1, <2>2 DEF IInv, FlightInv, Busy, RowsIn, Genuine
    <3> QED BY <3>1, <3>2
  <2>6. AwaitInv'
    <3>1. [obs |-> obs, tots |-> tots, stage |-> "transit"] \in Requests
        BY DEF IInv, TypeOK, Requests
    <3>2. Busy(s)'
        BY <2>2, <3>1, EdgeSyncAssumption DEF Busy
    <3> QED BY <1>4, <2>1, <2>2, <2>4, <3>2 DEF Post, AwaitInv
  <2>7. LocalInv'
      BY <2>1, <2>3 DEF IInv, LocalInv
  <2>8. BatchInv'
      BY <1>4, <2>1 DEF Post, IInv, BatchInv, Genuine
  <2> QED BY <2>5, <2>6, <2>7, <2>8 DEF IInv
<1>5. CASE Unreachable \/ SyncCrash \/ Finish \/ UNCHANGED vars
  <2>1. UNCHANGED <<val, synced, writes, raced, inflight, cloud, dropped>>
      BY <1>5 DEF Unreachable, SyncCrash, Finish, vars
  <2>2. \A k \in Keys : (Held(k) <=> Held(k)') /\ (Taken(k) <=> Taken(k)')
      BY <2>1, OwesFrame DEF Held, Taken
  <2>3. LocalInv' /\ FlightInv'
      BY <2>1, <2>2, OwesFrame DEF IInv, LocalInv, FlightInv, Genuine
  <2>4. BatchInv' /\ AwaitInv'
    <3>1. CASE UNCHANGED vars
        BY <2>1, <2>2, <3>1, OwesFrame DEF vars, IInv, BatchInv, AwaitInv, Genuine, TypeOK, Rows
    <3>2. CASE Unreachable \/ SyncCrash \/ Finish
        BY <3>2 DEF Unreachable, SyncCrash, Finish, GiveUp, IInv, BatchInv, AwaitInv
    <3> QED BY <1>5, <3>1, <3>2
  <2> QED BY <2>3, <2>4 DEF IInv
<1>6. ASSUME NEW r \in obs \cup tots, MarkObservation(r) \/ MarkTotal(r) PROVE IInv'
  <2>1. /\ UNCHANGED <<val, writes, raced, inflight, cloud, dropped, pc, awaiting>>
        /\ obs' \subseteq obs /\ tots' \subseteq tots /\ pc = "marking"
      BY <1>6 DEF MarkObservation, MarkTotal
  <2>2. LocalInv'
      BY <1>6, <2>1, MarkPreserves DEF MarkObservation, MarkTotal
  <2>3. \A k \in Keys : Held(k) <=> Held(k)'
      BY <2>1, OwesFrame DEF Held
  <2>4. \A q : Genuine(q) <=> Genuine(q)'
      BY <2>1 DEF Genuine
  <2>5. BatchInv' /\ FlightInv' /\ AwaitInv'
      BY <2>1, <2>3, <2>4, OwesFrame DEF IInv, BatchInv, FlightInv, AwaitInv, TypeOK, Rows
  <2> QED BY <2>2, <2>5 DEF IInv
<1>7. ASSUME NEW s \in Slots, CloudStep(s) PROVE IInv'
  <2>1. Busy(s) /\ UNCHANGED <<val, synced, writes, raced>>
      BY <1>7, CloudFrame DEF IInv
  <2>2. \A k \in Keys : (Held(k) => Held(k)') /\ (Taken(k) => Taken(k)')
      BY <1>7, CloudKeeps DEF IInv
  <2>3. \A t \in Slots : Busy(t)' => Busy(t) /\ RowsIn(t)' = RowsIn(t)
      BY <1>7, <2>1, CloudFrame, SlotRows DEF IInv
  <2>4. LocalInv'
    <3>1. \A k \in Keys : cloud'[k] <= writes[k]
      <4>1. CASE Commit(s)
          BY <4>1, CommitWrites DEF IInv, LocalInv, Genuine
      <4> QED BY <1>7, <4>1, CloudFrame DEF IInv, LocalInv
    <3> QED BY <2>1, <2>2, <3>1 DEF IInv, LocalInv
  <2>5. FlightInv'
      BY <2>1, <2>3 DEF IInv, FlightInv, Genuine
  <2>6. CASE AnswerOk(s)
    <3>1. awaiting = s /\ RowsIn(s) = obs \cup tots /\ awaiting' = None /\ UNCHANGED <<obs, tots>>
        BY <2>6, EdgeSyncAssumption DEF AnswerOk, AckArrives, IInv, AwaitInv
    <3>2. At(s, {"replied"})' /\ RowsIn(s)' = RowsIn(s)
      <4>1. inflight[s] \in Requests /\ [inflight[s] EXCEPT !.stage = "replied"] \in Requests
          BY <2>1, BusyRequest DEF IInv, Requests
      <4> QED BY <2>6, <4>1, EdgeSyncAssumption
              DEF AnswerOk, Answered, MoveTo, At, Busy, RowsIn, IInv, TypeOK, Requests
    <3>3. \A r \in obs \cup tots : Held(r.key)'
        BY <3>1, <3>2 DEF Held, Owes, KeysOf
    <3> QED BY <2>1, <2>4, <2>5, <3>1, <3>3 DEF IInv, BatchInv, AwaitInv, Genuine
  <2>7. CASE UNCHANGED clientVars
    <3>1. BatchInv'
        BY <2>1, <2>2, <2>7 DEF IInv, BatchInv, Genuine, TypeOK, Rows
    <3>2. AwaitInv'
      <4> SUFFICES ASSUME awaiting # None
                   PROVE  Busy(awaiting)' /\ inflight'[awaiting].stage # "replied"
          BY <2>3, <2>7 DEF IInv, TypeOK, AwaitInv
      <4>1. awaiting \in Slots /\ Busy(awaiting)
          BY DEF IInv, TypeOK, AwaitInv
      <4>2. CASE awaiting # s
          BY <1>7, <2>7, <4>1, <4>2, CloudFrame DEF IInv, Busy, AwaitInv
      <4>3. CASE awaiting = s
        <5>1. MoveTo(s, "open")
          <6>1. ~GiveUp /\ ~NoAnswer(s) /\ ~AckArrives(s)
              BY <2>7, <4>1, <4>3, EdgeSyncAssumption
              DEF GiveUp, NoAnswer, AckArrives, IInv, AwaitInv
          <6>2. ~Commit(s)
              BY <4>3, EdgeSyncAssumption DEF Commit, At, IInv, AwaitInv, TypeOK
          <6> QED BY <1>7, <6>1, <6>2
                  DEF CloudStep, LoseRequest, Reject, Abort, Refused, Upsert, Execute,
                      AnswerOk, AnswerLost
        <5>2. [inflight[s] EXCEPT !.stage = "open"] \in Requests
            BY <2>1, BusyRequest DEF IInv, Requests
        <5> QED BY <2>7, <4>3, <5>1, <5>2, EdgeSyncAssumption
                DEF MoveTo, Busy, IInv, TypeOK, Requests
      <4> QED BY <4>2, <4>3
    <3> QED BY <2>4, <2>5, <3>1, <3>2 DEF IInv
  <2>8. CASE GiveUp \/ NoAnswer(s)
    <3>1. BatchInv'
        BY <2>1, <2>2, <2>8 DEF GiveUp, NoAnswer, IInv, BatchInv, Genuine, TypeOK, Rows
    <3>2. AwaitInv'
      <4>1. CASE GiveUp
          BY <4>1 DEF GiveUp, AwaitInv
      <4>2. CASE NoAnswer(s)
          BY <1>7, <4>2, CloudFrame DEF NoAnswer, IInv, AwaitInv, Busy, RowsIn, TypeOK
      <4> QED BY <2>8, <4>1, <4>2
    <3> QED BY <2>4, <2>5, <3>1, <3>2 DEF IInv
  <2> QED BY <1>7, <2>6, <2>7, <2>8
          DEF CloudStep, LoseRequest, Reject, Upsert, Execute, Commit, Abort, AnswerLost, Refused
<1> QED BY <1>1, <1>2, <1>3, <1>4, <1>5, <1>6, <1>7
        DEF Next, Agent, Client, Cloud, CloudStep

\* The invariant the theorems below are read off from.
THEOREM Invariance == Spec => []IInv
<1>1. Init => IInv
  <2> SUFFICES ASSUME Init PROVE IInv
      OBVIOUS
  <2>1. TypeOK
      BY EdgeSyncAssumption DEF Init, TypeOK, Vals
  <2>2. LocalInv /\ BatchInv /\ FlightInv /\ AwaitInv
      BY DEF Init, LocalInv, BatchInv, FlightInv, AwaitInv, Busy
  <2> QED BY <2>1, <2>2 DEF IInv
<1>2. IInv /\ TypeOK' /\ [Next]_vars => IInv'
    BY InvStep
<1> QED BY <1>1, <1>2, TypeCorrect, PTL DEF Spec


\* A row the edge has stopped sending was answered for.
THEOREM SyncedRowsWereTaken == Spec => []SyncedWasTaken
<1>1. IInv => SyncedWasTaken
    BY DEF IInv, LocalInv, TypeOK, Held, Taken, SyncedWasTaken
<1> QED BY <1>1, Invariance, PTL

\* No row that was ever written is in neither place, but by a commit that fails
\* behind its answer.
THEOREM NoRowLost == Spec => []NothingLost
<1>1. IInv => NothingLost
    BY DEF IInv, LocalInv, TypeOK, NothingLost
<1> QED BY <1>1, Invariance, PTL

\* Only a rewrite of a row that is on its way, or such a commit, can make edge and
\* cloud differ.
THEOREM SyncedRowsAgree == Spec => []SyncedAgrees
<1>1. IInv => SyncedAgrees
  <2> SUFFICES ASSUME IInv, NEW k \in synced \ (raced \cup dropped)
               PROVE  cloud[k] = val[k] \/ OwesValue(k, val[k])
      BY DEF SyncedAgrees
  <2>1. k \in Keys /\ val[k] = writes[k] /\ Held(k)
      BY DEF IInv, LocalInv, TypeOK
  <2>2. CASE Owes(k)
    <3> PICK s \in Slots : At(s, {"replied"}) /\ \E r \in RowsIn(s) : r.key = k
        BY <2>2 DEF Owes, KeysOf
    <3>1. PICK r \in RowsIn(s) : At(s, {"replied"}) /\ r.key = k
        OBVIOUS
    <3>2. r \in Rows /\ r.val = writes[k]
        BY <3>1, BusyRequest DEF At, IInv, FlightInv, Genuine
    <3>3. r = [key |-> k, val |-> val[k]]
        BY <2>1, <3>1, <3>2 DEF Rows
    <3> QED BY <3>1, <3>3 DEF OwesValue
  <2> QED BY <2>1, <2>2 DEF Held
<1> QED BY <1>1, Invariance, PTL

-----------------------------------------------------------------------------
(* The order of the requests: what is waited for is the newest copy there is, and  *)
(* a transaction holds the locks of its rows from its upserts to its commit.       *)

\* No copy of r's row, in the cloud or on its way there, is newer than r.
NoneNewer(r) ==
    /\ cloud[r.key] <= r.val
    /\ \A s \in Slots : Busy(s) => \A q \in RowsIn(s) : q.key = r.key => q.val <= r.val

BatchOrder ==
    /\ KeysOf(obs) \subseteq ObsKeys /\ KeysOf(tots) \subseteq TotalKeys
    /\ \A r, q \in obs \cup tots : r.key = q.key => r = q
    /\ pc # "marking" => \A r \in obs \cup tots : NoneNewer(r)

LocksHeld ==
    \A s, t \in Slots :
        s # t /\ At(s, {"open", "replied"}) /\ At(t, {"open", "replied"})
            => KeysOf(RowsIn(s)) \cap KeysOf(RowsIn(t)) = {}

TimelyOrder ==
    \A s \in Slots \ late :
        At(s, {"open", "replied"}) => \A r \in RowsIn(s) : cloud[r.key] <= r.val

OrderInv == BatchOrder /\ LocksHeld /\ TimelyOrder
\* A row of a read is the newest copy there is, and the only one of the read.
LEMMA ReadsNewest ==
    ASSUME IInv, NEW K \in SUBSET Pending, NEW r \in RowsOf(K)
    PROVE  /\ r \in Rows /\ r.key \in K /\ NoneNewer(r)
           /\ \A q \in RowsOf(K) : r.key = q.key => r = q
<1>1. PICK k \in K : r = [key |-> k, val |-> val[k]]
    BY DEF RowsOf
<1>2. /\ k \in Keys /\ val[k] = writes[k] /\ writes[k] \in Int /\ cloud[k] <= writes[k]
      /\ r \in Rows
    BY <1>1, ReadRows, EdgeSyncAssumption DEF Pending, IInv, LocalInv, TypeOK, Vals
<1>3. \A s \in Slots : Busy(s) => \A q \in RowsIn(s) : q.key = k => q.val <= writes[k]
    BY DEF IInv, FlightInv, Genuine
<1>4. \A q \in RowsOf(K) : r.key = q.key => r = q
    BY <1>1 DEF RowsOf
<1> QED BY <1>1, <1>2, <1>3, <1>4 DEF NoneNewer

LEMMA OrderFrame ==
    ASSUME OrderInv, UNCHANGED <<inflight, cloud, late>>,
           \/ UNCHANGED <<obs, tots, pc>>
           \/ obs' = {} /\ tots' = {}
           \/ obs' \subseteq obs /\ tots' \subseteq tots /\ pc' = "marking"
    PROVE  OrderInv'
<1>1. \A s \in Slots : (Busy(s)' <=> Busy(s)) /\ RowsIn(s)' = RowsIn(s)
                       /\ (At(s, {"open", "replied"})' <=> At(s, {"open", "replied"}))
    BY DEF Busy, RowsIn, At
<1>2. \A r : NoneNewer(r) <=> NoneNewer(r)'
    BY <1>1 DEF NoneNewer
<1>3. BatchOrder'
    BY <1>2 DEF OrderInv, BatchOrder, KeysOf
<1> QED BY <1>1, <1>3 DEF OrderInv, LocksHeld, TimelyOrder

LEMMA OrderStep == ASSUME IInv, OrderInv, [Next]_vars PROVE OrderInv'
<1> USE DEF storeVars, clientVars, cloudVars, tables
<1>1. CASE \/ Agent \/ Unreachable \/ SyncCrash \/ Finish \/ UNCHANGED vars
           \/ \E r \in obs : MarkObservation(r)
           \/ \E r \in tots : MarkTotal(r)
    BY <1>1, OrderFrame
    DEF Agent, AgentWrite, Prune, Unreachable, SyncCrash, GiveUp, Finish, MarkObservation,
        MarkTotal, vars
<1>2. CASE ReadObservations \/ ReadTotals
  <2>1. UNCHANGED <<inflight, cloud, late>> /\ pc # "marking"
      BY <1>2 DEF ReadObservations, ReadTotals
  <2>2. \A s \in Slots : (Busy(s)' <=> Busy(s)) /\ RowsIn(s)' = RowsIn(s)
                         /\ (At(s, {"open", "replied"})' <=> At(s, {"open", "replied"}))
      BY <2>1 DEF Busy, RowsIn, At
  <2>3. \A r : NoneNewer(r) => NoneNewer(r)'
      BY <2>1, <2>2 DEF NoneNewer
  <2>4. BatchOrder'
    <3>1. CASE ReadObservations
      <4>1. PICK K \in Oldest(Pending \cap ObsKeys) : obs' = RowsOf(K) /\ tots' = tots
          BY <3>1 DEF ReadObservations
      <4>2. K \in SUBSET Pending /\ K \subseteq ObsKeys
          BY DEF Oldest
      <4>3. \A r \in obs' : r.key \in ObsKeys /\ NoneNewer(r) /\ \A q \in obs' : r.key = q.key => r = q
          BY <4>1, <4>2, ReadsNewest
      <4> QED BY <2>1, <2>3, <4>1, <4>3, EdgeSyncAssumption DEF OrderInv, BatchOrder, KeysOf
    <3>2. CASE ReadTotals
      <4>1. PICK K \in Oldest(Pending \cap TotalKeys) : tots' = RowsOf(K) /\ obs' = obs
          BY <3>2 DEF ReadTotals
      <4>2. K \in SUBSET Pending /\ K \subseteq TotalKeys
          BY DEF Oldest
      <4>3. \A r \in tots' : r.key \in TotalKeys /\ NoneNewer(r) /\ \A q \in tots' : r.key = q.key => r = q
          BY <4>1, <4>2, ReadsNewest
      <4> QED BY <2>1, <2>3, <4>1, <4>3, EdgeSyncAssumption DEF OrderInv, BatchOrder, KeysOf
    <3> QED BY <1>2, <3>1, <3>2
  <2> QED BY <2>1, <2>2, <2>4 DEF OrderInv, LocksHeld, TimelyOrder
<1>3. ASSUME NEW s \in Slots, Post(s) PROVE OrderInv'
  <2>1. UNCHANGED <<obs, tots, cloud, late>> /\ pc = "posting"
      BY <1>3 DEF Post
  <2>2. /\ inflight'[s] = [obs |-> obs, tots |-> tots, stage |-> "transit"]
        /\ \A t \in Slots \ {s} : inflight'[t] = inflight[t]
      BY <1>3 DEF Post, IInv, TypeOK
  <2>3. RowsIn(s)' = obs \cup tots /\ ~At(s, {"open", "replied"})'
      BY <2>2 DEF RowsIn, At
  <2>4. \A t \in Slots \ {s} : (Busy(t)' <=> Busy(t)) /\ RowsIn(t)' = RowsIn(t)
                               /\ (At(t, {"open", "replied"})' <=> At(t, {"open", "replied"}))
      BY <2>2 DEF Busy, RowsIn, At
  <2>5. ASSUME NEW r \in obs \cup tots PROVE NoneNewer(r)'
    <3>1. NoneNewer(r) /\ r.val \in Int /\ \A q \in obs \cup tots : q.key = r.key => q.val <= r.val
        BY <2>1, EdgeSyncAssumption DEF OrderInv, BatchOrder, IInv, TypeOK, Rows
    <3> QED BY <2>1, <2>3, <2>4, <3>1 DEF NoneNewer
  <2>6. BatchOrder'
      BY <2>1, <2>5 DEF OrderInv, BatchOrder, KeysOf
  <2>7. LocksHeld' /\ TimelyOrder'
      BY <2>1, <2>3, <2>4 DEF OrderInv, LocksHeld, TimelyOrder
  <2> QED BY <2>6, <2>7 DEF OrderInv
<1>4. ASSUME NEW s \in Slots, CloudStep(s) PROVE OrderInv'
  <2>1. Busy(s) /\ \A t \in Slots \ {s} : inflight'[t] = inflight[t]
      BY <1>4, CloudFrame DEF IInv
  <2>2. \A t \in Slots : Busy(t)' => Busy(t) /\ RowsIn(t)' = RowsIn(t)
      BY <1>4, <2>1, CloudFrame, SlotRows DEF IInv
  <2>3. ASSUME NEW k \in Keys, cloud'[k] # cloud[k]
        PROVE  Commit(s) /\ \E q \in RowsIn(s) : q.key = k /\ cloud'[k] = q.val
      BY <1>4, <2>3, CloudFrame, CommitWrites DEF IInv
  <2>4. ASSUME NEW r \in obs \cup tots, NoneNewer(r) PROVE NoneNewer(r)'
    <3>1. r.key \in Keys
        BY DEF IInv, TypeOK, Rows
    <3> QED BY <2>1, <2>2, <2>3, <2>4, <3>1 DEF NoneNewer
  <2>5. \/ UNCHANGED <<obs, tots>> /\ (pc' = pc \/ pc' = "marking")
        \/ obs' = {} /\ tots' = {}
      BY <1>4 DEF CloudStep, LoseRequest, Reject, Upsert, Execute, Commit, Abort, AnswerOk,
                  AnswerLost, AckArrives, Refused, NoAnswer, GiveUp
  <2>6. BatchOrder'
      BY <2>4, <2>5 DEF OrderInv, BatchOrder, KeysOf
  <2>7. ASSUME NEW t \in Slots \ {s}, At(t, {"open", "replied"})'
        PROVE  At(t, {"open", "replied"}) /\ RowsIn(t)' = RowsIn(t)
      BY <2>1, <2>7 DEF At, Busy, RowsIn
  <2>8. At(s, {"open", "replied"})' => Upsert(s) \/ (Answered(s) /\ At(s, {"open", "replied"}))
    <3>1. Gone(s) => ~At(s, {"open", "replied"})'
        BY DEF Gone, At, Busy, IInv, TypeOK
    <3> QED BY <1>4, <3>1
            DEF CloudStep, LoseRequest, Reject, Commit, Abort, AnswerOk, AnswerLost, Answered, At
  <2>9. LocksHeld'
    <3> SUFFICES ASSUME NEW t \in Slots, NEW u \in Slots, t # u,
                        At(t, {"open", "replied"})', At(u, {"open", "replied"})'
                 PROVE  KeysOf(RowsIn(t)') \cap KeysOf(RowsIn(u)') = {}
        BY DEF LocksHeld
    <3>1. RowsIn(t)' = RowsIn(t) /\ RowsIn(u)' = RowsIn(u)
        BY <2>2 DEF At
    <3>2. CASE Upsert(s) /\ s \in {t, u}
        BY <2>7, <3>1, <3>2 DEF Upsert
    <3>3. CASE ~(Upsert(s) /\ s \in {t, u})
        BY <2>7, <2>8, <3>1, <3>3 DEF OrderInv, LocksHeld
    <3> QED BY <3>2, <3>3
  <2>10. TimelyOrder'
    <3> SUFFICES ASSUME NEW t \in Slots, t \notin late', At(t, {"open", "replied"})',
                        NEW r \in RowsIn(t)'
                 PROVE  cloud'[r.key] <= r.val
        BY DEF TimelyOrder
    <3>1. r \in RowsIn(t) /\ Busy(t) /\ r.key \in Keys
        BY <2>2, BusyRequest DEF At, IInv, Rows
    <3>2. CASE t # s
      <4>1. At(t, {"open", "replied"})
          BY <2>7, <3>2
      <4>2. t \notin late
          BY <1>4, <3>2 DEF CloudStep, LoseRequest, Reject, Upsert, Execute, Commit, Abort,
                            AnswerOk, AnswerLost, Answered, Gone
      <4>3. cloud'[r.key] = cloud[r.key]
        <5> SUFFICES ASSUME cloud'[r.key] # cloud[r.key] PROVE FALSE
            OBVIOUS
        <5>1. At(s, {"open", "replied"}) /\ \E q \in RowsIn(s) : q.key = r.key
            BY <2>3, <3>1 DEF Commit, At
        <5> QED BY <3>1, <3>2, <4>1, <5>1 DEF OrderInv, LocksHeld, KeysOf
      <4> QED BY <3>1, <4>1, <4>2, <4>3 DEF OrderInv, TimelyOrder
    <3>3. CASE t = s
      <4>1. cloud' = cloud
          BY <2>8, <3>3 DEF Upsert, Execute, Answered
      <4>2. CASE Upsert(s)
        <5>1. awaiting = s
            BY <3>3, <4>2 DEF Upsert, Execute
        <5>2. pc = "waiting" /\ r \in obs \cup tots
            BY <3>1, <3>3, <5>1, EdgeSyncAssumption DEF IInv, AwaitInv
        <5> QED BY <4>1, <5>2 DEF OrderInv, BatchOrder, NoneNewer
      <4>3. CASE Answered(s) /\ At(s, {"open", "replied"})
          BY <3>1, <3>3, <4>1, <4>3 DEF Answered, OrderInv, TimelyOrder
      <4> QED BY <2>8, <3>3, <4>2, <4>3
    <3> QED BY <3>2, <3>3
  <2> QED BY <2>6, <2>9, <2>10 DEF OrderInv
<1> QED BY <1>1, <1>2, <1>3, <1>4 DEF Next, Client, Cloud, CloudStep

LEMMA OrderInvariance == Spec => []OrderInv
<1>1. Init => OrderInv
  <2> SUFFICES ASSUME Init PROVE OrderInv
      OBVIOUS
  <2>1. obs = {} /\ tots = {} /\ \A s \in Slots : ~Busy(s)
      BY DEF Init, Busy
  <2> QED BY <2>1 DEF OrderInv, BatchOrder, LocksHeld, TimelyOrder, KeysOf, At
<1>2. IInv /\ OrderInv /\ [Next]_vars => OrderInv'
    BY OrderStep
<1> QED BY <1>1, <1>2, Invariance, PTL DEF Spec

\* Only a request that was executed after its client had given up on it takes the
\* cloud back to an older value of a row.
THEOREM CloudNeverStepsBack == Spec => CloudForward
<1>1. IInv /\ OrderInv /\ [Next]_vars =>
        [\A k \in Keys : cloud'[k] < cloud[k] =>
            \E s \in late \ late' : k \in KeysOf(RowsIn(s))]_<<cloud, late>>
  <2> SUFFICES ASSUME IInv, OrderInv, [Next]_vars, NEW k \in Keys, cloud'[k] < cloud[k]
               PROVE  \E s \in late \ late' : k \in KeysOf(RowsIn(s))
      OBVIOUS
  <2>1. cloud[k] \in Int /\ cloud' # cloud
    <3>1. cloud[k] \in Int
        BY EdgeSyncAssumption DEF IInv, TypeOK, Vals
    <3> QED BY <3>1
  <2>2. PICK s \in Slots : Commit(s)
      BY <2>1 DEF Next, Agent, Client, Cloud, AgentWrite, Prune, ReadObservations,
             ReadTotals, Post, Unreachable, SyncCrash, MarkObservation, MarkTotal,
             Finish, LoseRequest, Reject, Upsert, Execute, Abort, AnswerOk, AnswerLost,
             Answered, cloudVars, tables, vars
  <2>3. PICK r \in RowsIn(s) : r.key = k /\ r \in Rows /\ cloud'[k] = r.val
      BY <2>1, <2>2, CommitWrites DEF IInv
  <2>4. s \in late
      BY <2>1, <2>2, <2>3, EdgeSyncAssumption DEF Commit, At, OrderInv, TimelyOrder, Rows
  <2> QED BY <2>2, <2>3, <2>4 DEF Commit, Gone, KeysOf
<1> QED BY <1>1, OrderInvariance, Invariance, PTL DEF Spec, CloudForward

-----------------------------------------------------------------------------
(* Refinement: every step is a step of DurableUpload or leaves it alone. *)

LEMMA MarkClaims ==
    ASSUME IInv, pc = "marking", NEW r \in obs \cup tots,
           synced' = IF val[r.key] = 0 THEN synced ELSE synced \cup {r.key},
           UNCHANGED <<val, writes, inflight, cloud, dropped>>
    PROVE  Upload!Claim(r.key) /\ r.key \in Keys
<1>1. r.key \in Keys /\ r \in Rows /\ Held(r.key) /\ Genuine(r)
    BY DEF IInv, BatchInv, TypeOK, Rows
<1>2. writes[r.key] # 0
    BY <1>1, EdgeSyncAssumption DEF Genuine, Rows, IInv, TypeOK, Vals
<1>3. Where' = Where /\ Owed' = Owed
    BY OwesFrame DEF Where, Owed
<1>4. Where[r.key] = "cloud" \/ r.key \in Owed \cup dropped
    BY <1>1 DEF Where, Owed, Held
<1>5. Claimed' = Claimed \cup {r.key}
    BY <1>1, <1>2 DEF Claimed, Pending
<1> QED BY <1>1, <1>3, <1>4, <1>5 DEF Upload!Claim

\* The rows of a request are rows that were written.
LEMMA RequestProduced ==
    ASSUME IInv, NEW s \in Slots, Busy(s), NEW k \in KeysOf(RowsIn(s))
    PROVE  k \in Keys /\ writes[k] # 0 /\ Where[k] # "nowhere"
<1>1. PICK q \in RowsIn(s) : q.key = k
    BY DEF KeysOf
<1>2. q \in Rows /\ Genuine(q)
    BY BusyRequest DEF IInv, FlightInv
<1>3. k \in Keys /\ writes[k] # 0
    BY <1>1, <1>2, EdgeSyncAssumption DEF Genuine, Rows, IInv, TypeOK, Vals
<1> QED BY <1>3 DEF Where

\* What the rows owed are when request s, which was answered, ends.
LEMMA OwedAfter ==
    ASSUME IInv, OrderInv, NEW s \in Slots, At(s, {"replied"}), Gone(s)
    PROVE  KeysOf(RowsIn(s)) \subseteq Owed /\ Owed' = Owed \ KeysOf(RowsIn(s))
<1>1. KeysOf(RowsIn(s)) \subseteq Owed
    BY RequestProduced DEF At, Owed, Owes
<1>2. \A t \in Slots \ {s} : inflight'[t] = inflight[t]
    BY DEF Gone, IInv, TypeOK
<1>3. ~At(s, {"replied"})'
    BY DEF Gone, At, Busy, IInv, TypeOK
<1>4. \A t \in Slots \ {s} : (At(t, {"replied"})' <=> At(t, {"replied"})) /\ RowsIn(t)' = RowsIn(t)
    BY <1>2 DEF At, Busy, RowsIn
<1>5. \A t \in Slots \ {s} : At(t, {"replied"}) => KeysOf(RowsIn(t)) \cap KeysOf(RowsIn(s)) = {}
    BY DEF At, OrderInv, LocksHeld
<1>6. \A k : Owes(k)' <=> Owes(k) /\ k \notin KeysOf(RowsIn(s))
    BY <1>3, <1>4, <1>5 DEF Owes
<1> QED BY <1>1, <1>6 DEF Owed

\* The store, the client and the API together implement the durable upload.
THEOREM Refinement == Spec => ImplementsUpload
<1>1. Init => Upload!UpInit
    BY DEF Init, Upload!UpInit, Where, Claimed, Owed, Owes, At, Busy
<1>2. IInv /\ OrderInv /\ [Next]_vars => [Upload!UpNext]_(Upload!upVars)
  <2> SUFFICES ASSUME IInv, OrderInv, [Next]_vars
               PROVE  Upload!UpNext \/ UNCHANGED <<Where, Owed, dropped, Claimed>>
      BY DEF Upload!upVars
  <2> USE DEF storeVars, clientVars, cloudVars, tables
  <2>1. ASSUME NEW k \in Keys, AgentWrite(k) PROVE Upload!UpNext
    <3>1. /\ writes' = [writes EXCEPT ![k] = @ + 1] /\ writes'[k] # 0 /\ val'[k] # 0
          /\ \A j \in Keys \ {k} : writes'[j] = writes[j] /\ val'[j] = val[j]
          /\ synced' = synced \ {k} /\ UNCHANGED <<inflight, cloud, dropped>>
        BY <2>1, EdgeSyncAssumption DEF AgentWrite, IInv, TypeOK, Vals
    <3>2. Where' = [Where EXCEPT ![k] = IF @ = "nowhere" THEN "edge" ELSE @]
        BY <3>1 DEF Where
    <3>3. Claimed' = Claimed \ {k}
        BY <3>1 DEF Claimed, Pending
    <3>4. Owed' = Owed
        BY <3>1, OwesFrame DEF Owed
    <3> QED BY <3>1, <3>2, <3>3, <3>4 DEF Upload!UpNext, Upload!Produce
  <2>2. CASE Prune
    <3>1. PICK gone \in SUBSET (synced \cap ObsKeys) :
            /\ val' = [k \in Keys |-> IF k \in gone THEN 0 ELSE val[k]]
            /\ synced' = synced \ gone
            /\ UNCHANGED <<writes, inflight, cloud, dropped>>
        BY <2>2 DEF Prune
    <3>2. \A k \in gone : writes[k] # 0
        BY DEF IInv, LocalInv, TypeOK
    <3>3. Claimed' = Claimed
        BY <3>1, <3>2 DEF Claimed, Pending, IInv, TypeOK
    <3> QED BY <3>1, <3>3, OwesFrame DEF Where, Owed
  <2>3. ASSUME NEW r \in obs \cup tots, MarkObservation(r) \/ MarkTotal(r)
        PROVE  Upload!UpNext
    <3>1. Upload!Claim(r.key) /\ r.key \in Keys
        BY <2>3, MarkClaims DEF MarkObservation, MarkTotal
    <3> QED BY <3>1 DEF Upload!UpNext
  <2>4. ASSUME NEW s \in Slots, Post(s) PROVE UNCHANGED <<Where, Owed, dropped, Claimed>>
    <3>1. /\ inflight'[s].stage = "transit" /\ inflight[s] = None
          /\ \A t \in Slots \ {s} : inflight'[t] = inflight[t]
        BY <2>4 DEF Post, IInv, TypeOK
    <3>2. \A k : Owes(k)' <=> Owes(k)
        BY <3>1 DEF Owes, At, Busy, RowsIn
    <3> QED BY <2>4, <3>2 DEF Post, Where, Claimed, Pending, Owed
  <2>5. ASSUME NEW s \in Slots, CloudStep(s)
        PROVE  Upload!UpNext \/ UNCHANGED <<Where, Owed, dropped, Claimed>>
    <3> DEFINE K == KeysOf(RowsIn(s))
    <3>1. Busy(s) /\ UNCHANGED <<val, synced, writes>> /\ (~Commit(s) => UNCHANGED cloud)
          /\ \A t \in Slots \ {s} : inflight'[t] = inflight[t]
        BY <2>5, CloudFrame DEF IInv
    <3>2. Claimed' = Claimed /\ (UNCHANGED cloud => Where' = Where)
        BY <3>1 DEF Claimed, Pending, Where
    <3>3. K \in SUBSET Keys /\ \A k \in K : writes[k] # 0 /\ Where[k] # "nowhere"
        BY <3>1, RequestProduced
    <3>4. CASE Commit(s)
      <4>1. \A k \in K : cloud'[k] # 0
          BY <3>3, <3>4, CommitWrites, EdgeSyncAssumption DEF IInv, Rows
      <4>2. \A k \in Keys \ K : cloud'[k] = cloud[k]
          BY <3>4, CommitWrites DEF IInv, KeysOf
      <4>3. Where' = [k \in Keys |-> IF k \in K THEN "cloud" ELSE Where[k]]
          BY <3>1, <3>3, <4>1, <4>2 DEF Where
      <4>4. K \subseteq Owed /\ Owed' = Owed \ K /\ dropped' = dropped \ K
          BY <3>4, OwedAfter DEF Commit
      <4>5. Upload!Deliver(K)
          BY <3>2, <4>3, <4>4 DEF Upload!Deliver
      <4> QED BY <3>3, <4>5 DEF Upload!UpNext
    <3>5. CASE Abort(s) /\ At(s, {"replied"})
      <4>1. K \subseteq Owed /\ Owed' = Owed \ K /\ dropped' = dropped \cup K /\ UNCHANGED cloud
          BY <3>5, OwedAfter DEF Abort
      <4>2. Upload!Drop(K)
          BY <3>2, <4>1 DEF Upload!Drop
      <4> QED BY <3>3, <4>2 DEF Upload!UpNext
    <3>6. CASE Answered(s)
      <4>1. inflight[s] \in Requests /\ [inflight[s] EXCEPT !.stage = "replied"] \in Requests
          BY <3>1, BusyRequest DEF IInv, Requests
      <4>2. At(s, {"replied"})' /\ RowsIn(s)' = RowsIn(s) /\ ~At(s, {"replied"})
          BY <3>6, <4>1, EdgeSyncAssumption
          DEF Answered, MoveTo, At, Busy, RowsIn, IInv, TypeOK, Requests
      <4>3. \A t \in Slots \ {s} : (At(t, {"replied"})' <=> At(t, {"replied"})) /\ RowsIn(t)' = RowsIn(t)
          BY <3>1 DEF At, Busy, RowsIn
      <4>4. \A k : Owes(k)' <=> Owes(k) \/ k \in K
          BY <4>2, <4>3 DEF Owes
      <4>5. Owed' = Owed \cup K
          BY <3>3, <4>4 DEF Owed
      <4>6. Upload!Answer(K)
          BY <3>2, <3>3, <3>6, <4>5 DEF Upload!Answer, Answered
      <4> QED BY <3>3, <4>6 DEF Upload!UpNext
    <3>7. CASE ~Commit(s) /\ ~Answered(s) /\ ~(Abort(s) /\ At(s, {"replied"}))
      <4>1. dropped' = dropped /\ ~At(s, {"replied"}) /\ ~At(s, {"replied"})'
        <5>1. dropped' = dropped /\ ~At(s, {"replied"}) /\ (Gone(s) \/ MoveTo(s, "open"))
            BY <2>5, <3>7 DEF CloudStep, LoseRequest, Reject, Upsert, Execute, Abort,
                              AnswerOk, AnswerLost, At
        <5>2. [inflight[s] EXCEPT !.stage = "open"].stage = "open"
            BY <3>1, BusyRequest DEF IInv, Requests
        <5> QED BY <5>1, <5>2 DEF Gone, MoveTo, At, Busy, IInv, TypeOK
      <4>2. \A t \in Slots \ {s} : (At(t, {"replied"})' <=> At(t, {"replied"})) /\ RowsIn(t)' = RowsIn(t)
          BY <3>1 DEF At, Busy, RowsIn
      <4>3. \A k : Owes(k)' <=> Owes(k)
          BY <4>1, <4>2 DEF Owes
      <4> QED BY <3>1, <3>2, <3>7, <4>1, <4>3 DEF Owed
    <3> QED BY <3>4, <3>5, <3>6, <3>7
  <2>6. CASE UNCHANGED <<val, synced, writes, inflight, cloud, dropped>>
      BY <2>6, OwesFrame DEF Where, Claimed, Pending, Owed
  <2> QED BY <2>1, <2>2, <2>3, <2>4, <2>5, <2>6
          DEF Next, Agent, Client, Cloud, CloudStep, ReadObservations, ReadTotals,
              Unreachable, SyncCrash, Finish, vars
<1> QED BY <1>1, <1>2, OrderInvariance, Invariance, PTL
        DEF Spec, ImplementsUpload, Upload!UpSpec
-----------------------------------------------------------------------------
(***************************************************************************)
(* Now with power losses, where what was answered does commit.             *)
(*                                                                         *)
(* A row is covered up to a value when the cloud has it or a newer one, or *)
(* a request that was answered is about to store one.  What makes power    *)
(* losses harmless is that no copy of a row on its way is older than the   *)
(* box or its disk (Newer), so that no later request uncovers a row, and   *)
(* that a mark on the disk is covered as well as one in the store.         *)
(***************************************************************************)
Covered(k, v) ==
    \/ v <= cloud[k]
    \/ \E s \in Slots : At(s, {"replied"}) /\ \E r \in RowsIn(s) : r.key = k /\ v <= r.val

\* A row whose mark may stand.
Safe(k, v) == Covered(k, 1) /\ (k \notin raced => Covered(k, v))

Newer(r) == r.key \notin raced => val[r.key] <= r.val /\ disk.val[r.key] <= r.val

DiskTypes == disk \in [val : [Keys -> Vals], synced : SUBSET Keys]

StoreInv ==
    \A k \in Keys :
        /\ val[k] <= writes[k] /\ disk.val[k] <= writes[k]
        /\ val[k] = 0 \/ disk.val[k] <= val[k]
        /\ k \in synced => Safe(k, val[k])
        /\ k \in disk.synced => Safe(k, disk.val[k])
        /\ val[k] = 0 /\ k \notin raced => Covered(k, disk.val[k])

CopiesInv ==
    /\ \A r \in obs \cup tots : Newer(r) /\ (pc = "marking" => Safe(r.key, val[r.key]))
    /\ \A s \in Slots : Busy(s) => \A r \in RowsIn(s) : Newer(r)

PowerInv == TypeOK /\ DiskTypes /\ StoreInv /\ CopiesInv /\ AwaitInv

LEMMA RowTypes == ASSUME NEW r \in Rows
                  PROVE  r.key \in Keys /\ r.val \in Nat /\ 1 <= r.val
BY EdgeSyncAssumption DEF Rows

\* Requests that are sent, refused or answered leave what is covered.
LEMMA RequestsCover ==
    ASSUME TypeOK, NEW s \in Slots,
           \/ LoseRequest(s) \/ Reject(s) \/ Upsert(s)
           \/ At(s, {"open"}) /\ Abort(s)
           \/ AnswerOk(s) \/ AnswerLost(s),
           NEW k \in Keys, NEW v \in Nat, Covered(k, v)
    PROVE  Covered(k, v)'
<1>1. /\ At(s, {"transit", "open"}) /\ cloud' = cloud
      /\ \E st \in {"open", "replied"} : Gone(s) \/ MoveTo(s, st)
  BY DEF LoseRequest, Reject, Upsert, Execute, Abort, AnswerOk, AnswerLost, Answered, At, tables
<1>2. ASSUME NEW t \in Slots, At(t, {"replied"}) PROVE inflight'[t] = inflight[t]
  BY <1>1, <1>2 DEF At, Gone, MoveTo, TypeOK
<1>3. \A t \in Slots : At(t, {"replied"}) => At(t, {"replied"})' /\ RowsIn(t)' = RowsIn(t)
  BY <1>2 DEF At, Busy, RowsIn
<1> QED
  BY <1>1, <1>3 DEF Covered

\* A commit covers what it stores, as long as that is not older.
LEMMA CommitCovers ==
    ASSUME TypeOK, NEW s \in Slots, Commit(s),
           NEW k \in Keys, NEW v \in Nat, Covered(k, v),
           \A r \in RowsIn(s) : r.key = k => v <= r.val
    PROVE  Covered(k, v)'
<1>1. CASE \E r \in RowsIn(s) : r.key = k
  <2>1. PICK r \in RowsIn(s) : r.key = k /\ cloud'[k] = r.val
    BY <1>1 DEF Commit
  <2> QED
    BY <2>1 DEF Covered
<1>2. CASE ~ \E r \in RowsIn(s) : r.key = k
  <2>1. cloud'[k] = cloud[k] /\ Gone(s)
    BY <1>2 DEF Commit
  <2>2. \A t \in Slots \ {s} : inflight'[t] = inflight[t]
    BY <2>1 DEF Gone, TypeOK
  <2>3. \A t \in Slots \ {s} : At(t, {"replied"}) => At(t, {"replied"})' /\ RowsIn(t)' = RowsIn(t)
    BY <2>2 DEF At, Busy, RowsIn
  <2> QED
    BY <1>2, <2>1, <2>3 DEF Covered
<1> QED
  BY <1>1, <1>2

-----------------------------------------------------------------------------
LEMMA StoreTypes ==
    ASSUME PowerInv, NEW k \in Keys
    PROVE  /\ val[k] \in Nat /\ writes[k] \in Nat /\ cloud[k] \in Nat /\ disk.val[k] \in Nat
           /\ DOMAIN val = Keys /\ DOMAIN writes = Keys /\ DOMAIN disk.val = Keys
BY EdgeSyncAssumption DEF PowerInv, TypeOK, DiskTypes, Vals

\* The agent writes a row: copies of it that are on their way are raced from now on.
LEMMA WriteStep ==
    ASSUME PowerInv, NEW k \in Keys, AgentWrite(k), UNCHANGED disk
    PROVE  StoreInv' /\ CopiesInv'
<1> USE DEF clientVars, cloudVars, tables
<1>1. /\ \A j \in Keys : j # k => writes'[j] = writes[j] /\ val'[j] = val[j]
      /\ writes'[k] = writes[k] + 1 /\ val'[k] = writes[k] + 1
      /\ synced' = synced \ {k} /\ UNCHANGED <<disk, pc, obs, tots, awaiting, inflight, cloud>>
      /\ raced \subseteq raced' /\ raced' \subseteq raced \cup {k} /\ (OnItsWay(k) => k \in raced')
  BY DEF AgentWrite, PowerInv, TypeOK
<1>2. \A j \in Keys, v \in Nat : Covered(j, v)' <=> Covered(j, v)
  BY <1>1 DEF Covered, At, Busy, RowsIn
<1>3. \A j \in Keys, v \in Nat : Safe(j, v) => Safe(j, v)'
  BY <1>1, <1>2 DEF Safe
<1>4. StoreInv'
  <2> SUFFICES ASSUME NEW j \in Keys PROVE StoreInv!(j)'
    BY DEF StoreInv
  <2>1. StoreInv!(j) /\ val[j] \in Nat /\ writes[j] \in Nat /\ disk.val[j] \in Nat
    BY StoreTypes DEF PowerInv, StoreInv
  <2>2. CASE j # k
    BY <1>1, <1>2, <1>3, <2>1, <2>2
  <2>3. CASE j = k
    BY <1>1, <1>3, <2>1, <2>3
  <2> QED
    BY <2>2, <2>3
<1>5. ASSUME NEW r \in Rows, Newer(r), r.key = k => OnItsWay(k)
      PROVE  Newer(r)' /\ (Safe(r.key, val[r.key]) => Safe(r.key, val[r.key])')
  <2>1. r.key \in Keys /\ val[r.key] \in Nat
    BY RowTypes, StoreTypes
  <2>2. CASE r.key # k
    <3>1. Newer(r)'
      BY <1>1, <1>5, <2>1, <2>2 DEF Newer
    <3>2. Safe(r.key, val[r.key]) => Safe(r.key, val[r.key])'
      BY <1>1, <1>2, <2>1, <2>2 DEF Safe
    <3> QED
      BY <3>1, <3>2
  <2>3. CASE r.key = k
    <3>1. k \in raced'
      BY <1>1, <1>5, <2>3
    <3>2. Covered(k, 1) => Covered(k, 1)'
      BY <1>2
    <3> QED
      BY <2>3, <3>1, <3>2 DEF Newer, Safe
  <2> QED
    BY <2>2, <2>3
<1>6. CopiesInv'
  <2>1. ASSUME NEW r \in obs \cup tots PROVE Newer(r)' /\ (pc = "marking" => Safe(r.key, val[r.key])')
    <3>1. r \in Rows /\ (r.key = k => OnItsWay(k))
      BY DEF PowerInv, TypeOK, OnItsWay, KeysOf
    <3> QED
      BY <1>5, <3>1 DEF PowerInv, CopiesInv
  <2>2. ASSUME NEW s \in Slots, Busy(s), NEW r \in RowsIn(s) PROVE Newer(r)'
    <3>1. r \in Rows /\ (r.key = k => OnItsWay(k))
      BY <2>2, BusyRequest DEF PowerInv, OnItsWay, KeysOf
    <3> QED
      BY <1>5, <2>2, <3>1 DEF PowerInv, CopiesInv
  <2>3. \A s \in Slots : RowsIn(s)' = RowsIn(s) /\ (Busy(s)' <=> Busy(s))
    BY <1>1 DEF RowsIn, Busy
  <2> QED
    BY <1>1, <2>1, <2>2, <2>3 DEF CopiesInv
<1> QED
  BY <1>4, <1>6

\* Rows that are pruned are covered.
LEMMA PruneStep ==
    ASSUME PowerInv, Prune, UNCHANGED disk
    PROVE  StoreInv' /\ CopiesInv'
<1> USE DEF clientVars, cloudVars, tables
<1>1. PICK gone \in SUBSET synced :
         /\ val' = [k \in Keys |-> IF k \in gone THEN 0 ELSE val[k]]
         /\ synced' = synced \ gone
         /\ UNCHANGED <<disk, writes, raced, pc, obs, tots, awaiting, inflight, cloud>>
  <2>1. PICK kept \in Newest(synced \cap ObsKeys) :
            /\ val' = [k \in Keys |-> IF k \in (synced \cap ObsKeys) \ kept THEN 0 ELSE val[k]]
            /\ synced' = synced \ ((synced \cap ObsKeys) \ kept)
            /\ UNCHANGED <<writes, raced, pc, obs, tots, awaiting, inflight, cloud>>
    BY DEF Prune
  <2> QED
    BY <2>1
<1>2. \A j \in Keys, v \in Nat : (Covered(j, v)' <=> Covered(j, v)) /\ (Safe(j, v)' <=> Safe(j, v))
  BY <1>1 DEF Safe, Covered, At, Busy, RowsIn
<1>3. \A j \in Keys, v, w \in Nat : w <= v /\ Covered(j, v) => Covered(j, w)
  <2> SUFFICES ASSUME NEW j \in Keys, NEW v \in Nat, NEW w \in Nat, w <= v, Covered(j, v)
               PROVE  Covered(j, w)
    OBVIOUS
  <2>1. cloud[j] \in Nat /\ \A s \in Slots : Busy(s) => \A r \in RowsIn(s) : r.val \in Nat
    BY StoreTypes, BusyRequest, RowTypes DEF PowerInv
  <2> QED
    BY <2>1 DEF Covered, At
<1>4. StoreInv'
  <2> SUFFICES ASSUME NEW j \in Keys PROVE StoreInv!(j)'
    BY DEF StoreInv
  <2>1. StoreInv!(j) /\ val[j] \in Nat /\ writes[j] \in Nat /\ disk.val[j] \in Nat
    BY StoreTypes DEF PowerInv, StoreInv
  <2>2. CASE j \notin gone
    BY <1>1, <1>2, <2>1, <2>2
  <2>3. CASE j \in gone
    <3>1. val'[j] = 0 /\ j \notin synced' /\ UNCHANGED <<disk, writes, raced>>
      BY <1>1, <2>3
    <3>2. j \notin raced => Covered(j, disk.val[j])
      BY <1>3, <2>1, <2>3 DEF Safe
    <3> QED
      BY <1>2, <2>1, <3>1, <3>2
  <2> QED
    BY <2>2, <2>3
<1>5. ASSUME NEW r \in Rows, Newer(r)
      PROVE  Newer(r)' /\ (Safe(r.key, val[r.key]) => Safe(r.key, val[r.key])')
  <2>1. r.key \in Keys /\ val[r.key] \in Nat /\ r.val \in Nat /\ val'[r.key] \in Nat /\ val'[r.key] <= val[r.key]
    BY <1>1, RowTypes, StoreTypes
  <2>2. Newer(r)'
    BY <1>1, <1>5, <2>1 DEF Newer
  <2>3. Safe(r.key, val[r.key]) => Safe(r.key, val'[r.key])
    BY <1>3, <2>1 DEF Safe
  <2> QED
    BY <1>2, <2>1, <2>2, <2>3
<1>6. CopiesInv'
  <2>1. \A r \in obs \cup tots : r \in Rows
    BY DEF PowerInv, TypeOK
  <2>2. \A s \in Slots : Busy(s) => \A r \in RowsIn(s) : r \in Rows
    BY BusyRequest DEF PowerInv
  <2>3. \A s \in Slots : RowsIn(s)' = RowsIn(s) /\ (Busy(s)' <=> Busy(s))
    BY <1>1 DEF RowsIn, Busy
  <2> QED
    BY <1>1, <1>5, <2>1, <2>2, <2>3 DEF PowerInv, CopiesInv
<1> QED
  BY <1>4, <1>6

-----------------------------------------------------------------------------
(* Steps that leave the rows. *)

Same == UNCHANGED <<val, writes, raced, disk>>

\* What is covered and matters stays covered.
CoverKept ==
    \A k \in Keys : /\ Covered(k, 1) => Covered(k, 1)'
                    /\ \A v \in {val[k], disk.val[k]} : k \notin raced /\ Covered(k, v) => Covered(k, v)'

LEMMA StoreKept ==
    ASSUME PowerInv, Same, CoverKept, \A k \in Keys \cap synced' : k \in synced \/ Safe(k, val[k])
    PROVE  StoreInv'
<1> SUFFICES ASSUME NEW k \in Keys PROVE StoreInv!(k)'
  BY DEF StoreInv
<1>1. StoreInv!(k)
  BY DEF PowerInv, StoreInv
<1>2. \A v \in {val[k], disk.val[k]} : Safe(k, v) => Safe(k, v)'
  BY DEF Safe, CoverKept, Same
<1>3. k \notin raced /\ Covered(k, disk.val[k]) => Covered(k, disk.val[k])'
  BY DEF CoverKept, Same
<1> QED
  BY <1>1, <1>2, <1>3 DEF Same

LEMMA CopyKept ==
    ASSUME PowerInv, Same, CoverKept, NEW r \in Rows
    PROVE  /\ Newer(r) => Newer(r)'
           /\ Safe(r.key, val[r.key]) => Safe(r.key, val[r.key])'
BY RowTypes DEF Newer, Safe, CoverKept, Same

LEMMA CoverFrame ==
    ASSUME UNCHANGED <<inflight, cloud>>
    PROVE  \A k \in Keys : \A v : Covered(k, v) <=> Covered(k, v)'
BY DEF Covered, At, Busy, RowsIn

\* push_once without its requests.
LEMMA ClientStep ==
    ASSUME PowerInv, UNCHANGED disk,
           \/ ReadObservations \/ ReadTotals \/ Finish \/ Unreachable \/ SyncCrash
           \/ \E r \in obs : MarkObservation(r)
           \/ \E r \in tots : MarkTotal(r)
    PROVE  StoreInv' /\ CopiesInv' /\ AwaitInv'
<1> USE DEF storeVars, cloudVars, tables
<1>1. Same /\ UNCHANGED <<inflight, cloud>>
  BY DEF Same, ReadObservations, ReadTotals, Finish, Unreachable, SyncCrash, MarkObservation, MarkTotal
<1>2. CoverKept
  BY <1>1, CoverFrame DEF CoverKept
<1>3. \A s \in Slots : RowsIn(s)' = RowsIn(s) /\ (Busy(s)' <=> Busy(s))
  BY <1>1 DEF RowsIn, Busy
<1>4. \A s \in Slots : Busy(s)' => \A r \in RowsIn(s)' : Newer(r)'
  BY <1>2, <1>1, <1>3, BusyRequest, CopyKept DEF PowerInv, CopiesInv
<1>5. ASSUME NEW K \in SUBSET Pending, NEW r \in RowsOf(K) PROVE Newer(r)
  <2>1. PICK k \in K : r = [key |-> k, val |-> val[k]]
    BY DEF RowsOf
  <2>2. k \in Keys /\ val[k] # 0
    BY DEF Pending
  <2>3. disk.val[k] <= val[k] /\ val[k] \in Nat
    BY <2>2, StoreTypes DEF PowerInv, StoreInv
  <2> QED
    BY <2>1, <2>3 DEF Newer
<1>6. CASE ReadObservations \/ ReadTotals
  <2>1. synced' = synced /\ pc' # "marking" /\ awaiting' = awaiting /\ pc # "waiting"
    BY <1>6 DEF ReadObservations, ReadTotals
  <2>2. StoreInv'
    BY <1>1, <1>2, <2>1, StoreKept
  <2>3. \A r \in (obs \cup tots)' : r \in Rows /\ Newer(r)
    <3>1. CASE ReadObservations
      <4>1. PICK K \in Oldest(Pending \cap ObsKeys) : obs' = RowsOf(K) /\ tots' = tots
        BY <3>1 DEF ReadObservations
      <4>2. K \in SUBSET Pending
        BY DEF Oldest
      <4> QED
        BY <1>5, <4>1, <4>2, ReadRows DEF PowerInv, TypeOK, CopiesInv
    <3>2. CASE ReadTotals
      <4>1. PICK K \in Oldest(Pending \cap TotalKeys) : tots' = RowsOf(K) /\ obs' = obs
        BY <3>2 DEF ReadTotals
      <4>2. K \in SUBSET Pending
        BY DEF Oldest
      <4> QED
        BY <1>5, <4>1, <4>2, ReadRows DEF PowerInv, TypeOK, CopiesInv
    <3> QED
      BY <1>6, <3>1, <3>2
  <2>4. \A r \in (obs \cup tots)' : Newer(r)'
    BY <1>1, <1>2, <2>3, CopyKept
  <2>5. CopiesInv'
    BY <1>4, <2>1, <2>4 DEF CopiesInv
  <2>6. AwaitInv'
    BY <2>1 DEF PowerInv, AwaitInv
  <2> QED
    BY <2>2, <2>5, <2>6
<1>7. CASE Finish \/ Unreachable \/ SyncCrash
  <2>1. synced' = synced /\ obs' = {} /\ tots' = {} /\ pc' # "marking" /\ (awaiting' = None \/ awaiting' = awaiting)
        /\ (awaiting' = awaiting => awaiting' = None \/ pc = "marking")
    BY <1>7 DEF Finish, Unreachable, SyncCrash, GiveUp
  <2>2. StoreInv'
    BY <1>1, <1>2, <2>1, StoreKept
  <2> QED
    BY <1>4, <2>1, <2>2 DEF CopiesInv, PowerInv, AwaitInv
<1>8. ASSUME NEW r \in obs \cup tots, MarkObservation(r) \/ MarkTotal(r)
      PROVE  StoreInv' /\ CopiesInv' /\ AwaitInv'
  <2>1. /\ synced' \in SUBSET (synced \cup {r.key}) /\ pc = "marking" /\ pc' = pc /\ awaiting' = awaiting
        /\ obs' \subseteq obs /\ tots' \subseteq tots
    BY <1>8 DEF MarkObservation, MarkTotal
  <2>2. Safe(r.key, val[r.key])
    BY <2>1 DEF PowerInv, CopiesInv
  <2>3. StoreInv'
    BY <1>1, <1>2, <2>1, <2>2, StoreKept
  <2>4. \A q \in (obs \cup tots)' : Newer(q)' /\ Safe(q.key, val[q.key])'
    <3>1. \A q \in obs \cup tots : q \in Rows /\ Newer(q) /\ Safe(q.key, val[q.key])
      BY <2>1 DEF PowerInv, CopiesInv, TypeOK
    <3> QED
      BY <1>1, <1>2, <2>1, <3>1, CopyKept
  <2>5. AwaitInv'
    BY <2>1 DEF PowerInv, AwaitInv
  <2> QED
    BY <1>4, <2>3, <2>4, <2>5 DEF CopiesInv
<1> QED
  BY <1>6, <1>7, <1>8

LEMMA PostStep ==
    ASSUME PowerInv, UNCHANGED disk, NEW s \in Slots, Post(s)
    PROVE  StoreInv' /\ CopiesInv' /\ AwaitInv'
<1> USE DEF storeVars, tables
<1>1. Same /\ UNCHANGED <<synced, cloud, obs, tots>> /\ pc' = "waiting" /\ awaiting' = s
  BY DEF Same, Post
<1>2. /\ inflight'[s] = [obs |-> obs, tots |-> tots, stage |-> "transit"] /\ inflight[s] = None
      /\ \A t \in Slots \ {s} : inflight'[t] = inflight[t]
  BY DEF Post, PowerInv, TypeOK
<1>3. \A t \in Slots : At(t, {"replied"}) => At(t, {"replied"})' /\ RowsIn(t)' = RowsIn(t)
  BY <1>2 DEF At, Busy, RowsIn
<1>4. CoverKept
  BY <1>1, <1>3 DEF CoverKept, Covered
<1>5. StoreInv'
  BY <1>1, <1>4, StoreKept
<1>6. RowsIn(s)' = obs \cup tots
  BY <1>2 DEF RowsIn
<1>7. \A r \in obs \cup tots : r \in Rows /\ Newer(r)
  BY DEF PowerInv, TypeOK, CopiesInv
<1>8. CopiesInv'
  <2>1. ASSUME NEW t \in Slots, Busy(t)', NEW r \in RowsIn(t)' PROVE r \in Rows /\ Newer(r)
    <3>1. CASE t = s
      BY <1>6, <1>7, <3>1
    <3>2. CASE t # s
      <4>1. Busy(t) /\ r \in RowsIn(t)
        BY <1>2, <2>1, <3>2 DEF Busy, RowsIn
      <4> QED
        BY <4>1, BusyRequest DEF PowerInv, CopiesInv
    <3> QED
      BY <3>1, <3>2
  <2> QED
    BY <1>1, <1>4, <1>7, <2>1, CopyKept DEF CopiesInv
<1>9. AwaitInv'
  <2>1. [obs |-> obs, tots |-> tots, stage |-> "transit"] \in Requests
    BY DEF PowerInv, TypeOK, Requests
  <2>2. Busy(s)'
    BY <1>2, <2>1, EdgeSyncAssumption DEF Busy
  <2> QED
    BY <1>1, <1>2, <1>6, <2>2 DEF AwaitInv
<1> QED
  BY <1>5, <1>8, <1>9

\* The network and the API; what is answered is covered.
LEMMA RequestStep ==
    ASSUME PowerInv, UNCHANGED disk, NEW s \in Slots,
           \/ LoseRequest(s) \/ Reject(s) \/ Upsert(s)
           \/ At(s, {"open"}) /\ Abort(s)
           \/ AnswerOk(s) \/ AnswerLost(s)
    PROVE  StoreInv' /\ CopiesInv' /\ AwaitInv'
<1> USE DEF storeVars, clientVars, tables
<1>1. Same /\ UNCHANGED <<synced, cloud>> /\ Busy(s)
  BY DEF Same, LoseRequest, Reject, Upsert, Execute, Abort, AnswerOk, AnswerLost, Answered, At
<1>2. \E st \in {"open", "replied"} : Gone(s) \/ MoveTo(s, st)
  BY DEF LoseRequest, Reject, Upsert, Execute, Abort, AnswerOk, AnswerLost, Answered
<1>3. CoverKept
  <2>1. \A k \in Keys, v \in Nat : Covered(k, v) => Covered(k, v)'
    BY RequestsCover DEF PowerInv
  <2> QED
    BY <2>1, StoreTypes DEF CoverKept
<1>4. StoreInv'
  BY <1>1, <1>3, StoreKept
<1>5. \A t \in Slots : Busy(t)' => Busy(t) /\ RowsIn(t)' = RowsIn(t)
  BY <1>1, <1>2, SlotRows DEF PowerInv
<1>6. \A t \in Slots : Busy(t)' => \A r \in RowsIn(t)' : Newer(r)'
  BY <1>1, <1>3, <1>5, BusyRequest, CopyKept DEF PowerInv, CopiesInv
<1>7. \A r \in obs \cup tots : r \in Rows /\ Newer(r)'
  BY <1>1, <1>3, CopyKept DEF PowerInv, TypeOK, CopiesInv
<1>8. CASE AnswerOk(s)
  <2>1. /\ awaiting = s /\ pc = "waiting" /\ RowsIn(s) = obs \cup tots
        /\ UNCHANGED <<obs, tots>> /\ awaiting' = None /\ MoveTo(s, "replied")
    BY <1>8, EdgeSyncAssumption DEF AnswerOk, AckArrives, Answered, PowerInv, AwaitInv
  <2>2. inflight[s] \in Requests
    BY <1>1, BusyRequest DEF PowerInv
  <2>3. inflight'[s] = [inflight[s] EXCEPT !.stage = "replied"]
    BY <2>1 DEF MoveTo, PowerInv, TypeOK
  <2>4. inflight'[s] \in Requests /\ inflight'[s].stage = "replied"
    BY <2>2, <2>3 DEF Requests
  <2>5. RowsIn(s)' = obs \cup tots /\ At(s, {"replied"})'
    <3>1. Busy(s)'
      BY <2>4, EdgeSyncAssumption DEF Busy
    <3> QED
      BY <1>5, <2>1, <2>4, <3>1 DEF At
  <2>6. ASSUME NEW r \in obs \cup tots PROVE Safe(r.key, val[r.key])'
    <3>1. r.key \in Keys /\ r.val \in Nat /\ 1 <= r.val /\ Newer(r)
      BY <1>7, RowTypes DEF PowerInv, CopiesInv
    <3>2. \A v \in Nat : v <= r.val => Covered(r.key, v)'
      BY <2>5, <3>1 DEF Covered
    <3>3. val[r.key] \in Nat /\ UNCHANGED <<val, raced>>
      BY <1>1, <3>1, StoreTypes DEF Same
    <3> QED
      BY <3>1, <3>2, <3>3 DEF Safe, Newer
  <2>7. CopiesInv'
    BY <1>6, <1>7, <2>1, <2>6 DEF CopiesInv
  <2> QED
    BY <1>4, <2>1, <2>7 DEF AwaitInv
<1>9. CASE ~ AnswerOk(s)
  <2>1. CASE GiveUp
    BY <1>4, <1>6, <2>1 DEF GiveUp, CopiesInv, AwaitInv
  <2>2. CASE (NoAnswer(s) \/ Upsert(s)) /\ UNCHANGED <<pc, obs, tots>> /\ (awaiting' # None => awaiting' = awaiting)
    <3>1. CopiesInv'
      <4>1. \A r \in obs \cup tots : pc = "marking" => Safe(r.key, val[r.key])'
        BY <1>1, <1>3, <1>7, CopyKept DEF PowerInv, CopiesInv
      <4> QED
        BY <1>6, <1>7, <2>2, <4>1 DEF CopiesInv
    <3>2. AwaitInv'
      <4> SUFFICES ASSUME awaiting' # None
                   PROVE  /\ Busy(awaiting)' /\ RowsIn(awaiting)' = RowsIn(awaiting)
                          /\ inflight'[awaiting].stage # "replied"
        BY <2>2 DEF PowerInv, AwaitInv
      <4>1. awaiting' = awaiting /\ awaiting \in Slots /\ Busy(awaiting)
        BY <2>2 DEF PowerInv, AwaitInv, TypeOK
      <4>2. CASE Upsert(s)
        <5>1. inflight[s] \in Requests /\ [inflight[s] EXCEPT !.stage = "open"] \in Requests
          BY <1>1, BusyRequest DEF PowerInv, Requests
        <5>2. Busy(awaiting)' /\ inflight'[awaiting].stage # "replied"
          <6>1. inflight'[s] = [inflight[s] EXCEPT !.stage = "open"]
                /\ \A t \in Slots \ {s} : inflight'[t] = inflight[t]
            BY <4>2 DEF Upsert, Execute, MoveTo, PowerInv, TypeOK
          <6>2. inflight'[s] # None /\ inflight'[s].stage = "open"
            BY <5>1, <6>1, EdgeSyncAssumption DEF Requests
          <6> QED
            BY <4>1, <6>1, <6>2 DEF Busy, PowerInv, AwaitInv
        <5> QED
          BY <1>5, <4>1, <5>2
      <4>3. CASE NoAnswer(s)
        <5>1. awaiting # s
          BY <4>1, <4>3 DEF NoAnswer, PowerInv, AwaitInv
        <5>2. inflight'[awaiting] = inflight[awaiting]
          BY <1>2, <4>1, <5>1 DEF Gone, MoveTo, PowerInv, TypeOK
        <5> QED
          BY <4>1, <5>2 DEF Busy, RowsIn, PowerInv, AwaitInv
      <4> QED
        BY <2>2, <4>2, <4>3
    <3> QED
      BY <1>4, <3>1, <3>2
  <2>3. \/ GiveUp
        \/ /\ NoAnswer(s) \/ Upsert(s)
           /\ UNCHANGED <<pc, obs, tots>> /\ (awaiting' # None => awaiting' = awaiting)
    BY <1>9 DEF LoseRequest, Reject, Upsert, Execute, Abort, AnswerLost, Refused, NoAnswer
  <2> QED
    BY <2>1, <2>2, <2>3
<1> QED
  BY <1>8, <1>9

\* A commit: no copy of a row is older than what has to be covered.
LEMMA CommitStep ==
    ASSUME PowerInv, UNCHANGED disk, NEW s \in Slots, Commit(s)
    PROVE  StoreInv' /\ CopiesInv' /\ AwaitInv'
<1> USE DEF storeVars, clientVars, tables
<1>1. Same /\ UNCHANGED <<synced, pc, obs, tots, awaiting>> /\ Busy(s) /\ At(s, {"replied"}) /\ Gone(s)
  BY DEF Same, Commit, At
<1>2. CoverKept
  <2>1. \A r \in RowsIn(s) : r.val \in Nat /\ 1 <= r.val /\ Newer(r)
    BY <1>1, BusyRequest, RowTypes DEF PowerInv, CopiesInv
  <2>2. ASSUME NEW k \in Keys PROVE Covered(k, 1) => Covered(k, 1)'
    BY <2>1, CommitCovers DEF PowerInv
  <2>3. ASSUME NEW k \in Keys, NEW v \in {val[k], disk.val[k]}, k \notin raced, Covered(k, v)
        PROVE  Covered(k, v)'
    <3>1. v \in Nat
      BY StoreTypes
    <3>2. \A r \in RowsIn(s) : r.key = k => v <= r.val
      BY <2>1, <2>3 DEF Newer
    <3> QED
      BY <2>3, <3>1, <3>2, CommitCovers DEF PowerInv
  <2> QED
    BY <2>2, <2>3 DEF CoverKept
<1>3. StoreInv'
  BY <1>1, <1>2, StoreKept
<1>4. \A t \in Slots : Busy(t)' => Busy(t) /\ RowsIn(t)' = RowsIn(t)
  BY <1>1, SlotRows DEF PowerInv
<1>5. \A t \in Slots : Busy(t)' => \A r \in RowsIn(t)' : Newer(r)'
  BY <1>1, <1>2, <1>4, BusyRequest, CopyKept DEF PowerInv, CopiesInv
<1>6. \A r \in obs \cup tots : Newer(r)' /\ (pc = "marking" => Safe(r.key, val[r.key])')
  BY <1>1, <1>2, CopyKept DEF PowerInv, TypeOK, CopiesInv
<1>7. CopiesInv'
  BY <1>1, <1>5, <1>6 DEF CopiesInv
<1>8. AwaitInv'
  <2>1. awaiting # s
    BY <1>1, EdgeSyncAssumption DEF At, PowerInv, AwaitInv, TypeOK
  <2>2. \A t \in Slots \ {s} : inflight'[t] = inflight[t]
    BY <1>1 DEF Gone, PowerInv, TypeOK
  <2> QED
    BY <1>1, <2>1, <2>2 DEF PowerInv, AwaitInv, Busy, RowsIn, TypeOK
<1> QED
  BY <1>3, <1>7, <1>8

-----------------------------------------------------------------------------
(* The disk. *)

LEMMA DiskStep ==
    ASSUME PowerInv, Flush \/ PowerLoss
    PROVE  PowerInv'
<1> USE DEF cloudVars, tables
<1>1. UNCHANGED <<writes, raced, inflight, cloud, late, dropped>>
  BY DEF Flush, PowerLoss, vars, tables
<1>2. \A k \in Keys, v \in Nat : (Covered(k, v) <=> Covered(k, v)') /\ (Safe(k, v) <=> Safe(k, v)')
  BY <1>1 DEF Safe, Covered, At, Busy, RowsIn
<1>3. \A k \in Keys : Covered(k, 0)
  BY StoreTypes DEF Covered
<1>4. \A s \in Slots : RowsIn(s)' = RowsIn(s) /\ (Busy(s)' <=> Busy(s))
  BY <1>1 DEF RowsIn, Busy
<1>5. CASE Flush
  <2>1. disk' = [val |-> val, synced |-> synced] /\ UNCHANGED vars
    BY <1>5 DEF Flush
  <2>2. disk'.val = val /\ disk'.synced = synced /\ UNCHANGED <<val, synced, pc, obs, tots, awaiting>>
    BY <2>1 DEF vars
  <2>3. TypeOK' /\ DiskTypes'
    BY <2>1 DEF vars, PowerInv, TypeOK, DiskTypes
  <2>4. StoreInv'
    <3> SUFFICES ASSUME NEW k \in Keys PROVE StoreInv!(k)'
      BY DEF StoreInv
    <3>1. StoreInv!(k) /\ val[k] \in Nat
      BY StoreTypes DEF PowerInv, StoreInv
    <3> QED
      BY <1>1, <1>2, <1>3, <2>2, <3>1
  <2>5. CopiesInv'
    <3>1. \A r \in Rows : Newer(r) => Newer(r)'
      BY <1>1, <2>2 DEF Newer
    <3>2. \A r \in Rows : Safe(r.key, val[r.key]) => Safe(r.key, val[r.key])'
      BY <1>2, <2>2, RowTypes, StoreTypes
    <3>3. \A s \in Slots : Busy(s) => \A r \in RowsIn(s) : r \in Rows
      BY BusyRequest DEF PowerInv
    <3> QED
      BY <1>4, <2>2, <3>1, <3>2, <3>3 DEF PowerInv, CopiesInv, TypeOK
  <2>6. AwaitInv'
    BY <1>1, <2>2 DEF PowerInv, AwaitInv, Busy, RowsIn
  <2> QED
    BY <2>3, <2>4, <2>5, <2>6 DEF PowerInv
<1>6. CASE PowerLoss
  <2>1. /\ val' = disk.val /\ synced' = disk.synced /\ disk' = disk
        /\ obs' = {} /\ tots' = {} /\ awaiting' = None /\ pc' = "idle"
    BY <1>6 DEF PowerLoss, GiveUp
  <2>2. TypeOK' /\ DiskTypes'
    BY <1>1, <2>1 DEF PowerInv, TypeOK, DiskTypes
  <2>3. StoreInv'
    <3> SUFFICES ASSUME NEW k \in Keys PROVE StoreInv!(k)'
      BY DEF StoreInv
    <3>1. StoreInv!(k) /\ disk.val[k] \in Nat
      BY StoreTypes DEF PowerInv, StoreInv
    <3> QED
      BY <1>1, <1>2, <1>3, <2>1, <3>1
  <2>4. CopiesInv'
    <3>1. \A r \in Rows : Newer(r) => Newer(r)'
      BY <1>1, <2>1 DEF Newer
    <3>2. \A s \in Slots : Busy(s) => \A r \in RowsIn(s) : r \in Rows
      BY BusyRequest DEF PowerInv
    <3> QED
      BY <1>4, <2>1, <3>1, <3>2 DEF PowerInv, CopiesInv
  <2>5. AwaitInv'
    BY <2>1 DEF AwaitInv
  <2> QED
    BY <2>2, <2>3, <2>4, <2>5 DEF PowerInv
<1> QED
  BY <1>5, <1>6

LEMMA PowerStep ==
    ASSUME PowerInv, [PowerNext]_<<vars, powerVars>>
    PROVE  PowerInv'
<1>1. CASE UNCHANGED <<vars, powerVars>>
  <2>1. UNCHANGED <<val, synced, writes, pc, obs, tots, awaiting, inflight, cloud, raced, late, dropped, disk>>
    BY <1>1 DEF vars, powerVars
  <2>2. \A k \in Keys, v \in Nat : (Covered(k, v) <=> Covered(k, v)') /\ (Safe(k, v) <=> Safe(k, v)')
    BY <2>1 DEF Safe, Covered, At, Busy, RowsIn
  <2>3. TypeOK' /\ DiskTypes' /\ AwaitInv'
    BY <2>1 DEF PowerInv, TypeOK, DiskTypes, AwaitInv, Busy, RowsIn
  <2>4. StoreInv'
    <3> SUFFICES ASSUME NEW k \in Keys PROVE StoreInv!(k)'
      BY DEF StoreInv
    <3>1. StoreInv!(k) /\ val[k] \in Nat /\ disk.val[k] \in Nat
      BY StoreTypes DEF PowerInv, StoreInv
    <3> QED
      BY <2>1, <2>2, <3>1
  <2>5. CopiesInv'
    <3>1. \A r \in Rows : (Newer(r) => Newer(r)') /\ (Safe(r.key, val[r.key]) => Safe(r.key, val[r.key])')
      BY <2>1, <2>2, RowTypes, StoreTypes DEF Newer
    <3>2. \A s \in Slots : Busy(s) => \A r \in RowsIn(s) : r \in Rows
      BY BusyRequest DEF PowerInv
    <3>3. \A s \in Slots : RowsIn(s)' = RowsIn(s) /\ (Busy(s)' <=> Busy(s))
      BY <2>1 DEF RowsIn, Busy
    <3> QED
      BY <2>1, <3>1, <3>2, <3>3 DEF PowerInv, CopiesInv, TypeOK
  <2> QED
    BY <2>3, <2>4, <2>5 DEF PowerInv
<1>2. CASE Flush \/ PowerLoss
  BY <1>2, DiskStep
<1>3. CASE (Agent \/ Client \/ AnsweredCommits) /\ UNCHANGED powerVars
  <2>1. disk' = disk /\ Next
    BY <1>3 DEF powerVars, Agent, AnsweredCommits, Next, Cloud
  <2>2. TypeOK' /\ DiskTypes'
    BY <2>1, TypeStep DEF PowerInv, DiskTypes
  <2>3. CASE Agent
    <3>1. UNCHANGED <<pc, obs, tots, awaiting, inflight, cloud>>
      BY <2>3 DEF Agent, Prune, AgentWrite, clientVars, cloudVars, tables
    <3>2. AwaitInv'
      BY <3>1 DEF PowerInv, AwaitInv, Busy, RowsIn
    <3> QED
      BY <2>1, <2>2, <2>3, <3>2, WriteStep, PruneStep DEF Agent, PowerInv
  <2>4. CASE Client
    BY <2>1, <2>2, <2>4, ClientStep, PostStep DEF Client, PowerInv
  <2>5. CASE AnsweredCommits
    <3>1. PICK s \in Slots :
            \/ \/ LoseRequest(s) \/ Reject(s) \/ Upsert(s)
               \/ At(s, {"open"}) /\ Abort(s)
               \/ AnswerOk(s) \/ AnswerLost(s)
            \/ Commit(s)
      BY <2>5 DEF AnsweredCommits
    <3>2. StoreInv' /\ CopiesInv' /\ AwaitInv'
      BY <2>1, <3>1, RequestStep, CommitStep
    <3> QED
      BY <2>2, <3>2 DEF PowerInv
  <2> QED
    BY <1>3, <2>3, <2>4, <2>5
<1> QED
  BY <1>1, <1>2, <1>3 DEF PowerNext

THEOREM PowerInvariance == PowerSpec => []PowerInv
<1>1. PowerInit => PowerInv
  <2> SUFFICES ASSUME PowerInit PROVE PowerInv
    OBVIOUS
  <2>1. \A k \in Keys : val[k] = 0 /\ writes[k] = 0 /\ cloud[k] = 0 /\ disk.val[k] = 0
    BY DEF PowerInit, Init
  <2>2. synced = {} /\ disk.synced = {} /\ obs = {} /\ tots = {} /\ awaiting = None
        /\ \A s \in Slots : ~ Busy(s)
    BY DEF PowerInit, Init, Busy
  <2>3. TypeOK
    BY EdgeSyncAssumption DEF PowerInit, Init, TypeOK, Vals
  <2>4. DiskTypes
    BY <2>3 DEF PowerInit, DiskTypes, TypeOK
  <2>5. StoreInv
    BY <2>1, <2>2 DEF StoreInv, Covered
  <2> QED
    BY <2>2, <2>3, <2>4, <2>5 DEF PowerInv, CopiesInv, AwaitInv
<1>2. PowerInv /\ [PowerNext]_<<vars, powerVars>> => PowerInv'
  BY PowerStep
<1> QED
  BY <1>1, <1>2, PTL DEF PowerSpec

\* A row that is marked has been stored, or a request that stores it is still there,
\* whatever the power takes back (client.py:4-6, store.py:117).
THEOREM MarkedRowsAreStored == PowerSpec => []AckIsDurable
<1>1. PowerInv => AckIsDurable
  <2> SUFFICES ASSUME PowerInv, NEW k \in synced
               PROVE  cloud[k] # 0 \/ \E s \in Slots : Busy(s) /\ k \in KeysOf(RowsIn(s))
    BY DEF AckIsDurable
  <2>1. k \in Keys /\ Covered(k, 1)
    BY DEF PowerInv, TypeOK, StoreInv, Safe
  <2>2. cloud[k] \in Nat
    BY <2>1, StoreTypes
  <2> QED
    BY <2>1, <2>2 DEF Covered, At, KeysOf
<1> QED
  BY <1>1, PowerInvariance, PTL

\* What has reached the disk stays on the box or gets to the cloud, however often the
\* power fails (store.py:117, client.py:105-124).
THEOREM DiskStays == PowerSpec => []DiskIsKept
<1>1. PowerInv => DiskIsKept
  BY DEF PowerInv, StoreInv, Covered, DiskIsKept, TypeOK
<1> QED
  BY <1>1, PowerInvariance, PTL
=============================================================================
