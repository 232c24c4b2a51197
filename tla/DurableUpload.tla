---------------------------- MODULE DurableUpload ----------------------------
(***************************************************************************)
(* What the edge store, the sync client and POST /v1/ingest promise        *)
(* together: a rollup row, once produced, is on the edge or in the cloud,  *)
(* the cloud never gives it up again, and the edge only ever calls a row   *)
(* synced once the cloud has answered for it.  An answer is a debt: the    *)
(* cloud stores what it has answered for, all of it at once, or drops it.  *)
(*                                                                         *)
(* The promise is about rows by key, not about the numbers in them: which  *)
(* value the cloud ends up with is a separate question (EdgeSync).         *)
(***************************************************************************)
CONSTANT Keys           \* rows of the two local tables, by primary key

VARIABLES
    where,              \* where each row can be found
    owed,               \* rows the cloud has answered for and is yet to store
    dropped,            \* rows it has failed to store behind its answer
    claimed             \* rows the edge believes the cloud has

upVars == <<where, owed, dropped, claimed>>

UpTypeOK ==
    /\ where \in [Keys -> {"nowhere", "edge", "cloud"}]
    /\ owed \in SUBSET Keys /\ dropped \in SUBSET Keys
    /\ claimed \in SUBSET Keys

UpInit ==
    /\ where = [k \in Keys |-> "nowhere"]
    /\ owed = {} /\ dropped = {} /\ claimed = {}

\* A bucket is written or written again: the row is on the edge (or still in
\* the cloud), and whatever was claimed of it is withdrawn.
Produce(k) ==
    /\ where' = [where EXCEPT ![k] = IF @ = "nowhere" THEN "edge" ELSE @]
    /\ claimed' = claimed \ {k}
    /\ UNCHANGED <<owed, dropped>>

\* The cloud answers for a batch of produced rows.
Answer(K) ==
    /\ \A k \in K : where[k] # "nowhere"
    /\ owed' = owed \cup K
    /\ UNCHANGED <<where, dropped, claimed>>

\* A batch it owes becomes durable, all of it at once.
Deliver(K) ==
    /\ K \subseteq owed
    /\ where' = [k \in Keys |-> IF k \in K THEN "cloud" ELSE where[k]]
    /\ owed' = owed \ K
    /\ dropped' = dropped \ K
    /\ UNCHANGED claimed

\* Or all of it is dropped.
Drop(K) ==
    /\ K \subseteq owed
    /\ owed' = owed \ K
    /\ dropped' = dropped \cup K
    /\ UNCHANGED <<where, claimed>>

\* The edge learns that the cloud has answered for a row.
Claim(k) ==
    /\ where[k] = "cloud" \/ k \in owed \cup dropped
    /\ claimed' = claimed \cup {k}
    /\ UNCHANGED <<where, owed, dropped>>

UpNext ==
    \/ \E k \in Keys : Produce(k) \/ Claim(k)
    \/ \E K \in SUBSET Keys : Answer(K) \/ Deliver(K) \/ Drop(K)

UpSpec == UpInit /\ [][UpNext]_upVars
=============================================================================
