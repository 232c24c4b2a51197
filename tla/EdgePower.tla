------------------------------ MODULE EdgePower ------------------------------
(***************************************************************************)
(* EdgeSync on a box whose power may fail.  The store is opened in WAL     *)
(* mode with synchronous=NORMAL (edge/agent/store.py): a commit is atomic  *)
(* but reaches the disk only when the log is synced, so that a power loss  *)
(* takes the database back to some earlier state of it, rows and marks     *)
(* alike, while the cloud keeps what it was sent.  Here the API does       *)
(* commit what it has answered for; EdgeSync has the commit that fails.    *)
(***************************************************************************)
EXTENDS EdgeSync

CONSTANTS
    MaxLosses           \* bounds the power losses

ASSUME PowerAssumption == MaxLosses \in Nat

VARIABLES
    disk,               \* the state of the store a power loss goes back to
    losses              \* how many there have been

powerVars == <<disk, losses>>

PowerInit ==
    /\ Init
    /\ disk = [val |-> val, synced |-> synced]
    /\ losses = 0

\* The log reaches the disk: at a checkpoint, or whenever the system writes it back.
Flush ==
    /\ losses < MaxLosses
    /\ disk' = [val |-> val, synced |-> synced]
    /\ UNCHANGED <<vars, losses>>

\* Both services start anew from what the disk has; a request that left the box
\* goes on.
PowerLoss ==
    /\ losses < MaxLosses
    /\ losses' = losses + 1
    /\ val' = disk.val /\ synced' = disk.synced
    /\ GiveUp
    /\ UNCHANGED <<writes, raced, cloudVars, disk>>

\* The API of EdgeSync, without a commit that fails after the answer.
AnsweredCommits ==
    \E s \in Slots :
        \/ LoseRequest(s) \/ Reject(s) \/ Upsert(s) \/ Commit(s)
        \/ At(s, {"open"}) /\ Abort(s)
        \/ AnswerOk(s) \/ AnswerLost(s)

PowerNext ==
    \/ (Agent \/ Client \/ AnsweredCommits) /\ UNCHANGED powerVars
    \/ Flush
    \/ PowerLoss

PowerSpec == PowerInit /\ [][PowerNext]_<<vars, powerVars>> /\ Fairness

-----------------------------------------------------------------------------
\* What is on the disk is not lost: the box or the cloud has this value of the
\* row or a newer one, or a request that was answered is about to store it, whatever
\* the power takes back and whatever is sent again after it.  A row that was
\* rewritten while a copy of it was on its way is not covered (store.py:117,
\* client.py:105-124).
DiskIsKept ==
    \A k \in Keys \ raced :
        \/ disk.val[k] <= val[k]
        \/ disk.val[k] <= cloud[k]
        \/ \E s \in Slots : At(s, {"replied"}) /\ \E r \in RowsIn(s) :
                                r.key = k /\ disk.val[k] <= r.val
=============================================================================
