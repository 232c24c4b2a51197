------------------------------ MODULE MCReports ------------------------------
(* Small instances of Reports: weeks of two days, a baseline of two weeks,    *)
(* six days with the clocks put back on the second and on the last.           *)
EXTENDS Reports, TLC

CONSTANTS s1, s2

MCMidnight == <<0, 1, 3, 4, 5, 6, 8>>
MCPeriods == {<<4, 4>>, <<5, 5>>, <<4, 5>>, <<3, 4>>}
MCExclusions == {{}, {2}, {3}}
MCArchivals == {{}, {s2}}

Row(e, p, o) == [entries |-> e, passersby |-> p, occupant |-> o]
Past == 0 .. 4      \* the buckets before the last week

\* The space asked about: a past with gaps, with a day like the others or a busy one
\* before it, and a present that is missing, calm or crowded.
OwnPasts == {[b \in Past |-> Row(1, 1, "ada")],
             [b \in Past |-> IF b = 0 THEN None ELSE Row((b % 2) + 1, 1, "ada")],
             [b \in Past |-> IF b \in {1, 2} THEN Row(2, 0, "bob") ELSE None]}
OwnPresents == {[b \in Buckets \ Past |-> None],
                [b \in Buckets \ Past |-> Row((b % 3) + 1, 1, IF b = 7 THEN None ELSE "bob")]}
Peer == [b \in Buckets |-> IF b < 6 THEN Row(1, 1, None) ELSE None]

MCHistories == {(s1 :> (past @@ present)) @@ (s2 :> Peer) :
                    past \in OwnPasts, present \in OwnPresents}

MCPayloads == {[row |-> Row(4, 0, "bob"), total |-> 8]}
MCTwoPayloads == MCPayloads \cup {[row |-> Row(0, 2, None), total |-> None]}
=============================================================================
