----------------------------- MODULE MCEdgeSync -----------------------------
(* Small instances of EdgeSync: two observations, in buckets 1 and 2, and    *)
(* the site total of bucket 1.                                               *)
EXTENDS EdgeSync, TLC

CONSTANTS o1, o2, t1, s1, s2

MCBucketOf == (o1 :> 1) @@ (o2 :> 2) @@ (t1 :> 1)
OneBucketOf == (o1 :> 1)
PairBucketOf == (o1 :> 1) @@ (t1 :> 1)
SlotSymmetry == Permutations(Slots)
=============================================================================
