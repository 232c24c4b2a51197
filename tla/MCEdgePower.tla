----------------------------- MODULE MCEdgePower -----------------------------
(* A small instance of EdgePower: one observation and the total of its bucket. *)
EXTENDS EdgePower, TLC

CONSTANTS o1, t1, s1, s2

PairBucketOf == (o1 :> 1) @@ (t1 :> 1)
=============================================================================
