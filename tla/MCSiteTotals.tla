---------------------------- MODULE MCSiteTotals ----------------------------
(* Small instances of SiteTotals: one zone on each of two cameras.          *)
EXTENDS SiteTotals, TLC

CONSTANTS r1, r2, c1, c2

MCRunners == {r1, r2}
MCCameraOf == (r1 :> c1) @@ (r2 :> c2)
=============================================================================
