--------------------------- MODULE MCZoneBuckets ---------------------------
(* Small instances of ZoneBuckets: places 0 (away), 1 (catchment), 2 (exit   *)
(* margin) and 3 (in the polygon).                                          *)
EXTENDS ZoneBuckets

MCEnter == {3}
MCStay == {2, 3}
MCCatchment == {1, 2, 3}
=============================================================================
