---------------------------- MODULE MCFleetAlerts ----------------------------
(* Small instances of FleetAlerts: two boxes with a camera each, and three  *)
(* heartbeats: all is well; a dim view, a full disk and nothing synced      *)
(* since a restart; and a moved camera of an old agent.                     *)
EXTENDS FleetAlerts, TLC

CONSTANTS box1, box2, door, yard, ann, ben

MCLabel == (box1 :> box1) @@ (box2 :> box2)
MCCameras == (box1 :> {door}) @@ (box2 :> {yard})
SharedCameras == (box1 :> {door}) @@ (box2 :> {door})

Says(behind, full, sync, age, moved, confidence) ==
    [behind |-> behind, diskLow |-> full, syncAge |-> sync,
     camera |-> [age |-> age, moved |-> moved, confidence |-> confidence]]

MCReports == { Says(FALSE, FALSE, 0, 0, FALSE, 4), Says(FALSE, TRUE, None, 0, FALSE, 1),
               Says(TRUE, FALSE, 1, 0, TRUE, None) }
=============================================================================
