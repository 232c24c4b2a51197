--------------------------- MODULE MCZoneVersions ---------------------------
(* Small instances of ZoneVersions: two unrelated spaces on one camera and  *)
(* two shapes, each of which overlaps only itself; the editors are alike.   *)
EXTENDS ZoneVersions, TLC

CONSTANTS patio, stall, cam, left, right, ada, bob

MCCameraOf == (patio :> cam) @@ (stall :> cam)
MCRelated(s, u) == FALSE
MCOverlap(p, q) == p = q
MCFirstRows ==
    LET Row(s, p) == [space |-> s, polygon |-> p, primary |-> TRUE,
                      from |-> 0, to |-> None, base |-> None, ack |-> FALSE, met |-> {}]
    IN  << Row(patio, left), Row(stall, IF right \in Polygons THEN right ELSE left) >>

EditorSymmetry == Permutations(Editors)
=============================================================================
