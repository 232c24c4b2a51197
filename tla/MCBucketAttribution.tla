------------------------- MODULE MCBucketAttribution -------------------------
(* One space with a camera of its own and a failover version on another.    *)
EXTENDS BucketAttribution, TLC

CONSTANTS patio, cam, left, ada, bob

MCCameraOf == patio :> cam
MCRelated(s, u) == FALSE
MCOverlap(p, q) == p = q
MCFirstRows ==
    LET Row(prim) == [space |-> patio, polygon |-> left, primary |-> prim,
                      from |-> 0, to |-> None, base |-> None, ack |-> FALSE, met |-> {}]
    IN  << Row(TRUE), Row(FALSE) >>

EditorSymmetry == Permutations(Editors)
=============================================================================
