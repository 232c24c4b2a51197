-------------------------- MODULE MCCameraPipeline --------------------------
(* Small instances of CameraPipeline: a live camera whose view changes, and *)
(* another one, live or a file.  At dusk a camera shows what is near both   *)
(* to what it is aimed at and to what it shows when it is moved, and those  *)
(* two are far apart.                                                       *)
EXTENDS CameraPipeline, TLC

CONSTANTS door, yard, aimed, dusk, moved

MCFar == {<<aimed, moved>>, <<moved, aimed>>}
=============================================================================
