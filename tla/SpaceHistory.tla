---------------------------- MODULE SpaceHistory ----------------------------
(***************************************************************************)
(* What reshape_zone and the zone_versions table promise about the shapes  *)
(* of spaces: whoever edits, and however saves interleave, a space has a   *)
(* shape at every instant, and its history grows at the end only.  A new   *)
(* shape holds from an instant later than the last change, for good, and   *)
(* what held before that instant, and every other space, stays as it was.  *)
(***************************************************************************)
EXTENDS Naturals

CONSTANTS
    Spaces,
    Instants,               \* an initial part of the naturals
    Shapes

VARIABLES
    timeline,               \* the shape of each space at each instant
    since                   \* the last change of each space

historyVars == <<timeline, since>>

HistoryInit ==
    /\ \E first \in [Spaces -> Shapes] : timeline = [s \in Spaces |-> [t \in Instants |-> first[s]]]
    /\ since = [s \in Spaces |-> 0]

Redraw(s, at) ==
    /\ since[s] < at
    /\ since' = [since EXCEPT ![s] = at]
    /\ \E shape \in Shapes :
          /\ \A t \in Instants : timeline[s][t] # shape
          /\ timeline' = [timeline EXCEPT ![s] = [t \in Instants |-> IF t < at THEN @[t] ELSE shape]]

HistoryNext == \E s \in Spaces, at \in Instants : Redraw(s, at)

HistorySpec == HistoryInit /\ [][HistoryNext]_historyVars
=============================================================================
