-------------------------------- MODULE Common --------------------------------
(***************************************************************************)
(* What the edge agent's incident table and the cloud's event collection   *)
(* share: the cameras, the classes of detections, the ids of the edge's    *)
(* incidents and a clock.  The clock is coarse: one tick stands for the    *)
(* least difference the grouping windows and deadlines of the code tell    *)
(* apart.                                                                  *)
(***************************************************************************)
EXTENDS Integers, FiniteSets

CONSTANTS
  Cameras,  \* cameras of one store
  Classes,  \* detection classes (top_class_name)
  IncIds,   \* ids of edge incidents; bounds how many are ever created
  MaxTime   \* bound on the clock

ASSUME CommonAssumption ==
  /\ Cameras # {} /\ Classes # {}
  /\ IncIds \subseteq Nat \ {0} /\ IsFiniteSet(IncIds)
  /\ MaxTime \in Nat

VARIABLE now  \* the clock

Tick ==
  /\ now < MaxTime
  /\ now' = now + 1
=============================================================================
