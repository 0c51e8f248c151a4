--------------------------- MODULE MCAlertPipeline ---------------------------
(* The instances of AlertPipeline that TLC checks.                           *)
EXTENDS AlertPipeline

MCTriggers == [d \in Devices |-> AlertCameras]
Layers(l1, k, m, l4, cooldown) ==
  [l1 |-> l1, l3 |-> TRUE, k |-> k, m |-> m, l4 |-> l4, cooldown |-> cooldown]
MCDefault == Layers(TRUE, 2, 3, TRUE, 2)
\* The defaults; a short cooldown and layer 1 off; layer 4 off; m = 0
MCSettings == {MCDefault, Layers(FALSE, 2, 2, TRUE, 1), Layers(TRUE, 1, 0, FALSE, 2)}
=============================================================================
