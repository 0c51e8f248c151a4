------------------------------ MODULE MCEdgeLive ------------------------------
(* What the agent has to bring about although requests fail, checked in one    *)
(* run: in a behaviour it is the alert of a spill, or the incidents that must  *)
(* reach the cloud, and the other rests.                                       *)
EXTENDS MCAlertPipeline, MCIncidentSync

VARIABLE component

EdgeLiveInit ==
  /\ component \in {"alerts", "sync"}
  /\ Init /\ SyncInit

EdgeLiveNext ==
  /\ UNCHANGED component
  /\ \/ component = "alerts" /\ Next /\ UNCHANGED deliveryVars
     \/ component = "sync" /\ SyncNext /\ UNCHANGED vars

EdgeLiveVars == <<component, vars, deliveryVars>>
\* The fairness of AlertPipeline holds where it works; nothing of SyncFairness is
\* enabled where the sync rests
EdgeLiveSpec ==
  /\ EdgeLiveInit /\ [][EdgeLiveNext]_EdgeLiveVars
  /\ WF_vars(component = "alerts" /\ SecondPasses)
  /\ \A c \in AlertCameras : WF_vars(component = "alerts" /\ CameraStep(c))
  /\ SyncFairness
===============================================================================
