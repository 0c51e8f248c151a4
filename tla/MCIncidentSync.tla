---------------------------- MODULE MCIncidentSync ----------------------------
(* The instances of IncidentSync that TLC checks.                            *)
EXTENDS IncidentSync

MCIncIds == 1..2
MCEventIds == 1..3
MCOneInc == {1}
MCTwoEvents == 1..2

\* Two incidents share a batch, or one meets an upload and time passes
TwoOrOther ==
  Cardinality(used) <= 1 \/ (now = 0 /\ \A u \in Uploads : upload[u].pc = "waiting")
=============================================================================
