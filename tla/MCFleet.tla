------------------------------- MODULE MCFleet -------------------------------
(* The edge agents and what the cloud sends them, checked in one run: in a    *)
(* behaviour one part works, the `component`, and the others rest.  It is the *)
(* commands for one agent, a rollout to two with commands of users in between, *)
(* the configuration of one camera, or, on the agent, the switched devices,   *)
(* the models of the inference server, the logs or the files it is configured by. *)
EXTENDS StagedRollout, CameraConfig, DeviceControl, ModelSwap, EdgeLogs, LocalFiles, TLC

VARIABLE component

Components == {"commands", "rollout", "config", "devices", "swap", "logs", "files"}
\* The words of command_poller.py, and those the cloud's schema accepts
Poller == [ok |-> "completed", bad |-> "failed"]
Schema == [ok |-> "success", bad |-> "failure"]
MCWords == {Poller, Schema}
MCPoller == {Poller}
MCOrder == <<"a1", "a2">>
MaxInRollout == 2  \* commands ever queued in a behaviour with a rollout
MaxSaved == 2      \* regions and references ever saved for the camera
MaxAdded == 1      \* cameras and devices ever added in a behaviour of the files
MaxBeforeEnd == 2  \* commands ever queued in one in which the agent crashes or is deleted
OnlyToggles == 2   \* the caller that never asks the edge directly
FleetSymmetry == Permutations(Requests)

FleetsInit ==
  /\ component \in Components
  /\ FleetInit /\ ConfigInit /\ DeviceInit /\ SwapInit /\ EdgeLogsInit
  /\ LocalFilesInit
  /\ CASE component = "commands" -> agents = {"a1"}
       [] component = "rollout" -> agents = Agents
       [] OTHER -> agents = {} /\ words = Schema
  /\ component # "swap" => newest = NoVersion

FleetsNext ==
  /\ UNCHANGED component
  /\ \/ /\ component = "commands"
        /\ CommandNext /\ (crashes' > 0 \/ agents' = {} => Len(sent') <= MaxBeforeEnd)
        /\ UNCHANGED <<rolloutVars, configVars, deviceVars, swapVars, edgeLogVars, localFileVars>>
     \/ /\ component = "rollout"
        /\ FleetNext
        /\ Len(sent') <= MaxInRollout
        /\ fleet' = fleet /\ losses' = losses /\ crashes' = crashes
        /\ UNCHANGED <<configVars, deviceVars, swapVars, edgeLogVars, localFileVars>>
     \/ /\ component = "config"
        /\ ConfigNext /\ Len(docs'.roi) + Len(docs'.ref) <= MaxSaved
        /\ failures' = 0 \/ ~overlapped'  \* requests overlap as long as no push has failed
        /\ UNCHANGED <<fleetVars, deviceVars, swapVars, edgeLogVars, localFileVars>>
     \/ /\ component = "devices"
        /\ DeviceNext /\ ~call'[OnlyToggles].direct
        /\ UNCHANGED <<fleetVars, configVars, swapVars, edgeLogVars, localFileVars>>
     \/ /\ component = "swap"
        /\ SwapNext
        /\ UNCHANGED <<fleetVars, configVars, deviceVars, edgeLogVars, localFileVars>>
     \/ /\ component = "logs"
        /\ EdgeLogsNext
        /\ UNCHANGED <<fleetVars, configVars, deviceVars, swapVars, localFileVars>>
     \/ /\ component = "files"
        /\ LocalFilesNext /\ Cardinality(added') <= MaxAdded
        /\ UNCHANGED <<fleetVars, configVars, deviceVars, swapVars, edgeLogVars>>

FleetsVars ==
  <<component, fleetVars, configVars, deviceVars, swapVars, edgeLogVars, localFileVars>>
FleetsSpec == FleetsInit /\ [][FleetsNext]_FleetsVars

\* The part at work keeps its types; those at rest do not change.
FleetTypes ==
  /\ component \in {"commands", "rollout"} => CommandTypeOK /\ RolloutTypeOK
  /\ component = "config" => ConfigTypeOK
  /\ component = "devices" => DeviceTypeOK
  /\ component = "swap" => SwapTypeOK
  /\ component = "logs" => EdgeLogsTypeOK
  /\ component = "files" => LocalFilesTypeOK
===============================================================================
