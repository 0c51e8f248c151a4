------------------------------- MODULE MCServices -------------------------------
(* Services that do not act on one another, checked in one run: in a behaviour   *)
(* one of them works, the `component`, and the others rest.  All are the cloud's *)
(* but the incidents, which the edge agent of a store with one camera keeps.     *)
EXTENDS EventGrouping, EdgeIncidents, Notifications, DetectionControl, ModelRegistry,
        LearningFrames, CloudDetection, DatasetSync, ModelPull, TLC

VARIABLE component

Components ==
  {"events", "incidents", "notifications", "settings", "models",
   "learning", "detection", "datasets", "pull"}
MCIncIds == 1 .. 3
MCEventIds == 1 .. 3
MCStoreOf == [c \in EdgeCameras |-> "s1"]
MaxSkipped == 1  \* uploads that the settings leave out of the events
OneCamera == CHOOSE c \in Cameras : TRUE
ServicesSymmetry == Permutations(Requests)
LastDetection == "d4"  \* comes when the others have come, and as long as nothing is split
LastPull == CHOOSE p \in Pulls : TRUE  \* comes when the others are over

\* Imports and uploads come in pairs, with one another or with a detection
Captured == { d \in Detections : captures[d] # "none" }
Imported ==
  { i \in Imports : imports[i].at # "none" } \cup { f \in Uploaded : frames[f] > 0 }
\* Of workers that are alike the one with the lowest number takes up what comes next.
TakenInOrder(free, still) == \A w \in free \ still : \A v \in free : w <= v
FreePromoters == Promoters \ Promoting
FreeCapturers == { w \in Capturers : capturer[w].at = "idle" }
FreeRuns == { r \in Runs : run[r].at = "idle" }
FreeSyncs == { t \in Syncs : syncs[t].at = "none" }
WaitingUploads == { u \in Uploads : upload[u].pc = "waiting" }
cloudParts == <<events, upload, closing, overtaken>>
edgeParts == <<used, db>>

\* Of what rests, one initial state is enough; of the events, those in which one of the
\* three uploads is of a class that may be grouped separately, and no other one of the
\* other camera
ServicesInit ==
  /\ component \in Components
  /\ GroupingInit /\ EdgeInit /\ NotificationInit /\ SettingsInit /\ ModelInit
  /\ LearningInit /\ DetectionInit /\ DatasetInit /\ PullInit
  /\ \E odd \in Uploads :
       /\ \A u \in Uploads : upload[u].cls \in SeparateClasses <=> u = odd
       /\ \A u \in Uploads \ {odd} : upload[u].cam = OneCamera
       /\ component # "events" => upload[odd].cam = OneCamera /\ \A u \in Uploads : odd <= u
  /\ component # "notifications" => active = {}

ServicesNext ==
  /\ UNCHANGED component
  /\ \/ /\ component = "events" /\ GroupingNext
        /\ \A u \in Uploads : upload'[u].apart => upload[u].cls \in SeparateClasses
        /\ TakenInOrder(WaitingUploads, WaitingUploads')
        /\ Cardinality({u \in Uploads : upload'[u].pc = "skipped"}) <= MaxSkipped
        /\ events'[3].status \notin {"acknowledged", "resolved"}  \* nor do users act on the third
        /\ UNCHANGED <<edgeParts, notificationVars, settingVars, modelVars,
                       learningVars, detectionVars, datasetVars, pullVars>>
     \/ /\ component = "incidents" /\ EdgeNext
        /\ \A i \in used' : db'[i].status = "none" \/ db'[i].cam = OneCamera
        /\ db'[3].status \notin {"acknowledged", "resolved"}  \* users act on the first two
        /\ UNCHANGED <<cloudParts, notificationVars, settingVars, modelVars,
                       learningVars, detectionVars, datasetVars, pullVars>>
     \/ /\ component = "notifications" /\ NotificationNext
        /\ UNCHANGED <<now, cloudParts, edgeParts, settingVars, modelVars,
                       learningVars, detectionVars, datasetVars, pullVars>>
     \/ /\ component = "settings" /\ SettingsNext
        /\ UNCHANGED <<now, cloudParts, edgeParts, notificationVars, modelVars,
                       learningVars, detectionVars, datasetVars, pullVars>>
     \/ /\ component = "models" /\ ModelNext /\ TakenInOrder(FreePromoters, FreePromoters')
        /\ UNCHANGED <<now, cloudParts, edgeParts, notificationVars, settingVars,
                       learningVars, detectionVars, datasetVars, pullVars>>
     \/ /\ component = "learning" /\ LearningNext /\ TakenInOrder(FreeCapturers, FreeCapturers')
        /\ (Captured \cup Imported)' \notin SUBSET Detections => Cardinality((Captured \cup Imported)') <= 2
        /\ captures'[LastDetection] # "none" => Captured' = Detections /\ split' = {} /\ datasets' = <<>>
        /\ UNCHANGED <<now, cloudParts, edgeParts, notificationVars, settingVars,
                       modelVars, detectionVars, datasetVars, pullVars>>
     \/ /\ component = "detection" /\ DetectionNext /\ TakenInOrder(FreeRuns, FreeRuns')
        /\ starts' <= 1 \/ second' + breaks' = 0  \* or two tasks meet within one second
        /\ UNCHANGED <<now, cloudParts, edgeParts, notificationVars, settingVars,
                       modelVars, learningVars, datasetVars, pullVars>>
     \/ /\ component = "datasets" /\ DatasetNext /\ TakenInOrder(FreeSyncs, FreeSyncs')
        /\ UNCHANGED <<now, cloudParts, edgeParts, notificationVars, settingVars,
                       modelVars, learningVars, detectionVars, pullVars>>
     \/ /\ component = "pull" /\ PullNext
        /\ pull'[LastPull].at # "idle" => \A p \in Pulls \ {LastPull} : pull[p].at = "over"
        /\ UNCHANGED <<now, cloudParts, edgeParts, notificationVars, settingVars,
                       modelVars, learningVars, detectionVars, datasetVars>>

ServicesVars ==
  <<component, now, cloudParts, edgeParts, notificationVars, settingVars, modelVars,
    learningVars, detectionVars, datasetVars, pullVars>>
ServicesSpec == ServicesInit /\ [][ServicesNext]_ServicesVars

\* The service at work keeps its types; those at rest do not change.
ServiceTypes ==
  /\ component = "events" => CloudTypeOK
  /\ component = "incidents" => EdgeTypeOK
  /\ component = "notifications" => NotificationTypeOK
  /\ component = "settings" => SettingsTypeOK
  /\ component = "models" => ModelTypeOK
  /\ component = "learning" => LearningTypeOK
  /\ component = "detection" => DetectionTypeOK
  /\ component = "datasets" => DatasetTypeOK
  /\ component = "pull" => PullTypeOK
===============================================================================
