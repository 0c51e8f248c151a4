------------------------------ MODULE MCLiveness ------------------------------
(* Components whose promise is that something happens in the end, checked in   *)
(* one run: in a behaviour one of them works, the `component`, under its own   *)
(* fairness, and the others rest.                                              *)
EXTENDS AgentRegistry, Registration, CameraWorkers, TrainingJobs, VideoJobs

VARIABLE component

Components == {"registry", "registration", "workers", "training", "videos"}
MCMaxUrls == [n \in Names |-> IF n = "n1" THEN 2 ELSE 1]

\* Of what rests, one initial state is enough: one in which none of the steps that
\* fairness is about is enabled
LivenessInit ==
  /\ component \in Components
  /\ RegistryInit /\ RegistrationInit /\ WorkerInit /\ TrainingInit /\ VideoInit
  /\ component # "workers" => mode = "single" /\ \A n \in Names : config[n] = 0
  /\ component # "training" => data = 0

\* A missed answer and a restart meet where only the camera is there: of the items
\* cameras alone are retried.
LivenessNext ==
  /\ UNCHANGED component
  /\ \/ /\ component = "registry" /\ RegistryNext
        /\ UNCHANGED <<registrationVars, workerVars, trainingVars, videoVars>>
     \/ /\ component = "registration" /\ RegistrationNext
        /\ misses' = 0 \/ restarts' = 0 \/ local'["d1"] = "new"
        /\ UNCHANGED <<registryVars, workerVars, trainingVars, videoVars>>
     \/ /\ component = "workers" /\ WorkerNext
        /\ UNCHANGED <<registryVars, registrationVars, trainingVars, videoVars>>
     \/ /\ component = "training" /\ TrainingNext
        /\ UNCHANGED <<registryVars, registrationVars, workerVars, videoVars>>
     \/ /\ component = "videos" /\ VideoNext
        /\ UNCHANGED <<registryVars, registrationVars, workerVars, trainingVars>>

LivenessVars == <<component, registryVars, registrationVars, workerVars, trainingVars, videoVars>>
LivenessSpec ==
  /\ LivenessInit /\ [][LivenessNext]_LivenessVars
  /\ RegistryFairness /\ RegistrationFairness /\ WorkerFairness /\ TrainingFairness
  /\ VideoFairness

\* The components keep their types.
LivenessTypes ==
  /\ RegistryTypeOK /\ RegistrationTypeOK /\ WorkerTypeOK
  /\ TrainingTypeOK /\ VideoTypeOK

\* ... and what is still to be done is in someone's hand: the registration of what the
\* agent has, and the analysis of a video.
NothingForgotten == LivenessTypes /\ UnlinkedInHand /\ VideosInHand

\* The jobs users start come to an end, of training and of the analysis of a video.
EveryJobSettles == EveryTrainingSettles /\ EveryVideoSettles
===============================================================================
