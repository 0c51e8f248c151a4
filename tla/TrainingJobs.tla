------------------------------ MODULE TrainingJobs ------------------------------
(***************************************************************************)
(* The training jobs of one organisation: routers/learning.py starts and   *)
(* cancels them, workers/training_worker.py runs them and, every six hours,*)
(* starts one when there is enough data.  A task is acknowledged when it   *)
(* ends: one whose worker dies, or that takes longer than the broker's     *)
(* visibility timeout, is delivered again.                                 *)
(***************************************************************************)
EXTENDS Naturals, Sequences, FiniteSets

CONSTANTS
  Trainers,    \* worker processes of the queue "learning"
  AutoMin,     \* auto_train_min_frames
  TrainMin,    \* MIN_FRAMES_TO_TRAIN
  MaxData,     \* bound on frames with a split
  MaxJobs,     \* bound on the jobs ever started
  MaxDeaths,   \* bound on workers that die
  MaxAbandoned \* bound on jobs left as they are, by the time limit or a failing write

ASSUME TrainingAssumption == {MaxData, MaxJobs, MaxDeaths, MaxAbandoned} \subseteq Nat

VARIABLES
  data,     \* frames with a split
  jobs,     \* db.learning_training_jobs: the status of each
  broker,   \* jobs whose task waits to be delivered
  trainer,  \* what each worker is doing
  auto,     \* what auto_train_if_ready is about to do
  abandoned, \* jobs whose task is acknowledged and whose end nothing records
  deaths

trainingVars == <<data, jobs, broker, trainer, auto, abandoned, deaths>>

Resting == [at |-> "idle", job |-> 0]
Active == {"queued", "running"}

TrainingTypeOK ==
  /\ data \in 0 .. MaxData
  /\ Len(jobs) <= MaxJobs
  /\ \A j \in DOMAIN jobs : jobs[j] \in Active \cup {"completed", "failed", "cancelled"}
  /\ broker \subseteq DOMAIN jobs
  /\ trainer \in [Trainers -> [at : {"idle", "load", "mark", "train", "fail"}, job : 0 .. MaxJobs]]
  /\ auto \in {"idle", "active", "start"}
  /\ abandoned \subseteq DOMAIN jobs
  /\ deaths \in 0 .. MaxDeaths

TrainingInit ==
  /\ data \in 0 .. MaxData
  /\ jobs = <<>> /\ broker = {} /\ abandoned = {}
  /\ trainer = [w \in Trainers |-> Resting]
  /\ auto = "idle"
  /\ deaths = 0

-------------------------------------------------------------------------------
(* Users *)

\* The broker may be away: the job is there, its task is not
StartJob(dispatched) ==
  /\ Len(jobs) < MaxJobs
  /\ jobs' = Append(jobs, "queued")
  /\ broker' = IF dispatched THEN broker \cup {Len(jobs) + 1} ELSE broker
StartTraining(dispatched) ==
  /\ StartJob(dispatched)
  /\ UNCHANGED <<data, trainer, auto, abandoned, deaths>>
Cancel(j) ==
  /\ jobs[j] \in Active
  /\ jobs' = [jobs EXCEPT ![j] = "cancelled"]
  /\ UNCHANGED <<data, broker, trainer, auto, abandoned, deaths>>
\* Frames get their split, or are deleted
ChangeData(n) ==
  /\ n # data /\ data' = n
  /\ UNCHANGED <<jobs, broker, trainer, auto, abandoned, deaths>>

-------------------------------------------------------------------------------
(* run_training_job *)

Job(w) == trainer[w].job
Turns(w, at) == trainer' = [trainer EXCEPT ![w].at = at]
Rests(w) == trainer' = [trainer EXCEPT ![w] = Resting]
Status(w, s) == jobs' = [jobs EXCEPT ![Job(w)] = s]

Deliver(w, j) ==
  /\ trainer[w].at = "idle" /\ j \in broker
  /\ broker' = broker \ {j}
  /\ trainer' = [trainer EXCEPT ![w] = [at |-> "load", job |-> j]]
  /\ UNCHANGED <<data, jobs, auto, abandoned, deaths>>
\* A job that is neither queued nor running is skipped
LoadJob(w) ==
  /\ trainer[w].at = "load"
  /\ IF jobs[Job(w)] \in Active THEN Turns(w, "mark") ELSE Rests(w)
  /\ UNCHANGED <<data, jobs, broker, auto, abandoned, deaths>>
\* The three writes of the status do not look at what it is by then
MarkRunning(w) ==
  /\ trainer[w].at = "mark"
  /\ Status(w, "running") /\ Turns(w, "train")
  /\ UNCHANGED <<data, broker, auto, abandoned, deaths>>
Complete(w) ==
  /\ trainer[w].at = "train" /\ data >= TrainMin
  /\ Status(w, "completed") /\ Rests(w)
  /\ UNCHANGED <<data, broker, auto, abandoned, deaths>>
\* Too few frames, no class, a failing library or read, the soft time limit
Raise(w) ==
  /\ trainer[w].at \in {"load", "mark", "train"}
  /\ Turns(w, "fail")
  /\ UNCHANGED <<data, jobs, broker, auto, abandoned, deaths>>
MarkFailed(w) ==
  /\ trainer[w].at = "fail"
  /\ Status(w, "failed") /\ Rests(w)
  /\ UNCHANGED <<data, broker, auto, abandoned, deaths>>
\* ... or that write fails as well, which is swallowed: the task ends, the job does not
FailureLost(w) ==
  /\ trainer[w].at = "fail" /\ Cardinality(abandoned) < MaxAbandoned
  /\ abandoned' = abandoned \cup {Job(w)}
  /\ Rests(w)
  /\ UNCHANGED <<data, jobs, broker, auto, deaths>>
\* (mutant) tasks are acknowledged when they are taken
TrainerDies_Acknowledged(w) ==
  /\ trainer[w].at # "idle" /\ deaths < MaxDeaths
  /\ deaths' = deaths + 1
  /\ Rests(w)
  /\ UNCHANGED <<data, jobs, broker, auto, abandoned>>
TrainerDies(w) ==
  /\ trainer[w].at # "idle" /\ deaths < MaxDeaths
  /\ deaths' = deaths + 1
  /\ broker' = broker \cup {Job(w)}
  /\ Rests(w)
  /\ UNCHANGED <<data, jobs, auto, abandoned>>
\* The broker takes the task for lost while the worker still trains
Redeliver(w) ==
  /\ trainer[w].at = "train" /\ deaths < MaxDeaths
  /\ deaths' = deaths + 1
  /\ broker' = broker \cup {Job(w)}
  /\ UNCHANGED <<data, jobs, trainer, auto, abandoned>>
\* The hard time limit kills the process, and the task counts as acknowledged
Overrun(w) ==
  /\ trainer[w].at = "train" /\ Cardinality(abandoned) < MaxAbandoned
  /\ abandoned' = abandoned \cup {Job(w)}
  /\ Rests(w)
  /\ UNCHANGED <<data, jobs, broker, auto, deaths>>

-------------------------------------------------------------------------------
(* auto_train_if_ready *)

CountFrames ==
  /\ auto = "idle" /\ data >= AutoMin
  /\ auto' = "active"
  /\ UNCHANGED <<data, jobs, broker, trainer, abandoned, deaths>>
LookForActive ==
  /\ auto = "active"
  /\ auto' = IF \E j \in DOMAIN jobs : jobs[j] \in Active THEN "idle" ELSE "start"
  /\ UNCHANGED <<data, jobs, broker, trainer, abandoned, deaths>>
\* The latest completed job is asked for its frames_used, a field no job document
\* has: it is taken for 0, which is never as many as were counted
AutoStart(dispatched) ==
  /\ auto = "start" /\ auto' = "idle"
  /\ StartJob(dispatched)
  /\ UNCHANGED <<data, trainer, abandoned, deaths>>

TrainingNext ==
  \/ \E dispatched \in BOOLEAN : StartTraining(dispatched) \/ AutoStart(dispatched)
  \/ \E j \in DOMAIN jobs : Cancel(j) \/ \E w \in Trainers : Deliver(w, j)
  \/ \E n \in 0 .. MaxData : ChangeData(n)
  \/ \E w \in Trainers :
       \/ LoadJob(w) \/ MarkRunning(w) \/ Complete(w) \/ Raise(w) \/ MarkFailed(w)
       \/ TrainerDies(w) \/ Redeliver(w) \/ Overrun(w) \/ FailureLost(w)
  \/ CountFrames \/ LookForActive

\* Workers take tasks and carry them out; the library ends with a result or an error
TrainingFairness ==
  \A w \in Trainers :
    /\ SF_trainingVars(\E j \in DOMAIN jobs : Deliver(w, j))
    /\ WF_trainingVars(LoadJob(w) \/ MarkRunning(w) \/ Complete(w) \/ Raise(w) \/ MarkFailed(w))

TrainingSpec == TrainingInit /\ [][TrainingNext]_trainingVars /\ TrainingFairness
-------------------------------------------------------------------------------
(* Properties *)

\* The tasks of a job that are waiting or in the hands of a worker
Underway(j) == j \in broker \/ \E w \in Trainers : trainer[w].at # "idle" /\ Job(w) = j
\* The last task of a job is never lost while the job counts as active, unless the hard
\* time limit killed it or the write of its failure failed: whatever worker dies or is too
\* slow, and in whatever state the next one finds the job.
TasksKept ==
  [][\A j \in DOMAIN jobs :
       Underway(j) => Underway(j)' \/ jobs'[j] \notin Active \/ j \in abandoned']_trainingVars

\* A job whose task reached the broker comes to an end, workers dying and tasks
\* coming twice notwithstanding; only the hard time limit and a failing write of its
\* failure can leave it active.
EveryTrainingSettles ==
  \A j \in 1 .. MaxJobs :
    (j \in broker) ~> (j \in abandoned \/ (j \in DOMAIN jobs /\ jobs[j] \notin Active))
===============================================================================
