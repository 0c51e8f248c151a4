-------------------------------- MODULE VideoJobs --------------------------------
(***************************************************************************)
(* Videos a user has analysed (services/video_inference_service.py): the   *)
(* request stores the video and its job, and a task of the same process    *)
(* then goes through its frames and writes what it found.  The task is     *)
(* nowhere but in the memory of its process, and ends with it.             *)
(*                                                                         *)
(* What is found in a frame is one bit.  A file that is no video, is too   *)
(* long or cannot be transcoded is refused before anything is stored, and  *)
(* left out.                                                               *)
(***************************************************************************)
EXTENDS Naturals, Sequences

CONSTANTS
  Videos,     \* jobs, each made once
  MaxSampled, \* bound on the frames sampled from a video
  MaxTroubles \* bound on processes that end and stores that fail

ASSUME VideoAssumption == MaxSampled \in Nat /\ MaxTroubles \in Nat

VARIABLES
  video,    \* db.video_jobs: the status of each job
  timeline, \* and the summary of its frames
  footage,  \* videos in the store
  task,     \* what the request of a job, and then its task, is doing
  sampled,  \* what the task has found so far: how many frames, and in which stretches
  orphans,  \* jobs whose task ended without a word
  troubles

videoVars == <<video, timeline, footage, task, sampled, orphans, troubles>>

NoFrames == [frames |-> 0, stretches |-> <<>>]

VideoInit ==
  /\ video = [v \in Videos |-> "none"] /\ timeline = [v \in Videos |-> <<>>]
  /\ footage = {} /\ orphans = {} /\ troubles = 0
  /\ task = [v \in Videos |-> [at |-> "none", validated |-> FALSE]]
  /\ sampled = [v \in Videos |-> NoFrames]

At(v, at) == task[v].at = at
Goes(v, at) == task' = [task EXCEPT ![v].at = at]
\* An update does not make a job anew
Becomes(v, s) == video' = [video EXCEPT ![v] = IF @ = "deleted" THEN @ ELSE s]
Trouble == troubles < MaxTroubles /\ troubles' = troubles + 1

\* The stretches of wet and of dry frames, one after the other.  The code goes through
\* the frames at the end; here the stretches grow with them.
Extended(segments, wet) ==
  LET n == Len(segments) IN
  IF n > 0 /\ segments[n].wet = wet
  THEN [segments EXCEPT ![n].count = @ + 1]
  ELSE Append(segments, [wet |-> wet, count |-> 1])

-------------------------------------------------------------------------------
(* create_video_job *)

StoreVideo(v, validated) ==
  /\ At(v, "none") /\ video[v] = "none" /\ v \notin footage
  /\ footage' = footage \cup {v}
  /\ task' = [task EXCEPT ![v] = [at |-> "stored", validated |-> validated]]
  /\ UNCHANGED <<video, timeline, sampled, orphans, troubles>>
\* ... and its task is started, once the video has an address
InsertJob(v) ==
  /\ At(v, "stored")
  /\ video' = [video EXCEPT ![v] = "queued"] /\ Goes(v, "starts")
  /\ UNCHANGED <<timeline, footage, sampled, orphans, troubles>>

-------------------------------------------------------------------------------
(* _process_job *)

Begin(v) ==
  /\ At(v, "starts")
  /\ Becomes(v, "processing") /\ Goes(v, "samples")
  /\ UNCHANGED <<timeline, footage, sampled, orphans, troubles>>
\* With the validation nothing is ever wet: the route leaves the alert classes out of
\* its settings.  A frame that cannot be inferred is a dry one.
Judgements(v) == IF task[v].validated THEN {FALSE} ELSE BOOLEAN
Sample(v) ==
  /\ At(v, "samples") /\ sampled[v].frames < MaxSampled
  /\ \E wet \in Judgements(v) :
       sampled' = [sampled EXCEPT ![v] = [frames |-> @.frames + 1,
                                          stretches |-> Extended(@.stretches, wet)]]
  /\ UNCHANGED <<video, timeline, footage, task, orphans, troubles>>
Finish(v) ==
  /\ At(v, "samples")
  /\ Becomes(v, "completed") /\ Goes(v, "done")
  /\ timeline' = [timeline EXCEPT ![v] = IF video[v] = "deleted" THEN @ ELSE sampled[v].stretches]
  /\ sampled' = [sampled EXCEPT ![v] = NoFrames]
  /\ UNCHANGED <<footage, orphans, troubles>>
\* (mutant) the failure is not handled
RaisesInTask_Silent(v) ==
  /\ task[v].at \in {"starts", "samples"} /\ Trouble
  /\ Goes(v, "done") /\ sampled' = [sampled EXCEPT ![v] = NoFrames]
  /\ UNCHANGED <<video, timeline, footage, orphans>>
\* The file cannot be opened or a write fails
RaisesInTask(v) ==
  /\ task[v].at \in {"starts", "samples"} /\ Trouble
  /\ Goes(v, "fails") /\ sampled' = [sampled EXCEPT ![v] = NoFrames]
  /\ UNCHANGED <<video, timeline, footage, orphans>>
MarkVideoFailed(v) ==
  /\ At(v, "fails")
  /\ Becomes(v, "failed") /\ Goes(v, "done")
  /\ UNCHANGED <<timeline, footage, sampled, orphans, troubles>>
\* The process ends, the store gives no address, or the failure cannot be written
TaskEnds(v) ==
  /\ task[v].at \notin {"none", "done"} /\ Trouble
  /\ Goes(v, "done") /\ sampled' = [sampled EXCEPT ![v] = NoFrames]
  /\ orphans' = orphans \cup {v}
  /\ UNCHANGED <<video, timeline, footage>>

-------------------------------------------------------------------------------

\* delete_video_job: the task goes on; the store's failure is ignored
DeleteVideo(v) ==
  /\ video[v] \notin {"none", "deleted"}
  /\ video' = [video EXCEPT ![v] = "deleted"]
  /\ timeline' = [timeline EXCEPT ![v] = <<>>]
  /\ \/ footage' = footage \ {v} /\ UNCHANGED troubles
     \/ Trouble /\ UNCHANGED footage
  /\ UNCHANGED <<task, sampled, orphans>>

VideoNext ==
  \E v \in Videos :
    \/ \E validated \in BOOLEAN : StoreVideo(v, validated)
    \/ InsertJob(v) \/ Begin(v) \/ Sample(v) \/ Finish(v)
    \/ RaisesInTask(v) \/ MarkVideoFailed(v) \/ TaskEnds(v) \/ DeleteVideo(v)
\* A task of a process that runs goes on
VideoFairness ==
  \A v \in Videos : WF_videoVars(InsertJob(v) \/ Begin(v) \/ Finish(v) \/ MarkVideoFailed(v))
VideoSpec == VideoInit /\ [][VideoNext]_videoVars /\ VideoFairness

-------------------------------------------------------------------------------
(* Properties *)

VideoTypeOK ==
  /\ video \in [Videos -> {"none", "queued", "processing", "completed", "failed", "deleted"}]
  /\ \A v \in Videos : \A i \in DOMAIN timeline[v] :
       timeline[v][i] \in [wet : BOOLEAN, count : 1 .. MaxSampled]
  /\ footage \subseteq Videos /\ orphans \subseteq Videos
  /\ task \in [Videos -> [at : {"none", "stored", "starts", "samples", "fails", "done"},
                          validated : BOOLEAN]]
  /\ \A v \in Videos : sampled[v].frames \in 0 .. MaxSampled
  /\ troubles \in 0 .. MaxTroubles

\* A job that has not come to its end has its task, at a step that fits, or is an orphan:
\* no failure and no deletion leaves one that nobody works on.
VideosInHand ==
  \A v \in Videos \ orphans :
    /\ video[v] = "queued" => task[v].at \in {"starts", "fails"}
    /\ video[v] = "processing" => task[v].at \in {"samples", "fails"}

\* A job comes to an end, failing or deleted under its task notwithstanding; only the
\* end of its process, or a database that does not take the failure either, leaves it
\* queued or in progress for ever.
EveryVideoSettles ==
  \A v \in Videos :
    (video[v] = "queued") ~> (video[v] \in {"completed", "failed", "deleted"} \/ v \in orphans)
===============================================================================
