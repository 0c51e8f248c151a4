------------------------------ MODULE DatasetSync ------------------------------
(***************************************************************************)
(* The frames of the training dataset and their upload to Roboflow         *)
(* (routers/dataset.py, routers/roboflow.py, workers/sync_worker.py), and  *)
(* the detections that users flag for it (routers/detection.py).           *)
(*                                                                         *)
(* A request marks frames as not sent and queues a task; a task takes the  *)
(* oldest frames that are not sent, a batch of them, posts one after the   *)
(* other and writes the outcome of each.  Tasks know nothing of each       *)
(* other, nor of the request that queued them.  Without a Roboflow key, the *)
(* default, and a valid model id they end at once.  Frames are numbered in *)
(* the order in which they were added.                                     *)
(*                                                                         *)
(* A task looks for frames of its organisation.  The task that a super     *)
(* administrator's request queues has none and finds no frame: the request *)
(* is modelled, and the task left out.                                     *)
(***************************************************************************)
EXTENDS Naturals, FiniteSets

CONSTANTS
  Frames,      \* 1 .. n
  Flaggable,  \* detections a user may flag, other numbers
  Syncs,       \* tasks that may be queued or running at the same time
  SyncBatch,   \* ROBOFLOW_SYNC_BATCH_SIZE
  MaxRequests, \* bound on the requests for an upload
  MaxUnlucky   \* bound on failed dispatches and dead workers

ASSUME DatasetAssumption ==
  /\ Frames \subseteq Nat /\ IsFiniteSet(Frames) /\ IsFiniteSet(Flaggable)
  /\ Flaggable \subseteq Nat /\ Frames \cap Flaggable = {}
  /\ SyncBatch \in Nat \ {0} /\ MaxRequests \in Nat /\ MaxUnlucky \in Nat

VARIABLES
  syncOf,    \* roboflow_sync_status of each frame, "absent" without a document
  wanted,    \* frames whose upload was requested, last by a user of their organisation
  undelayed, \* requests that have not queued their task yet
  syncs,     \* the tasks
  remote,    \* what Roboflow has accepted
  flagged,   \* is_flagged of each detection
  toggles,   \* toggle requests that have read the flag and not written it
  marked,    \* detections with uploaded_to_roboflow
  short,     \* a batch was full, a dispatch failed, a task was lost or skipped
  requests, unlucky

datasetVars ==
  <<syncOf, wanted, undelayed, syncs, remote, flagged, toggles, marked, short, requests,
    unlucky>>

NoSync == [at |-> "none", todo |-> {}, answer |-> "none"]

DatasetTypeOK ==
  /\ syncOf \in [Frames -> {"absent", "not_sent", "synced", "error"}]
  /\ wanted \subseteq Frames /\ undelayed \in 0 .. MaxRequests
  /\ remote \subseteq Frames \cup Flaggable
  /\ syncs \in [Syncs -> [at : {"none", "queued", "post", "write"}, todo : SUBSET Frames,
                         answer : {"none", "synced", "error"}]]
  /\ \A t \in Syncs : Cardinality(syncs[t].todo) <= SyncBatch
  /\ flagged \subseteq Flaggable /\ marked \subseteq Flaggable
  /\ toggles \subseteq [det : Flaggable, to : BOOLEAN]
  /\ short \in BOOLEAN /\ requests \in 0 .. MaxRequests /\ unlucky \in 0 .. MaxUnlucky

DatasetInit ==
  /\ syncOf = [f \in Frames |-> "absent"] /\ wanted = {} /\ undelayed = 0
  /\ syncs = [t \in Syncs |-> NoSync] /\ remote = {}
  /\ flagged = {} /\ toggles = {} /\ marked = {}
  /\ short = FALSE /\ requests = 0 /\ unlucky = 0

-------------------------------------------------------------------------------
(* Requests *)

Present == { f \in Frames : syncOf[f] # "absent" }

\* What a new document says
NewFrame == "not_sent"
AddDatasetFrame(f) ==
  /\ syncOf[f] = "absent" /\ f \notin wanted
  /\ \A g \in Present : g < f
  /\ syncOf' = [syncOf EXCEPT ![f] = NewFrame]
  /\ UNCHANGED <<wanted, undelayed, syncs, remote, flagged, toggles, marked, short, requests, unlucky>>
RemoveFrames(S) ==
  /\ S # {}
  /\ S \subseteq Present
  /\ syncOf' = [f \in Frames |-> IF f \in S THEN "absent" ELSE syncOf[f]]
  /\ UNCHANGED <<wanted, undelayed, syncs, remote, flagged, toggles, marked, short, requests, unlucky>>

Asks ==
  /\ requests < MaxRequests
  /\ requests' = requests + 1
  /\ undelayed' = undelayed + 1
RequestUpload(S) ==
  /\ S # {}
  /\ S \subseteq Present
  /\ Asks
  /\ wanted' = wanted \cup S
  /\ syncOf' = [f \in Frames |-> IF f \in S THEN "not_sent" ELSE syncOf[f]]
  /\ UNCHANGED <<syncs, remote, flagged, toggles, marked, short, unlucky>>
\* A super administrator's request: the frames are marked, and no task takes them for it
RequestAcross(S) ==
  /\ S # {}
  /\ S \subseteq Present
  /\ requests < MaxRequests
  /\ requests' = requests + 1
  /\ wanted' = wanted \ S
  /\ syncOf' = [f \in Frames |-> IF f \in S THEN "not_sent" ELSE syncOf[f]]
  /\ UNCHANGED <<undelayed, syncs, remote, flagged, toggles, marked, short, unlucky>>
\* The requests of routers/roboflow.py queue a task and mark nothing
RequestSync ==
  /\ Asks
  /\ UNCHANGED <<syncOf, wanted, syncs, remote, flagged, toggles, marked, short, unlucky>>
\* sync_to_roboflow.delay: a failure is logged and the request answered as if it worked
Delay ==
  /\ undelayed > 0
  /\ undelayed' = undelayed - 1
  /\ \/ \E t \in Syncs :
          /\ syncs[t].at = "none"
          /\ syncs' = [syncs EXCEPT ![t] = [NoSync EXCEPT !.at = "queued"]]
          /\ UNCHANGED <<short, unlucky>>
     \/ /\ unlucky < MaxUnlucky
        /\ unlucky' = unlucky + 1 /\ short' = TRUE /\ UNCHANGED syncs
  /\ UNCHANGED <<syncOf, wanted, remote, flagged, toggles, marked, requests>>

-------------------------------------------------------------------------------
(* The task *)

ReadyFrames == { f \in Frames : syncOf[f] = "not_sent" }
FirstOf(S) == { f \in S : Cardinality({ g \in S : g < f }) < SyncBatch }

BeginSync(t) ==
  /\ syncs[t].at = "queued"
  /\ syncs' = [syncs EXCEPT ![t] = [@ EXCEPT !.at = "post", !.todo = FirstOf(ReadyFrames)]]
  /\ short' = (short \/ Cardinality(ReadyFrames) > SyncBatch)
  /\ UNCHANGED <<syncOf, wanted, undelayed, remote, flagged, toggles, marked, requests, unlucky>>

\* Without the settings of Roboflow the task returns before it looks for frames
SkipSync(t) ==
  /\ syncs[t].at = "queued"
  /\ syncs' = [syncs EXCEPT ![t] = NoSync]
  /\ short' = TRUE
  /\ UNCHANGED <<syncOf, wanted, undelayed, remote, flagged, toggles, marked, requests, unlucky>>

\* The frame a task is at, of those left to it
Oldest(S) == CHOOSE f \in S : \A g \in S : f <= g
Answered(t, a) ==
  syncs' = [syncs EXCEPT ![t] = [@ EXCEPT !.at = "write", !.answer = a]]
\* The image is stored and the answer heard
PostAccepted(t) ==
  /\ syncs[t].at = "post" /\ syncs[t].todo # {}
  /\ remote' = remote \cup {Oldest(syncs[t].todo)}
  /\ Answered(t, "synced")
  /\ UNCHANGED <<syncOf, wanted, undelayed, flagged, toggles, marked, short, requests, unlucky>>
\* No path, no file in S3, a refusal, or an answer that is not heard: all are errors
PostFails(t) ==
  /\ syncs[t].at = "post" /\ syncs[t].todo # {}
  /\ \/ remote' = remote \cup {Oldest(syncs[t].todo)}
     \/ UNCHANGED remote
  /\ Answered(t, "error")
  /\ UNCHANGED <<syncOf, wanted, undelayed, flagged, toggles, marked, short, requests, unlucky>>

\* (mutant) a frame that cannot be sent keeps its mark
Outcome_Left(f, a) == IF a = "error" THEN syncOf[f] ELSE a
\* A frame that is gone stays gone: update_one matches nothing
Outcome(f, a) == IF syncOf[f] = "absent" THEN "absent" ELSE a
WriteStatus(t) ==
  /\ syncs[t].at = "write"
  /\ LET f == Oldest(syncs[t].todo)
     IN syncOf' = [syncOf EXCEPT ![f] = Outcome(f, syncs[t].answer)]
  /\ syncs' = [syncs EXCEPT ![t] =
                 [at |-> "post", todo |-> @.todo \ {Oldest(@.todo)}, answer |-> "none"]]
  /\ UNCHANGED <<wanted, undelayed, remote, flagged, toggles, marked, short, requests, unlucky>>
EndSync(t) ==
  /\ syncs[t].at = "post" /\ syncs[t].todo = {}
  /\ syncs' = [syncs EXCEPT ![t] = NoSync]
  /\ UNCHANGED <<syncOf, wanted, undelayed, remote, flagged, toggles, marked, short, requests, unlucky>>
\* A worker that ends has not acknowledged its task, which is delivered again; if only
\* the process of the task dies, the task counts as failed and is gone
WorkerEnds(t) ==
  /\ syncs[t].at \in {"post", "write"} /\ unlucky < MaxUnlucky
  /\ unlucky' = unlucky + 1
  /\ \/ /\ syncs' = [syncs EXCEPT ![t] = [NoSync EXCEPT !.at = "queued"]]
        /\ UNCHANGED short
     \/ /\ syncs' = [syncs EXCEPT ![t] = NoSync]
        /\ short' = TRUE
  /\ UNCHANGED <<syncOf, wanted, undelayed, remote, flagged, toggles, marked, requests>>

-------------------------------------------------------------------------------
(* Flags *)

ReadFlag(d) ==
  /\ requests < MaxRequests
  /\ requests' = requests + 1
  /\ toggles' = toggles \cup {[det |-> d, to |-> d \notin flagged]}
  /\ UNCHANGED <<syncOf, wanted, undelayed, syncs, remote, flagged, marked, short, unlucky>>
WriteFlag ==
  /\ \E g \in toggles :
       /\ toggles' = toggles \ {g}
       /\ flagged' = IF g.to THEN flagged \cup {g.det} ELSE flagged \ {g.det}
  /\ UNCHANGED <<syncOf, wanted, undelayed, syncs, remote, marked, short, requests, unlucky>>
SetFlags(S) ==
  /\ requests < MaxRequests
  /\ requests' = requests + 1
  /\ \/ flagged' = flagged \cup S
     \/ flagged' = flagged \ S
  /\ UNCHANGED <<syncOf, wanted, undelayed, syncs, remote, toggles, marked, short, unlucky>>
\* All that is flagged, or the detections the request names, flagged or not
UploadFlagged(S) ==
  /\ S # {}
  /\ Asks
  /\ marked' = marked \cup S
  /\ UNCHANGED <<syncOf, wanted, syncs, remote, flagged, toggles, short, unlucky>>

DatasetNext ==
  \/ \E f \in Frames : AddDatasetFrame(f)
  \/ \E S \in SUBSET Frames : RemoveFrames(S) \/ RequestUpload(S) \/ RequestAcross(S)
  \/ RequestSync \/ Delay
  \/ \E t \in Syncs :
       \/ BeginSync(t) \/ SkipSync(t) \/ PostAccepted(t) \/ PostFails(t)
       \/ WriteStatus(t) \/ EndSync(t) \/ WorkerEnds(t)
  \/ \E d \in Flaggable : ReadFlag(d)
  \/ WriteFlag
  \/ \E S \in SUBSET Flaggable : SetFlags(S) \/ UploadFlagged(S)
DatasetSpec == DatasetInit /\ [][DatasetNext]_datasetVars

-------------------------------------------------------------------------------
(* Properties *)

NoTask == undelayed = 0 /\ \A t \in Syncs : syncs[t].at = "none"

\* However requests, tasks, deletions and dead workers overlap, a frame that is marked
\* as synced is at Roboflow, and once no task is left every frame whose upload a user of
\* its organisation requested last has its outcome, unless a dispatch failed, a task was
\* lost or skipped for want of settings, or more frames waited than a task takes.
RequestsAreServed ==
  /\ \A f \in Frames : syncOf[f] = "synced" => f \in remote
  /\ NoTask /\ ~short => \A f \in wanted : syncOf[f] # "not_sent"

===============================================================================
