----------------------------- MODULE CloudDetection -----------------------------
(***************************************************************************)
(* Detection in the cloud: one frame of a camera is captured, inferred,    *)
(* validated by the four layers of services/validation_pipeline.py, logged *)
(* and, when it is wet, reported as an incident.  A user starts one        *)
(* (services/detection_service.py) or a Celery task does                   *)
(* (workers/detection_worker.py), which "start continuous detection" of    *)
(* routers/detection.py queues once for each camera.                       *)
(*                                                                         *)
(* What the model sees in a frame is one bit: water that passes the alert  *)
(* classes, their overrides and layers 1 and 2.  So is layer 4, and        *)
(* whether the settings in force enable layer 3.  The document that says   *)
(* the continuous detection is running is left out: nothing acts on it.    *)
(***************************************************************************)
EXTENDS Naturals, Sequences, FiniteSets

CONSTANTS
  Streams,    \* cameras whose inference_mode is not "edge"
  Runs,       \* detections that can be under way at a time
  VotesK,     \* layer3_k
  VotesM,     \* layer3_m
  MaxLogs,    \* bound on the detections logged for a camera
  MaxStarts,  \* bound on starts of the continuous detection
  MaxSeconds, \* bound on the seconds that pass
  MaxBreaks   \* bound on reports that fail and processes that die

ASSUME CloudDetectionAssumption ==
  /\ {VotesK, VotesM, MaxLogs, MaxStarts, MaxSeconds, MaxBreaks} \subseteq Nat
  /\ VotesK <= VotesM
  /\ Streams # {} /\ IsFiniteSet(Runs)

VARIABLES
  logs,     \* detection_logs of each camera, oldest first
  run,      \* what each detection is doing
  waiting,  \* tasks queued for each camera
  starts,   \* how often the continuous detection was started
  second,   \* the clock the idempotency key is made of
  counted,  \* detections added to the incidents of each camera
  cutOff,   \* wet logs of each camera whose report was cut off or, by the settings,
            \* made no incident
  breaks

detectionVars == <<logs, run, waiting, starts, second, counted, cutOff, breaks>>

NoKey == MaxSeconds + 1        \* a user's detection has no idempotency_key
NoRun == [at |-> "idle", cam |-> CHOOSE c \in Streams : TRUE, task |-> FALSE,
          saw |-> FALSE, by |-> 0, key |-> NoKey, entry |-> 0]
WaterSeen == BOOLEAN           \* what the model makes of a frame
Verdicts == {0, 3, 4, 5}       \* dry, held back by layer 3 or by layer 4, wet

DetectionTypeOK ==
  /\ \A c \in Streams : Len(logs[c]) <= MaxLogs
  /\ \A c \in Streams : \A i \in DOMAIN logs[c] :
       logs[c][i] \in [saw : BOOLEAN, by : Verdicts, linked : BOOLEAN, key : 0 .. NoKey]
  /\ run \in [Runs -> [at : {"idle", "framed", "validated", "new", "wet", "counted"},
                       cam : Streams, task : BOOLEAN, saw : BOOLEAN, by : Verdicts,
                       key : 0 .. NoKey, entry : 0 .. MaxLogs]]
  /\ waiting \in [Streams -> 0 .. MaxStarts + MaxBreaks]
  /\ starts \in 0 .. MaxStarts /\ second \in 0 .. MaxSeconds
  /\ counted \in [Streams -> 0 .. MaxLogs] /\ cutOff \in [Streams -> Nat]
  /\ breaks \in 0 .. MaxBreaks

DetectionInit ==
  /\ logs = [c \in Streams |-> <<>>]
  /\ run = [r \in Runs |-> NoRun]
  /\ waiting = [c \in Streams |-> 0]
  /\ starts = 0 /\ second = 0
  /\ counted = [c \in Streams |-> 0] /\ cutOff = [c \in Streams |-> 0]
  /\ breaks = 0

SecondPasses ==
  /\ second < MaxSeconds
  /\ second' = second + 1
  /\ UNCHANGED <<logs, run, waiting, starts, counted, cutOff, breaks>>

\* One task for each camera of the list; the broker may fail on the way, which is
\* only logged.  Stopping it leaves the tasks alone.
StartContinuous ==
  /\ starts < MaxStarts
  /\ starts' = starts + 1
  /\ \E queued \in SUBSET Streams :
       waiting' = [c \in Streams |-> waiting[c] + IF c \in queued THEN 1 ELSE 0]
  /\ UNCHANGED <<logs, run, second, counted, cutOff, breaks>>

-------------------------------------------------------------------------------
(* One detection *)

Framed(c, task, sees) == [NoRun EXCEPT !.at = "framed", !.cam = c, !.task = task, !.saw = sees]

BeginManual(r, c) ==
  /\ run[r].at = "idle"
  /\ \E sees \in WaterSeen : run' = [run EXCEPT ![r] = Framed(c, FALSE, sees)]
  /\ UNCHANGED <<logs, waiting, starts, second, counted, cutOff, breaks>>

\* The task ends at once for a camera that is gone or has changed to the edge, and
\* when the stream or the model fails: there is no retry
BeginTask(r, c) ==
  /\ run[r].at = "idle" /\ waiting[c] > 0
  /\ waiting' = [waiting EXCEPT ![c] = @ - 1]
  /\ run' \in {run} \cup { [run EXCEPT ![r] = Framed(c, TRUE, sees)] : sees \in WaterSeen }
  /\ UNCHANGED <<logs, starts, second, counted, cutOff, breaks>>

\* The last M detections that are stored: the one being validated is not among them
Recent(c) == { i \in DOMAIN logs[c] : i + VotesM > Len(logs[c]) }
Voted(c) == Cardinality({ i \in Recent(c) : logs[c][i].by = 5 }) >= VotesK
\* Layer 4, when it is enabled and there is a dry reference to compare the frame with
DryReferenceSays == {4, 5}
\* Layer 3 comes first, when it is enabled
LayersSay(r) ==
  CASE ~run[r].saw                       -> {0}
    [] run[r].saw /\ Voted(run[r].cam)  -> DryReferenceSays
    [] run[r].saw /\ ~Voted(run[r].cam) -> {3} \cup DryReferenceSays
Validate(r) ==
  /\ run[r].at = "framed"
  /\ \E by \in LayersSay(r) : run' = [run EXCEPT ![r].at = "validated", ![r].by = by]
  /\ UNCHANGED <<logs, waiting, starts, second, counted, cutOff, breaks>>

\* The key is the camera, what was seen, and the second; a user's detection has none
KeyOf(r) == IF run[r].task THEN second ELSE NoKey
Repeats(r, key) == key # NoKey /\ \E i \in DOMAIN logs[run[r].cam] :
  logs[run[r].cam][i].key = key /\ logs[run[r].cam][i].saw = run[r].saw
CheckKey(r) ==
  /\ run[r].at = "validated"
  /\ run' = [run EXCEPT ![r] = IF Repeats(r, KeyOf(r)) THEN NoRun
                               ELSE [@ EXCEPT !.at = "new", !.key = KeyOf(r)]]
  /\ UNCHANGED <<logs, waiting, starts, second, counted, cutOff, breaks>>

\* Of two tasks that found no log with their key the second is refused by the
\* unique index, and ends
Entry(r) == [saw |-> run[r].saw, by |-> run[r].by, linked |-> FALSE,
             key |-> run[r].key]
StoreLog(r) ==
  LET me == run[r] IN
  /\ me.at = "new" /\ Len(logs[me.cam]) < MaxLogs
  /\ IF Repeats(r, me.key)
     THEN run' = [run EXCEPT ![r] = NoRun] /\ UNCHANGED logs
     ELSE /\ logs' = [logs EXCEPT ![me.cam] = Append(@, Entry(r))]
          /\ run' = [run EXCEPT ![r] =
               IF me.by = 5 THEN [me EXCEPT !.at = "wet", !.entry = Len(logs[me.cam]) + 1]
               ELSE NoRun]
  /\ UNCHANGED <<waiting, starts, second, counted, cutOff, breaks>>

\* create_or_update_incident; what it raises ends the detection
ReportWet(r) ==
  /\ run[r].at = "wet"
  /\ counted' = [counted EXCEPT ![run[r].cam] = @ + 1]
  /\ run' = [run EXCEPT ![r].at = "counted"]
  /\ UNCHANGED <<logs, waiting, starts, second, cutOff, breaks>>
ReportFails(r) ==
  /\ run[r].at = "wet" /\ breaks < MaxBreaks
  /\ breaks' = breaks + 1
  /\ cutOff' = [cutOff EXCEPT ![run[r].cam] = @ + 1]
  /\ run' = [run EXCEPT ![r] = NoRun]
  /\ UNCHANGED <<logs, waiting, starts, second, counted>>
\* It returns None: the settings of the camera or of the class create no incident, or
\* none of this severity, and the log stays without one
ReportLeftOut(r) ==
  /\ run[r].at = "wet"
  /\ cutOff' = [cutOff EXCEPT ![run[r].cam] = @ + 1]
  /\ run' = [run EXCEPT ![r] = NoRun]
  /\ UNCHANGED <<logs, waiting, starts, second, counted, breaks>>
\* (mutant) what a run finds belongs to the newest entry of its camera
OwnEntry_Newest(r) == Len(logs[run[r].cam])
OwnEntry(r) == run[r].entry
LinkLog(r) ==
  /\ run[r].at = "counted"
  /\ logs' = [logs EXCEPT ![run[r].cam][OwnEntry(r)].linked = TRUE]
  /\ run' = [run EXCEPT ![r] = NoRun]
  /\ UNCHANGED <<waiting, starts, second, counted, cutOff, breaks>>

\* The process dies; task_acks_late gives the task to another worker
RunDies(r) ==
  LET me == run[r] IN
  /\ me.at # "idle" /\ breaks < MaxBreaks
  /\ breaks' = breaks + 1
  /\ cutOff' = [cutOff EXCEPT ![me.cam] = @ + IF me.at \in {"wet", "counted"} THEN 1 ELSE 0]
  /\ waiting' = [waiting EXCEPT ![me.cam] = @ + IF me.task THEN 1 ELSE 0]
  /\ run' = [run EXCEPT ![r] = NoRun]
  /\ UNCHANGED <<logs, starts, second, counted>>

DetectionStep(r) ==
  \/ \E c \in Streams : BeginManual(r, c) \/ BeginTask(r, c)
  \/ Validate(r) \/ CheckKey(r) \/ StoreLog(r)
  \/ ReportWet(r) \/ ReportFails(r) \/ ReportLeftOut(r) \/ LinkLog(r) \/ RunDies(r)
DetectionNext == SecondPasses \/ StartContinuous \/ \E r \in Runs : DetectionStep(r)

DetectionSpec == DetectionInit /\ [][DetectionNext]_detectionVars

-------------------------------------------------------------------------------
(* Properties *)

Of(c, at) == Cardinality({ r \in Runs : run[r].cam = c /\ run[r].at = at })

\* Every wet detection that is logged is counted in an incident and its log linked
\* to it, but for those under way, those whose report failed or whose process died in
\* between, and those the settings make no incident of; and every link has its count.
WetIsReported == \A c \in Streams :
  LET wet == { i \in DOMAIN logs[c] : logs[c][i].by = 5 }
      linked == { i \in DOMAIN logs[c] : logs[c][i].linked }
  IN /\ Cardinality(wet \ linked) = Of(c, "wet") + Of(c, "counted") + cutOff[c]
     /\ linked \subseteq wet
     /\ counted[c] >= Cardinality(linked) + Of(c, "counted")

\* "Layer 3 - K-of-M Frame Voting: require K wet results in last M frames"
\* (services/validation_pipeline.py): a frame with water is held back for want of
\* votes only if fewer than K of the M frames before it had water.
HeldBackLacksWater == \A c \in Streams : \A i \in DOMAIN logs[c] :
  logs[c][i].by = 3 => Cardinality({ j \in 1 .. i - 1 : j + VotesM >= i /\ logs[c][j].saw }) < VotesK
===============================================================================
