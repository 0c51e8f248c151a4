----------------------------- MODULE LearningFrames -----------------------------
(***************************************************************************)
(* The frames of one organisation's learning set: workers/                 *)
(* learning_worker.py captures the frame of each detection at most once    *)
(* and up to a daily limit, and imports the images a deployed Roboflow     *)
(* model was trained on; routers/learning.py takes uploads, assigns splits *)
(* and tags dataset versions.  Tasks are acknowledged late, so one whose   *)
(* worker dies comes again.  Frames of one source are treated alike.       *)
(***************************************************************************)
EXTENDS Naturals, Sequences, FiniteSets

CONSTANTS
  Detections,  \* detections of one day
  Images,      \* training images of the Roboflow version in use
  Uploaded,    \* images users may upload
  Imports,     \* imports of that version that may be queued
  Capturers,   \* worker processes
  DailyLimit,  \* capture_max_daily, or the storage quota if that is less
  MinSplit,    \* unassigned frames auto-split asks for (3 in the code)
  MaxVersions, \* bound on dataset versions
  MaxKills     \* bound on workers that die

ASSUME LearningAssumption ==
  /\ {DailyLimit, MinSplit, MaxVersions, MaxKills} \subseteq Nat
  /\ IsFiniteSet(Detections) /\ IsFiniteSet(Images) /\ IsFiniteSet(Uploaded)
  /\ IsFiniteSet(Imports) /\ Imports # {}
  /\ IsFiniteSet(Capturers) /\ Capturers # {} /\ Detections # {}
  /\ Detections \cap (Images \cup Uploaded) = {} /\ Images \cap Uploaded = {}

VARIABLES
  captures,  \* the capture task of each detection
  logged,    \* db.learning_capture_log, of detections
  imports,   \* the import tasks
  imported,  \* db.learning_capture_log has the Roboflow version
  crossed,   \* an import was begun beside another one, or delivered again
  frames,    \* db.learning_frames: how many of each source
  split,     \* sources whose frames have a split
  version,   \* the dataset version each is tagged with, or 0
  capturer,  \* what each worker is doing
  datasets,  \* db.learning_dataset_versions: their frame_count
  tagging,   \* a version is recorded and its frames are still to be tagged
  kills

importVars == <<imports, imported, crossed>>
learningVars ==
  <<captures, logged, importVars, frames, split, version, capturer, datasets, tagging, kills>>

Sources == Detections \cup Images \cup Uploaded
NoImport == [at |-> "none", todo |-> {}]
Resting == [at |-> "idle", of |-> CHOOSE d \in Detections : TRUE]
Held == {d \in Sources : frames[d] > 0}
\* The documents of these sources, those of one source numbered
DocsOf(S) == UNION { {d} \X (1 .. frames[d]) : d \in S }
FramesOf(S) == Cardinality(DocsOf(S))

LearningTypeOK ==
  /\ captures \in [Detections -> {"none", "queued", "taken", "over"}]
  /\ logged \subseteq Detections
  /\ imports \in [Imports -> [at : {"none", "queued", "images", "over"}, todo : SUBSET Images]]
  /\ imported \in BOOLEAN /\ crossed \in BOOLEAN
  /\ frames \in [Sources -> 0 .. Cardinality(Imports) + MaxKills]
  /\ split \subseteq Held
  /\ version \in [Sources -> 0 .. MaxVersions]
  /\ capturer \in [Capturers -> [at : {"idle", "log", "limit", "copy"}, of : Detections]]
  /\ Len(datasets) <= MaxVersions
  /\ tagging \in BOOLEAN
  /\ kills \in 0 .. MaxKills

LearningInit ==
  /\ captures = [d \in Detections |-> "none"]
  /\ logged = {} /\ split = {}
  /\ imports = [i \in Imports |-> NoImport] /\ imported = FALSE /\ crossed = FALSE
  /\ frames = [d \in Sources |-> 0]
  /\ version = [d \in Sources |-> 0]
  /\ capturer = [w \in Capturers |-> Resting]
  /\ datasets = <<>> /\ tagging = FALSE /\ kills = 0

-------------------------------------------------------------------------------
(* capture_detection *)

\* Every detection of the cloud queues one; fire and forget
Detect(d) ==
  /\ captures[d] = "none"
  /\ captures' = [captures EXCEPT ![d] = "queued"]
  /\ UNCHANGED <<logged, importVars, frames, split, version, capturer, datasets, tagging, kills>>
Take(w, d) ==
  /\ capturer[w].at = "idle" /\ captures[d] = "queued"
  /\ captures' = [captures EXCEPT ![d] = "taken"]
  /\ capturer' = [capturer EXCEPT ![w] = [at |-> "log", of |-> d]]
  /\ UNCHANGED <<logged, importVars, frames, split, version, datasets, tagging, kills>>

\* The task is over, well or not: errors are logged, never tried again
Ack(w) ==
  /\ captures' = [captures EXCEPT ![capturer[w].of] = "over"]
  /\ capturer' = [capturer EXCEPT ![w] = Resting]
Goes(w, at) ==
  /\ capturer' = [capturer EXCEPT ![w].at = at]
  /\ UNCHANGED captures

\* (mutant) whether the capture is in the log already is not looked at
TryLog_Always(w) ==
  /\ capturer[w].at = "log"
  /\ logged' = logged \cup {capturer[w].of}
  /\ Goes(w, "limit")
  /\ UNCHANGED <<importVars, frames, split, version, datasets, tagging, kills>>
\* The upsert tells whether this call was the first
TryLog(w) ==
  /\ capturer[w].at = "log"
  /\ logged' = logged \cup {capturer[w].of}
  /\ IF capturer[w].of \in logged THEN Ack(w) ELSE Goes(w, "limit")
  /\ UNCHANGED <<importVars, frames, split, version, datasets, tagging, kills>>

FrameCount == FramesOf(Sources)
CheckLimit(w) ==
  /\ capturer[w].at = "limit"
  /\ IF FrameCount < DailyLimit THEN Goes(w, "copy") ELSE Ack(w)
  /\ UNCHANGED <<logged, importVars, frames, split, version, datasets, tagging, kills>>
\* Sampled out, below the confidence, not wet, or an error
Drop(w) ==
  /\ capturer[w].at \in {"log", "copy"}
  /\ Ack(w)
  /\ UNCHANGED <<logged, importVars, frames, split, version, datasets, tagging, kills>>
\* The image is copied and the document inserted, without its image if the copy failed
InsertFrame(w) ==
  /\ capturer[w].at = "copy"
  /\ frames' = [frames EXCEPT ![capturer[w].of] = @ + 1]
  /\ Ack(w)
  /\ UNCHANGED <<logged, importVars, split, version, datasets, tagging, kills>>
\* The worker dies before the acknowledgement: the task is delivered again
CapturerDies(w) ==
  /\ capturer[w].at # "idle" /\ kills < MaxKills
  /\ kills' = kills + 1
  /\ captures' = [captures EXCEPT ![capturer[w].of] = "queued"]
  /\ capturer' = [capturer EXCEPT ![w] = Resting]
  /\ UNCHANGED <<logged, importVars, frames, split, version, datasets, tagging>>
\* ... or after the insert
CapturerDiesLate(w) ==
  /\ capturer[w].at = "copy" /\ kills < MaxKills
  /\ kills' = kills + 1
  /\ frames' = [frames EXCEPT ![capturer[w].of] = @ + 1]
  /\ captures' = [captures EXCEPT ![capturer[w].of] = "queued"]
  /\ capturer' = [capturer EXCEPT ![w] = Resting]
  /\ UNCHANGED <<logged, importVars, split, version, datasets, tagging>>

-------------------------------------------------------------------------------
(* capture_roboflow_dataset, and uploads *)

captureVars == <<captures, logged, capturer>>

\* A model of the version was selected
QueueImport(i) ==
  /\ imports[i].at = "none"
  /\ imports' = [imports EXCEPT ![i].at = "queued"]
  /\ UNCHANGED <<captureVars, imported, crossed, frames, split, version, datasets, tagging, kills>>
BeginImport(i) ==
  /\ imports[i].at = "queued"
  /\ imports' = [imports EXCEPT ![i] = IF imported THEN [NoImport EXCEPT !.at = "over"]
                                      ELSE [at |-> "images", todo |-> Images]]
  /\ crossed' = (crossed \/ (~imported /\ \E j \in Imports : imports[j].at = "images"))
  /\ UNCHANGED <<captureVars, imported, frames, split, version, datasets, tagging, kills>>
\* No credentials, no export, no zip or no S3: the version counts as captured all the same
NoExport(i) ==
  /\ imports[i] = [at |-> "images", todo |-> Images]
  /\ imports' = [imports EXCEPT ![i].todo = {}]
  /\ UNCHANGED <<captureVars, imported, crossed, frames, split, version, datasets, tagging, kills>>
\* One image, with the split it has at Roboflow; one that raises is left out
ImportImage(i, f) ==
  /\ imports[i].at = "images" /\ f \in imports[i].todo
  /\ imports' = [imports EXCEPT ![i].todo = @ \ {f}]
  /\ \/ /\ frames' = [frames EXCEPT ![f] = @ + 1]
        /\ split' = split \cup {f}
     \/ UNCHANGED <<frames, split>>
  /\ UNCHANGED <<captureVars, imported, crossed, version, datasets, tagging, kills>>
EndImport(i) ==
  /\ imports[i] = [at |-> "images", todo |-> {}]
  /\ imports' = [imports EXCEPT ![i].at = "over"]
  /\ imported' = TRUE
  /\ UNCHANGED <<captureVars, crossed, frames, split, version, datasets, tagging, kills>>
ImporterDies(i) ==
  /\ imports[i].at = "images" /\ kills < MaxKills
  /\ kills' = kills + 1
  /\ imports' = [imports EXCEPT ![i] = [NoImport EXCEPT !.at = "queued"]]
  /\ crossed' = TRUE
  /\ UNCHANGED <<captureVars, imported, frames, split, version, datasets, tagging>>

\* routers/learning.py: no limit is looked at
UploadFrame(f) ==
  /\ frames[f] = 0
  /\ frames' = [frames EXCEPT ![f] = 1]
  /\ split' \in {split, split \cup {f}}
  /\ UNCHANGED <<captureVars, importVars, version, datasets, tagging, kills>>

-------------------------------------------------------------------------------
(* Splits and dataset versions *)

\* auto_split_dataset: every frame without a split gets one
AutoSplit ==
  /\ FramesOf(Held \ split) >= MinSplit
  /\ split' = Held
  /\ UNCHANGED <<captures, logged, importVars, frames, version, capturer, datasets, tagging, kills>>
\* update_frame and bulk_update_frames set the split of a frame, or take it away
SetSplit(d) ==
  /\ d \in Held
  /\ split' = IF d \in split THEN split \ {d} ELSE split \cup {d}
  /\ UNCHANGED <<captures, logged, importVars, frames, version, capturer, datasets, tagging, kills>>
DeleteFrame(d) ==
  /\ d \in Held
  /\ frames' = [frames EXCEPT ![d] = 0]
  /\ split' = split \ {d}
  /\ version' = [version EXCEPT ![d] = 0]
  /\ UNCHANGED <<captures, logged, importVars, capturer, datasets, tagging, kills>>

\* create_dataset_version counts and records ...
RecordVersion ==
  /\ ~tagging /\ Len(datasets) < MaxVersions
  /\ datasets' = Append(datasets, FramesOf(split))
  /\ tagging' = TRUE
  /\ UNCHANGED <<captures, logged, importVars, frames, split, version, capturer, kills>>
\* ... then tags the frames that have no version yet
TagFrames ==
  /\ tagging /\ tagging' = FALSE
  /\ version' = [d \in Sources |->
       IF d \in split /\ version[d] = 0 THEN Len(datasets) ELSE version[d]]
  /\ UNCHANGED <<captures, logged, importVars, frames, split, capturer, datasets, kills>>

LearningNext ==
  \/ \E d \in Detections :
       \/ Detect(d)
       \/ \E w \in Capturers : Take(w, d)
  \/ \E w \in Capturers :
       TryLog(w) \/ CheckLimit(w) \/ Drop(w) \/ InsertFrame(w) \/ CapturerDies(w) \/ CapturerDiesLate(w)
  \/ \E i \in Imports :
       \/ QueueImport(i) \/ BeginImport(i) \/ NoExport(i) \/ EndImport(i) \/ ImporterDies(i)
       \/ \E f \in Images : ImportImage(i, f)
  \/ \E f \in Uploaded : UploadFrame(f)
  \/ \E f \in Sources : SetSplit(f) \/ DeleteFrame(f)
  \/ AutoSplit \/ RecordVersion \/ TagFrames

LearningSpec == LearningInit /\ [][LearningNext]_learningVars
-------------------------------------------------------------------------------
(* Properties *)

\* However often a capture is delivered and whatever died half-way, a detection has
\* one frame at most; an image is imported once, however often the version is selected,
\* unless imports of it overlap or are delivered again; and concurrent captures exceed
\* the daily limit by no more than the workers that had passed the check.
NoFrameTooMany ==
  /\ \A d \in Detections : frames[d] <= 1
  /\ ~crossed => \A f \in Images : frames[f] <= 1
  /\ FramesOf(Detections) + Cardinality({w \in Capturers : capturer[w].at = "copy"})
       <= DailyLimit + Cardinality(Capturers) - 1
===============================================================================
