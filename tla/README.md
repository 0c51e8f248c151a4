# FloorEye: specifications and proofs

FloorEye watches shop floors for spills. An *edge agent* in each store reads
cameras, runs a model on the frames, decides what is an alert, switches warning
devices and keeps a local record; a *cloud backend* (FastAPI, MongoDB, Celery,
Redis) receives detections and incidents from all stores, notifies people and
manages models, configurations and agents. This directory holds TLA+
specifications of the parts of that system where the order of events decides
whether an incident is reported once, several times or never, the TLC runs that
check them on small instances, and theorems checked by TLAPS.

Everything is translated from the source at this commit. `PROJECT.json` names
for each definition the lines it stands for.

## 1. Inventory

### 1.1 Edge agent (`src/edge-agent/agent`)

| component | state it keeps | operations | talks to |
|---|---|---|---|
| capture (`capture.py`) | latest frame slot per camera, connection | capture thread, read, reconnect with back-off | camera loops |
| validator (`validator.py`) | per camera the last 20 accepted frames, dry reference, settings | `validate` | camera loops |
| camera loops (`main.py`) | status per camera, device states | read, infer, validate, upload, clip, incident, trigger, buffer | all below |
| uploader, failover (`uploader.py`, `config.py`) | upload times, 422 counters and back-off per camera; failure count and active URL for the whole process | `upload_detection` with retries | cloud `/edge/frame`, `/edge/detection` |
| frame buffer (`buffer.py`) | a list in Redis, counters | `push` with eviction, `pop`, flush loop | uploader |
| incident store (`incident_db.py`, `incident_manager.py`) | SQLite table of incidents | group or open, status change, auto-close, clean up, mark synced | sync loop, config receiver |
| sync (`sync_manager.py`) | one outstanding request | post a batch, mark the confirmed rows | cloud `/edge/sync/incidents` |
| command poller (`command_poller.py`) | none of its own | poll, execute, acknowledge, restart | cloud command queue |
| config receiver, local config (`config_receiver.py`, `local_config.py`) | JSON files | receive camera configuration, control a device, acknowledge or resolve an alert | validator settings, devices, incident store |
| devices (`device_controller.py`, `device_manager.py`) | auto-off timers, failure counts | turn on, turn off, report | camera loops, heartbeat |
| alert log, log shipper | bounded lists | append, rotate, mark synced | heartbeat |
| clip recorder, annotator, web page | recordings in progress | record, draw, show | camera loops |
| inference server | loaded session and its predecessor | infer, load, swap, roll back | camera loops, command poller |
| supervisor, heartbeat (`main.py`) | task table | restart tasks, report | everything |

### 1.2 Cloud backend (`src/backend/app`)

| component | state it keeps | operations |
|---|---|---|
| edge API (`routers/edge.py`) | collections `detection_logs`, `events` | intake of frames and detections, sync of incidents, commands, heartbeat |
| incidents (`incident_service.py`, `incident_worker.py`) | collection `events` | group or open, acknowledge, resolve, auto-close |
| agents and commands (`edge_service.py`) | collections `edge_agents`, `edge_commands` | provision, heartbeat, queue, acknowledge and retry commands, mark stale agents offline |
| configuration push (`edge_camera_service.py`) | `config_version` and push status per camera | assemble, push directly, fall back to a command |
| rollout and OTA (`ota_worker.py`) | progress of a rollout | update one agent after the other |
| model registry (`model_service.py`) | status of each model version | create, promote, retire, deploy |
| learning and training (`training_worker.py`, `learning_worker.py`) | training jobs, datasets | capture, train, evaluate, auto-train |
| cloud detection (`detection_service.py`, `validation_pipeline.py`, `detection_worker.py`) | detection logs, cool-downs in Redis | detect, validate, escalate |
| detection control (`detection_control_service.py`) | settings per scope, cache in Redis | upsert, delete, resolve by inheritance |
| notifications (`notification_service.py`, `notification_worker.py`, `dead_letter.py`) | rules, deliveries, circuit breakers, dead letters | dispatch, send, retry, replay |
| authentication (`auth_service.py`) | users, login counters | login, refresh, lock |
| stores, cameras, devices, clips, datasets, reports, integrations, logs | single documents | create, read, update, delete |

The front ends (`src/web`, `src/mobile`), the design exports (`src/stitch`) and
the deployment files hold no logic of the system's own and are left aside.

### 1.3 What is hard here

* **Concurrency without locks.** The agent is one asyncio loop with a task per
  camera and a dozen periodic loops; the cloud runs many handlers and workers on
  one MongoDB. A task is uninterrupted between two awaits, and state that was
  read before an await is used after it all over the code.
* **An unreliable link.** Requests, answers and acknowledgements get lost or late;
  retries repeat what may already be done, and may overtake it.
* **Restarts.** SQLite and Redis survive a restart of the agent, everything else
  is forgotten; commands may cause the restart.
* **Limits.** A history of 20 frames, a rate limit, a buffer with eviction, a
  retention limit, a log with rotation: each may drop what is still needed.
* **Swallowed errors.** Many steps sit in `try: ... except Exception: pass`, so a
  failing step is followed by the next one.

`PROJECT.json` lists the hazards one by one at the line where they bite, with the
properties that cover them.

### 1.4 What makes the components correct

* Incident store: one continuing spill is one incident.
* Sync: what the edge regards as delivered is in the cloud, once, with at least
  its detections; every incident arrives in the end.
* Cloud events: every detection is counted exactly once, in an event of its camera.
* Upload: a validated detection is stored, buffered, in hand, or dropped in a way
  the code intends; limits hold; the buffer drains; the URL changes for a reason.
* Validator: alerts are a cooldown apart as far as the history reaches; a lasting
  spill goes on being reported; an alert has its effects.
* Commands: they are executed in the order they were sent, and a failed one is
  repeated no more often than it may be; a rollout updates one store at a time.
* Configuration: what the cloud shows as received is what the edge runs with.
* Registration: no item is linked to a foreign document; every camera is linked.
* Agents: one that sends heartbeats is not shown offline, a dead one is.
* Camera workers: a configured camera is watched, a removed one is let go.
* Files and logs of the agent: a crash or a damaged file loses no more than the
  last write; no warning and no alert event vanishes.
* Models: what is promoted is what the registry, the agents and the cloud agree on;
  a swap never leaves the inference server without a model; the bytes registered
  for a version are those of the version.
* Cloud detection: every wet detection is counted in an incident and linked to it.
* Notifications: nobody is told twice of an incident within a window.
* Settings: the cache forgets what the documents no longer say.
* Learning and jobs: no frame twice, no more than the limit, no job for ever.

## 2. Modules

```
Common ── EdgeIncidents ─┬─ IncidentSync ──implements──> IncidentDelivery
       └─ CloudEvents ───┘
            └─ EventGrouping      uploads that overtake each other
FrameDelivery             uploads, failover, buffer, intake
AlertPipeline             validator and handling of an alert
CommandQueue ── StagedRollout
CameraConfig  Registration  AgentRegistry  DeviceControl        cloud <-> edge
CameraWorkers  ModelSwap  EdgeLogs  LocalFiles                  edge
CloudDetection  Notifications  DetectionControl  ModelRegistry
ModelPull  LearningFrames  TrainingJobs  DatasetSync  VideoJobs cloud
MC*.tla, *.cfg            instances for TLC
```

The theorems are in modules of their own:

| module | theorems about |
|---|---|
| `Incidents_proofs` | `EdgeIncidents`, `CloudEvents`, `EventGrouping` |
| `IncidentSync_proofs` | `IncidentSync`, `IncidentDelivery` |
| `AlertPipeline_proofs`, `FrameDelivery_proofs` | the module of that name |
| `CommandQueue_proofs` | `CommandQueue`, `StagedRollout`, `CameraConfig` |
| `EdgeAgent_proofs` | `ModelSwap`, `DeviceControl`, `LocalFiles`, `EdgeLogs`, and the sum `MCFleet` |
| `Registry_proofs` | `AgentRegistry`, `Registration`, `CameraWorkers`, `TrainingJobs`, `VideoJobs`, and the sum `MCLiveness` |
| `Cloud_proofs` | `ModelRegistry`, `ModelPull`, `Notifications`, `DetectionControl`, `CloudDetection`, `DatasetSync`, `LearningFrames`, and the sum `MCServices` |

`IncidentSync_proofs` and `Cloud_proofs` build on `Incidents_proofs`, `EdgeAgent_proofs`
on `CommandQueue_proofs`.

Every module has one action per step that nothing can interrupt: on the agent and
in an API process what lies between two awaits, in a thread or a Celery task what
lies between two operations on shared state. Bounds on what a behaviour may
contain (faults, restarts, requests) are constants named `Max...`.

### 2.1 Incidents

**Common.** The cameras, the ids of edge incidents and a coarse clock, shared by the
edge's table and the cloud's collection: the windows and deadlines of both sides
are compared with times on one clock, as the code compares UTC timestamps.

**EdgeIncidents.** `db` is the SQLite table, `used` the ids ever allocated. Every
function of `incident_db.py` runs under one lock and `create_or_update_incident`
has no await, so each is one action: `GroupDetection` and `OpenIncident` (the two
outcomes of `create_or_update_incident`), `UpdateStatus` (acknowledge and resolve
through the config receiver), `AutoCloseStale`, `Cleanup`, `MarkSynced`. Ids are
allocated in order of creation, so `ORDER BY created_at` is the order of ids.
Confidence, area and severity are left out.

**CloudEvents.** `events` is the collection; `upload` the state of the handler of
each detection that reaches `create_or_update_incident`; `closing` the list the
auto-close worker holds. A find and the write it leads to are two actions
(`FindOpenEvent`, then `UpdateEvent` or `InsertEvent`; `ListStale`, then
`AutoResolve`), because other handlers run in between. `AcknowledgeEvent` and
`ResolveEvent` do not look at the status, as in the code; a bulk request is a
sequence of them. The status "false_positive" is taken as "resolved". What the handler
reads of the settings is chosen when it reads it, for overrides of four scopes may change
at any time: whether the class of the detection joins events of its own class only
(`apart`, `Joinable`), and whether no event is made of it (`LeaveOut`: creation is off, for
all or for the class; `TooMild`: below the severity that creates one).

**EventGrouping** adds one history variable to it: `overtaken` are the handlers that have
found no event to join and, before they insert their own, are overtaken by another
event that opens on their camera and that they could have joined.

**IncidentSync** composes the two with the sync loop (`agent`, `by`) and the request
handlers of `POST /edge/sync/incidents` (`handler`). A handler keeps the batch as
it was sent, the ids it will confirm and, for the row at hand, the event it found
and the count it read; each awaited database operation is an action:
`FindByIncident`, `FindByWindow`, `LinkEvent`, `MergeEvent`, `InsertFromEdge`.
Faults: a request is lost (`PostLost`), the agent gives up while the handler runs
on (`GiveUp`), the answer is lost or the process dies (`Abort`), a database
operation raises where the code goes on with the row (`WindowLookupFails`,
`LinkFails`: `except Exception: pass`) or with the next row (`RowFails`).
`Handlers` is the number of requests of one agent the cloud may work on at once.

**IncidentDelivery** is the abstract specification of what synchronisation promises:
three sets, recorded, known and confirmed; an incident is confirmed only when it is
known, and what is known stays known. `IncidentSync` implements it under the
mapping `recorded <-` allocated ids, `known <-` incidents with an event (or merged
into one whose link raised), `confirmed <-` rows that are synced or deleted.

### 2.2 Frames and alerts

**FrameDelivery.** `task` holds for each camera task and the flush loop what it is
doing: an upload attempt on the URL that was active when the attempt began, the delay
before the next one, the capacity check, the eviction, the push, the pop. `queue` is the
Redis list and survives `Crash`. `recent`, `backoff`, `count422` are the uploader's
limits; `using`, `failCount` the failover counters, which `OtherCall` (the sync loop)
shares. `stored` is the cloud's side: `Intake` takes a frame that arrives in the same
second as another one of its idempotency key for a repeat of it, and `AccountedFor`
counts it as stored then, as the agent does. `gone` is a history of what the agent let
go of, and how. A Redis failure during push or pop may come before or after the command
was applied; `_safe_redis_op` then runs the whole operation once more. An answer that is
cut off (`httpx.RemoteProtocolError`, part of `ServerError`) is neither retried nor
counted by the failover.

**AlertPipeline.** `frames` is the validator's history of a camera, an entry being
whether the frame was wet and the age of its alert. `HoldBack` and `Confirm` are
the two outcomes of `validate`; the class overrides, layers 1 and 2 and the
comparison with the dry reference are one bit each of the frame. `UploadReturns`
is everything `threaded_camera_loop` does after the awaited upload: with
`AUTO_CLIP_ON_DETECTION` and a successful upload it ends in a `NameError`,
otherwise the trigger block runs, which ends in one too (`TriggerDevices`).
Between the two, settings are fetched (`SyncSettings`), configuration is pushed,
devices are controlled from the cloud, the agent restarts, time passes and the
floor changes. `batch_camera_loop` differs: it records incidents under the name of
the camera, writes no alert log, and awaits the uploads of a batch one after the
other; its validation and its trigger block are the same. `camera_loop` is dead.

### 2.3 Between cloud and edge

**CommandQueue.** `sent` is `edge_commands` in the order of `sent_at`, `agents` the
agents' documents, `record` what a document says of model and configuration; `fetched`
(the commands an agent holds, which it takes in the order of `sent_at`: `InHand`),
`waiting`, `exiting` are the poller, `applied` and `image` what took effect.
`SendCommand` with its four forms (`PushModel`, `PushUpdate`, `PushConfig`, any other),
`PushToFleet`/`PushNext` for pushes to all agents, `Poll`, `Execute`, `AckAnswered`,
`AckLost`, `WriteRecord` (the second write of `push_agent_config`), `DeleteAgent`,
`Exit` and `Crash`. An acknowledgement is a request of its own (`acks`), which
`ack_command` handles in steps with others in between: `Settle` writes the status,
`Requeue` queues a failed command again, `RecordModel` writes the model of a deployment.
None of them looks at what the status was, so every copy counts. When the agent stops
waiting (`AckLost`, or its process ends) the request or its answer was lost, or the
request is left behind (`LeftBehind`) and handled later. `belated` is a history of the
commands one of whose failures was handled after that. `words` are the words
acknowledgements use: the poller's, which the schema refuses, or those the schema
accepts, for what the code of the cloud does with an acknowledgement.

**StagedRollout** extends it with `staged_agent_rollout`: `SendUpdate` to the current
agent, `Look` at the acknowledgement and then at the reported version, and
`ReportVersion`, which agents do when they register. Because no command is ever
"completed" (see the findings), a rollout as the code stands ends with its first
agent in a time-out.

**CameraConfig.** `docs` are the versioned regions and dry references of a camera of
which one should be active, `camera` its document, `edge` the agent's files,
`request` what each request is doing: save, toggle, delete or push, each reading
and writing step by step (`Step`) up to the POST, which may fail before or after it
was handled (`PostFails`), or be answered with 200 and the status "failed" after the
agent has stored all of it, the references, or nothing (`PostRefused`). `Record` writes
the status of the answer. `overlapped` remembers that requests interleaved.

**Registration.** `local` and `link` are the agent's items, `docs` the cloud's;
`call` the registration the agent waits for and one it gave up on, `pending` and
`round` its retries, `starting` its start, `telling` and `dropping` what the cloud
still tells the edge. `Lookup` and `InsertDocument` of the cloud are two steps.

**AgentRegistry.** `doc` are the agents' documents with the age of their heartbeat,
`listed` the agents the health worker has listed: `ListSilent`, then `MarkOffline`
of each by its id alone, with heartbeats and registrations in between.

**DeviceControl.** `call` is a toggle in the cloud, `command` its command at the
edge: the controller tries up to three times (`AttemptFails`) while the cloud may
stop waiting (`ToggleTimesOut`); `ToggleAnswered` writes the status whatever the
answer says. The same command goes to the edge for a user who controls a device directly
(`AskDirectly`, `routers/edge_proxy.py`), and then no status is written at all
(`DirectlyAnswered`). An attempt that gets a reply counts as done whatever the reply is
(`AttemptWorks`): an error code or an empty reply is not read. Renames, deletion,
registration and triggers come in between.
`ShownAsHeard` says when the dashboard is right nevertheless: when the last toggle was
answered "ok", no other command was beside it, none came directly since (`heard`), and
the plug did not refuse in its reply (`refused`).

### 2.4 On the edge

**CameraWorkers.** `config` is `cameras.json`, `object` the capture objects, `loop`
and `batch` the loops, `capture` threads, stop event and connection of each object,
`background` the reconnect tasks of the batch loop. `SyncCameras` is one pass of
`dynamic_camera_sync_loop`, `Supervise` one look of the supervisor. `held` are the
cameras whose configuration keeps their loop from reading frames (detection paused, or
still waiting for it), which `Configure` changes at any time: such a loop sleeps and does not
notice that its stream is lost (`LoopLosesStream`), so `EveryCameraWatched` is about
cameras that are from some time on ready. A camera that is held back may stand without a
capture thread for as long as it is.

**ModelSwap.** The files, the session in use and the one kept to fall back on, the
class names, the sidecar files, the requests for a download (`fetch`) and the one
the agent waits for. `Downloaded`, `SwapBegins`, `SwapInstalls`, `SwapFails`,
`RestartServer`; `UpdateClasses`, `Infer` and `InferBatch` for what a frame becomes.

**EdgeLogs.** The log shipper's deque and the batch being posted, the file of the
alert log and the heartbeat that counts it and marks what it counted.

**LocalFiles.** A handler is a `plan` of writes; each goes through `BeginWrite`,
`BeginBackup`, `EndBackup`, `Replace`, and the process may end (`HandlerEnds`) or a
file be damaged (`DamageFile`) anywhere; `Restore` is the read that finds a damaged
file. `expected` is what a read may find.

### 2.5 In the cloud

**CloudDetection.** A detection is one run: framed, validated, the idempotency key
looked for, logged, reported, linked; users and queued tasks start them. What the
model sees is one bit, and so is layer 4; layer 3 counts the stored logs. A wet detection
of which the settings make no incident is logged and never linked (`ReportLeftOut`).

**Notifications.** A dispatch looks at the lock, finds rules, reads what was sent,
queues a task for each rule and records it as sent; workers carry out the tasks
with retries, the breaker and the dead letters.

**DetectionControl.** One setting with its documents per scope, the cache with its
time to live, and requests that interleave at each await; `Merge` overrides the
four layers of a camera one after the other, as the code's loop does, `Effective`
is the definition it is compared with.

**ModelRegistry.** A promotion is several writes (`RetireOthers`, `SetProduction`,
`Deploy`) that others come between or that end half-way; `LoadProduction` is the
cloud's process loading its model.

**ModelPull.** `cwd` is the current directory of the process, which a conversion
changes (`GetCwd`, `ChangeDir`, `Download`, `Leave`, `Convert`); a pull then
registers, brings classes and promotes.

**LearningFrames.** Captures with the log of captures and the daily limit, imports,
uploads, splits, and dataset versions recorded before their frames are tagged. Of
the frames of a source their number is kept, and which documents they are where
a step takes some of them.

**TrainingJobs.** Jobs, the broker's queue, the trainers and the automatic start,
with late acknowledgement, redelivery and the hard time limit. The write that marks a
job as failed may fail itself, which is swallowed (`FailureLost`); such jobs and those the
time limit kills are `abandoned`.

**DatasetSync.** Requests mark frames and queue tasks, tasks take a batch of the
waiting frames and, the oldest first, post and write the outcome of each; toggling
a flag is a read and a write. Without a Roboflow key, the default, or with a model id that
names no project a task ends before it looks for frames (`SkipSync`). A super
administrator's request marks frames of any organisation, and its task looks for
frames of none (`RequestAcross`): the frames wait for a task of someone else.

**VideoJobs.** A request stores the video and inserts its job; its asyncio task
samples frames and ends, raises, or is gone with its process. `sampled` is what it has
found: the number of frames and their stretches of wet and of dry ones. The code makes
the stretches of all frames at the end, the model lengthens them frame by frame.

## 3. Runs

Components that do not act on one another are checked in one run: `component`
chooses, in the initial state, the one that works in a behaviour, and the others
stay in an initial state. The runs therefore check each component for itself,
and the number of states is the sum and not the product.

| run | what works in it | properties | states |
|---|---|---|---|
| `incident_sync` | `IncidentSync` | `ConfirmedIsKnown`, `OneEventPerIncident`, `SyncedCountArrived`, `ImplementsDelivery` | 434,753 |
| `edge_live` | `AlertPipeline`; `IncidentSync` with its fairness | `LastAlertRemembered`, `AlertsApart`, `SpillReported`, `EveryIncidentArrives` | 162,811 |
| `frame_delivery` | `FrameDelivery` | `AccountedFor`, `WithinLimits`, `FailoverAfterStreak`, `BufferDrains` | 987,528 |
| `fleet` | `CommandQueue`, `StagedRollout`, `CameraConfig`, `DeviceControl`, `ModelSwap`, `EdgeLogs`, `LocalFiles` | `FleetTypes`, `RunsInOrder`, `RetriedOnce`, `OneStoreAtATime`, `AckedConfigInForce`, `ShownAsHeard`, `NeverUnloaded`, `NothingVanishes`, `FilesSurvive` | 1.22 million |
| `services` | `EventGrouping`, `EdgeIncidents`, `Notifications`, `DetectionControl`, `ModelRegistry`, `LearningFrames`, `CloudDetection`, `DatasetSync`, `ModelPull` | `ServiceTypes`, `EveryUploadCountedOnce`, `OneIncidentPerWindow`, `QuietWithinWindow`, `CacheCatchesUp`, `PromotionAgrees`, `NoFrameTooMany`, `WetIsReported`, `RequestsAreServed`, `LonePullIsRight`, `OnlyOvertakenSplit` | 1.01 million |
| `liveness` | `AgentRegistry`, `Registration`, `CameraWorkers`, `TrainingJobs`, `VideoJobs` | `NothingForgotten`, `BeatingIsOnline`, `LinksAreOwn`, `StatusFollowsProcess`, `EveryCameraLinked`, `EveryCameraWatched`, `RemovedIsReleased`, `EveryJobSettles` | 117,944 |
| `command_acks` | `CommandQueue` with the poller's words | `DeploymentIsRecorded` is violated | |
| `cloud_voting` | `CloudDetection` | `HeldBackLacksWater` is violated | |
| `edge_classes` | `ModelSwap` | `ClassesTakeEffect` is violated | |
| `model_pull` | `ModelPull` | `WeightsAreOfVersion` is violated | |
| `flush_loses_failed` | `FrameDelivery` | `FlushUploads` is violated | |
| `alert_devices` | `AlertPipeline` | `AlertTurnsDevicesOn` is violated | |

`FleetTypes` and `ServiceTypes` are the type invariant of the component at work.
`NothingForgotten` is the conjunction of those of the run's components, of
`UnlinkedInHand` (an item that is not linked is being registered, waits for its turn, or is
on a list of what failed) and of `VideosInHand` (a job that has not ended has its task at
a step that fits). The types of the other components are in no run, but are theorems.

### Bounds, and why they are enough to be interesting

* `incident_sync`: two incidents are the least with which a batch has a row that
  fails and one that does not, and with which an event could be merged into by the
  wrong row; two events let a duplicate exist. One fault is enough for each error
  path on its own. An upload that creates or joins an event and a clock that moves
  meet one incident (`TwoOrOther`), two incidents meet each other.
* `edge_live`: a history of three with windows of two and three frames, and with
  `m = 0` (which in Python takes the whole history), reaches every relation
  between the position of the last alert, the window and the cut; the settings
  differ in every field the layers look at. The synchronisation has one incident,
  one upload and one fault.
* `frame_delivery`: three frames with a capacity of one make every branch of the
  eviction happen, with the flush loop popping between the check and the eviction.
  An outage and one other fault give: an upload fails and Redis then breaks during
  its push; an answer is lost and its retry arrives after the switch of URLs; a
  restart with detections in hand and in the buffer.
* `fleet`, commands: three commands for one agent, batches of two, one retry, one
  lost or late acknowledgement and one crash: a command is handed out while an older one
  waits, fails, is repeated, and its acknowledgement is lost in between or handled
  after the next. Where the agent crashes or is deleted, two commands
  (`MaxBeforeEnd`). Rollout: two agents, two commands, so that a user's command comes
  between, and no acknowledgement lost. Configuration:
  two requests, two documents saved, one POST that fails or is refused, after which
  requests do not overlap any more. Devices: one plug, two
  callers of which one may ask directly (`OnlyToggles` never does), two attempts, one
  rename, a limit of one trigger. Swap: two models of which either may be bad,
  two downloads, one restart. Logs: a buffer of three, batches of two, a file of
  two events. Files: one camera and one device, one crash or damage.
* `services`, events: three detections, one of which is of a class that may be grouped
  separately and may be on the other camera, two ticks, one detection left out; users
  act on two of three events. Incidents: as before, on one camera; users act on the
  first two of three. Notifications: two overlapping dispatches, two tasks, two tries, a
  breaker that opens at two. Settings: two scopes, two requests, an entry that lives one
  tick, one request that finds Redis away. Models: two models, two promotions. Learning:
  four detections with a limit of two, the fourth after the others, so that two workers
  past the check exceed the limit; or two imports of an image. Detection: two detections
  at once, two logs, one failure; with two starts both tasks fall into one second, and
  neither process dies. Datasets: two frames, two tasks in batches of two, two requests,
  one failure. Pulls: two that overlap and one that comes when they are over.
* `liveness`: two agents and a silence of one tick; a camera and a device, one
  missed answer and one restart, which meet in behaviours without the device, as
  only cameras are retried; two camera names of which one gets a second URL,
  one lost stream and one ended loop, cameras held back or not at any time; two
  trainers, two jobs, one death and one abandoned job; one video with two samples.

Symmetry is used in `fleet` (the requests of `CameraConfig`) and `services` (those of
`DetectionControl`), which check no liveness property. Where the workers of a component
are numbers and alike, `services` lets the lowest free one take up what comes next
(`TakenInOrder`), which leaves every order of steps possible up to their numbers.
Deadlock is not checked: in every run a bound (clock, ids, faults, requests) ends the
behaviours. `MCIncidentSync`, `MCFrameDelivery` and `MCAlertPipeline` hold the values of
the constants, the other MC modules the sums.

What stays out of the passing runs: with two `Handlers`, that is, when a retry
overlaps the request it repeats, `OneEventPerIncident` and `ConfirmedIsKnown` do
not hold. What is left is `SyncedIsSeen`, a theorem for any number of handlers.
`AckedConfigInForce` speaks of pushes that did not overlap,
`LonePullIsRight` of conversions that did not, `PromotionAgrees` of a promotion
that ran alone, `QuietWithinWindow` of a dispatch that ran alone, `BeatingIsOnline` of an
agent that was not silent, so that the health worker does not hold it on its list while it
reports again, `RetriedOnce` of commands no failure of which was handled after
the agent had left. In each case the code does nothing against the overlap, the model has
it, and a history variable (`overlapped`, `settled`, `disturbed`, `unbroken`, `belated`) says
exactly what is excepted. These properties do not show that the overlap is harmless (it
is not, and what it does is listed below); they show that nothing else goes wrong, and that
the state is right again afterwards.

### Findings

Each is a run that violates what a comment or a document says.

* `command_acks`: the poller acknowledges with "completed" and "failed", the schema
  accepts "success" and "failure" (`schemas/edge.py:59`). Every acknowledgement is
  answered 422, which the poller does not look at: commands stay pending and are
  executed at each poll, no deployment is recorded, a rollout times out.
* `cloud_voting`: layer 3 counts stored logs that are wet, and a log is wet only
  after it passed layer 3; starting from none, no frame ever passes
  (`validation_pipeline.py:167`).
* `edge_classes`: nothing fills the alert classes of the inference server
  (`predict.py:33`).
* `model_pull`: conversions change the current directory of the process, so one of
  two registers the other's weights (`roboflow_model_service.py:392`).
* `flush_loses_failed`: the flush loop ignores the result of `upload_detection`,
  so what fails or is rate-limited during a flush is gone (`buffer.py:207`).
* `alert_devices`: the trigger block names variables that are local to `main()`
  and raises before it reaches a device (`main.py:758`).

### Seen while modelling, and not run

Behaviours of the code that no comment or document contradicts, or that lie beside
the properties. The models have them unless a line says otherwise.

* Incidents: `mark_synced` sets the flag whatever joined the row while the request
  was under way (`sync_manager.py:52`); a retry that overlaps its request inserts a
  second event, the index not being unique (`routers/edge.py:781`). Two uploads
  handled at the same time open two events in one window (`incident_service.py:150`), and
  only such do (`OnlyOvertakenSplit`), but for classes that are grouped separately;
  a detection is counted in an event that was resolved after it was found (`:207`);
  the auto-close worker overwrites a user's resolution (`incident_worker.py:104`).
  Not in the model: the maximum confidence may be overwritten by a lower one (`:168`).
* Validator: the cooldown is looked up in a history that forgets the last alert
  after 20 accepted frames (`validator.py:193`); `layer3_k` above `layer3_m` never
  alerts (`:158`). With the fallback URL down the agent does not go back to the
  primary one (`config.py:220`).
* Cloud triggers: `_auto_trigger_devices` posts without the device's name and type,
  which the edge answers with 200 "unsupported"; it counts as triggered. Not in a model.
* Commands: `ack_command` does not look at the status of the command, so a failure
  that is reported twice, the first report being handled after the agent gave up on it,
  queues the command twice (`edge_service.py:525`). Each copy counts its own retries, so
  that one command may run more often than the limit of three retries says.
  `push_camera_config`, the fallback of a failed configuration push, is a
  command the poller does not know; `_try_direct_push` posts to a route no agent
  has. The push to port 8091 carries no `X-Edge-Key`. A rollout waits for words the schema
  refuses, so its branches for success and failure are never taken: what
  `OneStoreAtATime` shows is about time-outs.
* Configuration: files are kept under the cloud's id of a camera but asked for and
  removed under the agent's, so files of removed cameras stay and the detection
  status is always "waiting_for_config". Not in the model: it has one id. Nor is the
  agent's request to unregister a camera, which switches its detection off in the cloud and
  pushes nothing (`edge_camera_service.py:131`).
* Registration: only cameras are retried. A crash between the two writes of an
  item added from the cloud leaves it unlinked, and it registers again.
* Devices: a toggle writes the status although the edge answers "failed" or
  "unsupported", or the plug refused in its reply; direct control writes none; the proxy
  stops waiting after 15 s while the retries of the edge may take 18; after a rename
  whose push failed the names differ and no command arrives.
* Camera workers: the batch loop ends when cameras change while it iterates; the
  supervisor starts only if there was a camera at the start; a camera added again within
  ten seconds keeps its old URL; while a camera is paused or waits for its configuration
  a lost stream is not noticed (`main.py:573`, `:590`); reconnect tasks outlive a
  removed camera; the mode without a model ends in a `NameError` (`use_batch`).
* Model swap: class names take effect at the next restart only; overlapping
  downloads share one temporary file; a late fall-back can overwrite a later swap;
  a bad newest file leaves a restarted server without a model; `infer` reads
  session, type and names without the lock.
* Logs: a batch put back is in reverse order, and a full buffer then drops the newest; a
  lost answer stores the batch twice; the heartbeat marks as synced what it has only counted.
* Files: a copy to `.bak` that is cut off, or a write over a damaged file, spoils
  the backup.
* Detection control: `bulk_apply` and `import_config` leave the cache alone and push
  what it still holds (`routers/detection_control.py:474`).
* Models: promoting an id that does not exist retires the current model and then
  answers 404; `update_model` may set any status; the cloud loads its model only at its
  start. The integration's auto-sync calls `promote_model` with its arguments
  swapped. Not in a model.
* Notifications: "sent" is recorded when a task is queued; an open circuit drops
  tasks; an upgrade inside the lock window is not notified; the preferences are
  read from `fcm_token`, the token is stored as `push_token`.
* Learning: imports and uploads count against the daily limit of captures;
  automatic training compares `frames_used`, which no document has; the writes
  of a job's status ignore that it was cancelled; a hard time limit, a failed
  dispatch or a failing write of a failure (`training_worker.py:81`) leaves a job active
  for ever, which blocks automatic training.
* Cloud detection: "continuous" detection queues one task per camera and nothing
  repeats it; stopping it revokes nothing.
* Datasets: flagged detections are marked as uploaded although the sync reads
  another collection; a frame whose upload failed is never tried again; without a key
  every request is answered as queued and nothing is ever sent (`sync_worker.py:55`), and the
  task of a super administrator's request finds no frame (`:70`).
* Video: the alert classes are not passed on, so that with validation nothing is
  wet; a job whose process ends stays in progress for ever.

## 4. Fairness

Weak fairness unless a line says otherwise, and never of a fault, a user's action or a restart;
that faults are bounded stands for "once the faults stop".

* `IncidentSync`: of posting, of giving up a request nobody works on, and of each
  handler's next step. `_incident_sync_loop` is an endless loop that catches
  everything, `httpx` calls have a timeout, and the cloud's event loop runs every
  handler that is ready. Detecting for ever is excluded by `MaxDetections`:
  `EveryIncidentArrives` speaks of an incident, not of a quiet row.
* `FrameDelivery`: of the flush loop and its uploads: an HTTP call returns or times
  out, and `buffer_flush_loop` catches everything. A flush empties the buffer
  whether or not its uploads succeed, which is the other side of `flush_loses_failed`.
* `AlertPipeline`: of time and of each camera's loop: the capture thread goes on
  delivering frames and the upload of a frame returns. `SpillReported` assumes in
  addition that the spill stays in the picture and that the settings have
  `layer3_k` at most `layer3_m`, which no code enforces.
* `AgentRegistry`: heartbeats of a running agent (`heartbeat_loop`), and the health
  worker with time. The last needs Celery beat and a worker of the default queue:
  `docs/SYSTEM_ARCHITECTURE.md:394` and the default command of `Dockerfile.worker`
  provide them, the workers of `docker-compose.yml` listen to other queues.
* `Registration`: the rounds of the agent and the steps of the cloud's handler:
  loops that catch everything and calls that time out.
* `CameraWorkers`: the loops, the supervisor, capture threads that see their stop
  event, and a camera that is asked again and again and answers in the end.
* `TrainingJobs`: *strong* fairness of taking a job's task, because a worker that
  is busy with another task disables it again and again; weak of the steps of a
  task, the training itself ending with a result or an error.
* `VideoJobs`: the steps of an asyncio task of a process that runs. What is excepted in
  `EveryVideoSettles` (`orphans`) is the end of that process, which nothing recovers.
* `CommandQueue` (`command_acks`): the agent polls, executes and acknowledges. The
  counterexample is one of an agent that does all this.

In the composed runs the fairness conditions of a component that rests are about
steps that are not enabled, so they do not constrain the one that works.

## 5. Proofs

All theorems hold for every value of the constants that satisfies the assumption
its module names (`CommonAssumption`, `EdgeAssumption`, ...). These say that limits
and windows are natural numbers and sets of ids finite, that what stands for
"none" is no member of the set it is added to, and that there is at least one of
what the code has at least one of (a camera, a class, a plug, a try, a worker).
`CommandAssumption` says in addition that no agent acknowledges success with the
word "failure", of either vocabulary.

Each module has a theorem that its type invariant holds, and its safety
properties as theorems; what a run checks is then a theorem unless section "Only
model-checked" lists it. Almost none of these is inductive. The proofs therefore
all go the same way: an inductive invariant says what the steps in progress may
rely on; one lemma per action, or per group of actions, shows that it is kept;
the property follows from it. What the invariants add is this.

**`Incidents_proofs`.** `OneIncidentPerWindow` compares the start times of two
rows; that a new row opens late enough follows from the *latest* open row being
out of its window only if rows with smaller ids started no later. So the
invariant is `WindowInv == EdgeTypeOK /\ IdsFollowTime /\ OneIncidentPerWindow`.
`GreatestElement` supplies the latest open row (a finite set of ids has a greatest
element), `NoNewOpenRow` covers the steps that only close, confirm or delete rows.
For the cloud's events `CountInv` adds that an upload has found an event of its own
camera; then as many detections are counted on a camera as were handled.
`OnlyOvertakenSplit` is a property of the insertion, `FoundRight` carries what it needs from
the find to it: a handler that found nothing and was not overtaken has every open
event it could join (`Together`: of its class, if that was grouped separately when it
came) out of its window. It is kept because no step writes an event's
start (`StartsKept`) or class, and a handler is overtaken by whatever it could join that opens.

**`AlertPipeline_proofs`.** `RememberProperties`, `MarkProperties` and
`OlderProperties` say what the three operations on histories do to length and
entries. `LastAlertRemembered` is inductive with the types: the history variable
`newer` counts the entries added since the last alert; while it is below the length
of the history the entry is at `Len - newer`. `AlertsApart` is an action property:
`AlertStep` shows it for one step.

**`FrameDelivery_proofs`.** `DeliveryInv` adds to the types that frames in the
buffer or in hand were taken up, that a task that waits has a try left, and that an
eviction is for at least one frame. `FailoverAfterStreak` is inductive beside it.
`AccountedFor` is shown frame by frame: `Traced(f)` says where it is, and every
step hands it from one place to the next. `WithinLimits` needs `BufferLimit`, which counts
the cameras about to push together with the length of the buffer: between a check
and its push the others may push.

**`IncidentSync_proofs`.** `ConfirmedIsKnown`, `OneEventPerIncident`,
`SyncedCountArrived` and the refinement are theorems about behaviours in which the
cloud never works on two requests of one agent at once: `Spec /\ []AtMostOneBusy => ...`.
`OneHandlerIsOneBusy` shows that hypothesis for one handler (the instance of the
runs), `NoFaultIsOneBusy` for any number of handlers as long as no request is given
up on. Without it the properties are false, as section 3 says. `SyncTypeCorrect`
does without it. `SyncInv` says what a request has achieved so far: its rows are
unsynced, those it will confirm have arrived (`Confirmable`), and the event matched
with the row at hand still has a free link and a count no less than the one that
was read (`Targeted`). The uploads, users and workers that interleave with it keep
`EventsKept`. `DeliveryImplemented` maps each step to a step of `IncidentDelivery` or
a stutter: `LinksKept` gives that what is known stays known.

`SyncedIsSeenCorrect` needs no such hypothesis: whatever requests overlap, a row that is
synced has an event of its camera that began no earlier than `DedupWindow` before it. Links
are of no use to it, since another request may redirect them; `SeenInv` says instead that
the event a link leads to (`LinkNear`), the event a request has found and the rows it will
confirm (`SeenRequest`) are right in camera and time, which no step writes again
(`Placed`). A row that a second request deleted meanwhile is of no concern: its id is
never used again.

**`CommandQueue_proofs`.** `QueueInv` has three parts beside the types. `HandOK`: what
an agent holds is its own, and it waits for one acknowledgement at most, of the command
it deals with. `ChainOK`: what repeats a command repeats one that has run, and a command
that is not `belated` fails once (`OnceOK`): one report of its failure is in the
handler, or one command repeats it, and from then on it is neither pending nor in the
agent's hand but for the answer to that report. So nothing can report it again, and two
commands that repeat it cannot arise (`RetriedOnce`, by `RepeatedOnce`). `OrderOK`: what
is older than a command in the agent's hand has run, is in its hand too, or was deleted,
which is what `RunsInOrder` needs when the next one is executed. `QueueKeepsInRollout`
shows that the rollout's steps are steps of the queue, so that `QueueInv` carries over.
`RolloutInv` adds that only the command sent last can be pending (`LastPending`) and
that there is one for each result and one for the agent waited for (`OnePerResult`).
`ConfigInv` speaks of requests that met no other one (`Alone`): what they have read is
what the documents say, and what was acknowledged is what the edge has (`UnderWay`);
between requests the same holds of the camera that is shown as received (`AtRest`).

**`EdgeAgent_proofs`.** `SwapInv`: a request the server works on is for a
version, so a swap never installs nothing. `DeviceInv`: a command at
the edge belongs to a toggle (`Owned`); one that counts as alone has no other on its
plug (`AloneOK`), nor is anything under way on a plug the cloud has heard of
(`QuietOK`), direct requests included; when it was done, the plug is as it wants it
unless it refused (`DoneOK`). `FilesInv`: before any
damage a file is what a read may find (`Undamaged`); as long as every handler came
to its end, its backup is what it held before the last write (`BackupsOK`), and so
what a read finds is one or the other (`ReadOK`). `LogInv`: a warning is in one
place (`HeldOnce`) and stored once more only as it leaves or when something fails
(`StoredFew`); the file holds the last events, numbered in a row (`EventInv`).

**`Registry_proofs`.** `BeatingInv` adds that no agent that kept sending is on the
health worker's list, although the list is read later. `RegistrationInv` adds that a
document the edge is still to be told of names no item and is told once (`TellingOK`);
`DocsKept` covers the many steps that leave the items of documents alone. With it
`UnlinkedInHand` is inductive, the safety that `EveryCameraLinked` rests on. `WorkerInv`
adds that without the batch loop there are no reconnect tasks (`NoBatch`), the one
thing that starts a thread of an object that is gone: so `RemovedAreStopped` is
kept, the safety that `RemovedIsReleased` rests on. `TrainingInv` adds that a busy
worker is busy with a job there is; `TasksKept` is an action property, shown for
each step of a worker (`TrainerStep`), the safety that `EveryTrainingSettles` rests on.
These two are in no run: they are proved, and the liveness they carry is checked.
`VideoInv` adds to `VideosInHand` that no stretch is longer than the frames seen so far
(`ExtendedLemma`), so that none is longer than a video has samples.

**`Cloud_proofs`.** Seven components, each with its invariant.

* `ModelInv`: a promotion that is alone is so at every step, and has what it set up
  to then (`AloneRight`); what is settled stays so until one retires others.
* `PullInv` follows a conversion through its thread: before any two have met, the
  process is at home but for the one that fetches (`CwdRight`), so that directory, weights
  and what is registered are its own (`WeightsRight`, `RegisteredRight`, `SelectedRight`).
* `NoteInv`: what a dispatch that was not disturbed has not found or marked as sent was
  last sent before the window (`SentRight`).
* `SettingsInv`: what a request has read is what the documents say unless they changed
  since time last passed (`LayersRight`), and a stale entry of the cache is as old as
  the last change at least (`EntriesRight`), so that it is gone after its time.
* `DetectInv` counts: the wet logs of a camera that are not linked are those being
  reported, those cut off and those the settings left out (`CountRight`), each of its
  own (`EntryRight`).
* `DatasetInv`: as long as nothing was lost, skipped or too much for a batch, a requested
  frame that is not sent waits for a task or is in the hands of one (`WantedRight`); the
  outcome about to be written is what Roboflow has (`OutcomeRight`).
* `LearnInv` counts what is to come with what is there: workers past the check
  with the frames captured (`LimitRight`), imports that may still bring an image with
  those that brought it (`ImportsRight`), and one of them only while none cross.

**Sums.** `FleetTypes`, `ServiceTypes` and `NothingForgotten` are theorems about the
specifications that put components side by side (`FleetsInv`, `ServicesInv`,
`LivenessInvariant`): a step is one of the component at work and leaves the others, so the
invariant of each component, with what its own section says of it, is kept.

### Only model-checked

* Liveness (`SpillReported`, `EveryIncidentArrives`, `BufferDrains`,
  `StatusFollowsProcess`, `EveryCameraLinked`, `EveryCameraWatched`,
  `RemovedIsReleased`, `EveryJobSettles`): fairness and ENABLED are beyond the prover.
* That the violated properties of section 3 fail is shown by their runs alone.

Every other property of the runs is a theorem, for `ConfirmedIsKnown`,
`OneEventPerIncident`, `SyncedCountArrived` and `ImplementsDelivery` under the hypothesis
`AtMostOneBusy`. What a proof needs of a data structure is an invariant kept by each step
and never an induction over a definition: the stretches of a video grow with its frames.
No module declares a RECURSIVE operator, so that each can be proved about.

## 6. What is left

* Code that is only partly covered: the pages of `routers/learning.py`, the start and
  the display loops of `main.py`, the queries of `routers/edge.py`.

### Not modelled

* Image processing, inference and the reading of a model's output, which decide a
  bit; object storage; external services (Roboflow, Firebase, SMTP, Cloudflare),
  of which only the outcome of a call is modelled.
* Clips: nothing calls `init_clip_recorder`, so they are answered with 503, and
  `clip_service.py` does not compile (`nonlocal temp_path`, line 194).
* Control of devices over MQTT from the cloud, which is not implemented; the auto-off
  timers, which no alert reaches as the code stands.
* The documents of the class overrides of the detection control (what they decide is in
  `CloudEvents`), annotations and folders, the COCO export: single documents without
  rules between them.
* Authentication and users: tokens and passwords are out of scope.
* Organisations, stores, cameras beyond their configuration, reports, dashboards,
  audit and system logs, backups, websockets, the mobile API: plain CRUD, views,
  append-only records, or messages whose loss is accepted.
* The front ends (`src/web`, `src/mobile`) and the deployment files; what the latter
  mean for fairness is said in section 4.
