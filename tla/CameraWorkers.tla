------------------------------ MODULE CameraWorkers ------------------------------
(***************************************************************************)
(* The workers of agent/main.py that watch cameras: one loop for each      *)
(* camera or one batch loop for all, the capture threads of                *)
(* agent/capture.py they read from, the supervisor that restarts loops and *)
(* the loop that follows changes of cameras.json.  All of them but the     *)
(* threads share one event loop, so a step without an await is atomic.     *)
(*                                                                         *)
(* A loop whose camera is not ready (detection_paused, or                  *)
(* waiting_for_config) sleeps and reads no frame, so it does not notice    *)
(* that the stream is lost before the camera is ready again.               *)
(***************************************************************************)
EXTENDS Naturals, FiniteSets

CONSTANTS
  Names,       \* names of cameras
  MaxUrls,     \* how often a camera of each name may be configured
  MaxLosses,   \* bound on lost streams
  MaxEnds      \* bound on exceptions that end a camera loop

ASSUME WorkerAssumption ==
  MaxUrls \in [Names -> Nat \ {0}] /\ {MaxLosses, MaxEnds} \subseteq Nat

VARIABLES
  mode,        \* "single", "batch", or "degraded" when no model was loaded
  supervised,  \* camera_supervisor_loop runs: there were camera loops at the start
  config,      \* cameras.json: the url configured under a name, 0 if none
  held,        \* cameras whose own configuration keeps the loop from reading frames
  urls,        \* urls used so far
  object,      \* cam_objects: the url of the object under a name
  loop,        \* threaded_camera_loop of a name
  batch,       \* batch_camera_loop
  capture,     \* a ThreadedCameraCapture: threads, _stop_event, connected
  background,  \* reconnect tasks the batch loop has started
  losses, ends

workerVars == <<held, mode, supervised, config, urls, object, loop, batch, capture, background,
                losses, ends>>

Captures == UNION {{n} \X (1 .. MaxUrls[n]) : n \in Names}
Object(n) == <<n, object[n]>>
Watching == {n \in Names : object[n] # 0}
Fresh == [threads |-> 0, stopped |-> FALSE, connected |-> FALSE]

WorkerTypeOK ==
  /\ mode \in {"single", "batch", "degraded"} /\ supervised \in BOOLEAN
  /\ \A n \in Names : {config[n], urls[n], object[n]} \subseteq 0 .. MaxUrls[n]
  /\ held \subseteq Names
  /\ loop \in [Names -> {"none", "starting", "running", "reconnecting", "ended"}]
  /\ batch \in {"none", "asleep", "iterating", "ended"}
  /\ capture \in [Captures -> [threads : Nat, stopped : BOOLEAN, connected : BOOLEAN]]
  /\ background \in [Captures -> 0 .. 2]
  /\ losses \in 0 .. MaxLosses /\ ends \in 0 .. MaxEnds

\* main: the cameras configured at the start, and loops if the model is ready
WorkerInit ==
  /\ config \in [Names -> 0 .. 1]
  /\ urls = config /\ object = config
  /\ LET present == {n \in Names : config[n] # 0} IN
     /\ mode \in {"single", "degraded"} \cup IF Cardinality(present) > 1 THEN {"batch"} ELSE {}
     /\ held \in SUBSET present
     /\ supervised = (mode = "single" /\ present # {})
     /\ loop = [n \in Names |-> IF mode = "single" /\ n \in present THEN "starting" ELSE "none"]
  /\ batch = IF mode = "batch" THEN "asleep" ELSE "none"
  /\ capture = [o \in Captures |-> Fresh]
  /\ background = [o \in Captures |-> 0]
  /\ losses = 0 /\ ends = 0

-------------------------------------------------------------------------------
(* cameras.json *)

\* A new camera waits for its configuration, unless the agent starts without
AddCamera(n) ==
  /\ config[n] = 0 /\ urls[n] < MaxUrls[n]
  /\ urls' = [urls EXCEPT ![n] = @ + 1]
  /\ config' = [config EXCEPT ![n] = urls[n] + 1]
  /\ held' \in {held, held \cup {n}}
  /\ UNCHANGED <<mode, supervised, object, loop, batch, capture, background, losses, ends>>
\* The loop of a camera that is not in the file looks at no configuration
RemoveCamera(n) ==
  /\ config[n] # 0
  /\ config' = [config EXCEPT ![n] = 0]
  /\ held' = held \ {n}
  /\ UNCHANGED <<mode, supervised, urls, object, loop, batch, capture, background, losses, ends>>

\* The cloud pushes a configuration, which pauses or completes or enables detection
Configure(n) ==
  /\ config[n] # 0
  /\ held' = IF n \in held THEN held \ {n} ELSE held \cup {n}
  /\ UNCHANGED <<mode, supervised, config, urls, object, loop, batch, capture, background,
                 losses, ends>>

\* (mutant) stop closes the stream, but does not set the stop event
Stopped_Unsignalled(c) == [c EXCEPT !.connected = FALSE]
Stopped(c) == [c EXCEPT !.stopped = TRUE, !.connected = FALSE]

\* dynamic_camera_sync_loop compares names.  Without a model the name use_batch was
\* never bound: the first camera of the round gets its object, and the exception
\* ends the round.  A batch loop that is iterating over cam_objects dies of a change.
SyncCameras ==
  LET added == {n \in Names : config[n] # 0 /\ object[n] = 0}
      removed == {n \in Names : config[n] = 0 /\ object[n] # 0}
  IN /\ added \cup removed # {}
     /\ IF mode = "degraded" /\ added # {}
        THEN \E n \in added :
             /\ object' = [object EXCEPT ![n] = config[n]]
             /\ UNCHANGED <<loop, capture>>
        ELSE /\ object' = [n \in Names |-> IF n \in added \cup removed
                              THEN config[n] ELSE object[n]]
             /\ loop' = [n \in Names |-> IF n \in removed THEN "none"
                           ELSE IF n \in added /\ mode = "single" THEN "starting" ELSE loop[n]]
             /\ capture' = [o \in Captures |-> IF o[1] \in removed /\ o = Object(o[1])
                              THEN Stopped(capture[o]) ELSE capture[o]]
     /\ batch' = IF batch = "iterating" THEN "ended" ELSE batch
     /\ UNCHANGED <<held, mode, supervised, config, urls, background, losses, ends>>

-------------------------------------------------------------------------------
(* Capture threads *)

\* start: the stop event is cleared and one more thread runs
Started(o) ==
  capture' = [capture EXCEPT ![o] =
    [threads |-> @.threads + 1, stopped |-> FALSE, connected |-> TRUE]]
\* reconnect begins with stop, which waits five seconds for the thread at most
Released(o) == capture' = [capture EXCEPT ![o] = Stopped(@)]

\* A thread sees that it is to stop ...
ThreadStops(o) ==
  /\ capture[o].threads > 0 /\ capture[o].stopped
  /\ capture' = [capture EXCEPT ![o].threads = @ - 1]
  /\ UNCHANGED <<held, mode, supervised, config, urls, object, loop, batch, background, losses,
                 ends>>
\* ... or loses the stream, and with it the other threads of the object
StreamLost(o) ==
  /\ losses < MaxLosses /\ losses' = losses + 1
  /\ capture[o].threads > 0 /\ ~capture[o].stopped
  /\ capture' = [capture EXCEPT ![o].threads = 0, ![o].connected = FALSE]
  /\ UNCHANGED <<held, mode, supervised, config, urls, object, loop, batch, background, ends>>

-------------------------------------------------------------------------------
(* One loop for each camera *)

LoopStarts(n, opened) ==
  /\ loop[n] = "starting"
  /\ loop' = [loop EXCEPT ![n] = IF opened THEN "running" ELSE "reconnecting"]
  /\ IF opened THEN Started(Object(n)) ELSE Released(Object(n))
  /\ UNCHANGED <<held, mode, supervised, config, urls, object, batch, background, losses, ends>>
\* The look at the configuration and the read of a frame, which fails.  What is pushed
\* while the read is under way comes after it: the loop looks at it in the next round.
LoopLosesStream(n) ==
  /\ loop[n] = "running" /\ n \notin held
  /\ ~capture[Object(n)].connected
  /\ loop' = [loop EXCEPT ![n] = "reconnecting"]
  /\ Released(Object(n))
  /\ UNCHANGED <<held, mode, supervised, config, urls, object, batch, background, losses, ends>>
Reconnected(n) ==
  /\ loop[n] = "reconnecting"
  /\ loop' = [loop EXCEPT ![n] = "running"]
  /\ Started(Object(n))
  /\ UNCHANGED <<held, mode, supervised, config, urls, object, batch, background, losses, ends>>
\* An exception outside the try block; the capture thread goes on
LoopEnds(n) ==
  /\ loop[n] = "running" /\ ends < MaxEnds
  /\ loop' = [loop EXCEPT ![n] = "ended"] /\ ends' = ends + 1
  /\ UNCHANGED <<held, mode, supervised, config, urls, object, batch, capture, background,
                 losses>>

\* (mutant) a loop that ended is taken off the list, not started again
Supervise_Forgets ==
  /\ supervised
  /\ \E n \in Names : loop[n] = "ended"
  /\ loop' = [n \in Names |-> IF loop[n] = "ended" THEN "none" ELSE loop[n]]
  /\ UNCHANGED <<held, mode, supervised, config, urls, object, batch, capture, background,
                 losses, ends>>
\* camera_supervisor_loop: one look at all loops
Supervise ==
  /\ supervised
  /\ \E n \in Names : loop[n] = "ended"
  /\ loop' = [n \in Names |-> IF loop[n] = "ended" /\ object[n] # 0 THEN "starting" ELSE loop[n]]
  /\ UNCHANGED <<held, mode, supervised, config, urls, object, batch, capture, background,
                 losses, ends>>

-------------------------------------------------------------------------------
(* One loop for all cameras *)

BatchBegins ==
  /\ batch = "asleep" /\ batch' = "iterating"
  /\ UNCHANGED <<held, mode, supervised, config, urls, object, loop, capture, background,
                 losses, ends>>
\* Every camera that is not connected gets a reconnect task, in every round
BatchVisits(n) ==
  /\ batch = "iterating" /\ n \in Watching
  /\ ~capture[Object(n)].connected /\ background[Object(n)] < 2
  /\ background' = [background EXCEPT ![Object(n)] = @ + 1]
  /\ Released(Object(n))
  /\ UNCHANGED <<held, mode, supervised, config, urls, object, loop, batch, losses, ends>>
BatchSleeps ==
  /\ batch = "iterating" /\ batch' = "asleep"
  /\ UNCHANGED <<held, mode, supervised, config, urls, object, loop, capture, background,
                 losses, ends>>
\* The task goes on although its camera may be connected or removed by now
BackgroundReconnects(o) ==
  /\ background[o] > 0
  /\ background' = [background EXCEPT ![o] = @ - 1]
  /\ Started(o)
  /\ UNCHANGED <<held, mode, supervised, config, urls, object, loop, batch, losses, ends>>

WorkerNext ==
  \/ \E n \in Names :
       \/ AddCamera(n) \/ RemoveCamera(n) \/ Configure(n)
       \/ \E opened \in BOOLEAN : LoopStarts(n, opened)
       \/ LoopLosesStream(n) \/ Reconnected(n) \/ LoopEnds(n) \/ BatchVisits(n)
  \/ \E o \in Captures : ThreadStops(o) \/ StreamLost(o) \/ BackgroundReconnects(o)
  \/ SyncCameras \/ Supervise \/ BatchBegins \/ BatchSleeps

\* The loops run; a camera that is asked again and again answers some day
WorkerFairness ==
  /\ WF_workerVars(SyncCameras) /\ WF_workerVars(Supervise)
  /\ \A o \in Captures : WF_workerVars(ThreadStops(o))
  /\ \A n \in Names :
       /\ WF_workerVars(\E opened \in BOOLEAN : LoopStarts(n, opened))
       /\ WF_workerVars(LoopLosesStream(n)) /\ WF_workerVars(Reconnected(n))

WorkerSpec == WorkerInit /\ [][WorkerNext]_workerVars /\ WorkerFairness
-------------------------------------------------------------------------------
(* Properties *)

\* With one loop for each camera, a capture thread that is not of the current object of
\* its camera was told to stop, whatever was removed, added again, lost and restarted
\* meanwhile.
RemovedAreStopped ==
  mode = "single" =>
    \A o \in Captures : capture[o].threads > 0 /\ object[o[1]] # o[2] => capture[o].stopped

\* With one supervised loop for each camera, a camera that stays configured and is from
\* some time on ready for detection is watched: whatever streams are lost and loops end,
\* while it was held back too, its loop runs again and again with a capture thread
\* behind it.
EveryCameraWatched ==
  \A n \in Names :
    <>[](config[n] # 0 /\ n \notin held /\ mode = "single" /\ supervised)
      => []<>(loop[n] = "running" /\ capture[Object(n)].threads > 0)

\* With one loop for each camera, the threads of a removed camera end for good,
\* those that outlived a reconnect or a restart of the loop included.
RemovedIsReleased ==
  \A o \in Captures :
    [](mode = "single" /\ urls[o[1]] >= o[2] /\ config[o[1]] # o[2] /\ object[o[1]] # o[2]
         => <>[](capture[o].threads = 0))
===============================================================================
