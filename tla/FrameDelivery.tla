---------------------------- MODULE FrameDelivery ----------------------------
(***************************************************************************)
(* How a detection leaves the edge: the camera loops hand it to the        *)
(* uploader (edge-agent/agent/uploader.py), which limits the rate of each  *)
(* camera, retries on network errors and switches between two backend URLs *)
(* (the failover of edge-agent/agent/config.py); a detection that could    *)
(* not be uploaded goes into a queue in Redis (edge-agent/agent/buffer.py) *)
(* which the flush loop of main.py drains, and which outlives the agent's  *)
(* process.  The receiving end is the intake of POST /edge/frame and       *)
(* /edge/detection, which takes frames with one idempotency key for one.    *)
(*                                                                         *)
(* The agent is one event loop: a task runs without interruption from one  *)
(* await to the next, which is what an action is here.  A call is made on  *)
(* the URL that was active when its attempt began, and ends when other     *)
(* tasks may have switched to the other one.                               *)
(***************************************************************************)
EXTENDS Integers, Sequences, FiniteSets, SequencesExt

CONSTANTS
  Frames,       \* detections that passed the validator
  Cameras,      \* one camera task each
  CamOf,        \* Frames -> Cameras
  Sig,          \* Frames -> what the idempotency key sees: confidence and area
  HasFallback,  \* BACKEND_URL_FALLBACK is set
  MaxRetries,   \* UPLOAD_MAX_RETRIES
  Threshold,    \* _FAILOVER_THRESHOLD
  MaxPerMin,    \* MAX_UPLOADS_PER_MIN
  Max422,       \* MAX_CONSECUTIVE_422
  Capacity,     \* queue length from which Redis counts as near full
  EvictBatch,   \* frames evicted at once, 10 in the code
  MaxOutages,   \* bound on outages of a URL
  MaxFaults     \* bound on lost answers, refusals, Redis failures and crashes

Flusher == "flusher"
NoFrame == 0
Urls == {"primary", "fallback"}
Tasks == Cameras \union {Flusher}

ASSUME DeliveryAssumption ==
  /\ Flusher \notin Cameras /\ IsFiniteSet(Cameras)
  /\ Frames \subseteq Nat \ {NoFrame}
  /\ CamOf \in [Frames -> Cameras]
  /\ HasFallback \in BOOLEAN
  /\ {MaxRetries, Threshold, MaxPerMin, Max422, Capacity, EvictBatch} \subseteq Nat \ {0}
  /\ MaxOutages \in Nat /\ MaxFaults \in Nat

VARIABLES
  task,       \* Tasks -> what the task is doing, with which frame, at which attempt
  queue,      \* the Redis list flooreye:buffer:queue
  recent,     \* Cameras -> uploads within the last minute (_upload_timestamps)
  backoff,    \* Cameras -> whether _backoff_until lies ahead
  count422,   \* Cameras -> _consecutive_422s
  using,      \* _using_fallback
  failCount,  \* _primary_fail_count
  streak,     \* history: failed calls since the last successful one
  up,         \* the URLs that can be reached
  stored,     \* frames of which detection_logs has a document
  seen,       \* history: frames a camera task has taken up
  gone,       \* history: <<frame, reason>> of what the agent no longer holds
  unchecked,  \* history: frames pushed though the capacity check failed
  outages,    \* outages so far
  faults      \* other faults so far

failover == <<using, failCount, streak>>
limits == <<recent, backoff, count422>>
history == <<seen, gone, unchecked>>
net == <<up, outages>>
vars == <<task, queue, limits, failover, net, stored, history, faults>>

\* A frame is dropped by the rate limit, an eviction, a Redis error or a restart;
\* it is flushed when the flush loop took it out and its upload did not happen
Reasons == {"dropped", "flushed"}

IdleTask == [pc |-> "idle", frame |-> NoFrame, attempt |-> 0, url |-> "primary", room |-> 0]

\* attempt: of an upload, or of a Redis operation after its first failure; url:
\* of the upload under way; room: frames the push is about to evict
Task == [pc: {"idle", "post", "sleep", "check", "evict", "push", "pop"},
         frame: Frames \union {NoFrame}, attempt: 0..MaxRetries, url: Urls,
         room: 0..EvictBatch]

Init ==
  /\ task = [t \in Tasks |-> IdleTask]
  /\ queue = <<>>
  /\ recent = [c \in Cameras |-> 0]
  /\ backoff = [c \in Cameras |-> FALSE]
  /\ count422 = [c \in Cameras |-> 0]
  /\ using = FALSE /\ failCount = 0 /\ streak = 0
  /\ up = Urls
  /\ stored = {} /\ seen = {} /\ gone = {} /\ unchecked = 0
  /\ outages = 0 /\ faults = 0

Fault == faults < MaxFaults /\ faults' = faults + 1

-----------------------------------------------------------------------------
(* config.py: failover between the two URLs *)

Active == IF using /\ HasFallback THEN "fallback" ELSE "primary"

\* report_backend_success
ReportSuccess ==
  /\ using' = FALSE /\ failCount' = 0
  /\ streak' = 0

\* (mutant) one failure short of the threshold
ReportFailure_Early ==
  LET over == ~using /\ HasFallback /\ failCount + 2 >= Threshold
  IN  /\ using' = (using \/ over)
      /\ failCount' = IF over THEN 0 ELSE failCount + 1
      /\ streak' = streak + 1

\* report_backend_failure
ReportFailure ==
  LET over == ~using /\ HasFallback /\ failCount + 1 >= Threshold
  IN  /\ using' = (using \/ over)
      /\ failCount' = IF over THEN 0 ELSE failCount + 1
      /\ streak' = streak + 1

\* sync_manager shares the counters: its POST, made on a URL that was active when
\* it began, succeeds, or fails (which any other answer than a 2xx counts as)
OtherCall ==
  /\ \/ \E u \in up : (u = "fallback" => HasFallback) /\ ReportSuccess /\ UNCHANGED faults
     \/ ReportFailure /\ Fault
  /\ UNCHANGED <<task, queue, limits, net, stored, history>>

-----------------------------------------------------------------------------
(* uploader.upload_detection *)

\* _rate_limited
Limited(c) == backoff[c] \/ recent[c] >= MaxPerMin

\* Where task t goes once its upload has returned: a camera waits for its next
\* frame, the flush loop pops the next item
After(t) == IF t = Flusher THEN [IdleTask EXCEPT !.pc = "pop"] ELSE IdleTask

\* The call with frame f by task t: a rate-limited frame is skipped, which the
\* caller takes for success
StartUpload(t, f) ==
  LET c == CamOf[f] IN
  IF Limited(c)
  THEN /\ task' = [task EXCEPT ![t] = After(t)]
       /\ gone' = gone \union {<<f, IF t = Flusher THEN "flushed" ELSE "dropped">>}
       /\ UNCHANGED recent
  ELSE /\ task' = [task EXCEPT ![t] =
            [IdleTask EXCEPT !.pc = "post", !.frame = f, !.attempt = 1, !.url = Active]]
       /\ recent' = [recent EXCEPT ![c] = @ + 1]
       /\ UNCHANGED gone

\* (mutant) a camera task does not buffer what it could not upload
Failed_NotBuffered(t) ==
  /\ task' = [task EXCEPT ![t] = After(t)]
  /\ IF t = Flusher THEN gone' = gone \union {<<task[t].frame, "flushed">>}
                    ELSE UNCHANGED gone

\* upload_detection returns False: a camera task goes on to buffer the frame,
\* the flush loop counts it as uploaded and drops it
Failed(t) ==
  LET f == task[t].frame IN
  IF t = Flusher
  THEN /\ task' = [task EXCEPT ![t] = After(t)]
       /\ gone' = gone \union {<<f, "flushed">>}
  ELSE /\ task' = [task EXCEPT ![t] = [IdleTask EXCEPT !.pc = "check", !.frame = f]]
       /\ UNCHANGED gone

\* edge.py upload_frame, upload_detection: the key is the camera, the confidence,
\* the area and the second of arrival.  A frame that arrives in the same second
\* as another one of its key is taken for a repeat of it.
SameKey(f) == {g \in Frames : CamOf[g] = CamOf[f] /\ Sig[g] = Sig[f]}

Intake(f) ==
  \/ SameKey(f) \intersect stored # {} /\ UNCHANGED stored
  \/ stored' = stored \union {f}

Posting(t) == task[t].pc = "post"
Reaches(t) == Posting(t) /\ task[t].url \in up

\* 200 or 201
Accepted(t) ==
  /\ Reaches(t)
  /\ Intake(task[t].frame)
  /\ task' = [task EXCEPT ![t] = After(t)]
  /\ count422' = [count422 EXCEPT ![CamOf[task[t].frame]] = 0]
  /\ ReportSuccess
  /\ UNCHANGED <<queue, recent, backoff, net, history, faults>>

\* A network error: the URL is down, or the answer is lost or late
NetworkError(t) ==
  /\ Posting(t)
  /\ \/ ~Reaches(t) /\ UNCHANGED <<stored, faults>>
     \/ Reaches(t) /\ Intake(task[t].frame) /\ Fault
  /\ ReportFailure
  /\ IF task[t].attempt < MaxRetries
     THEN task' = [task EXCEPT ![t].pc = "sleep"] /\ UNCHANGED gone
     ELSE Failed(t)
  /\ UNCHANGED <<queue, limits, net, seen, unchecked>>

\* After its delay the next attempt, on the URL that is active by then
Retry(t) ==
  /\ task[t].pc = "sleep"
  /\ task' = [task EXCEPT ![t].pc = "post", ![t].attempt = @ + 1, ![t].url = Active]
  /\ UNCHANGED <<queue, limits, failover, net, stored, history, faults>>

\* 422: the cloud is well, the frame is not; the camera backs off at the limit
Rejected(t) ==
  LET c == CamOf[task[t].frame] IN
  /\ Reaches(t)
  /\ Fault
  /\ count422' = [count422 EXCEPT ![c] = @ + 1]
  /\ backoff' = [backoff EXCEPT ![c] = @ \/ count422[c] + 1 >= Max422]
  /\ ReportSuccess
  /\ Failed(t)
  /\ UNCHANGED <<queue, recent, net, stored, seen, unchecked>>

\* Any other answer; the handler may have stored the document before it failed.  One
\* that is cut off (httpx.RemoteProtocolError) is neither retried nor counted.
ServerError(t) ==
  /\ Reaches(t)
  /\ Fault
  /\ Intake(task[t].frame) \/ UNCHANGED stored
  /\ ReportSuccess \/ UNCHANGED failover
  /\ Failed(t)
  /\ UNCHANGED <<queue, limits, net, seen, unchecked>>

-----------------------------------------------------------------------------
(* The camera loops and buffer.push *)

\* The next frame of the camera that passed the validator
TakeFrame(c, f) ==
  /\ task[c].pc = "idle" /\ f \notin seen /\ CamOf[f] = c
  /\ \A g \in Frames : CamOf[g] = c /\ g < f => g \in seen
  /\ seen' = seen \union {f}
  /\ StartUpload(c, f)
  /\ UNCHANGED <<queue, backoff, count422, failover, net, stored, unchecked, faults>>

\* (mutant) the buffer is near full one frame too late
EvictCount_Late ==
  IF Len(queue) <= Capacity THEN 0
  ELSE IF Len(queue) < EvictBatch THEN Len(queue) ELSE EvictBatch

\* min(10, queue_len) once Redis is near its capacity
EvictCount ==
  IF Len(queue) < Capacity THEN 0
  ELSE IF Len(queue) < EvictBatch THEN Len(queue) ELSE EvictBatch

Go(c, p, n) == task' = [task EXCEPT ![c].pc = p, ![c].room = n]

\* push: the capacity is read ...
Check(c) ==
  /\ task[c].pc = "check"
  /\ IF EvictCount > 0 THEN Go(c, "evict", EvictCount) ELSE Go(c, "push", 0)
  /\ UNCHANGED <<queue, limits, failover, net, stored, history, faults>>

\* ... or cannot be read ("pushing anyway") ...
CheckFails(c) ==
  /\ task[c].pc = "check"
  /\ Fault
  /\ Go(c, "push", 0)
  /\ unchecked' = unchecked + 1
  /\ UNCHANGED <<queue, limits, failover, net, stored, seen, gone>>

\* ... near the capacity the oldest frames are dropped, as far as they are there ...
Evict(c) ==
  LET n == task[c].room
      evicted == {i \in 1..Len(queue) : i <= n}
  IN
  /\ task[c].pc = "evict"
  /\ queue' = SubSeq(queue, n + 1, Len(queue))
  /\ gone' = gone \union {<<queue[i], "dropped">> : i \in evicted}
  /\ Go(c, "push", 0)
  /\ UNCHANGED <<limits, failover, net, stored, seen, unchecked, faults>>

\* ... and the new one is appended
Push(c) ==
  /\ task[c].pc = "push"
  /\ queue' = Append(queue, task[c].frame)
  /\ task' = [task EXCEPT ![c] = IdleTask]
  /\ UNCHANGED <<limits, failover, net, stored, history, faults>>

\* _safe_redis_op: the connection breaks, after the frame was appended or before.
\* The whole push is run once more; if Redis is still gone so is the frame.
PushBreaks(c) ==
  LET f == task[c].frame IN
  /\ task[c].pc = "push"
  /\ queue' \in {queue, Append(queue, f)}
  /\ \/ /\ task[c].attempt = 0 /\ Fault
        /\ task' = [task EXCEPT ![c].pc = "check", ![c].attempt = 1]
        /\ UNCHANGED gone
     \/ /\ task[c].attempt = 1 /\ UNCHANGED faults
        /\ task' = [task EXCEPT ![c] = IdleTask]
        /\ gone' = gone \union {<<f, "dropped">>}
  /\ UNCHANGED <<limits, failover, net, stored, seen, unchecked>>

-----------------------------------------------------------------------------
(* main.buffer_flush_loop and buffer.flush_to_backend *)

FlushStart ==
  /\ task[Flusher].pc = "idle" /\ queue # <<>>
  /\ task' = [task EXCEPT ![Flusher].pc = "pop"]
  /\ UNCHANGED <<queue, limits, failover, net, stored, history, faults>>

FlushEnd ==
  /\ task[Flusher].pc = "pop" /\ queue = <<>>
  /\ task' = [task EXCEPT ![Flusher] = IdleTask]
  /\ UNCHANGED <<queue, limits, failover, net, stored, history, faults>>

\* (mutant) the item is read and not removed
Pop_Peek ==
  /\ task[Flusher].pc = "pop" /\ queue # <<>>
  /\ StartUpload(Flusher, Head(queue))
  /\ UNCHANGED <<queue, backoff, count422, failover, net, stored, seen, unchecked, faults>>

Pop ==
  /\ task[Flusher].pc = "pop" /\ queue # <<>>
  /\ queue' = Tail(queue)
  /\ StartUpload(Flusher, Head(queue))
  /\ UNCHANGED <<backoff, count422, failover, net, stored, seen, unchecked, faults>>

\* The connection breaks during LPOP, which was applied or not: it is run once
\* more, and a second failure ends this flush
PopBreaks ==
  /\ task[Flusher].pc = "pop" /\ queue # <<>>
  /\ \/ UNCHANGED <<queue, gone>>
     \/ queue' = Tail(queue) /\ gone' = gone \union {<<Head(queue), "dropped">>}
  /\ \/ /\ task[Flusher].attempt = 0 /\ Fault
        /\ task' = [task EXCEPT ![Flusher].attempt = 1]
     \/ /\ task[Flusher].attempt = 1 /\ UNCHANGED faults
        /\ task' = [task EXCEPT ![Flusher] = IdleTask]
  /\ UNCHANGED <<limits, failover, net, stored, seen, unchecked>>

-----------------------------------------------------------------------------
(* The surroundings *)

\* A restart of the agent: Redis keeps its list, the process forgets the rest
Crash ==
  /\ Fault
  /\ gone' = gone \union {<<task[t].frame, "dropped">> :
                            t \in {u \in Tasks : task[u].frame # NoFrame}}
  /\ task' = [t \in Tasks |-> IdleTask]
  /\ recent' = [c \in Cameras |-> 0]
  /\ backoff' = [c \in Cameras |-> FALSE]
  /\ count422' = [c \in Cameras |-> 0]
  /\ using' = FALSE /\ failCount' = 0 /\ streak' = 0
  /\ UNCHANGED <<queue, net, stored, seen, unchecked>>

\* Time passes: an upload is a minute old, a back-off is over
MinutePasses(c) ==
  /\ \/ recent[c] > 0 /\ recent' = [recent EXCEPT ![c] = @ - 1] /\ UNCHANGED backoff
     \/ backoff[c] /\ backoff' = [backoff EXCEPT ![c] = FALSE] /\ UNCHANGED recent
  /\ UNCHANGED <<task, queue, count422, failover, net, stored, history, faults>>

Outage(u) ==
  /\ u \in up /\ outages < MaxOutages
  /\ up' = up \ {u} /\ outages' = outages + 1
  /\ UNCHANGED <<task, queue, limits, failover, stored, history, faults>>

Recovery(u) ==
  /\ u \in Urls \ up
  /\ up' = up \union {u}
  /\ UNCHANGED <<outages, task, queue, limits, failover, stored, history, faults>>

UploadStep(t) == Accepted(t) \/ NetworkError(t) \/ Retry(t)
CameraStep(c) == UploadStep(c) \/ Check(c) \/ Evict(c) \/ Push(c)
FlushStep == UploadStep(Flusher) \/ FlushStart \/ FlushEnd \/ Pop

Next ==
  \/ \E c \in Cameras, f \in Frames : TakeFrame(c, f)
  \/ \E c \in Cameras : \/ CameraStep(c) \/ CheckFails(c) \/ PushBreaks(c)
                         \/ MinutePasses(c)
  \/ FlushStep \/ PopBreaks
  \/ \E t \in Tasks : Rejected(t) \/ ServerError(t)
  \/ OtherCall
  \/ Crash
  \/ \E u \in Urls : Outage(u) \/ Recovery(u)

Spec == Init /\ [][Next]_vars

\* The flush loop runs for ever; an HTTP call returns, fails or times out
FairSpec == Spec /\ WF_vars(FlushStep)

-----------------------------------------------------------------------------
(* Properties *)

TypeOK ==
  /\ task \in [Tasks -> Task]
  /\ \A t \in Tasks : task[t].frame = NoFrame <=> task[t].pc \in {"idle", "pop"}
  /\ queue \in Seq(Frames)
  /\ recent \in [Cameras -> 0..MaxPerMin]
  /\ backoff \in [Cameras -> BOOLEAN]
  /\ count422 \in [Cameras -> Nat]
  /\ using \in BOOLEAN /\ failCount \in Nat /\ streak \in Nat
  /\ up \subseteq Urls /\ stored \subseteq seen
  /\ seen \subseteq Frames /\ gone \subseteq seen \X Reasons
  /\ unchecked \in 0..faults
  /\ outages \in 0..MaxOutages /\ faults \in 0..MaxFaults

\* The frame, or one with its key that it was taken for
Stored(f) == SameKey(f) \intersect stored # {}
Queued(f) == \E i \in 1..Len(queue) : queue[i] = f
Held(f) == \E t \in Tasks : task[t].frame = f

\* Conservation: a frame that passed the validator is at the cloud, in the
\* buffer, in the hands of a task, or was dropped in one of the ways the code
\* drops frames.  No interleaving of camera tasks, flush loop, eviction, retry
\* and restart makes one disappear in any other way.
AccountedFor ==
  \A f \in seen : \/ Stored(f) \/ Queued(f) \/ Held(f)
                  \/ \E r \in Reasons : <<f, r>> \in gone

\* config.py: the agent is on the fallback URL only after Threshold calls in a
\* row have failed, and on the primary URL only while fewer have, whichever
\* tasks made the calls.
FailoverAfterStreak ==
  HasFallback => /\ using => streak >= Threshold
                 /\ ~using => failCount = streak /\ streak < Threshold

\* The limits hold whoever works at the same time: no camera uploads more than
\* MaxPerMin frames in a minute; and although room is made in the buffer before a
\* frame is appended, with other camera tasks and the flush loop in between, it
\* passes its capacity by no more than a frame per camera task and one per check
\* of the capacity that failed.
WithinLimits ==
  LET pushing == {c \in Cameras : task[c].pc = "push"}
  IN  /\ \A c \in Cameras : recent[c] <= MaxPerMin
      /\ Len(queue) + Cardinality(pushing) <= Capacity + Cardinality(Cameras) - 1 + unchecked

\* The buffer does not keep a frame for ever: once faults stop and no more frames
\* come, the flush loop has taken out all that is in it, also when cameras push
\* while it runs, the rate limit skips items or a restart ends a flush.
BufferDrains == queue # <<>> ~> queue = <<>>

\* docs/edge.md:273 "On reconnect: flush all buffered detections in order ->
\* upload to cloud": what comes out of the buffer reaches the cloud.
FlushUploads ==
  \A f \in seen : <<f, "flushed">> \in gone => Stored(f)
=============================================================================
