------------------------ MODULE FrameDelivery_proofs ------------------------
(***************************************************************************)
(* Theorems about the way of a detection from the camera loops to the      *)
(* cloud: types, conservation of frames (AccountedFor), the failover's     *)
(* counters (FailoverAfterStreak) and the limits of rate and buffer        *)
(* (WithinLimits), for every set of cameras and frames and all settings.   *)
(***************************************************************************)
EXTENDS FrameDelivery, TLAPS, SequenceTheorems, FiniteSetTheorems

\* What the types rest on: frames in the buffer or in the hands of a task were
\* taken up, a task that waits for a retry has one left, and an eviction is for
\* at least one frame.
TaskOK(k, takenUp) ==
  /\ k.frame = NoFrame <=> k.pc \in {"idle", "pop"}
  /\ k.frame # NoFrame => k.frame \in takenUp
  /\ k.pc = "sleep" => k.attempt < MaxRetries
  /\ k.pc = "evict" => k.room >= 1

TasksOK == \A t \in Tasks : TaskOK(task[t], seen)

QueueOK == \A i \in 1..Len(queue) : queue[i] \in seen

DeliveryInv == TypeOK /\ TasksOK /\ QueueOK

-----------------------------------------------------------------------------
(* The helpers of the actions *)

\* What the settings are, in the form the steps below use.
LEMMA Settings ==
  /\ MaxRetries \in Nat /\ MaxRetries >= 1 /\ EvictBatch \in Nat /\ EvictBatch >= 1
  /\ MaxPerMin \in Nat /\ MaxPerMin >= 1 /\ Capacity \in Nat /\ Capacity >= 1
  /\ Threshold \in Nat /\ Threshold >= 1
  /\ MaxFaults \in Nat /\ MaxOutages \in Nat
  BY DeliveryAssumption

\* The states a task is put into are well formed and hold the frame they name.
LEMMA TaskStates ==
  /\ IdleTask \in Task /\ IdleTask.frame = NoFrame /\ IdleTask.pc = "idle"
  /\ \A t : After(t) \in Task /\ After(t).frame = NoFrame /\ After(t).pc \in {"idle", "pop"}
  /\ \A f \in Frames : LET post == [IdleTask EXCEPT !.pc = "post", !.frame = f,
                                    !.attempt = 1, !.url = Active]
                           check == [IdleTask EXCEPT !.pc = "check", !.frame = f]
                       IN  /\ post \in Task /\ post.pc = "post" /\ post.frame = f
                           /\ check \in Task /\ check.pc = "check" /\ check.frame = f
<1>1. 0 \in 0..MaxRetries /\ 1 \in 0..MaxRetries /\ 0 \in 0..EvictBatch
  BY Settings
<1>2. Active \in Urls
  BY DEF Active, Urls
<1> QED
  BY <1>1, <1>2 DEF IdleTask, Task, After, Urls

\* A frame is a number other than NoFrame and belongs to a camera that is a task.
LEMMA FrameFacts ==
  \A f \in Frames : f # NoFrame /\ CamOf[f] \in Cameras /\ CamOf[f] \in Tasks
  BY DeliveryAssumption DEF Tasks, NoFrame

\* Starting an upload either skips the frame, which is then gone, or leaves it in
\* the hands of the task; the other tasks keep theirs.
LEMMA StartUploadEffect ==
  ASSUME TypeOK, NEW t \in Tasks, NEW f \in Frames, StartUpload(t, f)
  PROVE  /\ task' \in [Tasks -> Task] /\ recent' \in [Cameras -> 0..MaxPerMin]
         /\ \A u \in Tasks \ {t} : task'[u] = task[u]
         /\ \/ /\ task'[t].frame = NoFrame /\ task'[t].pc \in {"idle", "pop"}
               /\ \E r \in Reasons : gone' = gone \union {<<f, r>>}
            \/ task'[t].frame = f /\ task'[t].pc = "post" /\ gone' = gone
<1> DEFINE c == CamOf[f]
           post == [IdleTask EXCEPT !.pc = "post", !.frame = f, !.attempt = 1, !.url = Active]
<1>0. task \in [Tasks -> Task] /\ recent \in [Cameras -> 0..MaxPerMin] /\ c \in Cameras
  BY FrameFacts DEF TypeOK
<1>1. CASE Limited(c)
  <2> DEFINE r == IF t = Flusher THEN "flushed" ELSE "dropped"
  <2>1. task' = [task EXCEPT ![t] = After(t)] /\ recent' = recent /\ gone' = gone \union {<<f, r>>}
    BY <1>1 DEF StartUpload
  <2>2. r \in Reasons
    BY DEF Reasons
  <2>3. \E q \in Reasons : gone' = gone \union {<<f, q>>}
    BY <2>1, <2>2
  <2> QED
    BY <1>0, <2>1, <2>3, TaskStates
<1>2. CASE ~Limited(c)
  <2>1. task' = [task EXCEPT ![t] = post] /\ recent' = [recent EXCEPT ![c] = @ + 1] /\ gone' = gone
    BY <1>2 DEF StartUpload
  <2>2. recent[c] < MaxPerMin /\ recent[c] \in Nat
    BY <1>0, <1>2, Settings DEF Limited
  <2>3. recent[c] + 1 \in 0..MaxPerMin
    BY <2>2, Settings
  <2>4. post \in Task /\ post.frame = f /\ post.pc = "post"
    BY TaskStates
  <2> HIDE DEF post
  <2> QED
    BY <1>0, <2>1, <2>3, <2>4
<1> QED
  BY <1>1, <1>2

\* An upload that failed leaves the frame with its camera, or is the end of it.
LEMMA FailedEffect ==
  ASSUME TypeOK, NEW t \in Tasks, task[t].frame # NoFrame, Failed(t)
  PROVE  /\ task' \in [Tasks -> Task]
         /\ \A u \in Tasks \ {t} : task'[u] = task[u]
         /\ \/ /\ task'[t].frame = NoFrame /\ task'[t].pc \in {"idle", "pop"}
               /\ gone' = gone \union {<<task[t].frame, "flushed">>}
            \/ task'[t].frame = task[t].frame /\ task'[t].pc = "check" /\ gone' = gone
<1>1. task \in [Tasks -> Task] /\ task[t].frame \in Frames
  BY DEF TypeOK, Task
<1>2. CASE t = Flusher
  <2>1. task' = [task EXCEPT ![t] = After(t)] /\ gone' = gone \union {<<task[t].frame, "flushed">>}
    BY <1>2 DEF Failed
  <2> QED
    BY <1>1, <2>1, TaskStates
<1>3. CASE t # Flusher
  <2> DEFINE check == [IdleTask EXCEPT !.pc = "check", !.frame = task[t].frame]
  <2>1. task' = [task EXCEPT ![t] = check] /\ gone' = gone
    BY <1>3 DEF Failed
  <2>2. check \in Task /\ check.pc = "check" /\ check.frame = task[t].frame
    BY <1>1, TaskStates
  <2> HIDE DEF check
  <2> QED
    BY <1>1, <2>1, <2>2
<1> QED
  BY <1>2, <1>3
-----------------------------------------------------------------------------
(* Types *)

LEMMA InitInv == Init => DeliveryInv
<1> SUFFICES ASSUME Init PROVE DeliveryInv
  OBVIOUS
<1>1. \A t \in Tasks : task[t] = IdleTask
  BY DEF Init
<1>2. task \in [Tasks -> Task]
  BY TaskStates DEF Init
<1>3. queue \in Seq(Frames) /\ Len(queue) = 0
  BY DEF Init
<1>4. /\ recent \in [Cameras -> 0..MaxPerMin] /\ unchecked \in 0..faults
      /\ outages \in 0..MaxOutages /\ faults \in 0..MaxFaults
  BY Settings DEF Init
<1>5. TypeOK
  BY <1>1, <1>2, <1>3, <1>4, TaskStates DEF Init, TypeOK, Urls
<1>6. TaskOK(IdleTask, seen)
  BY DEF TaskOK, IdleTask
<1>7. TasksOK /\ QueueOK
  BY <1>1, <1>3, <1>6 DEF TasksOK, QueueOK
<1> QED
  BY <1>5, <1>7 DEF DeliveryInv

\* More frames taken up do no harm.
LEMMA TaskOKGrows ==
  ASSUME NEW k, NEW S, NEW T, S \subseteq T, TaskOK(k, S) PROVE TaskOK(k, T)
  BY DEF TaskOK

\* A step that changes at most the task t keeps what is said of the tasks if it
\* leaves t in an allowed state.
LEMMA OneTask ==
  ASSUME DeliveryInv, NEW t \in Tasks, seen \subseteq seen',
         \A u \in Tasks \ {t} : task'[u] = task[u],
         TaskOK(task'[t], seen')
  PROVE  /\ TasksOK'
         /\ \A u \in Tasks : task'[u].frame = NoFrame <=> task'[u].pc \in {"idle", "pop"}
<1>1. ASSUME NEW u \in Tasks PROVE TaskOK(task'[u], seen')
  <2>1. CASE u = t
    BY <2>1
  <2>2. CASE u # t
    <3>1. task'[u] = task[u] /\ TaskOK(task[u], seen)
      BY <2>2 DEF DeliveryInv, TasksOK
    <3> QED
      BY <3>1, TaskOKGrows
  <2> QED
    BY <2>1, <2>2
<1>2. TasksOK'
  BY <1>1 DEF TasksOK
<1>3. \A u \in Tasks : task'[u].frame = NoFrame <=> task'[u].pc \in {"idle", "pop"}
  BY <1>1 DEF TaskOK
<1> QED
  BY <1>2, <1>3

\* A step that leaves the buffer alone keeps what is said of it.
LEMMA SameQueue ==
  ASSUME QueueOK, queue' = queue, seen \subseteq seen' PROVE QueueOK'
  BY DEF QueueOK

\* Taking the first frame out of the buffer.
LEMMA TailOfQueue ==
  ASSUME TypeOK, QueueOK, queue # <<>>
  PROVE  /\ Head(queue) \in Frames /\ Head(queue) \in seen
         /\ Tail(queue) \in Seq(Frames) /\ Len(Tail(queue)) = Len(queue) - 1
         /\ \A i \in 1..Len(Tail(queue)) : Tail(queue)[i] = queue[i + 1] /\ i + 1 \in 1..Len(queue)
         /\ queue[1] = Head(queue) /\ Len(queue) \in Nat /\ Len(queue) >= 1
<1>1. queue \in Seq(Frames) /\ Len(queue) \in Nat /\ Len(queue) >= 1
  BY DEF TypeOK
<1>2. Head(queue) = queue[1] /\ 1 \in 1..Len(queue)
  BY <1>1
<1> QED
  BY <1>1, <1>2, HeadTailProperties DEF QueueOK

\* Appending a frame to it.
LEMMA AppendToQueue ==
  ASSUME TypeOK, QueueOK, NEW f \in Frames
  PROVE  LET q == Append(queue, f) IN
         /\ q \in Seq(Frames) /\ Len(q) = Len(queue) + 1 /\ Len(queue) \in Nat
         /\ q[Len(q)] = f /\ Len(q) \in 1..Len(q)
         /\ \A i \in 1..Len(queue) : q[i] = queue[i] /\ i \in 1..Len(q)
         /\ \A i \in 1..Len(q) : i = Len(q) \/ i \in 1..Len(queue)
<1>1. queue \in Seq(Frames) /\ Len(queue) \in Nat
  BY DEF TypeOK
<1> DEFINE q == Append(queue, f)
<1>2. /\ q \in Seq(Frames) /\ Len(q) = Len(queue) + 1
      /\ \A i \in 1..Len(queue) : q[i] = queue[i]
      /\ q[Len(queue) + 1] = f
  BY <1>1, AppendProperties
<1> HIDE DEF q
<1> QED
  BY <1>1, <1>2 DEF q

\* Evicting its first n frames, or all if there are fewer.
LEMMA EvictFromQueue ==
  ASSUME TypeOK, NEW n \in Nat, n >= 1
  PROVE  LET q == SubSeq(queue, n + 1, Len(queue)) IN
         /\ q \in Seq(Frames)
         /\ Len(q) = IF n <= Len(queue) THEN Len(queue) - n ELSE 0
         /\ Len(queue) \in Nat
         /\ \A i \in 1..Len(q) : q[i] = queue[i + n] /\ i + n \in 1..Len(queue)
         /\ \A i \in 1..Len(queue) : i <= n \/ (i - n \in 1..Len(q) /\ q[i - n] = queue[i])
<1>1. queue \in Seq(Frames) /\ Len(queue) \in Nat
  BY DEF TypeOK
<1> DEFINE q == SubSeq(queue, n + 1, Len(queue))
<1>2. \A i \in (n + 1)..Len(queue) : queue[i] \in Frames
  BY <1>1
<1>3. /\ q \in Seq(Frames)
      /\ Len(q) = IF n + 1 <= Len(queue) THEN Len(queue) - (n + 1) + 1 ELSE 0
      /\ \A i \in 1..Len(queue) - (n + 1) + 1 : q[i] = queue[(n + 1) + i - 1]
  BY <1>1, <1>2, SubSeqProperties
<1> HIDE DEF q
<1>4. Len(q) = IF n <= Len(queue) THEN Len(queue) - n ELSE 0
  BY <1>1, <1>3
<1>5. \A i \in 1..Len(q) : q[i] = queue[i + n] /\ i + n \in 1..Len(queue)
  BY <1>1, <1>3, <1>4
<1>6. \A i \in 1..Len(queue) : i <= n \/ (i - n \in 1..Len(q) /\ q[i - n] = queue[i])
  BY <1>1, <1>4, <1>5
<1> QED
  BY <1>1, <1>3, <1>4, <1>5, <1>6 DEF q

\* Every step keeps the invariant: first the steps of an upload.
LEMMA UploadInv ==
  ASSUME DeliveryInv, NEW t \in Tasks,
         UploadStep(t) \/ Rejected(t) \/ ServerError(t)
  PROVE  DeliveryInv'
<1> USE DEF DeliveryInv
<1> DEFINE f == task[t].frame
<1>1. task \in [Tasks -> Task] /\ task[t] \in Task /\ TaskOK(task[t], seen)
  BY DEF TypeOK, TasksOK
<1>2. f \in Frames /\ f \in seen /\ f # NoFrame /\ CamOf[f] \in Cameras
  <2>1. task[t].pc \in {"post", "sleep"}
    BY DEF UploadStep, Accepted, NetworkError, Retry, Rejected, ServerError, Reaches, Posting
  <2> QED
    BY <1>1, <2>1, FrameFacts DEF TaskOK, Task
<1>3. ASSUME Intake(f) PROVE stored' \subseteq seen /\ stored \subseteq stored'
  BY <1>2, <1>3 DEF Intake, TypeOK
<1>4. ASSUME ReportSuccess PROVE using' \in BOOLEAN /\ failCount' \in Nat /\ streak' \in Nat
  BY <1>4 DEF ReportSuccess
<1>5. ASSUME ReportFailure PROVE using' \in BOOLEAN /\ failCount' \in Nat /\ streak' \in Nat
  BY <1>5 DEF ReportFailure, TypeOK
<1>6. ASSUME Fault PROVE faults' \in 0..MaxFaults /\ 0..faults \subseteq 0..faults'
  BY <1>6, Settings DEF Fault, TypeOK
<1>7. ASSUME Failed(t), seen' = seen
      PROVE  /\ task' \in [Tasks -> Task] /\ gone' \subseteq seen \X Reasons
             /\ TasksOK'
             /\ \A u \in Tasks : task'[u].frame = NoFrame <=> task'[u].pc \in {"idle", "pop"}
  <2>1. /\ task' \in [Tasks -> Task]
        /\ \A u \in Tasks \ {t} : task'[u] = task[u]
        /\ \/ /\ task'[t].frame = NoFrame /\ task'[t].pc \in {"idle", "pop"}
              /\ gone' = gone \union {<<f, "flushed">>}
           \/ task'[t].frame = f /\ task'[t].pc = "check" /\ gone' = gone
    BY <1>2, <1>7, FailedEffect
  <2>2. TaskOK(task'[t], seen')
    BY <1>2, <1>7, <2>1 DEF TaskOK
  <2>3. gone' \subseteq seen \X Reasons
    BY <1>2, <2>1 DEF TypeOK, Reasons
  <2> QED
    BY <1>7, <2>1, <2>2, <2>3, OneTask
<1>8. CASE Accepted(t)
  <2>1. TaskOK(After(t), seen') /\ After(t) \in Task
    BY TaskStates DEF TaskOK
  <2>2. /\ task' \in [Tasks -> Task] /\ TasksOK'
        /\ \A u \in Tasks : task'[u].frame = NoFrame <=> task'[u].pc \in {"idle", "pop"}
    <3>1. /\ task' \in [Tasks -> Task] /\ seen \subseteq seen'
          /\ \A u \in Tasks \ {t} : task'[u] = task[u]
          /\ task'[t] = After(t)
      BY <1>1, <1>8, <2>1 DEF Accepted, history
    <3> QED
      BY <3>1, <2>1, OneTask
  <2>3. TypeOK'
    BY <1>3, <1>4, <1>8, <2>2 DEF Accepted, history, net, TypeOK
  <2> QED
    BY <1>8, <2>2, <2>3, SameQueue DEF Accepted, history
<1>9. CASE NetworkError(t)
  <2>1. stored' \subseteq seen /\ faults' \in 0..MaxFaults /\ 0..faults \subseteq 0..faults'
    BY <1>3, <1>6, <1>9 DEF NetworkError, TypeOK
  <2>2. /\ task' \in [Tasks -> Task] /\ gone' \subseteq seen \X Reasons
        /\ TasksOK'
        /\ \A u \in Tasks : task'[u].frame = NoFrame <=> task'[u].pc \in {"idle", "pop"}
    <3>1. CASE task[t].attempt < MaxRetries
      <4>1. /\ task' = [task EXCEPT ![t].pc = "sleep"] /\ gone' = gone /\ seen' = seen
        BY <1>9, <3>1 DEF NetworkError
      <4>2. /\ task' \in [Tasks -> Task] /\ \A u \in Tasks \ {t} : task'[u] = task[u]
            /\ task'[t] = [task[t] EXCEPT !.pc = "sleep"]
        BY <1>1, <4>1 DEF Task
      <4>3. TaskOK(task'[t], seen')
        BY <1>1, <1>2, <3>1, <4>1, <4>2 DEF TaskOK, Task
      <4> QED
        BY <4>1, <4>2, <4>3, OneTask DEF TypeOK
    <3>2. CASE ~(task[t].attempt < MaxRetries)
      BY <1>7, <1>9, <3>2 DEF NetworkError
    <3> QED
      BY <3>1, <3>2
  <2>3. TypeOK'
    BY <1>5, <1>9, <2>1, <2>2 DEF NetworkError, limits, net, TypeOK
  <2> QED
    BY <1>9, <2>2, <2>3, SameQueue DEF NetworkError
<1>10. CASE Retry(t)
  <2>1. task[t].attempt \in 0..MaxRetries /\ task[t].attempt < MaxRetries
    BY <1>1, <1>10 DEF Retry, Task, TaskOK
  <2>2. task[t].attempt + 1 \in 0..MaxRetries /\ Active \in Urls
    BY <2>1, Settings DEF Active, Urls
  <2>3. /\ task' \in [Tasks -> Task] /\ \A u \in Tasks \ {t} : task'[u] = task[u]
        /\ task'[t].pc = "post" /\ task'[t].frame = f
    BY <1>1, <1>10, <2>2 DEF Retry, Task
  <2>4. TaskOK(task'[t], seen') /\ seen' = seen
    BY <1>2, <1>10, <2>3 DEF TaskOK, Retry, history
  <2>5. /\ TasksOK'
        /\ \A u \in Tasks : task'[u].frame = NoFrame <=> task'[u].pc \in {"idle", "pop"}
    BY <2>3, <2>4, OneTask
  <2>6. TypeOK'
    BY <1>10, <2>3, <2>5 DEF Retry, limits, net, failover, history, TypeOK
  <2> QED
    BY <1>10, <2>5, <2>6, SameQueue DEF Retry, history
<1>11. CASE Rejected(t)
  <2>1. count422' \in [Cameras -> Nat] /\ backoff' \in [Cameras -> BOOLEAN]
    BY <1>2, <1>11 DEF Rejected, TypeOK
  <2>2. TypeOK' /\ TasksOK'
    BY <1>4, <1>6, <1>7, <1>11, <2>1 DEF Rejected, net, TypeOK
  <2> QED
    BY <1>11, <2>2, SameQueue DEF Rejected
<1>12. CASE ServerError(t)
  <2>1. stored' \subseteq seen
    BY <1>3, <1>12 DEF ServerError, TypeOK
  <2>2. using' \in BOOLEAN /\ failCount' \in Nat /\ streak' \in Nat
    <3>1. CASE ReportSuccess
      BY <1>4, <3>1
    <3>2. CASE UNCHANGED failover
      BY <1>2, <3>2 DEF failover, TypeOK
    <3> QED
      BY <1>12, <3>1, <3>2 DEF ServerError
  <2>3. TypeOK' /\ TasksOK'
    BY <1>4, <1>6, <1>7, <1>12, <2>1, <2>2 DEF ServerError, limits, net, TypeOK
  <2> QED
    BY <1>12, <2>3, SameQueue DEF ServerError
<1> QED
  BY <1>8, <1>9, <1>10, <1>11, <1>12 DEF UploadStep

\* The steps of a camera loop that buffers a frame.
LEMMA BufferInv ==
  ASSUME DeliveryInv, NEW c \in Cameras,
         Check(c) \/ CheckFails(c) \/ Evict(c) \/ Push(c) \/ PushBreaks(c)
  PROVE  DeliveryInv'
<1> USE DEF DeliveryInv
<1> DEFINE f == task[c].frame
<1>1. /\ c \in Tasks /\ task \in [Tasks -> Task] /\ task[c] \in Task /\ TaskOK(task[c], seen)
      /\ task[c].pc \in {"check", "evict", "push"}
  BY DEF TypeOK, TasksOK, Tasks, Check, CheckFails, Evict, Push, PushBreaks
<1>2. f \in Frames /\ f \in seen /\ f # NoFrame
  BY <1>1, FrameFacts DEF TaskOK, Task
<1>3. ASSUME Fault PROVE faults' \in 0..MaxFaults /\ 0..faults \subseteq 0..faults'
  BY <1>3, Settings DEF Fault, TypeOK
<1>4. ASSUME NEW p \in {"check", "evict", "push"}, NEW n \in 0..EvictBatch,
             p = "evict" => n >= 1, Go(c, p, n), seen' = seen
      PROVE  /\ task' \in [Tasks -> Task] /\ TasksOK'
             /\ \A u \in Tasks : task'[u].frame = NoFrame <=> task'[u].pc \in {"idle", "pop"}
  <2>1. task' = [task EXCEPT ![c] = [task[c] EXCEPT !.pc = p, !.room = n]]
    BY <1>1, <1>4 DEF Go
  <2>2. [task[c] EXCEPT !.pc = p, !.room = n] \in Task
    BY <1>1, <1>4 DEF Task
  <2>3. /\ task' \in [Tasks -> Task] /\ \A u \in Tasks \ {c} : task'[u] = task[u]
        /\ task'[c] = [task[c] EXCEPT !.pc = p, !.room = n]
    BY <1>1, <2>1, <2>2
  <2>4. TaskOK(task'[c], seen')
    BY <1>1, <1>2, <1>4, <2>3 DEF TaskOK, Task
  <2> QED
    BY <1>1, <1>4, <2>3, <2>4, OneTask
<1>5. ASSUME task' = [task EXCEPT ![c] = IdleTask], seen' = seen
      PROVE  /\ task' \in [Tasks -> Task] /\ TasksOK'
             /\ \A u \in Tasks : task'[u].frame = NoFrame <=> task'[u].pc \in {"idle", "pop"}
  <2>1. TaskOK(IdleTask, seen')
    BY TaskStates DEF TaskOK
  <2>2. /\ task' \in [Tasks -> Task] /\ \A u \in Tasks \ {c} : task'[u] = task[u]
        /\ task'[c] = IdleTask
    BY <1>1, <1>5, TaskStates
  <2> QED
    BY <1>1, <1>5, <2>1, <2>2, OneTask
<1>6. ASSUME queue' = Append(queue, f), seen' = seen
      PROVE  queue' \in Seq(Frames) /\ QueueOK'
  <2>1. /\ queue' \in Seq(Frames) /\ queue'[Len(queue')] = f
        /\ \A i \in 1..Len(queue) : queue'[i] = queue[i]
        /\ \A i \in 1..Len(queue') : i = Len(queue') \/ i \in 1..Len(queue)
    BY <1>2, <1>6, AppendToQueue
  <2> QED
    BY <1>2, <1>6, <2>1 DEF QueueOK
<1>7. CASE Check(c)
  <2>1. EvictCount \in 0..EvictBatch
    BY Settings DEF EvictCount, TypeOK
  <2>2. /\ task' \in [Tasks -> Task] /\ TasksOK'
        /\ \A u \in Tasks : task'[u].frame = NoFrame <=> task'[u].pc \in {"idle", "pop"}
    <3>1. CASE EvictCount > 0
      <4>1. EvictCount >= 1 /\ Go(c, "evict", EvictCount) /\ seen' = seen
        BY <1>7, <2>1, <3>1, Settings DEF Check, history
      <4> QED
        BY <1>4, <2>1, <4>1
    <3>2. CASE ~(EvictCount > 0)
      <4>1. Go(c, "push", 0) /\ seen' = seen /\ 0 \in 0..EvictBatch
        BY <1>7, <3>2, Settings DEF Check, history
      <4> QED
        BY <1>4, <4>1
    <3> QED
      BY <3>1, <3>2
  <2> QED
    BY <1>7, <2>2, SameQueue DEF Check, limits, failover, net, history, TypeOK
<1>8. CASE CheckFails(c)
  <2>1. Go(c, "push", 0) /\ seen' = seen /\ 0 \in 0..EvictBatch
    BY <1>8, Settings DEF CheckFails
  <2>2. /\ task' \in [Tasks -> Task] /\ TasksOK'
        /\ \A u \in Tasks : task'[u].frame = NoFrame <=> task'[u].pc \in {"idle", "pop"}
    BY <1>4, <2>1
  <2>3. unchecked' \in 0..faults'
    BY <1>8, Settings DEF CheckFails, Fault, TypeOK
  <2> QED
    BY <1>3, <1>8, <2>2, <2>3, SameQueue DEF CheckFails, limits, failover, net, TypeOK
<1>9. CASE Evict(c)
  <2> DEFINE n == task[c].room
  <2>1. n \in Nat /\ n >= 1
    BY <1>1, <1>9, Settings DEF Evict, Task, TaskOK
  <2>2. /\ queue' \in Seq(Frames)
        /\ \A i \in 1..Len(queue') : queue'[i] = queue[i + n] /\ i + n \in 1..Len(queue)
    BY <1>9, <2>1, EvictFromQueue DEF Evict
  <2>3. QueueOK' /\ seen' = seen
    BY <1>9, <2>2 DEF QueueOK, Evict
  <2>4. gone' \subseteq seen \X Reasons
    BY <1>9 DEF Evict, QueueOK, Reasons, TypeOK
  <2>5. Go(c, "push", 0) /\ 0 \in 0..EvictBatch
    BY <1>9, Settings DEF Evict
  <2>6. /\ task' \in [Tasks -> Task] /\ TasksOK'
        /\ \A u \in Tasks : task'[u].frame = NoFrame <=> task'[u].pc \in {"idle", "pop"}
    BY <1>4, <2>3, <2>5
  <2> QED
    BY <1>9, <2>2, <2>3, <2>4, <2>6 DEF Evict, limits, failover, net, TypeOK
<1>10. CASE Push(c)
  BY <1>5, <1>6, <1>10 DEF Push, limits, failover, net, history, TypeOK
<1>11. CASE PushBreaks(c)
  <2>1. queue' \in Seq(Frames) /\ QueueOK' /\ seen' = seen
    BY <1>6, <1>11, SameQueue DEF PushBreaks, TypeOK
  <2>2. gone' \subseteq seen \X Reasons /\ faults' \in 0..MaxFaults /\ 0..faults \subseteq 0..faults'
    BY <1>2, <1>3, <1>11 DEF PushBreaks, TypeOK, Reasons
  <2>3. /\ task' \in [Tasks -> Task] /\ TasksOK'
        /\ \A u \in Tasks : task'[u].frame = NoFrame <=> task'[u].pc \in {"idle", "pop"}
    <3>1. CASE task' = [task EXCEPT ![c].pc = "check", ![c].attempt = 1]
      <4>1. 1 \in 0..MaxRetries
        BY Settings
      <4>2. /\ task' \in [Tasks -> Task] /\ \A u \in Tasks \ {c} : task'[u] = task[u]
            /\ task'[c].pc = "check" /\ task'[c].frame = f
        BY <1>1, <3>1, <4>1 DEF Task
      <4>3. TaskOK(task'[c], seen')
        BY <1>2, <2>1, <4>2 DEF TaskOK
      <4> QED
        BY <1>1, <2>1, <4>2, <4>3, OneTask
    <3>2. CASE task' = [task EXCEPT ![c] = IdleTask]
      BY <1>5, <2>1, <3>2
    <3> QED
      BY <1>11, <3>1, <3>2 DEF PushBreaks
  <2> QED
    BY <1>11, <2>1, <2>2, <2>3 DEF PushBreaks, limits, failover, net, TypeOK
<1> QED
  BY <1>7, <1>8, <1>9, <1>10, <1>11

\* A camera takes up its next frame.
LEMMA TakeFrameInv ==
  ASSUME DeliveryInv, NEW c \in Cameras, NEW f \in Frames, TakeFrame(c, f)
  PROVE  DeliveryInv'
<1> USE DEF DeliveryInv
<1>1. c \in Tasks /\ f # NoFrame /\ StartUpload(c, f)
  BY FrameFacts DEF TakeFrame, Tasks
<1>2. seen' = seen \union {f} /\ seen \subseteq seen'
  BY DEF TakeFrame
<1>3. /\ task' \in [Tasks -> Task] /\ recent' \in [Cameras -> 0..MaxPerMin]
      /\ \A u \in Tasks \ {c} : task'[u] = task[u]
      /\ \/ /\ task'[c].frame = NoFrame /\ task'[c].pc \in {"idle", "pop"}
            /\ \E r \in Reasons : gone' = gone \union {<<f, r>>}
         \/ task'[c].frame = f /\ task'[c].pc = "post" /\ gone' = gone
  BY <1>1, StartUploadEffect
<1>4. TaskOK(task'[c], seen')
  BY <1>1, <1>2, <1>3 DEF TaskOK
<1>5. /\ TasksOK'
      /\ \A u \in Tasks : task'[u].frame = NoFrame <=> task'[u].pc \in {"idle", "pop"}
  BY <1>1, <1>2, <1>3, <1>4, OneTask
<1>6. gone' \subseteq seen' \X Reasons /\ stored' \subseteq seen' /\ seen' \subseteq Frames
  BY <1>2, <1>3 DEF TakeFrame, TypeOK
<1> QED
  BY <1>2, <1>3, <1>5, <1>6, SameQueue DEF TakeFrame, failover, net, TypeOK

\* The steps of the flush loop outside an upload.
LEMMA FlushInv ==
  ASSUME DeliveryInv, FlushStart \/ FlushEnd \/ Pop \/ PopBreaks
  PROVE  DeliveryInv'
<1> USE DEF DeliveryInv
<1>1. /\ Flusher \in Tasks /\ task \in [Tasks -> Task] /\ task[Flusher] \in Task
      /\ TaskOK(task[Flusher], seen) /\ task[Flusher].pc \in {"idle", "pop"}
      /\ task[Flusher].frame = NoFrame
  BY DEF TypeOK, TasksOK, Tasks, TaskOK, FlushStart, FlushEnd, Pop, PopBreaks
<1>2. seen' = seen
  BY DEF FlushStart, FlushEnd, Pop, PopBreaks, history
<1>3. ASSUME task' \in [Tasks -> Task], \A u \in Tasks \ {Flusher} : task'[u] = task[u],
             task'[Flusher].frame = NoFrame, task'[Flusher].pc \in {"idle", "pop"}
      PROVE  /\ TasksOK'
             /\ \A u \in Tasks : task'[u].frame = NoFrame <=> task'[u].pc \in {"idle", "pop"}
  <2>1. TaskOK(task'[Flusher], seen')
    BY <1>3 DEF TaskOK
  <2> QED
    BY <1>1, <1>2, <1>3, <2>1, OneTask
<1>4. ASSUME queue # <<>>, queue' = Tail(queue)
      PROVE  queue' \in Seq(Frames) /\ QueueOK'
  BY <1>2, <1>4, TailOfQueue DEF QueueOK
<1>5. CASE FlushStart
  <2>1. /\ task' \in [Tasks -> Task] /\ \A u \in Tasks \ {Flusher} : task'[u] = task[u]
        /\ task'[Flusher].frame = NoFrame /\ task'[Flusher].pc = "pop"
    BY <1>1, <1>5 DEF FlushStart, Task
  <2>2. TasksOK' /\ \A u \in Tasks : task'[u].frame = NoFrame <=> task'[u].pc \in {"idle", "pop"}
    BY <1>3, <2>1
  <2> QED
    BY <1>5, <2>1, <2>2, SameQueue DEF FlushStart, limits, failover, net, history, TypeOK
<1>6. CASE FlushEnd
  <2>1. /\ task' \in [Tasks -> Task] /\ \A u \in Tasks \ {Flusher} : task'[u] = task[u]
        /\ task'[Flusher].frame = NoFrame /\ task'[Flusher].pc = "idle"
    BY <1>1, <1>6, TaskStates DEF FlushEnd
  <2>2. TasksOK' /\ \A u \in Tasks : task'[u].frame = NoFrame <=> task'[u].pc \in {"idle", "pop"}
    BY <1>3, <2>1
  <2> QED
    BY <1>6, <2>1, <2>2, SameQueue DEF FlushEnd, limits, failover, net, history, TypeOK
<1>7. CASE Pop
  <2> DEFINE f == Head(queue)
  <2>1. f \in Frames /\ f \in seen /\ f # NoFrame /\ StartUpload(Flusher, f)
    BY <1>7, TailOfQueue, FrameFacts DEF Pop
  <2>2. /\ task' \in [Tasks -> Task] /\ recent' \in [Cameras -> 0..MaxPerMin]
        /\ \A u \in Tasks \ {Flusher} : task'[u] = task[u]
        /\ \/ /\ task'[Flusher].frame = NoFrame /\ task'[Flusher].pc \in {"idle", "pop"}
              /\ \E r \in Reasons : gone' = gone \union {<<f, r>>}
           \/ task'[Flusher].frame = f /\ task'[Flusher].pc = "post" /\ gone' = gone
    BY <1>1, <2>1, StartUploadEffect
  <2>3. TaskOK(task'[Flusher], seen')
    BY <1>2, <2>1, <2>2 DEF TaskOK
  <2>4. /\ TasksOK'
        /\ \A u \in Tasks : task'[u].frame = NoFrame <=> task'[u].pc \in {"idle", "pop"}
    BY <1>1, <1>2, <2>2, <2>3, OneTask
  <2>5. gone' \subseteq seen \X Reasons
    BY <2>1, <2>2 DEF TypeOK
  <2>6. queue' \in Seq(Frames) /\ QueueOK'
    BY <1>4, <1>7 DEF Pop
  <2> HIDE DEF f
  <2> QED
    BY <1>2, <1>7, <2>2, <2>4, <2>5, <2>6 DEF Pop, failover, net, TypeOK
<1>8. CASE PopBreaks
  <2>1. queue' \in Seq(Frames) /\ QueueOK' /\ gone' \subseteq seen \X Reasons
    <3>1. CASE UNCHANGED <<queue, gone>>
      BY <1>2, <3>1, SameQueue DEF TypeOK
    <3>2. CASE queue' = Tail(queue) /\ gone' = gone \union {<<Head(queue), "dropped">>}
      BY <1>4, <1>8, <3>2, TailOfQueue DEF PopBreaks, TypeOK, Reasons
    <3> QED
      BY <1>8, <3>1, <3>2 DEF PopBreaks
  <2>2. /\ task' \in [Tasks -> Task] /\ \A u \in Tasks \ {Flusher} : task'[u] = task[u]
        /\ task'[Flusher].frame = NoFrame /\ task'[Flusher].pc \in {"idle", "pop"}
    <3>1. 1 \in 0..MaxRetries
      BY Settings
    <3>2. CASE task' = [task EXCEPT ![Flusher].attempt = 1]
      BY <1>1, <3>1, <3>2 DEF Task
    <3>3. CASE task' = [task EXCEPT ![Flusher] = IdleTask]
      BY <1>1, <3>3, TaskStates
    <3> QED
      BY <1>8, <3>2, <3>3 DEF PopBreaks
  <2>3. TasksOK' /\ \A u \in Tasks : task'[u].frame = NoFrame <=> task'[u].pc \in {"idle", "pop"}
    BY <1>3, <2>2
  <2>4. faults' \in 0..MaxFaults /\ 0..faults \subseteq 0..faults'
    BY <1>8, Settings, SMTT(30) DEF PopBreaks, Fault, TypeOK
  <2> QED
    BY <1>8, <2>1, <2>2, <2>3, <2>4 DEF PopBreaks, limits, failover, net, TypeOK
<1> QED
  BY <1>5, <1>6, <1>7, <1>8

\* A restart of the agent, the passing of time, and what happens around it.
LEMMA SurroundingsInv ==
  ASSUME DeliveryInv,
         \/ OtherCall \/ Crash
         \/ \E c \in Cameras : MinutePasses(c)
         \/ \E u \in Urls : Outage(u) \/ Recovery(u)
  PROVE  DeliveryInv'
<1> USE DEF DeliveryInv
<1>1. seen' = seen /\ queue \in Seq(Frames) /\ queue' = queue
  BY DEF OtherCall, Crash, MinutePasses, Outage, Recovery, history, TypeOK
<1>2. QueueOK'
  BY <1>1, SameQueue
<1>3. ASSUME task' = task PROVE TasksOK'
  BY <1>1, <1>3 DEF TasksOK
<1>4. CASE OtherCall
  <2>1. /\ using' \in BOOLEAN /\ failCount' \in Nat /\ streak' \in Nat
        /\ faults' \in 0..MaxFaults /\ 0..faults \subseteq 0..faults'
    <3>1. CASE ReportSuccess /\ UNCHANGED faults
      BY <3>1 DEF ReportSuccess, TypeOK
    <3>2. CASE ReportFailure /\ Fault
      BY <3>2, Settings DEF ReportFailure, Fault, TypeOK
    <3> QED
      BY <1>4, <3>1, <3>2 DEF OtherCall
  <2> QED
    BY <1>2, <1>3, <1>4, <2>1 DEF OtherCall, limits, net, history, TypeOK
<1>5. CASE Crash
  <2>1. TaskOK(IdleTask, seen') /\ task' \in [Tasks -> Task] /\ \A t \in Tasks : task'[t] = IdleTask
    BY <1>5, TaskStates DEF Crash, TaskOK
  <2>2. TasksOK' /\ \A t \in Tasks : task'[t].frame = NoFrame <=> task'[t].pc \in {"idle", "pop"}
    BY <2>1 DEF TasksOK, TaskOK
  <2>3. gone' \subseteq seen \X Reasons
    <3>1. \A t \in Tasks : task[t].frame # NoFrame => task[t].frame \in seen
      BY DEF TasksOK, TaskOK
    <3> QED
      BY <1>5, <3>1 DEF Crash, TypeOK, Reasons
  <2>4. /\ recent' \in [Cameras -> 0..MaxPerMin] /\ count422' \in [Cameras -> Nat]
        /\ backoff' \in [Cameras -> BOOLEAN]
        /\ faults' \in 0..MaxFaults /\ 0..faults \subseteq 0..faults'
    BY <1>5, Settings DEF Crash, Fault, TypeOK
  <2> QED
    BY <1>1, <1>2, <1>5, <2>1, <2>2, <2>3, <2>4 DEF Crash, net, TypeOK
<1>6. ASSUME NEW c \in Cameras, MinutePasses(c) PROVE DeliveryInv'
  <2>1. recent' \in [Cameras -> 0..MaxPerMin] /\ backoff' \in [Cameras -> BOOLEAN]
    <3>1. recent \in [Cameras -> 0..MaxPerMin] /\ recent[c] \in 0..MaxPerMin
      BY DEF TypeOK
    <3>2. recent[c] > 0 => recent[c] - 1 \in 0..MaxPerMin
      BY <3>1, Settings
    <3>3. CASE recent[c] > 0 /\ recent' = [recent EXCEPT ![c] = @ - 1] /\ UNCHANGED backoff
      BY <3>1, <3>2, <3>3 DEF TypeOK
    <3>4. CASE backoff' = [backoff EXCEPT ![c] = FALSE] /\ UNCHANGED recent
      BY <3>4 DEF TypeOK
    <3> QED
      BY <1>6, <3>3, <3>4 DEF MinutePasses
  <2> QED
    BY <1>2, <1>3, <1>6, <2>1 DEF MinutePasses, failover, net, history, TypeOK
<1>7. ASSUME NEW u \in Urls, Outage(u) \/ Recovery(u) PROVE DeliveryInv'
  <2>1. up' \subseteq Urls /\ outages' \in 0..MaxOutages
    BY <1>7, Settings DEF Outage, Recovery, TypeOK
  <2> QED
    BY <1>2, <1>3, <1>7, <2>1 DEF Outage, Recovery, limits, failover, history, TypeOK
<1> QED
  BY <1>4, <1>5, <1>6, <1>7

LEMMA StepInv == ASSUME DeliveryInv, [Next]_vars PROVE DeliveryInv'
<1>1. CASE UNCHANGED vars
  BY <1>1 DEF vars, limits, failover, net, history, DeliveryInv, TypeOK, TasksOK, QueueOK
<1>2. CASE Next
  <2>1. Cameras \subseteq Tasks /\ Flusher \in Tasks
    BY DEF Tasks
  <2> QED
    BY <1>2, <2>1, UploadInv, BufferInv, TakeFrameInv, FlushInv, SurroundingsInv
       DEF Next, CameraStep, FlushStep
<1> QED
  BY <1>1, <1>2

\* Tasks, buffer, limits and histories keep their types; the frames in the buffer
\* and in the hands of tasks are frames that were taken up (uploader.py, buffer.py).
THEOREM DeliveryTypeCorrect == Spec => []DeliveryInv
  BY InitInv, StepInv, PTL DEF Spec

-----------------------------------------------------------------------------
(* Failover *)

\* The counters change with the report of a call's outcome only; a restart resets
\* them as a success does.
LEMMA FailoverChanges ==
  ASSUME [Next]_vars PROVE ReportSuccess \/ ReportFailure \/ UNCHANGED failover
<1>1. CASE UNCHANGED vars
  BY <1>1 DEF vars
<1>2. ASSUME NEW t \in Tasks, UploadStep(t) \/ Rejected(t) \/ ServerError(t)
      PROVE  ReportSuccess \/ ReportFailure \/ UNCHANGED failover
  BY <1>2 DEF UploadStep, Accepted, NetworkError, Retry, Rejected, ServerError
<1>3. CASE OtherCall
  BY <1>3 DEF OtherCall
<1>4. CASE Crash
  BY <1>4 DEF Crash, ReportSuccess
<1>5. ASSUME NEW c \in Cameras,
             \/ Check(c) \/ CheckFails(c) \/ Evict(c) \/ Push(c) \/ PushBreaks(c)
             \/ MinutePasses(c) \/ \E f \in Frames : TakeFrame(c, f)
      PROVE  UNCHANGED failover
  BY <1>5 DEF Check, CheckFails, Evict, Push, PushBreaks, MinutePasses, TakeFrame
<1>6. CASE FlushStart \/ FlushEnd \/ Pop \/ PopBreaks
  BY <1>6 DEF FlushStart, FlushEnd, Pop, PopBreaks
<1>7. ASSUME NEW u \in Urls, Outage(u) \/ Recovery(u) PROVE UNCHANGED failover
  BY <1>7 DEF Outage, Recovery
<1>8. Cameras \subseteq Tasks /\ Flusher \in Tasks
  BY DEF Tasks
<1> QED
  BY <1>1, <1>2, <1>3, <1>4, <1>5, <1>6, <1>7, <1>8 DEF Next, CameraStep, FlushStep

\* config.py report_backend_failure and report_backend_success, called by every
\* task: the agent is on the fallback URL only after Threshold failures in a row,
\* and while it is not, its counter is the length of the streak.
THEOREM FailoverCorrect == Spec => []FailoverAfterStreak
<1>1. Init => FailoverAfterStreak
  BY Settings DEF Init, FailoverAfterStreak
<1>2. DeliveryInv /\ FailoverAfterStreak /\ [Next]_vars => FailoverAfterStreak'
  <2> SUFFICES ASSUME DeliveryInv, FailoverAfterStreak, [Next]_vars, HasFallback
               PROVE  /\ using' => streak' >= Threshold
                      /\ ~using' => failCount' = streak' /\ streak' < Threshold
    BY DEF FailoverAfterStreak
  <2>1. using \in BOOLEAN /\ failCount \in Nat /\ streak \in Nat
    BY DEF DeliveryInv, TypeOK
  <2>2. CASE ReportSuccess
    BY <2>2, Settings DEF ReportSuccess
  <2>3. CASE ReportFailure
    <3>1. CASE using
      <4>1. using' = TRUE /\ streak' = streak + 1
        BY <2>1, <2>3, <3>1 DEF ReportFailure
      <4>2. streak >= Threshold
        BY <3>1 DEF FailoverAfterStreak
      <4> QED
        BY <2>1, <4>1, <4>2, Settings
    <3>2. CASE ~using
      <4>1. failCount = streak /\ streak < Threshold
        BY <3>2 DEF FailoverAfterStreak
      <4>2. CASE failCount + 1 >= Threshold
        BY <2>1, <2>3, <3>2, <4>1, <4>2, Settings DEF ReportFailure
      <4>3. CASE ~(failCount + 1 >= Threshold)
        BY <2>1, <2>3, <3>2, <4>1, <4>3, Settings DEF ReportFailure
      <4> QED
        BY <4>2, <4>3
    <3> QED
      BY <2>1, <3>1, <3>2
  <2>4. CASE UNCHANGED failover
    BY <2>4 DEF failover, FailoverAfterStreak
  <2> QED
    BY <2>2, <2>3, <2>4, FailoverChanges
<1> QED
  BY <1>1, <1>2, DeliveryTypeCorrect, PTL DEF Spec

-----------------------------------------------------------------------------
(* Conservation *)

Gone(f) == \E r \in Reasons : <<f, r>> \in gone
Traced(f) == Stored(f) \/ Queued(f) \/ Held(f) \/ Gone(f)

\* What was stored or let go of stays so.
LEMMA StoredGoneStay ==
  ASSUME stored \subseteq stored', gone \subseteq gone', NEW f
  PROVE  (Stored(f) => Stored(f)') /\ (Gone(f) => Gone(f)')
  BY DEF Stored, Gone

\* A frame another task holds is held by it still.
LEMMA OthersHold ==
  ASSUME NEW t \in Tasks, NEW f, \A u \in Tasks \ {t} : task'[u] = task[u],
         Held(f), task[t].frame # f
  PROVE  Held(f)'
<1>1. PICK u \in Tasks : task[u].frame = f
  BY DEF Held
<1>2. task'[u] = task[u] /\ task'[u].frame = f
  BY <1>1
<1> QED
  BY <1>1, <1>2 DEF Held

\* A step of an upload: its frame is stored, kept, or dropped by the flush loop.
LEMMA UploadTraces ==
  ASSUME DeliveryInv, NEW t \in Tasks, UploadStep(t) \/ Rejected(t) \/ ServerError(t),
         NEW f \in seen, Traced(f)
  PROVE  Traced(f)'
<1> USE DEF DeliveryInv
<1> PICK g : g = task[t].frame
  OBVIOUS
<1>1. /\ task \in [Tasks -> Task] /\ task[t] \in Task /\ TaskOK(task[t], seen)
      /\ task[t].pc \in {"post", "sleep"}
  BY DEF TypeOK, TasksOK, UploadStep, Accepted, NetworkError, Retry, Rejected, ServerError,
         Reaches, Posting
<1>2. g \in Frames /\ g # NoFrame
  BY <1>1, FrameFacts DEF TaskOK, Task
<1>3. ASSUME Failed(t)
      PROVE  /\ gone \subseteq gone'
             /\ \A u \in Tasks \ {t} : task'[u] = task[u]
             /\ task'[t].frame = g \/ Gone(g)'
  <2>1. /\ \A u \in Tasks \ {t} : task'[u] = task[u]
        /\ \/ gone' = gone \union {<<g, "flushed">>}
           \/ task'[t].frame = g /\ gone' = gone
    BY <1>2, <1>3, FailedEffect
  <2> QED
    BY <2>1 DEF Gone, Reasons
<1>4. Intake(g) => stored \subseteq stored'
  BY DEF Intake
<1>5. queue' = queue /\ (Queued(f) => Queued(f)')
  BY DEF UploadStep, Accepted, NetworkError, Retry, Rejected, ServerError, Queued
<1>6. /\ gone \subseteq gone' /\ stored \subseteq stored'
      /\ \A u \in Tasks \ {t} : task'[u] = task[u]
      /\ task'[t].frame = g \/ Gone(g)' \/ Stored(g)'
  <2>1. CASE Accepted(t)
    <3>1. Intake(g) /\ task' = [task EXCEPT ![t] = After(t)] /\ gone' = gone
      BY <2>1 DEF Accepted, history
    <3>2. g \in SameKey(g)
      BY <1>2 DEF SameKey
    <3>3. Stored(g)'
      BY <3>1, <3>2 DEF Intake, Stored
    <3> QED
      BY <1>1, <1>4, <3>1, <3>3
  <2>2. CASE NetworkError(t)
    <3>1. stored \subseteq stored'
      BY <1>4, <2>2 DEF NetworkError
    <3>2. CASE task[t].attempt < MaxRetries
      <4>1. task' = [task EXCEPT ![t].pc = "sleep"] /\ gone' = gone
        BY <2>2, <3>2 DEF NetworkError
      <4> QED
        BY <1>1, <3>1, <4>1 DEF Task
    <3>3. CASE ~(task[t].attempt < MaxRetries)
      BY <1>3, <2>2, <3>1, <3>3 DEF NetworkError
    <3> QED
      BY <3>2, <3>3
  <2>3. CASE Retry(t)
    <3>1. task' = [task EXCEPT ![t] = [task[t] EXCEPT !.pc = "post", !.attempt = task[t].attempt + 1,
                                                      !.url = Active]]
      BY <1>1, <2>3 DEF Retry, Task
    <3> QED
      BY <1>1, <2>3, <3>1 DEF Retry, history, Task
  <2>4. CASE Rejected(t)
    BY <1>3, <2>4 DEF Rejected
  <2>5. CASE ServerError(t)
    BY <1>3, <1>4, <2>5 DEF ServerError
  <2> QED
    BY <2>1, <2>2, <2>3, <2>4, <2>5 DEF UploadStep
<1>7. CASE Held(f)
  <2>1. CASE g = f
    BY <1>6, <2>1 DEF Traced, Held
  <2>2. CASE g # f
    BY <1>6, <1>7, <2>2, OthersHold DEF Traced
  <2> QED
    BY <2>1, <2>2
<1> QED
  BY <1>5, <1>6, <1>7, StoredGoneStay DEF Traced

\* A camera loop that buffers its frame holds it until it is in the buffer, and an
\* eviction lets go of the frames it takes out.
LEMMA BufferTraces ==
  ASSUME DeliveryInv, NEW c \in Cameras,
         Check(c) \/ CheckFails(c) \/ Evict(c) \/ Push(c) \/ PushBreaks(c),
         NEW f \in seen, Traced(f)
  PROVE  Traced(f)'
<1> USE DEF DeliveryInv
<1> PICK g : g = task[c].frame
  OBVIOUS
<1>1. /\ c \in Tasks /\ task \in [Tasks -> Task] /\ task[c] \in Task /\ TaskOK(task[c], seen)
      /\ task[c].pc \in {"check", "evict", "push"} /\ g \in Frames
  <2>1. /\ c \in Tasks /\ task \in [Tasks -> Task] /\ task[c] \in Task /\ TaskOK(task[c], seen)
        /\ task[c].pc \in {"check", "evict", "push"}
    BY DEF TypeOK, TasksOK, Tasks, Check, CheckFails, Evict, Push, PushBreaks
  <2> QED
    BY <2>1, FrameFacts DEF TaskOK, Task
<1>2. stored \subseteq stored' /\ gone \subseteq gone'
  BY DEF Check, CheckFails, Evict, Push, PushBreaks, history
<1>3. \A u \in Tasks \ {c} : task'[u] = task[u]
  BY <1>1 DEF Check, CheckFails, Evict, Push, PushBreaks, Go
<1>4. ASSUME NEW p, NEW n, Go(c, p, n) PROVE task'[c].frame = g
  BY <1>1, <1>4 DEF Go, Task
<1>5. queue' = Append(queue, g) => Queued(g)' /\ (Queued(f) => Queued(f)')
  <2> SUFFICES ASSUME queue' = Append(queue, g)
               PROVE  Queued(g)' /\ (Queued(f) => Queued(f)')
    OBVIOUS
  <2>1. /\ queue'[Len(queue')] = g /\ Len(queue') \in 1..Len(queue')
        /\ \A i \in 1..Len(queue) : queue'[i] = queue[i] /\ i \in 1..Len(queue')
    BY <1>1, AppendToQueue
  <2> QED
    BY <2>1 DEF Queued
<1>6. task'[c].frame = g \/ Queued(g)' \/ Gone(g)'
  <2>1. CASE Check(c)
    BY <1>4, <2>1 DEF Check
  <2>2. CASE CheckFails(c) \/ Evict(c)
    BY <1>4, <2>2 DEF CheckFails, Evict
  <2>3. CASE Push(c)
    BY <1>5, <2>3 DEF Push
  <2>4. CASE PushBreaks(c)
    <3>1. CASE task' = [task EXCEPT ![c].pc = "check", ![c].attempt = 1]
      <4>1. task'[c] = [task[c] EXCEPT !.pc = "check", !.attempt = 1]
        BY <1>1, <3>1
      <4> QED
        BY <1>1, <4>1 DEF Task
    <3>2. CASE gone' = gone \union {<<g, "dropped">>}
      BY <3>2 DEF Gone, Reasons
    <3> QED
      BY <2>4, <3>1, <3>2 DEF PushBreaks
  <2> QED
    BY <2>1, <2>2, <2>3, <2>4
<1>7. ASSUME Queued(f) PROVE Queued(f)' \/ Gone(f)'
  <2>1. CASE queue' = queue
    BY <1>7, <2>1 DEF Queued
  <2>2. CASE queue' = Append(queue, g)
    BY <1>5, <1>7, <2>2
  <2>3. CASE Evict(c)
    <3> PICK n : n = task[c].room
      OBVIOUS
    <3>1. n \in Nat /\ n >= 1
      BY <1>1, <2>3, Settings DEF Evict, Task, TaskOK
    <3> PICK i \in 1..Len(queue) : queue[i] = f
      BY <1>7 DEF Queued
    <3>2. /\ queue' = SubSeq(queue, n + 1, Len(queue))
          /\ gone' = gone \union {<<queue[j], "dropped">> : j \in {j \in 1..Len(queue) : j <= n}}
      BY <2>3 DEF Evict
    <3>3. CASE i <= n
      BY <3>2, <3>3 DEF Gone, Reasons
    <3>4. CASE ~(i <= n)
      <4>1. i - n \in 1..Len(queue') /\ queue'[i - n] = f
        BY <3>1, <3>2, <3>4, EvictFromQueue
      <4> QED
        BY <4>1 DEF Queued
    <3> QED
      BY <3>3, <3>4
  <2> QED
    BY <2>1, <2>2, <2>3 DEF Check, CheckFails, Push, PushBreaks
<1>8. CASE Held(f)
  <2>1. CASE g = f
    BY <1>1, <1>6, <2>1 DEF Traced, Held
  <2>2. CASE g # f
    BY <1>1, <1>3, <1>8, <2>2, OthersHold DEF Traced
  <2> QED
    BY <2>1, <2>2
<1> QED
  BY <1>2, <1>7, <1>8, StoredGoneStay DEF Traced

\* The flush loop holds or lets go of the frame it takes out of the buffer, and
\* every step of it leaves the tasks of the cameras alone.
LEMMA FlushTraces ==
  ASSUME DeliveryInv, FlushStart \/ FlushEnd \/ Pop \/ PopBreaks,
         NEW f \in seen, Traced(f)
  PROVE  Traced(f)'
<1> USE DEF DeliveryInv
<1>1. /\ Flusher \in Tasks /\ task \in [Tasks -> Task]
      /\ TaskOK(task[Flusher], seen) /\ task[Flusher].pc \in {"idle", "pop"}
      /\ task[Flusher].frame # f
  <2>1. /\ Flusher \in Tasks /\ task \in [Tasks -> Task]
        /\ TaskOK(task[Flusher], seen) /\ task[Flusher].pc \in {"idle", "pop"}
    BY DEF TypeOK, TasksOK, Tasks, FlushStart, FlushEnd, Pop, PopBreaks
  <2>2. f \in Frames
    BY DEF TypeOK
  <2> QED
    BY <2>1, <2>2, FrameFacts DEF TaskOK
<1> PICK g : g = Head(queue)
  OBVIOUS
<1>2. Pop => g \in Frames /\ StartUpload(Flusher, g)
  BY TailOfQueue DEF Pop
<1>3. Pop => /\ \A u \in Tasks \ {Flusher} : task'[u] = task[u]
             /\ gone \subseteq gone'
             /\ task'[Flusher].frame = g \/ Gone(g)'
  <2> SUFFICES ASSUME Pop
               PROVE  /\ \A u \in Tasks \ {Flusher} : task'[u] = task[u]
                      /\ gone \subseteq gone'
                      /\ task'[Flusher].frame = g \/ Gone(g)'
    OBVIOUS
  <2>1. /\ \A u \in Tasks \ {Flusher} : task'[u] = task[u]
        /\ \/ \E r \in Reasons : gone' = gone \union {<<g, r>>}
           \/ task'[Flusher].frame = g /\ gone' = gone
    BY <1>1, <1>2, StartUploadEffect
  <2> QED
    BY <2>1 DEF Gone
<1>4. /\ stored \subseteq stored' /\ gone \subseteq gone'
      /\ \A u \in Tasks \ {Flusher} : task'[u] = task[u]
  BY <1>1, <1>3 DEF FlushStart, FlushEnd, Pop, PopBreaks, history
<1>5. CASE queue' = queue
  <2>1. Queued(f) => Queued(f)'
    BY <1>5 DEF Queued
  <2> QED
    BY <1>1, <1>4, <2>1, OthersHold, StoredGoneStay DEF Traced
<1>6. CASE queue # <<>> /\ queue' = Tail(queue)
  <2>1. task'[Flusher].frame = g \/ Gone(g)'
    <3>1. queue' # queue
      <4>1. Len(queue') = Len(queue) - 1 /\ Len(queue) \in Nat
        BY <1>6, TailOfQueue
      <4> QED
        BY <4>1
    <3>2. Pop \/ PopBreaks
      BY <3>1 DEF FlushStart, FlushEnd
    <3>3. PopBreaks => gone' = gone \union {<<g, "dropped">>}
      BY <3>1 DEF PopBreaks
    <3> QED
      BY <1>3, <3>2, <3>3 DEF Gone, Reasons
  <2>2. Held(g)' \/ Gone(g)'
    BY <1>1, <2>1 DEF Held
  <2>3. Queued(f) => f = g \/ Queued(f)'
    <3> SUFFICES ASSUME NEW i \in 1..Len(queue), queue[i] = f, f # g
                 PROVE  Queued(f)'
      BY DEF Queued
    <3>1. i - 1 \in 1..Len(queue') /\ queue'[i - 1] = queue[i]
      BY <1>6, TailOfQueue
    <3> QED
      BY <3>1 DEF Queued
  <2> QED
    BY <1>1, <1>4, <2>2, <2>3, OthersHold, StoredGoneStay DEF Traced
<1>7. queue' = queue \/ (queue # <<>> /\ queue' = Tail(queue))
  BY DEF FlushStart, FlushEnd, Pop, PopBreaks
<1> QED
  BY <1>5, <1>6, <1>7

\* No frame that passed the validator disappears in a way the code does not
\* intend (upload_detection, buffer.push, flush_to_backend): it is stored,
\* buffered, in the hands of a task, or was dropped by a limit, an eviction, a
\* Redis error, a restart or the flush loop.
THEOREM AccountedForCorrect == Spec => []AccountedFor
<1>1. Init => AccountedFor
  BY DEF Init, AccountedFor
<1>2. DeliveryInv /\ AccountedFor /\ [Next]_vars => AccountedFor'
  <2> SUFFICES ASSUME DeliveryInv, AccountedFor, [Next]_vars, NEW f \in seen'
               PROVE  Traced(f)'
    BY DEF AccountedFor, Traced, Gone
  <2>0. f \in seen => Traced(f)
    BY DEF AccountedFor, Traced, Gone
  <2>1. Cameras \subseteq Tasks /\ Flusher \in Tasks
    BY DEF Tasks
  <2>2. ASSUME NEW c \in Cameras, NEW g \in Frames, TakeFrame(c, g) PROVE Traced(f)'
    <3>1. c \in Tasks /\ StartUpload(c, g) /\ task[c].pc = "idle"
      BY <2>1, <2>2 DEF TakeFrame
    <3>2. /\ \A u \in Tasks \ {c} : task'[u] = task[u]
          /\ \/ \E r \in Reasons : gone' = gone \union {<<g, r>>}
             \/ task'[c].frame = g /\ gone' = gone
      BY <3>1, StartUploadEffect DEF DeliveryInv
    <3>3. /\ stored' = stored /\ queue' = queue /\ gone \subseteq gone'
          /\ seen' = seen \union {g}
      BY <2>2, <3>2 DEF TakeFrame
    <3>4. CASE f = g
      BY <3>1, <3>2, <3>4 DEF Traced, Held, Gone
    <3>5. CASE f \in seen
      <4>1. task[c].frame # f
        <5>1. TaskOK(task[c], seen) /\ f \in Frames
          BY <3>1, <3>5 DEF DeliveryInv, TasksOK, TypeOK
        <5> QED
          BY <3>1, <5>1, FrameFacts DEF TaskOK
      <4>2. Queued(f) => Queued(f)'
        BY <3>3 DEF Queued
      <4> QED
        BY <2>0, <3>1, <3>2, <3>3, <3>5, <4>1, <4>2, OthersHold, StoredGoneStay DEF Traced
    <3> QED
      BY <3>3, <3>4, <3>5
  <2>3. ASSUME NEW t \in Tasks, UploadStep(t) \/ Rejected(t) \/ ServerError(t) PROVE Traced(f)'
    <3>1. seen' = seen
      BY <2>3 DEF UploadStep, Accepted, NetworkError, Retry, Rejected, ServerError, history
    <3> QED
      BY <2>0, <2>3, <3>1, UploadTraces
  <2>4. ASSUME NEW c \in Cameras,
               Check(c) \/ CheckFails(c) \/ Evict(c) \/ Push(c) \/ PushBreaks(c)
        PROVE  Traced(f)'
    <3>1. seen' = seen
      BY <2>4 DEF Check, CheckFails, Evict, Push, PushBreaks, history
    <3> QED
      BY <2>0, <2>4, <3>1, BufferTraces
  <2>5. CASE FlushStart \/ FlushEnd \/ Pop \/ PopBreaks
    <3>1. seen' = seen
      BY <2>5 DEF FlushStart, FlushEnd, Pop, PopBreaks, history
    <3> QED
      BY <2>0, <2>5, <3>1, FlushTraces
  <2>6. CASE Crash
    <3>1. /\ seen' = seen /\ stored' = stored /\ queue' = queue
          /\ gone' = gone \union {<<task[t].frame, "dropped">> :
                                     t \in {u \in Tasks : task[u].frame # NoFrame}}
      BY <2>6 DEF Crash
    <3>2. f # NoFrame
      BY <3>1, FrameFacts DEF DeliveryInv, TypeOK
    <3>3. Held(f) => Gone(f)'
      BY <3>1, <3>2 DEF Held, Gone, Reasons
    <3> QED
      BY <2>0, <3>1, <3>3 DEF Traced, Stored, Queued, Gone
  <2>7. ASSUME UNCHANGED <<task, queue, stored, seen, gone>> PROVE Traced(f)'
    BY <2>0, <2>7 DEF Traced, Stored, Queued, Held, Gone
  <2>8. CASE \/ OtherCall \/ UNCHANGED vars
             \/ \E c \in Cameras : MinutePasses(c)
             \/ \E u \in Urls : Outage(u) \/ Recovery(u)
    BY <2>7, <2>8 DEF OtherCall, MinutePasses, Outage, Recovery, vars, history
  <2> QED
    BY <2>1, <2>2, <2>3, <2>4, <2>5, <2>6, <2>8 DEF Next, CameraStep, FlushStep
<1> QED
  BY <1>1, <1>2, DeliveryTypeCorrect, PTL DEF Spec

-----------------------------------------------------------------------------
(* Limits *)

Pushing == {c \in Cameras : task[c].pc = "push"}
BufferLimit ==
  Len(queue) + Cardinality(Pushing) <= Capacity + Cardinality(Cameras) - 1 + unchecked

\* The numbers of the limit.
LEMMA Counts ==
  ASSUME TypeOK
  PROVE  /\ Len(queue) \in Nat /\ unchecked \in Nat /\ Cardinality(Cameras) \in Nat
         /\ IsFiniteSet(Pushing) /\ Cardinality(Pushing) \in Nat
         /\ Cardinality(Pushing) <= Cardinality(Cameras)
<1>1. IsFiniteSet(Cameras) /\ Pushing \in SUBSET Cameras
  BY DeliveryAssumption DEF Pushing
<1>2. Len(queue) \in Nat /\ unchecked \in Nat
  BY Settings DEF TypeOK
<1> QED
  BY <1>1, <1>2, FS_CardinalityType, FS_Subset

\* A camera that gets to its push is one more, one that leaves it is one fewer.
LEMMA PushingChanges ==
  ASSUME TypeOK, NEW t \in Tasks, \A u \in Tasks \ {t} : task'[u] = task[u]
  PROVE  /\ task[t].pc # "push" /\ task'[t].pc # "push" => Pushing' = Pushing
         /\ t \in Cameras /\ task[t].pc # "push" /\ task'[t].pc = "push" =>
              Cardinality(Pushing') = Cardinality(Pushing) + 1
         /\ t \in Cameras /\ task[t].pc = "push" /\ task'[t].pc # "push" =>
              Cardinality(Pushing') = Cardinality(Pushing) - 1
<1>1. Cameras \subseteq Tasks /\ IsFiniteSet(Pushing)
  BY Counts DEF Tasks
<1>2. \A c \in Cameras \ {t} : c \in Pushing' <=> c \in Pushing
  BY <1>1 DEF Pushing
<1>3. Pushing \subseteq Cameras /\ Pushing' \subseteq Cameras
  BY DEF Pushing
<1>4. task[t].pc # "push" /\ task'[t].pc # "push" => Pushing' = Pushing
  BY <1>2, <1>3 DEF Pushing
<1>5. ASSUME t \in Cameras, task[t].pc # "push", task'[t].pc = "push"
      PROVE  Cardinality(Pushing') = Cardinality(Pushing) + 1
  <2>1. Pushing' = Pushing \union {t} /\ t \notin Pushing
    BY <1>2, <1>3, <1>5 DEF Pushing
  <2> QED
    BY <1>1, <2>1, FS_AddElement
<1>6. ASSUME t \in Cameras, task[t].pc = "push", task'[t].pc # "push"
      PROVE  Cardinality(Pushing') = Cardinality(Pushing) - 1
  <2>1. Pushing' = Pushing \ {t} /\ t \in Pushing
    BY <1>2, <1>3, <1>6 DEF Pushing
  <2> QED
    BY <1>1, <2>1, FS_RemoveElement
<1> QED
  BY <1>4, <1>5, <1>6

\* Steps that neither come from a push nor get to one, and add nothing to the buffer.
LEMMA NoPush ==
  ASSUME TypeOK, TypeOK', BufferLimit, NEW t \in Tasks,
         \A u \in Tasks \ {t} : task'[u] = task[u],
         task[t].pc # "push", task'[t].pc # "push",
         Len(queue') <= Len(queue), unchecked' = unchecked
  PROVE  BufferLimit'
<1>1. Pushing' = Pushing
  BY PushingChanges
<1>2. Len(queue) \in Nat /\ Len(queue') \in Nat /\ unchecked \in Nat
      /\ Cardinality(Cameras) \in Nat /\ Cardinality(Pushing) \in Nat
  BY Counts
<1>3. Len(queue') \in Nat
  BY DEF TypeOK
<1>4. Len(queue') + Cardinality(Pushing) <= Capacity + Cardinality(Cameras) - 1 + unchecked
  BY <1>2, <1>3, Settings DEF BufferLimit
<1> QED
  BY <1>1, <1>4 DEF BufferLimit

\* The steps of a camera loop that buffers its frame keep the limit.
LEMMA BufferLimitKept ==
  ASSUME DeliveryInv, DeliveryInv', BufferLimit, NEW c \in Cameras,
         Check(c) \/ CheckFails(c) \/ Evict(c) \/ Push(c) \/ PushBreaks(c)
  PROVE  BufferLimit'
<1> USE DEF DeliveryInv
<1>1. /\ c \in Tasks /\ task \in [Tasks -> Task] /\ task[c] \in Task /\ TaskOK(task[c], seen)
      /\ IdleTask.pc = "idle"
  BY TaskStates DEF TypeOK, TasksOK, Tasks
<1>2. \A u \in Tasks \ {c} : task'[u] = task[u]
  BY <1>1 DEF Check, CheckFails, Evict, Push, PushBreaks, Go
<1>3. \A p, n : Go(c, p, n) => task'[c].pc = p
  BY <1>1 DEF Go, Task
<1>4. /\ Len(queue) \in Nat /\ unchecked \in Nat /\ Cardinality(Cameras) \in Nat
      /\ Cardinality(Pushing) \in Nat
  BY Counts
<1>5. /\ Len(queue') \in Nat /\ unchecked' \in Nat /\ Cardinality(Pushing') \in Nat
      /\ Cardinality(Pushing') <= Cardinality(Cameras)
  <2>1. IsFiniteSet(Cameras) /\ Pushing' \in SUBSET Cameras
    BY DeliveryAssumption DEF Pushing
  <2>2. Len(queue') \in Nat /\ unchecked' \in Nat
    BY Settings DEF TypeOK
  <2> QED
    BY <2>1, <2>2, FS_CardinalityType, FS_Subset
<1>6. CASE Check(c)
  <2>1. queue' = queue /\ unchecked' = unchecked /\ task[c].pc # "push"
    BY <1>6 DEF Check, history
  <2>2. CASE EvictCount > 0
    <3>1. task'[c].pc # "push"
      BY <1>3, <1>6, <2>2 DEF Check
    <3> QED
      BY <1>1, <1>2, <1>4, <2>1, <3>1, NoPush
  <2>3. CASE ~(EvictCount > 0)
    <3>1. Len(queue) < Capacity
      BY <1>4, <2>3, Settings DEF EvictCount
    <3> QED
      BY <1>4, <1>5, <2>1, <3>1, Settings DEF BufferLimit
  <2> QED
    BY <2>2, <2>3
<1>7. CASE CheckFails(c)
  <2>1. /\ queue' = queue /\ unchecked' = unchecked + 1
        /\ task[c].pc # "push" /\ task'[c].pc = "push"
    BY <1>3, <1>7 DEF CheckFails
  <2>2. Cardinality(Pushing') = Cardinality(Pushing) + 1
    BY <1>1, <1>2, <2>1, PushingChanges
  <2> QED
    BY <1>4, <2>1, <2>2, Settings DEF BufferLimit
<1>8. CASE Evict(c)
  <2> PICK n : n = task[c].room
    OBVIOUS
  <2>1. n \in Nat /\ n >= 1
    BY <1>1, <1>8, Settings DEF Evict, Task, TaskOK
  <2>2. /\ Len(queue') = IF n <= Len(queue) THEN Len(queue) - n ELSE 0
        /\ unchecked' = unchecked /\ task[c].pc # "push" /\ task'[c].pc = "push"
    BY <1>3, <1>8, <2>1, EvictFromQueue DEF Evict
  <2>3. Cardinality(Pushing') = Cardinality(Pushing) + 1
    BY <1>1, <1>2, <2>2, PushingChanges
  <2>4. CASE n <= Len(queue)
    <3>1. Len(queue') = Len(queue) - n /\ unchecked' = unchecked
      BY <2>2, <2>4
    <3> QED
      <4>1. Len(queue') + Cardinality(Pushing') <= Len(queue) + Cardinality(Pushing)
        BY <1>4, <2>1, <2>3, <3>1, SMTT(30)
      <4>2. Len(queue) + Cardinality(Pushing) <= Capacity + Cardinality(Cameras) - 1 + unchecked'
        BY <3>1 DEF BufferLimit
      <4> QED
        BY <1>4, <1>5, <4>1, <4>2, Settings DEF BufferLimit
  <2>5. CASE ~(n <= Len(queue))
    <3>1. Len(queue') = 0 /\ unchecked' = unchecked
      BY <2>2, <2>5
    <3> QED
      BY <1>4, <1>5, <3>1, Settings DEF BufferLimit
  <2> QED
    BY <2>4, <2>5
<1>9. CASE Push(c) \/ PushBreaks(c)
  <2>1. /\ task[c].pc = "push" /\ task'[c].pc # "push" /\ unchecked' = unchecked
    <3>1. task[c].pc = "push" /\ unchecked' = unchecked
      <4>1. Push(c) => task[c].pc = "push" /\ unchecked' = unchecked
        BY DEF Push, history
      <4>2. PushBreaks(c) => task[c].pc = "push" /\ unchecked' = unchecked
        BY DEF PushBreaks
      <4> QED
        BY <1>9, <4>1, <4>2
    <3>2. CASE task' = [task EXCEPT ![c] = IdleTask]
      BY <1>1, <3>1, <3>2
    <3>3. CASE task' = [task EXCEPT ![c].pc = "check", ![c].attempt = 1]
      <4>1. task'[c] = [task[c] EXCEPT !.pc = "check", !.attempt = 1]
        BY <1>1, <3>3
      <4> QED
        BY <1>1, <3>1, <4>1 DEF Task
    <3> QED
      BY <1>9, <3>2, <3>3 DEF Push, PushBreaks
  <2>2. Len(queue') <= Len(queue) + 1
    <3>1. task[c].frame \in Frames
      BY <1>1, <2>1 DEF TaskOK, Task
    <3>2. Len(Append(queue, task[c].frame)) = Len(queue) + 1
      BY <3>1, AppendToQueue
    <3> QED
      BY <1>4, <1>9, <3>2 DEF Push, PushBreaks
  <2>3. Cardinality(Pushing') = Cardinality(Pushing) - 1
    BY <1>1, <1>2, <2>1, PushingChanges
  <2> QED
    BY <1>4, <1>5, <2>1, <2>2, <2>3, Settings, SMTT(30) DEF BufferLimit
<1> QED
  BY <1>6, <1>7, <1>8, <1>9

\* No camera uploads more than MaxPerMin frames in a minute (_rate_limited), and
\* the buffer passes its capacity by no more than a frame per camera task and one
\* per failed check (buffer.push), whatever the tasks do between reading the
\* length, evicting and appending.
THEOREM WithinLimitsCorrect == Spec => []WithinLimits
<1>1. Init => BufferLimit
  <2> SUFFICES ASSUME Init PROVE BufferLimit
    OBVIOUS
  <2>1. Pushing = {} /\ Len(queue) = 0 /\ unchecked = 0 /\ Cardinality({}) = 0
    BY FS_EmptySet DEF Init, Pushing, IdleTask, Tasks
  <2>2. Cardinality(Cameras) \in Nat
    BY DeliveryAssumption, FS_CardinalityType
  <2> QED
    BY <2>1, <2>2, Settings DEF BufferLimit
<1>2. DeliveryInv /\ DeliveryInv' /\ BufferLimit /\ [Next]_vars => BufferLimit'
  <2> SUFFICES ASSUME DeliveryInv, DeliveryInv', BufferLimit, [Next]_vars PROVE BufferLimit'
    OBVIOUS
  <2>0. /\ TypeOK /\ TypeOK' /\ Len(queue) \in Nat /\ unchecked \in Nat
        /\ Cameras \subseteq Tasks /\ Flusher \in Tasks /\ task \in [Tasks -> Task]
    BY Counts DEF DeliveryInv, TypeOK, Tasks
  <2>1. ASSUME NEW c \in Cameras, NEW f \in Frames, TakeFrame(c, f) PROVE BufferLimit'
    <3>1. /\ c \in Tasks /\ StartUpload(c, f) /\ task[c].pc = "idle"
          /\ queue' = queue /\ unchecked' = unchecked
      BY <2>0, <2>1 DEF TakeFrame
    <3>2. /\ \A u \in Tasks \ {c} : task'[u] = task[u]
          /\ task'[c].pc # "push"
      BY <2>0, <3>1, StartUploadEffect
    <3> QED
      BY <2>0, <3>1, <3>2, NoPush
  <2>2. ASSUME NEW t \in Tasks, UploadStep(t) \/ Rejected(t) \/ ServerError(t) PROVE BufferLimit'
    <3>1. /\ task[t].pc \in {"post", "sleep"} /\ task[t].frame # NoFrame
          /\ queue' = queue /\ unchecked' = unchecked
      <4>1. /\ task[t].pc \in {"post", "sleep"}
            /\ queue' = queue /\ unchecked' = unchecked
        BY <2>2 DEF UploadStep, Accepted, NetworkError, Retry, Rejected, ServerError,
               Reaches, Posting, history
      <4> QED
        BY <4>1 DEF DeliveryInv, TasksOK, TaskOK
    <3>2. Failed(t) => /\ \A u \in Tasks \ {t} : task'[u] = task[u]
                       /\ task'[t].pc # "push"
      BY <2>0, <3>1, FailedEffect
    <3>3. CASE Accepted(t)
      <4>1. /\ \A u \in Tasks \ {t} : task'[u] = task[u]
            /\ task'[t] = After(t)
        BY <2>0, <3>3 DEF Accepted
      <4>2. task'[t].pc # "push"
        BY <4>1, TaskStates
      <4> QED
        BY <2>0, <3>1, <4>1, <4>2, NoPush
    <3>4. CASE Failed(t)
      BY <2>0, <3>1, <3>2, <3>4, NoPush
    <3>5. CASE \/ task' = [task EXCEPT ![t].pc = "sleep"]
               \/ task' = [task EXCEPT ![t].pc = "post", ![t].attempt = @ + 1, ![t].url = Active]
      <4>1. /\ \A u \in Tasks \ {t} : task'[u] = task[u]
            /\ task'[t].pc # "push"
        <5>1. /\ task[t] \in Task
              /\ \A u \in Tasks \ {t} : task'[u] = task[u]
              /\ \/ task'[t] = [task[t] EXCEPT !.pc = "sleep"]
                 \/ task'[t] = [task[t] EXCEPT !.pc = "post", !.attempt = task[t].attempt + 1,
                                             !.url = Active]
          BY <2>0, <3>5 DEF Task
        <5> QED
          BY <5>1 DEF Task
      <4> QED
        BY <2>0, <3>1, <4>1, NoPush
    <3> QED
      BY <2>2, <3>3, <3>4, <3>5 DEF UploadStep, NetworkError, Retry, Rejected, ServerError
  <2>3. CASE FlushStart \/ FlushEnd \/ Pop \/ PopBreaks
    <3>1. /\ task[Flusher].pc \in {"idle", "pop"} /\ unchecked' = unchecked
      BY <2>3 DEF FlushStart, FlushEnd, Pop, PopBreaks, history
    <3>2. Len(queue') <= Len(queue)
      BY <2>0, <2>3, TailOfQueue DEF FlushStart, FlushEnd, Pop, PopBreaks, DeliveryInv
    <3>3. /\ \A u \in Tasks \ {Flusher} : task'[u] = task[u]
          /\ task'[Flusher].pc # "push"
      <4>1. CASE Pop
        <5>1. Head(queue) \in Frames /\ StartUpload(Flusher, Head(queue))
          BY <4>1, TailOfQueue DEF Pop, DeliveryInv
        <5> QED
          BY <2>0, <5>1, StartUploadEffect
      <4>2. CASE ~Pop
        <5>1. \/ task' = [task EXCEPT ![Flusher] = IdleTask]
              \/ task' = [task EXCEPT ![Flusher].pc = "pop"]
              \/ task' = [task EXCEPT ![Flusher].attempt = 1]
          BY <2>3, <4>2 DEF FlushStart, FlushEnd, PopBreaks
        <5>2. /\ task[Flusher] \in Task
              /\ \A u \in Tasks \ {Flusher} : task'[u] = task[u]
              /\ \/ task'[Flusher] = IdleTask
                 \/ task'[Flusher] = [task[Flusher] EXCEPT !.pc = "pop"]
                 \/ task'[Flusher] = [task[Flusher] EXCEPT !.attempt = 1]
          BY <2>0, <5>1
        <5>3. CASE task'[Flusher] = IdleTask
          BY <5>2, <5>3, TaskStates
        <5>4. CASE task'[Flusher] = [task[Flusher] EXCEPT !.pc = "pop"]
          <6>1. task'[Flusher].pc = "pop"
            BY <5>2, <5>4 DEF Task
          <6> QED
            BY <5>2, <6>1
        <5>5. CASE task'[Flusher] = [task[Flusher] EXCEPT !.attempt = 1]
          <6>1. task'[Flusher].pc = task[Flusher].pc
            BY <5>2, <5>5 DEF Task
          <6> QED
            BY <3>1, <5>2, <6>1
        <5> QED
          BY <5>2, <5>3, <5>4, <5>5
      <4> QED
        BY <4>1, <4>2
    <3> QED
      BY <2>0, <3>1, <3>2, <3>3, NoPush
  <2>4. CASE Crash
    <3>1. queue' = queue /\ unchecked' = unchecked /\ Pushing' = {} /\ Cardinality({}) = 0
      BY <2>0, <2>4, FS_EmptySet DEF Crash, Pushing, IdleTask
    <3>2. Cardinality(Pushing) \in Nat /\ Cardinality(Cameras) \in Nat
      BY <2>0, Counts
    <3> QED
      BY <2>0, <3>1, <3>2, Settings DEF BufferLimit
  <2>5. CASE UNCHANGED <<task, queue, unchecked>>
    BY <2>5 DEF BufferLimit, Pushing
  <2>6. CASE \/ OtherCall \/ UNCHANGED vars
             \/ \E c \in Cameras : MinutePasses(c)
             \/ \E u \in Urls : Outage(u) \/ Recovery(u)
    BY <2>5, <2>6 DEF OtherCall, MinutePasses, Outage, Recovery, vars, history
  <2> QED
    BY <2>0, <2>1, <2>2, <2>3, <2>4, <2>6, BufferLimitKept DEF Next, CameraStep, FlushStep
<1>3. DeliveryInv /\ BufferLimit => WithinLimits
  BY Settings DEF DeliveryInv, TypeOK, BufferLimit, Pushing, WithinLimits
<1> QED
  BY <1>1, <1>2, <1>3, DeliveryTypeCorrect, PTL DEF Spec
=============================================================================
