------------------------------ MODULE Notifications ------------------------------
(***************************************************************************)
(* The notifications of one incident: services/notification_service.py     *)
(* finds the rules that match, records deliveries and queues one task for  *)
(* each recipient; workers/notification_worker.py carries the tasks out    *)
(* behind a circuit breaker, with retries, and workers/dead_letter.py      *)
(* keeps those that failed for good.  A rule here has one recipient.       *)
(*                                                                         *)
(* Not in the model: the check of a user's preferences, which looks for a  *)
(* field fcm_token no document has and so lets everything pass.            *)
(***************************************************************************)
EXTENDS Naturals, Sequences, FiniteSets

CONSTANTS
  Rules,       \* identifiers of rules
  SevereOnly,  \* rules that ask for a severity the incident has not at first
  Dispatchers, \* dispatch_notifications calls that can be under way at a time
  LockWindow,  \* INCIDENT_DISPATCH_LOCK_SECONDS
  DedupWindow, \* INCIDENT_DEDUP_WINDOW_SECONDS
  Threshold,   \* failures that open the circuit
  MaxTries,    \* max_retries of a task, and the first try
  MaxTasks,    \* bound on queued tasks
  DeadLimit,   \* DLQ_MAX_SIZE
  MaxDeaths    \* bound on processes that die

ASSUME NotificationAssumption ==
  /\ SevereOnly \subseteq Rules
  /\ {LockWindow, DedupWindow, Threshold, MaxTries, MaxTasks, DeadLimit, MaxDeaths} \subseteq Nat
  /\ LockWindow <= DedupWindow
  /\ MaxTries > 0

VARIABLES
  active,    \* rules that are active
  severe,    \* the incident's severity was upgraded
  sinceSent,       \* for each rule, the time since its last delivery recorded as sent
  dispatch,  \* what each dispatch is doing
  disturbed, \* dispatches that overlapped another one, and all after a death
  tasks,     \* the tasks ever queued
  breaker,   \* failures, and whether open_until is still to come
  dead,      \* the dead letter queue, newest first
  deaths

notificationVars == <<active, severe, sinceSent, dispatch, disturbed, tasks, breaker, dead, deaths>>

LongAgo == DedupWindow + 1
NoDispatch == [at |-> "idle", todo |-> {}, sent |-> {}, done |-> {}]
Running == {d \in Dispatchers : dispatch[d].at # "idle"}

NotificationTypeOK ==
  /\ active \subseteq Rules /\ severe \in BOOLEAN
  /\ sinceSent \in [Rules -> 0 .. LongAgo]
  /\ dispatch \in [Dispatchers -> [at : {"idle", "rules", "sent", "each", "record"},
                                   todo : SUBSET Rules, sent : SUBSET Rules,
                                   done : SUBSET Rules]]
  /\ disturbed \subseteq Dispatchers
  /\ Len(tasks) <= MaxTasks
  /\ \A t \in DOMAIN tasks : tasks[t] \in [rule : Rules, tries : 0 .. MaxTries,
       state : {"queued", "running", "sent", "dropped", "dead"}]
  /\ breaker \in [failures : Nat, open : BOOLEAN]
  /\ Len(dead) <= DeadLimit
  /\ deaths \in 0 .. MaxDeaths

NotificationInit ==
  /\ active \in SUBSET Rules
  /\ severe = FALSE
  /\ sinceSent = [r \in Rules |-> LongAgo]
  /\ dispatch = [d \in Dispatchers |-> NoDispatch]
  /\ disturbed = {}
  /\ tasks = <<>>
  /\ breaker = [failures |-> 0, open |-> FALSE]
  /\ dead = <<>> /\ deaths = 0

-------------------------------------------------------------------------------
(* Rules and the incident *)

ToggleRule(r) ==
  /\ active' = IF r \in active THEN active \ {r} ELSE active \cup {r}
  /\ UNCHANGED <<severe, sinceSent, dispatch, disturbed, tasks, breaker, dead, deaths>>
Upgrade ==
  /\ ~severe /\ severe' = TRUE
  /\ UNCHANGED <<active, sinceSent, dispatch, disturbed, tasks, breaker, dead, deaths>>
\* Time passes; a dispatch takes none on this scale
Wait ==
  /\ Running = {}
  /\ \E r \in Rules : sinceSent[r] < LongAgo
  /\ sinceSent' = [r \in Rules |-> IF sinceSent[r] < LongAgo THEN sinceSent[r] + 1 ELSE sinceSent[r]]
  /\ UNCHANGED <<active, severe, dispatch, disturbed, tasks, breaker, dead, deaths>>

-------------------------------------------------------------------------------
(* dispatch_notifications *)

\* The dispatch lock: any recent delivery of the incident ends the call
BeginDispatch(d) ==
  /\ dispatch[d].at = "idle" /\ Len(tasks) < MaxTasks
  /\ \A r \in Rules : sinceSent[r] > LockWindow
  /\ dispatch' = [dispatch EXCEPT ![d].at = "rules"]
  /\ disturbed' = IF Running = {} THEN disturbed \ {d} ELSE disturbed \cup Running \cup {d}
  /\ UNCHANGED <<active, severe, sinceSent, tasks, breaker, dead, deaths>>
FindRules(d) ==
  /\ dispatch[d].at = "rules"
  /\ dispatch' = [dispatch EXCEPT ![d].at = "sent",
                    ![d].todo = IF severe THEN active ELSE active \ SevereOnly]
  /\ UNCHANGED <<active, severe, sinceSent, disturbed, tasks, breaker, dead, deaths>>
\* (mutant) the wrong one of the two windows
FindSent_LockWindow(d) ==
  /\ dispatch[d].at = "sent"
  /\ dispatch' = [dispatch EXCEPT ![d].at = "each",
                    ![d].sent = {r \in Rules : sinceSent[r] <= LockWindow}]
  /\ UNCHANGED <<active, severe, sinceSent, disturbed, tasks, breaker, dead, deaths>>
\* What was sent lately is read once, for all rules
FindSent(d) ==
  /\ dispatch[d].at = "sent"
  /\ dispatch' = [dispatch EXCEPT ![d].at = "each",
                    ![d].sent = {r \in Rules : sinceSent[r] <= DedupWindow}]
  /\ UNCHANGED <<active, severe, sinceSent, disturbed, tasks, breaker, dead, deaths>>

\* One rule: passed over (thresholds, scope, quiet hours, already sent, or the
\* broker did not take the task) ...
SkipRule(d, r) ==
  /\ dispatch[d].at = "each" /\ r \in dispatch[d].todo
  /\ dispatch' = [dispatch EXCEPT ![d].todo = @ \ {r}]
  /\ UNCHANGED <<active, severe, sinceSent, disturbed, tasks, breaker, dead, deaths>>
\* ... or queued, and then recorded as sent
QueueTask(d, r) ==
  /\ dispatch[d].at = "each" /\ r \in dispatch[d].todo \ dispatch[d].sent
  /\ Len(tasks) < MaxTasks
  /\ tasks' = Append(tasks, [rule |-> r, tries |-> 0, state |-> "queued"])
  /\ dispatch' = [dispatch EXCEPT ![d].at = "record", ![d].todo = @ \ {r},
                                  ![d].sent = @ \cup {r}, ![d].done = {r}]
  /\ UNCHANGED <<active, severe, sinceSent, disturbed, breaker, dead, deaths>>
RecordSent(d) ==
  /\ dispatch[d].at = "record"
  /\ sinceSent' = [r \in Rules |-> IF r \in dispatch[d].done THEN 0 ELSE sinceSent[r]]
  /\ dispatch' = [dispatch EXCEPT ![d].at = "each", ![d].done = {}]
  /\ UNCHANGED <<active, severe, disturbed, tasks, breaker, dead, deaths>>
EndDispatch(d) ==
  /\ dispatch[d].at = "each" /\ dispatch[d].todo = {}
  /\ dispatch' = [dispatch EXCEPT ![d] = NoDispatch]
  /\ UNCHANGED <<active, severe, sinceSent, disturbed, tasks, breaker, dead, deaths>>
\* The process of the call dies
DispatchDies(d) ==
  /\ dispatch[d].at # "idle" /\ deaths < MaxDeaths
  /\ deaths' = deaths + 1
  /\ dispatch' = [dispatch EXCEPT ![d] = NoDispatch]
  /\ disturbed' = Dispatchers
  /\ UNCHANGED <<active, severe, sinceSent, tasks, breaker, dead>>

-------------------------------------------------------------------------------
(* The workers; one process, so one circuit breaker *)

Settled(t, s) == tasks' = [tasks EXCEPT ![t].state = s]

\* The circuit is looked at first: with an open one the task is dropped
StartTask(t) ==
  /\ tasks[t].state = "queued"
  /\ \A u \in DOMAIN tasks : tasks[u].state # "running"
  /\ Settled(t, IF breaker.open THEN "dropped" ELSE "running")
  /\ UNCHANGED <<active, severe, sinceSent, dispatch, disturbed, breaker, dead, deaths>>
TaskSucceeds(t) ==
  /\ tasks[t].state = "running"
  /\ Settled(t, "sent")
  /\ breaker' = [breaker EXCEPT !.failures = 0]
  /\ UNCHANGED <<active, severe, sinceSent, dispatch, disturbed, dead, deaths>>
\* Channel not configured, address refused, token unknown to FCM: given up, and the
\* breaker is not told
TaskSkipped(t) ==
  /\ tasks[t].state = "running"
  /\ Settled(t, "dropped")
  /\ UNCHANGED <<active, severe, sinceSent, dispatch, disturbed, breaker, dead, deaths>>

CountFailure ==
  breaker' = [failures |-> IF breaker.failures < Threshold THEN breaker.failures + 1 ELSE Threshold,
              open |-> breaker.failures + 1 >= Threshold]
\* Connection refused, client error, error of FCM: a failure that is not tried again
TaskRefused(t) ==
  /\ tasks[t].state = "running"
  /\ CountFailure /\ Settled(t, "dropped")
  /\ UNCHANGED <<active, severe, sinceSent, dispatch, disturbed, dead, deaths>>
\* Any other error; after the last try the task is a dead letter
Buried(t) == SubSeq(<<t>> \o dead, 1, IF Len(dead) < DeadLimit THEN Len(dead) + 1 ELSE DeadLimit)
TaskFails(t) ==
  /\ tasks[t].state = "running"
  /\ CountFailure
  /\ LET last == tasks[t].tries + 1 = MaxTries IN
     /\ tasks' = [tasks EXCEPT ![t].tries = @ + 1, ![t].state = IF last THEN "dead" ELSE "queued"]
     /\ dead' = IF last THEN Buried(t) ELSE dead
  /\ UNCHANGED <<active, severe, sinceSent, dispatch, disturbed, deaths>>
\* The worker dies with the task, which is late to be acknowledged: it comes again,
\* and the breaker of the new process is closed
WorkerDies(t) ==
  /\ tasks[t].state = "running" /\ deaths < MaxDeaths
  /\ deaths' = deaths + 1
  /\ Settled(t, "queued")
  /\ breaker' = [failures |-> 0, open |-> FALSE]
  /\ UNCHANGED <<active, severe, sinceSent, dispatch, disturbed, dead>>
\* open_until has come; the count of failures stays
Recover ==
  /\ breaker.open /\ breaker' = [breaker EXCEPT !.open = FALSE]
  /\ UNCHANGED <<active, severe, sinceSent, dispatch, disturbed, tasks, dead, deaths>>
\* replay_dead_letter: the oldest is queued anew, from its first try on
Replay ==
  /\ dead # <<>>
  /\ dead' = SubSeq(dead, 1, Len(dead) - 1)
  /\ tasks' = [tasks EXCEPT ![dead[Len(dead)]] = [@ EXCEPT !.state = "queued", !.tries = 0]]
  /\ UNCHANGED <<active, severe, sinceSent, dispatch, disturbed, breaker, deaths>>

NotificationNext ==
  \/ \E r \in Rules : ToggleRule(r)
  \/ \E d \in Dispatchers :
       \/ BeginDispatch(d) \/ FindRules(d) \/ FindSent(d)
       \/ \E r \in Rules : SkipRule(d, r) \/ QueueTask(d, r)
       \/ RecordSent(d) \/ EndDispatch(d) \/ DispatchDies(d)
  \/ \E t \in DOMAIN tasks :
       \/ StartTask(t) \/ TaskSucceeds(t) \/ TaskSkipped(t) \/ TaskRefused(t)
       \/ TaskFails(t) \/ WorkerDies(t)
  \/ Upgrade \/ Wait \/ Recover \/ Replay

NotificationSpec == NotificationInit /\ [][NotificationNext]_notificationVars
-------------------------------------------------------------------------------
(* Properties *)

\* A call that no other one overlapped queues nothing for a rule that had a
\* delivery recorded within the window, although it read what was sent long before
\* it queues and reads of rules, upgrades and toggles lie in between.
QuietWithinWindow ==
  [][\A d \in Dispatchers \ disturbed :
       \A r \in dispatch'[d].done \ dispatch[d].done : sinceSent[r] > DedupWindow]_notificationVars
===============================================================================
