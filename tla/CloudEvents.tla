----------------------------- MODULE CloudEvents -----------------------------
(***************************************************************************)
(* The cloud's `events` collection and the code that writes it directly:   *)
(* incident_service.create_or_update_incident for uploaded detections      *)
(* (backend/app/services/incident_service.py), the acknowledge and resolve *)
(* endpoints, and the periodic auto-close worker                           *)
(* (backend/app/workers/incident_worker.py).                               *)
(*                                                                         *)
(* Each handler is a coroutine on a shared MongoDB: a document operation   *)
(* is atomic, what lies between two awaited operations is not, so          *)
(* a grouped detection is a find followed by a separate write, and the     *)
(* auto-close worker a listing followed by one write per listed event.     *)
(* An event keeps what grouping and synchronisation tell apart; confidence,*)
(* area, severity, notes and the people involved are left out.             *)
(***************************************************************************)
EXTENDS Common

CONSTANTS
  EventIds,          \* ids of events; bounds how many are ever created
  Uploads,           \* detections uploaded to /frame or /detection, each handled once
  CloudWindow,       \* incident_grouping_window_seconds, in clock ticks
  CloudAutoClose     \* auto_close_after_minutes, in clock ticks; 0 disables it

NoInc == 0    \* edge_incident_id is absent
NoEvent == 0  \* find_one returned None

ASSUME CloudAssumption ==
  /\ EventIds \subseteq Nat \ {0}
  /\ CloudWindow \in Nat /\ CloudAutoClose \in Nat

VARIABLES
  events,   \* EventIds -> event document; status "none" when not inserted
  upload,   \* Uploads -> state of the handler of that detection
  closing   \* ids the running auto-close task has listed and not yet written

cloudVars == <<now, events, upload, closing>>

OpenStatus == {"new", "acknowledged"}
CloudStatus == OpenStatus \union {"resolved", "auto_resolved"}

Event == [status: CloudStatus \union {"none"}, cam: Cameras, cls: Classes,
          inc: IncIds \union {NoInc}, start: Nat, count: Nat]

NoDoc == [status |-> "none", cam |-> CHOOSE c \in Cameras : TRUE,
          cls |-> CHOOSE k \in Classes : TRUE, inc |-> NoInc, start |-> 0, count |-> 0]

\* An upload is waiting to be handled, has read the collection (and decided to
\* update `target` or, when it is NoEvent, to insert), is done, or was left out of
\* the events by the settings.  `apart` is whether its class is grouped separately.
Upload == [pc: {"waiting", "found", "done", "skipped"}, cam: Cameras, cls: Classes,
           apart: BOOLEAN, at: Nat, target: EventIds \union {NoEvent}]

Events == {v \in EventIds : events[v].status # "none"}
Open == {v \in Events : events[v].status \in OpenStatus}

CloudInit ==
  /\ now = 0
  /\ events = [v \in EventIds |-> NoDoc]
  /\ upload \in [Uploads -> [pc: {"waiting"}, cam: Cameras, cls: Classes,
                             apart: {FALSE}, at: {0}, target: {NoEvent}]]
  /\ closing = {}

\* insert_one under a fresh id
Insert(doc) ==
  \E v \in EventIds \ Events :
    /\ \A w \in EventIds \ Events : v <= w
    /\ events' = [events EXCEPT ![v] = doc]

-----------------------------------------------------------------------------
(* incident_service.create_or_update_incident *)

\* find_one(..., sort start_time descending) over a camera's open events
Latest(S, v) == v \in S /\ \A w \in S : events[w].start <= events[v].start

OpenOn(c) == {v \in Open : events[v].cam = c}

\* The query: a class that is grouped separately joins events of its own class only
Joinable(u, apart) ==
  {v \in OpenOn(upload[u].cam) : apart => events[v].cls = upload[u].cls}

\* (mutant) an acknowledged event is not looked for
FindOpenEvent_New(u) ==
  /\ upload[u].pc = "waiting"
  /\ \E apart \in BOOLEAN :
       LET candidates == {v \in Joinable(u, apart) : events[v].status = "new"} IN
       \/ \E v \in EventIds :
            /\ Latest(candidates, v)
            /\ now - events[v].start <= CloudWindow
            /\ upload' = [upload EXCEPT ![u].pc = "found", ![u].at = now,
                                        ![u].apart = apart, ![u].target = v]
       \/ /\ \A v \in candidates : now - events[v].start > CloudWindow
          /\ upload' = [upload EXCEPT ![u].pc = "found", ![u].at = now, ![u].apart = apart]
  /\ UNCHANGED <<now, events, closing>>

\* The find: the latest open event is the target if it is still inside the
\* grouping window; if it is not, no open event is.  Whether the class is `apart`
\* is read from the overrides of four scopes, which users change at any time and
\* whose failing lookup counts as none.
FindOpenEvent(u) ==
  /\ upload[u].pc = "waiting"
  /\ \E apart \in BOOLEAN :
       \/ \E v \in EventIds :
            /\ Latest(Joinable(u, apart), v)
            /\ now - events[v].start <= CloudWindow
            /\ upload' = [upload EXCEPT ![u].pc = "found", ![u].at = now,
                                        ![u].apart = apart, ![u].target = v]
       \/ /\ \A v \in Joinable(u, apart) : now - events[v].start > CloudWindow
          /\ upload' = [upload EXCEPT ![u].pc = "found", ![u].at = now, ![u].apart = apart]
  /\ UNCHANGED <<now, events, closing>>

\* auto_create_incident is off, or incident_enabled is for the class: no event
LeaveOut(u) ==
  /\ upload[u].pc = "waiting"
  /\ upload' = [upload EXCEPT ![u].pc = "skipped"]
  /\ UNCHANGED <<now, events, closing>>

\* ... nor is one created for a severity below min_severity_to_create
TooMild(u) ==
  /\ upload[u].pc = "found" /\ upload[u].target = NoEvent
  /\ upload' = [upload EXCEPT ![u].pc = "skipped"]
  /\ UNCHANGED <<now, events, closing>>

\* (mutant) the count of an update is that of a second detection, not incremented
UpdateEvent_NoInc(u) ==
  LET v == upload[u].target IN
  /\ upload[u].pc = "found" /\ v # NoEvent
  /\ events' = [events EXCEPT ![v].count = 2]
  /\ upload' = [upload EXCEPT ![u].pc = "done"]
  /\ UNCHANGED <<now, closing>>

\* find_one_and_update: the count is incremented in the database; the filter is
\* the id alone, so the event is updated whatever its status is by now
UpdateEvent(u) ==
  LET v == upload[u].target IN
  /\ upload[u].pc = "found" /\ v # NoEvent
  /\ events' = [events EXCEPT ![v].count = @ + 1]
  /\ upload' = [upload EXCEPT ![u].pc = "done"]
  /\ UNCHANGED <<now, closing>>

InsertEvent(u) ==
  /\ upload[u].pc = "found" /\ upload[u].target = NoEvent
  /\ Insert([status |-> "new", cam |-> upload[u].cam, cls |-> upload[u].cls,
             inc |-> NoInc, start |-> upload[u].at, count |-> 1])
  /\ upload' = [upload EXCEPT ![u].pc = "done"]
  /\ UNCHANGED <<now, closing>>

-----------------------------------------------------------------------------
(* Users and the auto-close worker *)

\* acknowledge_incident: the current status is not looked at
AcknowledgeEvent(v) ==
  /\ v \in Events
  /\ events' = [events EXCEPT ![v].status = "acknowledged"]
  /\ UNCHANGED <<now, upload, closing>>

\* (mutant) resolve_status is stored as the request gives it
ResolveEvent_FreeText(v) ==
  /\ v \in Events
  /\ \E s \in {"resolved", "closed"} : events' = [events EXCEPT ![v].status = s]
  /\ UNCHANGED <<now, upload, closing>>

\* resolve_incident
ResolveEvent(v) ==
  /\ v \in Events
  /\ events' = [events EXCEPT ![v].status = "resolved"]
  /\ UNCHANGED <<now, upload, closing>>

\* Requests for one event and for many: a bulk request is a sequence of these steps,
\* with awaits in between, and what fails is skipped
UserActs == \E v \in EventIds : AcknowledgeEvent(v) \/ ResolveEvent(v)

\* _async_auto_close, its find(): the open events past their deadline
ListStale ==
  /\ CloudAutoClose > 0
  /\ closing = {}
  /\ closing' = {v \in Open : events[v].start + CloudAutoClose <= now}
  /\ closing' # {}
  /\ UNCHANGED <<now, events, upload>>

\* ... and its update_one({"id": ...}) for each of them
AutoResolve(v) ==
  /\ v \in closing
  /\ events' = [events EXCEPT ![v].status = "auto_resolved"]
  /\ closing' = closing \ {v}
  /\ UNCHANGED <<now, upload>>

CloudStep ==
  \/ \E u \in Uploads : \/ FindOpenEvent(u) \/ UpdateEvent(u) \/ InsertEvent(u)
                        \/ LeaveOut(u) \/ TooMild(u)
  \/ UserActs
  \/ ListStale \/ \E v \in EventIds : AutoResolve(v)

CloudNext == CloudStep \/ (Tick /\ UNCHANGED <<events, upload, closing>>)

CloudSpec == CloudInit /\ [][CloudNext]_cloudVars

-----------------------------------------------------------------------------
(* Properties *)

CloudTypeOK ==
  /\ now \in Nat
  /\ events \in [EventIds -> Event]
  /\ upload \in [Uploads -> Upload]
  /\ closing \subseteq Events
  /\ \A u \in Uploads : upload[u].target # NoEvent => upload[u].target \in Events

Done(c) == {u \in Uploads : upload[u].pc = "done" /\ upload[u].cam = c}
EventsOf(c) == {v \in Events : events[v].cam = c}
\* What the counts of a camera's events add up to: each is numbered within its event
CountedOn(c) == UNION { {v} \X (1 .. events[v].count) : v \in EventsOf(c) }

\* Whatever handlers run concurrently on one camera, and whatever users and the
\* auto-close worker do meanwhile, every handled detection the settings do not leave
\* out is counted in exactly one event of its camera, and one they leave out in none:
\* the $inc of create_or_update_incident neither loses nor doubles a detection.
EveryUploadCountedOnce ==
  \A c \in Cameras :
    Cardinality(CountedOn(c)) = Cardinality(Done(c))
=============================================================================
