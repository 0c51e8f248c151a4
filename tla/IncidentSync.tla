----------------------------- MODULE IncidentSync -----------------------------
(***************************************************************************)
(* How the edge's incidents reach the cloud: the agent's sync loop         *)
(* (edge-agent/agent/sync_manager.py) posts the rows that are not yet      *)
(* confirmed to the handler sync_incidents_from_edge                       *)
(* (backend/app/routers/edge.py), which merges them into the events        *)
(* collection, and marks the ids of the answer as synced.                  *)
(*                                                                         *)
(* The agent has one request outstanding at a time, but a request it has   *)
(* given up on may still be running in the cloud when the next one         *)
(* arrives: `Handlers` are the requests the cloud can be working on at     *)
(* once.  Every awaited database operation of a handler is an action, so   *)
(* handlers interleave with each other, with the detections that reach     *)
(* the cloud directly, with users and with the auto-close worker.          *)
(***************************************************************************)
EXTENDS EdgeIncidents, CloudEvents

CONSTANTS
  Handlers,     \* requests the cloud may be working on at the same time
  SyncBatch,    \* INCIDENT_SYNC_BATCH_SIZE
  DedupWindow,  \* INCIDENT_DEDUP_WINDOW_SECONDS, in clock ticks
  MaxFaults     \* bound on requests, answers and database operations that fail

NoHandler == "none"
Idle == "idle"
Waiting == "waiting"

ASSUME SyncAssumption ==
  /\ NoHandler \notin Handlers
  /\ SyncBatch \in Nat \ {0} /\ DedupWindow \in Nat
  /\ MaxFaults \in Nat

VARIABLES
  agent,    \* sync loop: between two cycles, or awaiting the answer to a request
  by,       \* the handler that runs the request the agent awaits, if any does
  handler,  \* Handlers -> state of the request handler
  stale,    \* history: rows marked synced though they changed after they were sent
  unlinked, \* history: rows merged into an event that could not be linked to them
  faults    \* faults so far

syncVars == <<agent, by, handler, stale, unlinked, faults>>
history == <<stale, unlinked>>
cloudState == <<events, upload, closing>>
deliveryVars == <<edgeVars, cloudState, syncVars>>

\* One request: the rows still to process, what was sent of each, the ids it
\* will confirm, and for the row at hand the event found and its count as read
Handler == [pc: {"idle", "find", "findopen", "link", "merge", "insert"},
            todo: SUBSET IncIds, sent: [IncIds -> Row], ok: SUBSET IncIds,
            target: EventIds \union {NoEvent}, readCount: Nat]

IdleHandler == [pc |-> "idle", todo |-> {}, sent |-> [i \in IncIds |-> NoRow],
                ok |-> {}, target |-> NoEvent, readCount |-> 0]

SyncInit ==
  /\ EdgeInit /\ CloudInit
  /\ agent = Idle
  /\ by = NoHandler
  /\ handler = [h \in Handlers |-> IdleHandler]
  /\ stale = {}
  /\ unlinked = {}
  /\ faults = 0

Fault == faults < MaxFaults /\ faults' = faults + 1

-----------------------------------------------------------------------------
(* sync_manager.sync_incidents_to_cloud *)

\* get_unsynced: the oldest rows, at most a batch
Batch == {i \in Unsynced : Cardinality({j \in Unsynced : j < i}) < SyncBatch}

\* The batch as the rows are now
Sent(B) == [i \in IncIds |-> IF i \in B THEN db[i] ELSE NoRow]

\* The POST reaches the cloud ...
Post(h) ==
  /\ agent = Idle /\ Unsynced # {}
  /\ handler[h].pc = "idle"
  /\ agent' = Waiting
  /\ by' = h
  /\ handler' = [handler EXCEPT ![h] =
       [IdleHandler EXCEPT !.pc = "find", !.todo = Batch, !.sent = Sent(Batch)]]
  /\ UNCHANGED <<edgeVars, cloudState, history, faults>>

\* ... or is lost, and the agent waits for nothing
PostLost ==
  /\ agent = Idle /\ Unsynced # {}
  /\ agent' = Waiting
  /\ by' = NoHandler
  /\ Fault
  /\ UNCHANGED <<edgeVars, cloudState, handler, history>>

\* (mutant) the loop does not come back from a failed request
GiveUp_Stuck ==
  /\ agent = Waiting /\ by # NoHandler
  /\ by' = NoHandler
  /\ Fault
  /\ UNCHANGED <<edgeVars, cloudState, agent, handler, history>>

\* The request fails or times out on the agent; the next cycle sends again.  It
\* is a fault of its own only while a handler is still at work on the answer.
GiveUp ==
  /\ agent = Waiting
  /\ agent' = Idle
  /\ by' = NoHandler
  /\ IF by = NoHandler THEN UNCHANGED faults ELSE Fault
  /\ UNCHANGED <<edgeVars, cloudState, handler, history>>

\* The handler has been through its batch and answers.  The agent marks the
\* confirmed rows synced if it still awaits this request.
Answer(h) ==
  /\ handler[h].pc = "find" /\ handler[h].todo = {}
  /\ handler' = [handler EXCEPT ![h] = IdleHandler]
  /\ IF by = h
     THEN /\ MarkSynced(handler[h].ok)
          /\ stale' = (stale \ handler[h].ok) \union
                      {i \in handler[h].ok : db[i] # handler[h].sent[i]}
          /\ agent' = Idle
          /\ by' = NoHandler
     ELSE UNCHANGED <<edgeVars, stale, agent, by>>
  /\ UNCHANGED <<cloudState, unlinked, faults>>

\* The answer is lost, or the cloud process dies anywhere in the handler: what
\* the handler has written stays written
Abort(h) ==
  /\ handler[h].pc # "idle"
  /\ handler' = [handler EXCEPT ![h] = IdleHandler]
  /\ by' = IF by = h THEN NoHandler ELSE by
  /\ Fault
  /\ UNCHANGED <<edgeVars, cloudState, agent, history>>

-----------------------------------------------------------------------------
(* edge.py sync_incidents_from_edge, one row of the batch *)

Oldest(S, i) == i \in S /\ \A j \in S : i <= j

\* Move handler h to pc `p` with event v found (and read)
Found(h, p, v) ==
  handler' = [handler EXCEPT ![h].pc = p, ![h].target = v,
                ![h].readCount = IF v = NoEvent THEN 0 ELSE events[v].count]

\* Row i is finished; `confirmed` says whether it goes into synced_ids
Finish(h, i, confirmed) ==
  handler' = [handler EXCEPT ![h].pc = "find", ![h].todo = @ \ {i},
                ![h].ok = IF confirmed THEN @ \union {i} ELSE @,
                ![h].target = NoEvent, ![h].readCount = 0]

Linked(i) == {v \in Events : events[v].inc = i}

\* (mutant) no lookup by edge_incident_id
FindByIncident_Skipped(h, i) ==
  /\ handler[h].pc = "find" /\ Oldest(handler[h].todo, i)
  /\ Found(h, "findopen", NoEvent)
  /\ UNCHANGED <<edgeVars, cloudState, agent, by, history, faults>>

\* find_one by edge_incident_id
FindByIncident(h, i) ==
  /\ handler[h].pc = "find" /\ Oldest(handler[h].todo, i)
  /\ \/ Linked(i) = {} /\ Found(h, "findopen", NoEvent)
     \/ \E v \in Linked(i) : Found(h, "merge", v)
  /\ UNCHANGED <<edgeVars, cloudState, agent, by, history, faults>>

\* Events of the row's camera that a direct upload created around its start
Candidates(row) ==
  {v \in OpenOn(row.cam) : /\ events[v].inc = NoInc
                           /\ events[v].start >= row.start - DedupWindow}

\* ... find_one of the latest of them
FindByWindow(h, i) ==
  LET C == Candidates(handler[h].sent[i]) IN
  /\ handler[h].pc = "findopen" /\ Oldest(handler[h].todo, i)
  /\ \/ C = {} /\ Found(h, "insert", NoEvent)
     \/ \E v \in C : Latest(C, v) /\ Found(h, "link", v)
  /\ UNCHANGED <<edgeVars, cloudState, agent, by, history, faults>>

\* The lookup raises: `except Exception: pass` leaves nothing found
WindowLookupFails(h, i) ==
  /\ handler[h].pc = "findopen" /\ Oldest(handler[h].todo, i)
  /\ Found(h, "insert", NoEvent)
  /\ Fault
  /\ UNCHANGED <<edgeVars, cloudState, agent, by, history>>

\* "Link cloud incident to edge incident": by id, whatever its link is by now
LinkEvent(h, i) ==
  /\ handler[h].pc = "link" /\ Oldest(handler[h].todo, i)
  /\ events' = [events EXCEPT ![handler[h].target].inc = i]
  /\ handler' = [handler EXCEPT ![h].pc = "merge"]
  /\ UNCHANGED <<edgeVars, upload, closing, agent, by, history, faults>>

\* The link raises: `except Exception: pass` goes on with the event it found
LinkFails(h, i) ==
  /\ handler[h].pc = "link" /\ Oldest(handler[h].todo, i)
  /\ handler' = [handler EXCEPT ![h].pc = "merge"]
  /\ unlinked' = unlinked \union {i}
  /\ Fault
  /\ UNCHANGED <<edgeVars, cloudState, agent, by, stale>>

\* (mutant) the comparison of the counts is the wrong way round
MergeEvent_Reversed(h, i) ==
  LET row == handler[h].sent[i] IN
  /\ handler[h].pc = "merge" /\ Oldest(handler[h].todo, i)
  /\ events' = IF row.count < handler[h].readCount
               THEN [events EXCEPT ![handler[h].target].count = row.count,
                                   ![handler[h].target].status = row.status]
               ELSE events
  /\ Finish(h, i, TRUE)
  /\ UNCHANGED <<edgeVars, upload, closing, agent, by, history, faults>>

\* The row replaces count and status only if it counts more than was read
MergeEvent(h, i) ==
  LET row == handler[h].sent[i] IN
  /\ handler[h].pc = "merge" /\ Oldest(handler[h].todo, i)
  /\ events' = IF row.count > handler[h].readCount
               THEN [events EXCEPT ![handler[h].target].count = row.count,
                                   ![handler[h].target].status = row.status]
               ELSE events
  /\ Finish(h, i, TRUE)
  /\ UNCHANGED <<edgeVars, upload, closing, agent, by, history, faults>>

\* No event yet: a new one, linked from the start
InsertFromEdge(h, i) ==
  LET row == handler[h].sent[i] IN
  /\ handler[h].pc = "insert" /\ Oldest(handler[h].todo, i)
  /\ Insert([status |-> row.status, cam |-> row.cam, cls |-> row.cls, inc |-> i,
             start |-> row.start, count |-> row.count])
  /\ Finish(h, i, TRUE)
  /\ UNCHANGED <<edgeVars, upload, closing, agent, by, history, faults>>

\* (mutant) a row that failed is confirmed with the others
RowFails_Confirmed(h, i) ==
  /\ Oldest(handler[h].todo, i)
  /\ handler[h].pc \in {"find", "insert"}
  /\ Finish(h, i, TRUE)
  /\ Fault
  /\ UNCHANGED <<edgeVars, cloudState, agent, by, history>>

\* A database operation raises outside the link: the row goes into `errors` and
\* the loop goes on with the next one
RowFails(h, i) ==
  /\ Oldest(handler[h].todo, i)
  /\ \/ handler[h].pc \in {"find", "insert"}
     \/ handler[h].pc = "merge" /\ handler[h].sent[i].count > handler[h].readCount
  /\ Finish(h, i, FALSE)
  /\ Fault
  /\ UNCHANGED <<edgeVars, cloudState, agent, by, history>>

HandlerStep(h) ==
  \/ Answer(h)
  \/ \E i \in IncIds :
       \/ FindByIncident(h, i) \/ FindByWindow(h, i)
       \/ LinkEvent(h, i) \/ MergeEvent(h, i) \/ InsertFromEdge(h, i)

HandlerFault(h) ==
  \/ Abort(h)
  \/ \E i \in IncIds : WindowLookupFails(h, i) \/ LinkFails(h, i) \/ RowFails(h, i)

-----------------------------------------------------------------------------

SyncNext ==
  \/ EdgeStep /\ UNCHANGED <<cloudState, agent, by, handler, history, faults>>
  \/ CloudStep /\ UNCHANGED <<used, db, agent, by, handler, history, faults>>
  \/ Tick /\ UNCHANGED <<used, db, cloudState, agent, by, handler, history, faults>>
  \/ \E h \in Handlers : Post(h) \/ HandlerStep(h) \/ HandlerFault(h)
  \/ PostLost
  \/ GiveUp

SyncSpec == SyncInit /\ [][SyncNext]_deliveryVars

\* The sync loop runs for ever, the event loop of the cloud serves every request,
\* and an httpx call returns or times out
SyncFairness ==
  /\ WF_deliveryVars(\E h \in Handlers : Post(h))
  /\ WF_deliveryVars(by = NoHandler /\ GiveUp)
  /\ \A h \in Handlers : WF_deliveryVars(HandlerStep(h))

FairSyncSpec == SyncSpec /\ SyncFairness

-----------------------------------------------------------------------------
(* The abstract specification this implements *)

\* The agent is done with a row: the cloud confirmed it, and it may be deleted
Confirmed(i) == i \in used /\ (db[i].status = "none" \/ db[i].synced)

\* The cloud has an event for it, or has merged it into one it could not link
Known(i) == Linked(i) # {} \/ i \in unlinked

Delivery == INSTANCE IncidentDelivery WITH
  recorded  <- used,
  known     <- {i \in IncIds : Known(i)},
  confirmed <- {i \in IncIds : Confirmed(i)}

\* The sync loop, its handler and the cleanup together deliver incidents: the
\* edge confirms only what the cloud knows, and the cloud does not forget.
ImplementsDelivery == Delivery!DeliverySpec

-----------------------------------------------------------------------------
(* Properties *)

SyncTypeOK ==
  /\ EdgeTypeOK /\ CloudTypeOK
  /\ agent \in {Idle, Waiting}
  /\ by \in Handlers \union {NoHandler}
  /\ handler \in [Handlers -> Handler]
  /\ by # NoHandler => agent = Waiting /\ handler[by].pc # "idle"
  /\ \A h \in Handlers : /\ handler[h].pc \in {"link", "merge"} => handler[h].target \in Events
                         /\ handler[h].todo \subseteq used /\ handler[h].ok \subseteq used
  /\ stale \subseteq IncIds /\ unlinked \subseteq IncIds
  /\ faults \in 0..MaxFaults

\* Whatever is lost, times out, dies or fails on the way, an incident the agent
\* regards as synced (and so may delete in cleanup) has its event in the cloud; a
\* link that raised and was swallowed is the one way to have none of its own.
\* It rests on the cloud working on one request of an agent at a time.
ConfirmedIsKnown == \A i \in IncIds : Confirmed(i) => Known(i)

\* edge.py:780 "Check if already synced (by edge_incident_id OR by camera+time
\* window)": however often a row is sent again, it has at most one event.
OneEventPerIncident ==
  \A v, w \in Events : events[v].inc = events[w].inc /\ events[v].inc # NoInc => v = w

\* A synced row that did not change while its request was under way is counted
\* in the cloud with at least its detections: no direct upload, failed retry or
\* skipped merge leaves the cloud below it.
SyncedCountArrived ==
  \A i \in Stored : db[i].synced /\ i \notin stale \union unlinked =>
    \E v \in Linked(i) : events[v].count >= db[i].count

\* Event v is of the camera of row i, and began no earlier before it than the window in
\* which the handler looks for one
Near(v, i) ==
  events[v].cam = db[i].cam /\ events[v].start >= db[i].start - DedupWindow

\* What is left of it when requests overlap (edge.py:780 looks and then inserts or links,
\* and nothing makes the link unique): a row that is synced may share its event with
\* another, or have lost the link to it, but there is one of its camera and its time.
SyncedIsSeen == \A i \in Stored : db[i].synced => \E v \in Events : Near(v, i)

\* Every incident recorded at the edge reaches the cloud, once the faults stop:
\* retries by the sync loop get through.
EveryIncidentArrives == \A i \in IncIds : i \in Unsynced ~> Known(i)

=============================================================================
