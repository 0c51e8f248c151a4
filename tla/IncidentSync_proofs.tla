------------------------ MODULE IncidentSync_proofs ------------------------
(***************************************************************************)
(* Theorems about the synchronisation of incidents: its types, what it     *)
(* confirms (ConfirmedIsKnown), links (OneEventPerIncident) and counts     *)
(* (SyncedCountArrived), and that it implements IncidentDelivery, for      *)
(* every set of cameras, incidents, events, uploads and handlers.          *)
(*                                                                         *)
(* Types hold in every behaviour, and so does what is left of the          *)
(* guarantee when requests overlap (SyncedIsSeen).  The rest rests on the  *)
(* cloud never working on two requests of the agent at the same time: two  *)
(* handlers that interleave may both insert an event for a row, or link    *)
(* one event to two rows.                                                  *)
(***************************************************************************)
EXTENDS IncidentSync, Incidents_proofs

\* The types of a request r that knows the events E and the rows U; a row that is
\* still to be processed was in the table when it was sent.
RequestOK(r, E, U) ==
  /\ r \in Handler
  /\ r.pc \in {"link", "merge"} => r.target \in E
  /\ r.todo \subseteq U /\ r.ok \subseteq U
  /\ \A i \in r.todo : r.sent[i].status # "none"

HandlersOK ==
  /\ handler \in [Handlers -> Handler]
  /\ \A h \in Handlers : RequestOK(handler[h], Events, used)

\* CloudTypeOK without the clock, which the edge's types have.
EventTypes ==
  /\ events \in [EventIds -> Event]
  /\ upload \in [Uploads -> Upload]
  /\ closing \subseteq Events
  /\ \A u \in Uploads : upload[u].target # NoEvent => upload[u].target \in Events

AgentOK ==
  /\ agent \in {Idle, Waiting}
  /\ by \in Handlers \union {NoHandler}
  /\ by # NoHandler => agent = Waiting /\ handler[by].pc # "idle"

HistoryOK ==
  /\ stale \subseteq IncIds /\ unlinked \subseteq IncIds
  /\ faults \in 0..MaxFaults

\* SyncTypeOK, with what it needs to be inductive
SyncTypeInv == EdgeTypeOK /\ EventTypes /\ HandlersOK /\ AgentOK /\ HistoryOK

-----------------------------------------------------------------------------
(* The events collection *)

\* What a step of the cloud may do to the events: those there stay, with their
\* links, and count no less; those that come are as `new` says.
EventsKept ==
  /\ Events \subseteq Events'
  /\ \A v \in Events : events'[v].inc = events[v].inc /\ events'[v].count >= events[v].count

\* An insert adds one event and touches no other.
LEMMA InsertEffect ==
  ASSUME EventTypes, NEW doc \in Event, doc.status # "none", Insert(doc)
  PROVE  \E v \in EventIds \ Events :
           /\ events' \in [EventIds -> Event]
           /\ Events' = Events \union {v}
           /\ events'[v] = doc
           /\ \A w \in Events : events'[w] = events[w]
<1> PICK v \in EventIds \ Events : events' = [events EXCEPT ![v] = doc]
  BY DEF Insert
<1>1. events' \in [EventIds -> Event] /\ events'[v] = doc
  BY DEF EventTypes
<1>2. \A w \in EventIds \ {v} : events'[w] = events[w]
  BY DEF EventTypes
<1>3. Events' = Events \union {v}
  BY <1>1, <1>2 DEF Events
<1> QED
  BY <1>1, <1>2, <1>3 DEF Events

\* Writing fields of one event, its status to one of an inserted event.
LEMMA WriteEffect ==
  ASSUME EventTypes, NEW v \in Events, NEW doc \in Event, doc.status # "none",
         events' = [events EXCEPT ![v] = doc]
  PROVE  /\ events' \in [EventIds -> Event] /\ Events' = Events
         /\ events'[v] = doc /\ \A w \in EventIds \ {v} : events'[w] = events[w]
<1>1. v \in EventIds
  BY DEF Events
<1>2. /\ events' \in [EventIds -> Event] /\ events'[v] = doc
      /\ \A w \in EventIds \ {v} : events'[w] = events[w]
  BY <1>1 DEF EventTypes
<1>3. Events' = Events
  BY <1>1, <1>2 DEF Events
<1> QED
  BY <1>2, <1>3

\* More events, and the same handlers and listing, are still well typed.
LEMMA EventTypesGrow ==
  ASSUME EventTypes, events' \in [EventIds -> Event], Events \subseteq Events',
         upload' = upload, closing' = closing
  PROVE  EventTypes'
  BY DEF EventTypes

\* A change of the status alone, which the users and the auto-close worker make.
LEMMA StatusWrite ==
  ASSUME EventTypes, NEW v \in Events, NEW s \in CloudStatus,
         events' = [events EXCEPT ![v].status = s]
  PROVE  events' \in [EventIds -> Event] /\ Events' = Events /\ EventsKept
<1> DEFINE doc == [events[v] EXCEPT !.status = s]
<1>1. v \in EventIds /\ events[v] \in Event /\ s # "none"
  BY DEF EventTypes, Events, CloudStatus, OpenStatus
<1>2. doc \in Event /\ doc.status # "none" /\ doc.inc = events[v].inc /\ doc.count = events[v].count
  BY <1>1 DEF Event
<1>3. events' = [events EXCEPT ![v] = doc]
  BY <1>1 DEF EventTypes
<1> HIDE DEF doc
<1>4. /\ events' \in [EventIds -> Event] /\ Events' = Events
      /\ events'[v] = doc /\ \A w \in EventIds \ {v} : events'[w] = events[w]
  BY <1>2, <1>3, WriteEffect
<1>5. \A w \in Events : w \in EventIds /\ events[w].count \in Nat
  BY DEF Events, EventTypes, Event
<1>6. \A w \in Events : events'[w].inc = events[w].inc /\ events'[w].count >= events[w].count
  BY <1>2, <1>4, <1>5
<1> QED
  BY <1>4, <1>6 DEF EventsKept

\* Every step of the cloud outside the synchronisation keeps the types, and links
\* nothing.
LEMMA CloudStepEffect ==
  ASSUME EventTypes, now \in Nat, CloudStep
  PROVE  /\ EventTypes' /\ EventsKept /\ now' = now
         /\ \A v \in Events' \ Events : events'[v].inc = NoInc
<1>0. /\ events \in [EventIds -> Event]
      /\ \A w \in Events : w \in EventIds /\ events[w] \in Event /\ events[w].count \in Nat
  BY DEF Events, EventTypes, Event
<1>1. ASSUME NEW u \in Uploads, FindOpenEvent(u)
      PROVE  /\ EventTypes' /\ EventsKept /\ now' = now
             /\ \A v \in Events' \ Events : events'[v].inc = NoInc
  <2>1. Events' = Events /\ events' = events /\ closing' = closing /\ now' = now
    BY <1>1 DEF FindOpenEvent, Events
  <2>2. upload[u] \in Upload
    BY DEF EventTypes
  <2>3. /\ upload' \in [Uploads -> Upload]
        /\ \A w \in Uploads : upload'[w].target # NoEvent => upload'[w].target \in Events
    <3>1. CASE upload' = [upload EXCEPT ![u].pc = "found", ![u].at = now]
      BY <2>2, <3>1 DEF EventTypes, Upload
    <3>2. ASSUME NEW v \in EventIds, v \in OpenOn(upload[u].cam),
                 upload' = [upload EXCEPT ![u].pc = "found", ![u].at = now, ![u].target = v]
          PROVE  /\ upload' \in [Uploads -> Upload]
                 /\ \A w \in Uploads : upload'[w].target # NoEvent => upload'[w].target \in Events
      BY <2>2, <3>2 DEF EventTypes, Upload, OpenOn, Open
    <3> QED
      BY <1>1, <3>1, <3>2 DEF FindOpenEvent, Latest
  <2>4. EventTypes'
    BY <2>1, <2>3 DEF EventTypes
  <2> QED
    BY <1>0, <2>1, <2>4 DEF EventsKept
<1>2. ASSUME NEW u \in Uploads, UpdateEvent(u)
      PROVE  /\ EventTypes' /\ EventsKept /\ now' = now
             /\ \A v \in Events' \ Events : events'[v].inc = NoInc
  <2> PICK v : v = upload[u].target
    OBVIOUS
  <2> DEFINE doc == [events[v] EXCEPT !.count = @ + 1]
  <2>1. v \in Events /\ upload[u] \in Upload
    BY <1>2 DEF UpdateEvent, EventTypes
  <2>2. events' = [events EXCEPT ![v] = doc] /\ now' = now /\ closing' = closing
    BY <1>0, <1>2, <2>1 DEF UpdateEvent
  <2>3. /\ doc \in Event /\ doc.status # "none" /\ doc.inc = events[v].inc
        /\ doc.count = events[v].count + 1
    BY <1>0, <2>1 DEF Event, Events
  <2> HIDE DEF doc
  <2>4. /\ events' \in [EventIds -> Event] /\ Events' = Events
        /\ events'[v] = doc /\ \A w \in EventIds \ {v} : events'[w] = events[w]
    BY <2>1, <2>2, <2>3, WriteEffect
  <2>5. EventsKept
    BY <1>0, <2>1, <2>3, <2>4 DEF EventsKept
  <2>6. upload' = [upload EXCEPT ![u].pc = "done"]
    BY <1>2 DEF UpdateEvent
  <2>7. EventTypes'
    BY <2>1, <2>2, <2>4, <2>6 DEF EventTypes, Upload
  <2> QED
    BY <2>2, <2>4, <2>5, <2>7
<1>3. ASSUME NEW u \in Uploads, InsertEvent(u)
      PROVE  /\ EventTypes' /\ EventsKept /\ now' = now
             /\ \A v \in Events' \ Events : events'[v].inc = NoInc
  <2> DEFINE doc == [status |-> "new", cam |-> upload[u].cam, cls |-> upload[u].cls,
                     inc |-> NoInc, start |-> upload[u].at, count |-> 1]
  <2>1. upload[u] \in Upload
    BY DEF EventTypes
  <2>2. doc \in Event /\ doc.status # "none" /\ doc.inc = NoInc
    BY <2>1, EventNumbers DEF Event, Upload, CloudStatus, OpenStatus
  <2>3. /\ Insert(doc) /\ now' = now /\ closing' = closing
        /\ upload' = [upload EXCEPT ![u].pc = "done"]
    BY <1>3 DEF InsertEvent
  <2> HIDE DEF doc
  <2> PICK v \in EventIds \ Events :
           /\ events' \in [EventIds -> Event]
           /\ Events' = Events \union {v}
           /\ events'[v] = doc
           /\ \A w \in Events : events'[w] = events[w]
    BY <2>2, <2>3, InsertEffect
  <2>4. EventTypes'
    BY <2>1, <2>3 DEF EventTypes, Upload
  <2> QED
    BY <1>0, <2>2, <2>3, <2>4 DEF EventsKept
<1>4. ASSUME NEW v \in EventIds, AcknowledgeEvent(v) \/ ResolveEvent(v)
      PROVE  /\ EventTypes' /\ EventsKept /\ now' = now
             /\ \A w \in Events' \ Events : events'[w].inc = NoInc
  <2>1. /\ v \in Events /\ upload' = upload /\ closing' = closing /\ now' = now
        /\ \E s \in CloudStatus : events' = [events EXCEPT ![v].status = s]
    BY <1>4 DEF AcknowledgeEvent, ResolveEvent, CloudStatus, OpenStatus
  <2>2. events' \in [EventIds -> Event] /\ Events' = Events /\ EventsKept
    BY <2>1, StatusWrite
  <2> QED
    BY <2>1, <2>2, EventTypesGrow
<1>5. CASE ListStale
  <2>1. events' = events /\ upload' = upload /\ now' = now /\ Events' = Events
    BY <1>5 DEF ListStale, Events
  <2>2. closing' \subseteq Events
    BY <1>5 DEF ListStale, Open
  <2>3. EventTypes'
    BY <2>1, <2>2 DEF EventTypes
  <2> QED
    BY <1>0, <2>1, <2>3 DEF EventsKept
<1>6. ASSUME NEW v \in EventIds, AutoResolve(v)
      PROVE  /\ EventTypes' /\ EventsKept /\ now' = now
             /\ \A w \in Events' \ Events : events'[w].inc = NoInc
  <2>1. /\ v \in Events /\ upload' = upload /\ closing' \subseteq closing /\ now' = now
        /\ "auto_resolved" \in CloudStatus
        /\ events' = [events EXCEPT ![v].status = "auto_resolved"]
    BY <1>6 DEF AutoResolve, CloudStatus, EventTypes
  <2>2. events' \in [EventIds -> Event] /\ Events' = Events /\ EventsKept
    BY <2>1, StatusWrite
  <2>3. EventTypes'
    BY <2>1, <2>2 DEF EventTypes
  <2> QED
    BY <2>1, <2>2, <2>3
<1>7. ASSUME NEW u \in Uploads, LeaveOut(u) \/ TooMild(u)
      PROVE  /\ EventTypes' /\ EventsKept /\ now' = now
             /\ \A v \in Events' \ Events : events'[v].inc = NoInc
  <2>1. /\ events' = events /\ closing' = closing /\ now' = now /\ Events' = Events
        /\ upload' = [upload EXCEPT ![u].pc = "skipped"]
    BY <1>7 DEF LeaveOut, TooMild, Events
  <2>2. EventTypes'
    BY <2>1 DEF EventTypes, Upload
  <2> QED
    BY <1>0, <2>1, <2>2 DEF EventsKept
<1> QED
  BY <1>1, <1>2, <1>3, <1>4, <1>5, <1>6, <1>7 DEF CloudStep, UserActs

-----------------------------------------------------------------------------
(* Types *)

LEMMA TypesImplied == SyncTypeInv => SyncTypeOK
<1> SUFFICES ASSUME SyncTypeInv PROVE SyncTypeOK
  OBVIOUS
<1>1. CloudTypeOK
  BY DEF SyncTypeInv, EdgeTypeOK, EventTypes, CloudTypeOK
<1> QED
  BY <1>1 DEF SyncTypeInv, AgentOK, HistoryOK, HandlersOK, RequestOK, SyncTypeOK

LEMMA TypeParts ==
  ASSUME SyncTypeInv
  PROVE  /\ EventTypes /\ EdgeTypeOK /\ now \in Nat
         /\ \A h \in Handlers : handler[h] \in Handler
         /\ \A v \in Events : v \in EventIds /\ events[v] \in Event
  BY DEF SyncTypeInv, EventTypes, EdgeTypeOK, HandlersOK, Events

\* A request that is written leaves the others well typed.
LEMMA OneRequest ==
  ASSUME HandlersOK, NEW h \in Handlers, NEW r, RequestOK(r, Events', used'),
         handler' = [handler EXCEPT ![h] = r], Events \subseteq Events', used \subseteq used'
  PROVE  HandlersOK' /\ handler'[h] = r /\ \A g \in Handlers \ {h} : handler'[g] = handler[g]
<1>1. handler'[h] = r /\ \A g \in Handlers \ {h} : handler'[g] = handler[g]
  BY DEF HandlersOK
<1>2. handler' \in [Handlers -> Handler]
  BY DEF HandlersOK, RequestOK
<1>3. ASSUME NEW g \in Handlers PROVE RequestOK(handler'[g], Events', used')
  <2>1. CASE g = h
    BY <1>1, <2>1
  <2>2. CASE g # h
    <3>1. RequestOK(handler[g], Events, used) /\ handler'[g] = handler[g]
      BY <1>1, <2>2 DEF HandlersOK
    <3>2. RequestOK(handler[g], Events', used')
      BY <3>1 DEF RequestOK
    <3> QED
      BY <3>1, <3>2
  <2> QED
    BY <2>1, <2>2
<1> QED
  BY <1>1, <1>2, <1>3 DEF HandlersOK

\* Requests are well typed in a table that grows.
LEMMA SameRequests ==
  ASSUME HandlersOK, handler' = handler, Events \subseteq Events', used \subseteq used'
  PROVE  HandlersOK'
  BY DEF HandlersOK, RequestOK

LEMMA IdleRequest ==
  /\ \A E, U : RequestOK(IdleHandler, E, U)
  /\ IdleHandler.pc = "idle" /\ IdleHandler.todo = {} /\ IdleHandler.ok = {}
  BY NoRowType DEF RequestOK, IdleHandler, Handler

\* What Found writes.
LEMMA FoundEffect ==
  ASSUME SyncTypeInv, NEW h \in Handlers, NEW p \in {"findopen", "link", "merge", "insert"},
         NEW v \in Events \union {NoEvent}, Found(h, p, v), p \in {"link", "merge"} => v \in Events
  PROVE  \E r : /\ handler' = [handler EXCEPT ![h] = r]
               /\ RequestOK(r, Events, used)
               /\ r.pc = p /\ r.target = v /\ (v # NoEvent => r.readCount = events[v].count)
               /\ r.todo = handler[h].todo /\ r.sent = handler[h].sent /\ r.ok = handler[h].ok
<1> DEFINE n == IF v = NoEvent THEN 0 ELSE events[v].count
           r == [handler[h] EXCEPT !.pc = p, !.target = v, !.readCount = n]
<1>1. handler[h] \in Handler /\ RequestOK(handler[h], Events, used)
  BY DEF SyncTypeInv, HandlersOK
<1>2. handler' = [handler EXCEPT ![h] = r]
  BY <1>1 DEF Found, Handler
<1>3. n \in Nat /\ v \in EventIds \union {NoEvent}
  BY TypeParts, EventNumbers DEF Event
<1> HIDE DEF n
<1>4. r \in Handler
  BY <1>1, <1>3 DEF Handler
<1>5. RequestOK(r, Events, used)
  BY <1>1, <1>4 DEF RequestOK, Handler
<1>6. /\ r.pc = p /\ r.target = v /\ r.readCount = n
      /\ r.todo = handler[h].todo /\ r.sent = handler[h].sent /\ r.ok = handler[h].ok
  BY <1>1 DEF Handler
<1>7. v # NoEvent => n = events[v].count
  BY DEF n
<1> HIDE DEF r
<1> QED
  BY <1>2, <1>5, <1>6, <1>7

\* A row that is finished leaves the batch; the others stay as they are.
LEMMA FinishedRequest ==
  ASSUME NEW q \in Handler, NEW E, NEW U, RequestOK(q, E, U), NEW i \in IncIds,
         NEW O, O \subseteq U, O \subseteq IncIds, NEW r,
         r = [q EXCEPT !.pc = "find", !.todo = @ \ {i}, !.ok = O,
                       !.target = NoEvent, !.readCount = 0]
  PROVE  RequestOK(r, E, U)
<1>1. r \in Handler
  BY DEF Handler
<1> QED
  BY <1>1 DEF RequestOK, Handler

\* What Finish writes: the row joins the confirmed ones ...
LEMMA ConfirmedRow ==
  ASSUME SyncTypeInv, NEW h \in Handlers, NEW i \in IncIds, i \in handler[h].todo,
         Finish(h, i, TRUE)
  PROVE  \E r : /\ handler' = [handler EXCEPT ![h] = r]
               /\ RequestOK(r, Events, used)
               /\ r.pc = "find" /\ r.sent = handler[h].sent /\ r.todo = handler[h].todo \ {i}
               /\ r.ok = handler[h].ok \union {i}
<1> PICK O : O = handler[h].ok \union {i}
  OBVIOUS
<1> PICK r : r = [handler[h] EXCEPT !.pc = "find", !.todo = @ \ {i}, !.ok = O,
                                    !.target = NoEvent, !.readCount = 0]
  OBVIOUS
<1>1. handler[h] \in Handler /\ RequestOK(handler[h], Events, used)
  BY DEF SyncTypeInv, HandlersOK
<1>2. O \subseteq used /\ O \subseteq IncIds
  BY <1>1 DEF RequestOK, Handler
<1>3. handler' = [handler EXCEPT ![h] = r]
  BY <1>1 DEF Finish, Handler
<1>4. RequestOK(r, Events, used)
  BY <1>1, <1>2, FinishedRequest
<1>5. r.pc = "find" /\ r.sent = handler[h].sent /\ r.todo = handler[h].todo \ {i} /\ r.ok = O
  BY <1>1 DEF Handler
<1> QED
  BY <1>3, <1>4, <1>5

\* ... or does not.
LEMMA FailedRow ==
  ASSUME SyncTypeInv, NEW h \in Handlers, NEW i \in IncIds, RowFails(h, i)
  PROVE  \E r : /\ handler' = [handler EXCEPT ![h] = r]
               /\ RequestOK(r, Events, used)
               /\ r.pc = "find" /\ r.sent = handler[h].sent /\ r.todo = handler[h].todo \ {i}
               /\ r.ok = handler[h].ok
<1> PICK O : O = handler[h].ok
  OBVIOUS
<1> PICK r : r = [handler[h] EXCEPT !.pc = "find", !.todo = @ \ {i}, !.ok = O,
                                    !.target = NoEvent, !.readCount = 0]
  OBVIOUS
<1>1. handler[h] \in Handler /\ RequestOK(handler[h], Events, used) /\ i \in handler[h].todo
  BY DEF SyncTypeInv, HandlersOK, RowFails, Oldest
<1>2. O \subseteq used /\ O \subseteq IncIds
  BY <1>1 DEF RequestOK, Handler
<1>3. handler' = [handler EXCEPT ![h] = r]
  BY <1>1 DEF RowFails, Finish, Handler
<1>4. RequestOK(r, Events, used)
  BY <1>1, <1>2, FinishedRequest
<1>5. r.pc = "find" /\ r.sent = handler[h].sent /\ r.todo = handler[h].todo \ {i} /\ r.ok = O
  BY <1>1 DEF Handler
<1> QED
  BY <1>3, <1>4, <1>5

\* What Post writes: a request for rows that are not synced, as they are now.
LEMMA PostEffect ==
  ASSUME SyncTypeInv, NEW h \in Handlers, Post(h)
  PROVE  \E r : /\ handler' = [handler EXCEPT ![h] = r]
               /\ RequestOK(r, Events, used)
               /\ r.pc = "find" /\ r.ok = {} /\ r.todo \subseteq Unsynced
               /\ \A i \in r.todo : r.sent[i] = db[i]
<1> DEFINE r == [IdleHandler EXCEPT !.pc = "find", !.todo = Batch, !.sent = Sent(Batch)]
<1>1. handler' = [handler EXCEPT ![h] = r]
  BY DEF Post
<1>2. /\ Batch \subseteq Unsynced /\ Batch \subseteq used /\ Batch \subseteq IncIds
      /\ \A i \in Batch : db[i].status # "none"
  BY TypeParts DEF Batch, Unsynced, Stored, EdgeTypeOK
<1>3. Sent(Batch) \in [IncIds -> Row]
  BY TypeParts, NoRowType DEF Sent, EdgeTypeOK
<1>4. \A i \in Batch : Sent(Batch)[i] = db[i]
  BY <1>2 DEF Sent
<1>5. IdleHandler \in Handler /\ IdleHandler.ok = {}
  BY NoRowType DEF IdleHandler, Handler
<1> HIDE DEF Batch, Sent, IdleHandler
<1>6. /\ r.pc = "find" /\ r.ok = {} /\ r.todo = Batch /\ r.sent = Sent(Batch)
      /\ r \in Handler
  BY <1>2, <1>3, <1>5 DEF Handler
<1>7. RequestOK(r, Events, used)
  BY <1>2, <1>4, <1>6 DEF RequestOK
<1> QED
  BY <1>1, <1>2, <1>4, <1>6, <1>7

\* What LinkEvent writes: the link of the event found, and nothing else of it.
LEMMA LinkEffect ==
  ASSUME SyncTypeInv, NEW h \in Handlers, NEW i \in IncIds, LinkEvent(h, i)
  PROVE  \E v \in Events, r \in Handler :
           /\ v = handler[h].target
           /\ events' \in [EventIds -> Event] /\ Events' = Events
           /\ events'[v].inc = i /\ events'[v].count = events[v].count
           /\ events'[v].cam = events[v].cam /\ events'[v].start = events[v].start
           /\ \A w \in EventIds \ {v} : events'[w] = events[w]
           /\ handler' = [handler EXCEPT ![h] = r]
           /\ RequestOK(r, Events, used)
           /\ r = [handler[h] EXCEPT !.pc = "merge"]
<1> PICK v : v = handler[h].target
  OBVIOUS
<1> DEFINE doc == [events[v] EXCEPT !.inc = i]
           r == [handler[h] EXCEPT !.pc = "merge"]
<1>1. handler[h] \in Handler /\ RequestOK(handler[h], Events, used) /\ v \in Events
  BY DEF SyncTypeInv, HandlersOK, RequestOK, LinkEvent
<1>2. v \in EventIds /\ events[v] \in Event
  BY <1>1, TypeParts
<1>3. events' = [events EXCEPT ![v] = doc]
  BY <1>2 DEF LinkEvent
<1>4. /\ doc \in Event /\ doc.status # "none" /\ doc.inc = i /\ doc.count = events[v].count
      /\ doc.cam = events[v].cam /\ doc.start = events[v].start
  BY <1>1, <1>2 DEF Event, Events
<1> HIDE DEF doc
<1>5. /\ events' \in [EventIds -> Event] /\ Events' = Events
      /\ events'[v] = doc /\ \A w \in EventIds \ {v} : events'[w] = events[w]
  BY <1>1, <1>3, <1>4, TypeParts, WriteEffect
<1>6. handler' = [handler EXCEPT ![h] = r] /\ r \in Handler
  BY <1>1 DEF LinkEvent, Handler
<1>7. RequestOK(r, Events, used)
  BY <1>1, <1>6 DEF RequestOK, Handler
<1> QED
  BY <1>1, <1>4, <1>5, <1>6, <1>7

\* What MergeEvent writes: status and count of the event found, if the row counts
\* more than was read.
LEMMA MergeEffect ==
  ASSUME SyncTypeInv, NEW h \in Handlers, NEW i \in IncIds, MergeEvent(h, i)
  PROVE  \E v \in Events, r \in Handler :
           /\ v = handler[h].target
           /\ events' \in [EventIds -> Event] /\ Events' = Events
           /\ events'[v].inc = events[v].inc
           /\ events'[v].cam = events[v].cam /\ events'[v].start = events[v].start
           /\ events'[v].count = IF handler[h].sent[i].count > handler[h].readCount
                                 THEN handler[h].sent[i].count ELSE events[v].count
           /\ \A w \in EventIds \ {v} : events'[w] = events[w]
           /\ handler' = [handler EXCEPT ![h] = r]
           /\ RequestOK(r, Events, used)
           /\ r.pc = "find" /\ r.sent = handler[h].sent /\ r.todo = handler[h].todo \ {i}
           /\ r.ok = handler[h].ok \union {i}
<1> PICK v : v = handler[h].target
  OBVIOUS
<1> PICK row : row = handler[h].sent[i]
  OBVIOUS
<1>1. /\ handler[h] \in Handler /\ RequestOK(handler[h], Events, used) /\ v \in Events
      /\ i \in handler[h].todo
  BY DEF SyncTypeInv, HandlersOK, RequestOK, MergeEvent, Oldest
<1>2. v \in EventIds /\ events[v] \in Event /\ row \in Row /\ row.status # "none"
  BY <1>1, TypeParts DEF RequestOK, Handler
<1> PICK r : /\ handler' = [handler EXCEPT ![h] = r]
             /\ RequestOK(r, Events, used)
             /\ r.pc = "find" /\ r.sent = handler[h].sent /\ r.todo = handler[h].todo \ {i}
             /\ r.ok = handler[h].ok \union {i}
  <2>1. Finish(h, i, TRUE)
    BY DEF MergeEvent
  <2> QED
    BY <1>1, <2>1, ConfirmedRow
<1>r. r \in Handler
  BY DEF RequestOK
<1>3. CASE row.count > handler[h].readCount
  <2> DEFINE doc == [events[v] EXCEPT !.count = row.count, !.status = row.status]
  <2>1. events' = [events EXCEPT ![v] = doc]
    BY <1>2, <1>3 DEF MergeEvent
  <2>2. /\ doc \in Event /\ doc.status # "none"
        /\ doc.inc = events[v].inc /\ doc.count = row.count
        /\ doc.cam = events[v].cam /\ doc.start = events[v].start
    BY <1>2 DEF Event, Row, EdgeStatus, CloudStatus, OpenStatus
  <2> HIDE DEF doc
  <2>3. /\ events' \in [EventIds -> Event] /\ Events' = Events
        /\ events'[v] = doc /\ \A w \in EventIds \ {v} : events'[w] = events[w]
    BY <1>1, <2>1, <2>2, TypeParts, WriteEffect
  <2> QED
    BY <1>r, <1>1, <1>3, <2>2, <2>3
<1>4. CASE ~(row.count > handler[h].readCount)
  <2>1. events' = events
    BY <1>4 DEF MergeEvent
  <2>2. events' \in [EventIds -> Event] /\ Events' = Events
    BY <2>1, TypeParts DEF Events, EventTypes
  <2> QED
    BY <1>r, <1>1, <1>4, <2>1, <2>2
<1> QED
  BY <1>3, <1>4

\* What InsertFromEdge writes: a new event, linked to the row and with its count.
LEMMA InsertFromEdgeEffect ==
  ASSUME SyncTypeInv, NEW h \in Handlers, NEW i \in IncIds, InsertFromEdge(h, i)
  PROVE  \E v \in EventIds \ Events, r \in Handler :
           /\ events' \in [EventIds -> Event] /\ Events' = Events \union {v}
           /\ events'[v].inc = i /\ events'[v].count = handler[h].sent[i].count
           /\ events'[v].cam = handler[h].sent[i].cam /\ events'[v].start = handler[h].sent[i].start
           /\ \A w \in Events : events'[w] = events[w]
           /\ handler' = [handler EXCEPT ![h] = r]
           /\ RequestOK(r, Events, used)
           /\ r.pc = "find" /\ r.sent = handler[h].sent /\ r.todo = handler[h].todo \ {i}
           /\ r.ok = handler[h].ok \union {i}
<1> PICK row : row = handler[h].sent[i]
  OBVIOUS
<1> DEFINE doc == [status |-> row.status, cam |-> row.cam, cls |-> row.cls, inc |-> i,
                   start |-> row.start, count |-> row.count]
<1>1. /\ handler[h] \in Handler /\ RequestOK(handler[h], Events, used)
      /\ i \in handler[h].todo
  BY DEF SyncTypeInv, HandlersOK, InsertFromEdge, Oldest
<1>2. row \in Row /\ row.status # "none"
  BY <1>1 DEF RequestOK, Handler
<1> PICK r : /\ handler' = [handler EXCEPT ![h] = r]
             /\ RequestOK(r, Events, used)
             /\ r.pc = "find" /\ r.sent = handler[h].sent /\ r.todo = handler[h].todo \ {i}
             /\ r.ok = handler[h].ok \union {i}
  <2>1. Finish(h, i, TRUE)
    BY DEF InsertFromEdge
  <2> QED
    BY <1>1, <2>1, ConfirmedRow
<1>3. /\ doc \in Event /\ doc.status # "none" /\ doc.inc = i /\ doc.count = row.count
      /\ doc.cam = row.cam /\ doc.start = row.start
  BY <1>2 DEF Event, Row, EdgeStatus, CloudStatus, OpenStatus
<1>4. Insert(doc)
  BY DEF InsertFromEdge
<1> HIDE DEF doc
<1> PICK v \in EventIds \ Events :
           /\ events' \in [EventIds -> Event]
           /\ Events' = Events \union {v}
           /\ events'[v] = doc
           /\ \A w \in Events : events'[w] = events[w]
  BY <1>3, <1>4, TypeParts, InsertEffect
<1>5. r \in Handler
  BY DEF RequestOK
<1> QED
  BY <1>3, <1>5

LEMMA SyncInitTypes == SyncInit => SyncTypeInv
<1> SUFFICES ASSUME SyncInit PROVE SyncTypeInv
  OBVIOUS
<1>1. EdgeTypeOK
  BY EdgeInitType DEF SyncInit
<1>2. EventTypes
  <2>1. events \in [EventIds -> Event]
    BY NoDocFields DEF SyncInit, CloudInit
  <2>2. upload \in [Uploads -> Upload] /\ \A u \in Uploads : upload[u].target = NoEvent
    <3> DEFINE Waits == [pc: {"waiting"}, cam: Cameras, cls: Classes,
                         apart: {FALSE}, at: {0}, target: {NoEvent}]
    <3>1. Waits \subseteq Upload /\ \A w \in Waits : w.target = NoEvent
      <4>1. /\ {"waiting"} \subseteq {"waiting", "found", "done", "skipped"}
            /\ {FALSE} \subseteq BOOLEAN /\ {0} \subseteq Nat
            /\ {NoEvent} \subseteq EventIds \union {NoEvent}
        OBVIOUS
      <4> QED
        BY <4>1 DEF Upload
    <3>2. upload \in [Uploads -> Waits]
      BY DEF SyncInit, CloudInit
    <3> QED
      BY <3>1, <3>2
  <2> QED
    BY <2>1, <2>2 DEF EventTypes, SyncInit, CloudInit
<1>3. HandlersOK
  <2>1. \A h \in Handlers : handler[h] = IdleHandler /\ RequestOK(handler[h], Events, used)
    BY IdleRequest DEF SyncInit
  <2>2. IdleHandler \in Handler
    BY IdleRequest DEF RequestOK
  <2> QED
    BY <2>1, <2>2 DEF HandlersOK, SyncInit
<1> QED
  BY <1>1, <1>2, <1>3, SyncAssumption DEF SyncTypeInv, AgentOK, HistoryOK, SyncInit

\* A fault is counted, up to the bound.
LEMMA FaultCounted ==
  ASSUME SyncTypeInv, Fault \/ UNCHANGED faults PROVE faults' \in 0..MaxFaults
<1>1. faults \in 0..MaxFaults /\ MaxFaults \in Nat
  BY SyncAssumption DEF SyncTypeInv, HistoryOK
<1> QED
  BY <1>1 DEF Fault

\* A step of a request keeps the types if what it writes is well typed.
LEMMA RequestStepTypes ==
  ASSUME SyncTypeInv, NEW h \in Handlers, NEW r, RequestOK(r, Events', used), r.pc # "idle",
         handler' = [handler EXCEPT ![h] = r],
         UNCHANGED <<edgeVars, agent, by, stale, upload, closing>>,
         events' \in [EventIds -> Event], Events \subseteq Events',
         unlinked' \subseteq IncIds, Fault \/ UNCHANGED faults
  PROVE  SyncTypeInv'
<1>1. EdgeTypeOK'
  BY TypeParts DEF EdgeTypeOK, Stored, edgeVars
<1>2. EventTypes'
  BY TypeParts, EventTypesGrow
<1>3. HandlersOK' /\ handler'[h] = r /\ \A g \in Handlers \ {h} : handler'[g] = handler[g]
  BY OneRequest DEF SyncTypeInv, edgeVars
<1>4. AgentOK'
  BY <1>3 DEF SyncTypeInv, AgentOK
<1>5. HistoryOK'
  BY FaultCounted DEF SyncTypeInv, HistoryOK
<1> QED
  BY <1>1, <1>2, <1>3, <1>4, <1>5 DEF SyncTypeInv

\* The steps of a handler on one row.
RowStep(h, i) ==
  \/ FindByIncident(h, i) \/ FindByWindow(h, i) \/ WindowLookupFails(h, i)
  \/ LinkEvent(h, i) \/ LinkFails(h, i) \/ MergeEvent(h, i) \/ InsertFromEdge(h, i)
  \/ RowFails(h, i)

LEMMA RowStepTypes ==
  ASSUME SyncTypeInv, NEW h \in Handlers, NEW i \in IncIds, RowStep(h, i)
  PROVE  SyncTypeInv'
<1> USE DEF history, cloudState
<1>0. /\ unlinked \subseteq IncIds /\ unlinked \union {i} \subseteq IncIds
      /\ events \in [EventIds -> Event]
  BY TypeParts DEF SyncTypeInv, HistoryOK, EventTypes
<1>1. ASSUME NEW p \in {"findopen", "link", "merge", "insert"}, NEW v \in Events \union {NoEvent},
             Found(h, p, v), p \in {"link", "merge"} => v \in Events,
             UNCHANGED <<edgeVars, cloudState, agent, by, history>>, Fault \/ UNCHANGED faults
      PROVE  SyncTypeInv'
  <2>1. PICK r : /\ handler' = [handler EXCEPT ![h] = r]
                 /\ RequestOK(r, Events, used)
                 /\ r.pc = p
    BY <1>1, FoundEffect
  <2>2. r.pc # "idle"
    BY <2>1
  <2>3. Events' = Events
    BY <1>1 DEF Events
  <2> QED
    BY <1>0, <1>1, <2>1, <2>2, <2>3, RequestStepTypes
<1>2. CASE FindByIncident(h, i)
  BY <1>1, <1>2 DEF FindByIncident, Linked
<1>3. CASE FindByWindow(h, i)
  <2> PICK C : C = Candidates(handler[h].sent[i])
    OBVIOUS
  <2>1. C \subseteq Events
    BY DEF Candidates, OpenOn, Open
  <2>2. /\ UNCHANGED <<edgeVars, cloudState, agent, by, history, faults>>
        /\ Found(h, "insert", NoEvent) \/ \E v \in C : Found(h, "link", v)
    BY <1>3 DEF FindByWindow
  <2> QED
    BY <1>1, <2>1, <2>2
<1>4. CASE WindowLookupFails(h, i)
  BY <1>1, <1>4 DEF WindowLookupFails
<1>5. CASE LinkEvent(h, i)
  <2> PICK v \in Events, r \in Handler :
           /\ events' \in [EventIds -> Event] /\ Events' = Events
           /\ handler' = [handler EXCEPT ![h] = r]
           /\ RequestOK(r, Events, used)
           /\ r = [handler[h] EXCEPT !.pc = "merge"]
    BY <1>5, LinkEffect
  <2>1. r.pc # "idle"
    BY TypeParts DEF Handler
  <2> QED
    BY <1>0, <1>5, <2>1, RequestStepTypes DEF LinkEvent
<1>6. CASE LinkFails(h, i)
  <2> PICK r : r = [handler[h] EXCEPT !.pc = "merge"]
    OBVIOUS
  <2>1. handler[h] \in Handler /\ RequestOK(handler[h], Events, used) /\ handler[h].pc = "link"
    BY <1>6 DEF SyncTypeInv, HandlersOK, LinkFails
  <2>2. handler' = [handler EXCEPT ![h] = r] /\ r \in Handler /\ r.pc # "idle"
    BY <1>6, <2>1 DEF LinkFails, Handler
  <2>3. RequestOK(r, Events, used)
    BY <2>1, <2>2 DEF RequestOK, Handler
  <2>4. Events' = Events
    BY <1>6 DEF LinkFails, Events
  <2> QED
    BY <1>0, <1>6, <2>2, <2>3, <2>4, RequestStepTypes DEF LinkFails
<1>7. CASE MergeEvent(h, i)
  <2> PICK v \in Events, r \in Handler :
           /\ events' \in [EventIds -> Event] /\ Events' = Events
           /\ handler' = [handler EXCEPT ![h] = r]
           /\ RequestOK(r, Events, used)
           /\ r.pc = "find"
    BY <1>7, MergeEffect
  <2> QED
    BY <1>0, <1>7, RequestStepTypes DEF MergeEvent
<1>8. CASE InsertFromEdge(h, i)
  <2> PICK v \in EventIds \ Events, r \in Handler :
           /\ events' \in [EventIds -> Event] /\ Events' = Events \union {v}
           /\ handler' = [handler EXCEPT ![h] = r]
           /\ RequestOK(r, Events, used)
           /\ r.pc = "find"
    BY <1>8, InsertFromEdgeEffect
  <2>1. RequestOK(r, Events', used)
    BY DEF RequestOK
  <2> QED
    BY <1>0, <1>8, <2>1, RequestStepTypes DEF InsertFromEdge
<1>9. CASE RowFails(h, i)
  <2> PICK r : /\ handler' = [handler EXCEPT ![h] = r]
               /\ RequestOK(r, Events, used)
               /\ r.pc = "find"
    BY <1>9, FailedRow
  <2>1. Events' = Events
    BY <1>9 DEF RowFails, Events
  <2> QED
    BY <1>0, <1>9, <2>1, RequestStepTypes DEF RowFails
<1> QED
  BY <1>2, <1>3, <1>4, <1>5, <1>6, <1>7, <1>8, <1>9 DEF RowStep

\* Steps of the agent and of requests as a whole, which leave the events alone.
LEMMA RequestTypes ==
  ASSUME SyncTypeInv, NEW h \in Handlers, Post(h) \/ Answer(h) \/ Abort(h)
  PROVE  SyncTypeInv'
<1> USE DEF history, cloudState
<1>0. /\ EdgeTypeOK /\ EventTypes /\ HandlersOK /\ AgentOK /\ HistoryOK
      /\ RequestOK(handler[h], Events, used) /\ handler[h].ok \subseteq IncIds
      /\ h # NoHandler /\ \A g \in Handlers : g # NoHandler
  BY SyncAssumption DEF SyncTypeInv, HandlersOK, Handler
<1>1. Events' = Events /\ events' = events /\ upload' = upload /\ closing' = closing /\ EventTypes'
  <2>1. events' = events /\ upload' = upload /\ closing' = closing
    BY DEF Post, Answer, Abort
  <2> QED
    BY <1>0, <2>1 DEF Events, EventTypes
<1>2. CASE Post(h)
  <2> PICK r : /\ handler' = [handler EXCEPT ![h] = r]
               /\ RequestOK(r, Events, used)
               /\ r.pc = "find"
    BY <1>2, PostEffect
  <2>1. EdgeTypeOK' /\ used' = used
    BY <1>0, <1>2 DEF Post, EdgeTypeOK, Stored, edgeVars
  <2>2. HandlersOK' /\ handler'[h] = r
    BY <1>0, <1>1, <2>1, OneRequest
  <2>3. AgentOK'
    BY <1>2, <2>2 DEF Post, AgentOK
  <2>4. HistoryOK'
    BY <1>0, <1>2 DEF Post, HistoryOK
  <2> QED
    BY <1>1, <2>1, <2>2, <2>3, <2>4 DEF SyncTypeInv
<1>3. CASE Answer(h)
  <2>1. EdgeTypeOK' /\ used' = used
    <3>1. CASE by = h
      BY <1>0, <1>3, <3>1, MarkSyncedType DEF Answer, MarkSynced
    <3>2. CASE by # h
      BY <1>0, <1>3, <3>2 DEF Answer, EdgeTypeOK, Stored, edgeVars
    <3> QED
      BY <3>1, <3>2
  <2>2. /\ HandlersOK' /\ handler'[h] = IdleHandler
        /\ \A g \in Handlers \ {h} : handler'[g] = handler[g]
    <3>1. handler' = [handler EXCEPT ![h] = IdleHandler]
      BY <1>3 DEF Answer
    <3>2. RequestOK(IdleHandler, Events', used')
      BY IdleRequest
    <3> QED
      BY <1>0, <1>1, <2>1, <3>1, <3>2, OneRequest
  <2>3. AgentOK'
    <3>1. CASE by = h
      BY <1>0, <1>3, <3>1 DEF Answer, AgentOK
    <3>2. CASE by # h
      BY <1>0, <1>3, <2>2, <3>2 DEF Answer, AgentOK
    <3> QED
      BY <3>1, <3>2
  <2>4. HistoryOK'
    <3>1. CASE by = h
      BY <1>0, <1>3, <3>1 DEF Answer, HistoryOK
    <3>2. CASE by # h
      BY <1>0, <1>3, <3>2 DEF Answer, HistoryOK
    <3> QED
      BY <3>1, <3>2
  <2> QED
    BY <1>1, <2>1, <2>2, <2>3, <2>4 DEF SyncTypeInv
<1>4. CASE Abort(h)
  <2>1. EdgeTypeOK' /\ used' = used
    BY <1>0, <1>4 DEF Abort, EdgeTypeOK, Stored, edgeVars
  <2>2. HandlersOK' /\ \A g \in Handlers \ {h} : handler'[g] = handler[g]
    <3>1. handler' = [handler EXCEPT ![h] = IdleHandler]
      BY <1>4 DEF Abort
    <3>2. RequestOK(IdleHandler, Events', used')
      BY IdleRequest
    <3> QED
      BY <1>0, <1>1, <2>1, <3>1, <3>2, OneRequest
  <2>3. AgentOK'
    BY <1>0, <1>4, <2>2 DEF Abort, AgentOK
  <2>4. HistoryOK'
    BY <1>0, <1>4, FaultCounted DEF Abort, HistoryOK
  <2> QED
    BY <1>1, <2>1, <2>2, <2>3, <2>4 DEF SyncTypeInv
<1> QED
  BY <1>2, <1>3, <1>4

LEMMA SameWritersTypes ==
  ASSUME SyncTypeInv, EdgeTypeOK', EventTypes', used \subseteq used', Events \subseteq Events',
         UNCHANGED <<agent, by, handler, history, faults>>
  PROVE  SyncTypeInv'
<1>1. HandlersOK'
  BY SameRequests DEF SyncTypeInv
<1>2. AgentOK' /\ HistoryOK'
  BY DEF SyncTypeInv, AgentOK, HistoryOK, history
<1> QED
  BY <1>1, <1>2 DEF SyncTypeInv

\* Ids are not given back, and an unsynced row stays in the table, unsynced; a
\* synced one was synced before, with the same count.
LEMMA EdgeStepEffect ==
  ASSUME EdgeTypeOK, EdgeStep
  PROVE  /\ now' = now /\ used \subseteq used' /\ Unsynced \subseteq Unsynced'
         /\ \A i \in Stored' : db'[i].synced =>
              i \in Stored /\ db[i].synced /\ db'[i].count = db[i].count
<1> USE DEF EdgeTypeOK, Stored, Unsynced
<1>1. ASSUME NEW c \in Cameras, NEW k \in Classes, GroupDetection(c, k)
      PROVE  /\ now' = now /\ used \subseteq used' /\ Unsynced \subseteq Unsynced'
             /\ \A i \in Stored' : db'[i].synced =>
                  i \in Stored /\ db[i].synced /\ db'[i].count = db[i].count
  BY <1>1 DEF GroupDetection, LatestOpen, OpenRows, Row
<1>2. ASSUME NEW c \in Cameras, NEW k \in Classes, OpenIncident(c, k)
      PROVE  /\ now' = now /\ used \subseteq used' /\ Unsynced \subseteq Unsynced'
             /\ \A i \in Stored' : db'[i].synced =>
                  i \in Stored /\ db[i].synced /\ db'[i].count = db[i].count
  BY <1>2 DEF OpenIncident, Row
<1>3. ASSUME NEW i \in IncIds, NEW s \in {"acknowledged", "resolved"}, UpdateStatus(i, s)
      PROVE  /\ now' = now /\ used \subseteq used' /\ Unsynced \subseteq Unsynced'
             /\ \A j \in Stored' : db'[j].synced =>
                  j \in Stored /\ db[j].synced /\ db'[j].count = db[j].count
  BY <1>3 DEF UpdateStatus, Row
<1>4. CASE AutoCloseStale
  BY <1>4 DEF AutoCloseStale, Stale, Row
<1>5. CASE Cleanup
  BY <1>5 DEF Cleanup, NoRow, TooOld, OverCount
<1> QED
  BY <1>1, <1>2, <1>3, <1>4, <1>5 DEF EdgeStep

LEMMA SyncStepTypes == ASSUME SyncTypeInv, SyncNext PROVE SyncTypeInv'
<1> USE DEF cloudState
<1>0. EdgeTypeOK /\ EventTypes /\ now \in Nat
  BY TypeParts
<1>1. CASE EdgeStep /\ UNCHANGED <<cloudState, agent, by, handler, history, faults>>
  <2>1. EdgeTypeOK' /\ used \subseteq used'
    BY <1>0, <1>1, EdgeStepType, EdgeStepEffect
  <2>2. EventTypes' /\ Events' = Events
    BY <1>0, <1>1 DEF EventTypes, Events
  <2> QED
    BY <1>1, <2>1, <2>2, SameWritersTypes
<1>2. CASE CloudStep /\ UNCHANGED <<used, db, agent, by, handler, history, faults>>
  <2>1. EventTypes' /\ now' = now /\ Events \subseteq Events'
    BY <1>0, <1>2, CloudStepEffect DEF EventsKept
  <2>2. EdgeTypeOK'
    BY <1>0, <1>2, <2>1 DEF EdgeTypeOK, Stored
  <2> QED
    BY <1>2, <2>1, <2>2, SameWritersTypes
<1>3. CASE Tick /\ UNCHANGED <<used, db, cloudState, agent, by, handler, history, faults>>
  <2>1. EventTypes' /\ Events' = Events
    BY <1>0, <1>3 DEF EventTypes, Events
  <2>2. EdgeTypeOK'
    BY <1>0, <1>3 DEF EdgeTypeOK, Stored, Tick
  <2> QED
    BY <1>3, <2>1, <2>2, SameWritersTypes
<1>4. ASSUME NEW h \in Handlers, Post(h) \/ HandlerStep(h) \/ HandlerFault(h)
      PROVE  SyncTypeInv'
  <2>1. CASE Post(h) \/ Answer(h) \/ Abort(h)
    BY <2>1, RequestTypes
  <2>2. CASE \E i \in IncIds : RowStep(h, i)
    BY <2>2, RowStepTypes
  <2> QED
    BY <1>4, <2>1, <2>2 DEF HandlerStep, HandlerFault, RowStep
<1>5. CASE PostLost \/ GiveUp
  <2>1. /\ UNCHANGED <<edgeVars, cloudState, handler, history>>
        /\ agent' \in {Idle, Waiting} /\ by' = NoHandler /\ (Fault \/ UNCHANGED faults)
    BY <1>5 DEF PostLost, GiveUp
  <2>2. EdgeTypeOK' /\ EventTypes' /\ Events' = Events /\ used' = used
    BY <1>0, <2>1 DEF EdgeTypeOK, Stored, EventTypes, Events, edgeVars
  <2>3. HandlersOK'
    BY <2>1, <2>2, SameRequests DEF SyncTypeInv
  <2>4. AgentOK' /\ HistoryOK'
    BY <2>1, FaultCounted DEF SyncTypeInv, AgentOK, HistoryOK, history
  <2> QED
    BY <2>2, <2>3, <2>4 DEF SyncTypeInv
<1> QED
  BY <1>1, <1>2, <1>3, <1>4, <1>5 DEF SyncNext

LEMMA SyncStutterTypes == ASSUME SyncTypeInv, UNCHANGED deliveryVars PROVE SyncTypeInv'
<1>1. EdgeTypeOK' /\ EventTypes' /\ Events' = Events /\ used' = used
  BY TypeParts DEF deliveryVars, edgeVars, cloudState, EdgeTypeOK, Stored, EventTypes, Events
<1> QED
  BY <1>1, SameWritersTypes DEF deliveryVars, syncVars, history

\* SyncTypeOK is an invariant of the synchronisation (sync_manager.py and
\* sync_incidents_from_edge): requests name rows with allocated ids and found
\* events exist, whatever requests overlap, fail or are given up.
THEOREM SyncTypeCorrect == SyncSpec => []SyncTypeOK
<1>1. SyncTypeInv /\ [SyncNext]_deliveryVars => SyncTypeInv'
  BY SyncStepTypes, SyncStutterTypes
<1> QED
  BY SyncInitTypes, <1>1, TypesImplied, PTL DEF SyncSpec

-----------------------------------------------------------------------------
(* One request at a time *)

\* The cloud is not working on two requests of the agent at once.  The sync loop
\* awaits its answers one by one; it fails only when the loop has given up on a
\* request that the cloud still works on, and has sent the next one.
AtMostOneBusy ==
  \A g, h \in Handlers : handler[g].pc # "idle" /\ handler[h].pc # "idle" => g = h

Arrived(i, n) == \E v \in Linked(i) : events[v].count >= n

\* The rows of a request r are not synced (so none of them is deleted), and those it
\* will confirm have arrived.
Confirmable(r) ==
  /\ r.todo \union r.ok \subseteq Unsynced
  /\ \A i \in r.ok : Known(i) /\ (i \in unlinked \/ Arrived(i, r.sent[i].count))

\* The event that the row at hand was matched with: its count only grew since it was
\* read, its link is still free, and the row has no other.
Targeted(r) ==
  /\ r.pc \in {"link", "merge"} => events[r.target].count >= r.readCount
  /\ r.pc = "link" => events[r.target].inc = NoInc
  /\ \A i \in r.todo : Oldest(r.todo, i) =>
       /\ r.pc \in {"findopen", "link", "insert"} => Linked(i) = {}
       /\ r.pc = "merge" => \/ events[r.target].inc = i
                            \/ events[r.target].inc = NoInc /\ i \in unlinked

Working(r) == r.pc # "idle" => Confirmable(r) /\ Targeted(r)

DataInv == ConfirmedIsKnown /\ OneEventPerIncident /\ SyncedCountArrived

\* The inductive invariant of one request at a time
SyncInv == SyncTypeInv /\ DataInv /\ \A h \in Handlers : Working(handler[h])

LEMMA LinkFacts ==
  ASSUME SyncTypeInv
  PROVE  /\ \A i \in IncIds : i # NoInc /\ i \in Int
         /\ \A v \in Events : v \in EventIds /\ events[v].count \in Int
         /\ \A i \in IncIds : db[i].count \in Int
         /\ \A h \in Handlers : /\ handler[h] \in Handler
                                /\ RequestOK(handler[h], Events, used)
                                /\ handler[h].todo \subseteq IncIds
                                /\ handler[h].ok \subseteq IncIds
                                /\ handler[h].readCount \in Int
                                /\ \A i \in IncIds : handler[h].sent[i].count \in Int
  BY TypeParts, CommonAssumption, EventNumbers
     DEF SyncTypeInv, HandlersOK, EdgeTypeOK, Handler, Event, Row

LEMMA OldestIsOne ==
  ASSUME NEW S \in SUBSET IncIds, NEW i \in IncIds, NEW j \in IncIds, Oldest(S, i), Oldest(S, j)
  PROVE  i = j
<1>1. i \in Int /\ j \in Int
  BY CommonAssumption
<1> QED
  BY <1>1 DEF Oldest

\* A step that leaves the rows and the requests alone, adds no link and takes none,
\* and after which the synced rows are some that were, with their counts.
LEMMA QuietStep ==
  ASSUME SyncInv, SyncTypeInv', handler' = handler, UNCHANGED <<stale, unlinked>>,
         EventsKept, \A v \in Events' \ Events : events'[v].inc = NoInc,
         Unsynced \subseteq Unsynced',
         \A i \in Stored' : db'[i].synced =>
              i \in Stored /\ db[i].synced /\ db'[i].count = db[i].count,
         \A i \in IncIds : Confirmed(i)' => Confirmed(i)
  PROVE  SyncInv'
<1> USE DEF SyncInv
<1>1. /\ \A i \in IncIds : i # NoInc
      /\ \A v \in Events : /\ v \in Events' /\ events'[v].inc = events[v].inc
                          /\ events'[v].count >= events[v].count
                          /\ events[v].count \in Int /\ events'[v].count \in Int
  BY LinkFacts, TypeParts DEF SyncTypeInv, EventsKept, Event, EventTypes, Events
<1>2. \A i \in IncIds : /\ Linked(i)' = Linked(i)
                        /\ (Known(i) <=> Known(i)')
  BY <1>1 DEF Linked, Known
<1>3. ASSUME NEW i \in IncIds, NEW n \in Int, Arrived(i, n) PROVE Arrived(i, n)'
  <2>1. PICK v \in Linked(i) : events[v].count >= n
    BY <1>3 DEF Arrived
  <2>2. v \in Events /\ v \in Linked(i)'
    BY <1>2 DEF Linked
  <2>3. events'[v].count >= n
    BY <1>1, <2>1, <2>2
  <2> QED
    BY <2>2, <2>3 DEF Arrived
<1>4. ConfirmedIsKnown'
  BY <1>2 DEF DataInv, ConfirmedIsKnown
<1>5. OneEventPerIncident'
  BY <1>1 DEF DataInv, OneEventPerIncident
<1>6. SyncedCountArrived'
  <2> SUFFICES ASSUME NEW i \in Stored', db'[i].synced, i \notin stale \union unlinked
               PROVE  \E v \in Linked(i)' : events'[v].count >= db'[i].count
    BY DEF SyncedCountArrived
  <2>1. i \in Stored /\ db[i].synced /\ db'[i].count = db[i].count /\ i \in IncIds
    BY DEF Stored
  <2>2. Arrived(i, db[i].count) /\ db[i].count \in Int
    BY <2>1, LinkFacts DEF DataInv, SyncedCountArrived, Arrived
  <2> PICK n : n = db[i].count
    OBVIOUS
  <2>3. Arrived(i, n)'
    BY <2>1, <2>2, <1>3
  <2> QED
    BY <2>1, <2>3 DEF Arrived
<1>7. ASSUME NEW h \in Handlers PROVE Working(handler[h])'
  <2> PICK r : r = handler[h]
    OBVIOUS
  <2> SUFFICES ASSUME r.pc # "idle" PROVE Confirmable(r)' /\ Targeted(r)'
    BY DEF Working
  <2>1. /\ Confirmable(r) /\ Targeted(r) /\ RequestOK(r, Events, used)
        /\ r.todo \subseteq IncIds /\ r.ok \subseteq IncIds /\ r.readCount \in Int
        /\ \A i \in IncIds : r.sent[i].count \in Int
    BY LinkFacts DEF Working
  <2>2. Confirmable(r)'
    BY <2>1, <1>2, <1>3 DEF Confirmable
  <2>3. Targeted(r)'
    <3>1. r.pc \in {"link", "merge"} => /\ events'[r.target].count >= r.readCount
                                        /\ events'[r.target].inc = events[r.target].inc
      BY <2>1, <1>1 DEF Targeted, RequestOK
    <3> QED
      BY <2>1, <3>1, <1>2 DEF Targeted
  <2> QED
    BY <2>2, <2>3
<1> QED
  BY <1>4, <1>5, <1>6, <1>7 DEF DataInv

\* Only the request that takes a step is at work before it, and so after it.
LEMMA OneWorking ==
  ASSUME SyncInv, AtMostOneBusy, NEW h \in Handlers, handler[h].pc # "idle", NEW r,
         handler' = [handler EXCEPT ![h] = r], Working(r)'
  PROVE  \A g \in Handlers : Working(handler[g])'
<1> SUFFICES ASSUME NEW g \in Handlers PROVE Working(handler[g])'
  OBVIOUS
<1>1. handler \in [Handlers -> Handler]
  BY DEF SyncInv, SyncTypeInv, HandlersOK
<1>2. CASE g = h
  BY <1>1, <1>2 DEF Working
<1>3. CASE g # h
  <2>1. handler'[g].pc = "idle"
    BY <1>1, <1>3 DEF AtMostOneBusy
  <2> QED
    BY <2>1 DEF Working
<1> QED
  BY <1>2, <1>3

\* Links that exist stay, with their events' counts.
LinksKept ==
  /\ Events \subseteq Events' /\ unlinked \subseteq unlinked'
  /\ \A v \in Events : events[v].inc # NoInc => events'[v] = events[v]

LEMMA LinksKeptEffect ==
  ASSUME SyncInv, LinksKept
  PROVE  \A i \in IncIds : /\ Linked(i) \subseteq Linked(i)' /\ (Known(i) => Known(i)')
                           /\ \A n : Arrived(i, n) => Arrived(i, n)'
<1> SUFFICES ASSUME NEW i \in IncIds
             PROVE  /\ Linked(i) \subseteq Linked(i)' /\ (Known(i) => Known(i)')
                    /\ \A n : Arrived(i, n) => Arrived(i, n)'
  OBVIOUS
<1>1. \A v \in Linked(i) : v \in Linked(i)' /\ events'[v] = events[v]
  BY EventNumbers DEF Linked, LinksKept
<1> QED
  BY <1>1 DEF Known, Arrived, LinksKept

\* With the links, what was confirmed keeps what it rests on.
LEMMA LinksKeptData ==
  ASSUME SyncInv, LinksKept, UNCHANGED <<used, db, stale>>
  PROVE  /\ ConfirmedIsKnown' /\ SyncedCountArrived'
         /\ \A r \in Handler : Confirmable(r) => Confirmable(r)'
<1>1. \A i \in IncIds : /\ Linked(i) \subseteq Linked(i)' /\ (Known(i) => Known(i)')
                        /\ \A n : Arrived(i, n) => Arrived(i, n)'
  BY LinksKeptEffect
<1>2. ConfirmedIsKnown'
  BY <1>1 DEF SyncInv, DataInv, ConfirmedIsKnown, Confirmed
<1>3. SyncedCountArrived'
  <2> SUFFICES ASSUME NEW i \in Stored', db'[i].synced, i \notin stale' \union unlinked'
               PROVE  \E v \in Linked(i)' : events'[v].count >= db'[i].count
    BY DEF SyncedCountArrived
  <2>1. i \in Stored /\ db[i].synced /\ i \notin stale \union unlinked /\ i \in IncIds
    BY DEF Stored, LinksKept
  <2> PICK n : n = db[i].count
    OBVIOUS
  <2>2. Arrived(i, n)
    BY <2>1 DEF SyncInv, DataInv, SyncedCountArrived, Arrived
  <2>3. Arrived(i, n)'
    BY <2>1, <2>2, <1>1
  <2> QED
    BY <2>3 DEF Arrived
<1>4. ASSUME NEW r \in Handler, Confirmable(r) PROVE Confirmable(r)'
  <2>1. Unsynced' = Unsynced
    BY DEF Unsynced, Stored
  <2>2. \A i \in r.ok : i \in IncIds
    BY DEF Handler
  <2> QED
    BY <1>1, <1>4, <2>1, <2>2 DEF Confirmable, LinksKept
<1> QED
  BY <1>2, <1>3, <1>4

\* A step of a request that only reads, or fails.
LEMMA ReadStep ==
  ASSUME SyncInv, AtMostOneBusy, SyncTypeInv', NEW h \in Handlers, handler[h].pc # "idle",
         UNCHANGED <<used, db, events, stale>>, unlinked \subseteq unlinked', NEW r \in Handler,
         handler' = [handler EXCEPT ![h] = r], r.pc # "idle",
         r.todo \subseteq handler[h].todo, r.ok = handler[h].ok, r.sent = handler[h].sent,
         Targeted(r)'
  PROVE  SyncInv'
<1>1. LinksKept /\ Events' = Events
  BY DEF LinksKept, Events
<1>2. Confirmable(handler[h])
  BY DEF SyncInv, Working
<1>3. Confirmable(r)
  BY <1>2 DEF Confirmable
<1>4. ConfirmedIsKnown' /\ SyncedCountArrived' /\ Confirmable(r)'
  BY <1>1, <1>3, LinksKeptData
<1>5. OneEventPerIncident'
  BY <1>1 DEF SyncInv, DataInv, OneEventPerIncident
<1>6. \A g \in Handlers : Working(handler[g])'
  BY <1>4, OneWorking DEF Working
<1> QED
  BY <1>4, <1>5, <1>6 DEF SyncInv, DataInv

LEMMA FindSteps ==
  ASSUME SyncInv, AtMostOneBusy, SyncTypeInv', NEW h \in Handlers, NEW i \in IncIds,
         FindByIncident(h, i) \/ FindByWindow(h, i) \/ WindowLookupFails(h, i)
  PROVE  SyncInv'
<1> USE DEF history, cloudState
<1>0. /\ UNCHANGED <<used, db, events, stale>> /\ unlinked \subseteq unlinked'
      /\ handler[h].pc # "idle" /\ Oldest(handler[h].todo, i) /\ Events' = Events
      /\ SyncTypeInv /\ handler[h].todo \in SUBSET IncIds
  BY LinkFacts DEF SyncInv, FindByIncident, FindByWindow, WindowLookupFails, edgeVars, Events
<1>1. handler[h].pc = "findopen" => Linked(i) = {}
  BY <1>0 DEF SyncInv, Working, Targeted, Oldest
<1>2. ASSUME NEW p \in {"findopen", "link", "merge", "insert"}, NEW v \in Events \union {NoEvent},
             Found(h, p, v), p \in {"link", "merge"} => v \in Events,
             p = "link" => events[v].inc = NoInc,
             p = "merge" => events[v].inc = i,
             p # "merge" => Linked(i) = {}
      PROVE  SyncInv'
  <2>1. PICK r : /\ handler' = [handler EXCEPT ![h] = r]
                 /\ RequestOK(r, Events, used)
                 /\ r.pc = p /\ r.target = v /\ (v # NoEvent => r.readCount = events[v].count)
                 /\ r.todo = handler[h].todo /\ r.sent = handler[h].sent /\ r.ok = handler[h].ok
    BY <1>0, <1>2, FoundEffect
  <2>2. r \in Handler /\ r.pc # "idle"
    BY <2>1 DEF RequestOK
  <2>3. \A j \in r.todo : Oldest(r.todo, j) => j = i
    BY <1>0, <2>1, OldestIsOne
  <2>4. v \in Events => v # NoEvent /\ events[v].count \in Int /\ events'[v] = events[v]
    BY <1>0, LinkFacts, EventNumbers
  <2>5. Linked(i)' = Linked(i)
    BY <1>0 DEF Linked
  <2>6. Targeted(r)'
    <3>1. r.pc \in {"link", "merge"} => events'[r.target].count >= r.readCount
      BY <1>2, <2>1, <2>4
    <3>2. r.pc = "link" => events'[r.target].inc = NoInc
      BY <1>2, <2>1, <2>4
    <3>3. r.pc \in {"findopen", "link", "insert"} => Linked(i)' = {}
      BY <1>2, <2>1, <2>5
    <3>4. r.pc = "merge" => events'[r.target].inc = i
      BY <1>2, <2>1, <2>4
    <3> QED
      BY <2>3, <3>1, <3>2, <3>3, <3>4 DEF Targeted
  <2> QED
    BY <1>0, <2>1, <2>2, <2>6, ReadStep
<1>3. CASE FindByIncident(h, i)
  <2>1. CASE Linked(i) = {} /\ Found(h, "findopen", NoEvent)
    BY <1>2, <2>1
  <2>2. ASSUME NEW v \in Linked(i), Found(h, "merge", v) PROVE SyncInv'
    BY <1>2, <2>2 DEF Linked
  <2> QED
    BY <1>3, <2>1, <2>2 DEF FindByIncident
<1>4. CASE FindByWindow(h, i)
  <2> PICK C : C = Candidates(handler[h].sent[i])
    OBVIOUS
  <2>1. C \subseteq Events /\ \A v \in C : events[v].inc = NoInc
    BY DEF Candidates, OpenOn, Open
  <2>2. Linked(i) = {}
    BY <1>1, <1>4 DEF FindByWindow
  <2>3. Found(h, "insert", NoEvent) \/ \E v \in C : Found(h, "link", v)
    BY <1>4 DEF FindByWindow
  <2> QED
    BY <1>2, <2>1, <2>2, <2>3
<1>5. CASE WindowLookupFails(h, i)
  BY <1>1, <1>2, <1>5 DEF WindowLookupFails
<1> QED
  BY <1>3, <1>4, <1>5

LEMMA FailSteps ==
  ASSUME SyncInv, AtMostOneBusy, SyncTypeInv', NEW h \in Handlers, NEW i \in IncIds,
         LinkFails(h, i) \/ RowFails(h, i)
  PROVE  SyncInv'
<1> USE DEF history, cloudState
<1>0. /\ UNCHANGED <<used, db, events, stale>> /\ unlinked \subseteq unlinked'
      /\ Oldest(handler[h].todo, i)
      /\ handler[h] \in Handler /\ handler[h].pc # "idle" /\ Targeted(handler[h])
      /\ RequestOK(handler[h], Events, used) /\ handler[h].todo \in SUBSET IncIds
      /\ SyncTypeInv
  BY LinkFacts DEF SyncInv, Working, LinkFails, RowFails, edgeVars
<1>1. CASE LinkFails(h, i)
  <2> PICK r : r = [handler[h] EXCEPT !.pc = "merge"]
    OBVIOUS
  <2>1. /\ r \in Handler /\ r.pc = "merge" /\ r.todo = handler[h].todo
        /\ r.ok = handler[h].ok /\ r.sent = handler[h].sent
        /\ r.target = handler[h].target /\ r.readCount = handler[h].readCount
        /\ handler' = [handler EXCEPT ![h] = r]
    BY <1>0, <1>1 DEF LinkFails, Handler
  <2>2. \A j \in r.todo : Oldest(r.todo, j) => j = i
    BY <1>0, <2>1, OldestIsOne
  <2>3. handler[h].pc = "link" /\ i \in unlinked'
    BY <1>1 DEF LinkFails
  <2>4. Targeted(r)'
    BY <1>0, <2>1, <2>2, <2>3 DEF Targeted
  <2> QED
    BY <1>0, <2>1, <2>4, ReadStep
<1>2. CASE RowFails(h, i)
  <2>1. PICK r : /\ handler' = [handler EXCEPT ![h] = r]
                 /\ RequestOK(r, Events, used)
                 /\ r.pc = "find" /\ r.sent = handler[h].sent /\ r.todo = handler[h].todo \ {i}
                 /\ r.ok = handler[h].ok
    BY <1>0, <1>2, FailedRow
  <2>2. Targeted(r)' /\ r \in Handler
    BY <2>1 DEF Targeted, RequestOK
  <2> QED
    BY <1>0, <2>1, <2>2, ReadStep
<1> QED
  BY <1>1, <1>2

LEMMA LinkStep ==
  ASSUME SyncInv, AtMostOneBusy, SyncTypeInv', NEW h \in Handlers, NEW i \in IncIds,
         LinkEvent(h, i)
  PROVE  SyncInv'
<1> USE DEF history, cloudState
<1>0. /\ UNCHANGED <<used, db, stale, unlinked>>
      /\ Oldest(handler[h].todo, i) /\ i \in handler[h].todo
      /\ handler[h] \in Handler /\ handler[h].pc = "link"
      /\ Targeted(handler[h]) /\ Confirmable(handler[h])
      /\ handler[h].todo \in SUBSET IncIds /\ i # NoInc
  BY LinkFacts DEF SyncInv, Working, LinkEvent, Oldest, edgeVars
<1> PICK v \in Events, r \in Handler :
           /\ v = handler[h].target
           /\ events' \in [EventIds -> Event] /\ Events' = Events
           /\ events'[v].inc = i /\ events'[v].count = events[v].count
           /\ \A w \in EventIds \ {v} : events'[w] = events[w]
           /\ handler' = [handler EXCEPT ![h] = r]
           /\ RequestOK(r, Events, used)
           /\ r = [handler[h] EXCEPT !.pc = "merge"]
  BY LinkEffect DEF SyncInv
<1>1. events[v].inc = NoInc /\ Linked(i) = {}
  BY <1>0 DEF Targeted
<1>2. LinksKept /\ \A w \in Events \ {v} : events'[w] = events[w]
  BY <1>0, <1>1 DEF LinksKept, Events
<1> PICK q : q = handler[h]
  OBVIOUS
<1>3. ConfirmedIsKnown' /\ SyncedCountArrived' /\ Confirmable(q)'
  BY <1>0, <1>2, LinksKeptData
<1>4. OneEventPerIncident'
  <2> SUFFICES ASSUME NEW x \in Events, NEW y \in Events,
                      events'[x].inc = events'[y].inc, events'[x].inc # NoInc
               PROVE  x = y
    BY DEF OneEventPerIncident
  <2>1. \A w \in Events \ {v} : events'[w].inc # i
    BY <1>1, <1>2 DEF Linked
  <2> QED
    BY <1>2, <2>1 DEF SyncInv, DataInv, OneEventPerIncident
<1>5. Working(r)'
  <2>1. /\ r \in Handler /\ r.pc = "merge" /\ r.todo = handler[h].todo
        /\ r.ok = handler[h].ok /\ r.sent = handler[h].sent
        /\ r.target = v /\ r.readCount = handler[h].readCount
    BY <1>0 DEF Handler
  <2>2. \A j \in r.todo : Oldest(r.todo, j) => j = i
    BY <1>0, <2>1, OldestIsOne
  <2>3. Targeted(r)'
    BY <1>0, <2>1, <2>2 DEF Targeted
  <2> QED
    BY <2>1, <2>3, <1>3 DEF Working, Confirmable
<1> QED
  BY <1>0, <1>3, <1>4, <1>5, OneWorking DEF SyncInv, DataInv

LEMMA MergeStep ==
  ASSUME SyncInv, AtMostOneBusy, SyncTypeInv', NEW h \in Handlers, NEW i \in IncIds,
         MergeEvent(h, i)
  PROVE  SyncInv'
<1> USE DEF history, cloudState
<1>0. /\ UNCHANGED <<used, db, stale, unlinked>>
      /\ Oldest(handler[h].todo, i) /\ i \in handler[h].todo
      /\ handler[h] \in Handler /\ handler[h].pc = "merge"
      /\ Targeted(handler[h]) /\ Confirmable(handler[h])
      /\ handler[h].todo \in SUBSET IncIds /\ i # NoInc /\ SyncTypeInv
  BY LinkFacts DEF SyncInv, Working, MergeEvent, Oldest, edgeVars
<1> PICK v \in Events, r \in Handler :
           /\ v = handler[h].target
           /\ events' \in [EventIds -> Event] /\ Events' = Events
           /\ events'[v].inc = events[v].inc
           /\ events'[v].count = IF handler[h].sent[i].count > handler[h].readCount
                                 THEN handler[h].sent[i].count ELSE events[v].count
           /\ \A w \in EventIds \ {v} : events'[w] = events[w]
           /\ handler' = [handler EXCEPT ![h] = r]
           /\ RequestOK(r, Events, used)
           /\ r.pc = "find" /\ r.sent = handler[h].sent /\ r.todo = handler[h].todo \ {i}
           /\ r.ok = handler[h].ok \union {i}
  BY <1>0, MergeEffect
<1>1. events[v].inc = i \/ (events[v].inc = NoInc /\ i \in unlinked)
  BY <1>0 DEF Targeted
<1>2. \A w \in Events : events'[w].inc = events[w].inc /\ (w # v => events'[w] = events[w])
  BY DEF Events
<1>3. events'[v].count >= handler[h].sent[i].count
  <2>1. /\ events[v].count >= handler[h].readCount
        /\ events[v].count \in Int /\ handler[h].readCount \in Int
        /\ handler[h].sent[i].count \in Int
    BY <1>0, LinkFacts DEF Targeted
  <2> QED
    BY <2>1
<1>4. \A j \in IncIds : Linked(j)' = Linked(j) /\ (Known(j)' <=> Known(j))
  BY <1>0, <1>2 DEF Linked, Known
<1>5. ASSUME NEW j \in IncIds, j # i, NEW n, Arrived(j, n)
      PROVE  \E w \in Linked(j)' : events'[w].count >= n
  <2>1. PICK w \in Linked(j) : events[w].count >= n
    BY <1>5 DEF Arrived
  <2>2. w # v
    BY <1>0, <1>1, <1>5, EventNumbers DEF Linked
  <2> QED
    BY <1>2, <1>4, <2>1, <2>2 DEF Linked
<1>6. i \in Unsynced
  BY <1>0 DEF Confirmable
<1>7. ConfirmedIsKnown'
  BY <1>0, <1>4 DEF SyncInv, DataInv, ConfirmedIsKnown, Confirmed
<1>8. OneEventPerIncident'
  BY <1>2 DEF SyncInv, DataInv, OneEventPerIncident
<1>9. SyncedCountArrived'
  <2> SUFFICES ASSUME NEW j \in Stored', db'[j].synced, j \notin stale' \union unlinked'
               PROVE  \E w \in Linked(j)' : events'[w].count >= db'[j].count
    BY DEF SyncedCountArrived
  <2>1. j \in Stored /\ db[j].synced /\ j \notin stale \union unlinked /\ j \in IncIds
    BY <1>0 DEF Stored
  <2>2. j # i
    BY <1>6, <2>1 DEF Unsynced
  <2>3. Arrived(j, db[j].count)
    BY <2>1 DEF SyncInv, DataInv, SyncedCountArrived, Arrived
  <2> QED
    BY <1>0, <1>5, <2>1, <2>2, <2>3
<1>10. Working(r)'
  <2>1. r.todo \union r.ok \subseteq Unsynced'
    BY <1>0 DEF Confirmable, Unsynced, Stored
  <2>2. ASSUME NEW j \in r.ok PROVE Known(j)' /\ (j \in unlinked' \/ Arrived(j, r.sent[j].count)')
    <3>1. CASE j = i
      <4>1. v \in Linked(i)' \/ i \in unlinked'
        BY <1>0, <1>1, <1>2 DEF Linked
      <4> QED
        BY <1>3, <3>1, <4>1 DEF Known, Arrived
    <3>2. CASE j # i
      <4>1. j \in handler[h].ok /\ j \in IncIds
        BY <1>0, <3>2 DEF Handler
      <4>2. Known(j) /\ (j \in unlinked \/ Arrived(j, r.sent[j].count))
        BY <1>0, <4>1 DEF Confirmable
      <4> QED
        BY <1>0, <1>4, <1>5, <3>2, <4>1, <4>2 DEF Arrived
    <3> QED
      BY <3>1, <3>2
  <2>3. Targeted(r)'
    BY DEF Targeted
  <2> QED
    BY <2>1, <2>2, <2>3 DEF Working, Confirmable
<1> QED
  BY <1>0, <1>7, <1>8, <1>9, <1>10, OneWorking DEF SyncInv, DataInv

LEMMA InsertStep ==
  ASSUME SyncInv, AtMostOneBusy, SyncTypeInv', NEW h \in Handlers, NEW i \in IncIds,
         InsertFromEdge(h, i)
  PROVE  SyncInv'
<1> USE DEF history, cloudState
<1>0. /\ UNCHANGED <<used, db, stale, unlinked>>
      /\ Oldest(handler[h].todo, i) /\ i \in handler[h].todo
      /\ handler[h] \in Handler /\ handler[h].pc = "insert"
      /\ Targeted(handler[h]) /\ Confirmable(handler[h])
      /\ handler[h].todo \in SUBSET IncIds /\ i # NoInc /\ SyncTypeInv
  BY LinkFacts DEF SyncInv, Working, InsertFromEdge, Oldest, edgeVars
<1> PICK v \in EventIds \ Events, r \in Handler :
           /\ events' \in [EventIds -> Event] /\ Events' = Events \union {v}
           /\ events'[v].inc = i /\ events'[v].count = handler[h].sent[i].count
           /\ \A w \in Events : events'[w] = events[w]
           /\ handler' = [handler EXCEPT ![h] = r]
           /\ RequestOK(r, Events, used)
           /\ r.pc = "find" /\ r.sent = handler[h].sent /\ r.todo = handler[h].todo \ {i}
           /\ r.ok = handler[h].ok \union {i}
  BY <1>0, InsertFromEdgeEffect
<1> PICK q : q = handler[h]
  OBVIOUS
<1>1. LinksKept /\ Linked(i) = {}
  BY <1>0 DEF LinksKept, Targeted
<1>2. ConfirmedIsKnown' /\ SyncedCountArrived' /\ Confirmable(q)'
  BY <1>0, <1>1, LinksKeptData
<1>3. OneEventPerIncident'
  <2> SUFFICES ASSUME NEW x \in Events', NEW y \in Events',
                      events'[x].inc = events'[y].inc, events'[x].inc # NoInc
               PROVE  x = y
    BY DEF OneEventPerIncident
  <2>1. \A w \in Events : events'[w].inc # i
    BY <1>1 DEF Linked
  <2> QED
    BY <2>1 DEF SyncInv, DataInv, OneEventPerIncident
<1>4. v \in Linked(i)' /\ events'[v].count >= handler[h].sent[i].count
  <2>1. handler[h].sent[i].count \in Int
    BY <1>0, LinkFacts
  <2> QED
    BY <2>1 DEF Linked
<1>5. Working(r)'
  <2>1. r.todo \union r.ok \subseteq Unsynced'
    BY <1>0 DEF Confirmable, Unsynced, Stored
  <2>2. ASSUME NEW j \in r.ok PROVE Known(j)' /\ (j \in unlinked' \/ Arrived(j, r.sent[j].count)')
    <3>1. CASE j = i
      BY <1>4, <3>1 DEF Known, Arrived
    <3>2. CASE j # i
      BY <1>2, <3>2 DEF Confirmable
    <3> QED
      BY <3>1, <3>2
  <2>3. Targeted(r)'
    BY DEF Targeted
  <2> QED
    BY <2>1, <2>2, <2>3 DEF Working, Confirmable
<1> QED
  BY <1>0, <1>2, <1>3, <1>5, OneWorking DEF SyncInv, DataInv

\* A request that is sent has confirmed nothing; what is not at work is at rest.
LEMMA RequestSteps ==
  ASSUME SyncInv, SyncTypeInv', NEW h \in Handlers, Post(h) \/ Abort(h)
  PROVE  SyncInv'
<1> USE DEF history, cloudState
<1>0. UNCHANGED <<used, db, events, stale, unlinked>> /\ SyncTypeInv /\ Events' = Events
  BY DEF SyncInv, Post, Abort, edgeVars, Events
<1>1. LinksKept
  BY <1>0 DEF LinksKept
<1>2. ConfirmedIsKnown' /\ SyncedCountArrived' /\ OneEventPerIncident'
  BY <1>0, <1>1, LinksKeptData DEF SyncInv, DataInv, OneEventPerIncident
<1>3. PICK r : handler' = [handler EXCEPT ![h] = r] /\ Working(r)'
  <2>1. CASE Post(h)
    <3>1. PICK r : /\ handler' = [handler EXCEPT ![h] = r]
                   /\ RequestOK(r, Events, used)
                   /\ r.pc = "find" /\ r.ok = {} /\ r.todo \subseteq Unsynced
      BY <1>0, <2>1, PostEffect
    <3>2. r.todo \union r.ok \subseteq Unsynced'
      BY <1>0, <3>1 DEF Unsynced, Stored
    <3>3. Working(r)'
      BY <3>1, <3>2 DEF Working, Confirmable, Targeted
    <3> QED
      BY <3>1, <3>3
  <2>2. CASE Abort(h)
    BY <2>2, IdleRequest DEF Abort, Working
  <2> QED
    BY <2>1, <2>2
<1>4. ASSUME NEW g \in Handlers PROVE Working(handler[g])'
  <2>1. handler \in [Handlers -> Handler]
    BY <1>0 DEF SyncTypeInv, HandlersOK
  <2>2. CASE g = h
    BY <1>3, <2>1, <2>2 DEF Working
  <2>3. CASE g # h
    <3> PICK q : q = handler[g]
      OBVIOUS
    <3>1. Working(q) /\ q \in Handler /\ q = handler'[g]
      BY <1>3, <2>1, <2>3 DEF SyncInv
    <3>2. Confirmable(q) => Confirmable(q)'
      BY <1>0, <1>1, <3>1, LinksKeptData
    <3>3. Targeted(q) => Targeted(q)'
      BY <1>0 DEF Targeted, Linked
    <3>4. Working(q)'
      BY <3>1, <3>2, <3>3 DEF Working
    <3> QED
      BY <3>1, <3>4 DEF Working
  <2> QED
    BY <2>2, <2>3
<1> QED
  BY <1>2, <1>4 DEF SyncInv, DataInv

\* What Answer does to the rows: those of the answer are synced, if the agent still
\* awaits it.
LEMMA AnswerEffect ==
  ASSUME SyncTypeInv, NEW h \in Handlers, Answer(h)
  PROVE  /\ UNCHANGED <<used, events, unlinked>> /\ Stored' = Stored
         /\ handler[h].pc = "find" /\ handler' = [handler EXCEPT ![h] = IdleHandler]
         /\ \A i \in IncIds : db'[i].count = db[i].count
         /\ \/ UNCHANGED <<db, stale>>
            \/ /\ \A i \in Stored : db'[i].synced <=> (i \in handler[h].ok \/ db[i].synced)
               /\ stale' = (stale \ handler[h].ok) \union
                           {i \in handler[h].ok : db[i] # handler[h].sent[i]}
<1>1. CASE by # h
  BY <1>1 DEF Answer, edgeVars, cloudState, Stored
<1>2. CASE by = h
  <2> PICK O : O = handler[h].ok
    OBVIOUS
  <2>1. db \in [IncIds -> Row]
    BY TypeParts DEF EdgeTypeOK
  <2>2. /\ db' = [i \in IncIds |-> IF i \in O /\ db[i].status # "none"
                             THEN [db[i] EXCEPT !.synced = TRUE] ELSE db[i]]
        /\ used' = used
    BY <1>2 DEF Answer, MarkSynced
  <2>3. \A i \in IncIds : /\ db'[i].count = db[i].count /\ db'[i].status = db[i].status
                          /\ i \in Stored => db'[i].synced <=> (i \in O \/ db[i].synced)
    BY <2>1, <2>2 DEF Row, Stored
  <2>4. Stored' = Stored
    BY <2>3 DEF Stored
  <2>5. \A i \in Stored : i \in IncIds
    BY DEF Stored
  <2>6. /\ UNCHANGED <<events, unlinked>> /\ handler[h].pc = "find"
        /\ handler' = [handler EXCEPT ![h] = IdleHandler]
        /\ stale' = (stale \ O) \union {i \in O : db[i] # handler[h].sent[i]}
    BY <1>2 DEF Answer, cloudState
  <2> QED
    BY <2>2, <2>3, <2>4, <2>5, <2>6
<1> QED
  BY <1>1, <1>2

LEMMA AnswerStep ==
  ASSUME SyncInv, AtMostOneBusy, SyncTypeInv', NEW h \in Handlers, Answer(h)
  PROVE  SyncInv'
<1> PICK q : q = handler[h]
  OBVIOUS
<1>0. /\ SyncTypeInv /\ handler[h].pc = "find" /\ q.ok \subseteq IncIds
      /\ UNCHANGED <<used, events, unlinked>> /\ Stored' = Stored /\ Events' = Events
      /\ handler' = [handler EXCEPT ![h] = IdleHandler]
      /\ \A i \in IncIds : db'[i].count = db[i].count
  BY AnswerEffect, LinkFacts DEF SyncInv, Events
<1>1. \/ UNCHANGED <<db, stale>>
      \/ /\ \A i \in Stored : db'[i].synced <=> (i \in q.ok \/ db[i].synced)
         /\ stale' = (stale \ q.ok) \union {i \in q.ok : db[i] # q.sent[i]}
  BY <1>0, AnswerEffect
<1>2. Confirmable(q)
  BY <1>0 DEF SyncInv, Working
<1>3. \A i \in IncIds : Linked(i)' = Linked(i) /\ (Known(i)' <=> Known(i))
  BY <1>0 DEF Linked, Known
<1>4. ConfirmedIsKnown'
  <2> SUFFICES ASSUME NEW i \in IncIds, Confirmed(i)' PROVE Known(i)
    BY <1>3 DEF ConfirmedIsKnown
  <2>1. Confirmed(i) \/ i \in q.ok
    BY <1>0, <1>1 DEF Confirmed, Stored
  <2> QED
    BY <1>2, <2>1 DEF SyncInv, DataInv, ConfirmedIsKnown, Confirmable
<1>5. OneEventPerIncident'
  BY <1>0 DEF SyncInv, DataInv, OneEventPerIncident
<1>6. SyncedCountArrived'
  <2> SUFFICES ASSUME NEW i \in Stored, db'[i].synced, i \notin stale' \union unlinked'
               PROVE  \E v \in Linked(i) : events[v].count >= db[i].count
    <3>1. \A i \in Stored : i \in IncIds
      BY DEF Stored
    <3> QED
      BY <1>0, <1>3, <3>1 DEF SyncedCountArrived
  <2>1. CASE i \in q.ok /\ ~UNCHANGED <<db, stale>>
    <3>1. db[i] = q.sent[i] /\ i \notin unlinked
      BY <1>0, <1>1, <2>1
    <3> QED
      BY <1>2, <2>1, <3>1 DEF Confirmable, Arrived
  <2>2. CASE i \notin q.ok \/ UNCHANGED <<db, stale>>
    <3>1. db[i].synced /\ i \notin stale \union unlinked
      BY <1>0, <1>1, <2>2
    <3> QED
      BY <3>1 DEF SyncInv, DataInv, SyncedCountArrived
  <2> QED
    BY <2>1, <2>2
<1>7. \A g \in Handlers : Working(handler[g])'
  <2> PICK r : r = IdleHandler
    OBVIOUS
  <2>1. Working(r)'
    BY IdleRequest DEF Working
  <2> QED
    BY <1>0, <2>1, OneWorking
<1> QED
  BY <1>4, <1>5, <1>6, <1>7 DEF SyncInv, DataInv

-----------------------------------------------------------------------------
(* What the agent is done with, and what the cloud knows *)

ConfirmedRows == {i \in IncIds : Confirmed(i)}
KnownRows == {i \in IncIds : Known(i)}

\* A step of the agent on its table records an incident, or lets a confirmed one
\* change, or lets go of nothing and takes nothing back.
LEMMA EdgeStepDelivers ==
  ASSUME EdgeTypeOK, EdgeStep
  PROVE  \/ \E i \in IncIds \ used : used' = used \union {i} /\ ConfirmedRows' = ConfirmedRows
         \/ used' = used /\ \E i \in IncIds : ConfirmedRows' = ConfirmedRows \ {i}
         \/ used' = used /\ ConfirmedRows' = ConfirmedRows
<1> USE DEF EdgeTypeOK, Stored
<1>0. db \in [IncIds -> Row] /\ \A i \in IncIds : db[i].status # "none" => i \in used
  OBVIOUS
<1>1. ASSUME NEW c \in Cameras, NEW k \in Classes, GroupDetection(c, k)
      PROVE  used' = used /\ \E i \in IncIds : ConfirmedRows' = ConfirmedRows \ {i}
  <2> PICK i \in IncIds :
         /\ i \in Stored
         /\ db' = [db EXCEPT ![i].count = @ + 1, ![i].synced = FALSE]
         /\ used' = used
    BY <1>1 DEF GroupDetection, LatestOpen, OpenRows
  <2>1. db' = [db EXCEPT ![i] = [db[i] EXCEPT !.count = @ + 1, !.synced = FALSE]]
    BY <1>0 DEF Row
  <2>2. \A j \in IncIds \ {i} : db'[j] = db[j]
    BY <2>1, <1>0
  <2>3. db'[i].status # "none" /\ ~db'[i].synced
    BY <2>1, <1>0 DEF Row
  <2>4. ConfirmedRows' = ConfirmedRows \ {i}
    BY <2>2, <2>3 DEF ConfirmedRows, Confirmed
  <2> QED
    BY <2>4
<1>2. ASSUME NEW c \in Cameras, NEW k \in Classes, OpenIncident(c, k)
      PROVE  \E i \in IncIds \ used : used' = used \union {i} /\ ConfirmedRows' = ConfirmedRows
  <2> PICK i \in IncIds \ used :
         /\ used' = used \union {i}
         /\ db' = [db EXCEPT ![i] = [status |-> "new", cam |-> c, cls |-> k,
                                     start |-> now, count |-> 1, synced |-> FALSE]]
    BY <1>2 DEF OpenIncident
  <2>1. \A j \in IncIds \ {i} : db'[j] = db[j]
    BY <1>0
  <2>2. db'[i].status # "none" /\ ~db'[i].synced
    BY <1>0
  <2>3. ConfirmedRows' = ConfirmedRows
    BY <2>1, <2>2 DEF ConfirmedRows, Confirmed
  <2> QED
    BY <2>3
<1>3. ASSUME NEW i \in IncIds, NEW s \in {"acknowledged", "resolved"}, UpdateStatus(i, s)
      PROVE  used' = used /\ ConfirmedRows' = ConfirmedRows \ {i}
  <2>1. db' = [db EXCEPT ![i] = [db[i] EXCEPT !.status = s, !.synced = FALSE]] /\ used' = used
    BY <1>0, <1>3 DEF UpdateStatus, Row
  <2>2. \A j \in IncIds \ {i} : db'[j] = db[j]
    BY <2>1, <1>0
  <2>3. db'[i].status # "none" /\ ~db'[i].synced
    BY <2>1, <1>0 DEF Row
  <2> QED
    BY <2>1, <2>2, <2>3 DEF ConfirmedRows, Confirmed
<1>4. CASE AutoCloseStale
  <2>1. used' = used /\ \A i \in IncIds : /\ db'[i].synced = db[i].synced
                                          /\ db'[i].status = "none" <=> db[i].status = "none"
    BY <1>0, <1>4 DEF AutoCloseStale, Stale, Row
  <2>2. ConfirmedRows' = ConfirmedRows
    BY <2>1 DEF ConfirmedRows, Confirmed
  <2> QED
    BY <2>1, <2>2
<1>5. CASE Cleanup
  <2> PICK gone : gone = {i \in Stored : TooOld(i)} \union OverCount
    OBVIOUS
  <2>1. /\ used' = used
        /\ db' = [i \in IncIds |-> IF i \in gone THEN NoRow ELSE db[i]]
        /\ \A i \in gone : i \in Stored /\ db[i].synced
    BY <1>5 DEF Cleanup, TooOld, OverCount
  <2>2. \A i \in IncIds : i \in used' => (Confirmed(i)' <=> Confirmed(i))
    BY <1>0, <2>1 DEF Confirmed, NoRow
  <2>3. ConfirmedRows' = ConfirmedRows
    BY <2>1, <2>2 DEF ConfirmedRows, Confirmed
  <2> QED
    BY <2>1, <2>3
<1> QED
  BY <1>1, <1>2, <1>3, <1>4, <1>5 DEF EdgeStep

\* Every step of the system keeps the invariant of one request at a time.
LEMMA SyncStepInv == ASSUME SyncInv, AtMostOneBusy, SyncNext PROVE SyncInv'
<1>0. SyncTypeInv /\ SyncTypeInv' /\ EdgeTypeOK /\ EventTypes /\ now \in Nat
  BY SyncStepTypes, TypeParts DEF SyncInv
<1> USE DEF history, cloudState
<1>a. EventTypes => \A v \in Events : events[v].count >= events[v].count
  BY DEF EventTypes, Events, Event
<1>1. CASE EdgeStep /\ UNCHANGED <<cloudState, agent, by, handler, history, faults>>
  <2>1. EventsKept /\ Events' = Events
    BY <1>0, <1>1, <1>a DEF EventsKept, Events
  <2>2. /\ Unsynced \subseteq Unsynced'
        /\ \A i \in Stored' : db'[i].synced =>
              i \in Stored /\ db[i].synced /\ db'[i].count = db[i].count
    BY <1>0, <1>1, EdgeStepEffect
  <2>3. ConfirmedRows' \subseteq ConfirmedRows
    BY <1>0, <1>1, EdgeStepDelivers
  <2> QED
    BY <1>0, <1>1, <2>1, <2>2, <2>3, QuietStep DEF ConfirmedRows
<1>2. CASE CloudStep /\ UNCHANGED <<used, db, agent, by, handler, history, faults>>
  <2>1. EventsKept /\ \A v \in Events' \ Events : events'[v].inc = NoInc
    BY <1>0, <1>2, CloudStepEffect
  <2>2. Stored' = Stored /\ Unsynced' = Unsynced /\ \A i \in IncIds : Confirmed(i)' <=> Confirmed(i)
    BY <1>2 DEF Stored, Unsynced, Confirmed
  <2> QED
    BY <1>0, <1>2, <2>1, <2>2, QuietStep
<1>3. CASE \/ Tick /\ UNCHANGED <<used, db, cloudState, agent, by, handler, history, faults>>
           \/ PostLost \/ GiveUp
  <2>1. UNCHANGED <<used, db, cloudState, handler, history>>
    BY <1>3 DEF PostLost, GiveUp, edgeVars
  <2>2. EventsKept /\ Events' = Events
    BY <1>0, <2>1, <1>a DEF EventsKept, Events
  <2>3. Stored' = Stored /\ Unsynced' = Unsynced /\ \A i \in IncIds : Confirmed(i)' <=> Confirmed(i)
    BY <2>1 DEF Stored, Unsynced, Confirmed
  <2> QED
    BY <1>0, <2>1, <2>2, <2>3, QuietStep
<1>4. ASSUME NEW h \in Handlers, Post(h) \/ HandlerStep(h) \/ HandlerFault(h)
      PROVE  SyncInv'
  <2>1. CASE Post(h) \/ Abort(h)
    BY <1>0, <2>1, RequestSteps
  <2>2. CASE Answer(h)
    BY <1>0, <2>2, AnswerStep
  <2>3. ASSUME NEW i \in IncIds, RowStep(h, i) PROVE SyncInv'
    BY <1>0, <2>3, FindSteps, FailSteps, LinkStep, MergeStep, InsertStep DEF RowStep
  <2> QED
    BY <1>4, <2>1, <2>2, <2>3 DEF HandlerStep, HandlerFault, RowStep
<1> QED
  BY <1>1, <1>2, <1>3, <1>4 DEF SyncNext

LEMMA SyncStutterInv == ASSUME SyncInv, UNCHANGED deliveryVars PROVE SyncInv'
<1>0. SyncTypeInv /\ SyncTypeInv' /\ EventTypes
  BY SyncStutterTypes, TypeParts DEF SyncInv
<1>1. UNCHANGED <<used, db, events, handler, stale, unlinked>>
  BY DEF deliveryVars, edgeVars, syncVars, cloudState
<1>2. EventsKept /\ Events' = Events
  <2>1. \A v \in Events : events[v].count >= events[v].count
    BY <1>0 DEF EventTypes, Events, Event
  <2> QED
    BY <1>1, <2>1 DEF EventsKept, Events
<1>3. Stored' = Stored /\ Unsynced' = Unsynced /\ \A i \in IncIds : Confirmed(i)' <=> Confirmed(i)
  BY <1>1 DEF Stored, Unsynced, Confirmed
<1> QED
  BY <1>0, <1>1, <1>2, <1>3, QuietStep

LEMMA SyncInitInv == SyncInit => SyncInv
<1> SUFFICES ASSUME SyncInit PROVE SyncInv
  OBVIOUS
<1>1. Events = {} /\ Stored = {} /\ used = {}
  BY DEF SyncInit, EdgeInit, CloudInit, Events, Stored, NoDoc, NoRow
<1>2. DataInv
  BY <1>1 DEF DataInv, ConfirmedIsKnown, Confirmed, OneEventPerIncident, SyncedCountArrived
<1>3. \A h \in Handlers : Working(handler[h])
  BY IdleRequest DEF SyncInit, Working
<1> QED
  BY <1>2, <1>3, SyncInitTypes DEF SyncInv

LEMMA SyncInvariant == SyncSpec /\ []AtMostOneBusy => []SyncInv
<1>1. SyncInv /\ AtMostOneBusy /\ [SyncNext]_deliveryVars => SyncInv'
  BY SyncStepInv, SyncStutterInv
<1> QED
  BY SyncInitInv, <1>1, PTL DEF SyncSpec

\* An incident the agent regards as synced, and may delete, is known to the cloud
\* (sync_incidents_from_edge confirms only what it has written), whatever requests,
\* answers and database operations fail, while requests do not overlap.
THEOREM ConfirmedIsKnownCorrect == SyncSpec /\ []AtMostOneBusy => []ConfirmedIsKnown
  BY SyncInvariant, PTL DEF SyncInv, DataInv

\* However often a row is sent again it has at most one event, while requests do not
\* overlap ("Check if already synced" of sync_incidents_from_edge).
THEOREM OneEventCorrect == SyncSpec /\ []AtMostOneBusy => []OneEventPerIncident
  BY SyncInvariant, PTL DEF SyncInv, DataInv

\* The cloud counts no fewer detections than a synced row that did not change on the
\* way, although the merge overwrites counts it has read before, while requests do
\* not overlap.
THEOREM SyncedCountCorrect == SyncSpec /\ []AtMostOneBusy => []SyncedCountArrived
  BY SyncInvariant, PTL DEF SyncInv, DataInv

-----------------------------------------------------------------------------
(* The synchronisation implements IncidentDelivery *)

LEMMA KnownKept ==
  ASSUME Events \subseteq Events', \A v \in Events : events'[v].inc = events[v].inc,
         \A v \in Events' \ Events : events'[v].inc = NoInc, unlinked' = unlinked
  PROVE  KnownRows' = KnownRows
<1>1. \A i \in IncIds : i # NoInc
  BY EventNumbers
<1>2. \A i \in IncIds : Linked(i)' = Linked(i)
  BY <1>1 DEF Linked
<1> QED
  BY <1>2 DEF KnownRows, Known

\* A row that gets an event, or is merged without a link, is one the cloud learns of.
LEMMA KnownGrows ==
  ASSUME NEW i \in IncIds, LinksKept,
         \/ \E v \in Events' : events'[v].inc = i
         \/ i \in unlinked',
         unlinked' \subseteq unlinked \union {i},
         \A v \in Events' : \/ events'[v].inc = i
                            \/ v \in Events /\ events'[v].inc = events[v].inc
  PROVE  KnownRows' = KnownRows \union {i}
<1>1. \A j \in IncIds : j # NoInc
  BY EventNumbers
<1>2. \A j \in IncIds : Linked(j) \subseteq Linked(j)'
  BY <1>1 DEF Linked, LinksKept
<1>3. \A j \in IncIds \ {i} : Linked(j)' \subseteq Linked(j)
  BY DEF Linked
<1>4. i \in KnownRows'
  BY DEF KnownRows, Known, Linked
<1> QED
  BY <1>2, <1>3, <1>4 DEF KnownRows, Known, LinksKept

\* Every step of the system is one of the abstract specification, or none.
LEMMA StepDelivers ==
  ASSUME SyncInv, AtMostOneBusy, SyncNext
  PROVE  Delivery!DeliveryNext \/ UNCHANGED <<used, KnownRows, ConfirmedRows>>
<1> USE DEF history, cloudState
<1>0. SyncTypeInv /\ EdgeTypeOK /\ EventTypes /\ now \in Nat
  BY TypeParts DEF SyncInv
<1>a. ASSUME UNCHANGED <<events, unlinked>> PROVE KnownRows' = KnownRows
  BY <1>a DEF KnownRows, Known, Linked, Events
<1>b. ASSUME UNCHANGED <<used, db>> PROVE ConfirmedRows' = ConfirmedRows
  BY <1>b DEF ConfirmedRows, Confirmed
<1>c. ASSUME NEW i \in IncIds, i \in used, KnownRows' = KnownRows \union {i}, UNCHANGED <<used, db>>
      PROVE  Delivery!DeliveryNext
  BY <1>b, <1>c DEF Delivery!DeliveryNext, Delivery!Learn, KnownRows, ConfirmedRows
<1>1. CASE EdgeStep /\ UNCHANGED <<cloudState, agent, by, handler, history, faults>>
  <2>1. KnownRows' = KnownRows
    BY <1>1, <1>a
  <2>2. ASSUME NEW i \in IncIds \ used, used' = used \union {i}, ConfirmedRows' = ConfirmedRows
        PROVE  Delivery!DeliveryNext
    BY <2>1, <2>2 DEF Delivery!DeliveryNext, Delivery!Record, KnownRows, ConfirmedRows
  <2>3. ASSUME NEW i \in IncIds, used' = used, ConfirmedRows' = ConfirmedRows \ {i}
        PROVE  Delivery!DeliveryNext
    BY <2>1, <2>3 DEF Delivery!DeliveryNext, Delivery!Change, KnownRows, ConfirmedRows
  <2> QED
    BY <1>0, <1>1, <2>1, <2>2, <2>3, EdgeStepDelivers
<1>2. CASE CloudStep /\ UNCHANGED <<used, db, agent, by, handler, history, faults>>
  <2>1. EventsKept /\ \A v \in Events' \ Events : events'[v].inc = NoInc
    BY <1>0, <1>2, CloudStepEffect
  <2>2. KnownRows' = KnownRows
    BY <1>2, <2>1, KnownKept DEF EventsKept
  <2> QED
    BY <1>2, <1>b, <2>2
<1>3. CASE \/ Tick /\ UNCHANGED <<used, db, cloudState, agent, by, handler, history, faults>>
           \/ PostLost \/ GiveUp
           \/ \E h \in Handlers : Post(h) \/ Abort(h)
  <2>1. UNCHANGED <<used, db, events, unlinked>>
    BY <1>3 DEF PostLost, GiveUp, Post, Abort, edgeVars
  <2> QED
    BY <2>1, <1>a, <1>b
<1>4. ASSUME NEW h \in Handlers, Answer(h)
      PROVE  Delivery!DeliveryNext \/ UNCHANGED <<used, KnownRows, ConfirmedRows>>
  <2> PICK S : S = handler[h].ok
    OBVIOUS
  <2>1. /\ UNCHANGED <<used, events, unlinked>> /\ Stored' = Stored
        /\ handler[h].pc = "find" /\ S \subseteq IncIds /\ S \subseteq used
        /\ \/ UNCHANGED db
           \/ \A i \in Stored : db'[i].synced <=> (i \in S \/ db[i].synced)
    BY <1>0, <1>4, AnswerEffect, LinkFacts DEF RequestOK
  <2>3. S \subseteq KnownRows
    BY <1>4, <2>1 DEF SyncInv, Working, Confirmable, KnownRows
  <2>4. KnownRows' = KnownRows
    BY <1>a, <2>1
  <2>5. CASE UNCHANGED db
    BY <1>b, <2>1, <2>4, <2>5
  <2>6. CASE \A i \in Stored : db'[i].synced <=> (i \in S \/ db[i].synced)
    <3>1. \A i \in IncIds : i \in Stored' <=> i \in Stored
      BY <2>1
    <3>2. \A i \in IncIds : Confirmed(i)' <=> Confirmed(i) \/ i \in S
      BY <2>1, <2>6, <3>1 DEF Confirmed, Stored
    <3>3. ConfirmedRows' = ConfirmedRows \union S
      BY <2>1, <3>2 DEF ConfirmedRows
    <3> QED
      BY <2>1, <2>3, <2>4, <3>3
         DEF Delivery!DeliveryNext, Delivery!Confirm, KnownRows, ConfirmedRows
  <2> QED
    BY <2>1, <2>5, <2>6
<1>5. ASSUME NEW h \in Handlers, NEW i \in IncIds, RowStep(h, i)
      PROVE  Delivery!DeliveryNext \/ UNCHANGED <<used, KnownRows, ConfirmedRows>>
  <2>0. /\ UNCHANGED <<used, db>> /\ handler[h].pc # "idle" /\ i \in handler[h].todo
        /\ i \in used /\ Targeted(handler[h])
    <3>1. UNCHANGED <<used, db>> /\ handler[h].pc # "idle" /\ i \in handler[h].todo
      BY <1>5 DEF RowStep, FindByIncident, FindByWindow, WindowLookupFails, LinkEvent, LinkFails,
                  MergeEvent, InsertFromEdge, RowFails, Oldest, edgeVars
    <3> QED
      BY <1>0, <3>1, LinkFacts DEF RequestOK, SyncInv, Working
  <2>1. CASE \/ FindByIncident(h, i) \/ FindByWindow(h, i) \/ WindowLookupFails(h, i)
             \/ RowFails(h, i)
    <3>1. UNCHANGED <<events, unlinked>>
      BY <2>1 DEF FindByIncident, FindByWindow, WindowLookupFails, RowFails
    <3> QED
      BY <2>0, <3>1, <1>a, <1>b
  <2>2. CASE LinkEvent(h, i)
    <3>0. PICK v \in Events :
           /\ v = handler[h].target
           /\ events' \in [EventIds -> Event] /\ Events' = Events
           /\ events'[v].inc = i
           /\ \A w \in EventIds \ {v} : events'[w] = events[w]
      BY <1>0, <2>2, LinkEffect
    <3>1. events[v].inc = NoInc /\ unlinked' = unlinked
      BY <2>0, <2>2, <3>0 DEF LinkEvent, Targeted
    <3>2. LinksKept
      BY <3>0, <3>1 DEF LinksKept, Events
    <3>3. KnownRows' = KnownRows \union {i}
      BY <3>0, <3>1, <3>2, KnownGrows DEF Events
    <3> QED
      BY <1>c, <2>0, <3>3
  <2>3. CASE LinkFails(h, i)
    <3>1. UNCHANGED events /\ unlinked' = unlinked \union {i} /\ Events' = Events
      BY <2>3 DEF LinkFails, Events
    <3>2. LinksKept
      BY <3>1 DEF LinksKept
    <3>3. KnownRows' = KnownRows \union {i}
      BY <3>1, <3>2, KnownGrows
    <3> QED
      BY <1>c, <2>0, <3>3
  <2>4. CASE MergeEvent(h, i)
    <3>0. PICK v \in Events :
           /\ events' \in [EventIds -> Event] /\ Events' = Events
           /\ events'[v].inc = events[v].inc
           /\ \A w \in EventIds \ {v} : events'[w] = events[w]
      BY <1>0, <2>4, MergeEffect
    <3>1. unlinked' = unlinked /\ \A w \in Events : events'[w].inc = events[w].inc
      BY <2>4, <3>0 DEF MergeEvent, Events
    <3>2. KnownRows' = KnownRows
      BY <3>0, <3>1, KnownKept
    <3> QED
      BY <2>0, <1>b, <3>2
  <2>5. CASE InsertFromEdge(h, i)
    <3>0. PICK v \in EventIds \ Events :
           /\ events' \in [EventIds -> Event] /\ Events' = Events \union {v}
           /\ events'[v].inc = i
           /\ \A w \in Events : events'[w] = events[w]
      BY <1>0, <2>5, InsertFromEdgeEffect
    <3>1. unlinked' = unlinked
      BY <2>5 DEF InsertFromEdge
    <3>2. LinksKept
      BY <3>0, <3>1 DEF LinksKept
    <3>3. KnownRows' = KnownRows \union {i}
      BY <3>0, <3>1, <3>2, KnownGrows
    <3> QED
      BY <1>c, <2>0, <3>3
  <2> QED
    BY <1>5, <2>1, <2>2, <2>3, <2>4, <2>5 DEF RowStep
<1> QED
  BY <1>1, <1>2, <1>3, <1>4, <1>5 DEF SyncNext, HandlerStep, HandlerFault, RowStep

\* The sync loop, the handler and the cleanup implement IncidentDelivery, while
\* requests do not overlap: the edge confirms only what the cloud knows, the cloud
\* does not forget, and each step does one of the abstract ones or nothing.
THEOREM DeliveryImplemented == SyncSpec /\ []AtMostOneBusy => ImplementsDelivery
<1>1. SyncInit => Delivery!DeliveryInit
  <2> SUFFICES ASSUME SyncInit PROVE Delivery!DeliveryInit
    OBVIOUS
  <2>1. Events = {} /\ used = {} /\ unlinked = {}
    BY DEF SyncInit, EdgeInit, CloudInit, Events, NoDoc
  <2> QED
    BY <2>1 DEF Delivery!DeliveryInit, Known, Linked, Confirmed
<1>2. SyncInv /\ AtMostOneBusy /\ [SyncNext]_deliveryVars
        => [Delivery!DeliveryNext]_(Delivery!deliveryVars)
  <2> SUFFICES ASSUME SyncInv, AtMostOneBusy, [SyncNext]_deliveryVars
               PROVE  Delivery!DeliveryNext \/ UNCHANGED <<used, KnownRows, ConfirmedRows>>
    BY DEF Delivery!deliveryVars, KnownRows, ConfirmedRows
  <2>1. CASE UNCHANGED deliveryVars
    BY <2>1 DEF deliveryVars, edgeVars, syncVars, cloudState, KnownRows, ConfirmedRows, Known,
                Linked, Events, Confirmed
  <2> QED
    BY <2>1, StepDelivers
<1> QED
  BY SyncInvariant, <1>1, <1>2, PTL DEF SyncSpec, ImplementsDelivery, Delivery!DeliverySpec

-----------------------------------------------------------------------------
(* When requests do not overlap *)

\* A cloud that serves the agent one request at a time, as the instance TLC checks.
THEOREM OneHandlerIsOneBusy ==
  ASSUME \A g, h \in Handlers : g = h PROVE SyncSpec => []AtMostOneBusy
<1>1. AtMostOneBusy
  BY DEF AtMostOneBusy
<1> QED
  BY <1>1, PTL

\* The request the agent awaits is the only one at work.
BusyIsAwaited == \A h \in Handlers : handler[h].pc # "idle" => by = h

\* Without faults no request is given up while the cloud works on it, so requests do
\* not overlap however many handlers there are.
THEOREM NoFaultIsOneBusy == ASSUME MaxFaults = 0 PROVE SyncSpec => []AtMostOneBusy
<1> DEFINE Inv == SyncTypeInv /\ BusyIsAwaited
<1>1. SyncInit => Inv
  BY SyncInitTypes, IdleRequest DEF SyncInit, BusyIsAwaited
<1>2. Inv /\ [SyncNext]_deliveryVars => Inv'
  <2> SUFFICES ASSUME Inv, [SyncNext]_deliveryVars PROVE Inv'
    OBVIOUS
  <2>0. SyncTypeInv'
    BY SyncStepTypes, SyncStutterTypes
  <2>1. ~Fault
    BY DEF SyncTypeInv, HistoryOK, Fault
  <2>2. handler \in [Handlers -> Handler] /\ AgentOK /\ NoHandler \notin Handlers
    BY SyncAssumption DEF SyncTypeInv, HandlersOK
  <2>3. ASSUME UNCHANGED <<by, handler>> PROVE BusyIsAwaited'
    BY <2>3 DEF BusyIsAwaited
  <2>4. ASSUME GiveUp PROVE BusyIsAwaited'
    <3>1. by = NoHandler /\ UNCHANGED <<by, handler>>
      BY <2>1, <2>4 DEF GiveUp
    <3> QED
      BY <2>3, <3>1
  <2>5. ASSUME NEW h \in Handlers, Post(h) PROVE BusyIsAwaited'
    <3>1. by = NoHandler
      BY <2>2, <2>5 DEF Post, AgentOK, Idle, Waiting
    <3>2. by' = h /\ \A g \in Handlers \ {h} : handler'[g] = handler[g]
      BY <2>2, <2>5 DEF Post
    <3> QED
      BY <2>2, <3>1, <3>2 DEF BusyIsAwaited
  <2>6. ASSUME NEW h \in Handlers, Answer(h) PROVE BusyIsAwaited'
    <3>1. handler'[h].pc = "idle" /\ \A g \in Handlers \ {h} : handler'[g] = handler[g]
      BY <2>2, <2>6, IdleRequest DEF Answer
    <3>2. by = h
      BY <2>6 DEF Answer, BusyIsAwaited
    <3> QED
      BY <3>1, <3>2 DEF BusyIsAwaited
  <2>7. ASSUME NEW h \in Handlers, NEW i \in IncIds, RowStep(h, i) PROVE BusyIsAwaited'
    <3>1. handler[h].pc # "idle" /\ by' = by
      BY <2>7 DEF RowStep, FindByIncident, FindByWindow, WindowLookupFails, LinkEvent, LinkFails,
                  MergeEvent, InsertFromEdge, RowFails
    <3>2. \A g \in Handlers \ {h} : handler'[g] = handler[g]
      BY <2>2, <2>7 DEF RowStep, FindByIncident, FindByWindow, WindowLookupFails, LinkEvent,
           LinkFails, MergeEvent, InsertFromEdge, RowFails, Found, Finish
    <3> QED
      BY <3>1, <3>2 DEF BusyIsAwaited
  <2>8. BusyIsAwaited'
    BY <2>1, <2>3, <2>4, <2>5, <2>6, <2>7
       DEF SyncNext, HandlerStep, HandlerFault, RowStep, PostLost, Abort, deliveryVars, syncVars
  <2> QED
    BY <2>0, <2>8
<1>3. Inv => AtMostOneBusy
  BY DEF BusyIsAwaited, AtMostOneBusy
<1> QED
  BY <1>1, <1>2, <1>3, PTL DEF SyncSpec

-------------------------------------------------------------------------------
(* Requests that overlap *)

Seen(i) == \E v \in Events : Near(v, i)

\* A request r has its rows' cameras and times right, the event found for the row at
\* hand is near it, and the rows it will confirm are seen.  Rows that were deleted
\* meanwhile (by the answer to another request, and a cleanup) are of no interest.
SeenRequest(r) ==
  /\ \A i \in r.todo \cap Stored :
       /\ r.sent[i].cam = db[i].cam /\ r.sent[i].start = db[i].start
       /\ r.pc \in {"link", "merge"} /\ Oldest(r.todo, i) => Near(r.target, i)
  /\ \A i \in r.ok \cap Stored : Seen(i)

\* A link is to an incident there was, and its event is near it
LinkNear(v) ==
  events[v].inc # NoInc =>
    events[v].inc \in used /\ (events[v].inc \in Stored => Near(v, events[v].inc))

\* The inductive invariant of requests that overlap
SeenInv ==
  /\ SyncTypeInv /\ SyncedIsSeen
  /\ \A v \in Events : LinkNear(v)
  /\ \A h \in Handlers : SeenRequest(handler[h])

\* What every step does: events and rows keep camera and time, and no id is used again.
Placed ==
  /\ Events \subseteq Events' /\ used \subseteq used'
  /\ \A v \in Events : events'[v].cam = events[v].cam /\ events'[v].start = events[v].start
  /\ \A i \in Stored' \cap used :
       i \in Stored /\ db'[i].cam = db[i].cam /\ db'[i].start = db[i].start

LEMMA PlacedEvent ==
  ASSUME Placed, NEW v \in Events, NEW i \in Stored' \cap used, Near(v, i)
  PROVE  Near(v, i)' /\ Seen(i)'
<1>1. v \in Events' /\ Near(v, i)'
  BY DEF Placed, Near
<1> QED
  BY <1>1 DEF Seen

\* What was seen stays seen, and so requests that do not step keep what they have.
LEMMA PlacedRequest ==
  ASSUME Placed, NEW r, RequestOK(r, Events, used), SeenRequest(r)
  PROVE  SeenRequest(r)'
<1>1. ASSUME NEW i \in r.todo \cap Stored'
      PROVE  /\ r.sent[i].cam = db'[i].cam /\ r.sent[i].start = db'[i].start
             /\ r.pc \in {"link", "merge"} /\ Oldest(r.todo, i) => Near(r.target, i)'
  <2>1. i \in used /\ i \in Stored /\ db'[i].cam = db[i].cam /\ db'[i].start = db[i].start
    BY <1>1 DEF RequestOK, Placed
  <2>2. r.pc \in {"link", "merge"} /\ Oldest(r.todo, i) => Near(r.target, i)'
    <3> SUFFICES ASSUME r.pc \in {"link", "merge"}, Oldest(r.todo, i)
                 PROVE  Near(r.target, i)'
      OBVIOUS
    <3>1. Near(r.target, i) /\ r.target \in Events
      BY <1>1, <2>1 DEF SeenRequest, RequestOK
    <3> QED
      BY <1>1, <2>1, <3>1, PlacedEvent
  <2> QED
    BY <1>1, <2>1, <2>2 DEF SeenRequest
<1>2. ASSUME NEW i \in r.ok \cap Stored' PROVE Seen(i)'
  <2>1. i \in used /\ i \in Stored
    BY <1>2 DEF RequestOK, Placed
  <2>2. PICK v \in Events : Near(v, i)
    BY <1>2, <2>1 DEF SeenRequest, Seen
  <2> QED
    BY <1>2, <2>1, <2>2, PlacedEvent
<1> QED
  BY <1>1, <1>2 DEF SeenRequest

\* A step that keeps places, after which the links are those there were or near, the
\* synced rows were so or are seen, and one request at most is another one.
LEMMA SeenKept ==
  ASSUME SeenInv, SyncTypeInv', Placed,
         \A v \in Events' : \/ v \in Events /\ events'[v].inc = events[v].inc
                            \/ LinkNear(v)',
         \A i \in Stored' : db'[i].synced => Seen(i)' \/ (i \in Stored /\ db[i].synced),
         \A h \in Handlers : handler'[h] = handler[h] \/ SeenRequest(handler[h])'
  PROVE  SeenInv'
<1>1. ASSUME NEW v \in Events' PROVE LinkNear(v)'
  <2> SUFFICES ASSUME v \in Events, events'[v].inc = events[v].inc, events[v].inc # NoInc
               PROVE  LinkNear(v)'
    BY DEF LinkNear
  <2> PICK i : i = events[v].inc
    OBVIOUS
  <2>1. i \in used /\ (i \in Stored => Near(v, i)) /\ i = events'[v].inc
    BY DEF SeenInv, LinkNear
  <2>2. i \in Stored' => Near(v, i)'
    BY <2>1, PlacedEvent DEF Placed
  <2>3. i \in used'
    BY <2>1 DEF Placed
  <2> QED
    BY <2>1, <2>2, <2>3 DEF LinkNear, Near
<1>2. SyncedIsSeen'
  <2> SUFFICES ASSUME NEW i \in Stored', db'[i].synced
               PROVE  Seen(i)'
    BY DEF SyncedIsSeen, Seen
  <2>1. CASE i \in Stored /\ db[i].synced
    <3>1. i \in used
      BY <2>1, TypeParts DEF SeenInv, EdgeTypeOK
    <3>2. PICK v \in Events : Near(v, i)
      BY <2>1 DEF SeenInv, SyncedIsSeen
    <3> QED
      BY <3>1, <3>2, PlacedEvent
  <2> QED
    BY <2>1
<1>3. ASSUME NEW h \in Handlers PROVE SeenRequest(handler[h])'
  <2> PICK r : r = handler'[h]
    OBVIOUS
  <2>1. CASE r = handler[h]
    <3>1. RequestOK(r, Events, used) /\ SeenRequest(r)
      BY <2>1 DEF SeenInv, SyncTypeInv, HandlersOK
    <3>2. SeenRequest(r)'
      BY <3>1, PlacedRequest
    <3> QED
      BY <3>2 DEF SeenRequest
  <2>2. CASE SeenRequest(r)'
    BY <2>2 DEF SeenRequest
  <2> QED
    BY <2>1, <2>2
<1> QED
  BY <1>1, <1>2, <1>3 DEF SeenInv

\* What the agent does to its table keeps the rows' places ...
LEMMA RowsPlaced ==
  ASSUME EdgeTypeOK, EdgeStep
  PROVE  \A i \in Stored' \cap used :
           i \in Stored /\ db'[i].cam = db[i].cam /\ db'[i].start = db[i].start
<1> USE DEF EdgeTypeOK, Stored
<1>1. ASSUME NEW c \in Cameras, NEW k \in Classes, GroupDetection(c, k)
      PROVE  \A i \in Stored' \cap used :
               i \in Stored /\ db'[i].cam = db[i].cam /\ db'[i].start = db[i].start
  BY <1>1 DEF GroupDetection, LatestOpen, OpenRows, Row
<1>2. ASSUME NEW c \in Cameras, NEW k \in Classes, OpenIncident(c, k)
      PROVE  \A i \in Stored' \cap used :
               i \in Stored /\ db'[i].cam = db[i].cam /\ db'[i].start = db[i].start
  BY <1>2 DEF OpenIncident, Row
<1>3. ASSUME NEW i \in IncIds, NEW s \in {"acknowledged", "resolved"}, UpdateStatus(i, s)
      PROVE  \A j \in Stored' \cap used :
               j \in Stored /\ db'[j].cam = db[j].cam /\ db'[j].start = db[j].start
  BY <1>3 DEF UpdateStatus, Row
<1>4. CASE AutoCloseStale
  BY <1>4 DEF AutoCloseStale, Stale, Row
<1>5. CASE Cleanup
  BY <1>5 DEF Cleanup, NoRow
<1> QED
  BY <1>1, <1>2, <1>3, <1>4, <1>5 DEF EdgeStep

\* ... and what the cloud does outside the synchronisation keeps those of the events.
LEMMA EventsPlaced ==
  ASSUME EventTypes, CloudStep
  PROVE  \A v \in Events : events'[v].cam = events[v].cam /\ events'[v].start = events[v].start
<1>0. \A v \in Events : v \in EventIds /\ events[v] \in Event
  BY DEF Events, EventTypes
<1>1. ASSUME NEW u \in Uploads, UpdateEvent(u)
      PROVE  \A w \in Events : events'[w].cam = events[w].cam /\ events'[w].start = events[w].start
  <2>1. upload[u].target \in Events
    BY <1>1 DEF UpdateEvent, EventTypes
  <2> QED
    BY <1>0, <1>1, <2>1 DEF UpdateEvent, EventTypes, Event
<1>2. ASSUME NEW u \in Uploads, InsertEvent(u)
      PROVE  \A w \in Events : events'[w].cam = events[w].cam /\ events'[w].start = events[w].start
  BY <1>0, <1>2 DEF InsertEvent, Insert, EventTypes
<1>3. ASSUME NEW v \in EventIds, AcknowledgeEvent(v) \/ ResolveEvent(v) \/ AutoResolve(v)
      PROVE  \A w \in Events : events'[w].cam = events[w].cam /\ events'[w].start = events[w].start
  BY <1>0, <1>3 DEF AcknowledgeEvent, ResolveEvent, AutoResolve, EventTypes, Event
<1>4. CASE ListStale \/ \E u \in Uploads : FindOpenEvent(u) \/ LeaveOut(u) \/ TooMild(u)
  BY <1>4 DEF ListStale, FindOpenEvent, LeaveOut, TooMild
<1> QED
  BY <1>1, <1>2, <1>3, <1>4 DEF CloudStep, UserActs

\* A step of a request on its row: what it finds is near the row, and what it links,
\* inserts and confirms is.
LEMMA LookupSeen ==
  ASSUME SeenInv, SyncTypeInv', NEW h \in Handlers, NEW i \in IncIds,
         FindByIncident(h, i) \/ FindByWindow(h, i) \/ WindowLookupFails(h, i)
  PROVE  SeenInv'
<1> PICK q : q = handler[h]
  OBVIOUS
<1>0. /\ UNCHANGED <<db, used, events>> /\ Events' = Events /\ Stored' = Stored
      /\ RequestOK(q, Events, used) /\ SeenRequest(q) /\ q \in Handler
      /\ Oldest(q.todo, i)
  BY DEF FindByIncident, FindByWindow, WindowLookupFails, Events, Stored, SeenInv, SyncTypeInv,
         HandlersOK, RequestOK, edgeVars, cloudState
<1>1. PICK p \in {"findopen", "link", "merge", "insert"}, v \in Events \union {NoEvent} :
        /\ Found(h, p, v) /\ (p \in {"link", "merge"} => v \in Events)
        /\ p \in {"link", "merge"} /\ i \in Stored => Near(v, i)
  <2>1. CASE \/ FindByIncident(h, i) /\ Found(h, "findopen", NoEvent)
             \/ FindByWindow(h, i) /\ Found(h, "insert", NoEvent)
             \/ WindowLookupFails(h, i)
    BY <2>1 DEF WindowLookupFails
  <2>2. ASSUME NEW v \in Linked(i), Found(h, "merge", v)
        PROVE  v \in Events /\ (i \in Stored => Near(v, i))
    <3>1. i # NoInc
      BY LinkFacts DEF SeenInv
    <3>2. v \in Events /\ LinkNear(v) /\ events[v].inc = i
      BY <2>2 DEF Linked, SeenInv
    <3> QED
      BY <3>1, <3>2 DEF LinkNear
  <2>3. ASSUME NEW v \in Candidates(q.sent[i])
        PROVE  v \in Events /\ (i \in Stored => Near(v, i))
    <3>1. v \in Events /\ events[v].cam = q.sent[i].cam /\ events[v].start >= q.sent[i].start - DedupWindow
      BY <1>0, <2>3, TypeParts DEF Candidates, OpenOn, Open, Events, OpenStatus, SeenInv
    <3>2. i \in Stored => q.sent[i].cam = db[i].cam /\ q.sent[i].start = db[i].start
      BY <1>0 DEF SeenRequest, Oldest
    <3> QED
      BY <3>1, <3>2 DEF Near
  <2> QED
    BY <2>1, <2>2, <2>3 DEF FindByIncident, FindByWindow
<1>2. PICK r : /\ handler' = [handler EXCEPT ![h] = r]
               /\ r.pc = p /\ r.target = v
               /\ r.todo = q.todo /\ r.sent = q.sent /\ r.ok = q.ok
  BY <1>1, FoundEffect DEF SeenInv
<1>3. SeenRequest(r)
  <2>1. ASSUME NEW j \in r.todo \cap Stored
        PROVE  /\ r.sent[j].cam = db[j].cam /\ r.sent[j].start = db[j].start
               /\ r.pc \in {"link", "merge"} /\ Oldest(r.todo, j) => Near(r.target, j)
    <3>1. j \in IncIds /\ r.todo \in SUBSET IncIds
      BY <1>0, <1>2, <2>1 DEF Handler
    <3>2. Oldest(r.todo, j) => j = i
      BY <1>0, <1>2, <3>1, OldestIsOne
    <3> QED
      BY <1>0, <1>1, <1>2, <2>1, <3>2 DEF SeenRequest
  <2> QED
    BY <1>0, <1>2, <2>1 DEF SeenRequest
<1>4. handler'[h] = r /\ \A g \in Handlers \ {h} : handler'[g] = handler[g]
  BY <1>2 DEF SeenInv, SyncTypeInv, HandlersOK
<1>5. SeenRequest(r)' /\ Placed
  BY <1>0, <1>3 DEF SeenRequest, Seen, Near, Placed
<1>6. \A g \in Handlers : handler'[g] = handler[g] \/ SeenRequest(handler[g])'
  BY <1>4, <1>5 DEF SeenRequest
<1> QED
  BY <1>0, <1>5, <1>6, SeenKept

LEMMA LinkSeen ==
  ASSUME SeenInv, SyncTypeInv', NEW h \in Handlers, NEW i \in IncIds,
         LinkEvent(h, i) \/ LinkFails(h, i)
  PROVE  SeenInv'
<1> PICK q : q = handler[h]
  OBVIOUS
<1>0. /\ UNCHANGED <<db, used>> /\ Stored' = Stored
      /\ RequestOK(q, Events, used) /\ SeenRequest(q) /\ q \in Handler
      /\ Oldest(q.todo, i) /\ q.pc = "link" /\ SyncTypeInv
  BY DEF LinkEvent, LinkFails, Stored, SeenInv, SyncTypeInv, HandlersOK, RequestOK, edgeVars
<1>1. PICK v \in Events : v = q.target
  BY <1>0 DEF RequestOK
<1>2. i \in used /\ (i \in Stored => Near(v, i))
  BY <1>0, <1>1 DEF SeenRequest, RequestOK, Oldest
<1>3. /\ Events' = Events
      /\ \A w \in Events : events'[w].cam = events[w].cam /\ events'[w].start = events[w].start
      /\ \A w \in Events \ {v} : events'[w].inc = events[w].inc
      /\ events'[v].inc \in {events[v].inc, i}
  <2>1. CASE LinkEvent(h, i)
    <3>1. /\ Events' = Events /\ events'[v].inc = i
          /\ events'[v].cam = events[v].cam /\ events'[v].start = events[v].start
          /\ \A w \in EventIds \ {v} : events'[w] = events[w]
      BY <1>0, <1>1, <2>1, LinkEffect
    <3> QED
      BY <3>1 DEF Events
  <2>2. CASE LinkFails(h, i)
    BY <2>2 DEF LinkFails, cloudState, Events
  <2> QED
    BY <2>1, <2>2
<1>4. Placed
  BY <1>0, <1>3 DEF Placed
<1>5. ASSUME NEW w \in Events' PROVE (w \in Events /\ events'[w].inc = events[w].inc) \/ LinkNear(w)'
  <2>1. CASE w = v /\ events'[v].inc = i
    <3>1. i \in used' /\ (i \in Stored' => Near(v, i)')
      BY <1>0, <1>2, <1>4, PlacedEvent
    <3> QED
      BY <2>1, <3>1 DEF LinkNear, Near
  <2> QED
    BY <1>3, <2>1
<1>6. PICK r \in Handler : handler' = [handler EXCEPT ![h] = r] /\ r = [q EXCEPT !.pc = "merge"]
  <2>1. [q EXCEPT !.pc = "merge"] \in Handler
    BY <1>0 DEF Handler
  <2>2. handler' = [handler EXCEPT ![h] = [q EXCEPT !.pc = "merge"]]
    BY <1>0 DEF LinkEvent, LinkFails, SyncTypeInv, HandlersOK
  <2> QED
    BY <2>1, <2>2
<1>7. /\ r.pc = "merge" /\ r.target = q.target
      /\ r.todo = q.todo /\ r.sent = q.sent /\ r.ok = q.ok
  BY <1>0, <1>6 DEF Handler
<1>8. SeenRequest(r)
  BY <1>0, <1>7 DEF SeenRequest
<1>9. RequestOK(r, Events, used)
  BY <1>0, <1>6, <1>7 DEF RequestOK
<1>10. SeenRequest(r)'
  BY <1>4, <1>8, <1>9, PlacedRequest
<1>11. \A g \in Handlers : handler'[g] = handler[g] \/ SeenRequest(handler[g])'
  <2>1. handler'[h] = r /\ \A g \in Handlers \ {h} : handler'[g] = handler[g]
    BY <1>0, <1>6 DEF SyncTypeInv, HandlersOK
  <2> QED
    BY <1>10, <2>1 DEF SeenRequest
<1>12. \A j \in Stored' : db'[j].synced => j \in Stored /\ db[j].synced
  BY <1>0
<1> QED
  BY <1>4, <1>5, <1>11, <1>12, SeenKept

\* A request with one row less to process, which it may confirm if it is seen.
LEMMA RowDone ==
  ASSUME SyncTypeInv, Placed, NEW h \in Handlers, NEW i \in IncIds,
         SeenRequest(handler[h]), NEW r, handler' = [handler EXCEPT ![h] = r],
         r.pc = "find", r.sent = handler[h].sent, r.todo = handler[h].todo \ {i},
         \/ r.ok = handler[h].ok
         \/ r.ok = handler[h].ok \union {i} /\ (i \in Stored' => Seen(i)')
  PROVE  \A g \in Handlers : handler'[g] = handler[g] \/ SeenRequest(handler[g])'
<1> PICK q : q = handler[h]
  OBVIOUS
<1>1. RequestOK(q, Events, used) /\ SeenRequest(q)'
  BY PlacedRequest DEF SyncTypeInv, HandlersOK
<1>2. SeenRequest(r)'
  BY <1>1 DEF SeenRequest
<1>3. handler'[h] = r /\ \A g \in Handlers \ {h} : handler'[g] = handler[g]
  BY DEF SyncTypeInv, HandlersOK
<1> QED
  BY <1>2, <1>3 DEF SeenRequest

LEMMA WriteSeen ==
  ASSUME SeenInv, SyncTypeInv', NEW h \in Handlers, NEW i \in IncIds,
         MergeEvent(h, i) \/ InsertFromEdge(h, i) \/ RowFails(h, i)
  PROVE  SeenInv'
<1> PICK q : q = handler[h]
  OBVIOUS
<1>0. /\ UNCHANGED <<db, used>> /\ Stored' = Stored
      /\ RequestOK(q, Events, used) /\ SeenRequest(q) /\ SeenRequest(handler[h])
      /\ Oldest(q.todo, i) /\ i \in used /\ SyncTypeInv
  BY DEF MergeEvent, InsertFromEdge, RowFails, Stored, SeenInv, SyncTypeInv, HandlersOK, RequestOK,
         edgeVars, Oldest
<1>1. CASE MergeEvent(h, i)
  <2>1. PICK v \in Events, r \in Handler :
          /\ v = q.target
          /\ Events' = Events
          /\ events'[v].inc = events[v].inc
          /\ events'[v].cam = events[v].cam /\ events'[v].start = events[v].start
          /\ \A w \in EventIds \ {v} : events'[w] = events[w]
          /\ handler' = [handler EXCEPT ![h] = r]
          /\ r.pc = "find" /\ r.sent = q.sent /\ r.todo = q.todo \ {i}
          /\ r.ok = q.ok \union {i}
    BY <1>0, <1>1, MergeEffect
  <2>2. Placed /\ \A w \in Events' : w \in Events /\ events'[w].inc = events[w].inc
    BY <1>0, <2>1 DEF Placed, Events
  <2>3. i \in Stored' => Seen(i)'
    <3> SUFFICES ASSUME i \in Stored' PROVE Seen(i)'
      OBVIOUS
    <3>1. q.pc = "merge" /\ i \in q.todo
      BY <1>0, <1>1 DEF MergeEvent, Oldest
    <3>2. Near(v, i)
      BY <1>0, <2>1, <3>1 DEF SeenRequest
    <3> QED
      BY <1>0, <2>2, <3>2, PlacedEvent
  <2>4. \A g \in Handlers : handler'[g] = handler[g] \/ SeenRequest(handler[g])'
    BY <1>0, <2>1, <2>2, <2>3, RowDone
  <2> QED
    BY <1>0, <2>2, <2>4, SeenKept
<1>2. CASE InsertFromEdge(h, i)
  <2>1. PICK v \in EventIds \ Events, r \in Handler :
          /\ Events' = Events \union {v} /\ events'[v].inc = i
          /\ events'[v].cam = q.sent[i].cam /\ events'[v].start = q.sent[i].start
          /\ \A w \in Events : events'[w] = events[w]
          /\ handler' = [handler EXCEPT ![h] = r]
          /\ r.pc = "find" /\ r.sent = q.sent /\ r.todo = q.todo \ {i}
          /\ r.ok = q.ok \union {i}
    BY <1>0, <1>2, InsertFromEdgeEffect
  <2>2. Placed
    BY <1>0, <2>1 DEF Placed
  <2>3. i \in Stored' => Near(v, i)' /\ Seen(i)'
    <3> SUFFICES ASSUME i \in Stored' PROVE Near(v, i)' /\ Seen(i)'
      OBVIOUS
    <3>1. q.sent[i].cam = db[i].cam /\ q.sent[i].start = db[i].start
      BY <1>0 DEF SeenRequest, Oldest
    <3>2. db[i].start \in Nat /\ DedupWindow \in Nat
      BY <1>0, TypeParts, SyncAssumption DEF EdgeTypeOK, Row
    <3>3. Near(v, i)'
      BY <1>0, <2>1, <3>1, <3>2 DEF Near
    <3> QED
      BY <2>1, <3>3 DEF Seen
  <2>4. ASSUME NEW w \in Events' PROVE (w \in Events /\ events'[w].inc = events[w].inc) \/ LinkNear(w)'
    <3>1. CASE w = v
      BY <1>0, <2>1, <2>3, <3>1 DEF LinkNear, Near
    <3> QED
      BY <2>1, <3>1
  <2>5. \A g \in Handlers : handler'[g] = handler[g] \/ SeenRequest(handler[g])'
    BY <1>0, <2>1, <2>2, <2>3, RowDone
  <2> QED
    BY <1>0, <2>2, <2>4, <2>5, SeenKept
<1>3. CASE RowFails(h, i)
  <2>1. PICK r : /\ handler' = [handler EXCEPT ![h] = r]
                 /\ r.pc = "find" /\ r.sent = q.sent /\ r.todo = q.todo \ {i} /\ r.ok = q.ok
    BY <1>0, <1>3, FailedRow
  <2>2. Placed /\ \A w \in Events' : w \in Events /\ events'[w].inc = events[w].inc
    BY <1>0, <1>3 DEF RowFails, cloudState, Placed, Events
  <2>3. \A g \in Handlers : handler'[g] = handler[g] \/ SeenRequest(handler[g])'
    BY <1>0, <2>1, <2>2, RowDone
  <2> QED
    BY <1>0, <2>2, <2>3, SeenKept
<1> QED
  BY <1>1, <1>2, <1>3

\* The steps of a request as a whole: it takes rows as they are, and what it confirms
\* has been seen.
LEMMA RequestSeen ==
  ASSUME SeenInv, SyncTypeInv', NEW h \in Handlers, Post(h) \/ Answer(h) \/ Abort(h)
  PROVE  SeenInv'
<1> USE DEF history, cloudState
<1>0. SyncTypeInv /\ events' = events /\ Events' = Events /\ used' = used /\ Stored' = Stored
  <2>1. CASE Answer(h)
    BY <2>1, AnswerEffect DEF SeenInv, Events
  <2>2. CASE Post(h) \/ Abort(h)
    BY <2>2 DEF SeenInv, Post, Abort, edgeVars, Events, Stored
  <2> QED
    BY <2>1, <2>2
<1>1. \A i \in Stored : db'[i].cam = db[i].cam /\ db'[i].start = db[i].start
  <2>1. CASE Answer(h)
    <3>1. db \in [IncIds -> Row] /\ (MarkSynced(handler[h].ok) \/ db' = db)
      BY <1>0, <2>1, TypeParts DEF Answer, EdgeTypeOK, edgeVars
    <3> QED
      BY <3>1 DEF MarkSynced, Row, Stored
  <2>2. CASE Post(h) \/ Abort(h)
    BY <2>2 DEF Post, Abort, edgeVars
  <2> QED
    BY <2>1, <2>2
<1>2. Placed
  BY <1>0, <1>1 DEF Placed
<1>3. PICK r : /\ handler' = [handler EXCEPT ![h] = r]
               /\ r.ok = {} /\ r.pc \notin {"link", "merge"}
               /\ \A i \in r.todo \cap Stored' :
                    r.sent[i].cam = db'[i].cam /\ r.sent[i].start = db'[i].start
  <2>1. CASE Post(h)
    <3>1. PICK r : /\ handler' = [handler EXCEPT ![h] = r]
                   /\ r.pc = "find" /\ r.ok = {} /\ \A i \in r.todo : r.sent[i] = db[i]
      BY <1>0, <2>1, PostEffect
    <3>2. \A i \in r.todo \cap Stored' :
            r.sent[i].cam = db'[i].cam /\ r.sent[i].start = db'[i].start
      BY <1>0, <1>1, <3>1
    <3>3. r.pc \notin {"link", "merge"}
      BY <3>1
    <3> QED
      BY <3>1, <3>2, <3>3
  <2>2. CASE Answer(h) \/ Abort(h)
    BY <2>2, IdleRequest DEF Answer, Abort
  <2> QED
    BY <2>1, <2>2
<1>4. SeenRequest(r)'
  BY <1>3 DEF SeenRequest
<1>5. \A g \in Handlers : handler'[g] = handler[g] \/ SeenRequest(handler[g])'
  <2>1. handler'[h] = r /\ \A g \in Handlers \ {h} : handler'[g] = handler[g]
    BY <1>0, <1>3 DEF SyncTypeInv, HandlersOK
  <2> QED
    BY <1>4, <2>1 DEF SeenRequest
<1>6. ASSUME NEW i \in Stored', db'[i].synced PROVE Seen(i)' \/ (i \in Stored /\ db[i].synced)
  <2>1. CASE Answer(h) /\ i \in handler[h].ok
    <3>1. i \in Stored /\ i \in used /\ SeenRequest(handler[h])
      BY <1>0, <1>6, TypeParts DEF SeenInv, EdgeTypeOK
    <3>2. PICK v \in Events : Near(v, i)
      BY <2>1, <3>1 DEF SeenRequest, Seen
    <3> QED
      BY <1>2, <1>6, <3>1, <3>2, PlacedEvent
  <2>2. CASE Answer(h) /\ i \notin handler[h].ok
    BY <1>0, <1>6, <2>2, AnswerEffect
  <2>3. CASE Post(h) \/ Abort(h)
    BY <1>0, <1>6, <2>3 DEF Post, Abort, edgeVars
  <2> QED
    BY <2>1, <2>2, <2>3
<1> QED
  BY <1>0, <1>2, <1>5, <1>6, SeenKept

\* Every step of the system keeps the invariant of requests that overlap.
LEMMA SyncStepSeen == ASSUME SeenInv, SyncNext PROVE SeenInv'
<1>0. SyncTypeInv /\ SyncTypeInv' /\ EdgeTypeOK /\ EventTypes /\ now \in Nat
  BY SyncStepTypes, TypeParts DEF SeenInv
<1>1. CASE EdgeStep /\ UNCHANGED <<cloudState, agent, by, handler, history, faults>>
  <2>1. events' = events /\ Events' = Events /\ handler' = handler
    BY <1>1 DEF cloudState, Events
  <2>2. Placed
    BY <1>0, <1>1, <2>1, RowsPlaced, EdgeStepEffect DEF Placed
  <2>3. \A i \in Stored' : db'[i].synced => i \in Stored /\ db[i].synced
    BY <1>0, <1>1, EdgeStepEffect
  <2> QED
    BY <1>0, <2>1, <2>2, <2>3, SeenKept
<1>2. CASE CloudStep /\ UNCHANGED <<used, db, agent, by, handler, history, faults>>
  <2>1. EventsKept /\ \A v \in Events' \ Events : events'[v].inc = NoInc
    BY <1>0, <1>2, CloudStepEffect
  <2>2. handler' = handler /\ db' = db /\ used' = used /\ Stored' = Stored
    BY <1>2 DEF Stored
  <2>3. Placed
    BY <1>0, <1>2, <2>1, <2>2, EventsPlaced DEF Placed, EventsKept
  <2>4. \A v \in Events' : (v \in Events /\ events'[v].inc = events[v].inc) \/ LinkNear(v)'
    BY <2>1 DEF EventsKept, LinkNear
  <2> QED
    BY <1>0, <2>2, <2>3, <2>4, SeenKept
<1>3. CASE \/ Tick /\ UNCHANGED <<used, db, cloudState, agent, by, handler, history, faults>>
           \/ PostLost \/ GiveUp
  <2>1. /\ UNCHANGED <<used, db, events, handler>> /\ Events' = Events /\ Stored' = Stored
    BY <1>3 DEF PostLost, GiveUp, edgeVars, cloudState, Events, Stored
  <2>2. Placed
    BY <2>1 DEF Placed
  <2> QED
    BY <1>0, <2>1, <2>2, SeenKept
<1>4. ASSUME NEW h \in Handlers, Post(h) \/ HandlerStep(h) \/ HandlerFault(h)
      PROVE  SeenInv'
  <2>1. CASE Post(h) \/ Answer(h) \/ Abort(h)
    BY <1>0, <2>1, RequestSeen
  <2>2. ASSUME NEW i \in IncIds, RowStep(h, i) PROVE SeenInv'
    BY <1>0, <2>2, LookupSeen, LinkSeen, WriteSeen DEF RowStep
  <2> QED
    BY <1>4, <2>1, <2>2 DEF HandlerStep, HandlerFault, RowStep
<1> QED
  BY <1>1, <1>2, <1>3, <1>4 DEF SyncNext

\* Whatever requests overlap, are given up, die or fail, for any number of handlers: of a
\* row that is synced there is an event, of its camera and of its time.  No spill that the
\* agent takes for reported (and deletes in its cleanup, which takes only such) is unknown
\* to the cloud, even where its event is linked to another row.
THEOREM SyncedIsSeenCorrect == SyncSpec => []SyncedIsSeen
<1>1. SyncInit => SeenInv
  <2> SUFFICES ASSUME SyncInit PROVE SeenInv
    OBVIOUS
  <2>1. Events = {} /\ Stored = {}
    BY DEF SyncInit, EdgeInit, CloudInit, Events, Stored, NoDoc, NoRow
  <2>2. \A h \in Handlers : SeenRequest(handler[h])
    BY IdleRequest DEF SyncInit, SeenRequest
  <2> QED
    BY <2>1, <2>2, SyncInitTypes DEF SeenInv, SyncedIsSeen
<1>2. SeenInv /\ [SyncNext]_deliveryVars => SeenInv'
  <2>1. ASSUME SeenInv, UNCHANGED deliveryVars PROVE SeenInv'
    <3>1. SyncTypeInv' /\ UNCHANGED <<used, db, events, handler>>
      BY <2>1, SyncStutterTypes DEF SeenInv, deliveryVars, edgeVars, syncVars, cloudState
    <3>2. Events' = Events /\ Stored' = Stored /\ Placed
      BY <3>1 DEF Events, Stored, Placed
    <3> QED
      BY <2>1, <3>1, <3>2, SeenKept
  <2> QED
    BY <2>1, SyncStepSeen
<1>3. SeenInv => SyncedIsSeen
  BY DEF SeenInv
<1> QED
  BY <1>1, <1>2, <1>3, PTL DEF SyncSpec
===============================================================================
