--------------------------- MODULE Incidents_proofs ---------------------------
(***************************************************************************)
(* Theorems about the two stores of incidents, each on its own, for every  *)
(* set of cameras, ids and uploads and every length of the windows: that   *)
(* one continuing spill is one incident of the edge (OneIncidentPerWindow),*)
(* that the cloud's events count every upload (EveryUploadCountedOnce),    *)
(* and when an upload is given an event of its own (OnlyOvertakenSplit).   *)
(***************************************************************************)
EXTENDS EdgeIncidents, EventGrouping, TLAPS, FiniteSetTheorems, WellFoundedInduction

\* The row that stands for "not in the table" is well formed.
LEMMA NoRowType == NoRow \in Row
<1>1. (CHOOSE c \in Cameras : TRUE) \in Cameras
  BY CommonAssumption
<1>2. (CHOOSE k \in Classes : TRUE) \in Classes
  BY CommonAssumption
<1> QED
  BY <1>1, <1>2 DEF NoRow, Row

\* The types are established by the initial state.
LEMMA EdgeInitType == EdgeInit => EdgeTypeOK
<1> SUFFICES ASSUME EdgeInit PROVE EdgeTypeOK
  OBVIOUS
<1>1. db \in [IncIds -> Row] /\ now \in Nat /\ used \subseteq IncIds
  BY NoRowType DEF EdgeInit
<1>2. \A i \in IncIds : db[i].status = "none"
  BY DEF EdgeInit, NoRow
<1> QED
  BY <1>1, <1>2 DEF EdgeTypeOK, Stored

\* Every step of the table keeps the types.
LEMMA EdgeStepType == ASSUME EdgeTypeOK, EdgeStep PROVE EdgeTypeOK'
<1> USE DEF EdgeTypeOK, Stored
<1>1. ASSUME NEW c \in Cameras, NEW k \in Classes, GroupDetection(c, k)
      PROVE  EdgeTypeOK'
  <2> PICK i \in IncIds :
         /\ LatestOpen(c, k, i) /\ WithinWindow(i)
         /\ db' = [db EXCEPT ![i].count = @ + 1, ![i].synced = FALSE]
         /\ UNCHANGED <<now, used>>
    BY <1>1 DEF GroupDetection
  <2>1. db[i] \in Row /\ i \in used
    BY DEF LatestOpen, OpenRows
  <2>2. [db[i] EXCEPT !.count = @ + 1, !.synced = FALSE] \in Row
    <3>1. db[i].count + 1 \in Nat
      BY <2>1 DEF Row
    <3> QED
      BY <2>1, <3>1 DEF Row
  <2>3. db' = [db EXCEPT ![i] = [db[i] EXCEPT !.count = @ + 1, !.synced = FALSE]]
    BY <2>1 DEF Row
  <2> QED
    BY <2>1, <2>2, <2>3
<1>2. ASSUME NEW c \in Cameras, NEW k \in Classes, OpenIncident(c, k)
      PROVE  EdgeTypeOK'
  BY <1>2 DEF OpenIncident, Row, EdgeStatus
<1>3. ASSUME NEW i \in IncIds, NEW s \in {"acknowledged", "resolved"}, UpdateStatus(i, s)
      PROVE  EdgeTypeOK'
  BY <1>3 DEF UpdateStatus, Row, EdgeStatus
<1>4. ASSUME AutoCloseStale PROVE EdgeTypeOK'
  BY <1>4 DEF AutoCloseStale, Stale, Row, EdgeStatus
<1>5. ASSUME Cleanup PROVE EdgeTypeOK'
  BY <1>5, NoRowType DEF Cleanup, NoRow
<1> QED
  BY <1>1, <1>2, <1>3, <1>4, <1>5 DEF EdgeStep

LEMMA MarkSyncedType ==
  ASSUME EdgeTypeOK, NEW S, MarkSynced(S) PROVE EdgeTypeOK'
  BY DEF EdgeTypeOK, MarkSynced, Stored, Row

LEMMA EdgeNextType == ASSUME EdgeTypeOK, [EdgeNext]_edgeVars PROVE EdgeTypeOK'
<1>1. CASE EdgeStep
  BY <1>1, EdgeStepType
<1>2. CASE \E S \in SUBSET Unsynced : S # {} /\ MarkSynced(S)
  BY <1>2, MarkSyncedType
<1>3. CASE Tick /\ UNCHANGED <<used, db>>
  BY <1>3 DEF EdgeTypeOK, Tick, Stored
<1>4. CASE UNCHANGED edgeVars
  BY <1>4 DEF EdgeTypeOK, edgeVars, Stored
<1> QED
  BY <1>1, <1>2, <1>3, <1>4 DEF EdgeNext

\* EdgeTypeOK is an invariant of the table (incident_db.py).
THEOREM EdgeTypeCorrect == EdgeSpec => []EdgeTypeOK
<1>1. EdgeTypeOK /\ [EdgeNext]_edgeVars => EdgeTypeOK'
  BY EdgeNextType
<1> QED
  BY EdgeInitType, <1>1, PTL DEF EdgeSpec

-----------------------------------------------------------------------------
(* One continuing spill is one incident *)

\* A non-empty finite set of integers has a greatest element: the sets of what
\* lies above its members are well-founded under strict inclusion.
LEMMA GreatestElement ==
  ASSUME NEW S \in SUBSET Int, IsFiniteSet(S), S # {}
  PROVE  \E m \in S : \A x \in S : x <= m
<1> DEFINE Above(y) == {x \in S : y < x}
           R == StrictSubsetOrdering(S)
           T == {Above(y) : y \in S}
<1>1. IsWellFoundedOn(R, SUBSET S)
  <2> HIDE DEF R
  <2>1. IsWellFoundedOn(StrictSubsetOrdering(S), FiniteSubsetsOf(S))
    BY FS_StrictSubsetOrderingWellFounded
  <2>2. FiniteSubsetsOf(S) = SUBSET S
    BY FS_FiniteSubsetsOfFinite
  <2> QED
    BY <2>1, <2>2 DEF R
<1>2. T \subseteq SUBSET S /\ T # {}
  OBVIOUS
<1>3. PICK A \in T : \A B \in T : <<B, A>> \notin R
  <2> HIDE DEF R, T
  <2> QED
    BY <1>1, <1>2, WFMin
<1>4. PICK m \in S : A = Above(m)
  OBVIOUS
<1>5. ASSUME NEW x \in S, ~(x <= m) PROVE FALSE
  <2>1. Above(x) \in T
    OBVIOUS
  <2>2. Above(x) \subseteq Above(m) /\ x \in Above(m) /\ x \notin Above(x)
    <3>1. S \subseteq Int /\ x \in Int /\ m \in Int
      OBVIOUS
    <3>2. m < x
      BY <1>5, <3>1
    <3>3. \A y \in Int : x < y => m < y
      BY <3>1, <3>2
    <3>4. ~(x < x)
      BY <3>1
    <3> QED
      BY <3>2, <3>3, <3>4
  <2>3. <<Above(x), A>> \in R
    BY <2>2, <1>4 DEF StrictSubsetOrdering
  <2> QED
    BY <2>1, <2>3, <1>3
<1> QED
  BY <1>5

\* What OneIncidentPerWindow rests on: ids, and with them the choice of the
\* latest open incident, follow the start times, and no start is in the future.
WindowInv == EdgeTypeOK /\ IdsFollowTime /\ OneIncidentPerWindow

\* A step that adds no row, moves no row and reopens none keeps the invariant:
\* every step but OpenIncident is of this kind.
LEMMA NoNewOpenRow ==
  ASSUME WindowInv, EdgeTypeOK', now' \in Nat, now <= now',
         \A i \in Stored' : /\ i \in Stored
                            /\ db'[i].start = db[i].start
                            /\ db'[i].cam = db[i].cam
                            /\ db'[i].cls = db[i].cls
                            /\ db'[i].status = "new" => db[i].status = "new"
  PROVE  WindowInv'
<1>1. IdsFollowTime'
  <2> SUFFICES ASSUME NEW i \in Stored', NEW j \in Stored', i <= j
               PROVE  db'[i].start <= db'[j].start /\ db'[j].start <= now'
    BY DEF IdsFollowTime
  <2>1. db[i].start <= db[j].start /\ db[j].start <= now
    BY DEF WindowInv, IdsFollowTime
  <2>2. now \in Nat /\ db[j].start \in Nat
    BY DEF WindowInv, EdgeTypeOK, Row, Stored
  <2> QED
    BY <2>1, <2>2
<1>2. OneIncidentPerWindow'
  BY DEF WindowInv, OneIncidentPerWindow
<1> QED
  BY <1>1, <1>2 DEF WindowInv

\* A new incident starts outside the window of the latest open one, hence of all.
LEMMA OpenIncidentWindow ==
  ASSUME WindowInv, EdgeTypeOK', NEW c \in Cameras, NEW k \in Classes, OpenIncident(c, k)
  PROVE  WindowInv'
<1> USE DEF WindowInv
<1> PICK n \in IncIds \ used :
      /\ \A j \in used : j < n
      /\ used' = used \union {n}
      /\ db' = [db EXCEPT ![n] = [status |-> "new", cam |-> c, cls |-> k,
                                 start |-> now, count |-> 1, synced |-> FALSE]]
      /\ now' = now
  BY DEF OpenIncident
<1>1. Stored \subseteq used /\ Stored \subseteq IncIds /\ IncIds \subseteq Int
  BY CommonAssumption DEF EdgeTypeOK, Stored
<1>2. /\ Stored' = Stored \union {n}
      /\ \A j \in Stored : db'[j] = db[j]
      /\ db'[n] = [status |-> "new", cam |-> c, cls |-> k,
                   start |-> now, count |-> 1, synced |-> FALSE]
  BY <1>1 DEF EdgeTypeOK, Stored
<1>3. \A j \in Stored : j < n /\ ~(n <= j) /\ db[j].start \in Nat
  BY <1>1 DEF EdgeTypeOK, Row, Stored
<1>4. now \in Nat /\ GroupingWindow \in Nat
  BY EdgeAssumption DEF EdgeTypeOK
<1>5. \A j \in Stored : db[j].start <= now
  BY <1>1 DEF IdsFollowTime
<1>6. IdsFollowTime'
  BY <1>2, <1>3, <1>4, <1>5 DEF IdsFollowTime
<1>7. ASSUME NEW j \in Stored, db[j].status = "new", db[j].cam = c, k \notin SeparateClasses
      PROVE  now - db[j].start > GroupingWindow
  <2>1. OpenRows(c, k) \in SUBSET Int /\ j \in OpenRows(c, k)
    BY <1>1, <1>7 DEF OpenRows
  <2>2. IsFiniteSet(OpenRows(c, k))
    BY <1>1, CommonAssumption, FS_Subset DEF OpenRows
  <2>3. PICK m \in OpenRows(c, k) : \A x \in OpenRows(c, k) : x <= m
    BY <2>1, <2>2, GreatestElement
  <2>4. m \in Stored /\ m \in IncIds /\ LatestOpen(c, k, m)
    BY <2>3, <1>1 DEF LatestOpen, OpenRows
  <2>5. now - db[m].start > GroupingWindow
    BY <2>4, <1>3, <1>4 DEF OpenIncident, WithinWindow
  <2>6. db[j].start <= db[m].start
    BY <2>1, <2>3, <2>4 DEF IdsFollowTime
  <2> QED
    BY <2>4, <2>5, <2>6, <1>3, <1>4
<1>8. OneIncidentPerWindow'
  <2> SUFFICES ASSUME NEW i \in Stored', NEW j \in Stored', i < j,
                      db'[i].status = "new", db'[j].status = "new",
                      db'[i].cam = db'[j].cam, db'[j].cls \notin SeparateClasses
               PROVE  db'[j].start - db'[i].start > GroupingWindow
    BY DEF OneIncidentPerWindow
  <2>1. CASE i \in Stored /\ j \in Stored
    BY <2>1, <1>2 DEF OneIncidentPerWindow
  <2>2. CASE i \in Stored /\ j = n
    BY <2>2, <1>2, <1>7
  <2>3. CASE i = n
    BY <2>3, <1>1, <1>2, <1>3
  <2> QED
    BY <2>1, <2>2, <2>3, <1>2
<1> QED
  BY <1>6, <1>8

\* Every step of the table keeps the invariant.
LEMMA EdgeStepWindow == ASSUME WindowInv, EdgeStep PROVE WindowInv'
<1>1. EdgeTypeOK'
  BY EdgeStepType DEF WindowInv
<1>2. now \in Nat /\ now' = now /\ now' \in Nat /\ now <= now'
  <2>1. now \in Nat /\ now' = now
    BY DEF WindowInv, EdgeTypeOK, EdgeStep, GroupDetection, OpenIncident, UpdateStatus,
           AutoCloseStale, Cleanup
  <2> QED
    BY <2>1
<1>3. ASSUME NEW c \in Cameras, NEW k \in Classes, GroupDetection(c, k)
      PROVE  WindowInv'
  BY <1>1, <1>2, <1>3, NoNewOpenRow DEF GroupDetection, WindowInv, EdgeTypeOK, Stored, Row
<1>4. ASSUME NEW c \in Cameras, NEW k \in Classes, OpenIncident(c, k)
      PROVE  WindowInv'
  BY <1>1, <1>4, OpenIncidentWindow
<1>5. ASSUME NEW i \in IncIds, NEW s \in {"acknowledged", "resolved"}, UpdateStatus(i, s)
      PROVE  WindowInv'
  BY <1>1, <1>2, <1>5, NoNewOpenRow DEF UpdateStatus, WindowInv, EdgeTypeOK, Stored, Row
<1>6. ASSUME AutoCloseStale PROVE WindowInv'
  BY <1>1, <1>2, <1>6, NoNewOpenRow
     DEF AutoCloseStale, Stale, WindowInv, EdgeTypeOK, Stored, Row
<1>7. ASSUME Cleanup PROVE WindowInv'
  BY <1>1, <1>2, <1>7, NoNewOpenRow DEF Cleanup, NoRow, Stored
<1> QED
  BY <1>3, <1>4, <1>5, <1>6, <1>7 DEF EdgeStep

\* Marking rows as synced keeps the invariant.
LEMMA MarkSyncedWindow ==
  ASSUME WindowInv, NEW S, MarkSynced(S) PROVE WindowInv'
<1>1. EdgeTypeOK' /\ now \in Nat /\ now' = now /\ now' \in Nat /\ now <= now'
  <2>1. EdgeTypeOK' /\ now \in Nat /\ now' = now
    BY MarkSyncedType DEF WindowInv, EdgeTypeOK, MarkSynced
  <2> QED
    BY <2>1
<1> QED
  BY <1>1, NoNewOpenRow DEF MarkSynced, WindowInv, EdgeTypeOK, Stored, Row

\* A continuing spill is one incident: two open incidents of one camera, of
\* classes that are not grouped separately, are more than a grouping window
\* apart, whatever the detections, users, auto-close, cleanup and
\* synchronisation do (create_or_update_incident).
THEOREM OneIncidentPerWindowCorrect == EdgeSpec => []OneIncidentPerWindow
<1>1. EdgeInit => WindowInv
  <2> SUFFICES ASSUME EdgeInit PROVE WindowInv
    OBVIOUS
  <2>1. Stored = {}
    BY DEF EdgeInit, Stored, NoRow
  <2> QED
    BY <2>1, EdgeInitType DEF WindowInv, IdsFollowTime, OneIncidentPerWindow
<1>2. WindowInv /\ [EdgeNext]_edgeVars => WindowInv'
  <2> SUFFICES ASSUME WindowInv, [EdgeNext]_edgeVars PROVE WindowInv'
    OBVIOUS
  <2>1. CASE EdgeStep
    BY <2>1, EdgeStepWindow
  <2>2. CASE \E S \in SUBSET Unsynced : S # {} /\ MarkSynced(S)
    BY <2>2, MarkSyncedWindow
  <2>3. CASE Tick /\ UNCHANGED <<used, db>>
    <3>1. EdgeTypeOK' /\ now' \in Nat /\ now <= now'
      BY <2>3 DEF WindowInv, EdgeTypeOK, Tick, Stored
    <3> QED
      BY <2>3, <3>1, NoNewOpenRow DEF Stored
  <2>4. CASE UNCHANGED edgeVars
    BY <2>4 DEF edgeVars, WindowInv, EdgeTypeOK, IdsFollowTime, OneIncidentPerWindow, Stored
  <2> QED
    BY <2>1, <2>2, <2>3, <2>4 DEF EdgeNext
<1> QED
  BY <1>1, <1>2, PTL DEF EdgeSpec, WindowInv

-------------------------------------------------------------------------------
(* Uploads and the events that count them *)

\* What an upload has found is an event of its own camera.
TargetRight ==
  \A u \in Uploads : upload[u].target # NoEvent => events[upload[u].target].cam = upload[u].cam
\* As many detections are counted on a camera as have been handled.
CountsAgree(c) ==
  /\ IsFiniteSet(CountedOn(c)) /\ IsFiniteSet(Done(c))
  /\ Cardinality(CountedOn(c)) = Cardinality(Done(c))
CountInv == CloudTypeOK /\ TargetRight /\ \A c \in Cameras : CountsAgree(c)

LEMMA EventNumbers ==
  /\ NoEvent \notin EventIds /\ NoInc \notin IncIds
  /\ 0 \in Nat /\ 1 \in Nat
  BY CommonAssumption, CloudAssumption DEF NoEvent, NoInc

LEMMA NoDocFields == NoDoc \in Event /\ NoDoc.status = "none" /\ NoDoc.cam \in Cameras
<1>1. PICK d, k : d = (CHOOSE c \in Cameras : TRUE) /\ k = CHOOSE l \in Classes : TRUE
  OBVIOUS
<1>2. d \in Cameras /\ k \in Classes
  BY <1>1, CommonAssumption
<1>3. NoDoc = [status |-> "none", cam |-> d, cls |-> k, inc |-> NoInc, start |-> 0, count |-> 0]
  BY <1>1 DEF NoDoc
<1> QED
  BY <1>2, <1>3 DEF Event

LEMMA CountInit == CloudInit => CountInv
<1> SUFFICES ASSUME CloudInit PROVE CountInv
  OBVIOUS
<1>1. \A v \in EventIds : events[v] = NoDoc
  BY DEF CloudInit
<1>2. Events = {}
  BY <1>1, NoDocFields DEF Events
<1>3. upload \in [Uploads -> Upload] /\ \A u \in Uploads : upload[u].pc = "waiting" /\ upload[u].target = NoEvent
  <2> DEFINE Waits == [pc: {"waiting"}, cam: Cameras, cls: Classes,
                       apart: {FALSE}, at: {0}, target: {NoEvent}]
  <2>1. \A w \in Waits : w \in Upload /\ w.pc = "waiting" /\ w.target = NoEvent
    <3>1. /\ {"waiting"} \subseteq {"waiting", "found", "done", "skipped"}
          /\ {FALSE} \subseteq BOOLEAN /\ {0} \subseteq Nat
          /\ {NoEvent} \subseteq EventIds \union {NoEvent}
      OBVIOUS
    <3>2. Waits \subseteq Upload
      BY <3>1 DEF Upload
    <3> QED
      BY <3>2
  <2>2. upload \in [Uploads -> Waits]
    BY DEF CloudInit
  <2> HIDE DEF Waits
  <2> QED
    BY <2>1, <2>2
<1>4. CloudTypeOK
  BY <1>2, <1>3, NoDocFields DEF CloudInit, CloudTypeOK
<1>5. ASSUME NEW c \in Cameras PROVE CountsAgree(c)
  <2>1. CountedOn(c) = {}
    BY <1>2 DEF CountedOn, EventsOf
  <2>2. Done(c) = {}
    BY <1>3 DEF Done
  <2> QED
    BY <2>1, <2>2, FS_EmptySet DEF CountsAgree
<1> QED
  BY <1>3, <1>4, <1>5 DEF CountInv, TargetRight

\* A change of status alone moves no count.
LEMMA StatusKeepsCounts ==
  ASSUME CountInv, NEW v \in Events, NEW s \in CloudStatus,
         events' = [events EXCEPT ![v].status = s], UNCHANGED <<now, upload>>,
         closing' \subseteq closing
  PROVE  CountInv'
<1>1. v \in EventIds /\ \A x \in Events : x \in EventIds
  BY DEF Events
<1>2. PICK d \in Event : d = events[v]
  BY <1>1 DEF CountInv, CloudTypeOK
<1>3. PICK e : e = [d EXCEPT !.status = s]
  OBVIOUS
<1>4. e \in Event /\ e.status = s /\ e.cam = d.cam /\ e.count = d.count
  BY <1>3 DEF Event
<1>5. events' = [events EXCEPT ![v] = e]
  BY <1>2, <1>3
<1>6. events \in [EventIds -> Event]
  BY DEF CountInv, CloudTypeOK
<1>7. /\ events' \in [EventIds -> Event] /\ events'[v] = e
      /\ \A x \in EventIds : x # v => events'[x] = events[x]
  BY <1>1, <1>4, <1>5, <1>6
<1>8. s # "none"
  BY DEF CloudStatus, OpenStatus
<1>9. Events' = Events
  BY <1>1, <1>4, <1>7, <1>8 DEF Events
<1>10. \A x \in EventIds : events'[x].cam = events[x].cam /\ events'[x].count = events[x].count
  BY <1>2, <1>4, <1>7
<1>11. CloudTypeOK'
  BY <1>7, <1>9 DEF CountInv, CloudTypeOK
<1>12. TargetRight'
  <2> SUFFICES ASSUME NEW u \in Uploads, upload[u].target # NoEvent
               PROVE  events'[upload[u].target].cam = upload[u].cam
    BY DEF TargetRight
  <2>1. upload[u].target \in EventIds
    BY <1>1 DEF CountInv, CloudTypeOK
  <2> QED
    BY <1>10, <2>1 DEF CountInv, TargetRight
<1>13. ASSUME NEW c \in Cameras PROVE CountsAgree(c)'
  <2>1. EventsOf(c)' = EventsOf(c)
    BY <1>1, <1>9, <1>10 DEF EventsOf
  <2>2. \A x \in EventsOf(c) : events'[x].count = events[x].count
    BY <1>1, <1>10 DEF EventsOf
  <2>3. CountedOn(c)' = CountedOn(c)
    BY <2>1, <2>2 DEF CountedOn
  <2>4. Done(c)' = Done(c)
    BY DEF Done
  <2> QED
    BY <2>3, <2>4 DEF CountInv, CountsAgree
<1> QED
  BY <1>11, <1>12, <1>13 DEF CountInv

\* A handled upload with one more count on its camera keeps the two in step.
LEMMA CountedWithUpload ==
  ASSUME CountInv, NEW u \in Uploads, upload[u].pc # "done",
         upload' = [upload EXCEPT ![u].pc = "done"],
         NEW c \in Cameras, NEW x,
         c = upload[u].cam => x \notin CountedOn(c) /\ CountedOn(c)' = CountedOn(c) \cup {x},
         c # upload[u].cam => CountedOn(c)' = CountedOn(c)
  PROVE  CountsAgree(c)'
<1>1. PICK d \in Upload : d = upload[u]
  BY DEF CountInv, CloudTypeOK
<1>2. PICK e : e = [d EXCEPT !.pc = "done"]
  OBVIOUS
<1>3. e.pc = "done" /\ e.cam = d.cam
  BY <1>2 DEF Upload
<1>4. upload \in [Uploads -> Upload] /\ upload' = [upload EXCEPT ![u] = e]
  BY <1>1, <1>2 DEF CountInv, CloudTypeOK
<1>5. upload'[u] = e /\ \A w \in Uploads : w # u => upload'[w] = upload[w]
  BY <1>4
<1>6. CountsAgree(c)
  BY DEF CountInv
<1>7. CASE c # upload[u].cam
  <2>1. Done(c)' = Done(c)
    BY <1>1, <1>3, <1>5, <1>7 DEF Done
  <2> QED
    BY <1>6, <1>7, <2>1 DEF CountsAgree
<1>8. CASE c = upload[u].cam
  <2>1. Done(c)' = Done(c) \cup {u} /\ u \notin Done(c)
    BY <1>1, <1>3, <1>5, <1>8 DEF Done
  <2>2. /\ IsFiniteSet(Done(c) \cup {u})
        /\ Cardinality(Done(c) \cup {u}) = Cardinality(Done(c)) + 1
    BY <1>6, <2>1, FS_AddElement DEF CountsAgree
  <2>3. /\ IsFiniteSet(CountedOn(c) \cup {x})
        /\ Cardinality(CountedOn(c) \cup {x}) = Cardinality(CountedOn(c)) + 1
    BY <1>6, <1>8, FS_AddElement DEF CountsAgree
  <2> QED
    BY <1>6, <1>8, <2>1, <2>2, <2>3 DEF CountsAgree
<1> QED
  BY <1>7, <1>8

LEMMA FindCounts == ASSUME CountInv, NEW u \in Uploads, FindOpenEvent(u) PROVE CountInv'
<1>1. PICK d \in Upload : d = upload[u]
  BY DEF CountInv, CloudTypeOK
<1>2. PICK a \in BOOLEAN, t \in EventIds \cup {NoEvent} :
        /\ t # NoEvent => t \in Events /\ events[t].cam = d.cam
        /\ upload' = [upload EXCEPT ![u].pc = "found", ![u].at = now, ![u].apart = a,
                                    ![u].target = t]
  <2> PICK a \in BOOLEAN :
        \/ \E v \in EventIds :
             /\ Latest(Joinable(u, a), v)
             /\ upload' = [upload EXCEPT ![u].pc = "found", ![u].at = now, ![u].apart = a,
                                         ![u].target = v]
        \/ upload' = [upload EXCEPT ![u].pc = "found", ![u].at = now, ![u].apart = a]
    BY DEF FindOpenEvent
  <2>1. CASE \E v \in EventIds :
               /\ Latest(Joinable(u, a), v)
               /\ upload' = [upload EXCEPT ![u].pc = "found", ![u].at = now, ![u].apart = a,
                                           ![u].target = v]
    BY <1>1, <2>1 DEF Latest, Joinable, OpenOn, Open
  <2>2. CASE upload' = [upload EXCEPT ![u].pc = "found", ![u].at = now, ![u].apart = a]
    <3>1. d.target \in EventIds \cup {NoEvent}
      BY DEF Upload
    <3>2. d.target # NoEvent => d.target \in Events /\ events[d.target].cam = d.cam
      BY <1>1 DEF CountInv, CloudTypeOK, TargetRight
    <3>3. PICK e : e = [d EXCEPT !.pc = "found", !.at = now, !.apart = a]
      OBVIOUS
    <3>4. e = [d EXCEPT !.pc = "found", !.at = now, !.apart = a, !.target = d.target]
      BY <3>3 DEF Upload
    <3>5. upload \in [Uploads -> Upload]
      BY DEF CountInv, CloudTypeOK
    <3>6. upload' = [upload EXCEPT ![u] = e]
      BY <1>1, <2>2, <3>3, <3>5
    <3>7. upload' = [upload EXCEPT ![u].pc = "found", ![u].at = now, ![u].apart = a,
                                   ![u].target = d.target]
      BY <1>1, <3>4, <3>5, <3>6
    <3> QED
      BY <3>1, <3>2, <3>7
  <2> QED
    BY <2>1, <2>2
<1>3. PICK e : e = [d EXCEPT !.pc = "found", !.at = now, !.apart = a, !.target = t]
  OBVIOUS
<1>4. upload \in [Uploads -> Upload] /\ now \in Nat
  BY DEF CountInv, CloudTypeOK
<1>5. e \in Upload /\ e.pc = "found" /\ e.cam = d.cam /\ e.target = t
  BY <1>2, <1>3, <1>4 DEF Upload
<1>6. upload' = [upload EXCEPT ![u] = e]
  BY <1>1, <1>2, <1>3, <1>4
<1>7. /\ upload' \in [Uploads -> Upload] /\ upload'[u] = e
      /\ \A w \in Uploads : w # u => upload'[w] = upload[w]
  BY <1>4, <1>5, <1>6
<1>8. UNCHANGED <<now, events, closing>> /\ d.pc = "waiting"
  BY <1>1 DEF FindOpenEvent
<1>9. Events' = Events
  BY <1>8 DEF Events
<1>10. CloudTypeOK'
  BY <1>2, <1>5, <1>7, <1>8, <1>9 DEF CountInv, CloudTypeOK
<1>11. TargetRight'
  BY <1>2, <1>5, <1>7, <1>8 DEF CountInv, TargetRight
<1>12. ASSUME NEW c \in Cameras PROVE CountsAgree(c)'
  <2>1. CountedOn(c)' = CountedOn(c)
    BY <1>8 DEF CountedOn, EventsOf, Events
  <2>2. Done(c)' = Done(c)
    BY <1>1, <1>5, <1>7, <1>8 DEF Done
  <2> QED
    BY <2>1, <2>2 DEF CountInv, CountsAgree
<1> QED
  BY <1>10, <1>11, <1>12 DEF CountInv

\* An upload that is left out is neither handled nor counted.
LEMMA SkipCounts ==
  ASSUME CountInv, NEW u \in Uploads, LeaveOut(u) \/ TooMild(u)
  PROVE  CountInv'
<1>1. PICK d \in Upload : d = upload[u]
  BY DEF CountInv, CloudTypeOK
<1>2. PICK e : e = [d EXCEPT !.pc = "skipped"]
  OBVIOUS
<1>3. e \in Upload /\ e.pc = "skipped" /\ e.cam = d.cam /\ e.target = d.target
  BY <1>2 DEF Upload
<1>4. /\ upload' = [upload EXCEPT ![u].pc = "skipped"]
      /\ UNCHANGED <<now, events, closing>> /\ d.pc # "done"
  BY <1>1 DEF LeaveOut, TooMild
<1>5. upload \in [Uploads -> Upload]
  BY DEF CountInv, CloudTypeOK
<1>6. upload' = [upload EXCEPT ![u] = e]
  BY <1>1, <1>2, <1>4, <1>5
<1>7. /\ upload' \in [Uploads -> Upload] /\ upload'[u] = e
      /\ \A w \in Uploads : w # u => upload'[w] = upload[w]
  BY <1>3, <1>5, <1>6
<1>8. \A w \in Uploads : upload'[w].target = upload[w].target /\ upload'[w].cam = upload[w].cam
  BY <1>1, <1>3, <1>7
<1>9. Events' = Events
  BY <1>4 DEF Events
<1>10. CloudTypeOK' /\ TargetRight'
  BY <1>4, <1>7, <1>8, <1>9 DEF CountInv, CloudTypeOK, TargetRight
<1>11. ASSUME NEW c \in Cameras PROVE CountsAgree(c)'
  <2>1. CountedOn(c)' = CountedOn(c)
    BY <1>4 DEF CountedOn, EventsOf, Events
  <2>2. Done(c)' = Done(c)
    BY <1>1, <1>3, <1>4, <1>7 DEF Done
  <2> QED
    BY <2>1, <2>2 DEF CountInv, CountsAgree
<1> QED
  BY <1>10, <1>11 DEF CountInv

\* The types and targets after an upload is handled, the events having only grown.
LEMMA HandledTypes ==
  ASSUME CountInv, NEW u \in Uploads, upload' = [upload EXCEPT ![u].pc = "done"],
         events' \in [EventIds -> Event], Events \subseteq Events',
         \A v \in Events : events'[v].cam = events[v].cam,
         UNCHANGED <<now, closing>>
  PROVE  CloudTypeOK' /\ TargetRight'
<1>1. PICK d \in Upload : d = upload[u]
  BY DEF CountInv, CloudTypeOK
<1>2. PICK e : e = [d EXCEPT !.pc = "done"]
  OBVIOUS
<1>3. e \in Upload /\ e.cam = d.cam /\ e.target = d.target
  BY <1>2 DEF Upload
<1>4. upload \in [Uploads -> Upload]
  BY DEF CountInv, CloudTypeOK
<1>5. upload' = [upload EXCEPT ![u] = e]
  BY <1>1, <1>2, <1>4
<1>6. /\ upload' \in [Uploads -> Upload]
      /\ \A w \in Uploads : upload'[w].target = upload[w].target /\ upload'[w].cam = upload[w].cam
  BY <1>1, <1>3, <1>4, <1>5
<1>7. \A w \in Uploads : upload[w].target # NoEvent =>
        upload[w].target \in Events /\ events[upload[w].target].cam = upload[w].cam
  BY DEF CountInv, CloudTypeOK, TargetRight
<1>8. CloudTypeOK'
  <2>1. now' \in Nat /\ closing' \subseteq Events'
    BY DEF CountInv, CloudTypeOK
  <2>2. \A w \in Uploads : upload'[w].target # NoEvent => upload'[w].target \in Events'
    BY <1>6, <1>7
  <2> QED
    BY <1>6, <2>1, <2>2 DEF CloudTypeOK
<1>9. TargetRight'
  BY <1>6, <1>7 DEF TargetRight
<1> QED
  BY <1>8, <1>9

LEMMA UpdateCounts == ASSUME CountInv, NEW u \in Uploads, UpdateEvent(u) PROVE CountInv'
<1>1. PICK v : v = upload[u].target
  OBVIOUS
<1>2. /\ v \in Events /\ v \in EventIds /\ events[v].cam = upload[u].cam
      /\ events' = [events EXCEPT ![v].count = @ + 1]
      /\ upload' = [upload EXCEPT ![u].pc = "done"]
      /\ upload[u].pc = "found" /\ UNCHANGED <<now, closing>>
  BY <1>1 DEF UpdateEvent, CountInv, CloudTypeOK, TargetRight, Events
<1>3. PICK d \in Event : d = events[v]
  BY <1>2 DEF CountInv, CloudTypeOK
<1>4. PICK n \in Nat : n = d.count
  BY DEF Event
<1>5. PICK e : e = [d EXCEPT !.count = n + 1]
  OBVIOUS
<1>6. e \in Event /\ e.status = d.status /\ e.cam = d.cam /\ e.count = n + 1
  BY <1>5 DEF Event
<1>7. events \in [EventIds -> Event]
  BY DEF CountInv, CloudTypeOK
<1>8. events' = [events EXCEPT ![v] = e]
  BY <1>2, <1>3, <1>4, <1>5
<1>9. /\ events' \in [EventIds -> Event] /\ events'[v] = e
      /\ \A x \in EventIds : x # v => events'[x] = events[x]
  BY <1>2, <1>6, <1>7, <1>8
<1>10. Events' = Events /\ \A x \in Events : x \in EventIds /\ events'[x].cam = events[x].cam
  BY <1>3, <1>6, <1>9 DEF Events
<1>11. CloudTypeOK' /\ TargetRight'
  BY <1>2, <1>9, <1>10, HandledTypes
<1>12. ASSUME NEW c \in Cameras PROVE CountsAgree(c)'
  <2>1. EventsOf(c)' = EventsOf(c)
    BY <1>10 DEF EventsOf
  <2>2. CASE c # upload[u].cam
    <3>1. \A x \in EventsOf(c) : events'[x].count = events[x].count
      BY <1>2, <1>9, <1>10, <2>2 DEF EventsOf
    <3>2. CountedOn(c)' = CountedOn(c)
      BY <2>1, <3>1 DEF CountedOn
    <3> QED
      BY <1>2, <2>2, <3>2, CountedWithUpload
  <2>3. CASE c = upload[u].cam
    <3>1. v \in EventsOf(c) /\ events[v].count = n /\ events'[v].count = n + 1
      BY <1>2, <1>3, <1>4, <1>6, <1>9, <2>3 DEF EventsOf
    <3>2. \A x \in EventsOf(c) : x # v => events'[x].count = events[x].count
      BY <1>9, <1>10 DEF EventsOf
    <3>3. 1 .. n + 1 = (1 .. n) \cup {n + 1} /\ n + 1 \notin 1 .. n
      OBVIOUS
    <3>4. <<v, n + 1>> \notin CountedOn(c)
      <4>1. SUFFICES ASSUME NEW x \in EventsOf(c), <<v, n + 1>> \in {x} \X (1 .. events[x].count)
                     PROVE  FALSE
        BY DEF CountedOn
      <4> QED
        BY <3>1, <3>3, <4>1
    <3>5. CountedOn(c)' = UNION { {x} \X (1 .. events'[x].count) : x \in EventsOf(c) }
      BY <2>1 DEF CountedOn
    <3>6. ASSUME NEW y PROVE y \in CountedOn(c)' <=> y \in CountedOn(c) \cup {<<v, n + 1>>}
      <4>1. y \in CountedOn(c)' <=> \E x \in EventsOf(c) : y \in {x} \X (1 .. events'[x].count)
        BY <3>5
      <4>2. y \in CountedOn(c) <=> \E x \in EventsOf(c) : y \in {x} \X (1 .. events[x].count)
        BY DEF CountedOn
      <4>3. y \in {v} \X (1 .. events'[v].count) <=> y \in {v} \X (1 .. events[v].count) \/ y = <<v, n + 1>>
        BY <3>1, <3>3
      <4>4. \A x \in EventsOf(c) \ {v} :
              y \in {x} \X (1 .. events'[x].count) <=> y \in {x} \X (1 .. events[x].count)
        BY <3>2
      <4> QED
        BY <3>1, <4>1, <4>2, <4>3, <4>4
    <3>7. CountedOn(c)' = CountedOn(c) \cup {<<v, n + 1>>}
      BY <3>6
    <3> QED
      BY <1>2, <2>3, <3>4, <3>7, CountedWithUpload
  <2> QED
    BY <2>2, <2>3
<1> QED
  BY <1>11, <1>12 DEF CountInv

LEMMA InsertCounts == ASSUME CountInv, NEW u \in Uploads, InsertEvent(u) PROVE CountInv'
<1>1. PICK d \in Upload : d = upload[u]
  BY DEF CountInv, CloudTypeOK
<1>2. PICK e : e = [status |-> "new", cam |-> d.cam, cls |-> d.cls, inc |-> NoInc,
                    start |-> d.at, count |-> 1]
  OBVIOUS
<1>3. e \in Event /\ e.status = "new" /\ e.cam = d.cam /\ e.count = 1
  BY <1>2 DEF Event, Upload, CloudStatus, OpenStatus
<1>4. /\ Insert(e) /\ upload' = [upload EXCEPT ![u].pc = "done"]
      /\ upload[u].pc = "found" /\ UNCHANGED <<now, closing>>
  BY <1>1, <1>2 DEF InsertEvent
<1>5. PICK v \in EventIds \ Events : events' = [events EXCEPT ![v] = e]
  BY <1>4 DEF Insert
<1>6. events \in [EventIds -> Event]
  BY DEF CountInv, CloudTypeOK
<1>7. /\ events' \in [EventIds -> Event] /\ events'[v] = e
      /\ \A x \in EventIds : x # v => events'[x] = events[x]
  BY <1>3, <1>5, <1>6
<1>8. Events' = Events \cup {v} /\ \A x \in Events : x # v /\ x \in EventIds
  BY <1>3, <1>7 DEF Events
<1>9. CloudTypeOK' /\ TargetRight'
  BY <1>4, <1>7, <1>8, HandledTypes
<1>10. ASSUME NEW c \in Cameras PROVE CountsAgree(c)'
  <2>1. \A x \in EventsOf(c) : x # v /\ x \in Events /\ x \in EventIds /\ events'[x] = events[x]
    BY <1>7, <1>8 DEF EventsOf
  <2>2. CASE c # upload[u].cam
    <3>1. EventsOf(c)' = EventsOf(c)
      BY <1>1, <1>3, <1>7, <1>8, <2>2 DEF EventsOf
    <3>2. CountedOn(c)' = CountedOn(c)
      BY <2>1, <3>1 DEF CountedOn
    <3> QED
      BY <1>4, <2>2, <3>2, CountedWithUpload
  <2>3. CASE c = upload[u].cam
    <3>1. EventsOf(c)' = EventsOf(c) \cup {v}
      BY <1>1, <1>3, <1>7, <1>8, <2>3 DEF EventsOf
    <3>2. 1 .. events'[v].count = {1}
      BY <1>3, <1>7
    <3>3. CountedOn(c)' = UNION { {x} \X (1 .. events'[x].count) : x \in EventsOf(c) \cup {v} }
      BY <3>1 DEF CountedOn
    <3>4. ASSUME NEW y PROVE y \in CountedOn(c)' <=> y \in CountedOn(c) \cup {<<v, 1>>}
      <4>1. y \in CountedOn(c)' <=>
              \E x \in EventsOf(c) \cup {v} : y \in {x} \X (1 .. events'[x].count)
        BY <3>3
      <4>2. y \in CountedOn(c) <=> \E x \in EventsOf(c) : y \in {x} \X (1 .. events[x].count)
        BY DEF CountedOn
      <4>3. y \in {v} \X (1 .. events'[v].count) <=> y = <<v, 1>>
        BY <3>2
      <4> QED
        BY <2>1, <4>1, <4>2, <4>3
    <3>5. CountedOn(c)' = CountedOn(c) \cup {<<v, 1>>}
      BY <3>4
    <3>6. <<v, 1>> \notin CountedOn(c)
      <4>1. SUFFICES ASSUME NEW x \in EventsOf(c), <<v, 1>> \in {x} \X (1 .. events[x].count)
                     PROVE  FALSE
        BY DEF CountedOn
      <4> QED
        BY <2>1, <4>1
    <3> QED
      BY <1>4, <2>3, <3>5, <3>6, CountedWithUpload
  <2> QED
    BY <2>2, <2>3
<1> QED
  BY <1>9, <1>10 DEF CountInv

LEMMA CountStep == ASSUME CountInv, CloudNext PROVE CountInv'
<1>1. ASSUME NEW u \in Uploads,
             \/ FindOpenEvent(u) \/ UpdateEvent(u) \/ InsertEvent(u)
             \/ LeaveOut(u) \/ TooMild(u)
      PROVE  CountInv'
  BY <1>1, FindCounts, UpdateCounts, InsertCounts, SkipCounts
<1>2. ASSUME NEW v \in EventIds, AcknowledgeEvent(v) PROVE CountInv'
  <2>1. "acknowledged" \in CloudStatus
    BY DEF CloudStatus, OpenStatus
  <2> QED
    BY <1>2, <2>1, StatusKeepsCounts DEF AcknowledgeEvent
<1>3. ASSUME NEW v \in EventIds, ResolveEvent(v) PROVE CountInv'
  <2>1. "resolved" \in CloudStatus
    BY DEF CloudStatus, OpenStatus
  <2> QED
    BY <1>3, <2>1, StatusKeepsCounts DEF ResolveEvent
<1>4. CASE UNCHANGED <<events, upload>> /\ now' \in Nat /\ closing' \subseteq Events
  <2>1. Events' = Events
    BY <1>4 DEF Events
  <2>2. CloudTypeOK' /\ TargetRight'
    BY <1>4, <2>1 DEF CountInv, CloudTypeOK, TargetRight
  <2>3. ASSUME NEW c \in Cameras PROVE CountsAgree(c)'
    <3>1. CountedOn(c)' = CountedOn(c)
      BY <1>4 DEF CountedOn, EventsOf, Events
    <3>2. Done(c)' = Done(c)
      BY <1>4 DEF Done
    <3> QED
      BY <3>1, <3>2 DEF CountInv, CountsAgree
  <2> QED
    BY <2>2, <2>3 DEF CountInv
<1>5. ASSUME ListStale PROVE CountInv'
  BY <1>4, <1>5 DEF ListStale, Open, CountInv, CloudTypeOK
<1>6. ASSUME NEW v \in EventIds, AutoResolve(v) PROVE CountInv'
  <2>1. "auto_resolved" \in CloudStatus /\ v \in Events
    BY <1>6 DEF CloudStatus, AutoResolve, CountInv, CloudTypeOK
  <2> QED
    BY <1>6, <2>1, StatusKeepsCounts DEF AutoResolve
<1>7. ASSUME Tick, UNCHANGED <<events, upload, closing>> PROVE CountInv'
  <2>1. now' \in Nat
    BY <1>7 DEF Tick, CountInv, CloudTypeOK
  <2> QED
    BY <1>4, <1>7, <2>1 DEF CountInv, CloudTypeOK
<1> QED
  BY <1>1, <1>2, <1>3, <1>5, <1>6, <1>7 DEF CloudNext, CloudStep, UserActs

LEMMA CountStutter == ASSUME CountInv, UNCHANGED cloudVars PROVE CountInv'
<1>1. UNCHANGED <<now, events, upload, closing>>
  BY DEF cloudVars
<1>2. ASSUME NEW c \in Cameras PROVE CountsAgree(c)'
  BY <1>1 DEF CountInv, CountsAgree, CountedOn, EventsOf, Events, Done
<1> QED
  BY <1>1, <1>2 DEF CountInv, CloudTypeOK, TargetRight, Events

LEMMA CountInvariant == CloudSpec => []CountInv
<1>1. CountInv /\ [CloudNext]_cloudVars => CountInv'
  BY CountStep, CountStutter
<1> QED
  BY <1>1, CountInit, PTL DEF CloudSpec

\* The types of the events collection, when only uploads, users and the auto-close
\* worker write it: what the worker has listed and what a handler has found is there.
THEOREM CloudTypeCorrect == CloudSpec => []CloudTypeOK
<1>1. CountInv => CloudTypeOK
  BY DEF CountInv
<1> QED
  BY <1>1, CountInvariant, PTL

\* Whatever handlers interleave on one camera, and whatever users and the auto-close
\* worker do meanwhile, the counts of a camera's events add up to the detections
\* create_or_update_incident has handled on it and the settings do not leave out.
THEOREM CountedOnceCorrect == CloudSpec => []EveryUploadCountedOnce
<1>1. CountInv => EveryUploadCountedOnce
  BY DEF CountInv, CountsAgree, EveryUploadCountedOnce
<1> QED
  BY <1>1, CountInvariant, PTL
-------------------------------------------------------------------------------
(* When a detection is given an event of its own *)

\* A handler that is about to insert and was not overtaken is right in what it found: no
\* open event it looked for is within the window.
FoundRight ==
  \A u \in Inserting \ overtaken : \A v \in Together(u) :
    upload[u].at - events[v].start > CloudWindow

\* No event's start is written again.
LEMMA StartsKept ==
  ASSUME CloudTypeOK, CloudNext
  PROVE  \A v \in Events : events'[v].start = events[v].start
<1>1. events \in [EventIds -> Event] /\ Events \subseteq EventIds
  BY DEF CloudTypeOK, Events
<1>2. ASSUME NEW u \in Uploads, FindOpenEvent(u) \/ UpdateEvent(u) \/ InsertEvent(u)
      PROVE  \A v \in Events : events'[v].start = events[v].start
  <2>1. CASE FindOpenEvent(u)
    BY <2>1 DEF FindOpenEvent
  <2>2. CASE UpdateEvent(u)
    <3>1. PICK t : events' = [events EXCEPT ![t].count = @ + 1]
      BY <2>2 DEF UpdateEvent
    <3>2. ASSUME NEW v \in Events PROVE events'[v].start = events[v].start
      <4>1. PICK d \in Event : d = events[v]
        BY <1>1
      <4>2. events'[v] \in {d, [d EXCEPT !.count = @ + 1]}
        BY <1>1, <3>1, <4>1
      <4> QED
        BY <4>1, <4>2 DEF Event
    <3> QED
      BY <3>2
  <2>3. CASE InsertEvent(u)
    <3>1. PICK t, e : t \in EventIds \ Events /\ events' = [events EXCEPT ![t] = e]
      BY <2>3 DEF InsertEvent, Insert
    <3> QED
      BY <1>1, <3>1
  <2> QED
    BY <1>2, <2>1, <2>2, <2>3
<1>3. ASSUME NEW w \in EventIds, AcknowledgeEvent(w) \/ ResolveEvent(w) \/ AutoResolve(w)
      PROVE  \A v \in Events : events'[v].start = events[v].start
  BY <1>1, <1>3 DEF AcknowledgeEvent, ResolveEvent, AutoResolve, Event
<1>4. CASE \/ ListStale \/ (Tick /\ UNCHANGED <<events, upload, closing>>)
           \/ \E u \in Uploads : LeaveOut(u) \/ TooMild(u)
  BY <1>4 DEF ListStale, LeaveOut, TooMild
<1> QED
  BY <1>2, <1>3, <1>4 DEF CloudNext, CloudStep, UserActs

\* A handler that has just found nothing is right about it; the other ones stay as they are.
LEMMA HandlersKept ==
  ASSUME CloudTypeOK, CloudNext, NEW u \in Inserting'
  PROVE  \/ u \in Inserting /\ upload'[u] = upload[u]
         \/ /\ UNCHANGED events /\ u \notin Inserting
            /\ \A v \in Joinable(u, upload'[u].apart) : upload'[u].at - events[v].start > CloudWindow
            /\ upload'[u].cam = upload[u].cam /\ upload'[u].cls = upload[u].cls
<1> DEFINE Right == /\ \A v \in Joinable(u, upload'[u].apart) :
                         upload'[u].at - events[v].start > CloudWindow
                    /\ upload'[u].cam = upload[u].cam /\ upload'[u].cls = upload[u].cls
<1>1. upload \in [Uploads -> Upload] /\ u \in Uploads
  BY DEF CloudTypeOK, Inserting
<1>2. ASSUME NEW w \in Uploads, FindOpenEvent(w)
      PROVE  \/ u \in Inserting /\ upload'[u] = upload[u]
             \/ UNCHANGED events /\ u \notin Inserting /\ Right
  <2>1. CASE u # w
    BY <1>1, <1>2, <2>1 DEF FindOpenEvent, Inserting
  <2>2. CASE u = w
    <3>1. upload[u].pc = "waiting" /\ UNCHANGED events
      BY <1>2, <2>2 DEF FindOpenEvent
    <3>2. PICK a \in BOOLEAN :
            \/ \E v \in EventIds :
                 upload' = [upload EXCEPT ![u].pc = "found", ![u].at = now, ![u].apart = a,
                                         ![u].target = v]
            \/ /\ \A v \in Joinable(u, a) : now - events[v].start > CloudWindow
               /\ upload' = [upload EXCEPT ![u].pc = "found", ![u].at = now, ![u].apart = a]
      BY <1>2, <2>2 DEF FindOpenEvent
    <3>3. CASE \E v \in EventIds :
                 upload' = [upload EXCEPT ![u].pc = "found", ![u].at = now, ![u].apart = a,
                                         ![u].target = v]
      BY <1>1, <3>3, CloudAssumption DEF Inserting, Upload, NoEvent
    <3>4. CASE /\ \A v \in Joinable(u, a) : now - events[v].start > CloudWindow
               /\ upload' = [upload EXCEPT ![u].pc = "found", ![u].at = now, ![u].apart = a]
      <4>1. /\ upload'[u].cam = upload[u].cam /\ upload'[u].at = now
            /\ upload'[u].cls = upload[u].cls /\ upload'[u].apart = a
        BY <1>1, <3>4 DEF Upload
      <4>2. Right
        BY <3>4, <4>1
      <4> QED
        BY <3>1, <4>2 DEF Inserting
    <3> QED
      BY <3>2, <3>3, <3>4
  <2> QED
    BY <2>1, <2>2
<1>3. ASSUME NEW w \in Uploads, NEW s \in {"done", "skipped"},
             upload' = [upload EXCEPT ![w].pc = s]
      PROVE  u \in Inserting /\ upload'[u] = upload[u]
  <2>1. u # w
    BY <1>1, <1>3 DEF Inserting, Upload
  <2> QED
    BY <1>1, <1>3, <2>1 DEF Inserting
<1>4. CASE UNCHANGED upload
  BY <1>1, <1>4 DEF Inserting
<1>5. ASSUME NEW w \in Uploads, UpdateEvent(w) \/ InsertEvent(w) \/ LeaveOut(w) \/ TooMild(w)
      PROVE  u \in Inserting /\ upload'[u] = upload[u]
  BY <1>3, <1>5 DEF UpdateEvent, InsertEvent, LeaveOut, TooMild
<1> QED
  BY <1>2, <1>4, <1>5 DEF CloudNext, CloudStep, UserActs, AcknowledgeEvent, ResolveEvent,
                          ListStale, AutoResolve

LEMMA GroupingStep ==
  ASSUME CountInv, FoundRight, [GroupingNext]_groupingVars
  PROVE  CountInv' /\ FoundRight'
<1>1. [CloudNext]_cloudVars
  BY DEF GroupingNext, groupingVars
<1>2. CountInv' /\ CloudTypeOK
  BY <1>1, CountStep, CountStutter DEF CountInv
<1>3. CASE UNCHANGED groupingVars
  <2>1. UNCHANGED <<events, upload, overtaken>>
    BY <1>3 DEF groupingVars, cloudVars
  <2>2. FoundRight'
    BY <2>1 DEF FoundRight, Inserting, Together, Joinable, OpenOn, Open, Events
  <2> QED
    BY <1>2, <2>2
<1>4. CASE GroupingNext
  <2> SUFFICES ASSUME NEW u \in Inserting', u \notin overtaken', NEW v \in Together(u)'
               PROVE  upload'[u].at - events'[v].start > CloudWindow
    BY <1>2 DEF FoundRight
  <2>1. CloudNext /\ overtaken' = { w \in Inserting \cap Inserting' :
            w \in overtaken \/ (Together(w))' \ Together(w) # {} }
    BY <1>4 DEF GroupingNext
  <2>2. CASE u \in Inserting /\ upload'[u] = upload[u]
    <3>1. u \notin overtaken /\ (Together(u))' \ Together(u) = {}
      BY <2>1, <2>2
    <3>2. v \in Together(u)
      BY <3>1
    <3>3. events'[v].start = events[v].start
      BY <1>2, <2>1, <3>2, StartsKept DEF Together, Joinable, OpenOn, Open
    <3> QED
      BY <2>2, <3>1, <3>2, <3>3 DEF FoundRight
  <2>3. CASE /\ UNCHANGED events
             /\ \A w \in Joinable(u, upload'[u].apart) :
                  upload'[u].at - events[w].start > CloudWindow
             /\ upload'[u].cam = upload[u].cam /\ upload'[u].cls = upload[u].cls
    <3>1. v \in Joinable(u, upload'[u].apart)
      BY <2>3 DEF Together, Joinable, OpenOn, Open, Events
    <3> QED
      BY <2>3, <3>1
  <2> QED
    BY <1>2, <2>1, <2>2, <2>3, HandlersKept
<1> QED
  BY <1>3, <1>4

LEMMA GroupingInitInv == ASSUME GroupingInit PROVE CountInv /\ FoundRight
BY CountInit DEF GroupingInit, CloudInit, FoundRight, Inserting

\* For any number of uploads, cameras, classes, users, changes of the overrides and runs of
\* the auto-close worker: a detection that was not overtaken between its find and its insert
\* opens an event only if every open event it was to be grouped with had left the grouping
\* window when it came (create_or_update_incident).
THEOREM OnlyOvertakenSplitCorrect == GroupingSpec => OnlyOvertakenSplit
<1> DEFINE Split == \A u \in Inserting \ (Inserting' \cup overtaken) :
                      \A v \in Together(u) : upload[u].at - events[v].start > CloudWindow
<1>1. CountInv /\ FoundRight /\ [GroupingNext]_groupingVars => [Split]_groupingVars
  BY DEF FoundRight
<1>2. CountInv /\ FoundRight /\ [GroupingNext]_groupingVars => (CountInv /\ FoundRight)'
  BY GroupingStep
<1>3. GroupingInit => CountInv /\ FoundRight
  BY GroupingInitInv
<1> HIDE DEF Split
<1>4. GroupingSpec => [][Split]_groupingVars
  BY <1>1, <1>2, <1>3, PTL DEF GroupingSpec
<1> QED
  BY <1>4 DEF Split, OnlyOvertakenSplit
===============================================================================
