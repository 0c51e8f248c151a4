---------------------------- MODULE EdgeIncidents ----------------------------
(***************************************************************************)
(* The edge agent's local incident store: the SQLite table `incidents`     *)
(* (edge-agent/agent/incident_db.py) and the grouping logic on top of it   *)
(* (edge-agent/agent/incident_manager.py).                                 *)
(*                                                                         *)
(* Every function of incident_db runs under one lock, and the grouping     *)
(* function create_or_update_incident has no await in it, so each          *)
(* operation is one atomic action.  A row keeps what the operations and    *)
(* the cloud synchronisation tell apart: status, camera, top class, start  *)
(* time, detection count and the synced_to_cloud flag.  Confidence, area   *)
(* and severity are left out: `update_incident` only takes their maximum.  *)
(*                                                                         *)
(* Incident ids are allocated in creation order, so that the code's        *)
(* ORDER BY created_at / start_time is the order of the ids.               *)
(***************************************************************************)
EXTENDS Common

CONSTANTS
  SeparateClasses,  \* classes whose override sets incident_grouping_separate
  MaxDetections,    \* bound on the detection count of one incident
  GroupingWindow,   \* incident_grouping_window_seconds, in clock ticks
  EdgeAutoClose,    \* auto_close_after_minutes, in clock ticks; 0 disables it
  MaxAge,           \* LOCAL_INCIDENT_MAX_AGE_DAYS, in clock ticks
  MaxCount          \* LOCAL_INCIDENT_MAX_COUNT

ASSUME EdgeAssumption ==
  /\ SeparateClasses \subseteq Classes
  /\ MaxDetections \in Nat /\ GroupingWindow \in Nat /\ EdgeAutoClose \in Nat
  /\ MaxAge \in Nat /\ MaxCount \in Nat

VARIABLES
  used,  \* the incident ids already allocated (deleted rows included)
  db     \* IncIds -> row; a row of status "none" is not in the table

edgeVars == <<now, used, db>>

EdgeStatus == {"new", "acknowledged", "resolved", "auto_resolved"}

Row == [status: EdgeStatus \union {"none"}, cam: Cameras, cls: Classes,
        start: Nat, count: Nat, synced: BOOLEAN]

NoRow == [status |-> "none", cam |-> CHOOSE c \in Cameras : TRUE,
          cls |-> CHOOSE k \in Classes : TRUE,
          start |-> 0, count |-> 0, synced |-> FALSE]

Stored == {i \in IncIds : db[i].status # "none"}
Unsynced == {i \in Stored : ~db[i].synced}

EdgeInit ==
  /\ now = 0
  /\ used = {}
  /\ db = [i \in IncIds |-> NoRow]

-----------------------------------------------------------------------------
(* incident_manager.create_or_update_incident *)

\* find_open_incident: rows still "new" of this camera, of this class only when
\* the class is grouped separately
OpenRows(c, k) ==
  {i \in Stored : /\ db[i].status = "new" /\ db[i].cam = c
                  /\ k \in SeparateClasses => db[i].cls = k}

\* ... ORDER BY start_time DESC LIMIT 1
LatestOpen(c, k, i) == i \in OpenRows(c, k) /\ \A j \in OpenRows(c, k) : j <= i

\* (mutant) elapsed < grouping_window
WithinWindow_Strict(i) == now - db[i].start < GroupingWindow

WithinWindow(i) == now - db[i].start <= GroupingWindow

\* A wet detection of class k on camera c joins the latest open incident ...
GroupDetection(c, k) ==
  \E i \in IncIds :
    /\ LatestOpen(c, k, i) /\ WithinWindow(i)
    /\ db[i].count < MaxDetections
    /\ db' = [db EXCEPT ![i].count = @ + 1, ![i].synced = FALSE]
    /\ UNCHANGED <<now, used>>

\* ... or, when there is none or it has left the window, opens a new one
OpenIncident(c, k) ==
  /\ \A i \in IncIds : LatestOpen(c, k, i) => ~WithinWindow(i)
  /\ \E i \in IncIds \ used :
       /\ \A j \in used : j < i
       /\ \A j \in IncIds \ used : i <= j
       /\ used' = used \union {i}
       /\ db' = [db EXCEPT ![i] = [status |-> "new", cam |-> c, cls |-> k,
                                   start |-> now, count |-> 1, synced |-> FALSE]]
  /\ UNCHANGED now

-----------------------------------------------------------------------------
(* The other writers of the table *)

\* config_receiver acknowledge_local_alert / resolve_local_alert through
\* incident_db.update_status: no check of the current status
UpdateStatus(i, s) ==
  /\ i \in Stored
  /\ db' = [db EXCEPT ![i].status = s, ![i].synced = FALSE]
  /\ UNCHANGED <<now, used>>

Stale(i) == db[i].status = "new" /\ now - db[i].start > EdgeAutoClose

\* auto_close_stale: one UPDATE over every stale row; synced_to_cloud is not
\* reset
AutoCloseStale ==
  /\ EdgeAutoClose > 0
  /\ \E i \in Stored : Stale(i)
  /\ db' = [i \in IncIds |-> IF Stale(i) THEN [db[i] EXCEPT !.status = "auto_resolved"]
                                         ELSE db[i]]
  /\ UNCHANGED <<now, used>>

TooOld(i) == i \in Stored /\ db[i].synced /\ now - db[i].start > MaxAge

\* The rows the count limit removes once the aged ones are gone: the oldest
\* synced ones, as many as the table is over the limit
OverCount ==
  LET kept   == {i \in Stored : ~TooOld(i)}
      excess == Cardinality(kept) - MaxCount
      syncedRows == {i \in kept : db[i].synced}
  IN  {i \in syncedRows : Cardinality({j \in syncedRows : j < i}) < excess}

\* cleanup: retention by age, then by count
Cleanup ==
  LET gone == {i \in Stored : TooOld(i)} \union OverCount
  IN /\ gone # {}
     /\ db' = [i \in IncIds |-> IF i \in gone THEN NoRow ELSE db[i]]
     /\ UNCHANGED <<now, used>>

\* (mutant) the UPDATE without its WHERE
MarkSynced_AllRows(S) ==
  /\ db' = [i \in IncIds |-> IF db[i].status # "none"
                             THEN [db[i] EXCEPT !.synced = TRUE] ELSE db[i]]
  /\ UNCHANGED <<now, used>>

\* mark_synced: unconditional, whatever happened to the rows since they were read
MarkSynced(S) ==
  /\ db' = [i \in IncIds |-> IF i \in S /\ db[i].status # "none"
                             THEN [db[i] EXCEPT !.synced = TRUE] ELSE db[i]]
  /\ UNCHANGED <<now, used>>

\* Every step of the agent on its table except the synchronisation
EdgeStep ==
  \/ \E c \in Cameras, k \in Classes : GroupDetection(c, k) \/ OpenIncident(c, k)
  \/ \E i \in IncIds, s \in {"acknowledged", "resolved"} : UpdateStatus(i, s)
  \/ AutoCloseStale
  \/ Cleanup

\* The table on its own: a synchronisation that confirms any set of rows
EdgeNext ==
  \/ EdgeStep
  \/ \E S \in SUBSET Unsynced : S # {} /\ MarkSynced(S)
  \/ Tick /\ UNCHANGED <<used, db>>

EdgeSpec == EdgeInit /\ [][EdgeNext]_edgeVars

-----------------------------------------------------------------------------
(* Properties *)

\* The types of the three variables; a row is stored only under an allocated id.
EdgeTypeOK ==
  /\ now \in Nat
  /\ used \subseteq IncIds
  /\ db \in [IncIds -> Row]
  /\ Stored \subseteq used

\* find_open_incident and the window test of create_or_update_incident: as long
\* as no class is grouped separately, two incidents of one camera that are both
\* still "new" never started within one grouping window of each other, so a
\* continuing spill is one incident and not several.
OneIncidentPerWindow ==
  \A i, j \in Stored :
    /\ i < j
    /\ db[i].status = "new" /\ db[j].status = "new"
    /\ db[i].cam = db[j].cam
    /\ db[j].cls \notin SeparateClasses
    => db[j].start - db[i].start > GroupingWindow

\* Ids follow time: the order in which get_unsynced and cleanup take the rows is
\* the order in which the incidents happened.
IdsFollowTime ==
  \A i, j \in Stored : i <= j => db[i].start <= db[j].start /\ db[j].start <= now

=============================================================================
