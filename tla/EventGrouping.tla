----------------------------- MODULE EventGrouping -----------------------------
(***************************************************************************)
(* The grouping of uploaded detections into the events of CloudEvents,     *)
(* with the one circumstance in which create_or_update_incident            *)
(* (backend/app/services/incident_service.py) does not group: its find and *)
(* its insert are two awaited operations, and what comes between them is   *)
(* not seen.  The history variable says for which handlers it came.        *)
(***************************************************************************)
EXTENDS CloudEvents

\* Handlers that have found no event to join, since when one they could join was
\* inserted by another handler, or was closed and has been acknowledged
VARIABLE overtaken

groupingVars == <<cloudVars, overtaken>>

GroupingInit == CloudInit /\ overtaken = {}

\* The events that handler u looked for
Together(u) == Joinable(u, upload[u].apart)

Inserting == {u \in Uploads : upload[u].pc = "found" /\ upload[u].target = NoEvent}

GroupingNext ==
  /\ CloudNext
  /\ overtaken' = { u \in Inserting \cap Inserting' :
                      u \in overtaken \/ (Together(u))' \ Together(u) # {} }

GroupingSpec == GroupingInit /\ [][GroupingNext]_groupingVars

\* A detection opens an event beside an open one it is to be grouped with (of its own
\* class, if that was grouped separately when it came) and that is still within the
\* window, at most when it was overtaken between its find and its insert: the clock, the
\* auto-close worker and what else happens to the camera's events never part them.
OnlyOvertakenSplit ==
  [][\A u \in Inserting \ (Inserting' \cup overtaken) :
       \A v \in Together(u) : upload[u].at - events[v].start > CloudWindow]_groupingVars
=============================================================================
