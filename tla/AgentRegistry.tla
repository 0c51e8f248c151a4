------------------------------ MODULE AgentRegistry ------------------------------
(***************************************************************************)
(* The registry of edge agents in services/edge_service.py: provisioning,  *)
(* registration, heartbeats, deletion, and the health worker that marks    *)
(* silent agents offline.  The worker first lists the silent agents and    *)
(* then updates them one by one, by their id only, while heartbeats go on. *)
(***************************************************************************)
EXTENDS Naturals, FiniteSets

CONSTANTS
  AgentIds,
  Silence,    \* EDGE_AGENT_STALE_THRESHOLD_MINUTES
  Horizon     \* ages beyond it are not told apart

ASSUME RegistryAssumption == Silence \in Nat /\ Horizon \in Nat /\ Horizon > Silence

VARIABLES
  storeActive,  \* the store's is_active
  doc,          \* the agents' documents: [status, age of last_heartbeat, cameras linked]
  alive,        \* processes that run and hold a valid token
  listed,       \* agents the health worker has listed and not updated yet
  unbroken      \* agents that, since they reported on an offline document, neither were
                \* silent for longer than Silence nor reported while they were listed

registryVars == <<storeActive, doc, alive, listed, unbroken>>

Absent == [status |-> "absent", age |-> 0, linked |-> FALSE]
Ages == 0 .. Horizon

RegistryTypeOK ==
  /\ storeActive \in BOOLEAN
  /\ doc \in [AgentIds -> [status : {"absent", "offline", "online", "deleting"},
                           age : Ages, linked : BOOLEAN]]
  /\ alive \subseteq AgentIds /\ listed \subseteq AgentIds /\ unbroken \subseteq AgentIds

RegistryInit ==
  /\ storeActive = TRUE
  /\ doc = [a \in AgentIds |-> Absent]
  /\ alive = {} /\ listed = {} /\ unbroken = {}

Enrolled == {a \in AgentIds : doc[a].status \in {"offline", "online"}}

\* provision_agent: the store must be active; last_heartbeat is null, which no
\* query for an old one matches
Provision(a) ==
  /\ storeActive /\ doc[a].status = "absent"
  /\ doc' = [doc EXCEPT ![a] = [status |-> "offline", age |-> 0, linked |-> FALSE]]
  /\ UNCHANGED <<storeActive, alive, listed, unbroken>>

StoreChanges ==
  /\ storeActive' = ~storeActive
  /\ UNCHANGED <<doc, alive, listed, unbroken>>

\* (mutant) a heartbeat sets its time only
Reports_TimeOnly(a) ==
  /\ doc' = [doc EXCEPT ![a].age = 0]
  /\ UNCHANGED unbroken
\* register_agent and process_heartbeat set the same two fields
Reports(a) ==
  /\ doc' = [doc EXCEPT ![a].status = "online", ![a].age = 0]
  /\ unbroken' = IF a \in listed THEN unbroken \ {a}
                 ELSE IF doc[a].status = "offline" THEN unbroken \cup {a} ELSE unbroken

\* The agent starts, registers, and its cameras are linked to it
Register(a) ==
  /\ a \in Enrolled \ alive
  /\ alive' = alive \cup {a}
  /\ doc' = [doc EXCEPT ![a] = [status |-> "online", age |-> 0, linked |-> TRUE]]
  /\ unbroken' = IF doc[a].status = "offline" /\ a \notin listed THEN unbroken \cup {a} ELSE unbroken
  /\ UNCHANGED <<storeActive, listed>>

Heartbeat(a) ==
  /\ a \in Enrolled \cap alive
  /\ Reports(a)
  /\ UNCHANGED <<storeActive, alive, listed>>

Die(a) ==
  /\ a \in alive
  /\ alive' = alive \ {a}
  /\ UNCHANGED <<storeActive, doc, listed, unbroken>>

\* (mutant) one minute early
ListSilent_Early ==
  /\ listed = {}
  /\ listed' = {a \in Enrolled : doc[a].status = "online" /\ doc[a].age >= Silence}
  /\ listed' # {}
  /\ UNCHANGED <<storeActive, doc, alive, unbroken>>
\* mark_stale_agents_offline: the query ...
ListSilent ==
  /\ listed = {}
  /\ listed' = {a \in Enrolled : doc[a].status = "online" /\ doc[a].age > Silence}
  /\ listed' # {}
  /\ UNCHANGED <<storeActive, doc, alive, unbroken>>

\* ... and one update after the other
MarkOffline(a) ==
  /\ a \in listed
  /\ listed' = listed \ {a}
  /\ doc' = IF a \in Enrolled THEN [doc EXCEPT ![a].status = "offline"] ELSE doc
  /\ UNCHANGED <<storeActive, alive, unbroken>>

\* delete_agent: the document goes first, the cameras are unlinked after it
DeleteDoc(a) ==
  /\ a \in Enrolled
  /\ doc' = [doc EXCEPT ![a].status = "deleting", ![a].age = 0]
  /\ unbroken' = unbroken \ {a}
  /\ UNCHANGED <<storeActive, alive, listed>>
Unlink(a) ==
  /\ doc[a].status = "deleting"
  /\ doc' = [doc EXCEPT ![a] = Absent]
  /\ UNCHANGED <<storeActive, alive, listed, unbroken>>

\* Time passes for every last_heartbeat
Age ==
  /\ doc' = [a \in AgentIds |->
       IF doc[a].status = "online" /\ doc[a].age < Horizon
       THEN [doc[a] EXCEPT !.age = @ + 1] ELSE doc[a]]
  /\ doc' # doc
  /\ unbroken' = {a \in unbroken : doc'[a].age <= Silence}
  /\ UNCHANGED <<storeActive, alive, listed>>

RegistryNext ==
  \/ \E a \in AgentIds :
       \/ Provision(a) \/ Register(a) \/ Heartbeat(a) \/ Die(a)
       \/ MarkOffline(a) \/ DeleteDoc(a) \/ Unlink(a)
  \/ StoreChanges \/ ListSilent \/ Age

\* Celery beat runs the health check every minute and time passes; a running agent
\* sends heartbeats
RegistryFairness ==
  /\ WF_registryVars(Age) /\ WF_registryVars(ListSilent)
  /\ \A a \in AgentIds :
       /\ WF_registryVars(MarkOffline(a)) /\ WF_registryVars(Heartbeat(a))
       /\ WF_registryVars(Unlink(a))

RegistrySpec == RegistryInit /\ [][RegistryNext]_registryVars /\ RegistryFairness
-------------------------------------------------------------------------------
(* Properties *)

\* The worker never reports an agent offline that has sent its heartbeats in time,
\* although it updates agents it listed earlier without looking again; one that was
\* silent and reports again while it is on that list is excepted.
BeatingIsOnline == \A a \in unbroken \cap Enrolled : doc[a].status = "online"

\* An agent whose process ends for good is shown offline (or is deleted) for good,
\* and one that runs for good is shown online again and again.
StatusFollowsProcess ==
  \A a \in AgentIds :
    /\ <>[](a \notin alive) => <>[](doc[a].status # "online")
    /\ <>[](a \in alive \cap Enrolled) => []<>(doc[a].status = "online")
===============================================================================
