------------------------------- MODULE Registration -------------------------------
(***************************************************************************)
(* Cameras and devices exist twice: in the agent's files, kept by          *)
(* agent/local_config.py, and as documents of the cloud.  They are added   *)
(* at the edge's own page and registered with the cloud, or added in the   *)
(* cloud, which tells the edge.  agent/camera_manager.py and               *)
(* agent/device_manager.py register what is not registered at a start;     *)
(* a loop of main.py retries failed registrations of cameras only.         *)
(***************************************************************************)
EXTENDS Naturals, Sequences, FiniteSets

CONSTANTS
  Items,       \* identifiers the edge may give to cameras and devices
  CameraItems, \* those of them that are cameras
  MaxDocs,     \* documents beyond which the cloud adds none by itself
  MaxMisses,   \* bound on calls that fail, late or never handled
  MaxRestarts  \* bound on restarts of the agent

NoItem == "no item"
ASSUME RegistrationAssumption ==
  /\ CameraItems \subseteq Items /\ NoItem \notin Items
  /\ {MaxDocs, MaxMisses, MaxRestarts} \subseteq Nat

VARIABLES
  local,    \* "new", "here" or "gone": the items in the agent's files
  link,     \* cloud_camera_id or cloud_device_id, 0 if none
  docs,     \* the cloud's documents in the order of their insertion
  call,     \* the registration the agent waits for, and one it gave up on
  pending,  \* _pending_registrations and DeviceManager._pending
  round,    \* what the round of registrations still has to deal with
  starting, \* sync_all_cameras and sync_all_devices before the servers start
  telling,  \* items of the cloud the edge is still to be told: <<document, item>>
  dropping, \* deleted devices the edge is still to be told of
  controlled, \* the devices the controllers know
  misses, restarts

registrationVars == <<local, link, docs, call, pending, round, starting, telling,
                      dropping, controlled, misses, restarts>>

Devices == Items \ CameraItems
Here == {i \in Items : local[i] = "here"}
Calls == {"own", "late"}

RegistrationTypeOK ==
  /\ local \in [Items -> {"new", "here", "gone"}]
  /\ link \in [Items -> 0 .. Len(docs)]
  /\ \A d \in DOMAIN docs : docs[d] \in [item : Items \cup {NoItem},
                                         status : {"registered", "removed", "deleted"}]
  /\ call \in [Items -> [Calls -> {"none", "sent", "looked"}]]
  /\ pending \subseteq Items /\ round \subseteq Items
  /\ starting \in BOOLEAN
  /\ telling \subseteq (1 .. Len(docs)) \X Items /\ dropping \subseteq DOMAIN docs
  /\ controlled \subseteq Devices
  /\ misses \in 0 .. MaxMisses /\ restarts \in 0 .. MaxRestarts

RegistrationInit ==
  /\ local = [i \in Items |-> "new"]
  /\ link = [i \in Items |-> 0]
  /\ docs = <<>>
  /\ call = [i \in Items |-> [c \in Calls |-> "none"]]
  /\ pending = {} /\ round = {} /\ starting = FALSE
  /\ telling = {} /\ dropping = {} /\ controlled = {}
  /\ misses = 0 /\ restarts = 0

\* reload_from_config: without any device left, the old list stays
Reloaded(here) == IF here \cap Devices = {} THEN controlled ELSE here \cap Devices

-------------------------------------------------------------------------------
(* The agent *)

\* add_camera and add_device of the web page: saved, then registered
AddLocal(i) ==
  /\ ~starting /\ local[i] = "new"
  /\ local' = [local EXCEPT ![i] = "here"]
  /\ call' = [call EXCEPT ![i]["own"] = "sent"]
  /\ controlled' = Reloaded(Here \cup {i})
  /\ UNCHANGED <<link, docs, pending, round, starting, telling, dropping, misses, restarts>>

\* remove_camera and remove_device: a linked item is unregistered first, and
\* removed whatever comes of that
RemoveLocal(i, answered) ==
  /\ ~starting /\ i \in Here
  /\ IF link[i] = 0
     THEN answered /\ UNCHANGED <<docs, misses>>
     ELSE IF answered
     THEN docs' = [docs EXCEPT ![link[i]].status = "removed"] /\ UNCHANGED misses
     ELSE misses < MaxMisses /\ misses' = misses + 1 /\ UNCHANGED docs
  /\ local' = [local EXCEPT ![i] = "gone"]
  /\ controlled' = Reloaded(Here \ {i})
  /\ UNCHANGED <<link, call, pending, round, starting, telling, dropping, restarts>>

\* camera_registration_retry_loop takes the list of cameras over and clears it;
\* nothing takes over the list of devices
RetryRound ==
  /\ ~starting /\ round = {}
  /\ pending \cap CameraItems # {}
  /\ round' = pending \cap CameraItems
  /\ pending' = pending \ CameraItems
  /\ UNCHANGED <<local, link, docs, call, starting, telling, dropping, controlled, misses, restarts>>

\* A round registers one item after the other, skipping what is linked or gone
RegisterNext(i) ==
  /\ i \in round
  /\ \A j \in round : call[j]["own"] = "none"
  /\ IF i \in Here /\ link[i] = 0
     THEN call' = [call EXCEPT ![i]["own"] = "sent"] /\ UNCHANGED round
     ELSE round' = round \ {i} /\ UNCHANGED call
  /\ UNCHANGED <<local, link, docs, pending, starting, telling, dropping, controlled, misses, restarts>>

ServersStart ==
  /\ starting /\ round = {}
  /\ starting' = FALSE
  /\ UNCHANGED <<local, link, docs, call, pending, round, telling, dropping, controlled, misses, restarts>>

\* The answer arrives: the id is stored, unless the item was removed meanwhile
LinkStored(i, d) ==
  /\ link' = IF i \in Here THEN [link EXCEPT ![i] = d] ELSE link
  /\ round' = round \ {i}

\* (mutant) the failed registration is not remembered
StopTrying_Forgotten(i, handledLater) ==
  /\ call[i]["own"] # "none" /\ misses < MaxMisses
  /\ misses' = misses + 1
  /\ IF handledLater
     THEN call[i]["late"] = "none" /\ call' = [call EXCEPT ![i] = [own |-> "none", late |-> @["own"]]]
     ELSE call' = [call EXCEPT ![i]["own"] = "none"]
  /\ round' = round \ {i}
  /\ UNCHANGED <<local, link, docs, pending, starting, telling, dropping, controlled, restarts>>
\* The call fails or times out; its request may still be handled
StopTrying(i, handledLater) ==
  /\ call[i]["own"] # "none" /\ misses < MaxMisses
  /\ misses' = misses + 1
  /\ IF handledLater
     THEN call[i]["late"] = "none" /\ call' = [call EXCEPT ![i] = [own |-> "none", late |-> @["own"]]]
     ELSE call' = [call EXCEPT ![i]["own"] = "none"]
  /\ pending' = pending \cup {i}
  /\ round' = round \ {i}
  /\ UNCHANGED <<local, link, docs, starting, telling, dropping, controlled, restarts>>

\* The agent ends and starts again: lists and calls are gone, requests go on,
\* and everything unlinked is registered before the servers come up
Restart ==
  /\ restarts < MaxRestarts /\ restarts' = restarts + 1
  /\ call' = [i \in Items |-> [own |-> "none",
                late |-> IF call[i]["late"] = "none" THEN call[i]["own"] ELSE call[i]["late"]]]
  /\ pending' = {}
  /\ round' = {i \in Here : link[i] = 0}
  /\ starting' = TRUE
  /\ controlled' = Here \cap Devices
  /\ UNCHANGED <<local, link, docs, telling, dropping, misses>>

-------------------------------------------------------------------------------
(* The cloud *)

\* (mutant) the query leaves the item out
DocsOf_Any(i) == DOMAIN docs
DocsOf(i) == {d \in DOMAIN docs : docs[d].item = i}

\* register_edge_camera and register_edge_device look for a document of the item,
\* in any status, and take it up again ...
Lookup(i, c) ==
  /\ call[i][c] = "sent"
  /\ IF DocsOf(i) = {}
     THEN /\ call' = [call EXCEPT ![i][c] = "looked"]
          /\ UNCHANGED <<docs, link, round>>
     ELSE \E d \in DocsOf(i) :
          /\ docs' = [docs EXCEPT ![d].status = "registered"]
          /\ call' = [call EXCEPT ![i][c] = "none"]
          /\ IF c = "own" THEN LinkStored(i, d) ELSE UNCHANGED <<link, round>>
  /\ UNCHANGED <<local, pending, starting, telling, dropping, controlled, misses, restarts>>

\* ... or insert one
InsertDocument(i, c) ==
  /\ call[i][c] = "looked"
  /\ docs' = Append(docs, [item |-> i, status |-> "registered"])
  /\ call' = [call EXCEPT ![i][c] = "none"]
  /\ IF c = "own" THEN LinkStored(i, Len(docs) + 1) ELSE UNCHANGED <<link, round>>
  /\ UNCHANGED <<local, pending, starting, telling, dropping, controlled, misses, restarts>>

\* add_camera_via_edge and add_device_via_edge: the document names no item
AddInCloud(i) ==
  /\ local[i] = "new" /\ Len(docs) < MaxDocs
  /\ \A t \in telling : t[2] # i
  /\ docs' = Append(docs, [item |-> NoItem, status |-> "registered"])
  /\ telling' = telling \cup {<<Len(docs) + 1, i>>}
  /\ UNCHANGED <<local, link, call, pending, round, starting, dropping, controlled, misses, restarts>>

\* add_camera_from_cloud and add_device_from_cloud save the item with its link; an
\* error is swallowed by the cloud
TellEdge(t, reached) ==
  /\ t \in telling
  /\ telling' = telling \ {t}
  /\ LET i == t[2] IN
     IF reached /\ ~starting
     THEN /\ local[i] = "new"
          /\ local' = [local EXCEPT ![i] = "here"]
          /\ link' = [link EXCEPT ![i] = t[1]]
          /\ controlled' = Reloaded(Here \cup {i})
          /\ UNCHANGED misses
     ELSE /\ starting \/ misses < MaxMisses
          /\ misses' = IF starting THEN misses ELSE misses + 1
          /\ UNCHANGED <<local, link, controlled>>
  /\ UNCHANGED <<docs, call, pending, round, starting, dropping, restarts>>

\* delete_device of the cloud: the edge is told if the document names an item
DeleteDevice(d) ==
  /\ docs[d].status # "deleted"
  /\ docs[d].item \in Devices \/ \E i \in Devices : link[i] = d
  /\ docs' = [docs EXCEPT ![d].status = "deleted"]
  /\ dropping' = IF docs[d].item = NoItem THEN dropping ELSE dropping \cup {d}
  /\ UNCHANGED <<local, link, call, pending, round, starting, telling, controlled, misses, restarts>>

\* remove_device_from_cloud
DropAtEdge(d, reached) ==
  /\ d \in dropping
  /\ dropping' = dropping \ {d}
  /\ IF reached /\ ~starting
     THEN /\ local' = [local EXCEPT ![docs[d].item] = "gone"]
          /\ controlled' = Reloaded(Here \ {docs[d].item})
          /\ UNCHANGED misses
     ELSE /\ misses < MaxMisses /\ misses' = misses + 1
          /\ UNCHANGED <<local, controlled>>
  /\ UNCHANGED <<link, docs, call, pending, round, starting, telling, restarts>>

RegistrationNext ==
  \/ \E i \in Items :
       \/ AddLocal(i)
       \/ \E answered \in BOOLEAN : RemoveLocal(i, answered)
       \/ RegisterNext(i)
       \/ \E later \in BOOLEAN : StopTrying(i, later)
       \/ \E c \in Calls : Lookup(i, c) \/ InsertDocument(i, c)
       \/ AddInCloud(i)
  \/ RetryRound \/ ServersStart \/ Restart
  \/ \E t \in telling, reached \in BOOLEAN : TellEdge(t, reached)
  \/ \E d \in DOMAIN docs : DeleteDevice(d)
  \/ \E d \in dropping, reached \in BOOLEAN : DropAtEdge(d, reached)

\* The loop runs and the cloud answers in the end
RegistrationFairness ==
  /\ WF_registrationVars(RetryRound) /\ WF_registrationVars(ServersStart)
  /\ \A i \in Items :
       /\ WF_registrationVars(RegisterNext(i))
       /\ \A c \in Calls :
            /\ WF_registrationVars(Lookup(i, c))
            /\ WF_registrationVars(InsertDocument(i, c))

RegistrationSpec ==
  RegistrationInit /\ [][RegistrationNext]_registrationVars /\ RegistrationFairness
-------------------------------------------------------------------------------
(* Properties *)

\* An item's link leads to its own document or to one the cloud made for it, and no
\* two items share a document, however often registrations are repeated.
LinksAreOwn ==
  \A i \in Items : link[i] # 0 =>
    /\ docs[link[i]].item \in {i, NoItem}
    /\ \A j \in Items \ {i} : link[j] # link[i]

\* Nothing the agent has is forgotten before it is linked: a registration of it is under
\* way, its turn of the round is still to come, or it is on a list of what failed.
UnlinkedInHand ==
  \A i \in Here : \/ link[i] # 0 \/ call[i]["own"] # "none"
                  \/ i \in pending \cup round

\* Every camera added at the edge is known to the cloud some day or is removed,
\* whatever failed before.
EveryCameraLinked ==
  \A i \in CameraItems : local[i] = "here" ~> (link[i] # 0 \/ local[i] = "gone")
===============================================================================
