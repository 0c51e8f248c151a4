---------------------------- MODULE Registry_proofs ----------------------------
(***************************************************************************)
(* Theorems about what the cloud knows of its edge: the registry of agents *)
(* (BeatingIsOnline), and the cameras and devices that exist on both sides *)
(* (LinksAreOwn, UnlinkedInHand), for any number of agents and items,      *)
(* whatever calls fail or come late, and wherever heartbeats and the       *)
(* health worker interleave.  About workers that are started again: those  *)
(* that watch cameras (RemovedAreStopped), train models (TasksKept) and    *)
(* analyse videos (VideosInHand).  And about all of these side by side     *)
(* (NothingForgotten).                                                     *)
(***************************************************************************)
EXTENDS MCLiveness, TLAPS, SequenceTheorems

-------------------------------------------------------------------------------
(* The registry of agents *)

Document == [status : {"absent", "offline", "online", "deleting"}, age : Ages, linked : BOOLEAN]

\* Agents that never were silent are registered and online, their last heartbeat is
\* young enough not to be listed, and the worker holds none of them on an old list.
BeatingInv ==
  /\ RegistryTypeOK
  /\ \A a \in unbroken : doc[a].status = "online" /\ doc[a].age <= Silence
  /\ listed \cap unbroken = {}

\* One document changes: its agent is not among the unbroken, or is online and just heard.
LEMMA DocChange ==
  ASSUME BeatingInv, NEW a \in AgentIds, NEW d \in Document, doc' = [doc EXCEPT ![a] = d],
         unbroken' \subseteq unbroken \cup {a}, listed' \subseteq listed,
         a \in unbroken' => d.status = "online" /\ d.age <= Silence /\ a \notin listed',
         storeActive' \in BOOLEAN, alive' \subseteq AgentIds
  PROVE  BeatingInv'
<1>1. /\ doc \in [AgentIds -> Document] /\ unbroken \subseteq AgentIds /\ listed \subseteq AgentIds
  BY DEF BeatingInv, RegistryTypeOK, Document
<1>2. /\ doc' \in [AgentIds -> Document] /\ doc'[a] = d
      /\ \A b \in AgentIds \ {a} : doc'[b] = doc[b]
  BY <1>1
<1>3. RegistryTypeOK'
  BY <1>1, <1>2 DEF RegistryTypeOK, Document
<1>4. \A b \in unbroken' : doc'[b].status = "online" /\ doc'[b].age <= Silence
  BY <1>1, <1>2 DEF BeatingInv
<1>5. listed' \cap unbroken' = {}
  BY DEF BeatingInv
<1> QED
  BY <1>3, <1>4, <1>5 DEF BeatingInv

LEMMA RegistryInitInv ==
  ASSUME RegistryInit
  PROVE  BeatingInv
<1>1. 0 \in Ages
  BY RegistryAssumption DEF Ages
<1> QED
  BY <1>1 DEF RegistryInit, BeatingInv, RegistryTypeOK, Absent

LEMMA AgentStep ==
  ASSUME BeatingInv, NEW a \in AgentIds,
         Provision(a) \/ Register(a) \/ Heartbeat(a) \/ MarkOffline(a) \/ DeleteDoc(a) \/ Unlink(a)
  PROVE  BeatingInv'
<1>1. /\ doc \in [AgentIds -> Document] /\ doc[a] \in Document
      /\ unbroken \subseteq AgentIds /\ listed \subseteq AgentIds
      /\ alive \subseteq AgentIds /\ storeActive \in BOOLEAN
      /\ a \in unbroken => doc[a].status = "online" /\ doc[a].age <= Silence
      /\ a \in unbroken => a \notin listed
  BY DEF BeatingInv, RegistryTypeOK, Document
<1>2. 0 \in Ages /\ 0 <= Silence
  BY RegistryAssumption DEF Ages
<1>3. CASE Provision(a)
  <2>1. PICK d : d = [status |-> "offline", age |-> 0, linked |-> FALSE]
    OBVIOUS
  <2>2. d \in Document
    BY <1>2, <2>1 DEF Document
  <2>3. a \notin unbroken /\ doc' = [doc EXCEPT ![a] = d]
        /\ UNCHANGED <<storeActive, alive, listed, unbroken>>
    BY <1>1, <1>3, <2>1 DEF Provision
  <2> QED
    BY <1>1, <2>2, <2>3, DocChange
<1>4. CASE Register(a)
  <2>1. PICK d : d = [status |-> "online", age |-> 0, linked |-> TRUE]
    OBVIOUS
  <2>2. d \in Document /\ d.status = "online" /\ d.age <= Silence
    BY <1>2, <2>1 DEF Document
  <2>3. /\ doc' = [doc EXCEPT ![a] = d] /\ alive' = alive \cup {a}
        /\ UNCHANGED <<storeActive, listed>>
        /\ unbroken' = unbroken \/ (a \notin listed /\ unbroken' = unbroken \cup {a})
    BY <1>1, <1>4, <2>1 DEF Register
  <2> QED
    BY <1>1, <2>2, <2>3, DocChange
<1>5. CASE Heartbeat(a)
  <2>1. PICK d : d = [doc[a] EXCEPT !.status = "online", !.age = 0]
    OBVIOUS
  <2>2. d \in Document /\ d.status = "online" /\ d.age <= Silence
    BY <1>1, <1>2, <2>1 DEF Document
  <2>3. /\ doc' = [doc EXCEPT ![a] = d] /\ UNCHANGED <<storeActive, alive, listed>>
        /\ unbroken' \subseteq unbroken \cup {a} /\ (a \in unbroken' => a \notin listed)
    BY <1>1, <1>5, <2>1 DEF Heartbeat, Reports
  <2> QED
    BY <1>1, <2>2, <2>3, DocChange
<1>6. CASE MarkOffline(a)
  <2>1. PICK d : d = IF a \in Enrolled THEN [doc[a] EXCEPT !.status = "offline"] ELSE doc[a]
    OBVIOUS
  <2>2. d \in Document
    BY <1>1, <2>1 DEF Document
  <2>3. /\ doc' = [doc EXCEPT ![a] = d] /\ a \in listed /\ listed' = listed \ {a}
        /\ UNCHANGED <<storeActive, alive, unbroken>>
    BY <1>1, <1>6, <2>1 DEF MarkOffline
  <2> QED
    BY <1>1, <2>2, <2>3, DocChange
<1>7. CASE DeleteDoc(a)
  <2>1. PICK d : d = [doc[a] EXCEPT !.status = "deleting", !.age = 0]
    OBVIOUS
  <2>2. d \in Document
    BY <1>1, <1>2, <2>1 DEF Document
  <2>3. /\ doc' = [doc EXCEPT ![a] = d] /\ unbroken' = unbroken \ {a}
        /\ UNCHANGED <<storeActive, alive, listed>>
    BY <1>1, <1>7, <2>1 DEF DeleteDoc
  <2> QED
    BY <1>1, <2>2, <2>3, DocChange
<1>8. CASE Unlink(a)
  <2>1. PICK d : d = Absent
    OBVIOUS
  <2>2. d \in Document
    BY <1>2, <2>1 DEF Document, Absent
  <2>3. /\ doc' = [doc EXCEPT ![a] = d] /\ a \notin unbroken
        /\ UNCHANGED <<storeActive, alive, listed, unbroken>>
    BY <1>1, <1>8, <2>1 DEF Unlink
  <2> QED
    BY <1>1, <2>2, <2>3, DocChange
<1> QED
  BY <1>3, <1>4, <1>5, <1>6, <1>7, <1>8

LEMMA AgeStep ==
  ASSUME BeatingInv, Age
  PROVE  BeatingInv'
<1>1. /\ doc \in [AgentIds -> Document]
      /\ unbroken \subseteq AgentIds /\ listed \cap unbroken = {}
      /\ RegistryTypeOK
  BY DEF BeatingInv, RegistryTypeOK, Document
<1>2. ASSUME NEW b \in AgentIds
      PROVE  /\ doc'[b] \in Document /\ doc'[b].status = doc[b].status
  <2>1. PICK d \in Document : d = doc[b]
    BY <1>1
  <2>2. CASE d.status = "online" /\ d.age < Horizon
    <3>1. doc'[b] = [d EXCEPT !.age = d.age + 1]
      BY <2>1, <2>2 DEF Age
    <3>2. d.age + 1 \in Ages
      BY <2>2, RegistryAssumption DEF Document, Ages
    <3> QED
      BY <2>1, <3>1, <3>2 DEF Document
  <2>3. CASE ~(d.status = "online" /\ d.age < Horizon)
    BY <2>1, <2>3 DEF Age
  <2> QED
    BY <2>2, <2>3
<1>3. doc' \in [AgentIds -> Document]
  <2>1. PICK D : D = [a \in AgentIds |->
                        IF doc[a].status = "online" /\ doc[a].age < Horizon
                        THEN [doc[a] EXCEPT !.age = @ + 1] ELSE doc[a]]
    OBVIOUS
  <2>2. doc' = D
    BY <2>1 DEF Age
  <2>3. \A b \in AgentIds : D[b] \in Document
    BY <1>2, <2>2
  <2>4. DOMAIN D = AgentIds /\ D = [b \in AgentIds |-> D[b]]
    BY <2>1
  <2> QED
    BY <2>2, <2>3, <2>4
<1>4. RegistryTypeOK' /\ unbroken' \subseteq unbroken /\ listed' = listed
  BY <1>1, <1>3 DEF RegistryTypeOK, Document, Age
<1>5. \A b \in unbroken' : doc'[b].age <= Silence
  BY DEF Age
<1>6. \A b \in unbroken' : doc'[b].status = "online"
  BY <1>1, <1>2, <1>4 DEF BeatingInv
<1> QED
  BY <1>1, <1>4, <1>5, <1>6 DEF BeatingInv

LEMMA RegistryStep ==
  ASSUME BeatingInv, [RegistryNext]_registryVars
  PROVE  BeatingInv'
<1>1. ASSUME NEW a \in AgentIds,
             \/ Provision(a) \/ Register(a) \/ Heartbeat(a)
             \/ MarkOffline(a) \/ DeleteDoc(a) \/ Unlink(a)
      PROVE  BeatingInv'
  BY <1>1, AgentStep
<1>2. ASSUME NEW a \in AgentIds, Die(a)
      PROVE  BeatingInv'
  BY <1>2 DEF Die, BeatingInv, RegistryTypeOK
<1>3. CASE StoreChanges
  BY <1>3 DEF StoreChanges, BeatingInv, RegistryTypeOK
<1>4. CASE ListSilent
  <2>1. listed' \subseteq Enrolled /\ \A a \in listed' : doc[a].age > Silence
    BY <1>4 DEF ListSilent
  <2>2. Enrolled \subseteq AgentIds
    BY DEF Enrolled
  <2>3. \A a \in unbroken : a \in AgentIds /\ doc[a].age \in Ages /\ doc[a].age <= Silence
    BY DEF BeatingInv, RegistryTypeOK
  <2>4. listed' \cap unbroken = {}
    <3> SUFFICES ASSUME NEW a \in listed' \cap unbroken
                 PROVE  FALSE
      OBVIOUS
    <3> QED
      BY <2>1, <2>3, RegistryAssumption DEF Ages
  <2> QED
    BY <1>4, <2>1, <2>2, <2>4 DEF ListSilent, BeatingInv, RegistryTypeOK
<1>5. CASE Age
  BY <1>5, AgeStep
<1>6. CASE UNCHANGED registryVars
  BY <1>6 DEF registryVars, BeatingInv, RegistryTypeOK
<1> QED
  BY <1>1, <1>2, <1>3, <1>4, <1>5, <1>6 DEF RegistryNext

LEMMA RegistryInvariant == RegistrySpec => []BeatingInv
<1>1. RegistryInit => BeatingInv
  BY RegistryInitInv
<1>2. BeatingInv /\ [RegistryNext]_registryVars => BeatingInv'
  BY RegistryStep
<1> QED
  BY <1>1, <1>2, PTL DEF RegistrySpec

\* Type correctness of the registry: documents, lists and processes are those of agents,
\* and no age grows beyond the horizon.
THEOREM RegistryTypeCorrect == RegistrySpec => []RegistryTypeOK
<1>1. BeatingInv => RegistryTypeOK
  BY DEF BeatingInv
<1> QED
  BY <1>1, RegistryInvariant, PTL

\* For any agents and any limit: the health worker, which updates the agents of a list it
\* made before, never shows one offline that has sent its heartbeats in time since it
\* first reported.
THEOREM BeatingCorrect == RegistrySpec => []BeatingIsOnline
<1>1. BeatingInv => BeatingIsOnline
  BY DEF BeatingInv, BeatingIsOnline
<1> QED
  BY <1>1, RegistryInvariant, PTL

-------------------------------------------------------------------------------
(* The registration of cameras and devices *)

CloudDoc == [item : Items \cup {NoItem}, status : {"registered", "removed", "deleted"}]
CallState == [Calls -> {"none", "sent", "looked"}]

\* A document the cloud is still to tell the edge of names no item, belongs to one
\* telling, and nothing is linked to it yet.
TellingOK ==
  /\ \A t \in telling : docs[t[1]].item = NoItem /\ \A i \in Items : link[i] # t[1]
  /\ \A t, u \in telling : t[1] = u[1] => t = u
\* What the agent and the calls are, and what documents and links are
AgentTypes ==
  /\ local \in [Items -> {"new", "here", "gone"}] /\ call \in [Items -> CallState]
  /\ pending \subseteq Items /\ round \subseteq Items /\ starting \in BOOLEAN
  /\ controlled \subseteq Devices /\ misses \in 0 .. MaxMisses /\ restarts \in 0 .. MaxRestarts
LinkTypes ==
  /\ docs \in Seq(CloudDoc)
  /\ link \in [Items -> 0 .. Len(docs)]
  /\ telling \subseteq (1 .. Len(docs)) \X Items /\ dropping \subseteq 1 .. Len(docs)
RegistrationInv == AgentTypes /\ LinkTypes /\ LinksAreOwn /\ TellingOK

LEMMA DocTypes ==
  ASSUME RegistrationInv
  PROVE  /\ docs \in Seq(CloudDoc) /\ Len(docs) \in Nat /\ DOMAIN docs = 1 .. Len(docs)
         /\ \A d \in 1 .. Len(docs) : docs[d] \in CloudDoc
<1>1. docs \in Seq(CloudDoc)
  BY DEF RegistrationInv, LinkTypes
<1> QED
  BY <1>1, LenProperties, ElementOfSeq

\* One of an item's two calls goes on, or both do.
LEMMA CallTypes ==
  ASSUME AgentTypes, NEW i \in Items, NEW s \in {"none", "sent", "looked"}
  PROVE  /\ call[i] \in CallState
         /\ \A c \in Calls : [call EXCEPT ![i][c] = s] \in [Items -> CallState]
         /\ \A x \in {"none", "sent", "looked"} :
              [call EXCEPT ![i] = [own |-> s, late |-> x]] \in [Items -> CallState]
<1>1. call \in [Items -> CallState] /\ call[i] \in CallState
  BY DEF AgentTypes
<1>2. PICK w \in CallState : w = call[i]
  BY <1>1
<1>3. ASSUME NEW c \in Calls
      PROVE  [call EXCEPT ![i][c] = s] \in [Items -> CallState]
  <2>1. [call EXCEPT ![i][c] = s] = [call EXCEPT ![i] = [w EXCEPT ![c] = s]]
    BY <1>1, <1>2
  <2>2. [w EXCEPT ![c] = s] \in CallState
    BY DEF CallState
  <2> QED
    BY <1>1, <2>1, <2>2
<1>4. ASSUME NEW x \in {"none", "sent", "looked"}
      PROVE  [own |-> s, late |-> x] \in CallState
  BY DEF CallState, Calls
<1> QED
  BY <1>1, <1>3, <1>4

\* The documents there are keep their items, whatever else a step does to them.
DocsKept ==
  /\ docs' \in Seq(CloudDoc) /\ Len(docs') \in Nat /\ Len(docs) <= Len(docs')
  /\ \A d \in 1 .. Len(docs) : docs'[d].item = docs[d].item

LEMMA SameDocs ==
  ASSUME RegistrationInv, UNCHANGED docs
  PROVE  DocsKept
BY DocTypes DEF DocsKept

LEMMA StatusChange ==
  ASSUME RegistrationInv, NEW d \in 1 .. Len(docs),
         NEW s \in {"registered", "removed", "deleted"}, docs' = [docs EXCEPT ![d].status = s]
  PROVE  DocsKept /\ Len(docs') = Len(docs)
<1>1. PICK e \in Seq(CloudDoc) : e = docs
  BY DocTypes
<1>2. Len(e) \in Nat /\ d \in 1 .. Len(e) /\ \A x \in 1 .. Len(e) : e[x] \in CloudDoc
  BY <1>1, DocTypes
<1>3. PICK w \in CloudDoc : w = [e[d] EXCEPT !.status = s] /\ w.item = e[d].item
  <2>1. PICK v \in CloudDoc : v = e[d]
    BY <1>2
  <2>2. PICK w : w = [v EXCEPT !.status = s]
    OBVIOUS
  <2>3. w \in CloudDoc /\ w.item = v.item
    BY <2>2 DEF CloudDoc
  <2> QED
    BY <2>1, <2>2, <2>3
<1>4. docs' = [e EXCEPT ![d] = w]
  BY <1>1, <1>2, <1>3
<1>5. PICK n \in Nat : n = Len(e) /\ e \in [1 .. n -> CloudDoc]
  BY <1>2, LenProperties
<1>6. docs' \in [1 .. n -> CloudDoc]
  BY <1>2, <1>4, <1>5
<1>7. docs' \in Seq(CloudDoc) /\ Len(docs') = n
  <2>1. PICK q \in [1 .. n -> CloudDoc] : q = docs'
    BY <1>6
  <2>2. q \in Seq(CloudDoc)
    BY SeqDef
  <2>3. DOMAIN q = 1 .. n
    OBVIOUS
  <2> QED
    BY <2>1, <2>2, <2>3
<1>8. \A x \in 1 .. n : docs'[x].item = e[x].item
  BY <1>2, <1>3, <1>4, <1>5
<1> QED
  BY <1>1, <1>5, <1>7, <1>8 DEF DocsKept

LEMMA Appended ==
  ASSUME RegistrationInv, NEW i \in Items \cup {NoItem},
         docs' = Append(docs, [item |-> i, status |-> "registered"])
  PROVE  DocsKept /\ Len(docs') = Len(docs) + 1 /\ docs'[Len(docs) + 1].item = i
<1>1. PICK w \in CloudDoc : w = [item |-> i, status |-> "registered"] /\ w.item = i
  BY DEF CloudDoc
<1>2. docs \in Seq(CloudDoc) /\ Len(docs) \in Nat
  BY DocTypes
<1>3. /\ docs' \in Seq(CloudDoc) /\ Len(docs') = Len(docs) + 1
      /\ \A d \in 1 .. Len(docs) : docs'[d] = docs[d]
      /\ docs'[Len(docs) + 1] = w
  BY <1>1, <1>2, AppendProperties
<1> QED
  BY <1>1, <1>2, <1>3 DEF DocsKept

\* An item is linked to a document that names it, or none is: whoever else were linked
\* to it would be the item it names.
LEMMA LinkStep ==
  ASSUME RegistrationInv, AgentTypes', DocsKept, telling' \subseteq telling,
         dropping' \subseteq 1 .. Len(docs'),
         \/ link' = link
         \/ \E i \in Items : \E d \in 1 .. Len(docs') :
              link' = [link EXCEPT ![i] = d] /\ docs'[d].item = i
  PROVE  RegistrationInv'
<1>1. /\ link \in [Items -> 0 .. Len(docs)] /\ telling \subseteq (1 .. Len(docs)) \X Items
      /\ LinksAreOwn /\ TellingOK /\ NoItem \notin Items
      /\ Len(docs) \in Nat /\ Len(docs') \in Nat /\ Len(docs) <= Len(docs')
      /\ docs' \in Seq(CloudDoc)
  BY DocTypes, RegistrationAssumption DEF RegistrationInv, LinkTypes, DocsKept
<1>2. \A d \in 1 .. Len(docs) : docs'[d].item = docs[d].item
  BY DEF DocsKept
<1>3. \A d \in 0 .. Len(docs) : d \in 0 .. Len(docs')
  BY <1>1
<1>4. \A t \in telling : t[1] \in 1 .. Len(docs) /\ docs'[t[1]].item = NoItem
  BY <1>1, <1>2 DEF TellingOK
<1>5. \A t \in telling : t \in (1 .. Len(docs')) \X Items
  BY <1>1
<1>6. \A j \in Items : link[j] # 0 => docs'[link[j]].item \in {j, NoItem}
  <2> SUFFICES ASSUME NEW j \in Items, link[j] # 0
               PROVE  docs'[link[j]].item \in {j, NoItem}
    OBVIOUS
  <2>1. link[j] \in 1 .. Len(docs)
    BY <1>1
  <2> QED
    BY <1>1, <1>2, <2>1 DEF LinksAreOwn
<1>7. CASE link' = link
  <2>1. LinkTypes'
    BY <1>1, <1>3, <1>5, <1>7 DEF LinkTypes
  <2>2. LinksAreOwn'
    BY <1>1, <1>6, <1>7 DEF LinksAreOwn
  <2>3. TellingOK'
    BY <1>1, <1>4, <1>7 DEF TellingOK
  <2> QED
    BY <2>1, <2>2, <2>3 DEF RegistrationInv
<1>8. ASSUME NEW i \in Items, NEW d \in 1 .. Len(docs'),
             link' = [link EXCEPT ![i] = d], docs'[d].item = i
      PROVE  RegistrationInv'
  <2>1. /\ link' \in [Items -> 0 .. Len(docs')] /\ link'[i] = d
        /\ \A j \in Items \ {i} : link'[j] = link[j]
    BY <1>1, <1>3, <1>8
  <2>2. LinkTypes'
    BY <1>1, <1>5, <2>1 DEF LinkTypes
  <2>3. ASSUME NEW j \in Items \ {i}
        PROVE  link'[j] # d
    BY <1>1, <1>6, <1>8, <2>1, <2>3
  <2>4. LinksAreOwn'
    BY <1>1, <1>6, <1>8, <2>1, <2>3 DEF LinksAreOwn
  <2>5. TellingOK'
    BY <1>1, <1>4, <1>8, <2>1 DEF TellingOK
  <2> QED
    BY <2>2, <2>4, <2>5 DEF RegistrationInv
<1> QED
  BY <1>7, <1>8

\* The edge hears of a document of the cloud, and links the item to it.
LEMMA TellStep ==
  ASSUME RegistrationInv, NEW t \in telling, NEW reached \in BOOLEAN, TellEdge(t, reached)
  PROVE  RegistrationInv'
<1>1. /\ link \in [Items -> 0 .. Len(docs)] /\ telling \subseteq (1 .. Len(docs)) \X Items
      /\ LinksAreOwn /\ TellingOK /\ AgentTypes /\ dropping \subseteq 1 .. Len(docs)
      /\ Len(docs) \in Nat /\ docs \in Seq(CloudDoc)
  BY DocTypes DEF RegistrationInv, LinkTypes
<1>2. PICK d \in 1 .. Len(docs), i \in Items : t = <<d, i>>
  BY <1>1
<1>3. /\ telling' = telling \ {t} /\ t[1] = d /\ t[2] = i
      /\ UNCHANGED <<docs, call, pending, round, starting, dropping, restarts>>
  BY <1>2 DEF TellEdge
<1>4. CASE reached /\ ~starting
  <2>1. /\ local' = [local EXCEPT ![i] = "here"] /\ link' = [link EXCEPT ![i] = d]
        /\ controlled' = Reloaded(Here \cup {i}) /\ misses' = misses
    BY <1>3, <1>4 DEF TellEdge
  <2>2. /\ local' \in [Items -> {"new", "here", "gone"}]
        /\ controlled' \subseteq Devices
    BY <1>1, <2>1 DEF AgentTypes, Reloaded, Here, Devices
  <2>3. AgentTypes'
    BY <1>1, <1>3, <2>1, <2>2 DEF AgentTypes
  <2>4. /\ link' \in [Items -> 0 .. Len(docs)] /\ link'[i] = d
        /\ \A j \in Items \ {i} : link'[j] = link[j]
    <3>1. d \in 0 .. Len(docs)
      OBVIOUS
    <3> QED
      BY <1>1, <2>1, <3>1
  <2>5. LinkTypes'
    BY <1>1, <1>3, <2>4 DEF LinkTypes
  <2>6. docs[d].item = NoItem /\ \A j \in Items : link[j] # d
    BY <1>1, <1>3 DEF TellingOK
  <2>7. LinksAreOwn'
    BY <1>1, <1>3, <2>4, <2>6 DEF LinksAreOwn
  <2>8. \A u \in telling' : u[1] # d
    BY <1>1, <1>3 DEF TellingOK
  <2>9. TellingOK'
    BY <1>1, <1>3, <2>4, <2>8 DEF TellingOK
  <2> QED
    BY <2>3, <2>5, <2>7, <2>9 DEF RegistrationInv
<1>5. CASE ~(reached /\ ~starting)
  <2>1. /\ UNCHANGED <<local, link, controlled>>
        /\ misses' = misses \/ (misses < MaxMisses /\ misses' = misses + 1)
    BY <1>5 DEF TellEdge
  <2>2. misses' \in 0 .. MaxMisses
    BY <1>1, <2>1, RegistrationAssumption DEF AgentTypes
  <2>3. AgentTypes'
    BY <1>1, <1>3, <2>1, <2>2 DEF AgentTypes
  <2> QED
    BY <1>1, <1>3, <2>1, <2>3, SameDocs, LinkStep
<1> QED
  BY <1>4, <1>5

\* The cloud adds a document nobody is linked to yet.
LEMMA AddInCloudStep ==
  ASSUME RegistrationInv, NEW i \in Items, AddInCloud(i)
  PROVE  RegistrationInv'
<1>1. /\ link \in [Items -> 0 .. Len(docs)] /\ telling \subseteq (1 .. Len(docs)) \X Items
      /\ LinksAreOwn /\ TellingOK /\ AgentTypes /\ dropping \subseteq 1 .. Len(docs)
      /\ Len(docs) \in Nat /\ docs \in Seq(CloudDoc)
  BY DocTypes DEF RegistrationInv, LinkTypes
<1>2. /\ docs' = Append(docs, [item |-> NoItem, status |-> "registered"])
      /\ telling' = telling \cup {<<Len(docs) + 1, i>>}
      /\ UNCHANGED <<local, link, call, pending, round, starting, dropping, controlled, misses,
                     restarts>>
  BY DEF AddInCloud
<1>3. DocsKept /\ Len(docs') = Len(docs) + 1 /\ docs'[Len(docs) + 1].item = NoItem
  BY <1>2, Appended
<1>4. AgentTypes'
  BY <1>1, <1>2 DEF AgentTypes
<1>5. PICK n \in Nat : n = Len(docs) + 1
  BY <1>1
<1>6. \A d \in 0 .. Len(docs) : d \in 0 .. n /\ d # n
  BY <1>1, <1>5
<1>7. LinkTypes'
  <2>1. docs' \in Seq(CloudDoc) /\ Len(docs') = n
    BY <1>3, <1>5 DEF DocsKept
  <2>2. link' \in [Items -> 0 .. n]
    BY <1>1, <1>2, <1>6
  <2>3. telling' \subseteq (1 .. n) \X Items
    BY <1>1, <1>2, <1>5
  <2>4. dropping' \subseteq 1 .. n
    BY <1>1, <1>2, <1>5
  <2> QED
    BY <2>1, <2>2, <2>3, <2>4 DEF LinkTypes
<1>8. LinksAreOwn'
  <2> SUFFICES ASSUME NEW j \in Items, link[j] # 0
               PROVE  /\ docs'[link[j]].item \in {j, NoItem}
                      /\ \A k \in Items \ {j} : link[k] # link[j]
    BY <1>2 DEF LinksAreOwn
  <2>1. link[j] \in 1 .. Len(docs)
    BY <1>1
  <2>2. docs'[link[j]].item = docs[link[j]].item
    BY <1>3, <2>1 DEF DocsKept
  <2> QED
    BY <1>1, <2>2 DEF LinksAreOwn
<1>9. TellingOK'
  <2>1. \A t \in telling : t[1] \in 1 .. Len(docs) /\ t[1] # n /\ docs'[t[1]].item = docs[t[1]].item
    <3> TAKE t \in telling
    <3>1. t[1] \in 1 .. Len(docs)
      BY <1>1
    <3> QED
      BY <1>3, <1>6, <3>1 DEF DocsKept
  <2>2. PICK u : u = <<n, i>>
    OBVIOUS
  <2>3. u[1] = n /\ telling' = telling \cup {u} /\ docs'[n].item = NoItem
    BY <1>2, <1>3, <1>5, <2>2
  <2>4. \A j \in Items : link'[j] # n
    BY <1>1, <1>2, <1>6
  <2> QED
    BY <1>1, <1>2, <2>1, <2>3, <2>4 DEF TellingOK
<1> QED
  BY <1>4, <1>7, <1>8, <1>9 DEF RegistrationInv

\* The steps that send, lose or drop something, and change no document
LEMMA QuietSteps ==
  ASSUME RegistrationInv, AgentTypes', UNCHANGED <<link, docs, telling>>,
         dropping' \subseteq dropping
  PROVE  RegistrationInv'
<1>1. dropping' \subseteq 1 .. Len(docs)
  BY DEF RegistrationInv, LinkTypes
<1> QED
  BY <1>1, SameDocs, LinkStep

LEMMA AgentSteps ==
  ASSUME RegistrationInv,
         \/ \E i \in Items : \/ AddLocal(i) \/ RegisterNext(i)
                            \/ \E later \in BOOLEAN : StopTrying(i, later)
         \/ RetryRound \/ ServersStart \/ Restart
  PROVE  RegistrationInv'
<1>1. AgentTypes
  BY DEF RegistrationInv
<1>2. UNCHANGED <<link, docs, telling, dropping>>
  BY DEF AddLocal, RegisterNext, RetryRound, ServersStart, Restart, StopTrying
<1>3. AgentTypes'
  <2>1. ASSUME NEW i \in Items, AddLocal(i)
        PROVE  AgentTypes'
    <3>1. /\ local' = [local EXCEPT ![i] = "here"]
          /\ call' = [call EXCEPT ![i]["own"] = "sent"]
          /\ controlled' = Reloaded(Here \cup {i})
          /\ UNCHANGED <<pending, round, starting, misses, restarts>>
      BY <2>1 DEF AddLocal
    <3>2. call' \in [Items -> CallState]
      BY <1>1, <3>1, CallTypes DEF Calls
    <3>3. controlled' \subseteq Devices
      BY <1>1, <3>1 DEF AgentTypes, Reloaded
    <3> QED
      BY <1>1, <3>1, <3>2, <3>3 DEF AgentTypes
  <2>2. ASSUME NEW i \in Items, RegisterNext(i)
        PROVE  AgentTypes'
    <3>1. /\ UNCHANGED <<local, pending, starting, controlled, misses, restarts>>
          /\ call' = call \/ call' = [call EXCEPT ![i]["own"] = "sent"]
          /\ round' \subseteq round
      BY <2>2 DEF RegisterNext
    <3>2. [call EXCEPT ![i]["own"] = "sent"] \in [Items -> CallState]
      BY <1>1, CallTypes DEF Calls
    <3>3. call \in [Items -> CallState]
      BY <1>1 DEF AgentTypes
    <3>4. call' \in [Items -> CallState]
      BY <3>1, <3>2, <3>3
    <3> QED
      BY <1>1, <3>1, <3>4 DEF AgentTypes
  <2>3. CASE RetryRound \/ ServersStart
    <3>1. /\ UNCHANGED <<local, call, controlled, misses, restarts>>
          /\ starting' \in BOOLEAN /\ pending' \subseteq pending
          /\ round' \subseteq round \cup pending
      BY <1>1, <2>3 DEF RetryRound, ServersStart, AgentTypes
    <3> QED
      BY <1>1, <3>1 DEF AgentTypes
  <2>4. CASE Restart
    <3>1. /\ local' = local /\ misses' = misses /\ pending' = {}
          /\ round' \subseteq Items /\ starting' \in BOOLEAN /\ controlled' \subseteq Devices
      BY <2>4 DEF Restart, Here
    <3>2. restarts' \in 0 .. MaxRestarts
      BY <1>1, <2>4, RegistrationAssumption DEF Restart, AgentTypes
    <3>3. call' \in [Items -> CallState]
      <4>1. PICK new : new = [x \in Items |->
                               [own |-> "none",
                                late |-> IF call[x]["late"] = "none" THEN call[x]["own"]
                                         ELSE call[x]["late"]]]
        OBVIOUS
      <4>2. call' = new
        BY <2>4, <4>1 DEF Restart
      <4>3. ASSUME NEW x \in Items
            PROVE  new[x] \in CallState
        <5>1. call[x] \in CallState
          BY <1>1 DEF AgentTypes
        <5>2. PICK w \in {"none", "sent", "looked"} :
                w = IF call[x]["late"] = "none" THEN call[x]["own"] ELSE call[x]["late"]
          BY <5>1 DEF CallState, Calls
        <5>3. new[x] = [own |-> "none", late |-> w]
          BY <4>1, <5>2
        <5> QED
          BY <5>3 DEF CallState, Calls
      <4>4. DOMAIN new = Items /\ new = [x \in Items |-> new[x]]
        BY <4>1
      <4>5. new \in [Items -> CallState]
        BY <4>3, <4>4, Zenon
      <4> QED
        BY <4>2, <4>5
    <3> QED
      BY <1>1, <3>1, <3>2, <3>3 DEF AgentTypes
  <2>5. ASSUME NEW i \in Items, NEW later \in BOOLEAN, StopTrying(i, later)
        PROVE  AgentTypes'
    <3>1. /\ UNCHANGED <<local, starting, controlled, restarts>>
          /\ pending' = pending \cup {i} /\ round' \subseteq round
          /\ misses < MaxMisses /\ misses' = misses + 1
          /\ \/ call' = [call EXCEPT ![i] = [own |-> "none", late |-> @["own"]]]
             \/ call' = [call EXCEPT ![i]["own"] = "none"]
      BY <2>5 DEF StopTrying
    <3>2. call' \in [Items -> CallState]
      <4>1. CASE call' = [call EXCEPT ![i]["own"] = "none"]
        BY <1>1, <4>1, CallTypes DEF Calls
      <4>2. CASE call' = [call EXCEPT ![i] = [own |-> "none", late |-> @["own"]]]
        <5>1. call[i] \in CallState
          BY <1>1 DEF AgentTypes
        <5>2. PICK w \in {"none", "sent", "looked"} : w = call[i]["own"]
          BY <5>1 DEF CallState, Calls
        <5>3. call' = [call EXCEPT ![i] = [own |-> "none", late |-> w]]
          BY <1>1, <4>2, <5>2 DEF AgentTypes
        <5> QED
          BY <1>1, <5>3, CallTypes
      <4> QED
        BY <3>1, <4>1, <4>2
    <3>3. misses' \in 0 .. MaxMisses
      BY <1>1, <3>1, RegistrationAssumption DEF AgentTypes
    <3> QED
      BY <1>1, <3>1, <3>2, <3>3 DEF AgentTypes
  <2> QED
    BY <2>1, <2>2, <2>3, <2>4, <2>5
<1> QED
  BY <1>2, <1>3, QuietSteps

LEMMA RemoveStep ==
  ASSUME RegistrationInv, NEW i \in Items, NEW answered \in BOOLEAN, RemoveLocal(i, answered)
  PROVE  RegistrationInv'
<1>1. /\ AgentTypes /\ link \in [Items -> 0 .. Len(docs)] /\ dropping \subseteq 1 .. Len(docs)
      /\ Len(docs) \in Nat
  BY DocTypes DEF RegistrationInv, LinkTypes
<1>2. /\ local' = [local EXCEPT ![i] = "gone"] /\ controlled' = Reloaded(Here \ {i})
      /\ UNCHANGED <<link, call, pending, round, starting, telling, dropping, restarts>>
      /\ misses' = misses \/ (misses < MaxMisses /\ misses' = misses + 1)
      /\ docs' = docs \/ (link[i] # 0 /\ docs' = [docs EXCEPT ![link[i]].status = "removed"])
  BY DEF RemoveLocal
<1>3. AgentTypes'
  <2>1. misses' \in 0 .. MaxMisses
    BY <1>1, <1>2, RegistrationAssumption DEF AgentTypes
  <2>2. controlled' \subseteq Devices
    BY <1>1, <1>2 DEF AgentTypes, Reloaded
  <2> QED
    BY <1>1, <1>2, <2>1, <2>2 DEF AgentTypes
<1>4. DocsKept /\ Len(docs') = Len(docs)
  <2>1. CASE docs' = docs
    BY <2>1, SameDocs
  <2>2. CASE link[i] # 0 /\ docs' = [docs EXCEPT ![link[i]].status = "removed"]
    <3>1. PICK d \in 1 .. Len(docs) : d = link[i]
      BY <1>1, <2>2
    <3>2. docs' = [docs EXCEPT ![d].status = "removed"]
      BY <2>2, <3>1
    <3> QED
      BY <3>2, StatusChange
  <2> QED
    BY <1>2, <2>1, <2>2
<1> QED
  BY <1>1, <1>2, <1>3, <1>4, LinkStep

\* A registration finds a document of its item, or inserts one.
LEMMA RegisterSteps ==
  ASSUME RegistrationInv, NEW i \in Items, NEW c \in Calls, Lookup(i, c) \/ InsertDocument(i, c)
  PROVE  RegistrationInv'
<1>1. /\ AgentTypes /\ dropping \subseteq 1 .. Len(docs) /\ Len(docs) \in Nat
      /\ DOMAIN docs = 1 .. Len(docs)
  BY DocTypes DEF RegistrationInv, LinkTypes
<1>2. UNCHANGED <<local, pending, starting, telling, dropping, controlled, misses, restarts>>
  BY DEF Lookup, InsertDocument
<1>3. PICK s \in {"looked", "none"} : call' = [call EXCEPT ![i][c] = s]
  BY DEF Lookup, InsertDocument
<1>4. call' \in [Items -> CallState]
  BY <1>1, <1>3, CallTypes
<1>5. round' \subseteq round
  BY DEF Lookup, InsertDocument, LinkStored
<1>6. AgentTypes'
  BY <1>1, <1>2, <1>4, <1>5 DEF AgentTypes
<1>7. CASE Lookup(i, c) /\ DocsOf(i) = {}
  BY <1>1, <1>2, <1>6, <1>7, SameDocs, LinkStep DEF Lookup
<1>8. CASE Lookup(i, c) /\ DocsOf(i) # {}
  <2>1. PICK d \in DocsOf(i) :
          /\ docs' = [docs EXCEPT ![d].status = "registered"]
          /\ link' = link \/ link' = [link EXCEPT ![i] = d]
    BY <1>8 DEF Lookup, LinkStored
  <2>2. d \in 1 .. Len(docs) /\ docs[d].item = i
    BY <1>1 DEF DocsOf
  <2>3. DocsKept /\ Len(docs') = Len(docs)
    BY <2>1, <2>2, StatusChange
  <2>4. docs'[d].item = i /\ d \in 1 .. Len(docs')
    BY <2>2, <2>3 DEF DocsKept
  <2> QED
    BY <1>1, <1>2, <1>6, <2>1, <2>3, <2>4, LinkStep
<1>9. CASE InsertDocument(i, c)
  <2>1. /\ docs' = Append(docs, [item |-> i, status |-> "registered"])
        /\ link' = link \/ link' = [link EXCEPT ![i] = Len(docs) + 1]
    BY <1>9 DEF InsertDocument, LinkStored
  <2>2. DocsKept /\ Len(docs') = Len(docs) + 1 /\ docs'[Len(docs) + 1].item = i
    BY <2>1, Appended
  <2>3. PICK d \in 1 .. Len(docs') : d = Len(docs) + 1
    BY <1>1, <2>2
  <2>4. link' = link \/ link' = [link EXCEPT ![i] = d]
    BY <2>1, <2>3
  <2>5. docs'[d].item = i /\ dropping' \subseteq 1 .. Len(docs')
    BY <1>1, <1>2, <2>2, <2>3
  <2> QED
    BY <1>2, <1>6, <2>2, <2>4, <2>5, LinkStep
<1> QED
  BY <1>7, <1>8, <1>9

LEMMA DeleteSteps ==
  ASSUME RegistrationInv,
         \/ \E d \in DOMAIN docs : DeleteDevice(d)
         \/ \E d \in dropping, reached \in BOOLEAN : DropAtEdge(d, reached)
  PROVE  RegistrationInv'
<1>1. /\ AgentTypes /\ dropping \subseteq 1 .. Len(docs) /\ DOMAIN docs = 1 .. Len(docs)
  BY DocTypes DEF RegistrationInv, LinkTypes
<1>2. ASSUME NEW d \in DOMAIN docs, DeleteDevice(d)
      PROVE  RegistrationInv'
  <2>1. /\ docs' = [docs EXCEPT ![d].status = "deleted"]
        /\ dropping' \subseteq dropping \cup {d}
        /\ UNCHANGED <<local, link, call, pending, round, starting, telling, controlled, misses,
                       restarts>>
    BY <1>2 DEF DeleteDevice
  <2>2. DocsKept /\ Len(docs') = Len(docs)
    BY <1>1, <2>1, StatusChange
  <2>3. AgentTypes'
    BY <1>1, <2>1 DEF AgentTypes
  <2>4. dropping' \subseteq 1 .. Len(docs')
    BY <1>1, <2>1, <2>2
  <2> QED
    BY <2>1, <2>2, <2>3, <2>4, LinkStep
<1>3. ASSUME NEW d \in dropping, NEW reached \in BOOLEAN, DropAtEdge(d, reached)
      PROVE  RegistrationInv'
  <2>1. /\ UNCHANGED <<link, docs, call, pending, round, starting, telling, restarts>>
        /\ dropping' \subseteq dropping
        /\ misses' = misses \/ (misses < MaxMisses /\ misses' = misses + 1)
        /\ local' = local \/ local' = [local EXCEPT ![docs[d].item] = "gone"]
        /\ controlled' = controlled \/ controlled' = Reloaded(Here \ {docs[d].item})
    BY <1>3 DEF DropAtEdge
  <2>2. misses' \in 0 .. MaxMisses
    BY <1>1, <2>1, RegistrationAssumption DEF AgentTypes
  <2>3. local' \in [Items -> {"new", "here", "gone"}]
    BY <1>1, <2>1 DEF AgentTypes
  <2>4. controlled' \subseteq Devices
    BY <1>1, <2>1 DEF AgentTypes, Reloaded
  <2>5. AgentTypes'
    BY <1>1, <2>1, <2>2, <2>3, <2>4 DEF AgentTypes
  <2> QED
    BY <2>1, <2>5, QuietSteps
<1> QED
  BY <1>2, <1>3

LEMMA RegistrationInitInv ==
  ASSUME RegistrationInit
  PROVE  RegistrationInv
<1>1. AgentTypes
  <2>1. [c \in Calls |-> "none"] \in CallState
    BY DEF CallState
  <2>2. call \in [Items -> CallState]
    BY <2>1 DEF RegistrationInit
  <2>3. local \in [Items -> {"new", "here", "gone"}]
    BY DEF RegistrationInit
  <2>4. misses \in 0 .. MaxMisses /\ restarts \in 0 .. MaxRestarts
    BY RegistrationAssumption DEF RegistrationInit
  <2> QED
    BY <2>2, <2>3, <2>4 DEF RegistrationInit, AgentTypes
<1>2. docs = <<>> /\ docs \in Seq(CloudDoc) /\ Len(docs) = 0
  BY DEF RegistrationInit
<1>3. LinkTypes
  BY <1>2 DEF RegistrationInit, LinkTypes
<1>4. LinksAreOwn /\ TellingOK
  BY DEF RegistrationInit, LinksAreOwn, TellingOK
<1> QED
  BY <1>1, <1>3, <1>4 DEF RegistrationInv

LEMMA RegistrationStep ==
  ASSUME RegistrationInv, [RegistrationNext]_registrationVars
  PROVE  RegistrationInv'
<1>1. ASSUME NEW i \in Items, AddLocal(i) \/ RegisterNext(i)
      PROVE  RegistrationInv'
  BY <1>1, AgentSteps
<1>2. ASSUME NEW i \in Items, NEW later \in BOOLEAN, StopTrying(i, later)
      PROVE  RegistrationInv'
  BY <1>2, AgentSteps
<1>3. CASE RetryRound \/ ServersStart \/ Restart
  BY <1>3, AgentSteps
<1>4. ASSUME NEW i \in Items, NEW answered \in BOOLEAN, RemoveLocal(i, answered)
      PROVE  RegistrationInv'
  BY <1>4, RemoveStep
<1>5. ASSUME NEW i \in Items, NEW c \in Calls, Lookup(i, c) \/ InsertDocument(i, c)
      PROVE  RegistrationInv'
  BY <1>5, RegisterSteps
<1>6. ASSUME NEW i \in Items, AddInCloud(i)
      PROVE  RegistrationInv'
  BY <1>6, AddInCloudStep
<1>7. ASSUME NEW t \in telling, NEW reached \in BOOLEAN, TellEdge(t, reached)
      PROVE  RegistrationInv'
  BY <1>7, TellStep
<1>8. CASE \/ \E d \in DOMAIN docs : DeleteDevice(d)
           \/ \E d \in dropping, reached \in BOOLEAN : DropAtEdge(d, reached)
  BY <1>8, DeleteSteps
<1>9. CASE UNCHANGED registrationVars
  <2>1. AgentTypes' /\ UNCHANGED <<link, docs, telling, dropping>>
    BY <1>9 DEF registrationVars, RegistrationInv, AgentTypes
  <2> QED
    BY <2>1, QuietSteps
<1> QED
  BY <1>1, <1>2, <1>3, <1>4, <1>5, <1>6, <1>7, <1>8, <1>9 DEF RegistrationNext

LEMMA RegistrationInvariant == RegistrationSpec => []RegistrationInv
<1>1. RegistrationInit => RegistrationInv
  BY RegistrationInitInv
<1>2. RegistrationInv /\ [RegistrationNext]_registrationVars => RegistrationInv'
  BY RegistrationStep
<1> QED
  BY <1>1, <1>2, PTL DEF RegistrationSpec

LEMMA RegistrationTypes ==
  ASSUME RegistrationInv
  PROVE  RegistrationTypeOK
BY DocTypes DEF RegistrationInv, AgentTypes, LinkTypes, CallState, CloudDoc, RegistrationTypeOK

\* Type correctness of the registration of cameras and devices: whatever calls fail, are
\* handled late or are repeated after restarts, every link and every telling is of a
\* document there is.
THEOREM RegistrationTypeCorrect == RegistrationSpec => []RegistrationTypeOK
<1>1. RegistrationInv => RegistrationTypeOK
  BY RegistrationTypes
<1> QED
  BY <1>1, RegistrationInvariant, PTL

\* For any number of items, documents, failed calls and restarts: the link of an item is to
\* a document that names it or to one the cloud made for it, and is its alone.
THEOREM LinksCorrect == RegistrationSpec => []LinksAreOwn
<1>1. RegistrationInv => LinksAreOwn
  BY DEF RegistrationInv
<1> QED
  BY <1>1, RegistrationInvariant, PTL

\* Each step keeps hold of what is not linked: a call is made for what leaves the round, an
\* answer links, what fails is listed, and a restart starts with all of it.
LEMMA UnlinkedStep ==
  ASSUME RegistrationInv, UnlinkedInHand, [RegistrationNext]_registrationVars
  PROVE  UnlinkedInHand'
<1> DEFINE Held(j) == link[j] # 0 \/ call[j]["own"] # "none" \/ j \in pending \cup round
<1>1. /\ local \in [Items -> {"new", "here", "gone"}] /\ call \in [Items -> CallState]
      /\ link \in [Items -> 0 .. Len(docs)] /\ Len(docs) \in Nat /\ DOMAIN docs = 1 .. Len(docs)
      /\ pending \subseteq Items /\ round \subseteq Items
      /\ telling \subseteq (1 .. Len(docs)) \X Items
      /\ dropping \subseteq 1 .. Len(docs) /\ "own" \in Calls
  BY DocTypes DEF RegistrationInv, AgentTypes, LinkTypes, Calls
<1>2. \A j \in Items : local[j] = "here" => Held(j)
  BY DEF UnlinkedInHand, Here
<1>3. SUFFICES ASSUME NEW j \in Items, local'[j] = "here"
               PROVE  Held(j)'
  BY DEF UnlinkedInHand, Here
<1>4. ASSUME NEW i \in Items, AddLocal(i)
      PROVE  Held(j)'
  BY <1>1, <1>2, <1>3, <1>4 DEF AddLocal, CallState
<1>5. ASSUME NEW i \in Items, NEW answered \in BOOLEAN, RemoveLocal(i, answered)
      PROVE  Held(j)'
  BY <1>1, <1>2, <1>3, <1>5 DEF RemoveLocal
<1>6. ASSUME NEW i \in Items, RegisterNext(i)
      PROVE  Held(j)'
  BY <1>1, <1>2, <1>3, <1>6 DEF RegisterNext, CallState, Here
<1>7. ASSUME NEW i \in Items, NEW later \in BOOLEAN, StopTrying(i, later)
      PROVE  Held(j)'
  BY <1>1, <1>2, <1>3, <1>7 DEF StopTrying, CallState
<1>8. ASSUME NEW i \in Items, NEW c \in Calls, Lookup(i, c) \/ InsertDocument(i, c)
      PROVE  Held(j)'
  <2>1. /\ UNCHANGED <<local, pending>>
        /\ \A k \in Items \ {i} : call'[k] = call[k]
        /\ c # "own" => call'[i]["own"] = call[i]["own"] /\ UNCHANGED <<link, round>>
    BY <1>1, <1>8 DEF Lookup, InsertDocument, CallState
  <2>2. \/ UNCHANGED <<link, round>> /\ call'[i]["own"] # "none"
        \/ UNCHANGED <<link, round>> /\ c # "own"
        \/ \E d \in 1 .. Len(docs) + 1 : LinkStored(i, d)
    BY <1>1, <1>8 DEF Lookup, InsertDocument, DocsOf, CallState
  <2>3. ASSUME NEW d \in 1 .. Len(docs) + 1, LinkStored(i, d)
        PROVE  Held(j)'
    BY <1>1, <1>2, <1>3, <2>1, <2>3 DEF LinkStored, Here
  <2> QED
    BY <1>1, <1>2, <1>3, <2>1, <2>2, <2>3
<1>9. ASSUME NEW t \in telling, NEW reached \in BOOLEAN, TellEdge(t, reached)
      PROVE  Held(j)'
  <2>1. t[1] \in 1 .. Len(docs) /\ t[2] \in Items
    BY <1>1
  <2> QED
    BY <1>1, <1>2, <1>3, <1>9, <2>1 DEF TellEdge
<1>10. ASSUME NEW d \in dropping, NEW reached \in BOOLEAN, DropAtEdge(d, reached)
       PROVE  Held(j)'
  BY <1>1, <1>2, <1>3, <1>10 DEF DropAtEdge
<1>11. CASE RetryRound \/ ServersStart
  BY <1>1, <1>2, <1>3, <1>11 DEF RetryRound, ServersStart
<1>12. CASE Restart
  BY <1>1, <1>3, <1>12 DEF Restart, Here
<1>13. CASE \/ \E i \in Items : AddInCloud(i)
            \/ \E d \in DOMAIN docs : DeleteDevice(d)
            \/ UNCHANGED registrationVars
  BY <1>1, <1>2, <1>3, <1>13 DEF AddInCloud, DeleteDevice, registrationVars
<1> QED
  BY <1>4, <1>5, <1>6, <1>7, <1>8, <1>9, <1>10, <1>11, <1>12, <1>13 DEF RegistrationNext

\* For any number of failed calls and restarts, and whatever both sides add and remove:
\* what the agent has and the cloud has not answered for is being registered, or waits for
\* its turn, or is on the list of what failed (CameraManager and DeviceManager).
THEOREM UnlinkedInHandCorrect == RegistrationSpec => []UnlinkedInHand
<1>1. RegistrationInit => UnlinkedInHand
  BY DEF RegistrationInit, UnlinkedInHand, Here
<1>2. RegistrationInv /\ UnlinkedInHand /\ [RegistrationNext]_registrationVars => UnlinkedInHand'
  BY UnlinkedStep
<1> QED
  BY <1>1, <1>2, RegistrationInvariant, PTL DEF RegistrationSpec

-------------------------------------------------------------------------------
(* The workers that watch cameras *)

Capture == [threads : Nat, stopped : BOOLEAN, connected : BOOLEAN]
LoopStates == {"none", "starting", "running", "reconnecting", "ended"}

WorkerTypes ==
  /\ mode \in {"single", "batch", "degraded"} /\ supervised \in BOOLEAN /\ held \subseteq Names
  /\ DOMAIN config = Names /\ DOMAIN urls = Names /\ DOMAIN object = Names
  /\ \A n \in Names : {config[n], urls[n], object[n]} \subseteq 0 .. MaxUrls[n]
  /\ loop \in [Names -> LoopStates]
  /\ batch \in {"none", "asleep", "iterating", "ended"}
  /\ capture \in [Captures -> Capture]
  /\ background \in [Captures -> 0 .. 2]
  /\ losses \in 0 .. MaxLosses /\ ends \in 0 .. MaxEnds

\* Only the batch loop starts reconnect tasks, which outlive the removal of a camera.
NoBatch == mode = "single" => batch = "none" /\ \A o \in Captures : background[o] = 0
WorkerInv == WorkerTypes /\ NoBatch /\ RemovedAreStopped

\* A step that leaves the objects alone and starts no thread of another one
LEMMA CaptureChange ==
  ASSUME WorkerInv, NEW o, NEW k \in Capture,
         capture' = [capture EXCEPT ![o] = k], UNCHANGED <<mode, object>>,
         mode = "single" /\ o \in Captures =>
           k.threads = 0 \/ k.stopped \/ object[o[1]] = o[2]
  PROVE  capture' \in [Captures -> Capture] /\ RemovedAreStopped'
<1>1. capture \in [Captures -> Capture]
  BY DEF WorkerInv, WorkerTypes
<1>2. /\ capture' \in [Captures -> Capture]
      /\ \A p \in Captures : capture'[p] = IF p = o THEN k ELSE capture[p]
  BY <1>1
<1>3. k.threads \in Nat
  BY DEF Capture
<1> QED
  BY <1>2, <1>3 DEF WorkerInv, RemovedAreStopped

LEMMA WorkerInitInv ==
  ASSUME WorkerInit
  PROVE  WorkerInv
<1>1. /\ MaxUrls \in [Names -> Nat \ {0}] /\ 0 \in 0 .. MaxLosses /\ 0 \in 0 .. MaxEnds
      /\ \A n \in Names : 0 .. 1 \subseteq 0 .. MaxUrls[n]
  BY WorkerAssumption
<1>2. Fresh \in Capture /\ Fresh.threads = 0
  BY DEF Fresh, Capture
<1>3. /\ config \in [Names -> 0 .. 1] /\ urls = config /\ object = config
      /\ mode \in {"single", "batch", "degraded"} /\ supervised \in BOOLEAN
      /\ loop \in [Names -> LoopStates] /\ held \subseteq Names
    BY DEF WorkerInit, LoopStates
<1>4. /\ batch \in {"none", "asleep"} /\ (mode = "single" => batch = "none")
      /\ capture = [o \in Captures |-> Fresh] /\ background = [o \in Captures |-> 0]
      /\ losses = 0 /\ ends = 0
  BY DEF WorkerInit
<1>5. WorkerTypes
  <2>1. capture \in [Captures -> Capture] /\ background \in [Captures -> 0 .. 2]
    BY <1>2, <1>4
  <2>2. \A n \in Names : {config[n], urls[n], object[n]} \subseteq 0 .. MaxUrls[n]
    BY <1>1, <1>3
  <2> QED
    BY <1>1, <1>3, <1>4, <2>1, <2>2 DEF WorkerTypes
<1>6. NoBatch /\ RemovedAreStopped
  BY <1>2, <1>4 DEF NoBatch, RemovedAreStopped
<1> QED
  BY <1>5, <1>6 DEF WorkerInv

\* cameras.json and the supervisor: the objects and their threads stay as they are.
LEMMA ConfigSteps ==
  ASSUME WorkerInv,
         \/ \E n \in Names : AddCamera(n) \/ RemoveCamera(n) \/ Configure(n) \/ LoopEnds(n)
         \/ Supervise \/ BatchBegins \/ BatchSleeps \/ UNCHANGED workerVars
  PROVE  WorkerInv'
<1>1. /\ MaxUrls \in [Names -> Nat \ {0}] /\ {MaxLosses, MaxEnds} \subseteq Nat
      /\ WorkerTypes /\ NoBatch
  BY WorkerAssumption DEF WorkerInv
<1>2. UNCHANGED <<mode, supervised, object, capture, background, losses>>
  BY DEF AddCamera, RemoveCamera, Configure, LoopEnds, Supervise, BatchBegins, BatchSleeps,
         workerVars
<1>3. /\ DOMAIN config' = Names /\ DOMAIN urls' = Names
      /\ \A n \in Names : {config'[n], urls'[n]} \subseteq 0 .. MaxUrls[n]
  <2>1. CASE UNCHANGED <<config, urls>>
    BY <1>1, <2>1 DEF WorkerTypes
  <2>2. ASSUME NEW n \in Names, AddCamera(n)
        PROVE  /\ DOMAIN config' = Names /\ DOMAIN urls' = Names
               /\ \A m \in Names : {config'[m], urls'[m]} \subseteq 0 .. MaxUrls[m]
    <3>1. urls[n] + 1 \in 0 .. MaxUrls[n]
      BY <1>1, <2>2 DEF AddCamera, WorkerTypes
    <3>2. /\ DOMAIN config' = Names /\ DOMAIN urls' = Names
          /\ \A m \in Names : /\ config'[m] = IF m = n THEN urls[n] + 1 ELSE config[m]
                              /\ urls'[m] = IF m = n THEN urls[n] + 1 ELSE urls[m]
      BY <1>1, <2>2 DEF AddCamera, WorkerTypes
    <3> QED
      BY <1>1, <3>1, <3>2 DEF WorkerTypes
  <2>3. ASSUME NEW n \in Names, RemoveCamera(n)
        PROVE  /\ DOMAIN config' = Names /\ DOMAIN urls' = Names
               /\ \A m \in Names : {config'[m], urls'[m]} \subseteq 0 .. MaxUrls[m]
    BY <1>1, <2>3 DEF RemoveCamera, WorkerTypes
  <2> QED
    BY <2>1, <2>2, <2>3 DEF Configure, LoopEnds, Supervise, BatchBegins, BatchSleeps, workerVars
<1>4. loop' \in [Names -> LoopStates] /\ ends' \in 0 .. MaxEnds
  <2>1. CASE UNCHANGED <<loop, ends>>
    BY <1>1, <2>1 DEF WorkerTypes
  <2>2. ASSUME NEW n \in Names, LoopEnds(n)
        PROVE  loop' \in [Names -> LoopStates] /\ ends' \in 0 .. MaxEnds
    BY <1>1, <2>2 DEF LoopEnds, WorkerTypes, LoopStates
  <2>3. CASE Supervise
    BY <1>1, <2>3 DEF Supervise, WorkerTypes, LoopStates
  <2> QED
    BY <2>1, <2>2, <2>3 DEF AddCamera, RemoveCamera, Configure, BatchBegins, BatchSleeps,
                            workerVars
<1>5. batch' \in {"none", "asleep", "iterating", "ended"} /\ (batch = "none" => batch' = "none")
  BY <1>1 DEF WorkerTypes, AddCamera, RemoveCamera, Configure, LoopEnds, Supervise, BatchBegins,
              BatchSleeps, workerVars
<1>6. held' \subseteq Names
  BY <1>1 DEF WorkerTypes, AddCamera, RemoveCamera, Configure, LoopEnds, Supervise, BatchBegins,
              BatchSleeps, workerVars
<1>7. WorkerTypes'
  BY <1>1, <1>2, <1>3, <1>4, <1>5, <1>6 DEF WorkerTypes
<1>8. NoBatch' /\ RemovedAreStopped'
  BY <1>1, <1>2, <1>5 DEF NoBatch, WorkerInv, RemovedAreStopped, Captures
<1> QED
  BY <1>7, <1>8 DEF WorkerInv

\* Threads and loops: one object gets a thread or loses some.
LEMMA ThreadSteps ==
  ASSUME WorkerInv,
         \/ \E n \in Names : \/ \E opened \in BOOLEAN : LoopStarts(n, opened)
                             \/ LoopLosesStream(n) \/ Reconnected(n) \/ BatchVisits(n)
         \/ \E o \in Captures : ThreadStops(o) \/ StreamLost(o) \/ BackgroundReconnects(o)
  PROVE  WorkerInv'
<1>1. /\ {MaxLosses, MaxEnds} \subseteq Nat /\ WorkerTypes /\ NoBatch
  BY WorkerAssumption DEF WorkerInv
<1>2. UNCHANGED <<held, mode, supervised, config, urls, object, batch, ends>>
  BY DEF LoopStarts, LoopLosesStream, Reconnected, BatchVisits, ThreadStops, StreamLost,
         BackgroundReconnects
<1>3. capture' \in [Captures -> Capture] /\ RemovedAreStopped'
  <2>1. ASSUME NEW o, Started(o), mode = "single" /\ o \in Captures => object[o[1]] = o[2]
        PROVE  capture' \in [Captures -> Capture] /\ RemovedAreStopped'
    <3> DEFINE k == [threads |-> capture[o].threads + 1, stopped |-> FALSE, connected |-> TRUE]
    <3>1. CASE o \in Captures
      <4>1. k \in Capture /\ capture' = [capture EXCEPT ![o] = k]
        BY <1>1, <2>1, <3>1 DEF Started, WorkerTypes, Capture
      <4> QED
        BY <1>2, <2>1, <4>1, CaptureChange
    <3>2. CASE o \notin Captures
      <4>1. capture' = capture
        BY <1>1, <2>1, <3>2 DEF Started, WorkerTypes
      <4> QED
        BY <1>1, <1>2, <4>1 DEF WorkerTypes, WorkerInv, RemovedAreStopped
    <3> QED
      BY <3>1, <3>2
  <2>2. ASSUME NEW o, Released(o)
        PROVE  capture' \in [Captures -> Capture] /\ RemovedAreStopped'
    <3>1. CASE o \in Captures
      <4>1. /\ Stopped(capture[o]) \in Capture /\ Stopped(capture[o]).stopped
            /\ capture' = [capture EXCEPT ![o] = Stopped(capture[o])]
        BY <1>1, <2>2, <3>1 DEF Released, Stopped, WorkerTypes, Capture
      <4> QED
        BY <1>2, <4>1, CaptureChange
    <3>2. CASE o \notin Captures
      <4>1. capture' = capture
        BY <1>1, <2>2, <3>2 DEF Released, WorkerTypes
      <4> QED
        BY <1>1, <1>2, <4>1 DEF WorkerTypes, WorkerInv, RemovedAreStopped
    <3> QED
      BY <3>1, <3>2
  <2>3. ASSUME NEW n \in Names, LoopStarts(n, TRUE) \/ LoopStarts(n, FALSE)
               \/ LoopLosesStream(n) \/ Reconnected(n) \/ BatchVisits(n)
        PROVE  capture' \in [Captures -> Capture] /\ RemovedAreStopped'
    <3>1. Object(n)[1] = n /\ Object(n)[2] = object[n]
      BY DEF Object
    <3>2. Started(Object(n)) \/ Released(Object(n))
      BY <2>3 DEF LoopStarts, LoopLosesStream, Reconnected, BatchVisits
    <3> QED
      BY <2>1, <2>2, <3>1, <3>2
  <2>4. ASSUME NEW o \in Captures, ThreadStops(o)
        PROVE  capture' \in [Captures -> Capture] /\ RemovedAreStopped'
    <3> DEFINE k == [capture[o] EXCEPT !.threads = capture[o].threads - 1]
    <3>1. k \in Capture /\ k.stopped /\ capture' = [capture EXCEPT ![o] = k]
      BY <1>1, <2>4 DEF ThreadStops, WorkerTypes, Capture
    <3> QED
      BY <1>2, <3>1, CaptureChange
  <2>5. ASSUME NEW o \in Captures, StreamLost(o)
        PROVE  capture' \in [Captures -> Capture] /\ RemovedAreStopped'
    <3> DEFINE k == [capture[o] EXCEPT !.threads = 0, !.connected = FALSE]
    <3>1. k \in Capture /\ k.threads = 0 /\ capture' = [capture EXCEPT ![o] = k]
      BY <1>1, <2>5 DEF StreamLost, WorkerTypes, Capture
    <3> QED
      BY <1>2, <3>1, CaptureChange
  <2>6. ASSUME NEW o \in Captures, BackgroundReconnects(o)
        PROVE  capture' \in [Captures -> Capture] /\ RemovedAreStopped'
    <3>1. mode # "single"
      BY <1>1, <2>6 DEF BackgroundReconnects, NoBatch
    <3> QED
      BY <2>1, <2>6, <3>1 DEF BackgroundReconnects
  <2> QED
    BY <2>3, <2>4, <2>5, <2>6
<1>4. loop' \in [Names -> LoopStates]
  BY <1>1 DEF WorkerTypes, LoopStates, LoopStarts, LoopLosesStream, Reconnected, BatchVisits,
              ThreadStops, StreamLost, BackgroundReconnects
<1>5. losses' \in 0 .. MaxLosses
  <2>1. ASSUME NEW o \in Captures, StreamLost(o)
        PROVE  losses' \in 0 .. MaxLosses
    BY <1>1, <2>1 DEF StreamLost, WorkerTypes
  <2>2. losses' = losses \/ \E o \in Captures : StreamLost(o)
    BY DEF LoopStarts, LoopLosesStream, Reconnected, BatchVisits, ThreadStops, BackgroundReconnects
  <2> QED
    BY <1>1, <2>1, <2>2 DEF WorkerTypes
<1>6. /\ background' \in [Captures -> 0 .. 2]
      /\ mode = "single" => \A o \in Captures : background'[o] = 0
  <2>1. CASE background' = background
    BY <1>1, <2>1 DEF WorkerTypes, NoBatch
  <2>2. ASSUME NEW n \in Names, BatchVisits(n)
        PROVE  /\ background' \in [Captures -> 0 .. 2]
               /\ mode = "single" => \A p \in Captures : background'[p] = 0
    <3>1. mode # "single"
      BY <1>1, <2>2 DEF BatchVisits, NoBatch
    <3>2. CASE Object(n) \in Captures
      <4>1. background[Object(n)] + 1 \in 0 .. 2
        BY <1>1, <2>2, <3>2 DEF BatchVisits, WorkerTypes
      <4> QED
        BY <1>1, <2>2, <3>1, <4>1 DEF BatchVisits, WorkerTypes
    <3>3. CASE Object(n) \notin Captures
      BY <1>1, <2>2, <3>1, <3>3 DEF BatchVisits, WorkerTypes
    <3> QED
      BY <3>2, <3>3
  <2>3. ASSUME NEW o \in Captures, BackgroundReconnects(o)
        PROVE  /\ background' \in [Captures -> 0 .. 2]
               /\ mode = "single" => \A p \in Captures : background'[p] = 0
    <3>1. mode # "single" /\ background[o] - 1 \in 0 .. 2
      BY <1>1, <2>3 DEF BackgroundReconnects, NoBatch, WorkerTypes
    <3> QED
      BY <1>1, <2>3, <3>1 DEF BackgroundReconnects, WorkerTypes
  <2> QED
    BY <2>1, <2>2, <2>3 DEF LoopStarts, LoopLosesStream, Reconnected, ThreadStops, StreamLost
<1>7. WorkerTypes' /\ NoBatch'
  BY <1>1, <1>2, <1>3, <1>4, <1>5, <1>6 DEF WorkerTypes, NoBatch, Captures
<1> QED
  BY <1>3, <1>7 DEF WorkerInv

\* dynamic_camera_sync_loop: removed objects are told to stop, added ones have no thread
\* that was not.
LEMMA SyncStep ==
  ASSUME WorkerInv, SyncCameras
  PROVE  WorkerInv'
<1> DEFINE added == {n \in Names : config[n] # 0 /\ object[n] = 0}
           removed == {n \in Names : config[n] = 0 /\ object[n] # 0}
<1>1. /\ MaxUrls \in [Names -> Nat \ {0}] /\ WorkerTypes /\ NoBatch
      /\ \A o \in Captures : o[1] \in Names /\ o[2] # 0 /\ o = <<o[1], o[2]>>
  BY WorkerAssumption DEF WorkerInv, Captures
<1>2. UNCHANGED <<held, mode, supervised, config, urls, background, losses, ends>>
  BY DEF SyncCameras
<1>3. batch' \in {"none", "asleep", "iterating", "ended"} /\ (batch = "none" => batch' = "none")
  BY <1>1 DEF SyncCameras, WorkerTypes
<1>4. CASE mode = "degraded" /\ added # {}
  <2>1. PICK n \in added : object' = [object EXCEPT ![n] = config[n]] /\ UNCHANGED <<loop, capture>>
    BY <1>4 DEF SyncCameras
  <2>2. DOMAIN object' = Names /\ \A m \in Names : object'[m] \in {object[m], config[m]}
    BY <1>1, <2>1 DEF WorkerTypes
  <2>3. WorkerTypes'
    BY <1>1, <1>2, <1>3, <2>1, <2>2 DEF WorkerTypes, Captures
  <2> QED
    BY <1>1, <1>2, <1>4, <2>3 DEF WorkerInv, NoBatch, RemovedAreStopped
<1>5. CASE ~(mode = "degraded" /\ added # {})
  <2>1. /\ object' = [n \in Names |-> IF n \in added \cup removed THEN config[n] ELSE object[n]]
        /\ loop' = [n \in Names |-> IF n \in removed THEN "none"
                      ELSE IF n \in added /\ mode = "single" THEN "starting" ELSE loop[n]]
        /\ capture' = [o \in Captures |-> IF o[1] \in removed /\ o = Object(o[1])
                         THEN Stopped(capture[o]) ELSE capture[o]]
    BY <1>5 DEF SyncCameras
  <2>2. DOMAIN object' = Names /\ \A m \in Names : object'[m] \in {object[m], config[m]}
    BY <2>1
  <2>3. loop' \in [Names -> LoopStates]
    BY <1>1, <2>1 DEF WorkerTypes, LoopStates
  <2>4. \A o \in Captures : /\ capture[o] \in Capture
                            /\ Stopped(capture[o]) \in Capture /\ Stopped(capture[o]).stopped
    BY <1>1 DEF WorkerTypes, Stopped, Capture
  <2>5. capture' \in [Captures -> Capture]
    BY <2>1, <2>4
  <2>6. WorkerTypes'
    BY <1>1, <1>2, <1>3, <2>2, <2>3, <2>5 DEF WorkerTypes, Captures
  <2>7. ASSUME mode = "single", NEW o \in Captures,
               capture'[o].threads > 0, object'[o[1]] # o[2]
        PROVE  capture'[o].stopped
    <3>1. CASE o[1] \in removed /\ o = Object(o[1])
      BY <2>1, <2>4, <3>1
    <3>2. CASE ~(o[1] \in removed /\ o = Object(o[1]))
      <4>1. capture'[o] = capture[o]
        BY <2>1, <3>2
      <4>2. object[o[1]] # o[2]
        <5>1. CASE o[1] \in removed
          BY <1>1, <3>2, <5>1 DEF Object
        <5>2. CASE o[1] \in added
          BY <1>1, <5>2
        <5>3. CASE o[1] \notin added \cup removed
          BY <1>1, <2>1, <2>7, <5>3
        <5> QED
          BY <5>1, <5>2, <5>3
      <4> QED
        BY <2>7, <4>1, <4>2 DEF WorkerInv, RemovedAreStopped
    <3> QED
      BY <3>1, <3>2
  <2>8. RemovedAreStopped'
    BY <1>2, <2>7 DEF RemovedAreStopped, Captures
  <2>9. NoBatch'
    BY <1>1, <1>2, <1>3 DEF NoBatch, Captures
  <2> QED
    BY <2>6, <2>8, <2>9 DEF WorkerInv
<1> QED
  BY <1>4, <1>5

LEMMA WorkerStep ==
  ASSUME WorkerInv, [WorkerNext]_workerVars
  PROVE  WorkerInv'
<1>1. CASE \/ \E n \in Names : AddCamera(n) \/ RemoveCamera(n) \/ Configure(n) \/ LoopEnds(n)
           \/ Supervise \/ BatchBegins \/ BatchSleeps \/ UNCHANGED workerVars
  BY <1>1, ConfigSteps
<1>2. CASE \/ \E n \in Names : \/ \E opened \in BOOLEAN : LoopStarts(n, opened)
                               \/ LoopLosesStream(n) \/ Reconnected(n) \/ BatchVisits(n)
           \/ \E o \in Captures : ThreadStops(o) \/ StreamLost(o) \/ BackgroundReconnects(o)
  BY <1>2, ThreadSteps
<1>3. CASE SyncCameras
  BY <1>3, SyncStep
<1> QED
  BY <1>1, <1>2, <1>3 DEF WorkerNext

LEMMA WorkerInvariant == WorkerSpec => []WorkerInv
<1>1. WorkerInit => WorkerInv
  BY WorkerInitInv
<1>2. WorkerInv /\ [WorkerNext]_workerVars => WorkerInv'
  BY WorkerStep
<1> QED
  BY <1>1, <1>2, PTL DEF WorkerSpec

\* Type correctness of the loops, capture threads and reconnect tasks, for any cameras and
\* whatever ends, is lost, removed and added again.
THEOREM WorkerTypeCorrect == WorkerSpec => []WorkerTypeOK
<1>1. WorkerInv => WorkerTypeOK
  BY DEF WorkerInv, WorkerTypes, WorkerTypeOK, Capture, LoopStates
<1> QED
  BY <1>1, WorkerInvariant, PTL

\* With a loop for each camera, every capture thread that is not of its camera's current
\* object was told to stop (dynamic_camera_sync_loop, ThreadedCameraCapture.stop).
THEOREM RemovedAreStoppedCorrect == WorkerSpec => []RemovedAreStopped
<1>1. WorkerInv => RemovedAreStopped
  BY DEF WorkerInv
<1> QED
  BY <1>1, WorkerInvariant, PTL

-------------------------------------------------------------------------------
(* The workers that train models *)

JobStates == Active \cup {"completed", "failed", "cancelled"}
Trainer == [at : {"idle", "load", "mark", "train", "fail"}, job : 0 .. MaxJobs]

\* The types, with jobs as a sequence; a worker that is busy is so with a job there is.
TrainingInv ==
  /\ jobs \in Seq(JobStates) /\ Len(jobs) <= MaxJobs
  /\ data \in 0 .. MaxData
  /\ broker \subseteq DOMAIN jobs /\ abandoned \subseteq DOMAIN jobs
  /\ trainer \in [Trainers -> Trainer]
  /\ \A w \in Trainers : trainer[w].at # "idle" => Job(w) \in DOMAIN jobs
  /\ auto \in {"idle", "active", "start"}
  /\ deaths \in 0 .. MaxDeaths

\* A task that is under way stays so, or need not
Kept ==
  \A j \in DOMAIN jobs :
    Underway(j) => Underway(j)' \/ jobs'[j] \notin Active \/ j \in abandoned'

LEMMA NewJobStep ==
  ASSUME TrainingInv, NEW dispatched \in BOOLEAN,
         StartTraining(dispatched) \/ AutoStart(dispatched)
  PROVE  TrainingInv' /\ Kept
<1>1. /\ jobs' = Append(jobs, "queued") /\ Len(jobs) < MaxJobs /\ broker \subseteq broker'
      /\ broker' \subseteq broker \cup {Len(jobs) + 1}
      /\ UNCHANGED <<data, trainer, abandoned, deaths>> /\ auto' \in {auto, "idle"}
  BY DEF StartTraining, AutoStart, StartJob
<1>2. /\ jobs' \in Seq(JobStates) /\ Len(jobs') = Len(jobs) + 1
      /\ Len(jobs) \in Nat /\ MaxJobs \in Nat
  BY <1>1, TrainingAssumption DEF TrainingInv, JobStates, Active
<1>3. DOMAIN jobs = 1 .. Len(jobs) /\ DOMAIN jobs' = 1 .. Len(jobs) + 1
  BY <1>2 DEF TrainingInv
<1>4. DOMAIN jobs \subseteq DOMAIN jobs' /\ Len(jobs) + 1 \in DOMAIN jobs'
  BY <1>2, <1>3
<1>5. TrainingInv'
  BY <1>1, <1>2, <1>4 DEF TrainingInv, Job
<1>6. Kept
  BY <1>1 DEF Kept, Underway, Job
<1> QED
  BY <1>5, <1>6

\* What changes no job and no task
LEMMA TrainingQuietStep ==
  ASSUME TrainingInv,
         (\E n \in 0 .. MaxData : ChangeData(n)) \/ CountFrames \/ LookForActive
           \/ UNCHANGED trainingVars
  PROVE  TrainingInv' /\ Kept
<1>1. /\ UNCHANGED <<jobs, broker, trainer, abandoned, deaths>>
      /\ data' \in 0 .. MaxData /\ auto' \in {"idle", "active", "start"}
  BY DEF TrainingInv, ChangeData, CountFrames, LookForActive, trainingVars
<1> QED
  BY <1>1 DEF TrainingInv, Kept, Underway, Job

\* A job's status is written
LEMMA JobChange ==
  ASSUME TrainingInv, NEW j \in DOMAIN jobs, NEW s \in JobStates,
         jobs' = [jobs EXCEPT ![j] = s]
  PROVE  /\ jobs' \in Seq(JobStates) /\ Len(jobs') = Len(jobs) /\ DOMAIN jobs' = DOMAIN jobs
         /\ jobs'[j] = s
<1> DEFINE n == Len(jobs)
<1>1. jobs \in Seq(JobStates) /\ n \in Nat /\ DOMAIN jobs = 1 .. n /\ jobs \in [1 .. n -> JobStates]
  BY DEF TrainingInv
<1>2. jobs' \in [1 .. n -> JobStates] /\ jobs'[j] = s
  BY <1>1
<1>3. jobs' \in Seq(JobStates) /\ DOMAIN jobs' = 1 .. n
  BY <1>1, <1>2
<1> HIDE DEF n
<1>4. Len(jobs') = n
  BY <1>1, <1>3
<1> QED
  BY <1>1, <1>2, <1>3, <1>4 DEF n

LEMMA CancelStep ==
  ASSUME TrainingInv, NEW j \in DOMAIN jobs, Cancel(j)
  PROVE  TrainingInv' /\ Kept
<1>1. jobs' = [jobs EXCEPT ![j] = "cancelled"] /\ "cancelled" \in JobStates
      /\ UNCHANGED <<data, broker, trainer, auto, abandoned, deaths>>
  BY DEF Cancel, JobStates
<1>2. /\ jobs' \in Seq(JobStates) /\ Len(jobs') = Len(jobs) /\ DOMAIN jobs' = DOMAIN jobs
  BY <1>1, JobChange
<1> QED
  BY <1>1, <1>2 DEF TrainingInv, Kept, Underway, Job

LEMMA TrainerStep ==
  ASSUME TrainingInv, NEW w \in Trainers,
         \/ \E j \in DOMAIN jobs : Deliver(w, j)
         \/ LoadJob(w) \/ MarkRunning(w) \/ Complete(w) \/ Raise(w) \/ MarkFailed(w)
         \/ TrainerDies(w) \/ Redeliver(w) \/ Overrun(w) \/ FailureLost(w)
  PROVE  TrainingInv' /\ Kept
<1>1. /\ trainer[w] \in Trainer /\ Resting \in Trainer /\ Resting.at = "idle"
      /\ trainer[w].at # "idle" => Job(w) \in DOMAIN jobs
      /\ MaxJobs \in Nat /\ MaxDeaths \in Nat /\ DOMAIN jobs \subseteq 0 .. MaxJobs
  BY TrainingAssumption DEF TrainingInv, Trainer, Resting
<1>2. ASSUME NEW k \in Trainer, trainer' = [trainer EXCEPT ![w] = k],
             jobs' \in Seq(JobStates), Len(jobs') = Len(jobs), DOMAIN jobs' = DOMAIN jobs,
             k.at # "idle" => k.job \in DOMAIN jobs,
             broker' \subseteq DOMAIN jobs, abandoned' \subseteq DOMAIN jobs,
             deaths' \in 0 .. MaxDeaths, UNCHANGED <<data, auto>>
      PROVE  /\ TrainingInv'
             /\ trainer'[w] = k /\ \A v \in Trainers \ {w} : trainer'[v] = trainer[v]
  <2>1. /\ trainer' \in [Trainers -> Trainer]
        /\ trainer'[w] = k /\ \A v \in Trainers \ {w} : trainer'[v] = trainer[v]
    BY <1>2 DEF TrainingInv
  <2> QED
    BY <1>2, <2>1 DEF TrainingInv, Job
<1>3. ASSUME NEW j \in DOMAIN jobs, Deliver(w, j)
      PROVE  TrainingInv' /\ Kept
  <2> DEFINE k == [at |-> "load", job |-> j]
  <2>1. k \in Trainer /\ broker' = broker \ {j} /\ trainer' = [trainer EXCEPT ![w] = k]
        /\ trainer[w].at = "idle" /\ UNCHANGED <<data, jobs, auto, abandoned, deaths>>
    BY <1>1, <1>3 DEF Deliver, Trainer
  <2>2. TrainingInv' /\ trainer'[w] = k /\ \A v \in Trainers \ {w} : trainer'[v] = trainer[v]
    BY <1>2, <2>1 DEF TrainingInv
  <2> QED
    BY <2>1, <2>2 DEF Kept, Underway, Job
\* Of the other steps each is about the job in hand: it stays in hand, goes back to
\* the broker, is no longer active, or was abandoned.
<1>4. ASSUME trainer[w].at # "idle", NEW k \in Trainer, trainer' = [trainer EXCEPT ![w] = k],
             jobs' \in Seq(JobStates), Len(jobs') = Len(jobs), DOMAIN jobs' = DOMAIN jobs,
             k.at # "idle" => k.job = Job(w), broker \subseteq broker',
             broker' \subseteq broker \cup {Job(w)}, abandoned' \subseteq abandoned \cup {Job(w)},
             deaths' \in 0 .. MaxDeaths, UNCHANGED <<data, auto>>,
             \/ k.at # "idle" \/ Job(w) \in broker' \/ jobs'[Job(w)] \notin Active
             \/ Job(w) \in abandoned'
      PROVE  TrainingInv' /\ Kept
  <2>1. broker' \subseteq DOMAIN jobs /\ abandoned' \subseteq DOMAIN jobs
    BY <1>1, <1>4 DEF TrainingInv
  <2>2. TrainingInv' /\ trainer'[w] = k /\ \A v \in Trainers \ {w} : trainer'[v] = trainer[v]
    BY <1>1, <1>2, <1>4, <2>1
  <2> QED
    BY <1>4, <2>2 DEF Kept, Underway, Job
<1>5. CASE LoadJob(w) \/ Raise(w) \/ Redeliver(w)
  <2>1. /\ trainer[w].at # "idle" /\ UNCHANGED <<data, jobs, auto, abandoned>>
        /\ broker \subseteq broker' /\ broker' \subseteq broker \cup {Job(w)}
        /\ deaths' \in 0 .. MaxDeaths
    BY <1>1, <1>5 DEF LoadJob, Raise, Redeliver, TrainingInv
  <2>2. \E k \in Trainer : /\ trainer' = [trainer EXCEPT ![w] = k]
                           /\ k.at # "idle" => k.job = Job(w)
                           /\ k.at # "idle" \/ jobs[Job(w)] \notin Active
    <3>1. CASE Redeliver(w)
      <4>1. trainer' = [trainer EXCEPT ![w] = trainer[w]]
        BY <3>1 DEF Redeliver, TrainingInv
      <4> QED
        BY <1>1, <2>1, <4>1 DEF Job
    <3>2. ASSUME NEW at \in {"mark", "fail"}, Turns(w, at)
          PROVE  <2>2
      <4> DEFINE k == [trainer[w] EXCEPT !.at = at]
      <4>1. k \in Trainer /\ k.at # "idle" /\ k.job = Job(w) /\ trainer' = [trainer EXCEPT ![w] = k]
        BY <1>1, <3>2 DEF Turns, Trainer, Job
      <4> QED
        BY <4>1
    <3>3. CASE Rests(w) /\ jobs[Job(w)] \notin Active
      BY <1>1, <3>3 DEF Rests
    <3> QED
      BY <1>5, <3>1, <3>2, <3>3 DEF LoadJob, Raise
  <2> QED
    BY <1>4, <2>1, <2>2 DEF TrainingInv
<1>6. CASE MarkRunning(w)
  <2> DEFINE k == [trainer[w] EXCEPT !.at = "train"]
  <2>1. /\ k \in Trainer /\ k.at # "idle" /\ k.job = Job(w)
        /\ trainer' = [trainer EXCEPT ![w] = k]
    BY <1>1, <1>6 DEF MarkRunning, Turns, Trainer, Job
  <2>2. /\ trainer[w].at # "idle" /\ UNCHANGED <<data, broker, auto, abandoned, deaths>>
        /\ jobs' = [jobs EXCEPT ![Job(w)] = "running"] /\ "running" \in JobStates
    BY <1>6 DEF MarkRunning, Status, JobStates, Active
  <2>3. jobs' \in Seq(JobStates) /\ Len(jobs') = Len(jobs) /\ DOMAIN jobs' = DOMAIN jobs
    BY <1>1, <2>2, JobChange
  <2> QED
    BY <1>4, <2>1, <2>2, <2>3 DEF TrainingInv
<1>7. CASE Complete(w) \/ MarkFailed(w)
  <2>1. /\ trainer[w].at # "idle" /\ trainer' = [trainer EXCEPT ![w] = Resting]
        /\ UNCHANGED <<data, broker, auto, abandoned, deaths>>
    BY <1>7 DEF Complete, MarkFailed, Rests
  <2>2. PICK s \in {"completed", "failed"} : jobs' = [jobs EXCEPT ![Job(w)] = s]
    BY <1>7 DEF Complete, MarkFailed, Status
  <2>3. s \in JobStates /\ s \notin Active
    BY DEF JobStates, Active
  <2>4. /\ jobs' \in Seq(JobStates) /\ Len(jobs') = Len(jobs) /\ DOMAIN jobs' = DOMAIN jobs
        /\ jobs'[Job(w)] \notin Active
    BY <1>1, <2>1, <2>2, <2>3, JobChange
  <2> QED
    BY <1>1, <1>4, <2>1, <2>4 DEF TrainingInv
<1>8. CASE TrainerDies(w) \/ Overrun(w) \/ FailureLost(w)
  <2>1. /\ trainer[w].at # "idle" /\ trainer' = [trainer EXCEPT ![w] = Resting]
        /\ UNCHANGED <<data, jobs, auto>>
        /\ Job(w) \in broker' \/ Job(w) \in abandoned'
        /\ broker \subseteq broker' /\ broker' \subseteq broker \cup {Job(w)}
        /\ abandoned' \subseteq abandoned \cup {Job(w)}
    BY <1>8 DEF TrainerDies, Overrun, FailureLost, Rests
  <2>2. deaths' \in 0 .. MaxDeaths
    BY <1>1, <1>8 DEF TrainerDies, Overrun, FailureLost, TrainingInv
  <2> QED
    BY <1>1, <1>4, <2>1, <2>2 DEF TrainingInv
<1> QED
  BY <1>3, <1>5, <1>6, <1>7, <1>8

LEMMA TrainingStep ==
  ASSUME TrainingInv, [TrainingNext]_trainingVars
  PROVE  TrainingInv' /\ Kept
<1>1. CASE \E dispatched \in BOOLEAN : StartTraining(dispatched) \/ AutoStart(dispatched)
  BY <1>1, NewJobStep
<1>2. CASE \E j \in DOMAIN jobs : Cancel(j)
  BY <1>2, CancelStep
<1>3. ASSUME NEW w \in Trainers,
             \/ \E j \in DOMAIN jobs : Deliver(w, j)
             \/ LoadJob(w) \/ MarkRunning(w) \/ Complete(w) \/ Raise(w) \/ MarkFailed(w)
             \/ TrainerDies(w) \/ Redeliver(w) \/ Overrun(w) \/ FailureLost(w)
      PROVE  TrainingInv' /\ Kept
  BY <1>3, TrainerStep
<1>4. CASE (\E n \in 0 .. MaxData : ChangeData(n)) \/ CountFrames \/ LookForActive
             \/ UNCHANGED trainingVars
  BY <1>4, TrainingQuietStep
<1> QED
  BY <1>1, <1>2, <1>3, <1>4 DEF TrainingNext

LEMMA TrainingInitInv ==
  ASSUME TrainingInit
  PROVE  TrainingInv
<1>1. jobs \in Seq(JobStates) /\ Len(jobs) = 0 /\ DOMAIN jobs = {}
  BY DEF TrainingInit
<1>2. Resting \in Trainer /\ Resting.at = "idle" /\ 0 \in 0 .. MaxDeaths /\ 0 <= MaxJobs
  BY TrainingAssumption DEF Resting, Trainer
<1> QED
  BY <1>1, <1>2 DEF TrainingInit, TrainingInv

LEMMA TrainingInvariant == TrainingSpec => []TrainingInv
<1>1. TrainingInit => TrainingInv
  BY TrainingInitInv
<1>2. TrainingInv /\ [TrainingNext]_trainingVars => TrainingInv'
  BY TrainingStep
<1> QED
  BY <1>1, <1>2, PTL DEF TrainingSpec

\* Type correctness of training jobs: tasks that wait or are worked on, and jobs that were
\* abandoned, are of jobs there are, for any number of workers, jobs and redeliveries.
THEOREM TrainingTypeCorrect == TrainingSpec => []TrainingTypeOK
<1>1. TrainingInv => TrainingTypeOK
  BY DEF TrainingInv, TrainingTypeOK, JobStates, Trainer
<1> QED
  BY <1>1, TrainingInvariant, PTL

\* The task of an active job is never lost, but at the hard time limit and when its failure
\* cannot be written: workers acknowledge late, and one that finds a job running goes on
\* with it (run_training_job).
THEOREM TasksKeptCorrect == TrainingSpec => TasksKept
<1>1. TrainingInv /\ [TrainingNext]_trainingVars => [Kept]_trainingVars
  BY TrainingStep
<1> QED
  BY <1>1, TrainingInvariant, PTL DEF TrainingSpec, TasksKept, Kept
-------------------------------------------------------------------------------
(* The analysis of videos *)

Stretch == [wet : BOOLEAN, count : 1 .. MaxSampled]
Findings == [frames : 0 .. MaxSampled, stretches : Seq(Stretch)]
JobStatus == {"none", "queued", "processing", "completed", "failed", "deleted"}
TaskState == [at : {"none", "stored", "starts", "samples", "fails", "done"}, validated : BOOLEAN]

\* The types; no stretch a task has found is longer than the frames it has seen; and jobs
\* that have not ended are in hand.
VideoInv ==
  /\ video \in [Videos -> JobStatus] /\ task \in [Videos -> TaskState]
  /\ timeline \in [Videos -> Seq(Stretch)] /\ sampled \in [Videos -> Findings]
  /\ \A v \in Videos : \A i \in 1 .. Len(sampled[v].stretches) :
       sampled[v].stretches[i].count <= sampled[v].frames
  /\ footage \subseteq Videos /\ orphans \subseteq Videos /\ troubles \in 0 .. MaxTroubles
  /\ VideosInHand

\* One more frame makes the last stretch longer by it, or begins one.
LEMMA ExtendedLemma ==
  ASSUME NEW segments \in Seq(Stretch), NEW n \in Nat, n < MaxSampled, NEW wet \in BOOLEAN,
         \A i \in 1 .. Len(segments) : segments[i].count <= n
  PROVE  /\ Extended(segments, wet) \in Seq(Stretch)
         /\ \A i \in 1 .. Len(Extended(segments, wet)) : Extended(segments, wet)[i].count <= n + 1
<1> DEFINE l == Len(segments)
<1>1. MaxSampled \in Nat /\ l \in Nat /\ segments \in [1 .. l -> Stretch]
  BY VideoAssumption, LenProperties
<1>2. CASE l > 0 /\ segments[l].wet = wet
  <2>1. PICK w \in Stretch : w = segments[l]
    BY <1>1, <1>2
  <2>2. w.count \in 1 .. MaxSampled /\ w.count <= n
    BY <1>1, <1>2, <2>1 DEF Stretch
  <2>3. PICK x \in Stretch : x = [w EXCEPT !.count = w.count + 1] /\ x.count <= n + 1
    <3>1. PICK x : x = [w EXCEPT !.count = w.count + 1]
      OBVIOUS
    <3>2. w.count + 1 \in 1 .. MaxSampled /\ w.count + 1 <= n + 1
      BY <1>1, <2>2
    <3>3. x \in Stretch /\ x.count = w.count + 1
      BY <3>1, <3>2 DEF Stretch
    <3> QED
      BY <3>1, <3>2, <3>3
  <2>4. Extended(segments, wet) = [segments EXCEPT ![l] = x]
    BY <1>1, <1>2, <2>1, <2>3 DEF Extended
  <2>5. PICK e \in [1 .. l -> Stretch] : e = Extended(segments, wet)
    BY <1>1, <2>3, <2>4
  <2>6. e \in Seq(Stretch) /\ DOMAIN e = 1 .. l
    BY <1>1, <2>5, SeqDef
  <2>7. Len(e) = l
    BY <1>1, <2>6
  <2>8. \A i \in 1 .. l : e[i].count <= n + 1
    BY <1>1, <1>2, <2>3, <2>4, <2>5 DEF Stretch
  <2> QED
    BY <2>5, <2>6, <2>7, <2>8
<1>3. CASE ~(l > 0 /\ segments[l].wet = wet)
  <2>1. PICK x \in Stretch : x = [wet |-> wet, count |-> 1] /\ x.count <= n + 1
    <3>1. PICK x : x = [wet |-> wet, count |-> 1]
      OBVIOUS
    <3>2. 1 \in 1 .. MaxSampled /\ 1 <= n + 1
      BY <1>1
    <3>3. x \in Stretch /\ x.count = 1
      BY <3>1, <3>2 DEF Stretch
    <3> QED
      BY <3>1, <3>2, <3>3
  <2>2. Extended(segments, wet) = Append(segments, x)
    BY <1>3, <2>1 DEF Extended
  <2>3. /\ Append(segments, x) \in Seq(Stretch) /\ Len(Append(segments, x)) = l + 1
        /\ \A i \in 1 .. l : Append(segments, x)[i] = segments[i]
        /\ Append(segments, x)[l + 1] = x
    BY <1>1, AppendProperties
  <2>4. ASSUME NEW i \in 1 .. l + 1
        PROVE  Append(segments, x)[i].count <= n + 1
    <3>1. CASE i = l + 1
      BY <2>1, <2>3, <3>1
    <3>2. CASE i \in 1 .. l
      BY <1>1, <2>3, <3>2 DEF Stretch
    <3> QED
      BY <1>1, <3>1, <3>2
  <2> QED
    BY <2>2, <2>3, <2>4
<1> QED
  BY <1>2, <1>3

LEMMA NothingFoundType ==
  NoFrames \in Findings /\ NoFrames.stretches = <<>> /\ Len(NoFrames.stretches) = 0
<1>1. <<>> \in Seq(Stretch) /\ Len(<<>>) = 0 /\ 0 \in 0 .. MaxSampled
  BY VideoAssumption
<1> HIDE DEF Stretch
<1> QED
  BY <1>1 DEF NoFrames, Findings

LEMMA VideoInitInv ==
  ASSUME VideoInit
  PROVE  VideoInv
<1>2. <<>> \in Seq(Stretch) /\ Len(<<>>) = 0
  OBVIOUS
<1>1. PICK f \in Findings : f = NoFrames /\ f.stretches = <<>>
  BY <1>2, NothingFoundType
<1>3. sampled \in [Videos -> Findings] /\ \A v \in Videos : sampled[v].stretches = <<>>
  BY <1>1 DEF VideoInit
<1> QED
  BY <1>2, <1>3, VideoAssumption DEF VideoInit, VideoInv, VideosInHand, JobStatus, TaskState

\* One job and its task go on, and what the task has found stays, or is forgotten.
LEMMA VideoChange ==
  ASSUME VideoInv, NEW v \in Videos,
         NEW s \in JobStatus, NEW k \in TaskState, NEW f \in Findings,
         video' = [video EXCEPT ![v] = s], task' = [task EXCEPT ![v] = k],
         sampled' = [sampled EXCEPT ![v] = f],
         \A i \in 1 .. Len(f.stretches) : f.stretches[i].count <= f.frames,
         timeline' \in [Videos -> Seq(Stretch)], footage' \subseteq Videos,
         orphans \subseteq orphans', orphans' \subseteq Videos, troubles' \in 0 .. MaxTroubles,
         v \notin orphans' => /\ s = "queued" => k.at \in {"starts", "fails"}
                              /\ s = "processing" => k.at \in {"samples", "fails"}
  PROVE  VideoInv'
<1>1. /\ video' \in [Videos -> JobStatus] /\ task' \in [Videos -> TaskState]
      /\ sampled' \in [Videos -> Findings]
      /\ video'[v] = s /\ task'[v] = k /\ sampled'[v] = f
      /\ \A u \in Videos \ {v} : /\ video'[u] = video[u] /\ task'[u] = task[u]
                                 /\ sampled'[u] = sampled[u]
  BY DEF VideoInv
<1>2. \A u \in Videos : \A i \in 1 .. Len(sampled'[u].stretches) :
        sampled'[u].stretches[i].count <= sampled'[u].frames
  BY <1>1 DEF VideoInv
<1>3. VideosInHand'
  BY <1>1 DEF VideoInv, VideosInHand
<1> QED
  BY <1>1, <1>2, <1>3 DEF VideoInv
LEMMA RequestSteps ==
  ASSUME VideoInv, NEW v \in Videos,
         (\E validated \in BOOLEAN : StoreVideo(v, validated)) \/ DeleteVideo(v)
  PROVE  VideoInv'
<1>1. /\ video[v] \in JobStatus /\ task[v] \in TaskState /\ sampled[v] \in Findings
      /\ \A i \in 1 .. Len(sampled[v].stretches) :
           sampled[v].stretches[i].count <= sampled[v].frames
      /\ video = [video EXCEPT ![v] = video[v]] /\ sampled = [sampled EXCEPT ![v] = sampled[v]]
      /\ task = [task EXCEPT ![v] = task[v]]
  BY DEF VideoInv
<1>2. ASSUME NEW validated \in BOOLEAN, StoreVideo(v, validated)
      PROVE  VideoInv'
  <2> DEFINE k == [at |-> "stored", validated |-> validated]
  <2>1. k \in TaskState
    BY DEF TaskState
  <2>2. /\ task' = [task EXCEPT ![v] = k] /\ video[v] = "none" /\ footage' = footage \cup {v}
        /\ UNCHANGED <<video, timeline, sampled, orphans, troubles>>
    BY <1>2 DEF StoreVideo
  <2>3. /\ footage' \subseteq Videos /\ orphans \subseteq Videos /\ troubles \in 0 .. MaxTroubles
        /\ timeline \in [Videos -> Seq(Stretch)]
    BY <2>2 DEF VideoInv
  <2> HIDE DEF k
  <2> QED
    BY <1>1, <2>1, <2>2, <2>3, VideoChange
<1>3. CASE DeleteVideo(v)
  <2>1. /\ video' = [video EXCEPT ![v] = "deleted"] /\ timeline' = [timeline EXCEPT ![v] = <<>>]
        /\ UNCHANGED <<task, sampled, orphans>> /\ "deleted" \in JobStatus
    BY <1>3 DEF DeleteVideo, JobStatus
  <2>2. footage' \subseteq Videos /\ troubles' \in 0 .. MaxTroubles /\ orphans \subseteq Videos
    BY <1>3, VideoAssumption DEF DeleteVideo, Trouble, VideoInv
  <2>3. timeline' \in [Videos -> Seq(Stretch)]
    <3>1. <<>> \in Seq(Stretch)
      OBVIOUS
    <3> QED
      BY <2>1, <3>1 DEF VideoInv
  <2> QED
    BY <1>1, <2>1, <2>2, <2>3, VideoChange
<1> QED
  BY <1>2, <1>3

\* A step of the task, or of the request that starts it: the job's new status fits the
\* task's new step.
LEMMA TaskSteps ==
  ASSUME VideoInv, NEW v \in Videos,
         \/ InsertJob(v) \/ Begin(v) \/ Sample(v) \/ Finish(v)
         \/ RaisesInTask(v) \/ MarkVideoFailed(v) \/ TaskEnds(v)
  PROVE  VideoInv'
<1>1. /\ video[v] \in JobStatus /\ task[v] \in TaskState /\ sampled[v] \in Findings
      /\ \A i \in 1 .. Len(sampled[v].stretches) :
           sampled[v].stretches[i].count <= sampled[v].frames
      /\ video = [video EXCEPT ![v] = video[v]] /\ sampled = [sampled EXCEPT ![v] = sampled[v]]
      /\ task = [task EXCEPT ![v] = task[v]]
      /\ timeline \in [Videos -> Seq(Stretch)] /\ footage \subseteq Videos
      /\ orphans \subseteq Videos /\ troubles \in 0 .. MaxTroubles
      /\ v \notin orphans => /\ video[v] = "queued" => task[v].at \in {"starts", "fails"}
                             /\ video[v] = "processing" => task[v].at \in {"samples", "fails"}
  BY DEF VideoInv, VideosInHand
<1>2. ASSUME NEW at \in {"starts", "samples", "fails", "done"}, Goes(v, at)
      PROVE  \E k \in TaskState : k.at = at /\ task' = [task EXCEPT ![v] = k]
  <2>1. PICK k : k = [task[v] EXCEPT !.at = at]
    OBVIOUS
  <2>2. k \in TaskState /\ k.at = at
    BY <1>1, <2>1 DEF TaskState
  <2>3. task' = [task EXCEPT ![v] = k]
    BY <1>2, <2>1 DEF Goes
  <2> QED
    BY <2>2, <2>3
<1>3. ASSUME NEW s \in {"processing", "completed", "failed"}, Becomes(v, s)
      PROVE  \E x \in {s, "deleted"} : x \in JobStatus /\ video' = [video EXCEPT ![v] = x]
  <2>1. PICK x : x = IF video[v] = "deleted" THEN video[v] ELSE s
    OBVIOUS
  <2>2. x \in {s, "deleted"} /\ x \in JobStatus
    BY <2>1 DEF JobStatus
  <2>3. video' = [video EXCEPT ![v] = x]
    BY <1>3, <2>1 DEF Becomes
  <2> QED
    BY <2>2, <2>3
<1>4. ASSUME Trouble
      PROVE  troubles' \in 0 .. MaxTroubles
  BY <1>1, <1>4, VideoAssumption DEF Trouble
<1>5. NoFrames \in Findings /\ \A i \in 1 .. Len(NoFrames.stretches) :
                                 NoFrames.stretches[i].count <= NoFrames.frames
  BY NothingFoundType
<1>6. CASE InsertJob(v)
  <2>1. /\ video' = [video EXCEPT ![v] = "queued"] /\ "queued" \in JobStatus
        /\ Goes(v, "starts") /\ UNCHANGED <<timeline, footage, sampled, orphans, troubles>>
    BY <1>6 DEF InsertJob, JobStatus
  <2>2. PICK k \in TaskState : k.at = "starts" /\ task' = [task EXCEPT ![v] = k]
    BY <1>2, <2>1
  <2> QED
    BY <1>1, <2>1, <2>2, VideoChange
<1>7. CASE Begin(v)
  <2>1. /\ Becomes(v, "processing") /\ Goes(v, "samples")
        /\ UNCHANGED <<timeline, footage, sampled, orphans, troubles>>
    BY <1>7 DEF Begin
  <2>2. PICK k \in TaskState : k.at = "samples" /\ task' = [task EXCEPT ![v] = k]
    BY <1>2, <2>1
  <2>3. PICK x \in {"processing", "deleted"} : x \in JobStatus /\ video' = [video EXCEPT ![v] = x]
    BY <1>3, <2>1
  <2> QED
    BY <1>1, <2>1, <2>2, <2>3, VideoChange
<1>8. CASE Sample(v)
  <2>1. PICK wet \in BOOLEAN :
          sampled' = [sampled EXCEPT ![v] = [frames |-> sampled[v].frames + 1,
                                             stretches |-> Extended(sampled[v].stretches, wet)]]
    <3>1. Judgements(v) \subseteq BOOLEAN
      BY DEF Judgements
    <3> QED
      BY <1>8, <3>1 DEF Sample
  <2>2. /\ sampled[v].frames < MaxSampled
        /\ UNCHANGED <<video, timeline, footage, task, orphans, troubles>>
    BY <1>8 DEF Sample
  <2>3. PICK e : e = Extended(sampled[v].stretches, wet)
    OBVIOUS
  <2>4. /\ sampled[v].frames \in Nat /\ sampled[v].stretches \in Seq(Stretch)
        /\ sampled[v].frames + 1 \in 0 .. MaxSampled
    BY <1>1, <2>2, VideoAssumption DEF Findings
  <2>5. e \in Seq(Stretch) /\ \A i \in 1 .. Len(e) : e[i].count <= sampled[v].frames + 1
    BY <1>1, <2>2, <2>3, <2>4, ExtendedLemma
  <2>6. PICK f \in Findings : f = [frames |-> sampled[v].frames + 1, stretches |-> e]
    BY <2>4, <2>5 DEF Findings
  <2>7. sampled' = [sampled EXCEPT ![v] = f] /\ f.frames = sampled[v].frames + 1 /\ f.stretches = e
    BY <2>1, <2>3, <2>6
  <2>8. \A i \in 1 .. Len(f.stretches) : f.stretches[i].count <= f.frames
    BY <2>5, <2>7
  <2> QED
    BY <1>1, <2>2, <2>7, <2>8, VideoChange
<1>9. CASE Finish(v)
  <2>1. /\ Becomes(v, "completed") /\ Goes(v, "done")
        /\ sampled' = [sampled EXCEPT ![v] = NoFrames] /\ UNCHANGED <<footage, orphans, troubles>>
    BY <1>9 DEF Finish
  <2>2. PICK k \in TaskState : k.at = "done" /\ task' = [task EXCEPT ![v] = k]
    BY <1>2, <2>1
  <2>3. PICK x \in {"completed", "deleted"} : x \in JobStatus /\ video' = [video EXCEPT ![v] = x]
    BY <1>3, <2>1
  <2>4. timeline' \in [Videos -> Seq(Stretch)]
    BY <1>1, <1>9 DEF Finish, Findings
  <2> QED
    BY <1>1, <1>5, <2>1, <2>2, <2>3, <2>4, VideoChange
<1>10. CASE RaisesInTask(v)
  <2>1. /\ Goes(v, "fails") /\ Trouble /\ sampled' = [sampled EXCEPT ![v] = NoFrames]
        /\ UNCHANGED <<video, timeline, footage, orphans>>
    BY <1>10 DEF RaisesInTask
  <2>2. PICK k \in TaskState : k.at = "fails" /\ task' = [task EXCEPT ![v] = k]
    BY <1>2, <2>1
  <2> QED
    BY <1>1, <1>4, <1>5, <2>1, <2>2, VideoChange
<1>11. CASE MarkVideoFailed(v)
  <2>1. /\ Becomes(v, "failed") /\ Goes(v, "done")
        /\ UNCHANGED <<timeline, footage, sampled, orphans, troubles>>
    BY <1>11 DEF MarkVideoFailed
  <2>2. PICK k \in TaskState : k.at = "done" /\ task' = [task EXCEPT ![v] = k]
    BY <1>2, <2>1
  <2>3. PICK x \in {"failed", "deleted"} : x \in JobStatus /\ video' = [video EXCEPT ![v] = x]
    BY <1>3, <2>1
  <2> QED
    BY <1>1, <2>1, <2>2, <2>3, VideoChange
<1>12. CASE TaskEnds(v)
  <2>1. /\ Goes(v, "done") /\ Trouble /\ sampled' = [sampled EXCEPT ![v] = NoFrames]
        /\ orphans' = orphans \cup {v} /\ UNCHANGED <<video, timeline, footage>>
    BY <1>12 DEF TaskEnds
  <2>2. PICK k \in TaskState : k.at = "done" /\ task' = [task EXCEPT ![v] = k]
    BY <1>2, <2>1
  <2> QED
    BY <1>1, <1>4, <1>5, <2>1, <2>2, VideoChange
<1> QED
  BY <1>6, <1>7, <1>8, <1>9, <1>10, <1>11, <1>12

LEMMA VideoStep ==
  ASSUME VideoInv, [VideoNext]_videoVars
  PROVE  VideoInv'
BY RequestSteps, TaskSteps DEF VideoNext, videoVars, VideoInv, VideosInHand

LEMMA VideoInvariant == VideoSpec => []VideoInv
<1>1. VideoInit => VideoInv
  BY VideoInitInv
<1>2. VideoInv /\ [VideoNext]_videoVars => VideoInv'
  BY VideoStep
<1> QED
  BY <1>1, <1>2, PTL DEF VideoSpec

LEMMA VideoTypes == VideoInv => VideoTypeOK
<1> SUFFICES ASSUME VideoInv
             PROVE  VideoTypeOK
  OBVIOUS
<1>1. ASSUME NEW v \in Videos, NEW i \in DOMAIN timeline[v]
      PROVE  timeline[v][i] \in Stretch
  <2>1. timeline[v] \in Seq(Stretch)
    BY DEF VideoInv
  <2> QED
    BY <2>1, ElementOfSeq, LenProperties
<1> QED
  BY <1>1 DEF VideoInv, VideoTypeOK, JobStatus, TaskState, Findings, Stretch

\* Type correctness of the analysis of videos: however many frames a task samples, no
\* stretch of wet or of dry frames is empty or longer than the video has samples.
THEOREM VideoTypeCorrect == VideoSpec => []VideoTypeOK
<1> QED
  BY VideoTypes, VideoInvariant, PTL

\* A job that has not ended has its task, or its task ended without a word: the handler of
\* _process_job is reached from every failure, and a deletion does not revive a job.
THEOREM VideosInHandCorrect == VideoSpec => []VideosInHand
<1>1. VideoInv => VideosInHand
  BY DEF VideoInv
<1> QED
  BY <1>1, VideoInvariant, PTL
-------------------------------------------------------------------------------
(* The components together: in each behaviour one of them works *)

LEMMA LivenessInvariant ==
  LivenessSpec => []( /\ BeatingInv /\ RegistrationInv /\ UnlinkedInHand
                      /\ WorkerInv /\ TrainingInv /\ VideoInv )
<1> DEFINE Inv == /\ BeatingInv /\ RegistrationInv /\ UnlinkedInHand
                  /\ WorkerInv /\ TrainingInv /\ VideoInv
<1>1. LivenessInit => Inv
  BY RegistryInitInv, RegistrationInitInv, WorkerInitInv, TrainingInitInv, VideoInitInv
     DEF LivenessInit, RegistrationInit, UnlinkedInHand, Here
<1>2. Inv /\ [LivenessNext]_LivenessVars => Inv'
  <2> SUFFICES ASSUME Inv, [LivenessNext]_LivenessVars
               PROVE  Inv'
    OBVIOUS
  <2>1. /\ [RegistryNext]_registryVars /\ [RegistrationNext]_registrationVars
        /\ [WorkerNext]_workerVars /\ [TrainingNext]_trainingVars /\ [VideoNext]_videoVars
    BY DEF LivenessNext, LivenessVars
  <2>2. BeatingInv'
    BY <2>1, RegistryStep
  <2>3. RegistrationInv'
    BY <2>1, RegistrationStep
  <2>4. UnlinkedInHand'
    BY <2>1, UnlinkedStep
  <2>5. WorkerInv'
    BY <2>1, WorkerStep
  <2>6. TrainingInv'
    BY <2>1, TrainingStep
  <2>7. VideoInv'
    BY <2>1, VideoStep
  <2> QED
    BY <2>2, <2>3, <2>4, <2>5, <2>6, <2>7
<1> QED
  BY <1>1, <1>2, PTL DEF LivenessSpec

\* The components of the run that checks what happens in the end keep their types, and
\* none forgets what it has still to do: the agent what it has not registered, a process
\* the videos it analyses.
THEOREM NothingForgottenCorrect == LivenessSpec => []NothingForgotten
<1> DEFINE Inv == /\ BeatingInv /\ RegistrationInv /\ UnlinkedInHand
                  /\ WorkerInv /\ TrainingInv /\ VideoInv
<1>1. Inv => NothingForgotten
  <2> SUFFICES ASSUME Inv
               PROVE  NothingForgotten
    OBVIOUS
  <2>1. RegistryTypeOK
    BY DEF BeatingInv
  <2>2. RegistrationTypeOK
    BY RegistrationTypes
  <2>3. WorkerTypeOK
    BY DEF WorkerInv, WorkerTypes, WorkerTypeOK, Capture, LoopStates
  <2>4. TrainingTypeOK
    BY DEF TrainingInv, TrainingTypeOK, JobStates, Trainer
  <2>5. VideoTypeOK /\ VideosInHand
    BY VideoTypes DEF VideoInv
  <2> QED
    BY <2>1, <2>2, <2>3, <2>4, <2>5 DEF NothingForgotten, LivenessTypes
<1> QED
  BY <1>1, LivenessInvariant, PTL
================================================================================
