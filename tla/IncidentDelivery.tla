--------------------------- MODULE IncidentDelivery ---------------------------
(***************************************************************************)
(* What the synchronisation of incidents promises, without saying how: an  *)
(* incident recorded at the edge becomes known to the cloud and stays      *)
(* known, and the edge lets go of it (confirms it, which is what allows    *)
(* the cleanup to delete it) only after the cloud knows it.  A confirmed   *)
(* incident that changes again is no longer confirmed.                     *)
(***************************************************************************)
CONSTANT IncIds

VARIABLES
  recorded,   \* incidents the edge has recorded
  known,      \* incidents the cloud has an event for
  confirmed   \* incidents the edge regards as delivered

deliveryVars == <<recorded, known, confirmed>>

DeliveryInit == recorded = {} /\ known = {} /\ confirmed = {}

Record(i) ==
  /\ i \notin recorded
  /\ recorded' = recorded \union {i}
  /\ UNCHANGED <<known, confirmed>>

Learn(i) ==
  /\ i \in recorded
  /\ known' = known \union {i}
  /\ UNCHANGED <<recorded, confirmed>>

\* Any number of incidents the cloud already knows
Confirm(S) ==
  /\ S \subseteq known
  /\ confirmed' = confirmed \union S
  /\ UNCHANGED <<recorded, known>>

Change(i) ==
  /\ confirmed' = confirmed \ {i}
  /\ UNCHANGED <<recorded, known>>

DeliveryNext ==
  \/ \E i \in IncIds : Record(i) \/ Learn(i) \/ Change(i)
  \/ \E S \in SUBSET IncIds : Confirm(S)

DeliverySpec == DeliveryInit /\ [][DeliveryNext]_deliveryVars
=============================================================================
