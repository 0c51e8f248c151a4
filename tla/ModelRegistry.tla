----------------------------- MODULE ModelRegistry -----------------------------
(***************************************************************************)
(* The model versions of one organisation and what runs of them:           *)
(* services/model_service.py and roboflow_model_service.py, the deployment *)
(* of trained models (routers/learning.py), the copy the cloud loads       *)
(* (services/onnx_inference_service.py) and the deploy_model command the   *)
(* edge agents are sent.  A promotion is several writes; others, updates   *)
(* and deletions come in between, and a request may end half-way.          *)
(***************************************************************************)
EXTENDS Naturals, FiniteSets

CONSTANTS
  Models,       \* identifiers of model versions
  Promoters,    \* promotions that can be under way at a time
  MaxPromotions, \* bound on the promotions ever begun
  MaxEdits       \* bound on updates and deletions

ASSUME ModelAssumption == {MaxPromotions, MaxEdits} \subseteq Nat

NoModel == "none"
Origins == {"created", "roboflow", "learning"}
Statuses == {"draft", "validating", "staging", "production", "retired"}

VARIABLES
  versions,  \* db.model_versions
  promotion, \* what each promotion is doing
  queued,    \* the model of the last deploy_model commands
  loaded,    \* the model the cloud's process infers with
  promoted,  \* the last model promoted by a call that ran alone to its end
  settled,   \* nothing has touched the production model since
  restarted, \* the process has loaded its model since
  stamps,    \* promotions begun: the clock of promoted_to_production_at
  edits

modelVars == <<versions, promotion, queued, loaded, promoted, settled, restarted, stamps, edits>>

NotPromoting == [at |-> "idle", model |-> NoModel, stamp |-> 0, alone |-> FALSE]
Promoting == {p \in Promoters : promotion[p].at # "idle"}

ModelTypeOK ==
  /\ DOMAIN versions \subseteq Models
  /\ \A m \in DOMAIN versions :
       versions[m] \in [status : Statuses, origin : Origins, artifact : BOOLEAN,
                        cloudOnly : BOOLEAN, stamp : 0 .. MaxPromotions]
  /\ promotion \in [Promoters -> [at : {"idle", "retire", "set", "deploy"},
                                  model : Models \cup {NoModel}, stamp : 0 .. MaxPromotions,
                                  alone : BOOLEAN]]
  /\ {queued, loaded, promoted} \subseteq Models \cup {NoModel}
  /\ settled \in BOOLEAN /\ restarted \in BOOLEAN
  /\ stamps \in 0 .. MaxPromotions /\ edits \in 0 .. MaxEdits

ModelInit ==
  /\ versions = [m \in {} |-> NotPromoting]
  /\ promotion = [p \in Promoters |-> NotPromoting]
  /\ queued = NoModel /\ loaded = NoModel /\ promoted = NoModel
  /\ settled = FALSE /\ restarted = FALSE /\ stamps = 0 /\ edits = 0

-------------------------------------------------------------------------------
(* The documents *)

Put(m, doc) == versions' = [n \in DOMAIN versions \cup {m} |-> IF n = m THEN doc ELSE versions[n]]
Doc(status, origin, artifact) ==
  [status |-> status, origin |-> origin, artifact |-> artifact, cloudOnly |-> FALSE, stamp |-> 0]
\* Promotions under way are no longer alone
Disturbed == [p \in Promoters |-> [promotion[p] EXCEPT !.alone = FALSE]]

\* create_model: no artifact yet
CreateModel(m, origin) ==
  /\ m \notin DOMAIN versions
  /\ Put(m, Doc("draft", origin, FALSE))
  /\ UNCHANGED <<promotion, queued, loaded, promoted, settled, restarted, stamps, edits>>
\* pull_model_from_roboflow: registered once the file is stored; until then
\* nothing of a failed pull is left
PullModel(m) ==
  /\ m \notin DOMAIN versions
  /\ Put(m, Doc("draft", "roboflow", TRUE))
  /\ UNCHANGED <<promotion, queued, loaded, promoted, settled, restarted, stamps, edits>>
\* update_model: any status, and the path of the file
UpdateModel(m, status, artifact) ==
  /\ m \in DOMAIN versions /\ edits < MaxEdits /\ edits' = edits + 1
  /\ <<status, artifact>> # <<versions[m].status, versions[m].artifact>>
  /\ artifact \/ ~versions[m].artifact
  /\ versions' = [versions EXCEPT ![m].status = status, ![m].artifact = artifact]
  /\ settled' = FALSE
  /\ promotion' = Disturbed
  /\ UNCHANGED <<queued, loaded, promoted, restarted, stamps>>
DeleteModel(m) ==
  /\ m \in DOMAIN versions /\ edits < MaxEdits /\ edits' = edits + 1
  /\ versions' = [n \in DOMAIN versions \ {m} |-> versions[n]]
  /\ settled' = (settled /\ m # promoted)
  /\ promotion' = Disturbed
  /\ UNCHANGED <<queued, loaded, promoted, restarted, stamps>>

-------------------------------------------------------------------------------
(* promote_model, with "production" for its target *)

Production == {m \in DOMAIN versions : versions[m].status = "production"}

Begin(p, m) ==
  /\ stamps < MaxPromotions
  /\ stamps' = stamps + 1
  /\ promotion' = [[q \in Promoters |-> [promotion[q] EXCEPT !.alone = FALSE]] EXCEPT
       ![p] = [at |-> "retire", model |-> m, stamp |-> stamps + 1,
               alone |-> Promoting = {}]]
Step(p, at) == promotion' = [promotion EXCEPT ![p].at = at]
Over(p) == promotion' = [promotion EXCEPT ![p] = NotPromoting]

\* The model need not exist
BeginPromotion(p, m) ==
  /\ promotion[p].at = "idle"
  /\ Begin(p, m)
  /\ UNCHANGED <<versions, queued, loaded, promoted, settled, restarted, edits>>
\* deploy_trained_model registers the model of a training job and promotes it
DeployTrained(p, m) ==
  /\ promotion[p].at = "idle" /\ m \notin DOMAIN versions
  /\ Put(m, Doc("staging", "learning", TRUE))
  /\ Begin(p, m)
  /\ UNCHANGED <<queued, loaded, promoted, settled, restarted, edits>>

\* (mutant) the models to retire are looked for among those staged
Retire_Staged(p, m) == [n \in DOMAIN versions |->
  IF versions[n].status = "staging" /\ n # m
  THEN [versions[n] EXCEPT !.status = "retired"] ELSE versions[n]]
Retire(p, m) == [n \in DOMAIN versions |->
  IF versions[n].status = "production" /\ n # m
  THEN [versions[n] EXCEPT !.status = "retired"] ELSE versions[n]]
RetireOthers(p) ==
  /\ promotion[p].at = "retire"
  /\ versions' = Retire(p, promotion[p].model)
  /\ settled' = FALSE
  /\ Step(p, "set")
  /\ UNCHANGED <<queued, loaded, promoted, restarted, stamps, edits>>
\* Models of a YOLO architecture are for the cloud only, unless they are Roboflow's.
\* Every architecture a model is created or trained with is one.
Tagged(m) == versions[m].origin # "roboflow"
\* The read for the tag and the write: 404 when the model is gone, after the others have been retired
SetProduction(p) ==
  /\ promotion[p].at = "set"
  /\ LET m == promotion[p].model IN
     IF m \in DOMAIN versions
     THEN /\ versions' = [versions EXCEPT ![m].status = "production",
                            ![m].stamp = promotion[p].stamp,
                            ![m].cloudOnly = @ \/ Tagged(m)]
          /\ Step(p, "deploy")
     ELSE Over(p) /\ UNCHANGED versions
  /\ UNCHANGED <<queued, loaded, promoted, settled, restarted, stamps, edits>>
\* Commands for all agents, if there is a file the agents may have
Deploy(p) ==
  /\ promotion[p].at = "deploy"
  /\ LET m == promotion[p].model
         sends == m \in DOMAIN versions /\ ~versions[m].cloudOnly /\ versions[m].artifact
     IN /\ queued' = IF sends THEN m ELSE queued
        /\ promoted' = m
        /\ settled' = promotion[p].alone
        /\ restarted' = FALSE
  /\ Over(p)
  /\ UNCHANGED <<versions, loaded, stamps, edits>>
\* The request ends between two writes, or the commands are not written
PromotionDies(p) ==
  /\ promotion[p].at # "idle"
  /\ Over(p)
  /\ settled' = FALSE
  /\ UNCHANGED <<versions, queued, loaded, promoted, restarted, stamps, edits>>

-------------------------------------------------------------------------------
(* The cloud's own copy *)

\* load_production_model, when the process starts: the newest promotion wins; a
\* model without a file, or whose file does not load, leaves it without one
LoadProduction(works) ==
  /\ \E m \in Production : \A n \in Production : versions[n].stamp <= versions[m].stamp
  /\ \E m \in Production :
       /\ \A n \in Production : versions[n].stamp <= versions[m].stamp
       /\ loaded' = IF versions[m].artifact /\ works THEN m ELSE NoModel
  /\ restarted' = works
  /\ UNCHANGED <<versions, promotion, queued, promoted, settled, stamps, edits>>

ModelNext ==
  \/ \E m \in Models :
       \/ \E o \in {"created", "roboflow"} : CreateModel(m, o)
       \/ PullModel(m) \/ DeleteModel(m)
       \/ \E s \in {"staging", "production"}, a \in BOOLEAN : UpdateModel(m, s, a)
       \/ \E p \in Promoters : BeginPromotion(p, m) \/ DeployTrained(p, m)
  \/ \E p \in Promoters :
       RetireOthers(p) \/ SetProduction(p) \/ Deploy(p) \/ PromotionDies(p)
  \/ \E works \in BOOLEAN : LoadProduction(works)

ModelSpec == ModelInit /\ [][ModelNext]_modelVars
-------------------------------------------------------------------------------
(* Properties *)

\* After a promotion that nothing overlapped, and whatever half-done or concurrent
\* promotions came before it, the registry, the edge agents and the cloud agree on
\* the model: it alone is in production, it is what the agents were told to install
\* if they may have it, and what the cloud's process loads when it starts again.
PromotionAgrees ==
  settled =>
    /\ Production = {promoted}
    /\ ~versions[promoted].cloudOnly /\ versions[promoted].artifact => queued = promoted
    /\ restarted /\ versions[promoted].artifact => loaded = promoted
===============================================================================
