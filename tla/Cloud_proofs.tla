------------------------------ MODULE Cloud_proofs ------------------------------
(***************************************************************************)
(* Theorems about the cloud's own services: the model registry             *)
(* (PromotionAgrees), a model pulled from Roboflow (LonePullIsRight), the  *)
(* notifications (QuietWithinWindow), the detection settings and their     *)
(* cache (CacheCatchesUp), detection in the cloud (WetIsReported), the     *)
(* learning frames (NoFrameTooMany) and the dataset (RequestsAreServed),   *)
(* for any number of models, rules, cameras, frames and calls, wherever    *)
(* their steps interleave.  The services share no state, and each has its  *)
(* own section; the last one has them side by side (ServiceTypes).         *)
(***************************************************************************)
EXTENDS MCServices, Incidents_proofs, SequenceTheorems

-------------------------------------------------------------------------------
(* The model versions *)

Version == [status : Statuses, origin : Origins, artifact : BOOLEAN, cloudOnly : BOOLEAN,
            stamp : 0 .. MaxPromotions]
Promotion == [at : {"idle", "retire", "set", "deploy"}, model : Models \cup {NoModel},
              stamp : 0 .. MaxPromotions, alone : BOOLEAN]
ModelTypes ==
  /\ ModelTypeOK
  /\ \A p \in Promoters : promotion[p].at # "idle" => promotion[p].model \in Models

\* A promotion that is alone has no other beside it, and its model is the only one in
\* production once the others were retired and it was set.
AloneRight ==
  \A p \in Promoters : promotion[p].alone =>
    /\ promotion[p].at # "idle" /\ \A q \in Promoters \ {p} : promotion[q].at = "idle"
    /\ promotion[p].at = "set" => Production \subseteq {promotion[p].model}
    /\ promotion[p].at = "deploy" => Production = {promotion[p].model}
\* What is settled stays so until a promotion retires others: none is further than that.
SettledRight == settled => \A p \in Promoters : promotion[p].at \in {"idle", "retire"}
ModelInv == ModelTypes /\ AloneRight /\ SettledRight /\ PromotionAgrees

LEMMA ModelInitInv ==
  ASSUME ModelInit
  PROVE  ModelInv
<1>1. 0 \in 0 .. MaxPromotions /\ 0 \in 0 .. MaxEdits
  BY ModelAssumption
<1>2. NotPromoting \in Promotion /\ NotPromoting.at = "idle" /\ ~NotPromoting.alone
  BY <1>1 DEF NotPromoting, Promotion
<1>3. DOMAIN versions = {}
  BY DEF ModelInit
<1>4. \A p \in Promoters : promotion[p] = NotPromoting
  BY DEF ModelInit
<1>5. ModelTypes
  BY <1>1, <1>2, <1>3, <1>4 DEF ModelInit, ModelTypes, ModelTypeOK, Promotion
<1>6. AloneRight /\ SettledRight /\ PromotionAgrees
  BY <1>2, <1>4 DEF ModelInit, AloneRight, SettledRight, PromotionAgrees
<1> QED
  BY <1>5, <1>6 DEF ModelInv

\* The documents and promotions a step begins with
LEMMA ModelParts ==
  ASSUME ModelInv
  PROVE  /\ DOMAIN versions \subseteq Models
         /\ \A m \in DOMAIN versions : versions[m] \in Version
         /\ promotion \in [Promoters -> Promotion]
         /\ \A p \in Promoters : promotion[p].at # "idle" => promotion[p].model \in Models
         /\ queued \in Models \cup {NoModel} /\ loaded \in Models \cup {NoModel}
         /\ promoted \in Models \cup {NoModel}
         /\ settled \in BOOLEAN /\ restarted \in BOOLEAN
         /\ stamps \in 0 .. MaxPromotions /\ edits \in 0 .. MaxEdits
         /\ MaxPromotions \in Nat /\ MaxEdits \in Nat
BY ModelAssumption DEF ModelInv, ModelTypes, ModelTypeOK, Version, Promotion

\* A new document is not in production, so nothing changes there.
LEMMA PutStep ==
  ASSUME ModelInv, NEW m \in Models, m \notin DOMAIN versions,
         NEW status \in {"draft", "staging"}, NEW origin \in Origins, NEW artifact \in BOOLEAN,
         Put(m, Doc(status, origin, artifact))
  PROVE  /\ DOMAIN versions' = DOMAIN versions \cup {m}
         /\ \A n \in DOMAIN versions : versions'[n] = versions[n]
         /\ \A n \in DOMAIN versions' : versions'[n] \in Version
         /\ Production' = Production
<1>1. PICK d : d = Doc(status, origin, artifact)
  OBVIOUS
<1>2. d \in Version /\ d.status # "production"
  BY <1>1, ModelParts DEF Doc, Version, Statuses
<1>3. versions' = [n \in DOMAIN versions \cup {m} |-> IF n = m THEN d ELSE versions[n]]
  BY <1>1 DEF Put
<1>4. /\ DOMAIN versions' = DOMAIN versions \cup {m} /\ versions'[m] = d
      /\ \A n \in DOMAIN versions : versions'[n] = versions[n]
  BY <1>3
<1>5. Production' = Production
  BY <1>2, <1>4 DEF Production
<1> QED
  BY <1>2, <1>4, <1>5, ModelParts

\* A model is created or pulled.
LEMMA NewModelStep ==
  ASSUME ModelInv, NEW m \in Models,
         (\E o \in {"created", "roboflow"} : CreateModel(m, o)) \/ PullModel(m)
  PROVE  ModelInv'
<1>1. /\ m \notin DOMAIN versions
      /\ UNCHANGED <<promotion, queued, loaded, promoted, settled, restarted, stamps, edits>>
      /\ \E o \in Origins, f \in BOOLEAN : Put(m, Doc("draft", o, f))
  BY DEF CreateModel, PullModel, Origins
<1>2. /\ DOMAIN versions' = DOMAIN versions \cup {m}
      /\ \A n \in DOMAIN versions : versions'[n] = versions[n]
      /\ \A n \in DOMAIN versions' : versions'[n] \in Version
      /\ Production' = Production
  BY <1>1, PutStep
<1>3. ModelTypes'
  BY <1>1, <1>2, ModelParts DEF ModelInv, ModelTypes, ModelTypeOK, Version
<1>4. AloneRight' /\ SettledRight'
  BY <1>1, <1>2 DEF ModelInv, AloneRight, SettledRight
<1>5. PromotionAgrees'
  <2>1. settled => promoted \in DOMAIN versions
    BY DEF ModelInv, PromotionAgrees, Production
  <2> QED
    BY <1>1, <1>2, <2>1 DEF ModelInv, PromotionAgrees
<1> QED
  BY <1>3, <1>4, <1>5 DEF ModelInv

\* An update or a deletion leaves no promotion alone; what was settled stays so only if the
\* model deleted is another one.
LEMMA DisturbedTypes ==
  ASSUME ModelInv, promotion' = Disturbed
  PROVE  /\ promotion' \in [Promoters -> Promotion]
         /\ \A p \in Promoters : promotion'[p].at = promotion[p].at
                                 /\ promotion'[p].model = promotion[p].model
                                 /\ promotion'[p].alone = FALSE
<1>1. promotion \in [Promoters -> Promotion]
  BY ModelParts
<1>2. ASSUME NEW p \in Promoters
      PROVE  /\ promotion'[p] \in Promotion /\ promotion'[p].at = promotion[p].at
             /\ promotion'[p].model = promotion[p].model /\ promotion'[p].alone = FALSE
  <2>1. PICK w \in Promotion : w = promotion[p]
    BY <1>1
  <2>2. promotion'[p] = [w EXCEPT !.alone = FALSE]
    BY <2>1 DEF Disturbed
  <2> QED
    BY <2>1, <2>2 DEF Promotion
<1>3. promotion' \in [Promoters -> Promotion]
  <2>1. promotion' = [p \in Promoters |-> promotion'[p]]
    BY DEF Disturbed
  <2>2. \A p \in Promoters : promotion'[p] \in Promotion
    BY <1>2
  <2> QED
    BY <2>1, <2>2
<1>4. \A p \in Promoters : promotion'[p].at = promotion[p].at
                          /\ promotion'[p].model = promotion[p].model
                          /\ promotion'[p].alone = FALSE
  BY <1>2
<1> QED
  BY <1>3, <1>4

LEMMA EditStep ==
  ASSUME ModelInv, NEW m \in Models,
         \/ DeleteModel(m)
         \/ \E s \in {"staging", "production"}, a \in BOOLEAN : UpdateModel(m, s, a)
  PROVE  ModelInv'
<1>1. /\ m \in DOMAIN versions /\ edits < MaxEdits /\ edits' = edits + 1
      /\ UNCHANGED <<queued, loaded, promoted, restarted, stamps>>
      /\ settled' \in BOOLEAN /\ (settled' => settled) /\ promotion' = Disturbed
  BY ModelParts DEF DeleteModel, UpdateModel
<1>2. edits' \in 0 .. MaxEdits
  BY <1>1, ModelParts
<1>3. /\ promotion' \in [Promoters -> Promotion]
      /\ \A p \in Promoters : promotion'[p].at = promotion[p].at
                              /\ promotion'[p].model = promotion[p].model
                              /\ promotion'[p].alone = FALSE
  BY <1>1, DisturbedTypes
<1>4. DOMAIN versions' \subseteq Models /\ \A n \in DOMAIN versions' : versions'[n] \in Version
  <2>1. CASE DeleteModel(m)
    BY <2>1, ModelParts DEF DeleteModel
  <2>2. ASSUME NEW s \in {"staging", "production"}, NEW a \in BOOLEAN, UpdateModel(m, s, a)
        PROVE  DOMAIN versions' \subseteq Models /\ \A n \in DOMAIN versions' : versions'[n] \in Version
    <3>1. PICK w \in Version : w = versions[m]
      BY <1>1, ModelParts
    <3>2. PICK d \in Version : d = [w EXCEPT !.status = s, !.artifact = a]
      BY DEF Version, Statuses
    <3>3. versions' = [versions EXCEPT ![m].status = s, ![m].artifact = a]
      BY <2>2 DEF UpdateModel
    <3>4. versions' = [versions EXCEPT ![m] = d]
      BY <1>1, <3>1, <3>2, <3>3
    <3> QED
      BY <1>1, <3>4, ModelParts
  <2> QED
    BY <2>1, <2>2
<1>5. ModelTypes'
  <2>1. \A q \in Promoters : promotion'[q].at # "idle" => promotion'[q].model \in Models
    BY <1>3 DEF ModelInv, ModelTypes
  <2>2. ModelTypeOK'
    <3>1. settled' \in BOOLEAN /\ restarted' \in BOOLEAN /\ stamps' \in 0 .. MaxPromotions
          /\ {queued', loaded', promoted'} \subseteq Models \cup {NoModel}
      BY <1>1, ModelParts
    <3> QED
      BY <1>2, <1>3, <1>4, <3>1 DEF ModelTypeOK, Version, Promotion
  <2> QED
    BY <2>1, <2>2 DEF ModelTypes
<1>6. AloneRight' /\ SettledRight'
  BY <1>1, <1>3 DEF ModelInv, AloneRight, SettledRight
<1>7. PromotionAgrees'
  <2>1. CASE DeleteModel(m) /\ settled /\ m # promoted
    <3>1. versions' = [n \in DOMAIN versions \ {m} |-> versions[n]]
      BY <2>1 DEF DeleteModel
    <3>2. Production = {promoted} /\ promoted \in DOMAIN versions
      BY <2>1 DEF ModelInv, PromotionAgrees, Production
    <3>3. versions'[promoted] = versions[promoted]
      BY <2>1, <3>1, <3>2
    <3>4. Production' = {promoted}
      BY <2>1, <3>1, <3>2 DEF Production
    <3> QED
      BY <1>1, <2>1, <3>3, <3>4 DEF ModelInv, PromotionAgrees
  <2>2. CASE ~settled'
    BY <2>2 DEF PromotionAgrees
  <2>3. settled' => DeleteModel(m) /\ settled /\ m # promoted
    BY DEF DeleteModel, UpdateModel
  <2> QED
    BY <2>1, <2>2, <2>3
<1> QED
  BY <1>5, <1>6, <1>7 DEF ModelInv

\* A promotion begins, of a model that exists or not: it is alone if none is under way.
LEMMA BeginStep ==
  ASSUME ModelInv, NEW p \in Promoters, NEW m \in Models, BeginPromotion(p, m) \/ DeployTrained(p, m)
  PROVE  ModelInv'
<1>1. /\ promotion[p].at = "idle" /\ Begin(p, m)
      /\ UNCHANGED <<queued, loaded, promoted, settled, restarted, edits>>
  BY DEF BeginPromotion, DeployTrained
<1>2. /\ DOMAIN versions' \subseteq Models /\ \A n \in DOMAIN versions' : versions'[n] \in Version
      /\ \A n \in DOMAIN versions : versions'[n] = versions[n]
      /\ Production' = Production
  <2>1. CASE BeginPromotion(p, m)
    BY <2>1, ModelParts DEF BeginPromotion, Production
  <2>2. CASE DeployTrained(p, m)
    <3>1. m \notin DOMAIN versions /\ Put(m, Doc("staging", "learning", TRUE))
      BY <2>2 DEF DeployTrained
    <3> QED
      BY <3>1, PutStep, ModelParts DEF Origins
  <2> QED
    BY <2>1, <2>2
<1>3. PICK w : w = [at |-> "retire", model |-> m, stamp |-> stamps + 1, alone |-> Promoting = {}]
  OBVIOUS
<1>4. w \in Promotion /\ w.at = "retire" /\ w.model = m /\ (w.alone <=> Promoting = {})
  <2>1. stamps + 1 \in 0 .. MaxPromotions
    BY <1>1, ModelParts DEF Begin
  <2> QED
    BY <1>3, <2>1 DEF Promotion
<1>5. PICK calm : calm = [q \in Promoters |-> [promotion[q] EXCEPT !.alone = FALSE]]
  OBVIOUS
<1>6. /\ calm \in [Promoters -> Promotion]
      /\ \A q \in Promoters : calm[q].at = promotion[q].at
                              /\ calm[q].model = promotion[q].model /\ calm[q].alone = FALSE
  <2>1. ASSUME NEW q \in Promoters
        PROVE  /\ calm[q] \in Promotion /\ calm[q].at = promotion[q].at
               /\ calm[q].model = promotion[q].model /\ calm[q].alone = FALSE
    <3>1. PICK v \in Promotion : v = promotion[q]
      BY ModelParts
    <3>2. calm[q] = [v EXCEPT !.alone = FALSE]
      BY <1>5, <3>1
    <3> QED
      BY <3>1, <3>2 DEF Promotion
  <2>2. calm = [q \in Promoters |-> calm[q]]
    BY <1>5
  <2> QED
    BY <2>1, <2>2
<1>7. promotion' = [calm EXCEPT ![p] = w]
  BY <1>1, <1>3, <1>5 DEF Begin
<1>8. /\ promotion' \in [Promoters -> Promotion] /\ promotion'[p] = w
      /\ \A q \in Promoters \ {p} : promotion'[q] = calm[q]
  BY <1>4, <1>6, <1>7
<1>9. ModelTypes'
  <2>1. stamps' \in 0 .. MaxPromotions
    BY <1>1, ModelParts DEF Begin
  <2>2. \A q \in Promoters : promotion'[q].at # "idle" => promotion'[q].model \in Models
    BY <1>4, <1>6, <1>8, ModelParts
  <2> QED
    BY <1>1, <1>2, <1>8, <2>1, <2>2, ModelParts
       DEF ModelTypes, ModelTypeOK, Version, Promotion
<1>10. AloneRight'
  <2> SUFFICES ASSUME NEW q \in Promoters, promotion'[q].alone
               PROVE  /\ q = p /\ promotion'[q].at = "retire"
                      /\ \A r \in Promoters \ {p} : promotion'[r].at = "idle"
    BY DEF AloneRight
  <2>1. q = p
    BY <1>6, <1>8
  <2>2. Promoting = {}
    BY <1>4, <1>8, <2>1
  <2> QED
    BY <1>4, <1>6, <1>8, <2>1, <2>2 DEF Promoting
<1>11. SettledRight'
  BY <1>1, <1>4, <1>6, <1>8 DEF ModelInv, SettledRight
<1>12. PromotionAgrees'
  <2>1. settled => promoted \in DOMAIN versions
    BY DEF ModelInv, PromotionAgrees, Production
  <2> QED
    BY <1>1, <1>2, <2>1 DEF ModelInv, PromotionAgrees
<1> QED
  BY <1>9, <1>10, <1>11, <1>12 DEF ModelInv

\* A promotion goes on, ends, or dies.
LEMMA PromotionChange ==
  ASSUME ModelInv, NEW p \in Promoters, NEW w \in Promotion, promotion' = [promotion EXCEPT ![p] = w],
         promotion[p].at # "idle", w.at # "idle" => w.model = promotion[p].model
  PROVE  /\ promotion' \in [Promoters -> Promotion] /\ promotion'[p] = w
         /\ \A q \in Promoters \ {p} : promotion'[q] = promotion[q]
         /\ \A q \in Promoters : promotion'[q].at # "idle" => promotion'[q].model \in Models
         /\ \A q \in Promoters \ {p} : ~promotion'[q].alone
<1>1. promotion \in [Promoters -> Promotion]
  BY ModelParts
<1>2. /\ promotion' \in [Promoters -> Promotion] /\ promotion'[p] = w
      /\ \A q \in Promoters \ {p} : promotion'[q] = promotion[q]
  BY <1>1
<1>3. \A q \in Promoters : promotion'[q].at # "idle" => promotion'[q].model \in Models
  BY <1>2, ModelParts
<1>4. \A q \in Promoters \ {p} : ~promotion'[q].alone
  BY <1>2 DEF ModelInv, AloneRight
<1> QED
  BY <1>2, <1>3, <1>4

LEMMA StageTypes ==
  ASSUME ModelInv, NEW p \in Promoters, NEW at \in {"set", "deploy"}, Step(p, at)
  PROVE  \E w \in Promotion : /\ promotion' = [promotion EXCEPT ![p] = w]
                              /\ w.at = at /\ w.model = promotion[p].model
                              /\ w.alone = promotion[p].alone
<1>1. promotion \in [Promoters -> Promotion] /\ promotion[p] \in Promotion
  BY ModelParts
<1>2. PICK v \in Promotion : v = promotion[p]
  BY <1>1
<1>3. PICK w : w = [v EXCEPT !.at = at]
  OBVIOUS
<1>4. w \in Promotion /\ w.at = at /\ w.model = v.model /\ w.alone = v.alone
  BY <1>3 DEF Promotion
<1>5. promotion' = [promotion EXCEPT ![p] = w]
  BY <1>1, <1>2, <1>3 DEF Step
<1> QED
  BY <1>2, <1>4, <1>5

LEMMA OverTypes ==
  ASSUME ModelInv
  PROVE  NotPromoting \in Promotion /\ NotPromoting.at = "idle" /\ ~NotPromoting.alone
<1>1. 0 \in 0 .. MaxPromotions
  BY ModelAssumption
<1> QED
  BY <1>1 DEF NotPromoting, Promotion

LEMMA RetireStep ==
  ASSUME ModelInv, NEW p \in Promoters, RetireOthers(p)
  PROVE  ModelInv'
<1>1. /\ promotion[p].at = "retire" /\ settled' = FALSE /\ Step(p, "set")
      /\ UNCHANGED <<queued, loaded, promoted, restarted, stamps, edits>>
      /\ versions' = Retire(p, promotion[p].model)
  BY DEF RetireOthers
<1>2. PICK w \in Promotion : /\ promotion' = [promotion EXCEPT ![p] = w]
                             /\ w.at = "set" /\ w.model = promotion[p].model
                             /\ w.alone = promotion[p].alone
  BY <1>1, StageTypes
<1>3. /\ promotion' \in [Promoters -> Promotion] /\ promotion'[p] = w
      /\ \A q \in Promoters \ {p} : promotion'[q] = promotion[q]
      /\ \A q \in Promoters : promotion'[q].at # "idle" => promotion'[q].model \in Models
      /\ \A q \in Promoters \ {p} : ~promotion'[q].alone
  BY <1>1, <1>2, PromotionChange
<1>4. PICK m : m = promotion[p].model
  OBVIOUS
<1>5. /\ DOMAIN versions' = DOMAIN versions
      /\ \A n \in DOMAIN versions' : versions'[n] \in Version
      /\ Production' \subseteq {m}
  <2>1. versions' = [n \in DOMAIN versions |->
                       IF versions[n].status = "production" /\ n # m
                       THEN [versions[n] EXCEPT !.status = "retired"] ELSE versions[n]]
    BY <1>1, <1>4 DEF Retire
  <2>2. ASSUME NEW n \in DOMAIN versions
        PROVE  versions'[n] \in Version /\ (versions'[n].status = "production" => n = m)
    <3>1. PICK v \in Version : v = versions[n]
      BY ModelParts
    <3>2. CASE v.status = "production" /\ n # m
      <4>1. versions'[n] = [v EXCEPT !.status = "retired"]
        BY <2>1, <3>1, <3>2
      <4> QED
        BY <4>1 DEF Version, Statuses
    <3>3. CASE ~(v.status = "production" /\ n # m)
      BY <2>1, <3>1, <3>3
    <3> QED
      BY <3>2, <3>3
  <2>3. DOMAIN versions' = DOMAIN versions
    BY <2>1
  <2> QED
    BY <2>2, <2>3 DEF Production
<1>6. ModelTypes'
  BY <1>1, <1>3, <1>5, ModelParts DEF ModelTypes, ModelTypeOK, Version, Promotion
<1>7. AloneRight'
  BY <1>2, <1>3, <1>4, <1>5 DEF ModelInv, AloneRight
<1>8. SettledRight' /\ PromotionAgrees'
  BY <1>1 DEF SettledRight, PromotionAgrees
<1> QED
  BY <1>6, <1>7, <1>8 DEF ModelInv

LEMMA SetStep ==
  ASSUME ModelInv, NEW p \in Promoters, SetProduction(p)
  PROVE  ModelInv'
<1>1. /\ promotion[p].at = "set"
      /\ UNCHANGED <<queued, loaded, promoted, settled, restarted, stamps, edits>>
  BY DEF SetProduction
<1>2. ~settled'
  BY <1>1, ModelParts DEF ModelInv, SettledRight
<1>3. SettledRight' /\ PromotionAgrees'
  BY <1>2 DEF SettledRight, PromotionAgrees
<1>4. PICK m \in Models : m = promotion[p].model
  BY <1>1, ModelParts
<1>5. CASE m \in DOMAIN versions
  <2>1. Step(p, "deploy")
    BY <1>4, <1>5 DEF SetProduction
  <2>2. PICK w \in Promotion : /\ promotion' = [promotion EXCEPT ![p] = w]
                               /\ w.at = "deploy" /\ w.model = promotion[p].model
                               /\ w.alone = promotion[p].alone
    BY <2>1, StageTypes
  <2>3. /\ promotion' \in [Promoters -> Promotion] /\ promotion'[p] = w
        /\ \A q \in Promoters \ {p} : promotion'[q] = promotion[q]
        /\ \A q \in Promoters : promotion'[q].at # "idle" => promotion'[q].model \in Models
        /\ \A q \in Promoters \ {p} : ~promotion'[q].alone
    BY <1>1, <2>2, PromotionChange
  <2>4. PICK v \in Version : v = versions[m]
    BY <1>5, ModelParts
  <2>5. PICK stamp \in 0 .. MaxPromotions : stamp = promotion[p].stamp
    BY ModelParts DEF Promotion
  <2>6. PICK tagged \in BOOLEAN : tagged = (v.cloudOnly \/ Tagged(m))
    OBVIOUS
  <2>7. PICK d : d = [v EXCEPT !.status = "production", !.stamp = stamp, !.cloudOnly = tagged]
    OBVIOUS
  <2>8. d \in Version /\ d.status = "production"
    BY <2>7 DEF Version, Statuses
  <2>9. versions' = [versions EXCEPT ![m] = d]
    <3>1. versions' = [versions EXCEPT ![m].status = "production", ![m].stamp = stamp,
                                       ![m].cloudOnly = @ \/ Tagged(m)]
      BY <1>4, <1>5, <2>5 DEF SetProduction
    <3> QED
      BY <1>5, <2>4, <2>6, <2>7, <3>1
  <2>10. /\ DOMAIN versions' = DOMAIN versions /\ versions'[m] = d
         /\ \A n \in DOMAIN versions \ {m} : versions'[n] = versions[n]
    BY <1>5, <2>9
  <2>11. Production' = Production \cup {m}
    BY <1>5, <2>8, <2>10 DEF Production
  <2>12. ModelTypes'
    BY <1>1, <2>3, <2>8, <2>10, ModelParts DEF ModelTypes, ModelTypeOK, Version, Promotion
  <2>13. AloneRight'
    BY <1>1, <1>4, <2>2, <2>3, <2>11 DEF ModelInv, AloneRight
  <2> QED
    BY <1>3, <2>12, <2>13 DEF ModelInv
<1>6. CASE m \notin DOMAIN versions
  <2>1. promotion' = [promotion EXCEPT ![p] = NotPromoting] /\ versions' = versions
    BY <1>4, <1>6 DEF SetProduction, Over
  <2>2. PICK w \in Promotion : w = NotPromoting /\ w.at = "idle" /\ ~w.alone
    BY OverTypes
  <2>3. /\ promotion' \in [Promoters -> Promotion] /\ promotion'[p] = w
        /\ \A q \in Promoters \ {p} : promotion'[q] = promotion[q]
        /\ \A q \in Promoters : promotion'[q].at # "idle" => promotion'[q].model \in Models
        /\ \A q \in Promoters \ {p} : ~promotion'[q].alone
    BY <1>1, <2>1, <2>2, PromotionChange
  <2>4. ModelTypes'
    BY <1>1, <2>1, <2>3, ModelParts DEF ModelTypes, ModelTypeOK, Version, Promotion
  <2>5. AloneRight'
    BY <2>2, <2>3 DEF AloneRight
  <2> QED
    BY <1>3, <2>4, <2>5 DEF ModelInv
<1> QED
  BY <1>5, <1>6

LEMMA EndStep ==
  ASSUME ModelInv, NEW p \in Promoters, Deploy(p) \/ PromotionDies(p)
  PROVE  ModelInv'
<1>1. /\ promotion[p].at # "idle" /\ promotion' = [promotion EXCEPT ![p] = NotPromoting]
      /\ UNCHANGED <<versions, loaded, stamps, edits>>
  BY DEF Deploy, PromotionDies, Over
<1>2. PICK w \in Promotion : w = NotPromoting /\ w.at = "idle" /\ ~w.alone
  BY OverTypes
<1>3. /\ promotion' \in [Promoters -> Promotion] /\ promotion'[p] = w
      /\ \A q \in Promoters \ {p} : promotion'[q] = promotion[q]
      /\ \A q \in Promoters : promotion'[q].at # "idle" => promotion'[q].model \in Models
      /\ \A q \in Promoters \ {p} : ~promotion'[q].alone
  BY <1>1, <1>2, PromotionChange
<1>4. AloneRight'
  BY <1>2, <1>3 DEF AloneRight
<1>5. CASE PromotionDies(p)
  <2>1. settled' = FALSE /\ UNCHANGED <<queued, promoted, restarted>>
    BY <1>5 DEF PromotionDies
  <2>2. ModelTypes'
    BY <1>1, <1>3, <2>1, ModelParts DEF ModelTypes, ModelTypeOK, Version, Promotion
  <2>3. SettledRight' /\ PromotionAgrees'
    BY <2>1 DEF SettledRight, PromotionAgrees
  <2> QED
    BY <1>4, <2>2, <2>3 DEF ModelInv
<1>6. CASE Deploy(p)
  <2>1. PICK m \in Models : m = promotion[p].model
    BY <1>1, ModelParts
  <2>2. /\ promotion[p].at = "deploy" /\ promoted' = m /\ settled' = promotion[p].alone
        /\ restarted' = FALSE
        /\ queued' = IF m \in DOMAIN versions /\ ~versions[m].cloudOnly /\ versions[m].artifact
                     THEN m ELSE queued
    BY <1>6, <2>1 DEF Deploy
  <2>3. ModelTypes'
    <3>1. promotion[p].alone \in BOOLEAN
      BY ModelParts DEF Promotion
    <3> QED
      BY <1>1, <1>3, <2>2, <3>1, ModelParts DEF ModelTypes, ModelTypeOK, Version, Promotion
  <2>4. SettledRight'
    <3> SUFFICES ASSUME promotion[p].alone, NEW q \in Promoters
                 PROVE  promotion'[q].at = "idle"
      BY <2>2 DEF SettledRight
    <3>1. q # p => promotion[q].at = "idle"
      BY <1>1 DEF ModelInv, AloneRight
    <3> QED
      BY <1>2, <1>3, <3>1
  <2>5. PromotionAgrees'
    <3> SUFFICES ASSUME promotion[p].alone
                 PROVE  /\ Production' = {m} /\ m \in DOMAIN versions
      BY <1>1, <2>2 DEF PromotionAgrees
    <3> QED
      BY <1>1, <2>1, <2>2 DEF ModelInv, AloneRight, Production
  <2> QED
    BY <1>4, <2>3, <2>4, <2>5 DEF ModelInv
<1> QED
  BY <1>5, <1>6

LEMMA LoadStep ==
  ASSUME ModelInv, NEW works \in BOOLEAN, LoadProduction(works)
  PROVE  ModelInv'
<1>1. /\ UNCHANGED <<versions, promotion, queued, promoted, settled, stamps, edits>>
      /\ restarted' = works
  BY DEF LoadProduction
<1>2. PICK m \in Production :
        loaded' = IF versions[m].artifact /\ works THEN m ELSE NoModel
  BY DEF LoadProduction
<1>3. m \in Models
  BY ModelParts DEF Production
<1>4. ModelTypes'
  BY <1>1, <1>2, <1>3, ModelParts DEF ModelTypes, ModelTypeOK, Version, Promotion
<1>5. AloneRight' /\ SettledRight'
  BY <1>1 DEF ModelInv, AloneRight, SettledRight, Production
<1>6. PromotionAgrees'
  <2>1. settled => m = promoted
    BY DEF ModelInv, PromotionAgrees
  <2> QED
    BY <1>1, <1>2, <2>1 DEF ModelInv, PromotionAgrees, Production
<1> QED
  BY <1>4, <1>5, <1>6 DEF ModelInv

LEMMA ModelInductive ==
  ASSUME ModelInv, [ModelNext]_modelVars
  PROVE  ModelInv'
<1>1. ASSUME NEW m \in Models,
             (\E o \in {"created", "roboflow"} : CreateModel(m, o)) \/ PullModel(m)
      PROVE  ModelInv'
  BY <1>1, NewModelStep
<1>2. ASSUME NEW m \in Models,
             \/ DeleteModel(m)
             \/ \E s \in {"staging", "production"}, a \in BOOLEAN : UpdateModel(m, s, a)
      PROVE  ModelInv'
  BY <1>2, EditStep
<1>3. ASSUME NEW m \in Models, NEW p \in Promoters, BeginPromotion(p, m) \/ DeployTrained(p, m)
      PROVE  ModelInv'
  BY <1>3, BeginStep
<1>4. ASSUME NEW p \in Promoters,
             RetireOthers(p) \/ SetProduction(p) \/ Deploy(p) \/ PromotionDies(p)
      PROVE  ModelInv'
  BY <1>4, RetireStep, SetStep, EndStep
<1>5. ASSUME NEW works \in BOOLEAN, LoadProduction(works)
      PROVE  ModelInv'
  BY <1>5, LoadStep
<1>6. CASE UNCHANGED modelVars
  BY <1>6 DEF modelVars, ModelInv, ModelTypes, ModelTypeOK, AloneRight, SettledRight,
              PromotionAgrees, Production
<1> QED
  BY <1>1, <1>2, <1>3, <1>4, <1>5, <1>6 DEF ModelNext

LEMMA ModelInvariant == ModelSpec => []ModelInv
<1>1. ModelInit => ModelInv
  BY ModelInitInv
<1>2. ModelInv /\ [ModelNext]_modelVars => ModelInv'
  BY ModelInductive
<1> QED
  BY <1>1, <1>2, PTL DEF ModelSpec

\* Type correctness of the registry of models: promotions of models that do not exist, or
\* are deleted half-way, leave no document that is not one.
THEOREM ModelTypeCorrect == ModelSpec => []ModelTypeOK
<1>1. ModelInv => ModelTypeOK
  BY DEF ModelInv, ModelTypes
<1> QED
  BY <1>1, ModelInvariant, PTL

\* For any number of models and promotions, however they overlap or die: after one that ran
\* alone, and while nothing else touched the production model, the registry, the agents'
\* last command and the cloud's own copy are of the one model that was promoted.
THEOREM PromotionAgreesCorrect == ModelSpec => []PromotionAgrees
<1>1. ModelInv => PromotionAgrees
  BY DEF ModelInv
<1> QED
  BY <1>1, ModelInvariant, PTL

-------------------------------------------------------------------------------
(* The models pulled from Roboflow *)

PullStates == {"idle", "rest", "store", "classes", "promote", "over"} \cup InThread
PullRecord ==
  [at : PullStates, version : Known, select : BOOLEAN, back : Pulls \cup {Home},
   bytes : Known, raised : BOOLEAN]

\* A pull knows its version from the start, what was fetched for it is a version's
\* weights, and its own version's unless it met another pull.
FetchedRight ==
  \A p \in Pulls :
    /\ pull[p].at # "idle" => pull[p].version \in RoboflowVersions
    /\ pull[p].at \in {"store", "classes", "promote"} =>
         /\ pull[p].bytes \in RoboflowVersions
         /\ p \notin overlapped => pull[p].bytes = pull[p].version
\* Conversions that run at the same time have met; each has its directory.
ThreadsRight ==
  /\ dirs = {Home} \cup Converting
  /\ \A p, q \in Converting : p # q => p \in overlapped
\* Before any two have met, the process is at home but for the one that fetches.
CwdRight ==
  overlapped = {} =>
    /\ Converting = {} => cwd = Home
    /\ \A p \in Converting :
         /\ pull[p].at \in {"getcwd", "chdir", "convert"} => cwd = Home
         /\ pull[p].at \in {"chdir", "download", "leave"} => pull[p].back = Home
\* A directory that is gone holds nothing, and the directory of a pull that met no
\* other one holds nothing but its own version.
WeightsRight ==
  \A p \in Pulls :
    /\ p \notin Converting => weights[p] = NoVersionYet
    /\ p \in Converting \ overlapped => weights[p] \in {NoVersionYet, pull[p].version}
RegisteredRight == \A r \in registered : r.by \notin overlapped => r.weights = r.version
SelectedRight ==
  \A p \in Pulls :
    /\ p \in selected => pull[p].at = "over"
    /\ (p \in selected \/ pull[p].at = "promote") /\ p \notin overlapped \cup nameless =>
         pull[p].version \in classNames
PullInv ==
  /\ PullTypeOK /\ FetchedRight /\ ThreadsRight /\ CwdRight /\ WeightsRight
  /\ RegisteredRight /\ SelectedRight

LEMMA PullInitInv ==
  ASSUME PullInit
  PROVE  PullInv
<1>1. /\ NotAsked \in PullRecord /\ NotAsked.at = "idle" /\ "idle" \notin InThread
  BY DEF NotAsked, PullRecord, PullStates, Known, InThread
<1>2. \A p \in Pulls : pull[p] = NotAsked
  BY DEF PullInit
<1>3. Converting = {}
  BY <1>1, <1>2 DEF Converting
<1>4. PullTypeOK
  BY <1>1 DEF PullInit, PullTypeOK, PullRecord, PullStates, Known
<1>5. FetchedRight /\ SelectedRight
  BY <1>1, <1>2 DEF FetchedRight, SelectedRight, PullInit
<1>6. ThreadsRight /\ CwdRight /\ RegisteredRight
  BY <1>3 DEF ThreadsRight, CwdRight, RegisteredRight, PullInit
<1>7. WeightsRight
  BY <1>3 DEF WeightsRight, PullInit
<1> QED
  BY <1>4, <1>5, <1>6, <1>7 DEF PullInv

\* One pull's record changes.
LEMMA PullChange ==
  ASSUME PullInv, NEW p \in Pulls, NEW w \in PullRecord, pull' = [pull EXCEPT ![p] = w]
  PROVE  /\ pull' \in [Pulls -> PullRecord] /\ pull'[p] = w
         /\ \A q \in Pulls \ {p} : pull'[q] = pull[q]
         /\ w.at \in InThread => Converting' = Converting \cup {p}
         /\ w.at \notin InThread => Converting' = Converting \ {p}
<1>1. pull \in [Pulls -> PullRecord]
  BY DEF PullInv, PullTypeOK, PullRecord, PullStates
<1>2. /\ pull' \in [Pulls -> PullRecord] /\ pull'[p] = w
      /\ \A q \in Pulls \ {p} : pull'[q] = pull[q]
  BY <1>1
<1>3. /\ w.at \in InThread => Converting' = Converting \cup {p}
      /\ w.at \notin InThread => Converting' = Converting \ {p}
  BY <1>2 DEF Converting
<1> QED
  BY <1>2, <1>3

\* A pull that moves on keeps its version, and the rest of its record unless it is over.
LEMMA MovesRecord ==
  ASSUME PullInv, NEW p \in Pulls, NEW at \in PullStates, Moves(p, at)
  PROVE  \E w \in PullRecord :
           /\ pull' = [pull EXCEPT ![p] = w]
           /\ w.at = at /\ w.version = pull[p].version
           /\ at # "over" => w.bytes = pull[p].bytes /\ w.back = pull[p].back
<1>1. pull \in [Pulls -> PullRecord]
  BY DEF PullInv, PullTypeOK, PullRecord, PullStates
<1>2. PICK v \in PullRecord : v = pull[p]
  BY <1>1
<1>3. CASE at = "over"
  <2>1. PICK w : w = [NotAsked EXCEPT !.at = at, !.version = v.version]
    OBVIOUS
  <2>2. w \in PullRecord /\ w.at = at /\ w.version = v.version
    BY <1>2, <2>1 DEF NotAsked, PullRecord, Known
  <2>3. pull' = [pull EXCEPT ![p] = w]
    BY <1>2, <1>3, <2>1 DEF Moves
  <2> QED
    BY <1>2, <1>3, <2>2, <2>3
<1>4. CASE at # "over"
  <2>1. PICK w : w = [v EXCEPT !.at = at]
    OBVIOUS
  <2>2. w \in PullRecord /\ w.at = at /\ w.version = v.version /\ w.bytes = v.bytes
        /\ w.back = v.back
    BY <1>2, <2>1 DEF PullRecord
  <2>3. pull' = [pull EXCEPT ![p] = w]
    BY <1>1, <1>2, <1>4, <2>1 DEF Moves
  <2> QED
    BY <1>2, <2>2, <2>3
<1> QED
  BY <1>3, <1>4

\* What a step outside the conversion's thread leaves as it is
LEMMA OutsideThread ==
  ASSUME PullInv, NEW p \in Pulls, NEW w \in PullRecord, pull' = [pull EXCEPT ![p] = w],
         pull[p].at \notin InThread, w.at \notin InThread, UNCHANGED <<cwd, dirs, weights, overlapped>>
  PROVE  /\ ThreadsRight' /\ CwdRight' /\ WeightsRight'
         /\ pull' \in [Pulls -> PullRecord] /\ pull'[p] = w
         /\ \A q \in Pulls \ {p} : pull'[q] = pull[q]
<1>1. /\ pull' \in [Pulls -> PullRecord] /\ pull'[p] = w
      /\ \A q \in Pulls \ {p} : pull'[q] = pull[q]
      /\ w.at \notin InThread => Converting' = Converting \ {p}
  BY PullChange
<1>2. Converting' = Converting /\ p \notin Converting /\ Converting \subseteq Pulls
  BY <1>1 DEF Converting
<1>3. ThreadsRight'
  BY <1>2 DEF PullInv, ThreadsRight
<1>4. CwdRight'
  BY <1>1, <1>2 DEF PullInv, CwdRight
<1>5. WeightsRight'
  BY <1>1, <1>2 DEF PullInv, WeightsRight
<1> QED
  BY <1>1, <1>3, <1>4, <1>5

\* What a step of the thread leaves as it is, whether the thread goes on or is over
LEMMA InsideThread ==
  ASSUME PullInv, NEW p \in Pulls, NEW w \in PullRecord, pull' = [pull EXCEPT ![p] = w],
         pull[p].at \in InThread, w.version = pull[p].version,
         w.at \in InThread \cup {"over", "store"},
         dirs' = IF w.at \in InThread THEN dirs ELSE dirs \ {p},
         w.at = "store" => /\ w.bytes \in RoboflowVersions
                           /\ p \notin overlapped => w.bytes = w.version,
         UNCHANGED <<registered, classNames, nameless, selected, overlapped>>
  PROVE  /\ FetchedRight' /\ ThreadsRight' /\ RegisteredRight' /\ SelectedRight'
         /\ pull' \in [Pulls -> PullRecord] /\ pull'[p] = w
         /\ \A q \in Pulls \ {p} : pull'[q] = pull[q]
         /\ dirs' \subseteq Pulls \cup {Home} /\ Home \in dirs'
<1>1. /\ pull' \in [Pulls -> PullRecord] /\ pull'[p] = w
      /\ \A q \in Pulls \ {p} : pull'[q] = pull[q]
      /\ w.at \in InThread => Converting' = Converting \cup {p}
      /\ w.at \notin InThread => Converting' = Converting \ {p}
  BY PullChange
<1>2. p \in Converting /\ p # Home
  BY ModelPullAssumption DEF Converting
<1>3. pull[p].at # "idle" /\ pull[p].at # "over"
  BY DEF InThread
<1>4. FetchedRight'
  <2> SUFFICES ASSUME NEW q \in Pulls
               PROVE  /\ pull'[q].at # "idle" => pull'[q].version \in RoboflowVersions
                      /\ pull'[q].at \in {"store", "classes", "promote"} =>
                           /\ pull'[q].bytes \in RoboflowVersions
                           /\ q \notin overlapped => pull'[q].bytes = pull'[q].version
    BY DEF FetchedRight
  <2>1. CASE q = p
    <3>1. w.at \notin {"classes", "promote"}
      BY DEF InThread
    <3> QED
      BY <1>1, <1>3, <2>1, <3>1 DEF PullInv, FetchedRight
  <2>2. CASE q # p
    BY <1>1, <2>2 DEF PullInv, FetchedRight
  <2> QED
    BY <2>1, <2>2
<1>5. ThreadsRight' /\ dirs' \subseteq Pulls \cup {Home} /\ Home \in dirs'
  <2>1. dirs' = {Home} \cup Converting'
    BY <1>1, <1>2 DEF PullInv, ThreadsRight
  <2>2. Converting' \subseteq Converting /\ Converting \subseteq Pulls
    BY <1>1, <1>2 DEF Converting
  <2> QED
    BY <2>1, <2>2 DEF PullInv, ThreadsRight
<1>6. RegisteredRight'
  BY DEF PullInv, RegisteredRight
<1>7. SelectedRight'
  <2>1. p \notin selected /\ w.at # "promote"
    BY <1>3 DEF PullInv, SelectedRight, InThread
  <2> QED
    BY <1>1, <2>1 DEF PullInv, SelectedRight
<1> QED
  BY <1>1, <1>4, <1>5, <1>6, <1>7

\* The steps before the thread and the requests that need none
LEMMA AskStep ==
  ASSUME PullInv, NEW p \in Pulls, NEW v \in RoboflowVersions, AskPull(p, v) \/ AskSelect(p, v)
  PROVE  PullInv'
<1>1. PICK s \in BOOLEAN : Ask(p, v, s)
  BY DEF AskPull, AskSelect
<1>2. PICK w : w = [NotAsked EXCEPT !.at = "rest", !.version = v, !.select = s]
  OBVIOUS
<1>3. w \in PullRecord /\ w.at = "rest" /\ w.version = v
  BY <1>2 DEF NotAsked, PullRecord, PullStates, Known
<1>4. /\ pull[p].at = "idle" /\ pull' = [pull EXCEPT ![p] = w]
      /\ UNCHANGED <<cwd, dirs, weights, registered, classNames, nameless, selected, overlapped>>
  BY <1>1, <1>2 DEF Ask
<1>5. "idle" \notin InThread /\ "rest" \notin InThread
  BY DEF InThread
<1>6. /\ ThreadsRight' /\ CwdRight' /\ WeightsRight'
      /\ pull' \in [Pulls -> PullRecord] /\ pull'[p] = w
      /\ \A q \in Pulls \ {p} : pull'[q] = pull[q]
  BY <1>3, <1>4, <1>5, OutsideThread
<1>7. PullTypeOK'
  BY <1>4, <1>6 DEF PullInv, PullTypeOK, PullRecord, PullStates
<1>8. FetchedRight' /\ RegisteredRight' /\ SelectedRight'
  BY <1>3, <1>4, <1>6 DEF PullInv, FetchedRight, RegisteredRight, SelectedRight
<1> QED
  BY <1>6, <1>7, <1>8 DEF PullInv

LEMMA RestStep ==
  ASSUME PullInv, NEW p \in Pulls,
         NotConfigured(p) \/ DetailsFail(p) \/ RestServes(p) \/ StoreFails(p)
  PROVE  PullInv'
<1>1. /\ pull[p].at \in {"rest", "store"}
      /\ UNCHANGED <<cwd, dirs, weights, registered, classNames, nameless, selected, overlapped>>
  BY DEF NotConfigured, DetailsFail, RestServes, StoreFails
<1>2. pull[p].version \in RoboflowVersions
  BY <1>1 DEF PullInv, FetchedRight
<1>3. PICK w \in PullRecord :
        /\ pull' = [pull EXCEPT ![p] = w] /\ w.version = pull[p].version
        /\ w.at = "over" \/ (w.at = "store" /\ w.bytes = w.version)
  <2>1. CASE RestServes(p)
    <3>1. PICK u \in PullRecord : u = pull[p]
      BY DEF PullInv, PullTypeOK, PullRecord, PullStates
    <3>2. PICK w : w = [u EXCEPT !.at = "store", !.bytes = u.version]
      OBVIOUS
    <3>3. w \in PullRecord /\ w.at = "store" /\ w.version = u.version /\ w.bytes = u.version
      BY <3>2 DEF PullRecord, PullStates
    <3>4. pull' = [pull EXCEPT ![p] = w]
      BY <2>1, <3>1, <3>2 DEF RestServes, PullInv, PullTypeOK
    <3> QED
      BY <3>1, <3>3, <3>4
  <2>2. CASE ~RestServes(p)
    <3>1. Moves(p, "over") /\ "over" \in PullStates
      BY <2>2 DEF NotConfigured, DetailsFail, StoreFails, PullStates
    <3> QED
      BY <3>1, MovesRecord
  <2> QED
    BY <2>1, <2>2
<1>4. pull[p].at \notin InThread /\ w.at \notin InThread
  BY <1>1, <1>3 DEF InThread
<1>5. /\ ThreadsRight' /\ CwdRight' /\ WeightsRight'
      /\ pull' \in [Pulls -> PullRecord] /\ pull'[p] = w
      /\ \A q \in Pulls \ {p} : pull'[q] = pull[q]
  BY <1>1, <1>3, <1>4, OutsideThread
<1>6. PullTypeOK'
  BY <1>1, <1>5 DEF PullInv, PullTypeOK, PullRecord, PullStates
<1>7. FetchedRight' /\ RegisteredRight' /\ SelectedRight'
  BY <1>1, <1>2, <1>3, <1>5 DEF PullInv, FetchedRight, RegisteredRight, SelectedRight
<1> QED
  BY <1>5, <1>6, <1>7 DEF PullInv

\* The thread begins: every pull in its thread has now met this one.
LEMMA RestLacksStep ==
  ASSUME PullInv, NEW p \in Pulls, RestLacks(p)
  PROVE  PullInv'
<1>1. /\ pull[p].at = "rest" /\ dirs' = dirs \cup {p}
      /\ overlapped' = IF Converting = {} THEN overlapped ELSE overlapped \cup Converting \cup {p}
      /\ UNCHANGED <<cwd, weights, registered, classNames, nameless, selected>>
  BY DEF RestLacks
<1>2. "getcwd" \in PullStates /\ "getcwd" \in InThread /\ "rest" \notin InThread
  BY DEF PullStates, InThread
<1>3. PICK w \in PullRecord : /\ pull' = [pull EXCEPT ![p] = w] /\ w.at = "getcwd"
                              /\ w.version = pull[p].version
  BY <1>2, MovesRecord DEF RestLacks
<1>4. /\ pull' \in [Pulls -> PullRecord] /\ pull'[p] = w
      /\ \A q \in Pulls \ {p} : pull'[q] = pull[q]
      /\ Converting' = Converting \cup {p}
  BY <1>2, <1>3, PullChange, ZenonT(40)
<1>5. p \notin Converting /\ Converting \subseteq Pulls /\ overlapped \subseteq overlapped'
  BY <1>1, <1>2 DEF Converting
<1>6. pull[p].version \in RoboflowVersions /\ p \notin selected
  BY <1>1 DEF PullInv, FetchedRight, SelectedRight
<1>7. PullTypeOK'
  BY <1>1, <1>4, <1>5 DEF PullInv, PullTypeOK, PullRecord, PullStates
<1>8. FetchedRight' /\ RegisteredRight' /\ SelectedRight'
  <2>1. FetchedRight'
    BY <1>3, <1>4, <1>5, <1>6 DEF PullInv, FetchedRight
  <2>2. RegisteredRight'
    BY <1>1, <1>5 DEF PullInv, RegisteredRight
  <2>3. SelectedRight'
    BY <1>1, <1>3, <1>4, <1>5, <1>6 DEF PullInv, SelectedRight
  <2> QED
    BY <2>1, <2>2, <2>3
<1>9. ThreadsRight'
  BY <1>1, <1>4, <1>5 DEF PullInv, ThreadsRight
<1>10. CwdRight'
  <2> SUFFICES ASSUME overlapped' = {}
               PROVE  /\ Converting' = {} => cwd' = Home
                      /\ \A q \in Converting' :
                           /\ pull'[q].at \in {"getcwd", "chdir", "convert"} => cwd' = Home
                           /\ pull'[q].at \in {"chdir", "download", "leave"} => pull'[q].back = Home
    BY DEF CwdRight
  <2>1. Converting = {} /\ overlapped = {}
    BY <1>1
  <2>2. cwd = Home
    BY <2>1 DEF PullInv, CwdRight
  <2> QED
    BY <1>1, <1>3, <1>4, <2>1, <2>2
<1>11. WeightsRight'
  BY <1>1, <1>3, <1>4, <1>5 DEF PullInv, WeightsRight
<1> QED
  BY <1>7, <1>8, <1>9, <1>10, <1>11 DEF PullInv

\* Where the thread reads the current directory, changes it, fetches and goes back
LEMMA GetCwdStep ==
  ASSUME PullInv, NEW p \in Pulls, GetCwd(p)
  PROVE  PullInv'
<1>1. /\ pull[p].at = "getcwd" /\ "getcwd" \in InThread
      /\ UNCHANGED <<cwd, registered, classNames, nameless, selected, overlapped>>
  BY DEF GetCwd, InThread
<1>2. PICK u \in PullRecord : u = pull[p]
  BY DEF PullInv, PullTypeOK, PullRecord, PullStates
<1>3. PICK w \in PullRecord :
        /\ pull' = [pull EXCEPT ![p] = w] /\ w.version = u.version
        /\ \/ /\ cwd \in dirs /\ w.at = "chdir" /\ w.back = cwd /\ UNCHANGED <<dirs, weights>>
           \/ /\ cwd \notin dirs /\ w.at = "over" /\ Cleared(p)
  <2>1. CASE cwd \in dirs
    <3>1. PICK w : w = [u EXCEPT !.at = "chdir", !.back = cwd]
      OBVIOUS
    <3>2. w \in PullRecord /\ w.at = "chdir" /\ w.back = cwd /\ w.version = u.version
      BY <3>1 DEF PullRecord, PullStates, InThread, PullInv, PullTypeOK
    <3>3. pull' = [pull EXCEPT ![p] = w] /\ UNCHANGED <<dirs, weights>>
      BY <1>2, <2>1, <3>1 DEF GetCwd, PullInv, PullTypeOK
    <3> QED
      BY <2>1, <3>2, <3>3
  <2>2. CASE cwd \notin dirs
    <3>1. Moves(p, "over") /\ Cleared(p) /\ "over" \in PullStates
      BY <2>2 DEF GetCwd, PullStates
    <3> QED
      BY <1>2, <2>2, <3>1, MovesRecord
  <2> QED
    BY <2>1, <2>2
<1>4. /\ "chdir" \in InThread /\ "over" \notin InThread
  BY DEF InThread
<1>5. /\ FetchedRight' /\ ThreadsRight' /\ RegisteredRight' /\ SelectedRight'
      /\ pull' \in [Pulls -> PullRecord] /\ pull'[p] = w
      /\ \A q \in Pulls \ {p} : pull'[q] = pull[q]
      /\ dirs' \subseteq Pulls \cup {Home} /\ Home \in dirs'
  <2>1. /\ pull[p].at \in InThread /\ w.version = pull[p].version
        /\ w.at \in InThread \cup {"over", "store"} /\ w.at # "store"
        /\ dirs' = IF w.at \in InThread THEN dirs ELSE dirs \ {p}
    BY <1>1, <1>2, <1>3, <1>4 DEF Cleared
  <2> QED
    BY <1>1, <1>3, <2>1, InsideThread
<1>6. /\ w.at = "chdir" => Converting' = Converting /\ weights' = weights
      /\ w.at = "over" => /\ Converting' = Converting \ {p}
                          /\ weights' = [weights EXCEPT ![p] = NoVersionYet]
  BY <1>1, <1>3, <1>4, <1>5, PullChange DEF Cleared, Converting
<1>7. PullTypeOK'
  BY <1>1, <1>3, <1>5 DEF PullInv, PullTypeOK, PullRecord, PullStates, Cleared, Known
<1>8. CwdRight'
  <2> SUFFICES ASSUME overlapped = {}
               PROVE  /\ Converting' = {} => cwd = Home
                      /\ \A q \in Converting' :
                           /\ pull'[q].at \in {"getcwd", "chdir", "convert"} => cwd = Home
                           /\ pull'[q].at \in {"chdir", "download", "leave"} => pull'[q].back = Home
    BY <1>1 DEF CwdRight
  <2>1. p \in Converting /\ cwd = Home /\ Home \in dirs
    BY <1>1 DEF PullInv, CwdRight, ThreadsRight, Converting
  <2>2. w.at = "chdir" /\ w.back = Home /\ Converting' = Converting
    BY <1>3, <1>6, <2>1
  <2>3. \A q \in Converting : q = p
    BY <2>1 DEF PullInv, ThreadsRight
  <2> QED
    BY <1>5, <2>1, <2>2, <2>3
<1>9. WeightsRight'
  <2>1. weights \in [Pulls \cup {Home} -> Known]
    BY DEF PullInv, PullTypeOK
  <2>2. CASE w.at = "chdir"
    BY <1>1, <1>2, <1>3, <1>5, <1>6, <2>2 DEF PullInv, WeightsRight
  <2>3. CASE w.at = "over"
    BY <1>1, <1>2, <1>3, <1>5, <1>6, <2>1, <2>3 DEF PullInv, WeightsRight
  <2> QED
    BY <1>3, <2>2, <2>3
<1> QED
  BY <1>5, <1>7, <1>8, <1>9 DEF PullInv

LEMMA ChangeDirStep ==
  ASSUME PullInv, NEW p \in Pulls, ChangeDir(p)
  PROVE  PullInv'
<1>1. /\ pull[p].at = "chdir" /\ {"chdir", "download"} \subseteq InThread /\ cwd' = p
      /\ UNCHANGED <<dirs, weights, registered, classNames, nameless, selected, overlapped>>
  BY DEF ChangeDir, InThread
<1>2. PICK w \in PullRecord : /\ pull' = [pull EXCEPT ![p] = w] /\ w.at = "download"
                              /\ w.version = pull[p].version /\ w.back = pull[p].back
  <2>1. Moves(p, "download") /\ "download" \in PullStates
    BY DEF ChangeDir, PullStates, InThread
  <2> QED
    BY <2>1, MovesRecord
<1>3. /\ FetchedRight' /\ ThreadsRight' /\ RegisteredRight' /\ SelectedRight'
      /\ pull' \in [Pulls -> PullRecord] /\ pull'[p] = w
      /\ \A q \in Pulls \ {p} : pull'[q] = pull[q]
  BY <1>1, <1>2, InsideThread
<1>4. p \in Converting /\ Converting' = Converting
  BY <1>1, <1>2, PullChange DEF Converting
<1>5. PullTypeOK'
  BY <1>1, <1>3 DEF PullInv, PullTypeOK, PullRecord, PullStates
<1>6. CwdRight'
  <2> SUFFICES ASSUME overlapped = {}
               PROVE  /\ Converting' # {}
                      /\ \A q \in Converting' :
                           /\ pull'[q].at \notin {"getcwd", "chdir", "convert"}
                           /\ pull'[q].back = Home
    BY <1>1 DEF CwdRight
  <2>1. pull[p].back = Home
    BY <1>1, <1>4 DEF PullInv, CwdRight
  <2>2. \A q \in Converting : q = p
    BY <1>4 DEF PullInv, ThreadsRight
  <2> QED
    BY <1>2, <1>3, <1>4, <2>1, <2>2
<1>7. WeightsRight'
  BY <1>1, <1>2, <1>3, <1>4 DEF PullInv, WeightsRight
<1> QED
  BY <1>3, <1>5, <1>6, <1>7 DEF PullInv

\* A file that arrives in the directory of another pull does so because the two have met.
LEMMA DownloadStep ==
  ASSUME PullInv, NEW p \in Pulls, Download(p)
  PROVE  PullInv'
<1>1. /\ pull[p].at = "download" /\ {"leave", "download"} \subseteq InThread
      /\ UNCHANGED <<cwd, dirs, registered, classNames, nameless, selected, overlapped>>
  BY DEF Download, InThread
<1>2. PICK u \in PullRecord : u = pull[p]
  BY DEF PullInv, PullTypeOK, PullRecord, PullStates
<1>3. PICK w \in PullRecord : /\ pull' = [pull EXCEPT ![p] = w] /\ w.at = "leave"
                              /\ w.version = u.version /\ w.back = u.back
  <2>1. "leave" \in PullStates
    BY DEF PullStates, InThread
  <2>2. CASE Moves(p, "leave")
    BY <1>2, <2>1, <2>2, MovesRecord
  <2>3. CASE pull' = [pull EXCEPT ![p].at = "leave", ![p].raised = TRUE]
    <3>1. PICK w : w = [u EXCEPT !.at = "leave", !.raised = TRUE]
      OBVIOUS
    <3>2. w \in PullRecord /\ w.at = "leave" /\ w.version = u.version /\ w.back = u.back
      BY <2>1, <3>1 DEF PullRecord
    <3>3. pull' = [pull EXCEPT ![p] = w]
      BY <1>2, <2>3, <3>1 DEF PullInv, PullTypeOK
    <3> QED
      BY <3>2, <3>3
  <2> QED
    BY <2>2, <2>3 DEF Download
<1>4. /\ FetchedRight' /\ ThreadsRight' /\ RegisteredRight' /\ SelectedRight'
      /\ pull' \in [Pulls -> PullRecord] /\ pull'[p] = w
      /\ \A q \in Pulls \ {p} : pull'[q] = pull[q]
  BY <1>1, <1>2, <1>3, InsideThread
<1>5. p \in Converting /\ Converting' = Converting
  BY <1>1, <1>3, PullChange DEF Converting
<1>6. u.version \in RoboflowVersions
  BY <1>1, <1>2 DEF PullInv, FetchedRight
<1>7. \/ weights' = weights
      \/ cwd \in dirs /\ weights' = [weights EXCEPT ![cwd] = u.version]
  BY <1>2 DEF Download
<1>8. PullTypeOK'
  <2>1. weights' \in [Pulls \cup {Home} -> Known]
    BY <1>6, <1>7 DEF PullInv, PullTypeOK, Known
  <2> QED
    BY <1>1, <1>4, <2>1 DEF PullInv, PullTypeOK, PullRecord, PullStates
<1>9. CwdRight'
  <2> SUFFICES ASSUME overlapped = {}
               PROVE  /\ Converting' # {}
                      /\ \A q \in Converting' :
                           /\ pull'[q].at \notin {"getcwd", "chdir", "convert"}
                           /\ pull'[q].back = Home
    BY <1>1 DEF CwdRight
  <2>1. u.back = Home
    BY <1>1, <1>2, <1>5 DEF PullInv, CwdRight
  <2>2. \A q \in Converting : q = p
    BY <1>5 DEF PullInv, ThreadsRight
  <2> QED
    BY <1>3, <1>4, <1>5, <2>1, <2>2
<1>10. WeightsRight'
  <2> SUFFICES ASSUME NEW q \in Pulls
               PROVE  /\ q \notin Converting => weights'[q] = NoVersionYet
                      /\ q \in Converting \ overlapped => weights'[q] \in {NoVersionYet, pull'[q].version}
    BY <1>1, <1>5 DEF WeightsRight
  <2>1. pull'[q].version = pull[q].version
    BY <1>2, <1>3, <1>4
  <2>2. CASE weights'[q] = weights[q]
    BY <2>1, <2>2 DEF PullInv, WeightsRight
  <2>3. CASE weights'[q] # weights[q]
    <3>1. q = cwd /\ cwd \in dirs /\ weights'[q] = u.version
      BY <1>7, <2>3 DEF PullInv, PullTypeOK
    <3>2. q \in Converting
      BY <3>1, ModelPullAssumption DEF PullInv, ThreadsRight
    <3>3. q \notin overlapped => q = p
      BY <1>5, <3>2 DEF PullInv, ThreadsRight
    <3> QED
      BY <1>2, <2>1, <3>1, <3>2, <3>3
  <2> QED
    BY <2>2, <2>3
<1> QED
  BY <1>4, <1>8, <1>9, <1>10 DEF PullInv

LEMMA LeaveStep ==
  ASSUME PullInv, NEW p \in Pulls, Leave(p)
  PROVE  PullInv'
<1>1. /\ pull[p].at = "leave" /\ {"leave", "convert"} \subseteq InThread /\ "over" \notin InThread
      /\ UNCHANGED <<registered, classNames, nameless, selected, overlapped>>
      /\ cwd' = IF pull[p].back \in dirs THEN pull[p].back ELSE cwd
  BY DEF Leave, InThread
<1>2. PICK u \in PullRecord : u = pull[p]
  BY DEF PullInv, PullTypeOK, PullRecord, PullStates
<1>3. PICK w \in PullRecord : /\ pull' = [pull EXCEPT ![p] = w]
                              /\ w.version = pull[p].version
                              /\ \/ w.at = "over" /\ Cleared(p)
                                 \/ w.at = "convert" /\ UNCHANGED <<dirs, weights>>
  <2>1. "over" \in PullStates /\ "convert" \in PullStates
    BY DEF PullStates, InThread
  <2>2. CASE Moves(p, "over") /\ Cleared(p)
    BY <2>1, <2>2, MovesRecord
  <2>3. CASE Moves(p, "convert") /\ UNCHANGED <<dirs, weights>>
    BY <2>1, <2>3, MovesRecord
  <2> QED
    BY <2>2, <2>3 DEF Leave
<1>4. /\ FetchedRight' /\ ThreadsRight' /\ RegisteredRight' /\ SelectedRight'
      /\ pull' \in [Pulls -> PullRecord] /\ pull'[p] = w
      /\ \A q \in Pulls \ {p} : pull'[q] = pull[q]
      /\ dirs' \subseteq Pulls \cup {Home} /\ Home \in dirs'
  <2>1. /\ pull[p].at \in InThread /\ w.at \in InThread \cup {"over", "store"} /\ w.at # "store"
        /\ dirs' = IF w.at \in InThread THEN dirs ELSE dirs \ {p}
    BY <1>1, <1>3 DEF Cleared
  <2> QED
    BY <1>1, <1>3, <2>1, InsideThread
<1>5. /\ p \in Converting
      /\ w.at = "convert" => Converting' = Converting /\ weights' = weights
      /\ w.at = "over" => /\ Converting' = Converting \ {p}
                          /\ weights' = [weights EXCEPT ![p] = NoVersionYet]
  BY <1>1, <1>3, <1>4, PullChange DEF Cleared, Converting
<1>6. PullTypeOK'
  <2>1. cwd' \in Pulls \cup {Home}
    BY <1>1, <1>2 DEF PullRecord, PullInv, PullTypeOK
  <2> QED
    BY <1>1, <1>3, <1>4, <2>1 DEF PullInv, PullTypeOK, PullRecord, PullStates, Cleared, Known
<1>7. CwdRight'
  <2> SUFFICES ASSUME overlapped = {}
               PROVE  cwd' = Home /\ \A q \in Converting' : pull'[q].at = "convert"
    BY <1>1 DEF CwdRight
  <2>1. pull[p].back = Home /\ Home \in dirs
    BY <1>1, <1>5 DEF PullInv, CwdRight, ThreadsRight
  <2>2. \A q \in Converting : q = p
    BY <1>5 DEF PullInv, ThreadsRight
  <2> QED
    BY <1>1, <1>3, <1>4, <1>5, <2>1, <2>2
<1>8. WeightsRight'
  <2>1. weights \in [Pulls \cup {Home} -> Known]
    BY DEF PullInv, PullTypeOK
  <2>2. CASE w.at = "convert"
    BY <1>1, <1>3, <1>4, <1>5, <2>2 DEF PullInv, WeightsRight
  <2>3. CASE w.at = "over"
    BY <1>1, <1>3, <1>4, <1>5, <2>1, <2>3 DEF PullInv, WeightsRight
  <2> QED
    BY <1>3, <2>2, <2>3
<1> QED
  BY <1>4, <1>6, <1>7, <1>8 DEF PullInv

\* What the own directory holds is converted.
LEMMA ConvertStep ==
  ASSUME PullInv, NEW p \in Pulls, Convert(p)
  PROVE  PullInv'
<1>1. /\ pull[p].at = "convert" /\ "convert" \in InThread /\ {"over", "store"} \cap InThread = {}
      /\ UNCHANGED <<cwd, registered, classNames, nameless, selected, overlapped>>
      /\ dirs' = dirs \ {p} /\ weights' = [weights EXCEPT ![p] = NoVersionYet]
  BY DEF Convert, Cleared, InThread
<1>2. p \in Converting
  BY <1>1 DEF Converting
<1>3. PICK u \in PullRecord : u = pull[p]
  BY DEF PullInv, PullTypeOK, PullRecord, PullStates
<1>4. PICK w \in PullRecord :
        /\ pull' = [pull EXCEPT ![p] = w] /\ w.version = u.version
        /\ \/ w.at = "over"
           \/ w.at = "store" /\ w.bytes = weights[p] /\ weights[p] # NoVersionYet
  <2>1. CASE Moves(p, "over")
    <3>1. "over" \in PullStates
      BY DEF PullStates
    <3> QED
      BY <1>3, <2>1, <3>1, MovesRecord
  <2>2. CASE weights[p] # NoVersionYet
             /\ pull' = [pull EXCEPT ![p].at = "store", ![p].bytes = weights[p]]
    <3>1. PICK w : w = [u EXCEPT !.at = "store", !.bytes = weights[p]]
      OBVIOUS
    <3>2. weights[p] \in Known
      BY DEF PullInv, PullTypeOK
    <3>3. w \in PullRecord /\ w.at = "store" /\ w.version = u.version /\ w.bytes = weights[p]
      BY <3>1, <3>2 DEF PullRecord, PullStates
    <3>4. pull' = [pull EXCEPT ![p] = w]
      BY <1>3, <2>2, <3>1 DEF PullInv, PullTypeOK
    <3> QED
      BY <2>2, <3>3, <3>4
  <2> QED
    BY <2>1, <2>2 DEF Convert
<1>5. w.at = "store" => /\ w.bytes \in RoboflowVersions
                        /\ p \notin overlapped => w.bytes = w.version
  BY <1>2, <1>3, <1>4 DEF PullInv, PullTypeOK, WeightsRight, Known
<1>6. /\ FetchedRight' /\ ThreadsRight' /\ RegisteredRight' /\ SelectedRight'
      /\ pull' \in [Pulls -> PullRecord] /\ pull'[p] = w
      /\ \A q \in Pulls \ {p} : pull'[q] = pull[q]
      /\ dirs' \subseteq Pulls \cup {Home} /\ Home \in dirs'
  <2>1. /\ pull[p].at \in InThread /\ w.at \in InThread \cup {"over", "store"}
        /\ w.version = pull[p].version
        /\ dirs' = IF w.at \in InThread THEN dirs ELSE dirs \ {p}
    BY <1>1, <1>3, <1>4
  <2> QED
    BY <1>1, <1>4, <1>5, <2>1, InsideThread
<1>7. Converting' = Converting \ {p}
  BY <1>1, <1>4, PullChange
<1>8. PullTypeOK'
  BY <1>1, <1>6 DEF PullInv, PullTypeOK, PullRecord, PullStates, Known
<1>9. CwdRight'
  <2> SUFFICES ASSUME overlapped = {}
               PROVE  cwd = Home /\ Converting' = {}
    BY <1>1 DEF CwdRight
  <2>1. \A q \in Converting : q = p
    BY <1>2 DEF PullInv, ThreadsRight
  <2> QED
    BY <1>1, <1>2, <1>7, <2>1 DEF PullInv, CwdRight
<1>10. WeightsRight'
  <2>1. weights \in [Pulls \cup {Home} -> Known]
    BY DEF PullInv, PullTypeOK
  <2> QED
    BY <1>1, <1>6, <1>7, <2>1 DEF PullInv, WeightsRight
<1> QED
  BY <1>6, <1>8, <1>9, <1>10 DEF PullInv

\* What was fetched is registered, its classes are brought, and it is promoted.
LEMMA RegisterStep ==
  ASSUME PullInv, NEW p \in Pulls, Register(p)
  PROVE  PullInv'
<1>1. /\ pull[p].at = "store" /\ {"store", "classes", "over"} \cap InThread = {}
      /\ registered' = registered \cup
           {[by |-> p, version |-> pull[p].version, weights |-> pull[p].bytes]}
      /\ UNCHANGED <<cwd, dirs, weights, classNames, nameless, selected, overlapped>>
  BY DEF Register, InThread
<1>2. PICK w \in PullRecord :
        /\ pull' = [pull EXCEPT ![p] = w] /\ w.version = pull[p].version
        /\ w.at = "over" \/ (w.at = "classes" /\ w.bytes = pull[p].bytes)
  <2>1. PICK at \in {"over", "classes"} : Moves(p, at)
    BY DEF Register
  <2>2. at \in PullStates
    BY DEF PullStates
  <2> QED
    BY <2>1, <2>2, MovesRecord
<1>3. /\ ThreadsRight' /\ CwdRight' /\ WeightsRight'
      /\ pull' \in [Pulls -> PullRecord] /\ pull'[p] = w
      /\ \A q \in Pulls \ {p} : pull'[q] = pull[q]
  BY <1>1, <1>2, OutsideThread
<1>4. /\ pull[p].version \in RoboflowVersions /\ pull[p].bytes \in RoboflowVersions
      /\ p \notin overlapped => pull[p].bytes = pull[p].version
      /\ p \notin selected
  BY <1>1 DEF PullInv, FetchedRight, SelectedRight
<1>5. PullTypeOK'
  BY <1>1, <1>3, <1>4 DEF PullInv, PullTypeOK, PullRecord, PullStates
<1>6. FetchedRight' /\ SelectedRight'
  BY <1>1, <1>2, <1>3, <1>4 DEF PullInv, FetchedRight, SelectedRight
<1>7. RegisteredRight'
  BY <1>1, <1>4 DEF PullInv, RegisteredRight
<1> QED
  BY <1>3, <1>5, <1>6, <1>7 DEF PullInv

LEMMA BringClassesStep ==
  ASSUME PullInv, NEW p \in Pulls, BringClasses(p)
  PROVE  PullInv'
<1>1. /\ pull[p].at = "classes" /\ {"classes", "promote"} \cap InThread = {}
      /\ UNCHANGED <<cwd, dirs, weights, registered, selected, overlapped>>
      /\ \/ classNames' = classNames \cup {pull[p].version} /\ UNCHANGED nameless
         \/ classNames' = classNames \cup {pull[p].bytes} /\ UNCHANGED nameless
         \/ nameless' = nameless \cup {p} /\ UNCHANGED classNames
  BY DEF BringClasses, NamesFromRoboflow, InThread
<1>2. PICK w \in PullRecord : /\ pull' = [pull EXCEPT ![p] = w] /\ w.at = "promote"
                              /\ w.version = pull[p].version /\ w.bytes = pull[p].bytes
  <2>1. Moves(p, "promote") /\ "promote" \in PullStates
    BY DEF BringClasses, PullStates
  <2> QED
    BY <2>1, MovesRecord
<1>3. /\ ThreadsRight' /\ CwdRight' /\ WeightsRight'
      /\ pull' \in [Pulls -> PullRecord] /\ pull'[p] = w
      /\ \A q \in Pulls \ {p} : pull'[q] = pull[q]
  BY <1>1, <1>2, OutsideThread
<1>4. /\ pull[p].version \in RoboflowVersions /\ pull[p].bytes \in RoboflowVersions
      /\ p \notin overlapped => pull[p].bytes = pull[p].version
      /\ p \notin selected
  BY <1>1 DEF PullInv, FetchedRight, SelectedRight
<1>5. PullTypeOK'
  <2>1. classNames' \subseteq RoboflowVersions /\ nameless' \subseteq Pulls
    BY <1>1, <1>4 DEF PullInv, PullTypeOK
  <2> QED
    BY <1>1, <1>3, <2>1 DEF PullInv, PullTypeOK, PullRecord, PullStates
<1>6. FetchedRight' /\ RegisteredRight'
  BY <1>1, <1>2, <1>3, <1>4 DEF PullInv, FetchedRight, RegisteredRight
<1>7. SelectedRight'
  <2> SUFFICES ASSUME NEW q \in Pulls
               PROVE  /\ q \in selected => pull'[q].at = "over"
                      /\ (q \in selected \/ pull'[q].at = "promote") /\ q \notin overlapped \cup nameless' =>
                           pull'[q].version \in classNames'
    BY <1>1 DEF SelectedRight
  <2>1. classNames \subseteq classNames' /\ nameless \subseteq nameless'
    BY <1>1
  <2>2. CASE q = p
    BY <1>1, <1>2, <1>3, <1>4, <2>2
  <2>3. CASE q # p
    BY <1>3, <2>1, <2>3 DEF PullInv, SelectedRight
  <2> QED
    BY <2>2, <2>3
<1> QED
  BY <1>3, <1>5, <1>6, <1>7 DEF PullInv

LEMMA PromoteStep ==
  ASSUME PullInv, NEW p \in Pulls, Promote(p)
  PROVE  PullInv'
<1>1. /\ pull[p].at = "promote" /\ {"over", "promote"} \cap InThread = {} /\ selected' = {p}
      /\ UNCHANGED <<cwd, dirs, weights, registered, classNames, nameless, overlapped>>
  BY DEF Promote, InThread
<1>2. PICK w \in PullRecord : /\ pull' = [pull EXCEPT ![p] = w] /\ w.at = "over"
                              /\ w.version = pull[p].version
  <2>1. Moves(p, "over") /\ "over" \in PullStates
    BY DEF Promote, PullStates
  <2> QED
    BY <2>1, MovesRecord
<1>3. /\ ThreadsRight' /\ CwdRight' /\ WeightsRight'
      /\ pull' \in [Pulls -> PullRecord] /\ pull'[p] = w
      /\ \A q \in Pulls \ {p} : pull'[q] = pull[q]
  BY <1>1, <1>2, OutsideThread
<1>4. PullTypeOK'
  BY <1>1, <1>3 DEF PullInv, PullTypeOK, PullRecord, PullStates
<1>5. FetchedRight' /\ RegisteredRight' /\ SelectedRight'
  BY <1>1, <1>2, <1>3 DEF PullInv, FetchedRight, RegisteredRight, SelectedRight
<1> QED
  BY <1>3, <1>4, <1>5 DEF PullInv

LEMMA PullInductive ==
  ASSUME PullInv, [PullNext]_pullVars
  PROVE  PullInv'
<1>1. ASSUME NEW p \in Pulls, NEW v \in RoboflowVersions, AskPull(p, v) \/ AskSelect(p, v)
      PROVE  PullInv'
  BY <1>1, AskStep
<1>2. ASSUME NEW p \in Pulls, NotConfigured(p) \/ DetailsFail(p) \/ RestServes(p) \/ StoreFails(p)
      PROVE  PullInv'
  BY <1>2, RestStep
<1>3. ASSUME NEW p \in Pulls,
             RestLacks(p) \/ GetCwd(p) \/ ChangeDir(p) \/ Download(p) \/ Leave(p) \/ Convert(p)
      PROVE  PullInv'
  BY <1>3, RestLacksStep, GetCwdStep, ChangeDirStep, DownloadStep, LeaveStep, ConvertStep
<1>4. ASSUME NEW p \in Pulls, Register(p) \/ BringClasses(p) \/ Promote(p)
      PROVE  PullInv'
  BY <1>4, RegisterStep, BringClassesStep, PromoteStep
<1>5. CASE UNCHANGED pullVars
  BY <1>5 DEF pullVars, PullInv, PullTypeOK, FetchedRight, ThreadsRight, CwdRight,
       WeightsRight, RegisteredRight, SelectedRight, Converting
<1> QED
  BY <1>1, <1>2, <1>3, <1>4, <1>5 DEF PullNext

\* roboflow_model_service.py: the requests, directories and registered models stay
\* what the types say, whatever fails and in whichever order the threads run.
THEOREM PullTypeCorrect == PullSpec => []PullTypeOK
<1>1. PullInit => PullInv
  BY PullInitInv
<1>2. PullInv /\ [PullNext]_pullVars => PullInv'
  BY PullInductive
<1>3. PullInv => PullTypeOK
  BY DEF PullInv
<1> QED
  BY <1>1, <1>2, <1>3, PTL DEF PullSpec

\* A pull whose conversion met no other one registers the weights of the version it
\* was asked for, the process is back where it started, and no directory is left, for
\* any number of requests and versions.
THEOREM LonePullCorrect == PullSpec => []LonePullIsRight
<1>1. PullInit => PullInv
  BY PullInitInv
<1>2. PullInv /\ [PullNext]_pullVars => PullInv'
  BY PullInductive
<1>3. PullInv => LonePullIsRight
  BY DEF PullInv, PullTypeOK, FetchedRight, ThreadsRight, CwdRight, RegisteredRight, SelectedRight,
       LonePullIsRight
<1> QED
  BY <1>1, <1>2, <1>3, PTL DEF PullSpec

-------------------------------------------------------------------------------
(* The notifications *)

Task == [rule : Rules, tries : 0 .. MaxTries,
         state : {"queued", "running", "sent", "dropped", "dead"}]
Dispatch == [at : {"idle", "rules", "sent", "each", "record"}, todo : SUBSET Rules,
             sent : SUBSET Rules, done : SUBSET Rules]

\* A task that may still be tried has a try left; the dead letters are tasks.
TasksRight ==
  /\ tasks \in Seq(Task) /\ Len(tasks) <= MaxTasks
  /\ \A t \in 1 .. Len(tasks) : tasks[t].state \in {"queued", "running"} => tasks[t].tries < MaxTries
  /\ dead \in Seq(Nat) /\ Len(dead) <= DeadLimit
  /\ \A i \in 1 .. Len(dead) : dead[i] \in 1 .. Len(tasks)
NoteTypes ==
  /\ active \subseteq Rules /\ severe \in BOOLEAN
  /\ sinceSent \in [Rules -> 0 .. LongAgo]
  /\ dispatch \in [Dispatchers -> Dispatch]
  /\ disturbed \subseteq Dispatchers
  /\ breaker \in [failures : Nat, open : BOOLEAN]
  /\ deaths \in 0 .. MaxDeaths
\* Calls that run at the same time have disturbed one another.
MetRight == \A d, e \in Running : d # e => d \in disturbed
\* A call records what it has marked as sent, and only then; what a call that was not
\* disturbed has not found or marked as sent was last sent before the window.
SentRight ==
  \A d \in Dispatchers :
    /\ dispatch[d].done \subseteq IF dispatch[d].at = "record" THEN dispatch[d].sent ELSE {}
    /\ dispatch[d].at \in {"each", "record"} /\ d \notin disturbed =>
         \A r \in Rules \ dispatch[d].sent : sinceSent[r] > DedupWindow
NoteInv == TasksRight /\ NoteTypes /\ MetRight /\ SentRight

LEMMA NoteInitInv ==
  ASSUME NotificationInit
  PROVE  NoteInv
<1>1. /\ LongAgo \in Nat /\ MaxDeaths \in Nat /\ MaxTasks \in Nat /\ DeadLimit \in Nat
  BY NotificationAssumption DEF LongAgo
<1>2. NoDispatch \in Dispatch
  BY DEF NoDispatch, Dispatch
<1>3. /\ tasks \in Seq(Task) /\ Len(tasks) = 0 /\ dead \in Seq(Nat) /\ Len(dead) = 0
  BY DEF NotificationInit
<1>4. TasksRight
  BY <1>1, <1>3 DEF TasksRight
<1>5. NoteTypes
  <2>1. sinceSent \in [Rules -> 0 .. LongAgo] /\ dispatch \in [Dispatchers -> Dispatch]
    BY <1>1, <1>2 DEF NotificationInit
  <2>2. breaker \in [failures : Nat, open : BOOLEAN] /\ deaths \in 0 .. MaxDeaths
    BY <1>1 DEF NotificationInit
  <2> QED
    BY <2>1, <2>2 DEF NotificationInit, NoteTypes
<1>6. \A d \in Dispatchers : dispatch[d] = NoDispatch
  BY DEF NotificationInit
<1>7. MetRight /\ SentRight
  BY <1>6 DEF MetRight, SentRight, Running, NoDispatch
<1> QED
  BY <1>4, <1>5, <1>7 DEF NoteInv

\* The steps that leave the queue alone
LEMMA QueueKept ==
  ASSUME NoteInv, UNCHANGED <<tasks, dead>>
  PROVE  TasksRight'
BY DEF NoteInv, TasksRight

\* One dispatch changes.
LEMMA DispatchChange ==
  ASSUME NoteInv, NEW d \in Dispatchers, NEW w \in Dispatch, dispatch' = [dispatch EXCEPT ![d] = w]
  PROVE  /\ dispatch' \in [Dispatchers -> Dispatch] /\ dispatch'[d] = w
         /\ \A e \in Dispatchers \ {d} : dispatch'[e] = dispatch[e]
         /\ w.at # "idle" => Running' = Running \cup {d}
         /\ w.at = "idle" => Running' = Running \ {d}
<1>1. dispatch \in [Dispatchers -> Dispatch]
  BY DEF NoteInv, NoteTypes
<1>2. /\ dispatch' \in [Dispatchers -> Dispatch] /\ dispatch'[d] = w
      /\ \A e \in Dispatchers \ {d} : dispatch'[e] = dispatch[e]
  BY <1>1
<1>3. /\ w.at # "idle" => Running' = Running \cup {d}
      /\ w.at = "idle" => Running' = Running \ {d}
  BY <1>2 DEF Running
<1> QED
  BY <1>2, <1>3

\* Rules and the incident change, and time passes when no call is under way.
LEMMA WorldStep ==
  ASSUME NoteInv, (\E r \in Rules : ToggleRule(r)) \/ Upgrade \/ Wait
  PROVE  NoteInv'
<1>1. TasksRight'
  BY QueueKept DEF ToggleRule, Upgrade, Wait
<1>2. UNCHANGED <<dispatch, disturbed, breaker, deaths>>
  BY DEF ToggleRule, Upgrade, Wait
<1>3. active' \subseteq Rules /\ severe' \in BOOLEAN
  BY DEF ToggleRule, Upgrade, Wait, NoteInv, NoteTypes
<1>4. sinceSent' = sinceSent \/ Wait
  BY DEF ToggleRule, Upgrade
<1>5. sinceSent' \in [Rules -> 0 .. LongAgo]
  <2>1. LongAgo \in Nat
    BY NotificationAssumption DEF LongAgo
  <2>2. CASE Wait
    <3>1. \A r \in Rules : sinceSent[r] \in 0 .. LongAgo
      BY DEF NoteInv, NoteTypes
    <3> QED
      BY <2>1, <2>2, <3>1 DEF Wait
  <2> QED
    BY <1>4, <2>2 DEF NoteInv, NoteTypes
<1>6. NoteTypes'
  BY <1>2, <1>3, <1>5 DEF NoteInv, NoteTypes
<1>7. MetRight' /\ Running' = Running
  BY <1>2 DEF NoteInv, MetRight, Running
<1>8. SentRight'
  <2>1. CASE Wait
    <3>1. \A d \in Dispatchers : dispatch'[d].at = "idle" /\ dispatch'[d].done = {}
      BY <1>2, <2>1 DEF Wait, Running, NoteInv, SentRight
    <3> QED
      BY <3>1 DEF SentRight
  <2>2. CASE sinceSent' = sinceSent
    BY <1>2, <2>2 DEF NoteInv, SentRight
  <2> QED
    BY <1>4, <2>1, <2>2
<1> QED
  BY <1>1, <1>6, <1>7, <1>8 DEF NoteInv

LEMMA BeginDispatchStep ==
  ASSUME NoteInv, NEW d \in Dispatchers, BeginDispatch(d)
  PROVE  NoteInv'
<1>1. /\ dispatch[d].at = "idle"
      /\ dispatch' = [dispatch EXCEPT ![d].at = "rules"]
      /\ disturbed' = IF Running = {} THEN disturbed \ {d} ELSE disturbed \cup Running \cup {d}
      /\ UNCHANGED <<active, severe, sinceSent, tasks, breaker, dead, deaths>>
  BY DEF BeginDispatch
<1>2. PICK u \in Dispatch : u = dispatch[d]
  BY DEF NoteInv, NoteTypes
<1>3. PICK w : w = [u EXCEPT !.at = "rules"]
  OBVIOUS
<1>4. w \in Dispatch /\ w.at = "rules" /\ w.sent = u.sent /\ w.done = u.done
  BY <1>3 DEF Dispatch
<1>5. dispatch' = [dispatch EXCEPT ![d] = w]
  BY <1>1, <1>2, <1>3 DEF NoteInv, NoteTypes
<1>6. /\ dispatch' \in [Dispatchers -> Dispatch] /\ dispatch'[d] = w
      /\ \A e \in Dispatchers \ {d} : dispatch'[e] = dispatch[e]
      /\ Running' = Running \cup {d}
  BY <1>4, <1>5, DispatchChange
<1>7. Running \subseteq Dispatchers /\ d \notin Running
  BY <1>1 DEF Running
<1>8. TasksRight'
  BY <1>1, QueueKept
<1>9. NoteTypes'
  BY <1>1, <1>6, <1>7 DEF NoteInv, NoteTypes
<1>10. MetRight'
  BY <1>1, <1>6, <1>7 DEF NoteInv, MetRight
<1>11. SentRight'
  <2> SUFFICES ASSUME NEW e \in Dispatchers
               PROVE  /\ dispatch'[e].done \subseteq
                           IF dispatch'[e].at = "record" THEN dispatch'[e].sent ELSE {}
                      /\ dispatch'[e].at \in {"each", "record"} /\ e \notin disturbed' =>
                           \A r \in Rules \ dispatch'[e].sent : sinceSent[r] > DedupWindow
    BY <1>1 DEF SentRight
  <2>1. CASE e = d
    <3>1. u.done = {} /\ dispatch'[e] = w
      BY <1>1, <1>2, <1>6, <2>1 DEF NoteInv, SentRight
    <3> QED
      BY <1>4, <3>1
  <2>2. CASE e # d
    <3>1. e \notin disturbed' => e \notin disturbed
      BY <1>1, <2>2
    <3> QED
      BY <1>6, <2>2, <3>1 DEF NoteInv, SentRight
  <2> QED
    BY <2>1, <2>2
<1> QED
  BY <1>8, <1>9, <1>10, <1>11 DEF NoteInv

\* What a call reads and passes over
LEMMA ReadStep ==
  ASSUME NoteInv, NEW d \in Dispatchers,
         FindRules(d) \/ FindSent(d) \/ \E r \in Rules : SkipRule(d, r)
  PROVE  NoteInv' /\ \A e \in Dispatchers : dispatch'[e].done = dispatch[e].done
<1>1. /\ dispatch[d].at \in {"rules", "sent", "each"}
      /\ UNCHANGED <<active, severe, sinceSent, disturbed, tasks, breaker, dead, deaths>>
  BY DEF FindRules, FindSent, SkipRule
<1>2. PICK u \in Dispatch : u = dispatch[d]
  BY DEF NoteInv, NoteTypes
<1>3. dispatch \in [Dispatchers -> Dispatch] /\ active \subseteq Rules
  BY DEF NoteInv, NoteTypes
<1>4. PICK w \in Dispatch :
        /\ dispatch' = [dispatch EXCEPT ![d] = w] /\ w.at # "idle" /\ w.done = u.done
        /\ \/ w.at = "sent" /\ w.sent = u.sent
           \/ u.at = "each" /\ w.at = "each" /\ w.sent = u.sent
           \/ u.at = "sent" /\ w.at = "each" /\ w.sent = {r \in Rules : sinceSent[r] <= DedupWindow}
  <2>1. CASE FindRules(d)
    <3>1. PICK T : T = IF severe THEN active ELSE active \ SevereOnly
      OBVIOUS
    <3>2. PICK w : w = [u EXCEPT !.at = "sent", !.todo = T]
      OBVIOUS
    <3>3. w \in Dispatch /\ w.at = "sent" /\ w.sent = u.sent /\ w.done = u.done
      BY <1>3, <3>1, <3>2 DEF Dispatch
    <3>4. dispatch' = [dispatch EXCEPT ![d] = w]
      BY <1>2, <1>3, <2>1, <3>1, <3>2 DEF FindRules
    <3> QED
      BY <3>3, <3>4
  <2>2. CASE FindSent(d)
    <3>1. PICK S : S = {r \in Rules : sinceSent[r] <= DedupWindow}
      OBVIOUS
    <3>2. PICK w : w = [u EXCEPT !.at = "each", !.sent = S]
      OBVIOUS
    <3>3. w \in Dispatch /\ w.at = "each" /\ w.sent = S /\ w.done = u.done
      BY <3>1, <3>2 DEF Dispatch
    <3>4. dispatch' = [dispatch EXCEPT ![d] = w] /\ u.at = "sent"
      BY <1>2, <1>3, <2>2, <3>1, <3>2 DEF FindSent
    <3> QED
      BY <3>1, <3>3, <3>4
  <2>3. ASSUME NEW r \in Rules, SkipRule(d, r)
        PROVE  \E w \in Dispatch :
                 /\ dispatch' = [dispatch EXCEPT ![d] = w]
                 /\ u.at = "each" /\ w.at = "each" /\ w.sent = u.sent /\ w.done = u.done
    <3>1. PICK w : w = [u EXCEPT !.todo = @ \ {r}]
      OBVIOUS
    <3>2. w \in Dispatch /\ w.at = u.at /\ w.sent = u.sent /\ w.done = u.done
      BY <3>1 DEF Dispatch
    <3>3. dispatch' = [dispatch EXCEPT ![d] = w] /\ u.at = "each"
      BY <1>2, <1>3, <2>3, <3>1 DEF SkipRule
    <3> QED
      BY <3>2, <3>3
  <2> QED
    BY <2>1, <2>2, <2>3
<1>5. /\ dispatch' \in [Dispatchers -> Dispatch] /\ dispatch'[d] = w
      /\ \A e \in Dispatchers \ {d} : dispatch'[e] = dispatch[e]
      /\ Running' = Running \cup {d}
  BY <1>4, DispatchChange
<1>6. Running' = Running
  BY <1>1, <1>5 DEF Running
<1>7. NoteTypes' /\ MetRight'
  BY <1>1, <1>5, <1>6 DEF NoteInv, NoteTypes, MetRight
<1>8. SentRight'
  <2> SUFFICES ASSUME NEW e \in Dispatchers
               PROVE  /\ dispatch'[e].done \subseteq
                           IF dispatch'[e].at = "record" THEN dispatch'[e].sent ELSE {}
                      /\ dispatch'[e].at \in {"each", "record"} /\ e \notin disturbed =>
                           \A r \in Rules \ dispatch'[e].sent : sinceSent[r] > DedupWindow
    BY <1>1 DEF SentRight
  <2>1. CASE e = d
    <3>1. u.done = {} /\ w.at # "record"
      BY <1>1, <1>2, <1>4 DEF NoteInv, SentRight
    <3>2. dispatch'[e] = w /\ w.done = {}
      BY <1>4, <1>5, <2>1, <3>1
    <3>3. w.at \in {"each", "record"} /\ e \notin disturbed =>
            \A r \in Rules \ w.sent : sinceSent[r] > DedupWindow
      <4>1. CASE u.at = "each" /\ w.sent = u.sent
        BY <1>2, <2>1, <4>1 DEF NoteInv, SentRight
      <4>2. CASE w.sent = {r \in Rules : sinceSent[r] <= DedupWindow}
        <5>1. \A r \in Rules : sinceSent[r] \in Nat
          BY NotificationAssumption DEF NoteInv, NoteTypes, LongAgo
        <5> QED
          BY <4>2, <5>1, NotificationAssumption
      <4> QED
        BY <1>4, <4>1, <4>2
    <3> QED
      BY <3>2, <3>3
  <2>2. CASE e # d
    BY <1>5, <2>2 DEF NoteInv, SentRight
  <2> QED
    BY <2>1, <2>2
<1>9. \A e \in Dispatchers : dispatch'[e].done = dispatch[e].done
  BY <1>2, <1>4, <1>5
<1> QED
  BY <1>1, <1>7, <1>8, <1>9, QueueKept DEF NoteInv

\* A task is queued for a rule, and the rule is marked.
LEMMA QueueTaskStep ==
  ASSUME NoteInv, NEW d \in Dispatchers, NEW r \in Rules, QueueTask(d, r)
  PROVE  /\ NoteInv'
         /\ \A e \in Dispatchers \ disturbed :
              \A q \in dispatch'[e].done \ dispatch[e].done : sinceSent[q] > DedupWindow
<1>1. /\ dispatch[d].at = "each" /\ r \in dispatch[d].todo \ dispatch[d].sent
      /\ Len(tasks) < MaxTasks
      /\ tasks' = Append(tasks, [rule |-> r, tries |-> 0, state |-> "queued"])
      /\ dispatch' = [dispatch EXCEPT ![d].at = "record", ![d].todo = @ \ {r},
                                      ![d].sent = @ \cup {r}, ![d].done = {r}]
      /\ UNCHANGED <<active, severe, sinceSent, disturbed, breaker, dead, deaths>>
  BY DEF QueueTask
<1>2. PICK u \in Dispatch : u = dispatch[d]
  BY DEF NoteInv, NoteTypes
<1>3. PICK w : w = [u EXCEPT !.at = "record", !.todo = @ \ {r}, !.sent = @ \cup {r}, !.done = {r}]
  OBVIOUS
<1>4. w \in Dispatch /\ w.at = "record" /\ w.sent = u.sent \cup {r} /\ w.done = {r}
  BY <1>3 DEF Dispatch
<1>5. dispatch' = [dispatch EXCEPT ![d] = w]
  BY <1>1, <1>2, <1>3 DEF NoteInv, NoteTypes
<1>6. /\ dispatch' \in [Dispatchers -> Dispatch] /\ dispatch'[d] = w
      /\ \A e \in Dispatchers \ {d} : dispatch'[e] = dispatch[e]
      /\ Running' = Running \cup {d}
  BY <1>4, <1>5, DispatchChange
<1>7. Running' = Running
  BY <1>1, <1>6 DEF Running
<1>8. TasksRight'
  <2>1. PICK t : t = [rule |-> r, tries |-> 0, state |-> "queued"]
    OBVIOUS
  <2>2. t \in Task /\ t.tries = 0 /\ 0 < MaxTries
    BY <2>1, NotificationAssumption DEF Task
  <2>3. /\ tasks' \in Seq(Task) /\ Len(tasks') = Len(tasks) + 1 /\ Len(tasks) \in Nat
        /\ \A i \in 1 .. Len(tasks) : tasks'[i] = tasks[i]
        /\ tasks'[Len(tasks) + 1] = t
    BY <1>1, <2>1, <2>2, AppendProperties, LenProperties DEF NoteInv, TasksRight
  <2>4. Len(tasks') <= MaxTasks
    BY <1>1, <2>3, NotificationAssumption
  <2>5. \A i \in 1 .. Len(tasks') :
          tasks'[i].state \in {"queued", "running"} => tasks'[i].tries < MaxTries
    <3> SUFFICES ASSUME NEW i \in 1 .. Len(tasks'), tasks'[i].state \in {"queued", "running"}
                 PROVE  tasks'[i].tries < MaxTries
      OBVIOUS
    <3>1. CASE i \in 1 .. Len(tasks)
      BY <2>3, <3>1 DEF NoteInv, TasksRight
    <3>2. CASE i = Len(tasks) + 1
      BY <2>2, <2>3, <3>2
    <3> QED
      BY <2>3, <3>1, <3>2
  <2>6. \A i \in 1 .. Len(dead) : dead[i] \in 1 .. Len(tasks')
    BY <2>3 DEF NoteInv, TasksRight
  <2> QED
    BY <1>1, <2>3, <2>4, <2>5, <2>6 DEF NoteInv, TasksRight
<1>9. NoteTypes' /\ MetRight'
  BY <1>1, <1>6, <1>7 DEF NoteInv, NoteTypes, MetRight
<1>10. SentRight'
  <2> SUFFICES ASSUME NEW e \in Dispatchers
               PROVE  /\ dispatch'[e].done \subseteq
                           IF dispatch'[e].at = "record" THEN dispatch'[e].sent ELSE {}
                      /\ dispatch'[e].at \in {"each", "record"} /\ e \notin disturbed =>
                           \A q \in Rules \ dispatch'[e].sent : sinceSent[q] > DedupWindow
    BY <1>1 DEF SentRight
  <2>1. CASE e = d
    BY <1>1, <1>2, <1>4, <1>6, <2>1 DEF NoteInv, SentRight
  <2>2. CASE e # d
    BY <1>6, <2>2 DEF NoteInv, SentRight
  <2> QED
    BY <2>1, <2>2
<1>11. \A e \in Dispatchers \ disturbed :
         \A q \in dispatch'[e].done \ dispatch[e].done : sinceSent[q] > DedupWindow
  BY <1>1, <1>4, <1>6 DEF NoteInv, SentRight
<1> QED
  BY <1>8, <1>9, <1>10, <1>11 DEF NoteInv

\* What was queued is recorded: only the call itself knew it as sent, so no other one
\* may be running that was not disturbed.
LEMMA RecordSentStep ==
  ASSUME NoteInv, NEW d \in Dispatchers, RecordSent(d)
  PROVE  NoteInv' /\ \A e \in Dispatchers : dispatch'[e].done \subseteq dispatch[e].done
<1>1. /\ dispatch[d].at = "record"
      /\ sinceSent' = [r \in Rules |-> IF r \in dispatch[d].done THEN 0 ELSE sinceSent[r]]
      /\ dispatch' = [dispatch EXCEPT ![d].at = "each", ![d].done = {}]
      /\ UNCHANGED <<active, severe, disturbed, tasks, breaker, dead, deaths>>
  BY DEF RecordSent
<1>2. PICK u \in Dispatch : u = dispatch[d]
  BY DEF NoteInv, NoteTypes
<1>3. PICK w : w = [u EXCEPT !.at = "each", !.done = {}]
  OBVIOUS
<1>4. w \in Dispatch /\ w.at = "each" /\ w.sent = u.sent /\ w.done = {}
  BY <1>3 DEF Dispatch
<1>5. dispatch' = [dispatch EXCEPT ![d] = w]
  BY <1>1, <1>2, <1>3 DEF NoteInv, NoteTypes
<1>6. /\ dispatch' \in [Dispatchers -> Dispatch] /\ dispatch'[d] = w
      /\ \A e \in Dispatchers \ {d} : dispatch'[e] = dispatch[e]
      /\ Running' = Running \cup {d}
  BY <1>4, <1>5, DispatchChange
<1>7. Running' = Running /\ d \in Running
  BY <1>1, <1>6 DEF Running
<1>8. NoteTypes' /\ MetRight'
  <2>1. LongAgo \in Nat
    BY NotificationAssumption DEF LongAgo
  <2>2. sinceSent' \in [Rules -> 0 .. LongAgo]
    BY <1>1, <2>1 DEF NoteInv, NoteTypes
  <2> QED
    BY <1>1, <1>6, <1>7, <2>2 DEF NoteInv, NoteTypes, MetRight
<1>9. SentRight'
  <2> SUFFICES ASSUME NEW e \in Dispatchers
               PROVE  /\ dispatch'[e].done \subseteq
                           IF dispatch'[e].at = "record" THEN dispatch'[e].sent ELSE {}
                      /\ dispatch'[e].at \in {"each", "record"} /\ e \notin disturbed =>
                           \A q \in Rules \ dispatch'[e].sent : sinceSent'[q] > DedupWindow
    BY <1>1 DEF SentRight
  <2>1. CASE e = d
    <3>1. u.done \subseteq u.sent
      BY <1>1, <1>2 DEF NoteInv, SentRight
    <3>2. \A q \in Rules \ u.sent : sinceSent'[q] = sinceSent[q]
      BY <1>1, <1>2, <3>1
    <3> QED
      BY <1>1, <1>2, <1>4, <1>6, <2>1, <3>2 DEF NoteInv, SentRight
  <2>2. CASE e # d
    <3>1. dispatch'[e] = dispatch[e]
      BY <1>6, <2>2
    <3>2. dispatch[e].at \in {"each", "record"} => e \in disturbed
      BY <1>7, <2>2 DEF NoteInv, MetRight, Running
    <3> QED
      BY <3>1, <3>2 DEF NoteInv, SentRight
  <2> QED
    BY <2>1, <2>2
<1>10. \A e \in Dispatchers : dispatch'[e].done \subseteq dispatch[e].done
  BY <1>4, <1>6
<1> QED
  BY <1>1, <1>8, <1>9, <1>10, QueueKept DEF NoteInv

\* A call is over, or its process dies and every call counts as disturbed.
LEMMA DispatchOver ==
  ASSUME NoteInv, NEW d \in Dispatchers, EndDispatch(d) \/ DispatchDies(d)
  PROVE  NoteInv' /\ \A e \in Dispatchers : dispatch'[e].done \subseteq dispatch[e].done
<1>1. /\ dispatch' = [dispatch EXCEPT ![d] = NoDispatch]
      /\ disturbed' \in {disturbed, Dispatchers}
      /\ UNCHANGED <<active, severe, sinceSent, tasks, breaker, dead>>
  BY DEF EndDispatch, DispatchDies
<1>2. deaths' \in 0 .. MaxDeaths
  BY NotificationAssumption DEF EndDispatch, DispatchDies, NoteInv, NoteTypes
<1>3. PICK w \in Dispatch : w = NoDispatch /\ w.at = "idle" /\ w.done = {}
  <2>1. NoDispatch \in Dispatch
    BY DEF NoDispatch, Dispatch
  <2>2. NoDispatch.at = "idle" /\ NoDispatch.done = {}
    BY DEF NoDispatch
  <2> QED
    BY <2>1, <2>2
<1>4. /\ dispatch' \in [Dispatchers -> Dispatch] /\ dispatch'[d] = w
      /\ \A e \in Dispatchers \ {d} : dispatch'[e] = dispatch[e]
      /\ Running' = Running \ {d}
  BY <1>1, <1>3, DispatchChange
<1>5. disturbed \subseteq disturbed' /\ disturbed' \subseteq Dispatchers
  BY <1>1 DEF NoteInv, NoteTypes
<1>6. NoteTypes'
  BY <1>1, <1>2, <1>4, <1>5 DEF NoteInv, NoteTypes
<1>7. MetRight'
  BY <1>4, <1>5 DEF NoteInv, MetRight
<1>8. SentRight'
  BY <1>1, <1>3, <1>4, <1>5 DEF NoteInv, SentRight
<1>9. \A e \in Dispatchers : dispatch'[e].done \subseteq dispatch[e].done
  BY <1>3, <1>4
<1> QED
  BY <1>1, <1>6, <1>7, <1>8, <1>9, QueueKept DEF NoteInv

\* What the workers leave alone
LEMMA WorkersOnly ==
  ASSUME NoteInv, UNCHANGED <<active, severe, sinceSent, dispatch, disturbed>>,
         breaker' \in [failures : Nat, open : BOOLEAN], deaths' \in 0 .. MaxDeaths
  PROVE  NoteTypes' /\ MetRight' /\ SentRight'
BY DEF NoteInv, NoteTypes, MetRight, SentRight, Running

\* One task changes: it has a try left if it may still be tried.
LEMMA TaskChange ==
  ASSUME TasksRight, NEW t \in 1 .. Len(tasks), NEW w \in Task, tasks' = [tasks EXCEPT ![t] = w],
         w.state \in {"queued", "running"} => w.tries < MaxTries
  PROVE  /\ tasks' \in Seq(Task) /\ Len(tasks') = Len(tasks)
         /\ \A i \in 1 .. Len(tasks') :
              tasks'[i].state \in {"queued", "running"} => tasks'[i].tries < MaxTries
<1>1. tasks \in Seq(Task) /\ DOMAIN tasks = 1 .. Len(tasks) /\ Len(tasks) \in Nat
  BY LenProperties DEF TasksRight
<1>2. tasks' \in Seq(Task) /\ Len(tasks') = Len(tasks)
  BY <1>1, ExceptSeq
<1>3. tasks'[t] = w /\ \A i \in 1 .. Len(tasks) : i # t => tasks'[i] = tasks[i]
  BY <1>1
<1> QED
  BY <1>2, <1>3 DEF TasksRight

\* A task changes its state only, to one that ends it or from one it could be tried in.
LEMMA SettledStep ==
  ASSUME NoteInv, NEW t \in DOMAIN tasks, tasks[t].state \in {"queued", "running"},
         NEW s \in {"queued", "running", "sent", "dropped"}, Settled(t, s), dead' = dead
  PROVE  TasksRight'
<1>1. tasks \in Seq(Task) /\ DOMAIN tasks = 1 .. Len(tasks) /\ Len(tasks) \in Nat
  BY LenProperties DEF NoteInv, TasksRight
<1>2. PICK u \in Task : u = tasks[t]
  BY <1>1, ElementOfSeq
<1>3. PICK w : w = [u EXCEPT !.state = s]
  OBVIOUS
<1>4. w \in Task /\ w.tries = u.tries
  BY <1>3 DEF Task
<1>5. tasks' = [tasks EXCEPT ![t] = w]
  BY <1>1, <1>2, <1>3 DEF Settled
<1>6. w.tries < MaxTries
  BY <1>1, <1>2, <1>4 DEF NoteInv, TasksRight
<1>7. /\ tasks' \in Seq(Task) /\ Len(tasks') = Len(tasks)
      /\ \A i \in 1 .. Len(tasks') :
           tasks'[i].state \in {"queued", "running"} => tasks'[i].tries < MaxTries
  BY <1>1, <1>4, <1>5, <1>6, TaskChange DEF NoteInv
<1> QED
  BY <1>7 DEF NoteInv, TasksRight

LEMMA CountedFailure ==
  ASSUME NoteInv, CountFailure
  PROVE  breaker' \in [failures : Nat, open : BOOLEAN]
<1>1. breaker.failures \in Nat /\ Threshold \in Nat
  BY NotificationAssumption DEF NoteInv, NoteTypes
<1> QED
  BY <1>1 DEF CountFailure

\* The steps of the workers but the last failure of a task and its replay
LEMMA WorkerStep ==
  ASSUME NoteInv, NEW t \in DOMAIN tasks,
         StartTask(t) \/ TaskSucceeds(t) \/ TaskSkipped(t) \/ TaskRefused(t) \/ WorkerDies(t)
  PROVE  NoteInv'
<1>1. /\ tasks[t].state \in {"queued", "running"} /\ dead' = dead
      /\ UNCHANGED <<active, severe, sinceSent, dispatch, disturbed>>
      /\ \E s \in {"queued", "running", "sent", "dropped"} : Settled(t, s)
  BY DEF StartTask, TaskSucceeds, TaskSkipped, TaskRefused, WorkerDies
<1>2. TasksRight'
  BY <1>1, SettledStep
<1>3. breaker' \in [failures : Nat, open : BOOLEAN]
  <2>1. CASE TaskRefused(t)
    BY <2>1, CountedFailure DEF TaskRefused
  <2>2. CASE ~TaskRefused(t)
    <3>1. breaker \in [failures : Nat, open : BOOLEAN]
      BY DEF NoteInv, NoteTypes
    <3>2. \/ breaker' = breaker
          \/ breaker' = [breaker EXCEPT !.failures = 0]
          \/ breaker' = [failures |-> 0, open |-> FALSE]
      BY <2>2 DEF StartTask, TaskSucceeds, TaskSkipped, WorkerDies
    <3>3. PICK b \in [failures : Nat, open : BOOLEAN] : b = breaker
      BY <3>1
    <3>4. [b EXCEPT !.failures = 0] \in [failures : Nat, open : BOOLEAN]
      OBVIOUS
    <3>5. [failures |-> 0, open |-> FALSE] \in [failures : Nat, open : BOOLEAN]
      OBVIOUS
    <3> QED
      BY <3>2, <3>3, <3>4, <3>5
  <2> QED
    BY <2>1, <2>2
<1>4. deaths' \in 0 .. MaxDeaths
  BY NotificationAssumption DEF StartTask, TaskSucceeds, TaskSkipped, TaskRefused, WorkerDies,
       NoteInv, NoteTypes
<1> QED
  BY <1>1, <1>2, <1>3, <1>4, WorkersOnly DEF NoteInv

\* The dead letters after one more, the oldest gone if there are too many
LEMMA BuriedTypes ==
  ASSUME NoteInv, NEW t \in 1 .. Len(tasks)
  PROVE  /\ Buried(t) \in Seq(Nat) /\ Len(Buried(t)) <= DeadLimit
         /\ \A i \in 1 .. Len(Buried(t)) : Buried(t)[i] \in 1 .. Len(tasks)
<1>1. /\ dead \in Seq(Nat) /\ Len(dead) \in Nat /\ Len(dead) <= DeadLimit /\ DeadLimit \in Nat
      /\ \A i \in 1 .. Len(dead) : dead[i] \in 1 .. Len(tasks)
  BY NotificationAssumption, LenProperties DEF NoteInv, TasksRight
<1>2. PICK s : s = <<t>> \o dead
  OBVIOUS
<1>3. /\ s \in Seq(Nat) /\ Len(s) = Len(dead) + 1 /\ s[1] = t
      /\ \A i \in 2 .. Len(dead) + 1 : s[i] = dead[i - 1]
  <2>1. <<t>> \in Seq(Nat) /\ Len(<<t>>) = 1 /\ <<t>>[1] = t
    OBVIOUS
  <2> QED
    BY <1>1, <1>2, <2>1, ConcatProperties
<1>4. \A i \in 1 .. Len(dead) + 1 : s[i] \in 1 .. Len(tasks)
  <2> SUFFICES ASSUME NEW i \in 1 .. Len(dead) + 1
               PROVE  s[i] \in 1 .. Len(tasks)
    OBVIOUS
  <2>1. CASE i = 1
    BY <1>3, <2>1
  <2>2. CASE i # 1
    <3>1. i \in 2 .. Len(dead) + 1 /\ i - 1 \in 1 .. Len(dead)
      BY <1>1, <2>2
    <3> QED
      BY <1>1, <1>3, <3>1
  <2> QED
    BY <2>1, <2>2
<1>5. PICK k \in Nat : k = IF Len(dead) < DeadLimit THEN Len(dead) + 1 ELSE DeadLimit
  BY <1>1
<1>6. k <= DeadLimit /\ k <= Len(dead) + 1
  BY <1>1, <1>5
<1>7. \A i \in 1 .. k : s[i] \in 1 .. Len(tasks)
  BY <1>1, <1>4, <1>6
<1>8. /\ SubSeq(s, 1, k) \in Seq(1 .. Len(tasks))
      /\ Len(SubSeq(s, 1, k)) = k
  <2>1. /\ SubSeq(s, 1, k) \in Seq(1 .. Len(tasks))
        /\ Len(SubSeq(s, 1, k)) = IF 1 <= k THEN k - 1 + 1 ELSE 0
    BY <1>7, SubSeqProperties
  <2> QED
    BY <2>1
<1>9. Buried(t) = SubSeq(s, 1, k)
  BY <1>2, <1>5 DEF Buried
<1>10. \A i \in 1 .. k : SubSeq(s, 1, k)[i] \in 1 .. Len(tasks)
  BY <1>8, ElementOfSeq
<1>11. SubSeq(s, 1, k) \in Seq(Nat)
  BY <1>3, <1>6, <1>7, SubSeqProperties
<1> QED
  BY <1>6, <1>8, <1>9, <1>10, <1>11

LEMMA TaskFailsStep ==
  ASSUME NoteInv, NEW t \in DOMAIN tasks, TaskFails(t)
  PROVE  NoteInv'
<1>1. /\ tasks[t].state = "running" /\ CountFailure
      /\ UNCHANGED <<active, severe, sinceSent, dispatch, disturbed, deaths>>
  BY DEF TaskFails
<1>2. tasks \in Seq(Task) /\ DOMAIN tasks = 1 .. Len(tasks) /\ Len(tasks) \in Nat
  BY LenProperties DEF NoteInv, TasksRight
<1>3. PICK u \in Task : u = tasks[t]
  BY <1>2, ElementOfSeq
<1>4. u.tries \in Nat /\ MaxTries \in Nat /\ u.tries < MaxTries
  BY <1>1, <1>2, <1>3, NotificationAssumption DEF NoteInv, TasksRight, Task
<1>5. PICK n \in 0 .. MaxTries : n = u.tries + 1
  <2>1. u.tries + 1 \in 0 .. MaxTries
    BY <1>4
  <2> QED
    BY <2>1
<1>6. PICK s \in {"queued", "dead"} : s = IF n = MaxTries THEN "dead" ELSE "queued"
  OBVIOUS
<1>7. PICK w : w = [u EXCEPT !.tries = n, !.state = s]
  OBVIOUS
<1>8. w \in Task /\ w.tries = n /\ w.state = s
  BY <1>6, <1>7 DEF Task
<1>9. tasks' = [tasks EXCEPT ![t] = w] /\ dead' = IF n = MaxTries THEN Buried(t) ELSE dead
  BY <1>2, <1>3, <1>5, <1>6, <1>7 DEF TaskFails
<1>10. w.state \in {"queued", "running"} => w.tries < MaxTries
  <2>1. n # MaxTries => n < MaxTries
    BY <1>4, <1>5
  <2> QED
    BY <1>6, <1>8, <2>1
<1>11. /\ tasks' \in Seq(Task) /\ Len(tasks') = Len(tasks)
       /\ \A i \in 1 .. Len(tasks') :
            tasks'[i].state \in {"queued", "running"} => tasks'[i].tries < MaxTries
  BY <1>2, <1>8, <1>9, <1>10, TaskChange DEF NoteInv
<1>12. /\ dead' \in Seq(Nat) /\ Len(dead') <= DeadLimit
       /\ \A i \in 1 .. Len(dead') : dead'[i] \in 1 .. Len(tasks)
  BY <1>2, <1>9, BuriedTypes DEF NoteInv, TasksRight
<1>13. TasksRight'
  BY <1>11, <1>12 DEF NoteInv, TasksRight
<1>14. breaker' \in [failures : Nat, open : BOOLEAN] /\ deaths' \in 0 .. MaxDeaths
  BY <1>1, CountedFailure DEF NoteInv, NoteTypes
<1> QED
  BY <1>1, <1>13, <1>14, WorkersOnly DEF NoteInv

LEMMA ReplayStep ==
  ASSUME NoteInv, Replay
  PROVE  NoteInv'
<1>1. /\ dead # <<>> /\ dead' = SubSeq(dead, 1, Len(dead) - 1)
      /\ tasks' = [tasks EXCEPT ![dead[Len(dead)]] = [@ EXCEPT !.state = "queued", !.tries = 0]]
      /\ UNCHANGED <<active, severe, sinceSent, dispatch, disturbed, breaker, deaths>>
  BY DEF Replay
<1>2. /\ tasks \in Seq(Task) /\ DOMAIN tasks = 1 .. Len(tasks) /\ Len(tasks) \in Nat
      /\ dead \in Seq(Nat) /\ Len(dead) \in Nat /\ Len(dead) <= DeadLimit /\ DeadLimit \in Nat
      /\ \A i \in 1 .. Len(dead) : dead[i] \in 1 .. Len(tasks)
  BY NotificationAssumption, LenProperties DEF NoteInv, TasksRight
<1>3. Len(dead) > 0
  BY <1>1, <1>2, EmptySeq
<1>4. PICK t \in 1 .. Len(tasks) : t = dead[Len(dead)]
  BY <1>2, <1>3
<1>5. PICK u \in Task : u = tasks[t]
  BY <1>2, ElementOfSeq
<1>6. PICK w : w = [u EXCEPT !.state = "queued", !.tries = 0]
  OBVIOUS
<1>7. w \in Task /\ w.tries = 0 /\ 0 < MaxTries
  <2>1. 0 \in 0 .. MaxTries /\ 0 < MaxTries
    BY NotificationAssumption
  <2> QED
    BY <1>6, <2>1 DEF Task
<1>8. tasks' = [tasks EXCEPT ![t] = w]
  BY <1>1, <1>2, <1>4, <1>5, <1>6
<1>9. /\ tasks' \in Seq(Task) /\ Len(tasks') = Len(tasks)
      /\ \A i \in 1 .. Len(tasks') :
           tasks'[i].state \in {"queued", "running"} => tasks'[i].tries < MaxTries
  BY <1>7, <1>8, TaskChange DEF NoteInv
<1>10. PICK k \in Nat : k = Len(dead) - 1
  <2>1. Len(dead) - 1 \in Nat
    BY <1>2, <1>3
  <2> QED
    BY <2>1
<1>11. \A i \in 1 .. k : dead[i] \in Nat /\ i \in 1 .. Len(dead)
  BY <1>2, <1>10
<1>12. /\ SubSeq(dead, 1, k) \in Seq(Nat)
       /\ Len(SubSeq(dead, 1, k)) = k
       /\ \A i \in 1 .. k : SubSeq(dead, 1, k)[i] = dead[i]
  <2>1. /\ SubSeq(dead, 1, k) \in Seq(Nat)
        /\ Len(SubSeq(dead, 1, k)) = IF 1 <= k THEN k - 1 + 1 ELSE 0
        /\ \A i \in 1 .. k - 1 + 1 : SubSeq(dead, 1, k)[i] = dead[1 + i - 1]
    BY <1>11, SubSeqProperties
  <2> QED
    BY <2>1
<1>13. /\ dead' \in Seq(Nat) /\ Len(dead') <= DeadLimit
       /\ \A i \in 1 .. Len(dead') : dead'[i] \in 1 .. Len(tasks)
  BY <1>1, <1>2, <1>10, <1>11, <1>12
<1>14. TasksRight'
  BY <1>9, <1>13 DEF NoteInv, TasksRight
<1>15. breaker' \in [failures : Nat, open : BOOLEAN] /\ deaths' \in 0 .. MaxDeaths
  BY <1>1 DEF NoteInv, NoteTypes
<1> QED
  BY <1>1, <1>14, <1>15, WorkersOnly DEF NoteInv

LEMMA RecoverStep ==
  ASSUME NoteInv, Recover
  PROVE  NoteInv'
<1>1. /\ breaker' = [breaker EXCEPT !.open = FALSE]
      /\ UNCHANGED <<active, severe, sinceSent, dispatch, disturbed, tasks, dead, deaths>>
  BY DEF Recover
<1>2. breaker' \in [failures : Nat, open : BOOLEAN] /\ deaths' \in 0 .. MaxDeaths
  BY <1>1 DEF NoteInv, NoteTypes
<1> QED
  BY <1>1, <1>2, QueueKept, WorkersOnly DEF NoteInv

\* No step breaks the invariant, and only one of QueueTask marks a rule.
LEMMA NoteInductive ==
  ASSUME NoteInv, [NotificationNext]_notificationVars
  PROVE  /\ NoteInv'
         /\ \A e \in Dispatchers \ disturbed :
              \A q \in dispatch'[e].done \ dispatch[e].done : sinceSent[q] > DedupWindow
<1>1. ASSUME dispatch' = dispatch
      PROVE  \A e \in Dispatchers \ disturbed :
               \A q \in dispatch'[e].done \ dispatch[e].done : sinceSent[q] > DedupWindow
  BY <1>1
<1>2. CASE (\E r \in Rules : ToggleRule(r)) \/ Upgrade \/ Wait
  <2>1. dispatch' = dispatch
    BY <1>2 DEF ToggleRule, Upgrade, Wait
  <2> QED
    BY <1>1, <1>2, <2>1, WorldStep
<1>3. CASE \E t \in DOMAIN tasks : \/ StartTask(t) \/ TaskSucceeds(t) \/ TaskSkipped(t)
                                   \/ TaskRefused(t) \/ TaskFails(t) \/ WorkerDies(t)
  <2>1. dispatch' = dispatch
    BY <1>3 DEF StartTask, TaskSucceeds, TaskSkipped, TaskRefused, TaskFails, WorkerDies
  <2> QED
    BY <1>1, <1>3, <2>1, WorkerStep, TaskFailsStep
<1>4. CASE Recover \/ Replay
  <2>1. dispatch' = dispatch
    BY <1>4 DEF Recover, Replay
  <2> QED
    BY <1>1, <1>4, <2>1, RecoverStep, ReplayStep
<1>5. ASSUME NEW d \in Dispatchers, BeginDispatch(d)
      PROVE  /\ NoteInv'
             /\ \A e \in Dispatchers : dispatch'[e].done = dispatch[e].done
  <2>1. \A e \in Dispatchers : dispatch'[e].done = dispatch[e].done
    <3>1. dispatch \in [Dispatchers -> Dispatch]
      BY DEF NoteInv, NoteTypes
    <3>2. \A e \in Dispatchers : dispatch[e] \in Dispatch
      BY <3>1
    <3>3. dispatch' = [dispatch EXCEPT ![d].at = "rules"]
      BY <1>5 DEF BeginDispatch
    <3> QED
      BY <3>1, <3>2, <3>3 DEF Dispatch
  <2> QED
    BY <1>5, <2>1, BeginDispatchStep
<1>6. ASSUME NEW d \in Dispatchers, FindRules(d) \/ FindSent(d) \/ \E r \in Rules : SkipRule(d, r)
      PROVE  /\ NoteInv'
             /\ \A e \in Dispatchers : dispatch'[e].done = dispatch[e].done
  BY <1>6, ReadStep
<1>7. ASSUME NEW d \in Dispatchers, RecordSent(d) \/ EndDispatch(d) \/ DispatchDies(d)
      PROVE  /\ NoteInv'
             /\ \A e \in Dispatchers : dispatch'[e].done \subseteq dispatch[e].done
  BY <1>7, RecordSentStep, DispatchOver
<1>8. CASE UNCHANGED notificationVars
  <2>1. NoteInv'
    BY <1>8 DEF notificationVars, NoteInv, TasksRight, NoteTypes, MetRight, SentRight, Running
  <2> QED
    BY <1>1, <1>8, <2>1 DEF notificationVars
<1>9. ASSUME NEW d \in Dispatchers, NEW r \in Rules, QueueTask(d, r)
      PROVE  /\ NoteInv'
             /\ \A e \in Dispatchers \ disturbed :
                  \A q \in dispatch'[e].done \ dispatch[e].done : sinceSent[q] > DedupWindow
  BY <1>9, QueueTaskStep
<1> QED
  BY <1>2, <1>3, <1>4, <1>5, <1>6, <1>7, <1>8, <1>9 DEF NotificationNext

LEMMA NoteTyped ==
  ASSUME NoteInv
  PROVE  NotificationTypeOK
<1>1. \A t \in DOMAIN tasks : tasks[t] \in Task
  BY LenProperties, ElementOfSeq DEF NoteInv, TasksRight
<1> QED
  BY <1>1 DEF NoteInv, TasksRight, NoteTypes, NotificationTypeOK, Task, Dispatch

\* services/notification_service.py and the workers: rules, calls, tasks, the circuit
\* breaker and the dead letters stay what the types say.
THEOREM NotificationTypeCorrect == NotificationSpec => []NotificationTypeOK
<1>1. NotificationInit => NoteInv
  BY NoteInitInv
<1>2. NoteInv /\ [NotificationNext]_notificationVars => NoteInv'
  BY NoteInductive
<1>3. NoteInv => NotificationTypeOK
  BY NoteTyped
<1> QED
  BY <1>1, <1>2, <1>3, PTL DEF NotificationSpec

\* A call of dispatch_notifications that no other one overlapped queues nothing for a
\* rule with a delivery recorded within the window, for any number of rules, calls,
\* tasks and deaths.
THEOREM QuietCorrect == NotificationSpec => QuietWithinWindow
<1>1. NotificationInit => NoteInv
  BY NoteInitInv
<1>2. NoteInv /\ [NotificationNext]_notificationVars => NoteInv'
  BY NoteInductive
<1>3. NoteInv /\ [NotificationNext]_notificationVars =>
        [\A d \in Dispatchers \ disturbed :
           \A r \in dispatch'[d].done \ dispatch[d].done : sinceSent[r] > DedupWindow]_notificationVars
  BY NoteInductive
<1> QED
  BY <1>1, <1>2, <1>3, PTL DEF NotificationSpec, QuietWithinWindow

-------------------------------------------------------------------------------
(* Detection control *)

Layers == Values \cup {Unset}
Request ==
  [op : {"none", "view", "change", "copy"},
   at : {"idle", "invalidate", "next", "layers", "merge"},
   scope : Scopes, todo : SUBSET EdgeCameras, layers : Seq(Layers)]

SettingsTypes ==
  /\ DOMAIN settings \subseteq Scopes
  /\ \A s \in DOMAIN settings : settings[s] \in Layers
  /\ cached \in [EdgeCameras -> Values \cup {Nothing}]
  /\ entryAge \in [EdgeCameras -> 0 .. Lifetime]
  /\ quiet \in 0 .. Lifetime + 1
  /\ pushed \in [EdgeCameras -> Values \cup {Nothing}]
  /\ redisFaults \in 0 .. MaxRedisFaults
  /\ request \in [Requests -> Request]
\* Layers are read for one camera at a time, from none to four.
ReadingRight ==
  \A r \in Requests :
    /\ request[r].at \in {"layers", "merge"} => request[r].scope \in EdgeCameras
    /\ request[r].at = "layers" => Len(request[r].layers) < 4
    /\ request[r].at = "merge" => Len(request[r].layers) = 4
    /\ request[r].at \in {"idle", "invalidate", "next"} => request[r].layers = <<>>
\* What a request has read is what the documents say, unless they changed since time
\* last passed.
LayersRight ==
  \A r \in Requests :
    quiet > 0 /\ request[r].at \in {"layers", "merge"} =>
      \A i \in 1 .. Len(request[r].layers) :
        request[r].layers[i] = Layer(Chain(request[r].scope)[i])
\* What a merge of the layers of a camera says now
Current(c) ==
  Override(Override(Override(Override(Default, Layer(Chain(c)[1])), Layer(Chain(c)[2])),
                    Layer(Chain(c)[3])), Layer(Chain(c)[4]))
\* An entry of the cache that is not what the documents say is at least as old as their
\* last change, and no entry outlives its time.
EntriesRight ==
  \A c \in EdgeCameras :
    cached[c] # Nothing => /\ entryAge[c] < Lifetime
                           /\ cached[c] # Current(c) => quiet <= entryAge[c]
SettingsInv == SettingsTypes /\ ReadingRight /\ LayersRight /\ EntriesRight

\* The merge in the order of the layers finds what the inheritance promises: the value of
\* the narrowest scope that sets one.
LEMMA CurrentIsEffective ==
  ASSUME NEW c \in EdgeCameras
  PROVE  Current(c) = Effective(c)
<1>1. PICK L : L = [i \in 1 .. 4 |-> Layer(Chain(c)[i])]
  OBVIOUS
<1>2. PICK S : S = {i \in 1 .. 4 : Layer(Chain(c)[i]) # Unset}
  OBVIOUS
<1>3. /\ Current(c) = Override(Override(Override(Override(Default, L[1]), L[2]), L[3]), L[4])
      /\ S = {i \in 1 .. 4 : L[i] # Unset}
  BY <1>1, <1>2 DEF Current
<1>4. CASE S = {}
  <2>1. Effective(c) = Default
    BY <1>2, <1>4 DEF Effective
  <2>2. L[1] = Unset /\ L[2] = Unset /\ L[3] = Unset /\ L[4] = Unset
    BY <1>3, <1>4
  <2> QED
    BY <1>3, <2>1, <2>2 DEF Override
<1>5. CASE S # {}
  <2>1. \E i \in S : \A j \in S : j <= i
    <3>1. S \subseteq {1, 2, 3, 4}
      BY <1>3
    <3>2. CASE 4 \in S
      <4>1. \A j \in S : j <= 4
        BY <3>1
      <4> QED
        BY <4>1, <3>2
    <3>3. CASE 4 \notin S /\ 3 \in S
      <4>1. \A j \in S : j \in {1, 2, 3}
        BY <3>1, <3>3
      <4>2. \A j \in S : j <= 3
        BY <4>1
      <4> QED
        BY <3>3, <4>2
    <3>4. CASE 4 \notin S /\ 3 \notin S /\ 2 \in S
      <4>1. \A j \in S : j \in {1, 2}
        BY <3>1, <3>4
      <4>2. \A j \in S : j <= 2
        BY <4>1
      <4> QED
        BY <3>4, <4>2
    <3>5. CASE 4 \notin S /\ 3 \notin S /\ 2 \notin S
      <4>1. \A j \in S : j = 1
        BY <3>1, <3>5
      <4>2. 1 \in S /\ \A j \in S : j <= 1
        BY <1>5, <4>1
      <4> QED
        BY <4>2
    <3> QED
      BY <3>2, <3>3, <3>4, <3>5
  <2>2. PICK m : m = CHOOSE i \in S : \A j \in S : j <= i
    OBVIOUS
  <2>3. m \in S /\ \A j \in S : j <= m
    BY <2>1, <2>2
  <2>4. Effective(c) = Layer(Chain(c)[m])
    BY <1>2, <1>5, <2>2 DEF Effective
  <2>5. Effective(c) = L[m] /\ m \in {1, 2, 3, 4}
    BY <1>1, <1>3, <2>3, <2>4
  <2>6. L[m] # Unset /\ \A j \in 1 .. 4 : j > m => L[j] = Unset
    BY <1>3, <2>3
  <2>7. CASE m = 1
    BY <1>3, <2>5, <2>6, <2>7 DEF Override
  <2>8. CASE m = 2
    BY <1>3, <2>5, <2>6, <2>8 DEF Override
  <2>9. CASE m = 3
    BY <1>3, <2>5, <2>6, <2>9 DEF Override
  <2>10. CASE m = 4
    BY <1>3, <2>5, <2>6, <2>10 DEF Override
  <2> QED
    BY <2>5, <2>7, <2>8, <2>9, <2>10
<1> QED
  BY <1>4, <1>5

LEMMA ScopeTypes ==
  /\ \A c \in EdgeCameras : Chain(c) \in Seq(Scopes) /\ Len(Chain(c)) = 4
                            /\ \A i \in 1 .. 4 : Chain(c)[i] \in Scopes
  /\ EdgeCameras \subseteq Scopes
<1>1. \A c \in EdgeCameras : StoreOf[c] \in Scopes /\ c \in Scopes
  BY DetectionAssumption DEF Scopes
<1>2. "global" \in Scopes /\ "org" \in Scopes
  BY DEF Scopes
<1>3. \A c \in EdgeCameras : Chain(c) \in Seq(Scopes) /\ Len(Chain(c)) = 4
  BY <1>1, <1>2 DEF Chain
<1>4. ASSUME NEW c \in EdgeCameras
      PROVE  \A i \in 1 .. 4 : Chain(c)[i] \in Scopes
  BY <1>3, ElementOfSeq
<1> QED
  BY <1>1, <1>3, <1>4

LEMMA LayerTypes ==
  ASSUME SettingsInv
  PROVE  \A s : Layer(s) \in Layers
BY DEF SettingsInv, SettingsTypes, Layer, Layers

LEMMA NoRequestTypes ==
  /\ NoRequest \in Request
  /\ NoRequest.at = "idle" /\ NoRequest.layers = <<>> /\ NoRequest.todo = {}
<1>1. "org" \in Scopes
  BY DEF Scopes
<1> QED
  BY <1>1 DEF NoRequest, Request

LEMMA SettingsInitInv ==
  ASSUME SettingsInit
  PROVE  SettingsInv
<1>1. NoRequest \in Request /\ NoRequest.at = "idle" /\ NoRequest.layers = <<>>
  BY NoRequestTypes
<1>2. Lifetime \in Nat \ {0} /\ MaxRedisFaults \in Nat
  BY DetectionAssumption
<1>3. \A r \in Requests : request[r] = NoRequest
  BY DEF SettingsInit
<1>4. \A c \in EdgeCameras : cached[c] = Nothing
  BY DEF SettingsInit
<1>5. DOMAIN settings = {}
  BY DEF SettingsInit
<1>6. SettingsTypes
  <2>1. entryAge \in [EdgeCameras -> 0 .. Lifetime] /\ quiet \in 0 .. Lifetime + 1
    BY <1>2 DEF SettingsInit
  <2> QED
    BY <1>1, <1>2, <1>5, <2>1 DEF SettingsInit, SettingsTypes
<1>7. ReadingRight /\ LayersRight
  BY <1>1, <1>3 DEF ReadingRight, LayersRight
<1>8. EntriesRight
  BY <1>4 DEF EntriesRight
<1> QED
  BY <1>6, <1>7, <1>8 DEF SettingsInv

\* One request changes.
LEMMA RequestChange ==
  ASSUME SettingsInv, NEW r \in Requests, NEW w \in Request, request' = [request EXCEPT ![r] = w]
  PROVE  /\ request' \in [Requests -> Request] /\ request'[r] = w
         /\ \A q \in Requests \ {r} : request'[q] = request[q]
BY DEF SettingsInv, SettingsTypes

\* Documents change: time has not passed since, and the request has read nothing yet.
LEMMA DocumentStep ==
  ASSUME SettingsInv, NEW r \in Requests, NEW w \in Request, request' = [request EXCEPT ![r] = w],
         w.at \in {"invalidate", "next"}, w.layers = <<>>, quiet' = 0,
         DOMAIN settings' \subseteq Scopes, \A s \in DOMAIN settings' : settings'[s] \in Layers,
         UNCHANGED <<cached, entryAge, pushed, redisFaults>>
  PROVE  SettingsInv'
<1>1. /\ request' \in [Requests -> Request] /\ request'[r] = w
      /\ \A q \in Requests \ {r} : request'[q] = request[q]
  BY RequestChange
<1>2. Lifetime \in Nat \ {0}
  BY DetectionAssumption
<1>3. SettingsTypes'
  BY <1>1, <1>2 DEF SettingsInv, SettingsTypes
<1>4. ReadingRight'
  BY <1>1 DEF SettingsInv, ReadingRight
<1>5. LayersRight'
  BY DEF LayersRight
<1>6. EntriesRight'
  <2>1. \A c \in EdgeCameras : entryAge[c] \in Nat
    BY <1>2 DEF SettingsInv, SettingsTypes
  <2> QED
    BY <2>1 DEF SettingsInv, EntriesRight
<1> QED
  BY <1>3, <1>4, <1>5, <1>6 DEF SettingsInv

\* The documents stay as they are.
LEMMA CurrentKept ==
  ASSUME settings' = settings
  PROVE  \A c : Current(c)' = Current(c)
BY DEF Current, Layer

\* A request that has read nothing moves, and entries are at most taken from the cache.
LEMMA MoveStep ==
  ASSUME SettingsInv, NEW r \in Requests, NEW w \in Request, request' = [request EXCEPT ![r] = w],
         w.at \in {"idle", "invalidate", "next", "layers"}, w.layers = <<>>,
         w.at = "layers" => w.scope \in EdgeCameras,
         cached' \in [EdgeCameras -> Values \cup {Nothing}],
         pushed' \in [EdgeCameras -> Values \cup {Nothing}],
         \A c \in EdgeCameras : cached'[c] \in {Nothing, cached[c]},
         redisFaults' \in 0 .. MaxRedisFaults,
         UNCHANGED <<settings, entryAge, quiet>>
  PROVE  SettingsInv'
<1>1. /\ request' \in [Requests -> Request] /\ request'[r] = w
      /\ \A q \in Requests \ {r} : request'[q] = request[q]
  BY RequestChange
<1>2. Len(w.layers) = 0
  OBVIOUS
<1>3. SettingsTypes'
  BY <1>1 DEF SettingsInv, SettingsTypes
<1>4. ReadingRight'
  BY <1>1, <1>2 DEF SettingsInv, ReadingRight
<1>5. LayersRight'
  <2> SUFFICES ASSUME NEW q \in Requests, quiet > 0, request'[q].at \in {"layers", "merge"},
                      NEW i \in 1 .. Len(request'[q].layers)
               PROVE  request'[q].layers[i] =
                        IF Chain(request'[q].scope)[i] \in DOMAIN settings
                        THEN settings[Chain(request'[q].scope)[i]] ELSE Unset
    BY DEF LayersRight, Layer
  <2>1. q # r
    BY <1>1, <1>2
  <2> QED
    BY <1>1, <2>1 DEF SettingsInv, LayersRight, Layer
<1>6. EntriesRight'
  BY CurrentKept DEF SettingsInv, EntriesRight
<1> QED
  BY <1>3, <1>4, <1>5, <1>6 DEF SettingsInv

\* save_settings, reset, bulk_apply and import_config
LEMMA ChangeStep ==
  ASSUME SettingsInv, NEW r \in Requests,
         \/ \E s \in Edited, v \in Values \cup {Unset} : SaveSettings(r, s, v) \/ ImportConfig(r, s, v)
         \/ \E s \in Edited : ResetSettings(r, s) \/ \E c \in EdgeCameras : BulkApply(r, s, c)
  PROVE  SettingsInv'
<1>1. /\ DOMAIN settings \subseteq Scopes /\ \A s \in DOMAIN settings : settings[s] \in Layers
      /\ request \in [Requests -> Request]
  BY DEF SettingsInv, SettingsTypes
<1>2. ASSUME NEW s \in Scopes, NEW v \in Layers, Written(s, v)
      PROVE  DOMAIN settings' \subseteq Scopes /\ \A t \in DOMAIN settings' : settings'[t] \in Layers
  BY <1>1, <1>2 DEF Written
<1>3. quiet' = 0 /\ UNCHANGED <<cached, entryAge, pushed, redisFaults>>
  BY DEF SaveSettings, ImportConfig, ResetSettings, BulkApply
<1>4. DOMAIN settings' \subseteq Scopes /\ \A t \in DOMAIN settings' : settings'[t] \in Layers
  <2>1. ASSUME NEW s \in Edited, NEW v \in Values \cup {Unset},
               SaveSettings(r, s, v) \/ ImportConfig(r, s, v)
        PROVE  DOMAIN settings' \subseteq Scopes /\ \A t \in DOMAIN settings' : settings'[t] \in Layers
    <3>1. s \in Scopes /\ v \in Layers /\ Written(s, v)
      BY <2>1, EditedAssumption DEF SaveSettings, ImportConfig, Layers
    <3> QED
      BY <1>2, <3>1
  <2>2. ASSUME NEW s \in Edited, ResetSettings(r, s)
        PROVE  DOMAIN settings' \subseteq Scopes /\ \A t \in DOMAIN settings' : settings'[t] \in Layers
    BY <1>1, <2>2 DEF ResetSettings
  <2>3. ASSUME NEW s \in Edited, NEW c \in EdgeCameras, BulkApply(r, s, c)
        PROVE  DOMAIN settings' \subseteq Scopes /\ \A t \in DOMAIN settings' : settings'[t] \in Layers
    <3>1. PICK v : v = Override(Layer(c), Layer(s))
      OBVIOUS
    <3>2. c \in Scopes /\ v \in Layers
      BY <3>1, LayerTypes, ScopeTypes DEF Override
    <3>3. Written(c, v)
      BY <2>3, <3>1 DEF BulkApply
    <3> QED
      BY <1>2, <3>2, <3>3
  <2> QED
    BY <2>1, <2>2, <2>3
<1>5. PICK d \in Request : d = NoRequest /\ d.layers = <<>> /\ d.todo = {}
  BY NoRequestTypes
<1>6. ASSUME NEW o \in {"change", "copy"}, NEW a \in {"invalidate", "next"}, NEW s \in Scopes,
             NEW S \in SUBSET EdgeCameras,
             request' = [request EXCEPT ![r] =
               [NoRequest EXCEPT !.op = o, !.at = a, !.scope = s, !.todo = S]]
      PROVE  \E w \in Request : /\ request' = [request EXCEPT ![r] = w]
                                /\ w.at \in {"invalidate", "next"} /\ w.layers = <<>>
  <2>1. PICK w : w = [d EXCEPT !.op = o, !.at = a, !.scope = s, !.todo = S]
    OBVIOUS
  <2>2. w \in Request /\ w.at = a /\ w.layers = <<>>
    BY <1>5, <2>1 DEF Request
  <2> QED
    BY <1>5, <1>6, <2>1, <2>2
<1>7. \A s : Affected(s) \in SUBSET EdgeCameras
  BY DEF Affected
<1>8. Edited \subseteq Scopes /\ EdgeCameras \subseteq Scopes
  BY EditedAssumption, ScopeTypes
<1>9. PICK w \in Request : /\ request' = [request EXCEPT ![r] = w]
                           /\ w.at \in {"invalidate", "next"} /\ w.layers = <<>>
  <2>1. ASSUME NEW s \in Edited, NEW v \in Values \cup {Unset}, SaveSettings(r, s, v) \/ ResetSettings(r, s)
        PROVE  \E w \in Request : /\ request' = [request EXCEPT ![r] = w]
                                  /\ w.at \in {"invalidate", "next"} /\ w.layers = <<>>
    <3>1. PICK w : w = [d EXCEPT !.op = "change", !.at = "invalidate", !.scope = s]
      OBVIOUS
    <3>2. w \in Request /\ w.at = "invalidate" /\ w.layers = <<>>
      BY <1>5, <1>8, <3>1 DEF Request
    <3>3. request' = [request EXCEPT ![r] = w]
      BY <1>5, <2>1, <3>1 DEF SaveSettings, ResetSettings
    <3> QED
      BY <3>2, <3>3
  <2>2. ASSUME NEW s \in Edited, NEW v \in Values \cup {Unset}, ImportConfig(r, s, v)
        PROVE  \E w \in Request : /\ request' = [request EXCEPT ![r] = w]
                                  /\ w.at \in {"invalidate", "next"} /\ w.layers = <<>>
    <3>1. request' = [request EXCEPT ![r] =
            [NoRequest EXCEPT !.op = "copy", !.at = "next", !.scope = s, !.todo = Affected(s)]]
      BY <2>2 DEF ImportConfig
    <3> QED
      BY <1>6, <1>7, <1>8, <3>1
  <2>3. ASSUME NEW s \in Edited, NEW c \in EdgeCameras, BulkApply(r, s, c)
        PROVE  \E w \in Request : /\ request' = [request EXCEPT ![r] = w]
                                  /\ w.at \in {"invalidate", "next"} /\ w.layers = <<>>
    <3>1. request' = [request EXCEPT ![r] =
            [NoRequest EXCEPT !.op = "copy", !.at = "next", !.scope = c, !.todo = {c}]]
      BY <2>3 DEF BulkApply
    <3>2. {c} \in SUBSET EdgeCameras /\ c \in Scopes
      BY <1>8
    <3> QED
      BY <1>6, <3>1, <3>2
  <2> QED
    BY <2>1, <2>2, <2>3
<1> QED
  BY <1>3, <1>4, <1>9, DocumentStep

\* What becomes of the cache and of the request where the keys go
LEMMA InvalidateStep ==
  ASSUME SettingsInv, NEW r \in Requests, Invalidate(r) \/ InvalidateFails(r)
  PROVE  SettingsInv'
<1>1. PICK u \in Request : u = request[r]
  BY DEF SettingsInv, SettingsTypes
<1>2. PICK S : S = Affected(u.scope)
  OBVIOUS
<1>3. S \subseteq EdgeCameras
  BY <1>2 DEF Affected
<1>4. PICK w : w = [u EXCEPT !.at = "next", !.todo = S]
  OBVIOUS
<1>5. w \in Request /\ w.at = "next" /\ w.layers = u.layers
  BY <1>3, <1>4 DEF Request
<1>6. request' = [request EXCEPT ![r] = w]
  BY <1>1, <1>2, <1>4 DEF Invalidate, InvalidateFails, SettingsInv, SettingsTypes
<1>7. u.layers = <<>>
  BY <1>1 DEF Invalidate, InvalidateFails, SettingsInv, ReadingRight
<1>8. /\ cached' \in [EdgeCameras -> Values \cup {Nothing}]
      /\ \A c \in EdgeCameras : cached'[c] \in {Nothing, cached[c]}
  <2>1. cached \in [EdgeCameras -> Values \cup {Nothing}]
    BY DEF SettingsInv, SettingsTypes
  <2>2. \/ cached' = cached
        \/ cached' = [c \in EdgeCameras |-> IF c \in S THEN Nothing ELSE cached[c]]
    BY <1>1, <1>2 DEF Invalidate, InvalidateFails
  <2> QED
    BY <2>1, <2>2
<1>9. /\ UNCHANGED <<settings, entryAge, quiet, pushed>>
      /\ redisFaults' \in 0 .. MaxRedisFaults
      /\ pushed' \in [EdgeCameras -> Values \cup {Nothing}]
  BY DetectionAssumption DEF Invalidate, InvalidateFails, SettingsInv, SettingsTypes
<1> QED
  BY <1>5, <1>6, <1>7, <1>8, <1>9, MoveStep

\* Requests that view, find an entry, find none, or are over
LEMMA ViewStep ==
  ASSUME SettingsInv, NEW r \in Requests,
         Finish(r) \/ \E c \in EdgeCameras : View(r, c) \/ CacheHit(r, c) \/ CacheMiss(r, c)
  PROVE  SettingsInv'
<1>1. PICK u \in Request : u = request[r]
  BY DEF SettingsInv, SettingsTypes
<1>2. /\ UNCHANGED <<settings, cached, entryAge, quiet>>
      /\ cached' \in [EdgeCameras -> Values \cup {Nothing}]
      /\ redisFaults' \in 0 .. MaxRedisFaults
  <2>1. UNCHANGED <<settings, cached, entryAge, quiet>>
    BY DEF Finish, View, CacheHit, CacheMiss
  <2>2. redisFaults' = redisFaults \/ (redisFaults < MaxRedisFaults /\ redisFaults' = redisFaults + 1)
    BY DEF Finish, View, CacheHit, CacheMiss
  <2>3. redisFaults \in 0 .. MaxRedisFaults /\ MaxRedisFaults \in Nat
    BY DetectionAssumption DEF SettingsInv, SettingsTypes
  <2>4. redisFaults' \in 0 .. MaxRedisFaults
    BY <2>2, <2>3
  <2> QED
    BY <2>1, <2>4 DEF SettingsInv, SettingsTypes
<1>3. PICK d \in Request : d = NoRequest /\ d.at = "idle" /\ d.layers = <<>>
  BY NoRequestTypes
<1>4. pushed' \in [EdgeCameras -> Values \cup {Nothing}]
  <2>1. pushed \in [EdgeCameras -> Values \cup {Nothing}] /\ cached \in [EdgeCameras -> Values \cup {Nothing}]
    BY DEF SettingsInv, SettingsTypes
  <2>2. pushed' = pushed \/ \E c \in EdgeCameras : pushed' = [pushed EXCEPT ![c] = cached[c]]
    BY DEF Finish, View, CacheHit, CacheMiss, Give
  <2> QED
    BY <2>1, <2>2
<1>5. PICK w \in Request :
        /\ request' = [request EXCEPT ![r] = w] /\ w.layers = <<>>
        /\ w.at \in {"idle", "next", "layers"}
        /\ w.at = "layers" => w.scope \in EdgeCameras
  <2>1. CASE Finish(r)
    BY <1>3, <2>1 DEF Finish
  <2>2. ASSUME NEW c \in EdgeCameras, View(r, c)
        PROVE  \E w \in Request : /\ request' = [request EXCEPT ![r] = w] /\ w.layers = <<>>
                                  /\ w.at = "next"
    <3>1. PICK w : w = [d EXCEPT !.op = "view", !.at = "next", !.todo = {c}]
      OBVIOUS
    <3>2. w \in Request /\ w.at = "next" /\ w.layers = <<>>
      BY <1>3, <3>1 DEF Request
    <3> QED
      BY <1>3, <2>2, <3>1, <3>2 DEF View
  <2>3. ASSUME NEW c \in EdgeCameras, CacheHit(r, c)
        PROVE  \E w \in Request : /\ request' = [request EXCEPT ![r] = w] /\ w.layers = <<>>
                                  /\ w.at = "next"
    <3>1. PICK w : w = [u EXCEPT !.at = "next", !.todo = @ \ {c}, !.layers = <<>>]
      OBVIOUS
    <3>2. w \in Request /\ w.at = "next" /\ w.layers = <<>>
      <4>1. u.todo \ {c} \in SUBSET EdgeCameras /\ <<>> \in Seq(Layers)
        BY DEF Request
      <4> QED
        BY <3>1, <4>1 DEF Request
    <3>3. request' = [request EXCEPT ![r] = w]
      BY <1>1, <2>3, <3>1 DEF CacheHit, Give, SettingsInv, SettingsTypes
    <3> QED
      BY <3>2, <3>3
  <2>4. ASSUME NEW c \in EdgeCameras, CacheMiss(r, c)
        PROVE  \E w \in Request : /\ request' = [request EXCEPT ![r] = w] /\ w.layers = <<>>
                                  /\ w.at = "layers" /\ w.scope \in EdgeCameras
    <3>1. PICK w : w = [u EXCEPT !.at = "layers", !.scope = c]
      OBVIOUS
    <3>2. w \in Request /\ w.at = "layers" /\ w.layers = u.layers /\ w.scope = c
      BY <3>1, ScopeTypes DEF Request
    <3>3. request' = [request EXCEPT ![r] = w]
      BY <1>1, <2>4, <3>1 DEF CacheMiss, SettingsInv, SettingsTypes
    <3>4. u.layers = <<>>
      BY <1>1, <2>4 DEF CacheMiss, SettingsInv, ReadingRight
    <3> QED
      BY <3>2, <3>3, <3>4
  <2> QED
    BY <2>1, <2>2, <2>3, <2>4
<1> QED
  BY <1>2, <1>4, <1>5, MoveStep

\* One more layer is read.
LEMMA ReadLayerStep ==
  ASSUME SettingsInv, NEW r \in Requests, ReadLayer(r)
  PROVE  SettingsInv'
<1>1. request[r].at = "layers" /\ UNCHANGED <<settings, cached, entryAge, quiet, pushed, redisFaults>>
  BY DEF ReadLayer
<1>2. PICK u \in Request : u = request[r]
  BY DEF SettingsInv, SettingsTypes
<1>3. PICK n \in 0 .. 3 : n = Len(u.layers)
  <2>1. u.layers \in Seq(Layers) /\ Len(u.layers) < 4
    BY <1>1, <1>2 DEF SettingsInv, ReadingRight, Request
  <2>2. PICK n \in Nat : n = Len(u.layers)
    BY <2>1, LenProperties
  <2>3. n < 4
    BY <2>1, <2>2
  <2>4. n \in 0 .. 3
    BY <2>3
  <2> QED
    BY <2>2, <2>4
<1>4. PICK x : x = Layer(Chain(u.scope)[n + 1])
  OBVIOUS
<1>5. PICK s : s = Append(u.layers, x)
  OBVIOUS
<1>6. u.layers \in Seq(Layers) /\ x \in Layers
  BY <1>4, LayerTypes DEF Request
<1>7. /\ s \in Seq(Layers) /\ Len(s) = n + 1 /\ s[n + 1] = x
      /\ \A i \in 1 .. n : s[i] = u.layers[i]
  BY <1>3, <1>5, <1>6, AppendProperties
<1>8. PICK a \in {"merge", "layers"} : a = IF n + 1 = 4 THEN "merge" ELSE "layers"
  OBVIOUS
<1>9. PICK w : w = [u EXCEPT !.layers = s, !.at = a]
  OBVIOUS
<1>10. w \in Request /\ w.at = a /\ w.layers = s /\ w.scope = u.scope
  BY <1>7, <1>9 DEF Request
<1>11. request' = [request EXCEPT ![r] = w]
  <2>1. request' = [request EXCEPT ![r].layers = s, ![r].at = IF Len(s) = 4 THEN "merge" ELSE "layers"]
    BY <1>2, <1>3, <1>4, <1>5 DEF ReadLayer, Resolved
  <2>2. a = IF Len(s) = 4 THEN "merge" ELSE "layers"
    BY <1>7, <1>8
  <2> QED
    BY <1>2, <1>9, <2>1, <2>2 DEF SettingsInv, SettingsTypes
<1>12. /\ request' \in [Requests -> Request] /\ request'[r] = w
       /\ \A q \in Requests \ {r} : request'[q] = request[q]
  BY <1>10, <1>11, RequestChange
<1>13. SettingsTypes'
  BY <1>1, <1>12 DEF SettingsInv, SettingsTypes
<1>14. ReadingRight'
  <2>1. u.scope \in EdgeCameras
    BY <1>1, <1>2 DEF SettingsInv, ReadingRight
  <2>2. (a = "layers" => n + 1 < 4) /\ (a = "merge" => n + 1 = 4)
    <3>1. (a = "layers" => n + 1 # 4) /\ (a = "merge" => n + 1 = 4)
      BY <1>8
    <3>2. n + 1 # 4 => n + 1 < 4
      OBVIOUS
    <3> QED
      BY <3>1, <3>2
  <2> QED
    BY <1>7, <1>8, <1>10, <1>12, <2>1, <2>2 DEF SettingsInv, ReadingRight
<1>15. LayersRight'
  <2> SUFFICES ASSUME NEW q \in Requests, quiet > 0, request'[q].at \in {"layers", "merge"},
                      NEW i \in 1 .. Len(request'[q].layers)
               PROVE  request'[q].layers[i] =
                        IF Chain(request'[q].scope)[i] \in DOMAIN settings
                        THEN settings[Chain(request'[q].scope)[i]] ELSE Unset
    BY <1>1 DEF LayersRight, Layer
  <2>1. CASE q # r
    BY <1>12, <2>1 DEF SettingsInv, LayersRight, Layer
  <2>2. CASE q = r
    <3>1. i \in 1 .. n + 1 /\ request'[q] = w
      BY <1>7, <1>10, <1>12, <2>2
    <3>2. CASE i = n + 1
      BY <1>4, <1>7, <1>10, <3>1, <3>2 DEF Layer
    <3>3. CASE i \in 1 .. n
      <4>1. u.layers[i] = Layer(Chain(u.scope)[i])
        BY <1>1, <1>2, <1>3, <3>3 DEF SettingsInv, LayersRight
      <4> QED
        BY <1>7, <1>10, <3>1, <3>3, <4>1 DEF Layer
    <3> QED
      BY <1>3, <3>1, <3>2, <3>3
  <2> QED
    BY <2>1, <2>2
<1>16. EntriesRight'
  BY <1>1, CurrentKept DEF SettingsInv, EntriesRight
<1> QED
  BY <1>13, <1>14, <1>15, <1>16 DEF SettingsInv

\* Four layers are merged: the entry is new, and it is what the documents say unless they
\* changed since time last passed.
LEMMA MergeStep ==
  ASSUME SettingsInv, NEW r \in Requests, MergeAndCache(r)
  PROVE  SettingsInv'
<1>1. request[r].at = "merge" /\ UNCHANGED <<settings, quiet>>
  BY DEF MergeAndCache
<1>2. PICK u \in Request : u = request[r]
  BY DEF SettingsInv, SettingsTypes
<1>3. u.layers \in Seq(Layers) /\ Len(u.layers) = 4
  BY <1>1, <1>2 DEF SettingsInv, ReadingRight, Request
<1>4. PICK k \in EdgeCameras : k = u.scope
  BY <1>1, <1>2 DEF SettingsInv, ReadingRight
<1>5. PICK v : v = Merge(u.layers)
  OBVIOUS
<1>6. v \in Values
  <2>1. u.layers[1] \in Layers /\ u.layers[2] \in Layers /\ u.layers[3] \in Layers /\ u.layers[4] \in Layers
    BY <1>3, ElementOfSeq
  <2>2. \A x \in Values : \A y \in Layers : Override(x, y) \in Values
    BY DEF Override, Layers
  <2> QED
    BY <1>5, <2>1, <2>2, DetectionAssumption DEF Merge
<1>7. quiet > 0 => v = Current(k)
  <2> SUFFICES ASSUME quiet > 0
               PROVE  v = Current(k)
    OBVIOUS
  <2>1. \A i \in 1 .. 4 : u.layers[i] = Layer(Chain(k)[i])
    BY <1>1, <1>2, <1>3, <1>4 DEF SettingsInv, LayersRight
  <2>2. /\ u.layers[1] = Layer(Chain(k)[1]) /\ u.layers[2] = Layer(Chain(k)[2])
        /\ u.layers[3] = Layer(Chain(k)[3]) /\ u.layers[4] = Layer(Chain(k)[4])
    BY <2>1
  <2> QED
    BY <1>5, <2>2 DEF Merge, Current
<1>8. /\ \/ /\ cached' = [cached EXCEPT ![k] = v] /\ entryAge' = [entryAge EXCEPT ![k] = 0]
         \/ UNCHANGED <<cached, entryAge>>
      /\ pushed' \in {pushed, [pushed EXCEPT ![k] = v]}
      /\ redisFaults' \in 0 .. MaxRedisFaults
  BY <1>2, <1>4, <1>5, DetectionAssumption DEF MergeAndCache, Resolved, Give, SettingsInv, SettingsTypes
<1>9. PICK w : w = [u EXCEPT !.at = "next", !.todo = @ \ {k}, !.layers = <<>>]
  OBVIOUS
<1>10. w \in Request /\ w.at = "next" /\ w.layers = <<>>
  <2>1. u.todo \ {k} \in SUBSET EdgeCameras /\ <<>> \in Seq(Layers)
    BY DEF Request
  <2> QED
    BY <1>9, <2>1 DEF Request
<1>11. request' = [request EXCEPT ![r] = w]
  <2>1. request' = [request EXCEPT ![r].at = "next", ![r].todo = @ \ {k}, ![r].layers = <<>>]
    BY <1>2, <1>4 DEF MergeAndCache, Resolved, Give
  <2> QED
    BY <1>2, <1>9, <2>1 DEF SettingsInv, SettingsTypes
<1>12. /\ request' \in [Requests -> Request] /\ request'[r] = w
       /\ \A q \in Requests \ {r} : request'[q] = request[q]
  BY <1>10, <1>11, RequestChange
<1>13. /\ cached \in [EdgeCameras -> Values \cup {Nothing}]
       /\ pushed \in [EdgeCameras -> Values \cup {Nothing}]
       /\ entryAge \in [EdgeCameras -> 0 .. Lifetime] /\ Lifetime \in Nat \ {0} /\ quiet \in Nat
  BY DetectionAssumption DEF SettingsInv, SettingsTypes
<1>14. SettingsTypes'
  <2>1. /\ cached' \in [EdgeCameras -> Values \cup {Nothing}]
        /\ pushed' \in [EdgeCameras -> Values \cup {Nothing}]
        /\ entryAge' \in [EdgeCameras -> 0 .. Lifetime]
    BY <1>6, <1>8, <1>13
  <2> QED
    BY <1>1, <1>8, <1>12, <2>1 DEF SettingsInv, SettingsTypes
<1>15. ReadingRight'
  BY <1>10, <1>12 DEF SettingsInv, ReadingRight
<1>16. LayersRight'
  <2> SUFFICES ASSUME NEW q \in Requests, quiet > 0, request'[q].at \in {"layers", "merge"},
                      NEW i \in 1 .. Len(request'[q].layers)
               PROVE  request'[q].layers[i] =
                        IF Chain(request'[q].scope)[i] \in DOMAIN settings
                        THEN settings[Chain(request'[q].scope)[i]] ELSE Unset
    BY <1>1 DEF LayersRight, Layer
  <2>1. q # r
    BY <1>10, <1>12
  <2> QED
    BY <1>12, <2>1 DEF SettingsInv, LayersRight, Layer
<1>17. EntriesRight'
  <2> SUFFICES ASSUME NEW c \in EdgeCameras, cached'[c] # Nothing
               PROVE  entryAge'[c] < Lifetime /\ (cached'[c] # Current(c) => quiet <= entryAge'[c])
    BY <1>1, CurrentKept DEF EntriesRight
  <2>1. CASE cached'[c] = cached[c] /\ entryAge'[c] = entryAge[c]
    BY <2>1 DEF SettingsInv, EntriesRight
  <2>2. CASE c = k /\ cached'[c] = v /\ entryAge'[c] = 0
    BY <1>7, <1>13, <2>2
  <2>3. \/ cached'[c] = cached[c] /\ entryAge'[c] = entryAge[c]
        \/ c = k /\ cached'[c] = v /\ entryAge'[c] = 0
    BY <1>8, <1>13
  <2> QED
    BY <2>1, <2>2, <2>3
<1> QED
  BY <1>14, <1>15, <1>16, <1>17 DEF SettingsInv

\* Time passes: no request is under way, and what is stale grows older or is gone.
LEMMA TimeStep ==
  ASSUME SettingsInv, TimePasses
  PROVE  SettingsInv'
<1>1. /\ \A r \in Requests : request[r] = NoRequest
      /\ quiet' = IF quiet <= Lifetime THEN quiet + 1 ELSE quiet
      /\ UNCHANGED <<settings, pushed, request, redisFaults>>
  BY DEF TimePasses, Under, Unused
<1>2. /\ cached \in [EdgeCameras -> Values \cup {Nothing}]
      /\ entryAge \in [EdgeCameras -> 0 .. Lifetime] /\ Lifetime \in Nat \ {0}
      /\ quiet \in 0 .. Lifetime + 1
  BY DetectionAssumption DEF SettingsInv, SettingsTypes
<1>3. \A c \in EdgeCameras :
        /\ entryAge'[c] = IF cached[c] # Nothing /\ entryAge[c] < Lifetime THEN entryAge[c] + 1 ELSE 0
        /\ cached'[c] = IF entryAge[c] + 1 >= Lifetime THEN Nothing ELSE cached[c]
  BY DEF TimePasses
<1>4. /\ entryAge' = [c \in EdgeCameras |-> entryAge'[c]]
      /\ cached' = [c \in EdgeCameras |-> cached'[c]]
  BY DEF TimePasses
<1>5. \A c \in EdgeCameras : entryAge'[c] \in 0 .. Lifetime /\ cached'[c] \in Values \cup {Nothing}
  BY <1>2, <1>3
<1>6. SettingsTypes'
  <2>1. /\ entryAge' \in [EdgeCameras -> 0 .. Lifetime]
        /\ cached' \in [EdgeCameras -> Values \cup {Nothing}]
    BY <1>4, <1>5
  <2>2. quiet' \in 0 .. Lifetime + 1
    BY <1>1, <1>2
  <2> QED
    BY <1>1, <2>1, <2>2 DEF SettingsInv, SettingsTypes
<1>7. ReadingRight' /\ LayersRight'
  <2>1. NoRequest.at = "idle"
    BY DEF NoRequest
  <2> QED
    BY <1>1, <2>1 DEF SettingsInv, ReadingRight, LayersRight
<1>8. EntriesRight'
  <2> SUFFICES ASSUME NEW c \in EdgeCameras, cached'[c] # Nothing
               PROVE  entryAge'[c] < Lifetime /\ (cached'[c] # Current(c) => quiet' <= entryAge'[c])
    BY <1>1, CurrentKept DEF EntriesRight
  <2>1. cached[c] # Nothing /\ cached'[c] = cached[c] /\ entryAge[c] + 1 < Lifetime /\ entryAge[c] \in Nat
    BY <1>2, <1>3
  <2>2. entryAge'[c] = entryAge[c] + 1
    BY <1>2, <1>3, <2>1
  <2>3. cached[c] # Current(c) => quiet <= entryAge[c]
    BY <2>1 DEF SettingsInv, EntriesRight
  <2> QED
    BY <1>1, <1>2, <2>1, <2>2, <2>3
<1> QED
  BY <1>6, <1>7, <1>8 DEF SettingsInv

LEMMA SettingsInductive ==
  ASSUME SettingsInv, [SettingsNext]_settingVars
  PROVE  SettingsInv'
<1>1. ASSUME NEW r \in Requests, NEW s \in Edited, NEW v \in Values \cup {Unset},
             SaveSettings(r, s, v) \/ ImportConfig(r, s, v)
      PROVE  SettingsInv'
  BY <1>1, ChangeStep
<1>2. ASSUME NEW r \in Requests, NEW s \in Edited,
             ResetSettings(r, s) \/ \E c \in EdgeCameras : BulkApply(r, s, c)
      PROVE  SettingsInv'
  BY <1>2, ChangeStep
<1>3. ASSUME NEW r \in Requests,
             \/ Finish(r) \/ \E c \in EdgeCameras : View(r, c) \/ CacheHit(r, c) \/ CacheMiss(r, c)
      PROVE  SettingsInv'
  BY <1>3, ViewStep
<1>4. ASSUME NEW r \in Requests,
             Invalidate(r) \/ InvalidateFails(r) \/ ReadLayer(r) \/ MergeAndCache(r)
      PROVE  SettingsInv'
  BY <1>4, InvalidateStep, ReadLayerStep, MergeStep
<1>5. CASE UNCHANGED settingVars
  BY <1>5 DEF settingVars, SettingsInv, SettingsTypes, ReadingRight, LayersRight, EntriesRight,
       Layer, Current
<1> QED
  BY <1>1, <1>2, <1>3, <1>4, <1>5, TimeStep DEF SettingsNext

LEMMA SettingsTyped ==
  ASSUME SettingsInv
  PROVE  SettingsTypeOK
<1>1. \A r \in Requests :
        /\ request[r].op \in {"none", "view", "change", "copy"}
        /\ request[r].at \in {"idle", "invalidate", "next", "layers", "merge"}
        /\ request[r].scope \in Scopes /\ request[r].todo \subseteq EdgeCameras
        /\ request[r].layers \in Seq(Layers)
  BY DEF SettingsInv, SettingsTypes, Request
<1>2. \A r \in Requests : Len(request[r].layers) <= 4
  <2> SUFFICES ASSUME NEW r \in Requests PROVE Len(request[r].layers) <= 4
    OBVIOUS
  <2>1. PICK n \in Nat : n = Len(request[r].layers)
    BY <1>1, LenProperties
  <2>2. request[r].at = "layers" => n < 4
    BY <2>1 DEF SettingsInv, ReadingRight
  <2>3. request[r].at = "merge" => n = 4
    BY <2>1 DEF SettingsInv, ReadingRight
  <2>4. request[r].at \in {"idle", "invalidate", "next"} => n = 0
    BY <2>1 DEF SettingsInv, ReadingRight
  <2>5. n <= 4
    BY <1>1, <2>2, <2>3, <2>4
  <2> QED
    BY <2>1, <2>5
<1>3. Range(settings) \subseteq Values \cup {Unset}
  BY DEF SettingsInv, SettingsTypes, Range, Layers
<1> QED
  BY <1>1, <1>2, <1>3 DEF SettingsInv, SettingsTypes, SettingsTypeOK

\* services/detection_control_service.py: documents, cache entries, requests and clocks
\* stay what the types say.
THEOREM SettingsTypeCorrect == SettingsSpec => []SettingsTypeOK
<1>1. SettingsInit => SettingsInv
  BY SettingsInitInv
<1>2. SettingsInv /\ [SettingsNext]_settingVars => SettingsInv'
  BY SettingsInductive
<1>3. SettingsInv => SettingsTypeOK
  BY SettingsTyped
<1> QED
  BY <1>1, <1>2, <1>3, PTL DEF SettingsSpec

\* Once no document has changed for the lifetime of an entry, what the cache answers is
\* what the documents say, for any number of cameras, scopes, requests and failures of Redis.
THEOREM CacheCorrect == SettingsSpec => []CacheCatchesUp
<1>1. SettingsInit => SettingsInv
  BY SettingsInitInv
<1>2. SettingsInv /\ [SettingsNext]_settingVars => SettingsInv'
  BY SettingsInductive
<1>3. SettingsInv => CacheCatchesUp
  <2> SUFFICES ASSUME SettingsInv, quiet >= Lifetime, NEW c \in EdgeCameras
               PROVE  cached[c] \in {Nothing, Effective(c)}
    BY DEF CacheCatchesUp
  <2>1. entryAge[c] \in 0 .. Lifetime /\ Lifetime \in Nat /\ quiet \in Nat
    BY DetectionAssumption DEF SettingsInv, SettingsTypes
  <2>2. cached[c] # Nothing => cached[c] = Current(c)
    BY <2>1 DEF SettingsInv, EntriesRight
  <2> QED
    BY <2>2, CurrentIsEffective
<1> QED
  BY <1>1, <1>2, <1>3, PTL DEF SettingsSpec

-------------------------------------------------------------------------------
(* Detection in the cloud *)

LogEntry == [saw : BOOLEAN, by : Verdicts, linked : BOOLEAN, key : 0 .. NoKey]
Run == [at : {"idle", "framed", "validated", "new", "wet", "counted"},
        cam : Streams, task : BOOLEAN, saw : BOOLEAN, by : Verdicts,
        key : 0 .. NoKey, entry : 0 .. MaxLogs]

Wet(c) == {i \in DOMAIN logs[c] : logs[c][i].by = 5}
Linked(c) == {i \in DOMAIN logs[c] : logs[c][i].linked}
Unlinked(c) == Wet(c) \ Linked(c)
At(c, s) == {r \in Runs : run[r].cam = c /\ run[r].at = s}
UnderWay(c) == At(c, "wet") \cup At(c, "counted")

LogTypes ==
  /\ logs \in [Streams -> Seq(LogEntry)] /\ \A c \in Streams : Len(logs[c]) <= MaxLogs
  /\ run \in [Runs -> Run]
\* Tasks come from starts and from processes that died.
BoundTypes ==
  /\ waiting \in [Streams -> Nat] /\ \A c \in Streams : waiting[c] <= starts + breaks
  /\ counted \in [Streams -> Nat]
  /\ cutOff \in [Streams -> Nat]
  /\ starts \in 0 .. MaxStarts /\ second \in 0 .. MaxSeconds /\ breaks \in 0 .. MaxBreaks
\* A detection that is to be reported or linked has a wet entry of its own, not yet linked;
\* only wet entries are linked.
EntryRight(c) ==
  /\ Linked(c) \subseteq Wet(c)
  /\ \A r \in UnderWay(c) : run[r].entry \in Unlinked(c)
  /\ \A r, q \in UnderWay(c) : run[r].entry = run[q].entry => r = q
CountRight(c) ==
  /\ Cardinality(Unlinked(c)) =
       Cardinality(At(c, "wet")) + Cardinality(At(c, "counted")) + cutOff[c]
  /\ counted[c] >= Cardinality(Linked(c)) + Cardinality(At(c, "counted"))
  /\ counted[c] + Cardinality(At(c, "wet")) <= Cardinality(Wet(c))
DetectInv == LogTypes /\ BoundTypes /\ \A c \in Streams : EntryRight(c) /\ CountRight(c)

LEMMA NoRunIs ==
  /\ NoRun \in Run /\ NoRun.at = "idle"
  /\ \A c \in Streams, b \in BOOLEAN, x \in BOOLEAN :
       /\ Framed(c, b, x) \in Run /\ Framed(c, b, x).at = "framed"
<1>1. /\ NoKey \in 0 .. NoKey /\ 0 \in 0 .. MaxLogs /\ 0 \in Verdicts
  BY CloudDetectionAssumption DEF NoKey, Verdicts
<1>2. PICK d : d = CHOOSE c \in Streams : TRUE
  OBVIOUS
<1>3. d \in Streams
  BY <1>2, CloudDetectionAssumption
<1>4. NoRun = [at |-> "idle", cam |-> d, task |-> FALSE,
               saw |-> FALSE, by |-> 0, key |-> NoKey, entry |-> 0]
  BY <1>2 DEF NoRun
<1>5. NoRun \in Run /\ NoRun.at = "idle"
  BY <1>1, <1>3, <1>4 DEF Run
<1>6. PICK n \in Run : n = NoRun
  BY <1>5
<1>7. ASSUME NEW c \in Streams, NEW b \in BOOLEAN, NEW x \in BOOLEAN
      PROVE  Framed(c, b, x) \in Run /\ Framed(c, b, x).at = "framed"
  <2>1. Framed(c, b, x) = [n EXCEPT !.at = "framed", !.cam = c, !.task = b, !.saw = x]
    BY <1>6 DEF Framed
  <2> QED
    BY <2>1 DEF Run
<1> QED
  BY <1>5, <1>7

LEMMA DetectInitInv ==
  ASSUME DetectionInit
  PROVE  DetectInv
<1>1. /\ NoKey \in Nat /\ {MaxLogs, MaxStarts, MaxSeconds, MaxBreaks} \subseteq Nat
      /\ NoKey \in 0 .. NoKey
  BY CloudDetectionAssumption DEF NoKey
<1>2. NoRun \in Run /\ NoRun.at = "idle"
  BY NoRunIs
<1>3. LogTypes
  <2>1. \A c \in Streams : logs[c] \in Seq(LogEntry) /\ Len(logs[c]) = 0
    BY DEF DetectionInit
  <2>2. logs \in [Streams -> Seq(LogEntry)]
    BY <2>1 DEF DetectionInit
  <2>3. run \in [Runs -> Run]
    BY <1>2 DEF DetectionInit
  <2> QED
    BY <1>1, <2>1, <2>2, <2>3 DEF LogTypes
<1>4. BoundTypes
  <2>1. /\ waiting \in [Streams -> Nat] /\ cutOff \in [Streams -> Nat]
        /\ counted \in [Streams -> Nat]
    BY DEF DetectionInit
  <2>2. \A c \in Streams : waiting[c] = 0
    BY DEF DetectionInit
  <2>3. /\ starts = 0 /\ second = 0 /\ breaks = 0
    BY DEF DetectionInit
  <2> QED
    BY <1>1, <2>1, <2>2, <2>3 DEF BoundTypes
<1>5. \A c \in Streams : Wet(c) = {} /\ Linked(c) = {} /\ Unlinked(c) = {}
  BY DEF DetectionInit, Wet, Linked, Unlinked
<1>6. \A r \in Runs : run[r].at = "idle"
  BY <1>2 DEF DetectionInit
<1>7. \A c \in Streams : At(c, "wet") = {} /\ At(c, "counted") = {}
  BY <1>6 DEF At
<1>8. ASSUME NEW c \in Streams PROVE EntryRight(c) /\ CountRight(c)
  <2>1. counted[c] = 0 /\ cutOff[c] = 0
    BY DEF DetectionInit
  <2>2. /\ Cardinality(Wet(c)) = 0 /\ Cardinality(Linked(c)) = 0 /\ Cardinality(Unlinked(c)) = 0
        /\ Cardinality(At(c, "wet")) = 0 /\ Cardinality(At(c, "counted")) = 0
    BY <1>5, <1>7, FS_EmptySet
  <2>3. EntryRight(c)
    BY <1>5, <1>7 DEF EntryRight, UnderWay
  <2> QED
    BY <2>1, <2>2, <2>3 DEF CountRight
<1> QED
  BY <1>3, <1>4, <1>8 DEF DetectInv

\* The sets that are counted are finite.
LEMMA DetectFinite ==
  ASSUME LogTypes, NEW c \in Streams
  PROVE  /\ IsFiniteSet(Wet(c)) /\ IsFiniteSet(Linked(c)) /\ IsFiniteSet(Unlinked(c))
         /\ Cardinality(Wet(c)) \in Nat /\ Cardinality(Linked(c)) \in Nat
         /\ Cardinality(Unlinked(c)) \in Nat
         /\ Cardinality(Wet(c)) <= Len(logs[c])
         /\ \A s : IsFiniteSet(At(c, s)) /\ Cardinality(At(c, s)) \in Nat
<1>1. logs[c] \in Seq(LogEntry)
  BY DEF LogTypes
<1>2. PICK n \in Nat : n = Len(logs[c])
  BY <1>1, LenProperties
<1>3. DOMAIN logs[c] = 1 .. n
  BY <1>1, <1>2, LenProperties
<1>4. IsFiniteSet(1 .. n) /\ Cardinality(1 .. n) = n
  <2>1. 1 \in Int /\ n \in Int
    OBVIOUS
  <2> QED
    BY <2>1, FS_Interval
<1>5. Wet(c) \subseteq 1 .. n /\ Linked(c) \subseteq 1 .. n /\ Unlinked(c) \subseteq 1 .. n
  BY <1>3 DEF Wet, Linked, Unlinked
<1>6. /\ IsFiniteSet(Wet(c)) /\ IsFiniteSet(Linked(c)) /\ IsFiniteSet(Unlinked(c))
      /\ Cardinality(Wet(c)) <= n
  BY <1>4, <1>5, FS_Subset
<1>7. \A s : At(c, s) \subseteq Runs
  BY DEF At
<1>8. \A s : IsFiniteSet(At(c, s))
  BY <1>7, FS_Subset, CloudDetectionAssumption
<1> QED
  BY <1>2, <1>6, <1>8, FS_CardinalityType

\* One detection changes.
LEMMA RunChange ==
  ASSUME LogTypes, NEW r \in Runs, NEW w \in Run, run' = [run EXCEPT ![r] = w]
  PROVE  /\ run' \in [Runs -> Run] /\ run'[r] = w
         /\ \A q \in Runs \ {r} : run'[q] = run[q]
         /\ \A c \in Streams :
              /\ At(c, "wet")' = IF w.cam = c /\ w.at = "wet" THEN At(c, "wet") \cup {r}
                                 ELSE At(c, "wet") \ {r}
              /\ At(c, "counted")' = IF w.cam = c /\ w.at = "counted" THEN At(c, "counted") \cup {r}
                                     ELSE At(c, "counted") \ {r}
<1>1. run \in [Runs -> Run]
  BY DEF LogTypes
<1>2. /\ run' \in [Runs -> Run] /\ run'[r] = w
      /\ \A q \in Runs \ {r} : run'[q] = run[q]
  BY <1>1
<1>3. ASSUME NEW c \in Streams, NEW s \in {"wet", "counted"}
      PROVE  At(c, s)' = IF w.cam = c /\ w.at = s THEN At(c, s) \cup {r} ELSE At(c, s) \ {r}
  BY <1>2 DEF At
<1>4. \A c \in Streams :
        /\ At(c, "wet")' = IF w.cam = c /\ w.at = "wet" THEN At(c, "wet") \cup {r}
                           ELSE At(c, "wet") \ {r}
        /\ At(c, "counted")' = IF w.cam = c /\ w.at = "counted" THEN At(c, "counted") \cup {r}
                               ELSE At(c, "counted") \ {r}
  BY <1>3
<1> QED
  BY <1>2, <1>4

\* A camera none of whose detections or counters change
LEMMA OtherCamera ==
  ASSUME DetectInv, NEW c \in Streams,
         Wet(c)' = Wet(c), Linked(c)' = Linked(c),
         At(c, "wet")' = At(c, "wet"), At(c, "counted")' = At(c, "counted"),
         \A q \in UnderWay(c) : run'[q] = run[q],
         counted'[c] = counted[c], cutOff'[c] = cutOff[c]
  PROVE  EntryRight(c)' /\ CountRight(c)'
<1>1. EntryRight(c) /\ CountRight(c)
  BY DEF DetectInv
<1>2. Unlinked(c)' = Unlinked(c) /\ UnderWay(c)' = UnderWay(c)
  BY DEF Unlinked, UnderWay
<1>3. EntryRight(c)'
  BY <1>1, <1>2 DEF EntryRight
<1>4. CountRight(c)'
  BY <1>1, <1>2 DEF CountRight
<1> QED
  BY <1>3, <1>4

\* What is neither to be reported nor to be linked, before and after, counts for nothing.
LEMMA DetectInert ==
  ASSUME DetectInv, NEW r \in Runs, NEW w \in Run, run' = [run EXCEPT ![r] = w],
         run[r].at \notin {"wet", "counted"}, w.at \notin {"wet", "counted"},
         UNCHANGED <<logs, counted, cutOff>>
  PROVE  LogTypes' /\ \A c \in Streams : EntryRight(c)' /\ CountRight(c)'
<1>1. LogTypes
  BY DEF DetectInv
<1>2. /\ run' \in [Runs -> Run] /\ run'[r] = w
      /\ \A q \in Runs \ {r} : run'[q] = run[q]
  BY <1>1, RunChange
<1>3. LogTypes'
  BY <1>1, <1>2 DEF LogTypes
<1>4. ASSUME NEW c \in Streams
      PROVE  EntryRight(c)' /\ CountRight(c)'
  <2>1. /\ At(c, "wet")' = At(c, "wet") \ {r} /\ r \notin At(c, "wet")
        /\ At(c, "counted")' = At(c, "counted") \ {r} /\ r \notin At(c, "counted")
    BY <1>1, RunChange DEF At
  <2>2. At(c, "wet")' = At(c, "wet") /\ At(c, "counted")' = At(c, "counted")
    BY <2>1
  <2>3. \A q \in UnderWay(c) : run'[q] = run[q]
    BY <1>2, <2>1 DEF UnderWay, At
  <2>4. Wet(c)' = Wet(c) /\ Linked(c)' = Linked(c)
    BY DEF Wet, Linked
  <2> QED
    BY <2>2, <2>3, <2>4, OtherCamera
<1> QED
  BY <1>3, <1>4

\* A log with nothing linked is appended for one camera.
LEMMA AppendLog ==
  ASSUME LogTypes, NEW c \in Streams, NEW e \in LogEntry, ~e.linked, Len(logs[c]) < MaxLogs,
         logs' = [logs EXCEPT ![c] = Append(@, e)], NEW n, n = Len(logs[c]) + 1
  PROVE  /\ logs' \in [Streams -> Seq(LogEntry)] /\ \A d \in Streams : Len(logs'[d]) <= MaxLogs
         /\ \A d \in Streams \ {c} : Wet(d)' = Wet(d) /\ Linked(d)' = Linked(d)
         /\ Linked(c)' = Linked(c)
         /\ Wet(c)' = IF e.by = 5 THEN Wet(c) \cup {n} ELSE Wet(c)
         /\ n \notin Wet(c) /\ n \notin Linked(c) /\ n \in 0 .. MaxLogs
<1>1. PICK s \in Seq(LogEntry) : s = logs[c]
  BY DEF LogTypes
<1>2. PICK m \in Nat : m = Len(s)
  BY <1>1, LenProperties
<1>3. MaxLogs \in Nat /\ n = m + 1 /\ m < MaxLogs /\ n \in 0 .. MaxLogs
  BY <1>1, <1>2, CloudDetectionAssumption
<1>4. PICK t \in Seq(LogEntry) : t = Append(s, e)
  BY <1>1, AppendProperties
<1>5. /\ Len(t) = n /\ \A i \in 1 .. m : t[i] = s[i]
      /\ t[n] = e
  BY <1>1, <1>2, <1>3, <1>4, AppendProperties
<1>6. logs' = [logs EXCEPT ![c] = t]
  BY <1>1, <1>4
<1>7. /\ logs' \in [Streams -> Seq(LogEntry)] /\ logs'[c] = t
      /\ \A d \in Streams \ {c} : logs'[d] = logs[d]
  BY <1>6 DEF LogTypes
<1>8. \A d \in Streams : Len(logs'[d]) <= MaxLogs
  BY <1>3, <1>5, <1>7 DEF LogTypes
<1>9. \A d \in Streams \ {c} : Wet(d)' = Wet(d) /\ Linked(d)' = Linked(d)
  BY <1>7 DEF Wet, Linked
<1>10. DOMAIN s = 1 .. m /\ DOMAIN t = 1 .. n /\ n \notin 1 .. m /\ 1 .. n = (1 .. m) \cup {n}
  BY <1>2, <1>3, <1>5, LenProperties
<1>11. Linked(c)' = Linked(c)
  BY <1>1, <1>5, <1>7, <1>10 DEF Linked
<1>12. Wet(c)' = IF e.by = 5 THEN Wet(c) \cup {n} ELSE Wet(c)
  BY <1>1, <1>5, <1>7, <1>10 DEF Wet
<1>13. n \notin Wet(c) /\ n \notin Linked(c)
  BY <1>1, <1>10 DEF Wet, Linked
<1> QED
  BY <1>3, <1>7, <1>8, <1>9, <1>11, <1>12, <1>13

\* The clock, the starts, and the steps of a detection before it logs anything
LEMMA BoundsKept ==
  ASSUME DetectInv, UNCHANGED <<waiting, starts, second, counted, cutOff, breaks>>
  PROVE  BoundTypes'
BY DEF DetectInv, BoundTypes

LEMMA ClockStep ==
  ASSUME DetectInv, SecondPasses \/ StartContinuous
  PROVE  DetectInv'
<1>1. UNCHANGED <<logs, run, counted, cutOff, breaks>>
  BY DEF SecondPasses, StartContinuous
<1>2. LogTypes'
  BY <1>1 DEF DetectInv, LogTypes
<1>3. BoundTypes'
  <2>1. starts \in Nat /\ second \in Nat /\ breaks \in Nat /\ {MaxStarts, MaxSeconds} \subseteq Nat
    BY CloudDetectionAssumption DEF DetectInv, BoundTypes
  <2>2. CASE SecondPasses
    <3>1. second' \in 0 .. MaxSeconds /\ UNCHANGED <<waiting, starts>>
      BY <2>1, <2>2 DEF SecondPasses, DetectInv, BoundTypes
    <3> QED
      BY <1>1, <3>1 DEF DetectInv, BoundTypes
  <2>3. CASE StartContinuous
    <3>1. /\ starts' = starts + 1 /\ starts' \in 0 .. MaxStarts /\ second' = second
      BY <2>1, <2>3 DEF StartContinuous, DetectInv, BoundTypes
    <3>2. PICK Z \in SUBSET Streams :
            waiting' = [c \in Streams |-> waiting[c] + IF c \in Z THEN 1 ELSE 0]
      BY <2>3 DEF StartContinuous
    <3>3. \A c \in Streams : waiting[c] \in Nat /\ waiting[c] <= starts + breaks
      BY DEF DetectInv, BoundTypes
    <3>4. \A c \in Streams : /\ waiting'[c] = waiting[c] + (IF c \in Z THEN 1 ELSE 0)
                             /\ waiting'[c] \in Nat
                             /\ waiting'[c] <= starts + 1 + breaks
      BY <2>1, <3>2, <3>3
    <3>5. waiting' = [c \in Streams |-> waiting'[c]]
      BY <3>2
    <3>6. waiting' \in [Streams -> Nat]
      BY <3>4, <3>5
    <3> QED
      BY <1>1, <3>1, <3>4, <3>6 DEF DetectInv, BoundTypes
  <2> QED
    BY <2>2, <2>3
<1>4. ASSUME NEW c \in Streams PROVE EntryRight(c)' /\ CountRight(c)'
  <2>1. /\ Wet(c)' = Wet(c) /\ Linked(c)' = Linked(c)
        /\ At(c, "wet")' = At(c, "wet") /\ At(c, "counted")' = At(c, "counted")
    BY <1>1 DEF Wet, Linked, At
  <2> QED
    BY <1>1, <2>1, OtherCamera
<1> QED
  BY <1>2, <1>3, <1>4 DEF DetectInv

LEMMA BeginRunStep ==
  ASSUME DetectInv, NEW r \in Runs, NEW c \in Streams, BeginManual(r, c) \/ BeginTask(r, c)
  PROVE  DetectInv'
<1>1. UNCHANGED <<logs, starts, second, counted, cutOff, breaks>> /\ run[r].at = "idle"
  BY DEF BeginManual, BeginTask
<1>2. run' = run \/ \E b, x \in BOOLEAN : run' = [run EXCEPT ![r] = Framed(c, b, x)]
  BY DEF BeginManual, BeginTask, WaterSeen
<1>3. LogTypes' /\ \A d \in Streams : EntryRight(d)' /\ CountRight(d)'
  <2>1. CASE run' = run
    <3>1. LogTypes'
      BY <1>1, <2>1 DEF DetectInv, LogTypes
    <3>2. ASSUME NEW d \in Streams PROVE EntryRight(d)' /\ CountRight(d)'
      <4>1. /\ Wet(d)' = Wet(d) /\ Linked(d)' = Linked(d)
            /\ At(d, "wet")' = At(d, "wet") /\ At(d, "counted")' = At(d, "counted")
        BY <1>1, <2>1 DEF Wet, Linked, At
      <4> QED
        BY <1>1, <2>1, <4>1, OtherCamera
    <3> QED
      BY <3>1, <3>2
  <2>2. CASE \E b, x \in BOOLEAN : run' = [run EXCEPT ![r] = Framed(c, b, x)]
    <3>1. PICK b \in BOOLEAN, x \in BOOLEAN : run' = [run EXCEPT ![r] = Framed(c, b, x)]
      BY <2>2
    <3>2. Framed(c, b, x) \in Run /\ Framed(c, b, x).at = "framed"
      BY NoRunIs
    <3>3. PICK w \in Run : w = Framed(c, b, x)
      BY <3>2
    <3>4. run' = [run EXCEPT ![r] = w] /\ w.at = "framed"
      BY <3>1, <3>2, <3>3
    <3> QED
      BY <1>1, <3>4, DetectInert
  <2> QED
    BY <1>2, <2>1, <2>2
<1>4. BoundTypes'
  <2>1. waiting' = waiting \/ (waiting' = [waiting EXCEPT ![c] = @ - 1] /\ waiting[c] > 0)
    BY DEF BeginManual, BeginTask
  <2>2. /\ waiting \in [Streams -> Nat] /\ starts \in Nat /\ breaks \in Nat
        /\ \A d \in Streams : waiting[d] <= starts + breaks
    BY CloudDetectionAssumption DEF DetectInv, BoundTypes
  <2>3. waiting' \in [Streams -> Nat] /\ \A d \in Streams : waiting'[d] <= waiting[d]
    BY <2>1, <2>2
  <2>4. \A d \in Streams : waiting'[d] <= starts + breaks
    <3>1. SUFFICES ASSUME NEW d \in Streams PROVE waiting'[d] <= starts + breaks
      OBVIOUS
    <3>2. waiting[d] \in Nat /\ waiting'[d] \in Nat
      BY <2>2, <2>3
    <3> QED
      BY <2>2, <2>3, <3>2
  <2> QED
    BY <1>1, <2>3, <2>4 DEF DetectInv, BoundTypes
<1> QED
  BY <1>3, <1>4 DEF DetectInv

LEMMA JudgeStep ==
  ASSUME DetectInv, NEW r \in Runs, Validate(r) \/ CheckKey(r)
  PROVE  DetectInv'
<1>1. UNCHANGED <<logs, waiting, starts, second, counted, cutOff, breaks>>
  BY DEF Validate, CheckKey
<1>2. run[r].at \in {"framed", "validated"}
  BY DEF Validate, CheckKey
<1>3. PICK u \in Run : u = run[r]
  BY DEF DetectInv, LogTypes
<1>4. \E w \in Run : run' = [run EXCEPT ![r] = w] /\ w.at \notin {"wet", "counted"}
  <2>1. CASE Validate(r)
    <3>1. PICK y \in LayersSay(r) : run' = [run EXCEPT ![r].at = "validated", ![r].by = y]
      BY <2>1 DEF Validate
    <3>2. y \in Verdicts
      BY DEF LayersSay, DryReferenceSays, Verdicts
    <3>3. PICK w : w = [u EXCEPT !.at = "validated", !.by = y]
      OBVIOUS
    <3>4. w \in Run /\ w.at = "validated"
      BY <3>2, <3>3 DEF Run
    <3>5. run' = [run EXCEPT ![r] = w]
      BY <1>3, <3>1, <3>3 DEF DetectInv, LogTypes
    <3> QED
      BY <3>4, <3>5
  <2>2. CASE CheckKey(r)
    <3>1. KeyOf(r) \in 0 .. NoKey
      BY CloudDetectionAssumption DEF KeyOf, NoKey, DetectInv, BoundTypes
    <3>2. PICK k \in 0 .. NoKey : k = KeyOf(r)
      BY <3>1
    <3>3. PICK w : w = [u EXCEPT !.at = "new", !.key = k]
      OBVIOUS
    <3>4. w \in Run /\ w.at = "new"
      BY <3>3 DEF Run
    <3>5. run' = [run EXCEPT ![r] = NoRun] \/ run' = [run EXCEPT ![r] = w]
      BY <1>3, <2>2, <3>2, <3>3 DEF CheckKey, DetectInv, LogTypes
    <3> QED
      BY <3>4, <3>5, NoRunIs
  <2> QED
    BY <2>1, <2>2
<1>5. PICK w \in Run : run' = [run EXCEPT ![r] = w] /\ w.at \notin {"wet", "counted"}
  BY <1>4
<1>6. LogTypes' /\ \A c \in Streams : EntryRight(c)' /\ CountRight(c)'
  BY <1>1, <1>2, <1>5, DetectInert
<1> QED
  BY <1>1, <1>6, BoundsKept DEF DetectInv

\* The log of a detection is stored; a wet one waits to be reported.
LEMMA StoreLogStep ==
  ASSUME DetectInv, NEW r \in Runs, StoreLog(r)
  PROVE  DetectInv'
<1>1. /\ UNCHANGED <<waiting, starts, second, counted, cutOff, breaks>>
      /\ run[r].at = "new" /\ Len(logs[run[r].cam]) < MaxLogs
  BY DEF StoreLog
<1>2. BoundTypes'
  BY <1>1, BoundsKept
<1>3. LogTypes
  BY DEF DetectInv
<1>4. PICK u \in Run : u = run[r]
  BY <1>3 DEF LogTypes
<1>5. PICK c \in Streams : c = u.cam
  BY <1>4 DEF Run
<1>6. LogTypes' /\ \A d \in Streams : EntryRight(d)' /\ CountRight(d)'
  <2>1. CASE Repeats(r, run[r].key)
    <3>1. run' = [run EXCEPT ![r] = NoRun] /\ UNCHANGED logs
      BY <2>1 DEF StoreLog
    <3> QED
      BY <1>1, <3>1, NoRunIs, DetectInert
  <2>2. CASE ~Repeats(r, run[r].key)
    <3>1. PICK e : e = Entry(r)
      OBVIOUS
    <3>2. e \in LogEntry /\ ~e.linked /\ e.by = u.by
      BY <1>4, <3>1 DEF Entry, LogEntry, Run
    <3>3. logs' = [logs EXCEPT ![c] = Append(@, e)]
      BY <1>4, <1>5, <2>2, <3>1 DEF StoreLog
    <3>4. PICK n : n = Len(logs[c]) + 1
      OBVIOUS
    <3>5. /\ logs' \in [Streams -> Seq(LogEntry)] /\ \A d \in Streams : Len(logs'[d]) <= MaxLogs
          /\ \A d \in Streams \ {c} : Wet(d)' = Wet(d) /\ Linked(d)' = Linked(d)
          /\ Linked(c)' = Linked(c)
          /\ Wet(c)' = IF e.by = 5 THEN Wet(c) \cup {n} ELSE Wet(c)
          /\ n \notin Wet(c) /\ n \notin Linked(c) /\ n \in 0 .. MaxLogs
      BY <1>1, <1>3, <1>4, <1>5, <3>2, <3>3, <3>4, AppendLog
    <3>6. PICK w : w = IF u.by = 5 THEN [u EXCEPT !.at = "wet", !.entry = n] ELSE NoRun
      OBVIOUS
    <3>7. w \in Run
      BY <3>5, <3>6, NoRunIs DEF Run
    <3>8. /\ u.by = 5 => w.at = "wet" /\ w.cam = c /\ w.entry = n
          /\ u.by # 5 => w.at = "idle"
      BY <1>5, <3>6, NoRunIs DEF Run
    <3>9. run' = [run EXCEPT ![r] = w]
      BY <1>4, <1>5, <2>2, <3>4, <3>6 DEF StoreLog
    <3>10. /\ run' \in [Runs -> Run] /\ run'[r] = w
           /\ \A q \in Runs \ {r} : run'[q] = run[q]
           /\ \A d \in Streams :
                /\ At(d, "wet")' = IF w.cam = d /\ w.at = "wet" THEN At(d, "wet") \cup {r}
                                   ELSE At(d, "wet") \ {r}
                /\ At(d, "counted")' = IF w.cam = d /\ w.at = "counted"
                                       THEN At(d, "counted") \cup {r} ELSE At(d, "counted") \ {r}
      BY <1>3, <3>7, <3>9, RunChange
    <3>11. \A d \in Streams : r \notin At(d, "wet") /\ r \notin At(d, "counted") /\ r \notin UnderWay(d)
      BY <1>1 DEF At, UnderWay
    <3>12. \A d \in Streams : \A q \in UnderWay(d) : run'[q] = run[q]
      BY <3>10, <3>11 DEF UnderWay, At
    <3>13. LogTypes'
      BY <3>5, <3>10 DEF LogTypes
    <3>14. ASSUME NEW d \in Streams, d # c \/ u.by # 5
           PROVE  EntryRight(d)' /\ CountRight(d)'
      <4>1. Wet(d)' = Wet(d) /\ Linked(d)' = Linked(d)
        BY <3>2, <3>5, <3>14
      <4>2. At(d, "wet")' = At(d, "wet") /\ At(d, "counted")' = At(d, "counted")
        <5>1. ~(w.cam = d /\ w.at = "wet") /\ ~(w.cam = d /\ w.at = "counted")
          BY <3>8, <3>14
        <5>2. At(d, "wet")' = At(d, "wet") \ {r} /\ At(d, "counted")' = At(d, "counted") \ {r}
          BY <3>10, <5>1
        <5> QED
          BY <3>11, <5>2
      <4> QED
        BY <1>1, <3>12, <4>1, <4>2, OtherCamera
    <3>15. ASSUME u.by = 5
           PROVE  EntryRight(c)' /\ CountRight(c)'
      <4>1. /\ Wet(c)' = Wet(c) \cup {n} /\ Linked(c)' = Linked(c)
            /\ Unlinked(c)' = Unlinked(c) \cup {n} /\ n \notin Unlinked(c)
        BY <3>2, <3>5, <3>15 DEF Unlinked
      <4>2. /\ At(c, "wet")' = At(c, "wet") \cup {r} /\ At(c, "counted")' = At(c, "counted")
            /\ UnderWay(c)' = UnderWay(c) \cup {r}
        BY <3>8, <3>10, <3>11, <3>15 DEF UnderWay
      <4>3. EntryRight(c) /\ CountRight(c)
        BY DEF DetectInv
      <4>4. EntryRight(c)'
        <5>1. run'[r].entry = n
          BY <3>8, <3>10, <3>15
        <5>2. \A q \in UnderWay(c) : run'[q].entry = run[q].entry /\ run[q].entry \in Unlinked(c)
          BY <3>12, <4>3 DEF EntryRight
        <5>3. Linked(c)' \subseteq Wet(c)'
          BY <4>1, <4>3 DEF EntryRight
        <5>4. \A q \in UnderWay(c)' : run'[q].entry \in Unlinked(c)'
          BY <4>1, <4>2, <5>1, <5>2
        <5>5. \A p, q \in UnderWay(c)' : run'[p].entry = run'[q].entry => p = q
          BY <4>1, <4>2, <4>3, <5>1, <5>2 DEF EntryRight
        <5> QED
          BY <5>3, <5>4, <5>5 DEF EntryRight
      <4>5. CountRight(c)'
        <5>1. /\ IsFiniteSet(Wet(c)) /\ IsFiniteSet(Unlinked(c)) /\ IsFiniteSet(At(c, "wet"))
              /\ Cardinality(Wet(c)) \in Nat /\ Cardinality(Unlinked(c)) \in Nat
              /\ Cardinality(At(c, "wet")) \in Nat /\ Cardinality(At(c, "counted")) \in Nat
          BY <1>3, DetectFinite
        <5>2. /\ Cardinality(Wet(c))' = Cardinality(Wet(c)) + 1
              /\ Cardinality(Unlinked(c))' = Cardinality(Unlinked(c)) + 1
              /\ Cardinality(At(c, "wet"))' = Cardinality(At(c, "wet")) + 1
              /\ Cardinality(At(c, "counted"))' = Cardinality(At(c, "counted"))
              /\ Cardinality(Linked(c))' = Cardinality(Linked(c))
          <6>1. /\ Cardinality(Wet(c) \cup {n}) = Cardinality(Wet(c)) + 1
                /\ Cardinality(Unlinked(c) \cup {n}) = Cardinality(Unlinked(c)) + 1
                /\ Cardinality(At(c, "wet") \cup {r}) = Cardinality(At(c, "wet")) + 1
            BY <3>5, <3>11, <4>1, <5>1, FS_AddElement
          <6> QED
            BY <4>1, <4>2, <6>1
        <5>3. counted[c] \in Nat /\ cutOff[c] \in Nat
          BY DEF DetectInv, BoundTypes
        <5> QED
          BY <1>1, <4>3, <5>1, <5>2, <5>3, SMTT(30) DEF CountRight
      <4> QED
        BY <4>4, <4>5
    <3> QED
      BY <3>13, <3>14, <3>15
  <2> QED
    BY <2>1, <2>2
<1> QED
  BY <1>2, <1>6 DEF DetectInv

\* What a camera's counters and bounds are when one of its detections ends
LEMMA DetectCounts ==
  ASSUME DetectInv, NEW c \in Streams
  PROVE  /\ counted[c] \in Nat /\ cutOff[c] \in Nat /\ breaks \in Nat /\ MaxBreaks \in Nat
         /\ waiting[c] \in Nat /\ waiting[c] <= starts + breaks
         /\ starts \in Nat
BY CloudDetectionAssumption DEF DetectInv, BoundTypes

\* A detection that is to be reported or linked changes: what it was, what every other is
LEMMA HotRun ==
  ASSUME DetectInv, NEW r \in Runs, run[r].at \in {"wet", "counted"}
  PROVE  \E c \in Streams :
           /\ c = run[r].cam /\ r \in At(c, run[r].at) /\ r \in UnderWay(c)
           /\ \A d \in Streams : d # c => r \notin At(d, "wet") /\ r \notin At(d, "counted")
           /\ run[r].at = "wet" => r \notin At(c, "counted")
           /\ run[r].at = "counted" => r \notin At(c, "wet")
           /\ IsFiniteSet(At(c, "wet")) /\ IsFiniteSet(At(c, "counted"))
           /\ Cardinality(At(c, "wet") \ {r}) =
                Cardinality(At(c, "wet")) - IF run[r].at = "wet" THEN 1 ELSE 0
           /\ Cardinality(At(c, "counted") \ {r}) =
                Cardinality(At(c, "counted")) - IF run[r].at = "counted" THEN 1 ELSE 0
<1>1. LogTypes
  BY DEF DetectInv
<1>2. PICK c \in Streams : c = run[r].cam
  BY <1>1 DEF LogTypes, Run
<1>3. r \in At(c, run[r].at) /\ r \in UnderWay(c)
  BY <1>2 DEF At, UnderWay
<1>4. \A d \in Streams : d # c => r \notin At(d, "wet") /\ r \notin At(d, "counted")
  BY <1>2 DEF At
<1>5. /\ run[r].at = "wet" => r \notin At(c, "counted")
      /\ run[r].at = "counted" => r \notin At(c, "wet")
  BY DEF At
<1>6. /\ IsFiniteSet(At(c, "wet")) /\ IsFiniteSet(At(c, "counted"))
      /\ Cardinality(At(c, "wet")) \in Nat /\ Cardinality(At(c, "counted")) \in Nat
  BY <1>1, DetectFinite
<1>7. r \in At(c, "wet") <=> run[r].at = "wet"
  BY <1>2 DEF At
<1>8. r \in At(c, "counted") <=> run[r].at = "counted"
  BY <1>2 DEF At
<1>9. Cardinality(At(c, "wet") \ {r}) =
        Cardinality(At(c, "wet")) - IF run[r].at = "wet" THEN 1 ELSE 0
  <2>1. Cardinality(At(c, "wet") \ {r}) =
          IF r \in At(c, "wet") THEN Cardinality(At(c, "wet")) - 1 ELSE Cardinality(At(c, "wet"))
    BY <1>6, FS_RemoveElement
  <2> QED
    BY <1>6, <1>7, <2>1
<1>10. Cardinality(At(c, "counted") \ {r}) =
         Cardinality(At(c, "counted")) - IF run[r].at = "counted" THEN 1 ELSE 0
  <2>1. Cardinality(At(c, "counted") \ {r}) =
          IF r \in At(c, "counted") THEN Cardinality(At(c, "counted")) - 1
          ELSE Cardinality(At(c, "counted"))
    BY <1>6, FS_RemoveElement
  <2> QED
    BY <1>6, <1>8, <2>1
<1> QED
  BY <1>2, <1>3, <1>4, <1>5, <1>6, <1>9, <1>10

\* A report that fails or makes no incident, or a process that dies before the link,
\* leaves a wet log without one.
LEMMA CutOffStep ==
  ASSUME DetectInv, NEW r \in Runs, run[r].at \in {"wet", "counted"},
         run' = [run EXCEPT ![r] = NoRun], UNCHANGED <<logs, counted>>,
         cutOff' = [cutOff EXCEPT ![run[r].cam] = @ + 1]
  PROVE  LogTypes' /\ \A d \in Streams : EntryRight(d)' /\ CountRight(d)'
<1>1. LogTypes
  BY DEF DetectInv
<1>2. PICK c \in Streams :
           /\ c = run[r].cam /\ r \in At(c, run[r].at) /\ r \in UnderWay(c)
           /\ \A d \in Streams : d # c => r \notin At(d, "wet") /\ r \notin At(d, "counted")
           /\ run[r].at = "wet" => r \notin At(c, "counted")
           /\ run[r].at = "counted" => r \notin At(c, "wet")
           /\ IsFiniteSet(At(c, "wet")) /\ IsFiniteSet(At(c, "counted"))
           /\ Cardinality(At(c, "wet") \ {r}) =
                Cardinality(At(c, "wet")) - IF run[r].at = "wet" THEN 1 ELSE 0
           /\ Cardinality(At(c, "counted") \ {r}) =
                Cardinality(At(c, "counted")) - IF run[r].at = "counted" THEN 1 ELSE 0
  BY HotRun
<1>3. PICK w \in Run : w = NoRun /\ w.at = "idle"
  BY NoRunIs
<1>4. run' = [run EXCEPT ![r] = w]
  BY <1>3
<1>5. /\ run' \in [Runs -> Run]
      /\ \A q \in Runs \ {r} : run'[q] = run[q]
      /\ \A d \in Streams : /\ At(d, "wet")' = At(d, "wet") \ {r}
                            /\ At(d, "counted")' = At(d, "counted") \ {r}
  BY <1>1, <1>3, <1>4, RunChange
<1>6. LogTypes'
  BY <1>1, <1>5 DEF LogTypes
<1>7. \A d \in Streams : Wet(d)' = Wet(d) /\ Linked(d)' = Linked(d) /\ Unlinked(d)' = Unlinked(d)
  BY DEF Wet, Linked, Unlinked
<1>8. \A d \in Streams : cutOff'[d] = cutOff[d] + IF d = c THEN 1 ELSE 0
  BY <1>2 DEF DetectInv, BoundTypes
<1>9. ASSUME NEW d \in Streams, d # c
      PROVE  EntryRight(d)' /\ CountRight(d)'
  <2>1. At(d, "wet")' = At(d, "wet") /\ At(d, "counted")' = At(d, "counted")
    <3>1. r \notin At(d, "wet") /\ r \notin At(d, "counted")
      BY <1>2, <1>9
    <3>2. At(d, "wet")' = At(d, "wet") \ {r} /\ At(d, "counted")' = At(d, "counted") \ {r}
      BY <1>5
    <3> QED
      BY <3>1, <3>2
  <2>2. \A q \in UnderWay(d) : run'[q] = run[q]
    BY <1>2, <1>5, <1>9 DEF UnderWay, At
  <2>3. cutOff'[d] = cutOff[d]
    BY <1>8, <1>9 DEF DetectInv, BoundTypes
  <2> QED
    BY <1>7, <2>1, <2>2, <2>3, OtherCamera
<1>10. EntryRight(c)'
  <2>1. UnderWay(c)' = UnderWay(c) \ {r}
    BY <1>5 DEF UnderWay
  <2>2. \A q \in UnderWay(c) \ {r} : run'[q] = run[q]
    BY <1>5 DEF UnderWay, At
  <2> QED
    BY <1>7, <2>1, <2>2 DEF DetectInv, EntryRight
<1>11. CountRight(c)'
  <2>1. CountRight(c) /\ counted[c] \in Nat /\ cutOff[c] \in Nat
    BY DetectCounts DEF DetectInv
  <2>2. /\ Cardinality(Wet(c)) \in Nat /\ Cardinality(Linked(c)) \in Nat
        /\ Cardinality(Unlinked(c)) \in Nat
        /\ Cardinality(At(c, "wet")) \in Nat /\ Cardinality(At(c, "counted")) \in Nat
    BY <1>1, DetectFinite
  <2>3. /\ Cardinality(At(c, "wet"))' =
             Cardinality(At(c, "wet")) - IF run[r].at = "wet" THEN 1 ELSE 0
        /\ Cardinality(At(c, "counted"))' =
             Cardinality(At(c, "counted")) - IF run[r].at = "counted" THEN 1 ELSE 0
    BY <1>2, <1>5
  <2>4. /\ Cardinality(Wet(c))' = Cardinality(Wet(c))
        /\ Cardinality(Linked(c))' = Cardinality(Linked(c))
        /\ Cardinality(Unlinked(c))' = Cardinality(Unlinked(c))
        /\ counted'[c] = counted[c] /\ cutOff'[c] = cutOff[c] + 1
    BY <1>7, <1>8
  <2>5. CASE run[r].at = "wet"
    BY <2>1, <2>2, <2>3, <2>4, <2>5 DEF CountRight
  <2>6. CASE run[r].at = "counted"
    BY <2>1, <2>2, <2>3, <2>4, <2>6 DEF CountRight
  <2> QED
    BY <2>5, <2>6
<1> QED
  BY <1>6, <1>9, <1>10, <1>11

LEMMA ReportFailsStep ==
  ASSUME DetectInv, NEW r \in Runs, ReportFails(r)
  PROVE  DetectInv'
<1>1. /\ run[r].at = "wet" /\ breaks < MaxBreaks /\ breaks' = breaks + 1
      /\ cutOff' = [cutOff EXCEPT ![run[r].cam] = @ + 1]
      /\ run' = [run EXCEPT ![r] = NoRun]
      /\ UNCHANGED <<logs, waiting, starts, second, counted>>
  BY DEF ReportFails
<1>2. LogTypes' /\ \A d \in Streams : EntryRight(d)' /\ CountRight(d)'
  BY <1>1, CutOffStep
<1>3. BoundTypes'
  <2>1. \A d \in Streams : waiting[d] \in Nat /\ waiting[d] <= starts + breaks
    BY DetectCounts
  <2>2. starts \in Nat /\ breaks \in Nat /\ MaxBreaks \in Nat
    BY CloudDetectionAssumption DEF DetectInv, BoundTypes
  <2>0. run[r].cam \in Streams
    BY DEF DetectInv, LogTypes, Run
  <2>3. cutOff' \in [Streams -> Nat]
    BY <1>1, <2>0 DEF DetectInv, BoundTypes
  <2>5. \A d \in Streams : waiting'[d] <= starts' + breaks'
    BY <1>1, <2>1, <2>2
  <2>6. breaks' \in 0 .. MaxBreaks
    BY <1>1, <2>2
  <2> QED
    BY <1>1, <2>3, <2>5, <2>6 DEF DetectInv, BoundTypes
<1> QED
  BY <1>2, <1>3 DEF DetectInv

LEMMA LeftOutStep ==
  ASSUME DetectInv, NEW r \in Runs, ReportLeftOut(r)
  PROVE  DetectInv'
<1>1. /\ run[r].at = "wet"
      /\ cutOff' = [cutOff EXCEPT ![run[r].cam] = @ + 1]
      /\ run' = [run EXCEPT ![r] = NoRun]
      /\ UNCHANGED <<logs, waiting, starts, second, counted, breaks>>
  BY DEF ReportLeftOut
<1>2. LogTypes' /\ \A d \in Streams : EntryRight(d)' /\ CountRight(d)'
  BY <1>1, CutOffStep
<1>3. run[r].cam \in Streams
  BY DEF DetectInv, LogTypes, Run
<1>4. cutOff' \in [Streams -> Nat]
  BY <1>1, <1>3 DEF DetectInv, BoundTypes
<1> QED
  BY <1>1, <1>2, <1>4 DEF DetectInv, BoundTypes

LEMMA RunDiesStep ==
  ASSUME DetectInv, NEW r \in Runs, RunDies(r)
  PROVE  DetectInv'
<1>1. /\ breaks < MaxBreaks /\ breaks' = breaks + 1
      /\ cutOff' = [cutOff EXCEPT ![run[r].cam] =
                      @ + IF run[r].at \in {"wet", "counted"} THEN 1 ELSE 0]
      /\ waiting' = [waiting EXCEPT ![run[r].cam] = @ + IF run[r].task THEN 1 ELSE 0]
      /\ run' = [run EXCEPT ![r] = NoRun]
      /\ UNCHANGED <<logs, starts, second, counted>>
  BY DEF RunDies
<1>2. LogTypes' /\ \A d \in Streams : EntryRight(d)' /\ CountRight(d)'
  <2>1. CASE run[r].at \in {"wet", "counted"}
    <3>1. cutOff' = [cutOff EXCEPT ![run[r].cam] = @ + 1]
      BY <1>1, <2>1
    <3> QED
      BY <1>1, <2>1, <3>1, CutOffStep
  <2>2. CASE run[r].at \notin {"wet", "counted"}
    <3>1. cutOff' = [cutOff EXCEPT ![run[r].cam] = @ + 0]
      BY <1>1, <2>2
    <3>2. cutOff' = cutOff
      BY <3>1 DEF DetectInv, BoundTypes
    <3> QED
      BY <1>1, <2>2, <3>2, NoRunIs, DetectInert
  <2> QED
    BY <2>1, <2>2
<1>3. BoundTypes'
  <2>1. \A d \in Streams : waiting[d] \in Nat /\ waiting[d] <= starts + breaks
    BY DetectCounts
  <2>2. starts \in Nat /\ breaks \in Nat /\ MaxBreaks \in Nat
    BY CloudDetectionAssumption DEF DetectInv, BoundTypes
  <2>0. run[r].cam \in Streams
    BY DEF DetectInv, LogTypes, Run
  <2>3. PICK x \in {0, 1} : cutOff' = [cutOff EXCEPT ![run[r].cam] = @ + x]
    BY <1>1
  <2>4. PICK y \in {0, 1} : waiting' = [waiting EXCEPT ![run[r].cam] = @ + y]
    BY <1>1
  <2>5. cutOff' \in [Streams -> Nat]
    BY <2>0, <2>3 DEF DetectInv, BoundTypes
  <2>6. waiting' \in [Streams -> Nat] /\ \A d \in Streams : waiting'[d] \in {waiting[d], waiting[d] + 1}
    BY <2>0, <2>4 DEF DetectInv, BoundTypes
  <2>7. \A d \in Streams : waiting'[d] <= starts' + breaks'
    BY <1>1, <2>1, <2>2, <2>6
  <2>8. breaks' \in 0 .. MaxBreaks
    BY <1>1, <2>2
  <2> QED
    BY <1>1, <2>5, <2>6, <2>7, <2>8 DEF DetectInv, BoundTypes
<1> QED
  BY <1>2, <1>3 DEF DetectInv

LEMMA ReportWetStep ==
  ASSUME DetectInv, NEW r \in Runs, ReportWet(r)
  PROVE  DetectInv'
<1>1. /\ run[r].at = "wet"
      /\ counted' = [counted EXCEPT ![run[r].cam] = @ + 1]
      /\ run' = [run EXCEPT ![r].at = "counted"]
      /\ UNCHANGED <<logs, waiting, starts, second, cutOff, breaks>>
  BY DEF ReportWet
<1>2. LogTypes
  BY DEF DetectInv
<1>3. PICK c \in Streams :
           /\ c = run[r].cam /\ r \in At(c, run[r].at) /\ r \in UnderWay(c)
           /\ \A d \in Streams : d # c => r \notin At(d, "wet") /\ r \notin At(d, "counted")
           /\ run[r].at = "wet" => r \notin At(c, "counted")
           /\ run[r].at = "counted" => r \notin At(c, "wet")
           /\ IsFiniteSet(At(c, "wet")) /\ IsFiniteSet(At(c, "counted"))
           /\ Cardinality(At(c, "wet") \ {r}) =
                Cardinality(At(c, "wet")) - IF run[r].at = "wet" THEN 1 ELSE 0
           /\ Cardinality(At(c, "counted") \ {r}) =
                Cardinality(At(c, "counted")) - IF run[r].at = "counted" THEN 1 ELSE 0
  BY <1>1, HotRun
<1>4. PICK u \in Run : u = run[r]
  BY <1>2 DEF LogTypes
<1>5. PICK w : w = [u EXCEPT !.at = "counted"]
  OBVIOUS
<1>6. w \in Run /\ w.at = "counted" /\ w.cam = c /\ w.entry = u.entry
  BY <1>3, <1>4, <1>5 DEF Run
<1>7. run' = [run EXCEPT ![r] = w]
  BY <1>1, <1>2, <1>4, <1>5 DEF LogTypes
<1>8. /\ run' \in [Runs -> Run] /\ run'[r] = w
      /\ \A q \in Runs \ {r} : run'[q] = run[q]
      /\ \A d \in Streams : At(d, "wet")' = At(d, "wet") \ {r}
      /\ At(c, "counted")' = At(c, "counted") \cup {r}
      /\ \A d \in Streams : d # c => At(d, "counted")' = At(d, "counted") \ {r}
  <2>1. /\ run' \in [Runs -> Run] /\ run'[r] = w
        /\ \A q \in Runs \ {r} : run'[q] = run[q]
        /\ \A d \in Streams :
             /\ At(d, "wet")' = IF w.cam = d /\ w.at = "wet" THEN At(d, "wet") \cup {r}
                                ELSE At(d, "wet") \ {r}
             /\ At(d, "counted")' = IF w.cam = d /\ w.at = "counted"
                                    THEN At(d, "counted") \cup {r} ELSE At(d, "counted") \ {r}
    BY <1>2, <1>6, <1>7, RunChange, ZenonT(40)
  <2>2. w.at # "wet"
    BY <1>6
  <2> QED
    BY <1>6, <2>1, <2>2
<1>9. LogTypes'
  BY <1>1, <1>2, <1>8 DEF LogTypes
<1>10. \A d \in Streams : Wet(d)' = Wet(d) /\ Linked(d)' = Linked(d) /\ Unlinked(d)' = Unlinked(d)
  BY <1>1 DEF Wet, Linked, Unlinked
<1>11. \A d \in Streams : counted'[d] = counted[d] + IF d = c THEN 1 ELSE 0
  BY <1>1, <1>3 DEF DetectInv, BoundTypes
<1>12. ASSUME NEW d \in Streams, d # c
       PROVE  EntryRight(d)' /\ CountRight(d)'
  <2>1. r \notin At(d, "wet") /\ r \notin At(d, "counted")
    BY <1>3, <1>12
  <2>2. At(d, "wet")' = At(d, "wet") \ {r} /\ At(d, "counted")' = At(d, "counted") \ {r}
    BY <1>8, <1>12
  <2>3. At(d, "wet")' = At(d, "wet") /\ At(d, "counted")' = At(d, "counted")
    BY <2>1, <2>2
  <2>4. \A q \in UnderWay(d) : run'[q] = run[q]
    BY <1>8, <2>1 DEF UnderWay, At
  <2>5. counted'[d] = counted[d] /\ cutOff'[d] = cutOff[d]
    BY <1>1, <1>11, <1>12 DEF DetectInv, BoundTypes
  <2> QED
    BY <1>10, <2>3, <2>4, <2>5, OtherCamera
<1>13. EntryRight(c)'
  <2>1. UnderWay(c)' = UnderWay(c)
    BY <1>3, <1>8 DEF UnderWay
  <2>2. \A q \in UnderWay(c) : run'[q].entry = run[q].entry
    BY <1>4, <1>6, <1>8 DEF UnderWay, At
  <2> QED
    BY <1>10, <2>1, <2>2 DEF DetectInv, EntryRight
<1>14. CountRight(c)'
  <2>1. CountRight(c) /\ counted[c] \in Nat /\ cutOff[c] \in Nat
    BY DetectCounts DEF DetectInv
  <2>2. /\ Cardinality(Wet(c)) \in Nat /\ Cardinality(Linked(c)) \in Nat
        /\ Cardinality(Unlinked(c)) \in Nat
        /\ Cardinality(At(c, "wet")) \in Nat /\ Cardinality(At(c, "counted")) \in Nat
    BY <1>2, DetectFinite
  <2>3. Cardinality(At(c, "wet"))' = Cardinality(At(c, "wet")) - 1
    BY <1>1, <1>3, <1>8
  <2>4. Cardinality(At(c, "counted"))' = Cardinality(At(c, "counted")) + 1
    <3>1. r \notin At(c, "counted") /\ IsFiniteSet(At(c, "counted"))
      BY <1>1, <1>3
    <3>2. Cardinality(At(c, "counted") \cup {r}) = Cardinality(At(c, "counted")) + 1
      BY <3>1, FS_AddElement
    <3> QED
      BY <1>8, <3>2
  <2>5. /\ Cardinality(Wet(c))' = Cardinality(Wet(c))
        /\ Cardinality(Linked(c))' = Cardinality(Linked(c))
        /\ Cardinality(Unlinked(c))' = Cardinality(Unlinked(c))
        /\ counted'[c] = counted[c] + 1 /\ cutOff'[c] = cutOff[c]
    BY <1>1, <1>10, <1>11
  <2> QED
    BY <2>1, <2>2, <2>3, <2>4, <2>5 DEF CountRight
<1>15. BoundTypes'
  <2>1. counted' \in [Streams -> Nat]
    BY <1>1, <1>3 DEF DetectInv, BoundTypes
  <2> QED
    BY <1>1, <2>1 DEF DetectInv, BoundTypes
<1> QED
  BY <1>9, <1>12, <1>13, <1>14, <1>15 DEF DetectInv

LEMMA LinkLogStep ==
  ASSUME DetectInv, NEW r \in Runs, LinkLog(r)
  PROVE  DetectInv'
<1>1. /\ run[r].at = "counted"
      /\ logs' = [logs EXCEPT ![run[r].cam][run[r].entry].linked = TRUE]
      /\ run' = [run EXCEPT ![r] = NoRun]
      /\ UNCHANGED <<waiting, starts, second, counted, cutOff, breaks>>
  BY DEF LinkLog, OwnEntry
<1>2. LogTypes
  BY DEF DetectInv
<1>3. PICK c \in Streams :
           /\ c = run[r].cam /\ r \in At(c, run[r].at) /\ r \in UnderWay(c)
           /\ \A d \in Streams : d # c => r \notin At(d, "wet") /\ r \notin At(d, "counted")
           /\ run[r].at = "wet" => r \notin At(c, "counted")
           /\ run[r].at = "counted" => r \notin At(c, "wet")
           /\ IsFiniteSet(At(c, "wet")) /\ IsFiniteSet(At(c, "counted"))
           /\ Cardinality(At(c, "wet") \ {r}) =
                Cardinality(At(c, "wet")) - IF run[r].at = "wet" THEN 1 ELSE 0
           /\ Cardinality(At(c, "counted") \ {r}) =
                Cardinality(At(c, "counted")) - IF run[r].at = "counted" THEN 1 ELSE 0
  BY <1>1, HotRun
<1>4. PICK e : e = run[r].entry
  OBVIOUS
<1>5. EntryRight(c) /\ CountRight(c) /\ e \in Unlinked(c)
  BY <1>3, <1>4 DEF DetectInv, EntryRight
<1>6. PICK s \in Seq(LogEntry) : s = logs[c]
  BY <1>2 DEF LogTypes
<1>7. PICK m \in Nat : m = Len(s) /\ DOMAIN s = 1 .. m
  BY <1>6, LenProperties
<1>8. e \in 1 .. m /\ s[e].by = 5 /\ ~s[e].linked
  BY <1>5, <1>6, <1>7 DEF Unlinked, Wet, Linked
<1>9. PICK v \in LogEntry : v = s[e]
  BY <1>6, <1>7, <1>8, ElementOfSeq
<1>10. PICK x \in LogEntry : x = [v EXCEPT !.linked = TRUE]
  BY DEF LogEntry
<1>11. x.linked /\ x.by = 5
  BY <1>8, <1>9, <1>10 DEF LogEntry
<1>12. PICK t : t = [s EXCEPT ![e] = x]
  OBVIOUS
<1>13. /\ t \in Seq(LogEntry) /\ Len(t) = m /\ DOMAIN t = 1 .. m /\ t[e] = x
       /\ \A i \in 1 .. m : i # e => t[i] = s[i]
  BY <1>6, <1>7, <1>8, <1>12, ExceptSeq, LenProperties
<1>14. logs' = [logs EXCEPT ![c] = t]
  BY <1>1, <1>2, <1>3, <1>4, <1>6, <1>9, <1>10, <1>12 DEF LogTypes
<1>15. /\ logs' \in [Streams -> Seq(LogEntry)] /\ logs'[c] = t
       /\ \A d \in Streams \ {c} : logs'[d] = logs[d]
  BY <1>2, <1>13, <1>14 DEF LogTypes
<1>16. PICK w \in Run : w = NoRun /\ w.at = "idle"
  BY NoRunIs
<1>17. run' = [run EXCEPT ![r] = w]
  BY <1>1, <1>16
<1>18. /\ run' \in [Runs -> Run]
       /\ \A q \in Runs \ {r} : run'[q] = run[q]
       /\ \A d \in Streams : /\ At(d, "wet")' = At(d, "wet") \ {r}
                             /\ At(d, "counted")' = At(d, "counted") \ {r}
  BY <1>2, <1>16, <1>17, RunChange
<1>19. LogTypes'
  <2>1. \A d \in Streams : Len(logs'[d]) <= MaxLogs
    BY <1>2, <1>6, <1>7, <1>13, <1>15 DEF LogTypes
  <2> QED
    BY <1>15, <1>18, <2>1 DEF LogTypes
<1>20. BoundTypes'
  BY <1>1, BoundsKept
<1>21. ASSUME NEW d \in Streams, d # c
       PROVE  EntryRight(d)' /\ CountRight(d)'
  <2>1. r \notin At(d, "wet") /\ r \notin At(d, "counted")
    BY <1>3, <1>21
  <2>2. At(d, "wet")' = At(d, "wet") \ {r} /\ At(d, "counted")' = At(d, "counted") \ {r}
    BY <1>18
  <2>3. At(d, "wet")' = At(d, "wet") /\ At(d, "counted")' = At(d, "counted")
    BY <2>1, <2>2
  <2>4. \A q \in UnderWay(d) : run'[q] = run[q]
    BY <1>18, <2>1 DEF UnderWay, At
  <2>5. Wet(d)' = Wet(d) /\ Linked(d)' = Linked(d)
    BY <1>15, <1>21 DEF Wet, Linked
  <2> QED
    BY <1>1, <2>3, <2>4, <2>5, OtherCamera
<1>22. /\ Wet(c)' = Wet(c) /\ Linked(c)' = Linked(c) \cup {e}
       /\ Unlinked(c)' = Unlinked(c) \ {e}
  <2>1. \A i \in 1 .. m : t[i].by = s[i].by /\ (t[i].linked <=> s[i].linked \/ i = e)
    BY <1>8, <1>9, <1>11, <1>13
  <2>2. Wet(c)' = Wet(c)
    BY <1>6, <1>7, <1>13, <1>15, <2>1 DEF Wet
  <2>3. Linked(c)' = Linked(c) \cup {e}
    BY <1>6, <1>7, <1>8, <1>13, <1>15, <2>1 DEF Linked
  <2> QED
    BY <2>2, <2>3 DEF Unlinked
<1>23. EntryRight(c)'
  <2>1. UnderWay(c)' = UnderWay(c) \ {r}
    BY <1>18 DEF UnderWay
  <2>2. \A q \in UnderWay(c) \ {r} : run'[q] = run[q]
    BY <1>18 DEF UnderWay, At
  <2>3. \A q \in UnderWay(c) \ {r} : run[q].entry # e
    BY <1>3, <1>4, <1>5 DEF EntryRight
  <2>4. Linked(c)' \subseteq Wet(c)'
    BY <1>5, <1>22 DEF EntryRight, Unlinked
  <2>5. \A q \in UnderWay(c)' : run'[q].entry \in Unlinked(c)'
    BY <1>5, <1>22, <2>1, <2>2, <2>3 DEF EntryRight
  <2>6. \A p, q \in UnderWay(c)' : run'[p].entry = run'[q].entry => p = q
    BY <1>5, <2>1, <2>2 DEF EntryRight
  <2> QED
    BY <2>4, <2>5, <2>6 DEF EntryRight
<1>24. CountRight(c)'
  <2>1. CountRight(c) /\ counted[c] \in Nat /\ cutOff[c] \in Nat
    BY <1>5, DetectCounts
  <2>2. /\ IsFiniteSet(Linked(c)) /\ IsFiniteSet(Unlinked(c))
        /\ Cardinality(Wet(c)) \in Nat /\ Cardinality(Linked(c)) \in Nat
        /\ Cardinality(Unlinked(c)) \in Nat
        /\ Cardinality(At(c, "wet")) \in Nat /\ Cardinality(At(c, "counted")) \in Nat
    BY <1>2, DetectFinite
  <2>3. /\ Cardinality(At(c, "wet"))' = Cardinality(At(c, "wet"))
        /\ Cardinality(At(c, "counted"))' = Cardinality(At(c, "counted")) - 1
    BY <1>1, <1>3, <1>18, <2>2, ZenonT(40)
  <2>4. e \in Unlinked(c) /\ e \notin Linked(c)
    BY <1>5 DEF Unlinked
  <2>5. /\ Cardinality(Linked(c) \cup {e}) = Cardinality(Linked(c)) + 1
        /\ Cardinality(Unlinked(c) \ {e}) = Cardinality(Unlinked(c)) - 1
    BY <2>2, <2>4, FS_AddElement, FS_RemoveElement
  <2>6. /\ Cardinality(Wet(c))' = Cardinality(Wet(c))
        /\ Cardinality(Linked(c))' = Cardinality(Linked(c)) + 1
        /\ Cardinality(Unlinked(c))' = Cardinality(Unlinked(c)) - 1
        /\ counted'[c] = counted[c] /\ cutOff'[c] = cutOff[c]
    BY <1>1, <1>22, <2>5
  <2>7. /\ Cardinality(Unlinked(c)) =
             Cardinality(At(c, "wet")) + Cardinality(At(c, "counted")) + cutOff[c]
        /\ counted[c] >= Cardinality(Linked(c)) + Cardinality(At(c, "counted"))
        /\ counted[c] + Cardinality(At(c, "wet")) <= Cardinality(Wet(c))
    BY <2>1 DEF CountRight
  <2>8. Cardinality(Unlinked(c))' =
          Cardinality(At(c, "wet"))' + Cardinality(At(c, "counted"))' + cutOff'[c]
    BY <2>1, <2>2, <2>3, <2>6, <2>7, SMTT(30)
  <2>9. counted'[c] >= Cardinality(Linked(c))' + Cardinality(At(c, "counted"))'
    BY <2>1, <2>2, <2>3, <2>6, <2>7
  <2>10. counted'[c] + Cardinality(At(c, "wet"))' <= Cardinality(Wet(c))'
    BY <2>1, <2>2, <2>3, <2>6, <2>7
  <2> QED
    BY <2>8, <2>9, <2>10 DEF CountRight
<1> QED
  BY <1>19, <1>20, <1>21, <1>23, <1>24 DEF DetectInv

LEMMA DetectInductive ==
  ASSUME DetectInv, [DetectionNext]_detectionVars
  PROVE  DetectInv'
<1>1. CASE SecondPasses \/ StartContinuous
  BY <1>1, ClockStep
<1>2. ASSUME NEW r \in Runs, DetectionStep(r) PROVE DetectInv'
  BY <1>2, BeginRunStep, JudgeStep, StoreLogStep, ReportWetStep, ReportFailsStep,
     LeftOutStep, LinkLogStep, RunDiesStep DEF DetectionStep
<1>3. CASE UNCHANGED detectionVars
  <2>1. LogTypes' /\ BoundTypes'
    BY <1>3 DEF DetectInv, LogTypes, BoundTypes, detectionVars
  <2>2. ASSUME NEW c \in Streams PROVE EntryRight(c)' /\ CountRight(c)'
    <3>1. /\ Wet(c)' = Wet(c) /\ Linked(c)' = Linked(c)
          /\ At(c, "wet")' = At(c, "wet") /\ At(c, "counted")' = At(c, "counted")
      BY <1>3 DEF Wet, Linked, At, detectionVars
    <3> QED
      BY <1>3, <3>1, OtherCamera DEF detectionVars
  <2> QED
    BY <2>1, <2>2 DEF DetectInv
<1> QED
  BY <1>1, <1>2, <1>3 DEF DetectionNext

LEMMA DetectAlways == DetectionSpec => []DetectInv
<1>1. DetectionInit => DetectInv
  BY DetectInitInv
<1>2. DetectInv /\ [DetectionNext]_detectionVars => DetectInv'
  BY DetectInductive
<1> QED
  BY <1>1, <1>2, PTL DEF DetectionSpec

LEMMA DetectTyped ==
  ASSUME DetectInv
  PROVE  DetectionTypeOK
<1>1. /\ LogTypes /\ BoundTypes
  BY DEF DetectInv
<1>2. {MaxLogs, MaxStarts, MaxBreaks} \subseteq Nat
  BY CloudDetectionAssumption
<1>3. ASSUME NEW c \in Streams
      PROVE  /\ counted[c] \in 0 .. MaxLogs
             /\ waiting[c] \in 0 .. MaxStarts + MaxBreaks
             /\ \A i \in DOMAIN logs[c] : logs[c][i] \in LogEntry
  <2>1. PICK n \in Nat : n = Len(logs[c]) /\ n <= MaxLogs
    BY <1>1, LenProperties DEF LogTypes
  <2>2. PICK x \in Nat, y \in Nat : x = Cardinality(Wet(c)) /\ y = Cardinality(At(c, "wet"))
    BY <1>1, DetectFinite
  <2>3. counted[c] \in Nat /\ counted[c] + y <= x /\ x <= n
    BY <1>1, <2>1, <2>2, DetectFinite DEF DetectInv, CountRight, BoundTypes
  <2>4. counted[c] \in 0 .. MaxLogs
    BY <1>2, <2>1, <2>3
  <2>5. breaks \in 0 .. MaxBreaks
    BY <1>1 DEF BoundTypes
  <2>7. waiting[c] \in Nat /\ starts \in 0 .. MaxStarts /\ waiting[c] <= starts + breaks
    BY <1>1 DEF BoundTypes
  <2>8. waiting[c] \in 0 .. MaxStarts + MaxBreaks
    BY <1>2, <2>5, <2>7
  <2>9. logs[c] \in Seq(LogEntry)
    BY <1>1 DEF LogTypes
  <2> QED
    BY <2>4, <2>8, <2>9, ElementOfSeq, LenProperties
<1>4. /\ counted \in [Streams -> 0 .. MaxLogs] /\ cutOff \in [Streams -> Nat]
      /\ waiting \in [Streams -> 0 .. MaxStarts + MaxBreaks]
  BY <1>1, <1>3 DEF BoundTypes
<1> QED
  BY <1>1, <1>3, <1>4 DEF LogTypes, BoundTypes, DetectionTypeOK, LogEntry, Run

\* The detections, their logs and their counters keep their types: a camera's counter stays
\* within its logs, and the tasks queued for it within the starts and the breaks.
THEOREM DetectionTypeCorrect == DetectionSpec => []DetectionTypeOK
<1>1. DetectInv => DetectionTypeOK
  BY DetectTyped
<1> QED
  BY <1>1, DetectAlways, PTL

\* Every wet detection that is logged is counted in an incident and linked to it, but for
\* those under way, those cut off and those the settings make no incident of; and every
\* link has its count.
THEOREM WetCorrect == DetectionSpec => []WetIsReported
<1>1. DetectInv => WetIsReported
  BY DEF DetectInv, EntryRight, CountRight, WetIsReported, Wet, Linked, Unlinked, At, Of
<1> QED
  BY <1>1, DetectAlways, PTL

-------------------------------------------------------------------------------
(* The upload of dataset frames *)

SyncTask == [at : {"none", "queued", "post", "write"}, todo : SUBSET Frames,
             answer : {"none", "synced", "error"}]
\* A task that has its answer is at a frame, which is at Roboflow if the answer says so.
OutcomeRight ==
  /\ \A f \in Frames : syncOf[f] = "synced" => f \in remote
  /\ \A t \in Syncs : syncs[t].at = "write" =>
       /\ syncs[t].todo # {} /\ syncs[t].answer \in {"synced", "error"}
       /\ syncs[t].answer = "synced" => Oldest(syncs[t].todo) \in remote
\* A requested frame that is not sent waits for a task or is in the hands of one.
InHands(t, f) ==
  syncs[t].at = "queued" \/ (syncs[t].at \in {"post", "write"} /\ f \in syncs[t].todo)
WantedRight ==
  ~short => \A f \in wanted : syncOf[f] = "not_sent" =>
              undelayed > 0 \/ \E t \in Syncs : InHands(t, f)
DatasetInv == DatasetTypeOK /\ undelayed <= requests /\ OutcomeRight /\ WantedRight

\* The oldest of some frames is one of them.
LEMMA OldestIsOne ==
  ASSUME NEW S \in SUBSET Frames, S # {}
  PROVE  Oldest(S) \in S
<1> DEFINE Below(y) == {x \in S : x < y}
           R == StrictSubsetOrdering(S)
           T == {Below(y) : y \in S}
<1>0. IsFiniteSet(S) /\ S \subseteq Nat
  BY DatasetAssumption, FS_Subset
<1>1. IsWellFoundedOn(R, SUBSET S)
  <2> HIDE DEF R
  <2>1. IsWellFoundedOn(StrictSubsetOrdering(S), FiniteSubsetsOf(S))
    BY FS_StrictSubsetOrderingWellFounded
  <2>2. FiniteSubsetsOf(S) = SUBSET S
    BY <1>0, FS_FiniteSubsetsOfFinite
  <2> QED
    BY <2>1, <2>2 DEF R
<1>2. T \subseteq SUBSET S /\ T # {}
  OBVIOUS
<1>3. PICK A \in T : \A B \in T : <<B, A>> \notin R
  <2> HIDE DEF R, T
  <2> QED
    BY <1>1, <1>2, WFMin
<1>4. PICK m \in S : A = Below(m)
  OBVIOUS
<1>5. ASSUME NEW x \in S, ~(m <= x) PROVE FALSE
  <2>1. x \in Nat /\ m \in Nat /\ x < m /\ ~(x < x)
    BY <1>0, <1>5
  <2>2. \A y \in Nat : y < x => y < m
    BY <2>1
  <2>3. Below(x) \subseteq Below(m) /\ x \in Below(m) /\ x \notin Below(x)
    BY <1>0, <2>1, <2>2
  <2>4. Below(x) \in T /\ <<Below(x), A>> \in R
    BY <1>4, <2>3 DEF StrictSubsetOrdering
  <2> QED
    BY <1>3, <2>4
<1>6. \A x \in S : m <= x
  BY <1>5
<1> QED
  BY <1>6 DEF Oldest

\* A batch is no larger than it may be, and it is everything when there is no more.
LEMMA BatchOf ==
  ASSUME NEW S \in SUBSET Frames
  PROVE  /\ FirstOf(S) \subseteq S /\ Cardinality(FirstOf(S)) <= SyncBatch
         /\ Cardinality(S) <= SyncBatch => FirstOf(S) = S
<1> DEFINE Below(y) == {x \in S : x < y}
<1>1. IsFiniteSet(S) /\ S \subseteq Nat /\ SyncBatch \in Nat \ {0}
  BY DatasetAssumption, FS_Subset
<1>2. PICK n \in Nat : n = SyncBatch - 1
  BY <1>1
<1>3. \A y \in S : IsFiniteSet(Below(y)) /\ Cardinality(Below(y)) \in Nat
  <2>1. SUFFICES ASSUME NEW y \in S
                 PROVE  IsFiniteSet(Below(y)) /\ Cardinality(Below(y)) \in Nat
    OBVIOUS
  <2>2. Below(y) \subseteq S
    OBVIOUS
  <2>3. IsFiniteSet(Below(y))
    BY <1>1, <2>2, FS_Subset
  <2> QED
    BY <2>3, FS_CardinalityType
<1>4. ASSUME NEW y \in S, NEW z \in S, y < z
      PROVE  Cardinality(Below(y)) < Cardinality(Below(z))
  <2>1. y \in Nat /\ z \in Nat /\ ~(y < y) /\ \A x \in Nat : x < y => x < z
    BY <1>1, <1>4
  <2>2. Below(y) \subseteq Below(z) \ {y} /\ y \in Below(z)
    BY <1>1, <1>4, <2>1
  <2>3. /\ IsFiniteSet(Below(z) \ {y})
        /\ Cardinality(Below(z) \ {y}) = Cardinality(Below(z)) - 1
    BY <1>3, <2>2, FS_RemoveElement
  <2>4. Cardinality(Below(y)) <= Cardinality(Below(z) \ {y})
    BY <2>2, <2>3, FS_Subset
  <2>5. Cardinality(Below(y)) \in Nat /\ Cardinality(Below(z)) \in Nat
    BY <1>3
  <2> HIDE DEF Below
  <2> QED
    BY <2>3, <2>4, <2>5
<1>5. FirstOf(S) = {f \in S : Cardinality(Below(f)) < SyncBatch}
  BY DEF FirstOf
<1>6. Cardinality(FirstOf(S)) <= SyncBatch
  <2> DEFINE g == [f \in FirstOf(S) |-> Cardinality(Below(f))]
  <2>0. \A f \in FirstOf(S) : g[f] = Cardinality(Below(f)) /\ f \in S
    BY <1>5
  <2>1. \A f \in FirstOf(S) : g[f] \in 0 .. n
    <3>1. SUFFICES ASSUME NEW f \in FirstOf(S) PROVE g[f] \in 0 .. n
      OBVIOUS
    <3>2. Cardinality(Below(f)) \in Nat /\ Cardinality(Below(f)) < SyncBatch
      BY <1>3, <1>5
    <3>3. Cardinality(Below(f)) \in 0 .. n
      BY <1>1, <1>2, <3>2
    <3> QED
      BY <2>0, <3>3
  <2>2. \A f, h \in FirstOf(S) : f # h => g[f] # g[h]
    <3>1. SUFFICES ASSUME NEW f \in FirstOf(S), NEW h \in FirstOf(S), f # h PROVE g[f] # g[h]
      OBVIOUS
    <3>2. f \in S /\ h \in S
      BY <2>0
    <3>3. f \in Nat /\ h \in Nat
      BY <1>1, <3>2
    <3>4. f < h \/ h < f
      BY <3>1, <3>3
    <3>5. Cardinality(Below(f)) \in Nat /\ Cardinality(Below(h)) \in Nat
      BY <1>3, <3>2
    <3>6. \/ Cardinality(Below(f)) < Cardinality(Below(h))
          \/ Cardinality(Below(h)) < Cardinality(Below(f))
      BY <1>4, <3>2, <3>4
    <3>7. Cardinality(Below(f)) # Cardinality(Below(h))
      BY <3>5, <3>6
    <3> QED
      BY <2>0, <3>7
  <2>3. g \in Injection(FirstOf(S), 0 .. n)
    <3>1. g \in [FirstOf(S) -> 0 .. n]
      BY <2>1
    <3> HIDE DEF g
    <3> QED
      BY <2>2, <3>1 DEF Injection, IsInjective
  <2>4. IsFiniteSet(0 .. n) /\ Cardinality(0 .. n) = n + 1
    <3>1. 0 \in Int /\ n \in Int /\ ~(0 > n)
      OBVIOUS
    <3> QED
      BY <3>1, FS_Interval
  <2>5. Cardinality(FirstOf(S)) <= Cardinality(0 .. n)
    <3> HIDE DEF g
    <3> QED
      BY <2>3, <2>4, FS_Injection
  <2> QED
    BY <1>1, <1>2, <2>4, <2>5
<1>7. ASSUME Cardinality(S) <= SyncBatch PROVE FirstOf(S) = S
  <2>1. ASSUME NEW f \in S PROVE Cardinality(Below(f)) < SyncBatch
    <3>1. Below(f) \subseteq S \ {f}
      BY <1>1
    <3>2. IsFiniteSet(S \ {f}) /\ Cardinality(S \ {f}) = Cardinality(S) - 1
      BY <1>1, FS_RemoveElement
    <3>3. Cardinality(Below(f)) <= Cardinality(S \ {f})
      BY <3>1, <3>2, FS_Subset
    <3>4. Cardinality(S) \in Nat
      BY <1>1, FS_CardinalityType
    <3> QED
      BY <1>1, <1>3, <1>7, <3>2, <3>3, <3>4
  <2> QED
    BY <1>5, <2>1
<1> QED
  BY <1>5, <1>6, <1>7

LEMMA DatasetInitInv ==
  ASSUME DatasetInit
  PROVE  DatasetInv
<1>1. NoSync \in SyncTask /\ NoSync.at = "none" /\ NoSync.todo = {}
  BY DEF NoSync, SyncTask
<1>2. syncs \in [Syncs -> SyncTask] /\ \A t \in Syncs : syncs[t] = NoSync
  BY <1>1 DEF DatasetInit
<1>3. {MaxRequests, MaxUnlucky, SyncBatch} \subseteq Nat /\ Cardinality({}) = 0
  BY DatasetAssumption, FS_EmptySet
<1>4. DatasetTypeOK
  <2>1. \A t \in Syncs : Cardinality(syncs[t].todo) <= SyncBatch
    BY <1>1, <1>2, <1>3
  <2>2. /\ undelayed \in 0 .. MaxRequests /\ requests \in 0 .. MaxRequests
        /\ unlucky \in 0 .. MaxUnlucky
    BY <1>3 DEF DatasetInit
  <2>3. syncOf \in [Frames -> {"absent", "not_sent", "synced", "error"}]
    BY DEF DatasetInit
  <2>4. /\ wanted = {} /\ remote = {} /\ flagged = {} /\ toggles = {} /\ marked = {}
        /\ short = FALSE
    BY DEF DatasetInit
  <2> QED
    BY <1>2, <2>1, <2>2, <2>3, <2>4 DEF DatasetTypeOK, SyncTask
<1>5. OutcomeRight /\ WantedRight
  BY <1>1, <1>2 DEF DatasetInit, OutcomeRight, WantedRight
<1>6. undelayed <= requests
  BY DEF DatasetInit
<1> QED
  BY <1>4, <1>5, <1>6 DEF DatasetInv

\* Requests, deletions and new frames: the tasks go on with what they have.
LEMMA RequestStep ==
  ASSUME DatasetInv,
         \/ \E f \in Frames : AddDatasetFrame(f)
         \/ \E S \in SUBSET Frames : RemoveFrames(S) \/ RequestUpload(S) \/ RequestAcross(S)
         \/ RequestSync
  PROVE  DatasetInv'
<1>1. UNCHANGED <<syncs, remote, flagged, toggles, marked, short, unlucky>>
  BY DEF AddDatasetFrame, RemoveFrames, RequestUpload, RequestAcross, RequestSync
<1>2. /\ undelayed \in 0 .. MaxRequests /\ requests \in 0 .. MaxRequests /\ MaxRequests \in Nat
      /\ syncOf \in [Frames -> {"absent", "not_sent", "synced", "error"}] /\ wanted \subseteq Frames
  BY DatasetAssumption DEF DatasetInv, DatasetTypeOK
<1>3. \A t \in Syncs, f \in Frames : InHands(t, f)' <=> InHands(t, f)
  BY <1>1 DEF InHands
<1>4. CASE \E f \in Frames : AddDatasetFrame(f)
  <2>1. PICK f \in Frames : AddDatasetFrame(f)
    BY <1>4
  <2>2. /\ syncOf' = [syncOf EXCEPT ![f] = "not_sent"] /\ f \notin wanted
        /\ UNCHANGED <<wanted, undelayed, requests>>
    BY <2>1 DEF AddDatasetFrame, NewFrame
  <2>3. /\ syncOf' \in [Frames -> {"absent", "not_sent", "synced", "error"}]
        /\ \A g \in Frames : syncOf'[g] = "synced" => syncOf[g] = "synced"
        /\ \A g \in wanted : syncOf'[g] = syncOf[g]
    BY <1>2, <2>2
  <2>4. DatasetTypeOK'
    BY <1>1, <2>2, <2>3 DEF DatasetInv, DatasetTypeOK
  <2>5. OutcomeRight'
    BY <1>1, <2>3 DEF DatasetInv, OutcomeRight
  <2>6. WantedRight'
    BY <1>1, <1>2, <1>3, <2>2, <2>3 DEF DatasetInv, WantedRight
  <2> QED
    BY <2>2, <2>4, <2>5, <2>6 DEF DatasetInv
<1>5. CASE \E S \in SUBSET Frames : RemoveFrames(S)
  <2>1. PICK S \in SUBSET Frames : RemoveFrames(S)
    BY <1>5
  <2>2. /\ syncOf' = [f \in Frames |-> IF f \in S THEN "absent" ELSE syncOf[f]]
        /\ UNCHANGED <<wanted, undelayed, requests>>
    BY <2>1 DEF RemoveFrames
  <2>3. /\ syncOf' \in [Frames -> {"absent", "not_sent", "synced", "error"}]
        /\ \A g \in Frames : /\ syncOf'[g] = "synced" => syncOf[g] = "synced"
                             /\ syncOf'[g] = "not_sent" => syncOf[g] = "not_sent"
    BY <1>2, <2>2
  <2>4. DatasetTypeOK'
    BY <1>1, <2>2, <2>3 DEF DatasetInv, DatasetTypeOK
  <2>5. OutcomeRight'
    BY <1>1, <2>3 DEF DatasetInv, OutcomeRight
  <2>6. WantedRight'
    BY <1>1, <1>2, <1>3, <2>2, <2>3 DEF DatasetInv, WantedRight
  <2> QED
    BY <2>2, <2>4, <2>5, <2>6 DEF DatasetInv
<1>6. CASE RequestSync \/ \E S \in SUBSET Frames : RequestUpload(S)
  <2>1. PICK S \in SUBSET Frames :
          /\ wanted' = wanted \cup S
          /\ \A f \in Frames : syncOf'[f] = IF f \in S THEN "not_sent" ELSE syncOf[f]
          /\ syncOf' \in [Frames -> {"absent", "not_sent", "synced", "error"}]
    <3>1. CASE RequestSync
      <4>1. wanted' = wanted \cup {} /\ syncOf' = syncOf
        BY <3>1 DEF RequestSync
      <4>2. \A f \in Frames : syncOf'[f] = IF f \in {} THEN "not_sent" ELSE syncOf[f]
        BY <4>1
      <4>3. {} \in SUBSET Frames /\ syncOf' \in [Frames -> {"absent", "not_sent", "synced", "error"}]
        BY <1>2, <4>1
      <4> QED
        BY <4>1, <4>2, <4>3
    <3>2. CASE \E S \in SUBSET Frames : RequestUpload(S)
      <4>1. PICK S \in SUBSET Frames : RequestUpload(S)
        BY <3>2
      <4>2. /\ wanted' = wanted \cup S
            /\ syncOf' = [f \in Frames |-> IF f \in S THEN "not_sent" ELSE syncOf[f]]
        BY <4>1 DEF RequestUpload
      <4>3. /\ \A f \in Frames : syncOf'[f] = IF f \in S THEN "not_sent" ELSE syncOf[f]
            /\ syncOf' \in [Frames -> {"absent", "not_sent", "synced", "error"}]
        BY <1>2, <4>2
      <4> QED
        BY <4>2, <4>3
    <3> QED
      BY <1>6, <3>1, <3>2
  <2>2. /\ requests < MaxRequests /\ requests' = requests + 1 /\ undelayed' = undelayed + 1
    BY <1>6 DEF RequestSync, RequestUpload, Asks
  <2>3. /\ undelayed' \in 0 .. MaxRequests /\ requests' \in 0 .. MaxRequests
        /\ undelayed' <= requests' /\ undelayed' > 0
    BY <1>2, <2>2 DEF DatasetInv
  <2>4. DatasetTypeOK'
    BY <1>1, <1>2, <2>1, <2>3 DEF DatasetInv, DatasetTypeOK
  <2>5. OutcomeRight'
    <3>1. \A f \in Frames : syncOf'[f] = "synced" => f \in remote'
      BY <1>1, <2>1 DEF DatasetInv, OutcomeRight
    <3> QED
      BY <1>1, <3>1 DEF DatasetInv, OutcomeRight
  <2>6. WantedRight'
    BY <2>3 DEF WantedRight
  <2> QED
    BY <2>3, <2>4, <2>5, <2>6 DEF DatasetInv
<1>7. CASE \E S \in SUBSET Frames : RequestAcross(S)
  <2>1. PICK S \in SUBSET Frames : RequestAcross(S)
    BY <1>7
  <2>2. /\ syncOf' = [f \in Frames |-> IF f \in S THEN "not_sent" ELSE syncOf[f]]
        /\ wanted' = wanted \ S /\ undelayed' = undelayed
        /\ requests < MaxRequests /\ requests' = requests + 1
    BY <2>1 DEF RequestAcross
  <2>3. /\ syncOf' \in [Frames -> {"absent", "not_sent", "synced", "error"}]
        /\ \A g \in Frames : syncOf'[g] = "synced" => syncOf[g] = "synced"
        /\ \A g \in wanted' : g \in wanted /\ g \in Frames /\ syncOf'[g] = syncOf[g]
    BY <1>2, <2>2
  <2>4. requests' \in 0 .. MaxRequests /\ undelayed' <= requests'
    BY <1>2, <2>2 DEF DatasetInv
  <2>5. DatasetTypeOK'
    BY <1>1, <1>2, <2>2, <2>3, <2>4 DEF DatasetInv, DatasetTypeOK
  <2>6. OutcomeRight'
    BY <1>1, <2>3 DEF DatasetInv, OutcomeRight
  <2>7. WantedRight'
    BY <1>1, <1>3, <2>2, <2>3 DEF DatasetInv, WantedRight
  <2> QED
    BY <2>4, <2>5, <2>6, <2>7 DEF DatasetInv
<1> QED
  BY <1>4, <1>5, <1>6, <1>7

\* One task changes, and nothing that was sent.
LEMMA SyncTaskChange ==
  ASSUME DatasetInv, NEW t \in Syncs, NEW w \in SyncTask, syncs' = [syncs EXCEPT ![t] = w],
         Cardinality(w.todo) <= SyncBatch
  PROVE  /\ syncs' \in [Syncs -> SyncTask] /\ syncs'[t] = w
         /\ \A e \in Syncs \ {t} : syncs'[e] = syncs[e]
         /\ \A e \in Syncs : Cardinality(syncs'[e].todo) <= SyncBatch
         /\ \A e \in Syncs \ {t} : \A f \in Frames : InHands(e, f)' <=> InHands(e, f)
<1>1. syncs \in [Syncs -> SyncTask] /\ \A e \in Syncs : Cardinality(syncs[e].todo) <= SyncBatch
  BY DEF DatasetInv, DatasetTypeOK, SyncTask
<1>2. /\ syncs' \in [Syncs -> SyncTask] /\ syncs'[t] = w
      /\ \A e \in Syncs \ {t} : syncs'[e] = syncs[e]
  BY <1>1
<1>3. \A e \in Syncs : Cardinality(syncs'[e].todo) <= SyncBatch
  BY <1>1, <1>2
<1>4. \A e \in Syncs \ {t} : \A f \in Frames : InHands(e, f)' <=> InHands(e, f)
  BY <1>2 DEF InHands
<1> QED
  BY <1>2, <1>3, <1>4

\* A task that is not writing has nothing to say of an outcome.
LEMMA OutcomeKept ==
  ASSUME DatasetInv, NEW t \in Syncs, NEW w \in SyncTask, syncs' = [syncs EXCEPT ![t] = w],
         Cardinality(w.todo) <= SyncBatch, w.at # "write", UNCHANGED <<syncOf, remote>>
  PROVE  OutcomeRight'
<1>1. syncs'[t] = w /\ \A e \in Syncs \ {t} : syncs'[e] = syncs[e]
  BY SyncTaskChange
<1> QED
  BY <1>1 DEF DatasetInv, OutcomeRight

LEMMA DelayStep ==
  ASSUME DatasetInv, Delay
  PROVE  DatasetInv'
<1>1. /\ undelayed > 0 /\ undelayed' = undelayed - 1
      /\ UNCHANGED <<syncOf, wanted, remote, flagged, toggles, marked, requests>>
  BY DEF Delay
<1>2. /\ undelayed \in 0 .. MaxRequests /\ requests \in 0 .. MaxRequests
      /\ MaxRequests \in Nat /\ undelayed <= requests
      /\ unlucky \in 0 .. MaxUnlucky /\ MaxUnlucky \in Nat
  BY DatasetAssumption DEF DatasetInv, DatasetTypeOK
<1>3. undelayed' \in 0 .. MaxRequests /\ undelayed' <= requests'
  BY <1>1, <1>2
<1>4. CASE \E t \in Syncs :
             /\ syncs' = [syncs EXCEPT ![t] = [NoSync EXCEPT !.at = "queued"]]
             /\ UNCHANGED <<short, unlucky>>
  <2>1. PICK t \in Syncs : /\ syncs' = [syncs EXCEPT ![t] = [NoSync EXCEPT !.at = "queued"]]
                           /\ UNCHANGED <<short, unlucky>>
    BY <1>4
  <2>2. PICK w : w = [NoSync EXCEPT !.at = "queued"]
    OBVIOUS
  <2>3. w \in SyncTask /\ w.at = "queued" /\ w.todo = {}
    BY <2>2 DEF NoSync, SyncTask
  <2>4. syncs' = [syncs EXCEPT ![t] = w] /\ Cardinality(w.todo) <= SyncBatch
    <3>1. SyncBatch \in Nat /\ Cardinality(w.todo) = 0
      BY <2>3, FS_EmptySet, DatasetAssumption
    <3> QED
      BY <2>1, <2>2, <3>1
  <2>5. /\ syncs' \in [Syncs -> SyncTask] /\ syncs'[t] = w
        /\ \A e \in Syncs : Cardinality(syncs'[e].todo) <= SyncBatch
    BY <2>3, <2>4, SyncTaskChange
  <2>6. DatasetTypeOK'
    BY <1>1, <1>3, <2>1, <2>5 DEF DatasetInv, DatasetTypeOK, SyncTask
  <2>7. OutcomeRight'
    BY <1>1, <2>3, <2>4, OutcomeKept
  <2>8. WantedRight'
    BY <2>3, <2>5 DEF WantedRight, InHands
  <2> QED
    BY <1>3, <2>6, <2>7, <2>8 DEF DatasetInv
<1>5. CASE unlucky < MaxUnlucky /\ unlucky' = unlucky + 1 /\ short' = TRUE /\ UNCHANGED syncs
  <2>1. unlucky' \in 0 .. MaxUnlucky
    BY <1>2, <1>5
  <2>2. DatasetTypeOK'
    BY <1>1, <1>3, <1>5, <2>1 DEF DatasetInv, DatasetTypeOK
  <2>3. OutcomeRight' /\ WantedRight'
    BY <1>1, <1>5 DEF DatasetInv, OutcomeRight, WantedRight
  <2> QED
    BY <1>3, <2>2, <2>3 DEF DatasetInv
<1> QED
  BY <1>4, <1>5 DEF Delay

LEMMA BeginSyncStep ==
  ASSUME DatasetInv, NEW t \in Syncs, BeginSync(t)
  PROVE  DatasetInv'
<1>1. /\ syncs[t].at = "queued"
      /\ syncs' = [syncs EXCEPT ![t] = [@ EXCEPT !.at = "post", !.todo = FirstOf(ReadyFrames)]]
      /\ short' = (short \/ Cardinality(ReadyFrames) > SyncBatch)
      /\ UNCHANGED <<syncOf, wanted, undelayed, remote, flagged, toggles, marked, requests, unlucky>>
  BY DEF BeginSync
<1>2. PICK S \in SUBSET Frames : S = ReadyFrames
  BY DEF ReadyFrames
<1>3. /\ FirstOf(S) \subseteq S /\ Cardinality(FirstOf(S)) <= SyncBatch
      /\ Cardinality(S) <= SyncBatch => FirstOf(S) = S
  BY BatchOf
<1>4. PICK u \in SyncTask : u = syncs[t]
  BY DEF DatasetInv, DatasetTypeOK, SyncTask
<1>5. PICK w : w = [u EXCEPT !.at = "post", !.todo = FirstOf(S)]
  OBVIOUS
<1>6. w \in SyncTask /\ w.at = "post" /\ w.todo = FirstOf(S)
  BY <1>3, <1>5 DEF SyncTask
<1>7. syncs' = [syncs EXCEPT ![t] = w] /\ Cardinality(w.todo) <= SyncBatch
  BY <1>1, <1>2, <1>3, <1>4, <1>5, <1>6 DEF DatasetInv, DatasetTypeOK
<1>8. /\ syncs' \in [Syncs -> SyncTask] /\ syncs'[t] = w
      /\ \A e \in Syncs : Cardinality(syncs'[e].todo) <= SyncBatch
  BY <1>6, <1>7, SyncTaskChange
<1>9. DatasetTypeOK'
  BY <1>1, <1>8 DEF DatasetInv, DatasetTypeOK, SyncTask
<1>10. OutcomeRight'
  BY <1>1, <1>6, <1>7, OutcomeKept
<1>11. WantedRight'
  <2>1. SUFFICES ASSUME ~short', NEW f \in wanted', syncOf'[f] = "not_sent" PROVE InHands(t, f)'
    BY DEF WantedRight
  <2>2. Cardinality(S) \in Nat /\ SyncBatch \in Nat
    BY DatasetAssumption, FS_Subset, FS_CardinalityType
  <2>3. Cardinality(S) <= SyncBatch
    <3>1. ~(Cardinality(S) > SyncBatch)
      BY <1>1, <1>2, <2>1
    <3> QED
      BY <2>2, <3>1
  <2>4. f \in S
    BY <1>1, <1>2, <2>1 DEF ReadyFrames, DatasetInv, DatasetTypeOK
  <2> QED
    BY <1>3, <1>6, <1>8, <2>3, <2>4 DEF InHands
<1>12. undelayed' <= requests'
  BY <1>1 DEF DatasetInv
<1> QED
  BY <1>9, <1>10, <1>11, <1>12 DEF DatasetInv

\* A task posts a frame and hears, or does not hear, of it.
LEMMA PostStep ==
  ASSUME DatasetInv, NEW t \in Syncs, PostAccepted(t) \/ PostFails(t)
  PROVE  DatasetInv'
<1>1. PICK a \in {"synced", "error"} :
        /\ Answered(t, a)
        /\ a = "synced" => remote' = remote \cup {Oldest(syncs[t].todo)}
  BY DEF PostAccepted, PostFails
<1>2. /\ syncs[t].at = "post" /\ syncs[t].todo # {}
      /\ remote' \in {remote, remote \cup {Oldest(syncs[t].todo)}}
      /\ UNCHANGED <<syncOf, wanted, undelayed, flagged, toggles, marked, short, requests, unlucky>>
  BY DEF PostAccepted, PostFails
<1>3. PICK u \in SyncTask : u = syncs[t]
  BY DEF DatasetInv, DatasetTypeOK, SyncTask
<1>4. PICK w : w = [u EXCEPT !.at = "write", !.answer = a]
  OBVIOUS
<1>5. w \in SyncTask /\ w.at = "write" /\ w.todo = u.todo /\ w.answer = a
  BY <1>4 DEF SyncTask
<1>6. syncs' = [syncs EXCEPT ![t] = w]
  BY <1>1, <1>3, <1>4 DEF Answered, DatasetInv, DatasetTypeOK
<1>7. Cardinality(w.todo) <= SyncBatch
  BY <1>3, <1>5 DEF DatasetInv, DatasetTypeOK
<1>8. /\ syncs' \in [Syncs -> SyncTask] /\ syncs'[t] = w
      /\ \A e \in Syncs \ {t} : syncs'[e] = syncs[e]
      /\ \A e \in Syncs : Cardinality(syncs'[e].todo) <= SyncBatch
      /\ \A e \in Syncs \ {t} : \A f \in Frames : InHands(e, f)' <=> InHands(e, f)
  BY <1>5, <1>6, <1>7, SyncTaskChange
<1>9. Oldest(u.todo) \in Frames
  BY <1>2, <1>3, OldestIsOne DEF SyncTask
<1>10. remote \subseteq remote' /\ remote' \subseteq Frames \cup Flaggable
  BY <1>2, <1>3, <1>9 DEF DatasetInv, DatasetTypeOK
<1>11. DatasetTypeOK'
  BY <1>2, <1>8, <1>10 DEF DatasetInv, DatasetTypeOK, SyncTask
<1>12. OutcomeRight'
  <2>1. \A f \in Frames : syncOf'[f] = "synced" => f \in remote'
    BY <1>2, <1>10 DEF DatasetInv, OutcomeRight
  <2>2. a = "synced" => Oldest(w.todo) \in remote'
    BY <1>1, <1>3, <1>5
  <2>3. \A e \in Syncs : syncs'[e].at = "write" =>
          /\ syncs'[e].todo # {} /\ syncs'[e].answer \in {"synced", "error"}
          /\ syncs'[e].answer = "synced" => Oldest(syncs'[e].todo) \in remote'
    BY <1>2, <1>3, <1>5, <1>8, <1>10, <2>2 DEF DatasetInv, OutcomeRight
  <2> QED
    BY <2>1, <2>3 DEF OutcomeRight
<1>13. WantedRight'
  <2>1. \A f \in Frames : InHands(t, f) => InHands(t, f)'
    BY <1>2, <1>3, <1>5, <1>8 DEF InHands
  <2>2. \A e \in Syncs, f \in Frames : InHands(e, f) => InHands(e, f)'
    BY <1>8, <2>1
  <2> QED
    BY <1>2, <2>2 DEF DatasetInv, DatasetTypeOK, WantedRight
<1>14. undelayed' <= requests'
  BY <1>2 DEF DatasetInv
<1> QED
  BY <1>11, <1>12, <1>13, <1>14 DEF DatasetInv

\* The outcome of the frame a task is at is written.
LEMMA WriteStatusStep ==
  ASSUME DatasetInv, NEW t \in Syncs, WriteStatus(t)
  PROVE  DatasetInv'
<1>1. PICK u \in SyncTask : u = syncs[t]
  BY DEF DatasetInv, DatasetTypeOK, SyncTask
<1>2. PICK f : f = Oldest(u.todo)
  OBVIOUS
<1>3. /\ u.at = "write"
      /\ syncOf' = [syncOf EXCEPT ![f] = Outcome(f, u.answer)]
      /\ syncs' = [syncs EXCEPT ![t] = [at |-> "post", todo |-> @.todo \ {Oldest(@.todo)},
                                        answer |-> "none"]]
      /\ UNCHANGED <<wanted, undelayed, remote, flagged, toggles, marked, short, requests, unlucky>>
  BY <1>1, <1>2 DEF WriteStatus
<1>4. /\ u.todo # {} /\ u.answer \in {"synced", "error"}
      /\ u.answer = "synced" => f \in remote
  BY <1>1, <1>2, <1>3 DEF DatasetInv, OutcomeRight
<1>5. f \in Frames /\ f \in u.todo
  BY <1>2, <1>4, OldestIsOne DEF SyncTask
<1>6. PICK w : w = [at |-> "post", todo |-> u.todo \ {f}, answer |-> "none"]
  OBVIOUS
<1>7. w \in SyncTask /\ w.at = "post" /\ w.todo = u.todo \ {f}
  BY <1>6 DEF SyncTask
<1>8. syncs' = [syncs EXCEPT ![t] = w]
  BY <1>1, <1>2, <1>3, <1>6 DEF DatasetInv, DatasetTypeOK
<1>9. Cardinality(w.todo) <= SyncBatch
  <2>1. IsFiniteSet(u.todo) /\ SyncBatch \in Nat
    BY DatasetAssumption, FS_Subset DEF SyncTask
  <2>2. Cardinality(u.todo) <= SyncBatch /\ Cardinality(u.todo) \in Nat
    BY <1>1, <2>1, FS_CardinalityType DEF DatasetInv, DatasetTypeOK
  <2>3. Cardinality(u.todo \ {f}) = Cardinality(u.todo) - 1
    BY <1>5, <2>1, FS_RemoveElement
  <2> QED
    BY <1>7, <2>1, <2>2, <2>3
<1>10. /\ syncs' \in [Syncs -> SyncTask] /\ syncs'[t] = w
       /\ \A e \in Syncs \ {t} : syncs'[e] = syncs[e]
       /\ \A e \in Syncs : Cardinality(syncs'[e].todo) <= SyncBatch
       /\ \A e \in Syncs \ {t} : \A g \in Frames : InHands(e, g)' <=> InHands(e, g)
  BY <1>7, <1>8, <1>9, SyncTaskChange
<1>11. /\ syncOf \in [Frames -> {"absent", "not_sent", "synced", "error"}] /\ wanted \subseteq Frames
       /\ Outcome(f, u.answer) \in {"absent", u.answer}
  BY DEF DatasetInv, DatasetTypeOK, Outcome
<1>12. /\ syncOf' \in [Frames -> {"absent", "not_sent", "synced", "error"}]
       /\ syncOf'[f] \in {"absent", u.answer}
       /\ \A g \in Frames \ {f} : syncOf'[g] = syncOf[g]
  BY <1>3, <1>4, <1>5, <1>11
<1>13. DatasetTypeOK'
  BY <1>3, <1>10, <1>12 DEF DatasetInv, DatasetTypeOK, SyncTask
<1>14. OutcomeRight'
  <2>1. \A g \in Frames : syncOf'[g] = "synced" => g \in remote'
    BY <1>3, <1>4, <1>12 DEF DatasetInv, OutcomeRight
  <2>2. \A e \in Syncs : syncs'[e].at = "write" =>
          /\ syncs'[e].todo # {} /\ syncs'[e].answer \in {"synced", "error"}
          /\ syncs'[e].answer = "synced" => Oldest(syncs'[e].todo) \in remote'
    BY <1>3, <1>7, <1>10 DEF DatasetInv, OutcomeRight
  <2> QED
    BY <2>1, <2>2 DEF OutcomeRight
<1>15. WantedRight'
  <2>1. SUFFICES ASSUME ~short, NEW g \in wanted, syncOf'[g] = "not_sent"
                 PROVE  undelayed > 0 \/ \E e \in Syncs : InHands(e, g)'
    BY <1>3 DEF WantedRight
  <2>2. g \in Frames /\ g # f /\ syncOf[g] = "not_sent"
    BY <1>4, <1>11, <1>12, <2>1
  <2>3. undelayed > 0 \/ \E e \in Syncs : InHands(e, g)
    BY <2>1, <2>2 DEF DatasetInv, WantedRight
  <2>4. InHands(t, g) => InHands(t, g)'
    BY <1>1, <1>3, <1>7, <1>10, <2>2 DEF InHands
  <2> QED
    BY <1>10, <2>2, <2>3, <2>4
<1>16. undelayed' <= requests'
  BY <1>3 DEF DatasetInv
<1> QED
  BY <1>13, <1>14, <1>15, <1>16 DEF DatasetInv

\* A task ends: because it is done or skipped, with its process, or to be delivered again.
LEMMA EndSyncStep ==
  ASSUME DatasetInv, NEW t \in Syncs, EndSync(t) \/ WorkerEnds(t) \/ SkipSync(t)
  PROVE  DatasetInv'
<1>1. UNCHANGED <<syncOf, wanted, undelayed, remote, flagged, toggles, marked, requests>>
  BY DEF EndSync, WorkerEnds, SkipSync
<1>2. PICK w : w \in {NoSync, [NoSync EXCEPT !.at = "queued"]} /\ syncs' = [syncs EXCEPT ![t] = w]
               /\ (w.at = "queued" \/ EndSync(t) \/ short')
  <2>1. CASE EndSync(t)
    BY <2>1 DEF EndSync
  <2>2. CASE WorkerEnds(t)
    <3>1. [NoSync EXCEPT !.at = "queued"].at = "queued"
      BY DEF NoSync
    <3> QED
      BY <2>2, <3>1 DEF WorkerEnds
  <2>3. CASE SkipSync(t)
    BY <2>3 DEF SkipSync
  <2> QED
    BY <2>1, <2>2, <2>3
<1>3. w \in SyncTask /\ w.at \in {"none", "queued"} /\ w.todo = {}
  BY <1>2 DEF NoSync, SyncTask
<1>4. Cardinality(w.todo) <= SyncBatch
  <2>1. Cardinality(w.todo) = 0 /\ SyncBatch \in Nat
    BY <1>3, FS_EmptySet, DatasetAssumption
  <2> QED
    BY <2>1
<1>5. /\ syncs' \in [Syncs -> SyncTask] /\ syncs'[t] = w
      /\ \A e \in Syncs : Cardinality(syncs'[e].todo) <= SyncBatch
      /\ \A e \in Syncs \ {t} : \A f \in Frames : InHands(e, f)' <=> InHands(e, f)
  BY <1>2, <1>3, <1>4, SyncTaskChange
<1>6. unlucky' \in 0 .. MaxUnlucky /\ short' \in BOOLEAN /\ (short => short')
  <2>1. unlucky \in 0 .. MaxUnlucky /\ MaxUnlucky \in Nat /\ short \in BOOLEAN
    BY DatasetAssumption DEF DatasetInv, DatasetTypeOK
  <2>2. CASE EndSync(t)
    BY <2>1, <2>2 DEF EndSync
  <2>3. CASE WorkerEnds(t)
    <3>1. unlucky < MaxUnlucky /\ unlucky' = unlucky + 1 /\ (short' = short \/ short' = TRUE)
      BY <2>3 DEF WorkerEnds
    <3>2. unlucky' \in 0 .. MaxUnlucky
      BY <2>1, <3>1
    <3>3. CASE short' = short
      BY <2>1, <3>2, <3>3
    <3>4. CASE short' = TRUE
      BY <3>2, <3>4
    <3> QED
      BY <3>1, <3>3, <3>4
  <2>4. CASE SkipSync(t)
    BY <2>1, <2>4 DEF SkipSync
  <2> QED
    BY <2>2, <2>3, <2>4
<1>7. DatasetTypeOK'
  BY <1>1, <1>5, <1>6 DEF DatasetInv, DatasetTypeOK, SyncTask
<1>8. OutcomeRight'
  BY <1>1, <1>2, <1>3, <1>4, OutcomeKept
<1>9. WantedRight'
  <2>1. SUFFICES ASSUME ~short', NEW f \in wanted, syncOf[f] = "not_sent"
                 PROVE  undelayed > 0 \/ \E e \in Syncs : InHands(e, f)'
    BY <1>1 DEF WantedRight
  <2>2. f \in Frames /\ (undelayed > 0 \/ \E e \in Syncs : InHands(e, f))
    BY <1>6, <2>1 DEF DatasetInv, DatasetTypeOK, WantedRight
  <2>3. CASE w.at = "queued"
    BY <1>5, <2>3 DEF InHands
  <2>4. CASE EndSync(t)
    <3>1. ~InHands(t, f)
      BY <2>4 DEF EndSync, InHands
    <3> QED
      BY <1>5, <2>2, <3>1
  <2> QED
    BY <1>2, <2>1, <2>3, <2>4
<1>10. undelayed' <= requests'
  BY <1>1 DEF DatasetInv
<1> QED
  BY <1>7, <1>8, <1>9, <1>10 DEF DatasetInv

\* What users flag touches neither frames nor tasks; a request for what is flagged queues one.
LEMMA FlagStep ==
  ASSUME DatasetInv,
         \/ \E d \in Flaggable : ReadFlag(d)
         \/ WriteFlag
         \/ \E S \in SUBSET Flaggable : SetFlags(S) \/ UploadFlagged(S)
  PROVE  DatasetInv'
<1>1. UNCHANGED <<syncOf, wanted, syncs, remote, short, unlucky>>
  BY DEF ReadFlag, WriteFlag, SetFlags, UploadFlagged
<1>2. /\ requests \in 0 .. MaxRequests /\ undelayed \in 0 .. MaxRequests /\ undelayed <= requests
      /\ MaxRequests \in Nat
  BY DatasetAssumption DEF DatasetInv, DatasetTypeOK
<1>3. \/ UNCHANGED <<requests, undelayed>>
      \/ requests < MaxRequests /\ requests' = requests + 1 /\ undelayed' \in {undelayed, undelayed + 1}
  BY DEF ReadFlag, WriteFlag, SetFlags, UploadFlagged, Asks
<1>4. /\ requests' \in 0 .. MaxRequests /\ undelayed' \in 0 .. MaxRequests
      /\ undelayed' <= requests' /\ (undelayed > 0 => undelayed' > 0)
  BY <1>2, <1>3
<1>5. flagged' \subseteq Flaggable /\ marked' \subseteq Flaggable
      /\ toggles' \subseteq [det : Flaggable, to : BOOLEAN]
  <2>1. /\ flagged \subseteq Flaggable /\ marked \subseteq Flaggable
        /\ toggles \subseteq [det : Flaggable, to : BOOLEAN]
    BY DEF DatasetInv, DatasetTypeOK
  <2>2. CASE \E d \in Flaggable : ReadFlag(d)
    <3>1. PICK d \in Flaggable : toggles' = toggles \cup {[det |-> d, to |-> d \notin flagged]}
      BY <2>2 DEF ReadFlag
    <3>2. [det |-> d, to |-> d \notin flagged] \in [det : Flaggable, to : BOOLEAN]
      OBVIOUS
    <3>3. UNCHANGED <<flagged, marked>>
      BY <2>2 DEF ReadFlag
    <3> QED
      BY <2>1, <3>1, <3>2, <3>3
  <2>3. CASE WriteFlag
    <3>1. PICK g \in toggles :
            /\ toggles' = toggles \ {g}
            /\ flagged' = IF g.to THEN flagged \cup {g.det} ELSE flagged \ {g.det}
      BY <2>3 DEF WriteFlag
    <3>2. g.det \in Flaggable
      BY <2>1
    <3>3. UNCHANGED marked
      BY <2>3 DEF WriteFlag
    <3> QED
      BY <2>1, <3>1, <3>2, <3>3
  <2>4. CASE \E S \in SUBSET Flaggable : SetFlags(S)
    <3>1. PICK S \in SUBSET Flaggable : SetFlags(S)
      BY <2>4
    <3> QED
      BY <2>1, <3>1 DEF SetFlags
  <2>5. CASE \E S \in SUBSET Flaggable : UploadFlagged(S)
    <3>1. PICK S \in SUBSET Flaggable : UploadFlagged(S)
      BY <2>5
    <3> QED
      BY <2>1, <3>1 DEF UploadFlagged
  <2> QED
    BY <2>2, <2>3, <2>4, <2>5
<1>6. DatasetTypeOK'
  BY <1>1, <1>4, <1>5 DEF DatasetInv, DatasetTypeOK
<1>7. OutcomeRight'
  BY <1>1 DEF DatasetInv, OutcomeRight
<1>8. WantedRight'
  <2>1. \A e \in Syncs : \A f \in Frames : InHands(e, f)' <=> InHands(e, f)
    BY <1>1 DEF InHands
  <2> QED
    BY <1>1, <1>4, <2>1 DEF DatasetInv, DatasetTypeOK, WantedRight
<1> QED
  BY <1>4, <1>6, <1>7, <1>8 DEF DatasetInv

LEMMA DatasetInductive ==
  ASSUME DatasetInv, [DatasetNext]_datasetVars
  PROVE  DatasetInv'
<1>1. CASE \/ \E f \in Frames : AddDatasetFrame(f)
           \/ \E S \in SUBSET Frames : RemoveFrames(S) \/ RequestUpload(S) \/ RequestAcross(S)
           \/ RequestSync
  BY <1>1, RequestStep
<1>2. CASE Delay
  BY <1>2, DelayStep
<1>3. ASSUME NEW t \in Syncs, \/ BeginSync(t) \/ SkipSync(t) \/ PostAccepted(t) \/ PostFails(t)
                              \/ WriteStatus(t) \/ EndSync(t) \/ WorkerEnds(t)
      PROVE  DatasetInv'
  BY <1>3, BeginSyncStep, PostStep, WriteStatusStep, EndSyncStep
<1>4. CASE \/ \E d \in Flaggable : ReadFlag(d)
           \/ WriteFlag
           \/ \E S \in SUBSET Flaggable : SetFlags(S) \/ UploadFlagged(S)
  BY <1>4, FlagStep
<1>5. CASE UNCHANGED datasetVars
  <2>1. DatasetTypeOK' /\ OutcomeRight'
    BY <1>5 DEF DatasetInv, DatasetTypeOK, OutcomeRight, datasetVars
  <2>2. WantedRight' /\ undelayed' <= requests'
    BY <1>5 DEF DatasetInv, WantedRight, InHands, datasetVars
  <2> QED
    BY <2>1, <2>2 DEF DatasetInv
<1> QED
  BY <1>1, <1>2, <1>3, <1>4, <1>5 DEF DatasetNext

LEMMA DatasetAlways == DatasetSpec => []DatasetInv
<1>1. DatasetInit => DatasetInv
  BY DatasetInitInv
<1>2. DatasetInv /\ [DatasetNext]_datasetVars => DatasetInv'
  BY DatasetInductive
<1> QED
  BY <1>1, <1>2, PTL DEF DatasetSpec

\* Frames, tasks and flags keep their types, and no task takes more frames than a batch.
THEOREM DatasetTypeCorrect == DatasetSpec => []DatasetTypeOK
<1>1. DatasetInv => DatasetTypeOK
  BY DEF DatasetInv
<1> QED
  BY <1>1, DatasetAlways, PTL

\* A frame marked as synced is at Roboflow, and once no task is left every frame whose
\* upload a user of its organisation requested last has its outcome (_async_sync), but for
\* tasks that were lost, or skipped for want of settings, and for more frames than a batch.
THEOREM ServedCorrect == DatasetSpec => []RequestsAreServed
<1>1. DatasetInv => RequestsAreServed
  <2>1. SUFFICES ASSUME DatasetInv PROVE RequestsAreServed
    OBVIOUS
  <2>2. ASSUME NoTask, ~short, NEW f \in wanted PROVE syncOf[f] # "not_sent"
    BY <2>1, <2>2 DEF DatasetInv, WantedRight, InHands, NoTask
  <2> QED
    BY <2>1, <2>2 DEF DatasetInv, OutcomeRight, RequestsAreServed
<1> QED
  BY <1>1, DatasetAlways, PTL

-------------------------------------------------------------------------------
(* The learning set *)

Import == [at : {"none", "queued", "images", "over"}, todo : SUBSET Images]
Capturer == [at : {"idle", "log", "limit", "copy"}, of : Detections]
Past(d) == {w \in Capturers : capturer[w].of = d /\ capturer[w].at \in {"limit", "copy"}}
Copying == {w \in Capturers : capturer[w].at = "copy"}
Importing == {i \in Imports : imports[i].at = "images"}
\* The imports that may still bring an image
Chances(f) ==
  {i \in Imports : imports[i].at \in {"none", "queued"}
                   \/ (imports[i].at = "images" /\ f \in imports[i].todo)}

LearnTypes ==
  /\ captures \in [Detections -> {"none", "queued", "taken", "over"}] /\ logged \subseteq Detections
  /\ imports \in [Imports -> Import] /\ imported \in BOOLEAN /\ crossed \in BOOLEAN
  /\ frames \in [Sources -> Nat] /\ split \subseteq Held
  /\ version \in [Sources -> 0 .. MaxVersions]
  /\ capturer \in [Capturers -> Capturer]
  /\ datasets \in Seq(Nat) /\ Len(datasets) <= MaxVersions
  /\ tagging \in BOOLEAN /\ kills \in 0 .. MaxKills
\* A detection is logged before it is past the log, and one worker at most is past it,
\* which has not stored its frame.
CapturesRight ==
  \A d \in Detections :
    /\ frames[d] <= 1
    /\ frames[d] > 0 \/ Past(d) # {} => d \in logged
    /\ Past(d) # {} => frames[d] = 0
    /\ \A w, x \in Past(d) : w = x
LimitRight ==
  FramesOf(Detections) + Cardinality(Copying) <= DailyLimit + Cardinality(Capturers) - 1
\* An image comes once with each import, and once more when a worker dies.
ImportsRight ==
  /\ \A f \in Images : frames[f] + Cardinality(Chances(f)) <= Cardinality(Imports) + kills
  /\ \A f \in Uploaded : frames[f] <= 1
\* Imports that do not cross are one at a time, and none follows one that has ended.
LoneImportRight ==
  ~crossed =>
    /\ \A f \in Images : frames[f] <= 1
    /\ \A i, j \in Importing : i = j
    /\ imported => Importing = {}
    /\ ~imported /\ Importing = {} => \A f \in Images : frames[f] = 0
    /\ \A i \in Importing : \A f \in imports[i].todo : frames[f] = 0
LearnInv == LearnTypes /\ CapturesRight /\ LimitRight /\ ImportsRight /\ LoneImportRight

LEMMA SourcesApart ==
  /\ \A d \in Detections : d \in Sources /\ d \notin Images /\ d \notin Uploaded
  /\ \A f \in Images : f \in Sources /\ f \notin Detections /\ f \notin Uploaded
  /\ \A f \in Uploaded : f \in Sources /\ f \notin Detections /\ f \notin Images
BY LearningAssumption DEF Sources

LEMMA WorkersCounted ==
  /\ {MaxKills, MaxVersions, DailyLimit} \subseteq Nat
  /\ Cardinality(Imports) \in Nat \ {0} /\ Cardinality(Capturers) \in Nat \ {0}
  /\ \A S \in SUBSET Capturers : IsFiniteSet(S) /\ Cardinality(S) \in Nat
                                 /\ Cardinality(S) <= Cardinality(Capturers)
  /\ \A S \in SUBSET Imports : IsFiniteSet(S) /\ Cardinality(S) \in Nat
<1>1. /\ Cardinality(Imports) \in Nat /\ Cardinality(Capturers) \in Nat
      /\ Cardinality(Imports) # 0 /\ Cardinality(Capturers) # 0
  BY LearningAssumption, FS_CardinalityType, FS_EmptySet
<1>2. ASSUME NEW S \in SUBSET Capturers
      PROVE  IsFiniteSet(S) /\ Cardinality(S) \in Nat /\ Cardinality(S) <= Cardinality(Capturers)
  BY LearningAssumption, FS_Subset, FS_CardinalityType
<1>3. ASSUME NEW S \in SUBSET Imports PROVE IsFiniteSet(S) /\ Cardinality(S) \in Nat
  BY LearningAssumption, FS_Subset, FS_CardinalityType
<1> QED
  BY <1>1, <1>2, <1>3, LearningAssumption

LEMMA RestingIs == Resting \in Capturer /\ Resting.at = "idle"
<1>1. PICK d : d = CHOOSE x \in Detections : TRUE
  OBVIOUS
<1>2. d \in Detections
  BY <1>1, LearningAssumption
<1>3. Resting = [at |-> "idle", of |-> d]
  BY <1>1 DEF Resting
<1> QED
  BY <1>2, <1>3 DEF Capturer

\* No source has more frames than there are imports and deaths, so all can be counted.
LEMMA LearnFinite ==
  ASSUME LearnInv
  PROVE  /\ frames \in [Sources -> 0 .. Cardinality(Imports) + MaxKills]
         /\ \A S \in SUBSET Sources : IsFiniteSet(DocsOf(S)) /\ FramesOf(S) \in Nat
         /\ FramesOf(Detections) <= FramesOf(Sources)
<1>1. PICK b \in Nat : b = Cardinality(Imports) + MaxKills /\ b >= 1
  <2>1. Cardinality(Imports) \in Nat \ {0} /\ MaxKills \in Nat
    BY WorkersCounted
  <2> QED
    BY <2>1
<1>2. ASSUME NEW d \in Sources PROVE frames[d] \in 0 .. b
  <2>1. frames[d] \in Nat
    BY DEF LearnInv, LearnTypes
  <2>2. CASE d \in Detections
    BY <1>1, <2>1, <2>2 DEF LearnInv, CapturesRight
  <2>3. CASE d \in Images
    <3>1. Chances(d) \subseteq Imports
      BY DEF Chances
    <3>2. Cardinality(Chances(d)) \in Nat /\ Cardinality(Imports) \in Nat
      BY <3>1, WorkersCounted
    <3>3. frames[d] + Cardinality(Chances(d)) <= Cardinality(Imports) + kills
      BY <2>3 DEF LearnInv, ImportsRight
    <3>4. kills \in 0 .. MaxKills /\ MaxKills \in Nat
      BY WorkersCounted DEF LearnInv, LearnTypes
    <3> QED
      BY <1>1, <2>1, <3>2, <3>3, <3>4
  <2>4. CASE d \in Uploaded
    BY <1>1, <2>1, <2>4 DEF LearnInv, ImportsRight
  <2> QED
    BY <2>2, <2>3, <2>4 DEF Sources
<1>3. frames \in [Sources -> 0 .. b]
  BY <1>2 DEF LearnInv, LearnTypes
<1>4. ASSUME NEW S \in SUBSET Sources
      PROVE  IsFiniteSet(DocsOf(S)) /\ FramesOf(S) \in Nat
  <2>1. IsFiniteSet(Sources)
    BY LearningAssumption, FS_Union DEF Sources
  <2>2. IsFiniteSet(0 .. b)
    <3>1. 0 \in Int /\ b \in Int
      OBVIOUS
    <3> QED
      BY <3>1, FS_Interval
  <2>3. IsFiniteSet(Sources \X (0 .. b))
    BY <2>1, <2>2, FS_Product
  <2>4. DocsOf(S) \subseteq Sources \X (0 .. b)
    <3>1. ASSUME NEW d \in S PROVE {d} \X (1 .. frames[d]) \subseteq Sources \X (0 .. b)
      BY <1>2
    <3> QED
      BY <3>1 DEF DocsOf
  <2>5. IsFiniteSet(DocsOf(S))
    BY <2>3, <2>4, FS_Subset
  <2> QED
    BY <2>5, FS_CardinalityType DEF FramesOf
<1>5. FramesOf(Detections) <= FramesOf(Sources)
  <2>1. Detections \subseteq Sources
    BY DEF Sources
  <2>2. DocsOf(Detections) \subseteq DocsOf(Sources)
    BY <2>1 DEF DocsOf
  <2> QED
    BY <1>4, <2>2, FS_Subset DEF FramesOf
<1> QED
  BY <1>1, <1>3, <1>4, <1>5

\* One more frame of a detection is one more document.
LEMMA OneMoreDoc ==
  ASSUME LearnInv, NEW d \in Detections, frames' = [frames EXCEPT ![d] = @ + 1]
  PROVE  FramesOf(Detections)' = FramesOf(Detections) + 1
<1>1. PICK n \in Nat : n = frames[d]
  BY DEF LearnInv, LearnTypes, Sources
<1>2. /\ \A e \in Detections : frames'[e] = IF e = d THEN n + 1 ELSE frames[e]
      /\ \A e \in Detections : frames[e] \in Nat
  BY <1>1 DEF LearnInv, LearnTypes, Sources
<1>3. 1 .. n + 1 = (1 .. n) \cup {n + 1} /\ n + 1 \notin 1 .. n
  BY <1>1
<1>4. DocsOf(Detections)' = DocsOf(Detections) \cup {<<d, n + 1>>}
  <2>1. DocsOf(Detections)' = UNION { {e} \X (1 .. frames'[e]) : e \in Detections }
    BY DEF DocsOf
  <2>2. ASSUME NEW x PROVE x \in DocsOf(Detections)' <=> x \in DocsOf(Detections) \cup {<<d, n + 1>>}
    <3>1. x \in DocsOf(Detections)' <=> \E e \in Detections : x \in {e} \X (1 .. frames'[e])
      BY <2>1
    <3>2. x \in DocsOf(Detections) <=> \E e \in Detections : x \in {e} \X (1 .. frames[e])
      BY DEF DocsOf
    <3>3. x \in {d} \X (1 .. frames'[d]) <=> x \in {d} \X (1 .. frames[d]) \/ x = <<d, n + 1>>
      BY <1>1, <1>2, <1>3
    <3>4. \A e \in Detections \ {d} :
            x \in {e} \X (1 .. frames'[e]) <=> x \in {e} \X (1 .. frames[e])
      BY <1>2
    <3> QED
      BY <3>1, <3>2, <3>3, <3>4
  <2> QED
    BY <2>2
<1>5. <<d, n + 1>> \notin DocsOf(Detections)
  <2>1. SUFFICES ASSUME NEW e \in Detections, <<d, n + 1>> \in {e} \X (1 .. frames[e]) PROVE FALSE
    BY DEF DocsOf
  <2> QED
    BY <1>1, <1>3, <2>1
<1>6. IsFiniteSet(DocsOf(Detections))
  BY LearnFinite DEF Sources
<1>7. Cardinality(DocsOf(Detections) \cup {<<d, n + 1>>}) = Cardinality(DocsOf(Detections)) + 1
  BY <1>5, <1>6, FS_AddElement
<1> QED
  BY <1>4, <1>7 DEF FramesOf

LEMMA FewerDocs ==
  ASSUME LearnInv, frames' \in [Sources -> Nat], \A d \in Detections : frames'[d] <= frames[d]
  PROVE  FramesOf(Detections)' \in Nat /\ FramesOf(Detections)' <= FramesOf(Detections)
<1>1. IsFiniteSet(DocsOf(Detections)) /\ FramesOf(Detections) \in Nat
  BY LearnFinite DEF Sources
<1>2. ASSUME NEW d \in Detections PROVE 1 .. frames'[d] \subseteq 1 .. frames[d]
  <2>1. frames'[d] \in Nat /\ frames[d] \in Nat /\ frames'[d] <= frames[d]
    BY DEF LearnInv, LearnTypes, Sources
  <2> QED
    BY <2>1
<1>3. DocsOf(Detections)' \subseteq DocsOf(Detections)
  BY <1>2 DEF DocsOf
<1> QED
  BY <1>1, <1>3, FS_Subset, FS_CardinalityType DEF FramesOf

\* A step that brings no detection past the log, and none a frame, keeps the captures right.
LEMMA CaptureQuiet ==
  ASSUME LearnInv, frames' \in [Sources -> Nat], \A d \in Detections : frames'[d] <= frames[d],
         \A d \in Detections : Past(d)' \subseteq Past(d), Copying' \subseteq Copying,
         logged \subseteq logged'
  PROVE  CapturesRight' /\ LimitRight'
<1>1. ASSUME NEW d \in Detections
      PROVE  /\ frames'[d] <= 1
             /\ frames'[d] > 0 \/ Past(d)' # {} => d \in logged'
             /\ Past(d)' # {} => frames'[d] = 0
             /\ \A w, x \in Past(d)' : w = x
  <2>1. frames'[d] \in Nat /\ frames[d] \in Nat /\ frames'[d] <= frames[d]
    BY DEF LearnInv, LearnTypes, Sources
  <2>2. /\ frames[d] <= 1
        /\ frames[d] > 0 \/ Past(d) # {} => d \in logged
        /\ Past(d) # {} => frames[d] = 0
        /\ \A w, x \in Past(d) : w = x
    BY DEF LearnInv, CapturesRight
  <2>3. Past(d)' \subseteq Past(d)
    OBVIOUS
  <2> QED
    BY <2>1, <2>2, <2>3
<1>2. CapturesRight'
  BY <1>1 DEF CapturesRight
<1>3. Copying \subseteq Capturers
  BY DEF Copying
<1>4. /\ Cardinality(Copying') <= Cardinality(Copying)
      /\ Cardinality(Copying') \in Nat /\ Cardinality(Copying) \in Nat
  BY <1>3, WorkersCounted, FS_Subset
<1>5. /\ FramesOf(Detections)' \in Nat /\ FramesOf(Detections) \in Nat
      /\ FramesOf(Detections)' <= FramesOf(Detections)
  BY FewerDocs, LearnFinite DEF Sources
<1>6. Cardinality(Copying)' = Cardinality(Copying')
  OBVIOUS
<1>7. DailyLimit \in Nat /\ Cardinality(Capturers) \in Nat
  BY WorkersCounted
<1>8. FramesOf(Detections) + Cardinality(Copying) <= DailyLimit + Cardinality(Capturers) - 1
  BY DEF LearnInv, LimitRight
<1>9. FramesOf(Detections)' + Cardinality(Copying') <= DailyLimit + Cardinality(Capturers) - 1
  BY <1>4, <1>5, <1>7, <1>8
<1> QED
  BY <1>2, <1>6, <1>9 DEF LimitRight

\* A step that is none of an import, and stores no image, keeps the imports right.
LEMMA ImportsKept ==
  ASSUME LearnInv, UNCHANGED importVars, frames' \in [Sources -> Nat],
         \A f \in Images : frames'[f] <= frames[f], \A f \in Uploaded : frames'[f] <= 1,
         kills' \in Nat, kills' >= kills
  PROVE  ImportsRight' /\ LoneImportRight'
<1>1. UNCHANGED <<imports, imported, crossed>>
  BY DEF importVars
<1>2. \A f \in Images : frames'[f] \in Nat /\ frames[f] \in Nat
  BY DEF LearnInv, LearnTypes, Sources
<1>3. ASSUME NEW f \in Images
      PROVE  frames'[f] + Cardinality(Chances(f))' <= Cardinality(Imports) + kills'
  <2>1. Chances(f)' = Chances(f)
    BY <1>1 DEF Chances
  <2>2. Chances(f) \subseteq Imports
    BY DEF Chances
  <2>3. Cardinality(Chances(f)) \in Nat /\ Cardinality(Imports) \in Nat
    BY <2>2, WorkersCounted
  <2>4. kills \in Nat
    BY WorkersCounted DEF LearnInv, LearnTypes
  <2>5. frames[f] + Cardinality(Chances(f)) <= Cardinality(Imports) + kills
    BY DEF LearnInv, ImportsRight
  <2>6. frames'[f] + Cardinality(Chances(f)) <= Cardinality(Imports) + kills'
    BY <1>2, <2>3, <2>4, <2>5
  <2> QED
    BY <2>1, <2>6
<1>4. ImportsRight'
  BY <1>3 DEF ImportsRight
<1>5. Importing' = Importing
  BY <1>1 DEF Importing
<1>6. \A f \in Images : (frames[f] <= 1 => frames'[f] <= 1) /\ (frames[f] = 0 => frames'[f] = 0)
  BY <1>2
<1>7. \A i \in Importing : \A f \in imports[i].todo : f \in Images
  BY DEF Importing, LearnInv, LearnTypes, Import
<1>8. LoneImportRight'
  BY <1>1, <1>5, <1>6, <1>7 DEF LearnInv, LoneImportRight
<1> QED
  BY <1>4, <1>8

\* What a worker does next
LEMMA WorkerChange ==
  ASSUME LearnInv, NEW w \in Capturers, NEW c \in Capturer, capturer' = [capturer EXCEPT ![w] = c]
  PROVE  /\ capturer' \in [Capturers -> Capturer] /\ capturer'[w] = c
         /\ \A x \in Capturers : x # w => capturer'[x] = capturer[x]
         /\ c.at \in {"idle", "log"} =>
              /\ \A d \in Detections : Past(d)' = Past(d) \ {w}
              /\ Copying' = Copying \ {w}
<1>1. capturer \in [Capturers -> Capturer]
  BY DEF LearnInv, LearnTypes
<1>2. /\ capturer' \in [Capturers -> Capturer] /\ capturer'[w] = c
      /\ \A x \in Capturers : x # w => capturer'[x] = capturer[x]
  BY <1>1
<1> QED
  BY <1>2 DEF Past, Copying

LEMMA WorkerOf ==
  ASSUME LearnInv, NEW w \in Capturers
  PROVE  capturer[w] \in Capturer /\ capturer[w].of \in Detections
BY DEF LearnInv, LearnTypes, Capturer

\* The end of a task, and what it leaves of the worker's part
LEMMA AckEffect ==
  ASSUME LearnInv, NEW w \in Capturers, capturer' = [capturer EXCEPT ![w] = Resting],
         NEW s \in {"queued", "over"}, captures' = [captures EXCEPT ![capturer[w].of] = s]
  PROVE  /\ capturer' \in [Capturers -> Capturer]
         /\ captures' \in [Detections -> {"none", "queued", "taken", "over"}]
         /\ \A d \in Detections : Past(d)' = Past(d) \ {w}
         /\ Copying' = Copying \ {w}
<1>1. PICK c \in Capturer : c = Resting /\ c.at = "idle"
  BY RestingIs
<1>2. capturer' = [capturer EXCEPT ![w] = c]
  BY <1>1
<1>3. /\ capturer' \in [Capturers -> Capturer]
      /\ \A d \in Detections : Past(d)' = Past(d) \ {w}
      /\ Copying' = Copying \ {w}
  BY <1>1, <1>2, WorkerChange
<1> QED
  BY <1>3, WorkerOf DEF LearnInv, LearnTypes

LEMMA GoesEffect ==
  ASSUME LearnInv, NEW w \in Capturers, NEW s \in {"limit", "copy"},
         capturer' = [capturer EXCEPT ![w].at = s]
  PROVE  /\ capturer' \in [Capturers -> Capturer]
         /\ capturer'[w].at = s /\ capturer'[w].of = capturer[w].of
         /\ \A x \in Capturers : x # w => capturer'[x] = capturer[x]
<1>1. PICK u \in Capturer : u = capturer[w]
  BY WorkerOf
<1>2. PICK c : c = [u EXCEPT !.at = s]
  OBVIOUS
<1>3. c \in Capturer /\ c.at = s /\ c.of = u.of
  BY <1>2 DEF Capturer
<1>4. capturer' = [capturer EXCEPT ![w] = c]
  BY <1>1, <1>2 DEF LearnInv, LearnTypes
<1> QED
  BY <1>1, <1>3, <1>4, WorkerChange

LEMMA LearnInitInv == LearningInit => LearnInv
<1> SUFFICES ASSUME LearningInit PROVE LearnInv
  OBVIOUS
<1>1. /\ captures = [d \in Detections |-> "none"] /\ logged = {} /\ split = {}
      /\ imports = [i \in Imports |-> NoImport] /\ imported = FALSE /\ crossed = FALSE
      /\ frames = [d \in Sources |-> 0] /\ version = [d \in Sources |-> 0]
      /\ capturer = [w \in Capturers |-> Resting] /\ datasets = <<>> /\ tagging = FALSE /\ kills = 0
  BY DEF LearningInit
<1>2. MaxVersions \in Nat /\ MaxKills \in Nat /\ DailyLimit \in Nat
  BY WorkersCounted
<1>3. LearnTypes
  <2>1. NoImport \in Import
    BY DEF NoImport, Import
  <2>2. imports \in [Imports -> Import] /\ capturer \in [Capturers -> Capturer]
    BY <1>1, <2>1, RestingIs
  <2>3. datasets \in Seq(Nat) /\ Len(datasets) <= MaxVersions
    BY <1>1, <1>2
  <2>4. version \in [Sources -> 0 .. MaxVersions] /\ frames \in [Sources -> Nat]
    BY <1>1, <1>2
  <2>5. captures \in [Detections -> {"none", "queued", "taken", "over"}]
    BY <1>1
  <2>6. kills \in 0 .. MaxKills
    BY <1>1, <1>2
  <2>7. logged \subseteq Detections /\ split \subseteq Held
    BY <1>1
  <2>8. imported \in BOOLEAN /\ crossed \in BOOLEAN /\ tagging \in BOOLEAN
    BY <1>1
  <2> QED
    BY <2>2, <2>3, <2>4, <2>5, <2>6, <2>7, <2>8 DEF LearnTypes
<1>4. \A w \in Capturers : capturer[w].at = "idle"
  BY <1>1, RestingIs
<1>5. CapturesRight
  BY <1>1, <1>4 DEF CapturesRight, Past, Sources
<1>6. LimitRight
  <2>1. Copying = {}
    BY <1>4 DEF Copying
  <2>2. \A d \in Detections : 1 .. frames[d] = {}
    BY <1>1 DEF Sources
  <2>3. DocsOf(Detections) = {}
    BY <2>2 DEF DocsOf
  <2>4. FramesOf(Detections) = 0 /\ Cardinality(Copying) = 0
    BY <2>1, <2>3, FS_EmptySet DEF FramesOf
  <2>5. Cardinality(Capturers) \in Nat \ {0}
    BY WorkersCounted
  <2> QED
    BY <1>2, <2>4, <2>5 DEF LimitRight
<1>7. \A i \in Imports : imports[i].at = "none"
  BY <1>1 DEF NoImport
<1>8. ImportsRight
  <2>1. ASSUME NEW f \in Images PROVE frames[f] + Cardinality(Chances(f)) <= Cardinality(Imports) + kills
    <3>1. Chances(f) \subseteq Imports
      BY DEF Chances
    <3>2. Cardinality(Chances(f)) <= Cardinality(Imports) /\ Cardinality(Chances(f)) \in Nat
      BY <3>1, LearningAssumption, FS_Subset, FS_CardinalityType
    <3>3. frames[f] = 0 /\ Cardinality(Imports) \in Nat
      BY <1>1, WorkersCounted DEF Sources
    <3> QED
      BY <1>1, <3>2, <3>3
  <2> QED
    BY <1>1, <2>1 DEF ImportsRight, Sources
<1>9. LoneImportRight
  <2>1. Importing = {}
    BY <1>7 DEF Importing
  <2>2. \A f \in Images : frames[f] = 0
    BY <1>1 DEF Sources
  <2> QED
    BY <2>1, <2>2 DEF LoneImportRight
<1> QED
  BY <1>3, <1>5, <1>6, <1>8, <1>9 DEF LearnInv

\* The steps of capture_detection that store no frame: the rest of the state is left alone.
LEMMA CaptureFrame ==
  ASSUME LearnInv, UNCHANGED <<importVars, frames, split, version, datasets, tagging>>,
         captures' \in [Detections -> {"none", "queued", "taken", "over"}],
         capturer' \in [Capturers -> Capturer], logged \subseteq logged', logged' \subseteq Detections,
         kills' \in 0 .. MaxKills, kills' >= kills
  PROVE  /\ LearnTypes' /\ ImportsRight' /\ LoneImportRight'
         /\ ((\A d \in Detections : Past(d)' \subseteq Past(d)) /\ Copying' \subseteq Copying => LearnInv')
<1>1. UNCHANGED <<imports, imported, crossed>>
  BY DEF importVars
<1>2. Held' = Held
  BY DEF Held
<1>3. LearnTypes'
  BY <1>1, <1>2 DEF LearnInv, LearnTypes
<1>4. frames' \in [Sources -> Nat] /\ \A d \in Sources : frames'[d] <= frames[d]
  BY DEF LearnInv, LearnTypes
<1>5. /\ \A f \in Images : frames'[f] <= frames[f]
      /\ \A d \in Detections : frames'[d] <= frames[d]
  BY <1>4 DEF Sources
<1>6. \A f \in Uploaded : frames'[f] <= 1
  BY DEF LearnInv, ImportsRight
<1>7. kills' \in Nat
  BY WorkersCounted
<1>8. ImportsRight' /\ LoneImportRight'
  BY <1>1, <1>4, <1>5, <1>6, <1>7, ImportsKept DEF importVars
<1>9. ASSUME \A d \in Detections : Past(d)' \subseteq Past(d), Copying' \subseteq Copying
      PROVE  LearnInv'
  BY <1>3, <1>4, <1>5, <1>8, <1>9, CaptureQuiet DEF LearnInv
<1> QED
  BY <1>3, <1>8, <1>9

LEMMA KillsGrow ==
  ASSUME LearnInv
  PROVE  /\ kills \in 0 .. MaxKills /\ kills \in Nat /\ kills >= kills
         /\ kills < MaxKills => kills + 1 \in 0 .. MaxKills /\ kills + 1 >= kills
<1>1. MaxKills \in Nat /\ kills \in 0 .. MaxKills
  BY WorkersCounted DEF LearnInv, LearnTypes
<1> QED
  BY <1>1

LEMMA DetectStepInv == ASSUME LearnInv, NEW d \in Detections, Detect(d) PROVE LearnInv'
<1>1. /\ UNCHANGED <<importVars, frames, split, version, datasets, tagging>>
      /\ UNCHANGED <<logged, capturer, kills>>
      /\ captures' = [captures EXCEPT ![d] = "queued"]
  BY DEF Detect
<1>2. /\ captures' \in [Detections -> {"none", "queued", "taken", "over"}]
      /\ capturer' \in [Capturers -> Capturer] /\ logged' \subseteq Detections
  BY <1>1 DEF LearnInv, LearnTypes
<1>3. (\A e \in Detections : Past(e)' \subseteq Past(e)) /\ Copying' \subseteq Copying
  BY <1>1 DEF Past, Copying
<1> QED
  BY <1>1, <1>2, <1>3, KillsGrow, CaptureFrame

LEMMA TakeInv ==
  ASSUME LearnInv, NEW w \in Capturers, NEW d \in Detections, Take(w, d) PROVE LearnInv'
<1>1. PICK c : c = [at |-> "log", of |-> d]
  OBVIOUS
<1>2. c \in Capturer /\ c.at = "log"
  BY <1>1 DEF Capturer
<1>3. /\ UNCHANGED <<importVars, frames, split, version, datasets, tagging>>
      /\ UNCHANGED <<logged, kills>>
      /\ captures' = [captures EXCEPT ![d] = "taken"]
      /\ capturer' = [capturer EXCEPT ![w] = c]
  BY <1>1 DEF Take
<1>4. /\ captures' \in [Detections -> {"none", "queued", "taken", "over"}] /\ logged' \subseteq Detections
  BY <1>3 DEF LearnInv, LearnTypes
<1>5. /\ capturer' \in [Capturers -> Capturer]
      /\ \A e \in Detections : Past(e)' = Past(e) \ {w}
      /\ Copying' = Copying \ {w}
  BY <1>2, <1>3, WorkerChange
<1> QED
  BY <1>3, <1>4, <1>5, KillsGrow, CaptureFrame

LEMMA TryLogInv == ASSUME LearnInv, NEW w \in Capturers, TryLog(w) PROVE LearnInv'
<1>1. PICK d \in Detections : d = capturer[w].of
  BY WorkerOf
<1>2. /\ UNCHANGED <<importVars, frames, split, version, datasets, tagging>> /\ UNCHANGED kills
      /\ logged' = logged \cup {d} /\ capturer[w].at = "log"
      /\ IF d \in logged THEN Ack(w) ELSE Goes(w, "limit")
  BY <1>1 DEF TryLog
<1>3. logged \subseteq logged' /\ logged' \subseteq Detections
  BY <1>2 DEF LearnInv, LearnTypes
<1>4. CASE d \in logged
  <2>1. /\ capturer' = [capturer EXCEPT ![w] = Resting]
        /\ captures' = [captures EXCEPT ![capturer[w].of] = "over"]
    BY <1>2, <1>4 DEF Ack
  <2>2. /\ capturer' \in [Capturers -> Capturer]
        /\ captures' \in [Detections -> {"none", "queued", "taken", "over"}]
        /\ \A e \in Detections : Past(e)' = Past(e) \ {w}
        /\ Copying' = Copying \ {w}
    BY <2>1, AckEffect
  <2> QED
    BY <1>2, <1>3, <2>2, KillsGrow, CaptureFrame
<1>5. CASE d \notin logged
  <2>1. capturer' = [capturer EXCEPT ![w].at = "limit"] /\ UNCHANGED captures
    BY <1>2, <1>5 DEF Goes
  <2>2. /\ capturer' \in [Capturers -> Capturer]
        /\ capturer'[w].at = "limit" /\ capturer'[w].of = d
        /\ \A x \in Capturers : x # w => capturer'[x] = capturer[x]
    BY <1>1, <2>1, GoesEffect
  <2>3. captures' \in [Detections -> {"none", "queued", "taken", "over"}]
    BY <2>1 DEF LearnInv, LearnTypes
  <2>4. LearnTypes' /\ ImportsRight' /\ LoneImportRight'
    BY <1>2, <1>3, <2>2, <2>3, KillsGrow, CaptureFrame
  <2>5. Past(d) = {} /\ frames[d] <= 1 /\ ~(frames[d] > 0)
    BY <1>5 DEF LearnInv, CapturesRight
  <2>6. frames[d] = 0
    BY <2>5 DEF LearnInv, LearnTypes, Sources
  <2>7. Past(d)' = {w} /\ \A e \in Detections : e # d => Past(e)' = Past(e)
    <3>1. \A e \in Detections : w \notin Past(e)
      BY <1>2 DEF Past
    <3> QED
      BY <2>2, <2>5, <3>1 DEF Past
  <2>8. ASSUME NEW e \in Detections
        PROVE  /\ frames'[e] <= 1
               /\ frames'[e] > 0 \/ Past(e)' # {} => e \in logged'
               /\ Past(e)' # {} => frames'[e] = 0
               /\ \A x, y \in Past(e)' : x = y
    <3>1. CASE e = d
      BY <1>2, <2>5, <2>6, <2>7, <3>1
    <3>2. CASE e # d
      BY <1>2, <2>7, <3>2 DEF LearnInv, CapturesRight
    <3> QED
      BY <3>1, <3>2
  <2>9. CapturesRight'
    BY <2>8 DEF CapturesRight
  <2>10. Copying' = Copying
    BY <1>2, <2>2 DEF Copying
  <2>11. LimitRight'
    BY <1>2, <2>10 DEF LearnInv, LimitRight, FramesOf, DocsOf
  <2> QED
    BY <2>4, <2>9, <2>11 DEF LearnInv
<1> QED
  BY <1>4, <1>5

LEMMA DropInv == ASSUME LearnInv, NEW w \in Capturers, Drop(w) PROVE LearnInv'
<1>1. /\ UNCHANGED <<importVars, frames, split, version, datasets, tagging>>
      /\ UNCHANGED <<logged, kills>>
      /\ capturer' = [capturer EXCEPT ![w] = Resting]
      /\ captures' = [captures EXCEPT ![capturer[w].of] = "over"]
  BY DEF Drop, Ack
<1>2. /\ capturer' \in [Capturers -> Capturer]
      /\ captures' \in [Detections -> {"none", "queued", "taken", "over"}]
      /\ \A e \in Detections : Past(e)' = Past(e) \ {w}
      /\ Copying' = Copying \ {w}
  BY <1>1, AckEffect
<1>3. logged' \subseteq Detections
  BY <1>1 DEF LearnInv, LearnTypes
<1> QED
  BY <1>1, <1>2, <1>3, KillsGrow, CaptureFrame

LEMMA CheckLimitInv == ASSUME LearnInv, NEW w \in Capturers, CheckLimit(w) PROVE LearnInv'
<1>1. /\ UNCHANGED <<importVars, frames, split, version, datasets, tagging>>
      /\ UNCHANGED <<logged, kills>> /\ capturer[w].at = "limit"
  BY DEF CheckLimit
<1>2. logged' \subseteq Detections
  BY <1>1 DEF LearnInv, LearnTypes
<1>3. CASE Ack(w)
  <2>1. /\ capturer' = [capturer EXCEPT ![w] = Resting]
        /\ captures' = [captures EXCEPT ![capturer[w].of] = "over"]
    BY <1>3 DEF Ack
  <2>2. /\ capturer' \in [Capturers -> Capturer]
        /\ captures' \in [Detections -> {"none", "queued", "taken", "over"}]
        /\ \A e \in Detections : Past(e)' = Past(e) \ {w}
        /\ Copying' = Copying \ {w}
    BY <2>1, AckEffect
  <2> QED
    BY <1>1, <1>2, <2>2, KillsGrow, CaptureFrame
<1>4. CASE FrameCount < DailyLimit /\ Goes(w, "copy")
  <2>1. capturer' = [capturer EXCEPT ![w].at = "copy"] /\ UNCHANGED captures
    BY <1>4 DEF Goes
  <2>2. /\ capturer' \in [Capturers -> Capturer]
        /\ capturer'[w].at = "copy" /\ capturer'[w].of = capturer[w].of
        /\ \A x \in Capturers : x # w => capturer'[x] = capturer[x]
    BY <2>1, GoesEffect
  <2>3. captures' \in [Detections -> {"none", "queued", "taken", "over"}]
    BY <2>1 DEF LearnInv, LearnTypes
  <2>4. LearnTypes' /\ ImportsRight' /\ LoneImportRight'
    BY <1>1, <1>2, <2>2, <2>3, KillsGrow, CaptureFrame
  <2>5. \A e \in Detections : Past(e)' = Past(e)
    BY <1>1, <2>2 DEF Past
  <2>6. CapturesRight'
    BY <1>1, <2>5 DEF LearnInv, CapturesRight
  <2>7. FramesOf(Detections)' = FramesOf(Detections)
    BY <1>1 DEF FramesOf, DocsOf
  <2>8. FramesOf(Detections) \in Nat /\ FramesOf(Sources) \in Nat /\ FramesOf(Detections) <= FramesOf(Sources)
    BY LearnFinite DEF Sources
  <2>9. FramesOf(Sources) < DailyLimit
    BY <1>4 DEF FrameCount
  <2>10. Copying' \subseteq Capturers
    BY DEF Copying
  <2>11. Cardinality(Copying') \in Nat /\ Cardinality(Copying') <= Cardinality(Capturers)
    BY <2>10, WorkersCounted
  <2>12. DailyLimit \in Nat /\ Cardinality(Capturers) \in Nat
    BY WorkersCounted
  <2>13. FramesOf(Detections) + Cardinality(Copying') <= DailyLimit + Cardinality(Capturers) - 1
    BY <2>8, <2>9, <2>11, <2>12
  <2>14. LimitRight'
    BY <2>7, <2>13 DEF LimitRight
  <2> QED
    BY <2>4, <2>6, <2>14 DEF LearnInv
<1> QED
  BY <1>3, <1>4 DEF CheckLimit

\* The frame of a capture is stored, and its task is over or comes again.
LEMMA StoreInv ==
  ASSUME LearnInv, NEW w \in Capturers, capturer[w].at = "copy",
         frames' = [frames EXCEPT ![capturer[w].of] = @ + 1],
         capturer' = [capturer EXCEPT ![w] = Resting],
         NEW s \in {"queued", "over"}, captures' = [captures EXCEPT ![capturer[w].of] = s],
         UNCHANGED <<logged, importVars, split, version, datasets, tagging>>,
         kills' \in 0 .. MaxKills, kills' >= kills
  PROVE  LearnInv'
<1>1. PICK d \in Detections : d = capturer[w].of
  BY WorkerOf
<1>2. frames' = [frames EXCEPT ![d] = @ + 1]
  BY <1>1
<1>3. w \in Past(d) /\ w \in Copying
  BY <1>1 DEF Past, Copying
<1>4. frames[d] = 0 /\ d \in logged
  BY <1>3 DEF LearnInv, CapturesRight
<1>5. d \in Sources /\ frames \in [Sources -> Nat]
  BY DEF Sources, LearnInv, LearnTypes
<1>6. /\ frames' \in [Sources -> Nat] /\ frames'[d] = 1
      /\ \A e \in Sources : e # d => frames'[e] = frames[e]
  BY <1>2, <1>4, <1>5
<1>7. /\ capturer' \in [Capturers -> Capturer]
      /\ captures' \in [Detections -> {"none", "queued", "taken", "over"}]
      /\ \A e \in Detections : Past(e)' = Past(e) \ {w}
      /\ Copying' = Copying \ {w}
  BY AckEffect
<1>8. LearnTypes'
  <2>1. Held \subseteq Held'
    BY <1>4, <1>5, <1>6 DEF Held
  <2>2. split' \subseteq Held'
    BY <2>1 DEF LearnInv, LearnTypes
  <2> QED
    BY <1>6, <1>7, <2>2 DEF LearnInv, LearnTypes, importVars
<1>9. Past(d)' = {}
  <2>1. \A x \in Past(d) : x = w
    BY <1>3 DEF LearnInv, CapturesRight
  <2> QED
    BY <1>7, <2>1
<1>10. CapturesRight'
  <2>1. ASSUME NEW e \in Detections
        PROVE  /\ frames'[e] <= 1
               /\ frames'[e] > 0 \/ Past(e)' # {} => e \in logged'
               /\ Past(e)' # {} => frames'[e] = 0
               /\ \A x, y \in Past(e)' : x = y
    <3>1. CASE e = d
      BY <1>4, <1>6, <1>9, <3>1
    <3>2. CASE e # d
      <4>1. frames'[e] = frames[e] /\ Past(e)' \subseteq Past(e)
        BY <1>6, <1>7, <3>2 DEF Sources
      <4> QED
        BY <4>1 DEF LearnInv, CapturesRight
    <3> QED
      BY <3>1, <3>2
  <2> QED
    BY <2>1 DEF CapturesRight
<1>11. LimitRight'
  <2>1. FramesOf(Detections)' = FramesOf(Detections) + 1 /\ FramesOf(Detections) \in Nat
    BY <1>2, OneMoreDoc, LearnFinite DEF Sources
  <2>2. Copying \subseteq Capturers
    BY DEF Copying
  <2>3. IsFiniteSet(Copying) /\ Cardinality(Copying) \in Nat
    BY <2>2, WorkersCounted
  <2>4. Cardinality(Copying \ {w}) = Cardinality(Copying) - 1
    BY <1>3, <2>3, FS_RemoveElement
  <2>5. DailyLimit \in Nat /\ Cardinality(Capturers) \in Nat
    BY WorkersCounted
  <2>6. FramesOf(Detections) + Cardinality(Copying) <= DailyLimit + Cardinality(Capturers) - 1
    BY DEF LearnInv, LimitRight
  <2>7. FramesOf(Detections)' + (Cardinality(Copying) - 1) <= DailyLimit + Cardinality(Capturers) - 1
    BY <2>1, <2>3, <2>5, <2>6
  <2>8. Cardinality(Copying)' = Cardinality(Copying) - 1
    BY <1>7, <2>4
  <2> QED
    BY <2>7, <2>8 DEF LimitRight
<1>12. ImportsRight' /\ LoneImportRight'
  <2>1. \A f \in Images \cup Uploaded : frames'[f] = frames[f] /\ frames[f] \in Nat
    BY <1>5, <1>6, SourcesApart
  <2>2. \A f \in Images : frames'[f] <= frames[f]
    BY <2>1
  <2>3. \A f \in Uploaded : frames'[f] <= 1
    BY <2>1 DEF LearnInv, ImportsRight
  <2>4. kills' \in Nat
    BY WorkersCounted
  <2> QED
    BY <1>6, <2>2, <2>3, <2>4, ImportsKept
<1> QED
  BY <1>8, <1>10, <1>11, <1>12 DEF LearnInv

LEMMA StoreSteps ==
  ASSUME LearnInv, NEW w \in Capturers, InsertFrame(w) \/ CapturerDiesLate(w) PROVE LearnInv'
<1>1. CASE InsertFrame(w)
  <2>1. /\ capturer[w].at = "copy" /\ frames' = [frames EXCEPT ![capturer[w].of] = @ + 1]
        /\ capturer' = [capturer EXCEPT ![w] = Resting]
        /\ captures' = [captures EXCEPT ![capturer[w].of] = "over"]
        /\ UNCHANGED <<logged, importVars, split, version, datasets, tagging>> /\ kills' = kills
    BY <1>1 DEF InsertFrame, Ack
  <2> QED
    BY <2>1, KillsGrow, StoreInv
<1>2. CASE CapturerDiesLate(w)
  <2>1. /\ capturer[w].at = "copy" /\ frames' = [frames EXCEPT ![capturer[w].of] = @ + 1]
        /\ capturer' = [capturer EXCEPT ![w] = Resting]
        /\ captures' = [captures EXCEPT ![capturer[w].of] = "queued"]
        /\ UNCHANGED <<logged, importVars, split, version, datasets, tagging>>
        /\ kills < MaxKills /\ kills' = kills + 1
    BY <1>2 DEF CapturerDiesLate
  <2> QED
    BY <2>1, KillsGrow, StoreInv
<1> QED
  BY <1>1, <1>2

LEMMA CapturerDiesInv == ASSUME LearnInv, NEW w \in Capturers, CapturerDies(w) PROVE LearnInv'
<1>1. /\ UNCHANGED <<importVars, frames, split, version, datasets, tagging>> /\ UNCHANGED logged
      /\ kills < MaxKills /\ kills' = kills + 1
      /\ capturer' = [capturer EXCEPT ![w] = Resting]
      /\ captures' = [captures EXCEPT ![capturer[w].of] = "queued"]
  BY DEF CapturerDies
<1>2. /\ capturer' \in [Capturers -> Capturer]
      /\ captures' \in [Detections -> {"none", "queued", "taken", "over"}]
      /\ \A e \in Detections : Past(e)' = Past(e) \ {w}
      /\ Copying' = Copying \ {w}
  BY <1>1, AckEffect
<1>3. logged' \subseteq Detections
  BY <1>1 DEF LearnInv, LearnTypes
<1> QED
  BY <1>1, <1>2, <1>3, KillsGrow, CaptureFrame

\* The steps of uploads, splits and versions
LEMMA SetInv ==
  ASSUME LearnInv, UNCHANGED <<logged, importVars, capturer, kills>>, LearnTypes',
         \A d \in Sources \ Uploaded : frames'[d] <= frames[d],
         \A f \in Uploaded : frames'[f] <= 1
  PROVE  LearnInv'
<1>1. frames' \in [Sources -> Nat]
  BY DEF LearnTypes
<1>2. /\ \A d \in Detections : frames'[d] <= frames[d]
      /\ \A f \in Images : frames'[f] <= frames[f]
  BY SourcesApart
<1>3. /\ \A d \in Detections : Past(d)' \subseteq Past(d)
      /\ Copying' \subseteq Copying
  BY DEF Past, Copying
<1>4. CapturesRight' /\ LimitRight'
  BY <1>1, <1>2, <1>3, CaptureQuiet
<1>5. kills' \in Nat /\ kills' >= kills
  BY KillsGrow
<1>6. ImportsRight' /\ LoneImportRight'
  BY <1>1, <1>2, <1>5, ImportsKept
<1> QED
  BY <1>4, <1>6 DEF LearnInv

LEMMA SameFrames ==
  ASSUME LearnInv, UNCHANGED frames
  PROVE  /\ \A d \in Sources \ Uploaded : frames'[d] <= frames[d]
         /\ \A f \in Uploaded : frames'[f] <= 1
         /\ Held' = Held
<1>1. ASSUME NEW d \in Sources PROVE frames'[d] <= frames[d]
  BY DEF LearnInv, LearnTypes
<1> QED
  BY <1>1 DEF LearnInv, ImportsRight, Held

LEMMA UploadInv == ASSUME LearnInv, NEW f \in Uploaded, UploadFrame(f) PROVE LearnInv'
<1>1. /\ frames' = [frames EXCEPT ![f] = 1] /\ split' \in {split, split \cup {f}}
      /\ UNCHANGED <<captures, logged, capturer, importVars, version, datasets, tagging, kills>>
  BY DEF UploadFrame, captureVars
<1>2. f \in Sources /\ frames \in [Sources -> Nat]
  BY SourcesApart DEF LearnInv, LearnTypes
<1>3. /\ frames' \in [Sources -> Nat] /\ frames'[f] = 1
      /\ \A d \in Sources : d # f => frames'[d] = frames[d] /\ frames[d] \in Nat
  BY <1>1, <1>2
<1>4. Held \cup {f} \subseteq Held'
  BY <1>2, <1>3 DEF Held
<1>5. LearnTypes'
  <2>1. split' \subseteq Held'
    BY <1>1, <1>4 DEF LearnInv, LearnTypes
  <2> QED
    BY <1>1, <1>3, <2>1 DEF LearnInv, LearnTypes, importVars
<1>6. \A d \in Sources \ Uploaded : frames'[d] <= frames[d]
  BY <1>3
<1>7. \A g \in Uploaded : frames'[g] <= 1
  BY <1>3, SourcesApart DEF LearnInv, ImportsRight
<1> QED
  BY <1>1, <1>5, <1>6, <1>7, SetInv

LEMMA DeleteInv == ASSUME LearnInv, NEW d \in Sources, DeleteFrame(d) PROVE LearnInv'
<1>1. /\ frames' = [frames EXCEPT ![d] = 0] /\ split' = split \ {d}
      /\ version' = [version EXCEPT ![d] = 0]
      /\ UNCHANGED <<captures, logged, importVars, capturer, datasets, tagging, kills>>
  BY DEF DeleteFrame
<1>2. frames \in [Sources -> Nat]
  BY DEF LearnInv, LearnTypes
<1>3. /\ frames' \in [Sources -> Nat]
      /\ \A e \in Sources : frames'[e] = (IF e = d THEN 0 ELSE frames[e]) /\ frames[e] \in Nat
  BY <1>1, <1>2
<1>4. split' \subseteq Held'
  <2>1. split \subseteq Held
    BY DEF LearnInv, LearnTypes
  <2> QED
    BY <1>1, <1>3, <2>1 DEF Held
<1>5. version' \in [Sources -> 0 .. MaxVersions]
  <2>1. 0 \in 0 .. MaxVersions
    BY WorkersCounted
  <2> QED
    BY <1>1, <2>1 DEF LearnInv, LearnTypes
<1>6. LearnTypes'
  BY <1>1, <1>3, <1>4, <1>5 DEF LearnInv, LearnTypes, importVars
<1>7. \A e \in Sources : frames'[e] <= frames[e]
  BY <1>3
<1>8. \A g \in Uploaded : frames'[g] <= 1
  <2>1. \A g \in Uploaded : g \in Sources /\ frames[g] <= 1
    BY SourcesApart DEF LearnInv, ImportsRight
  <2> QED
    BY <1>3, <2>1
<1> QED
  BY <1>1, <1>6, <1>7, <1>8, SetInv

LEMMA SplitSteps ==
  ASSUME LearnInv, AutoSplit \/ \E d \in Sources : SetSplit(d) PROVE LearnInv'
<1>1. /\ UNCHANGED <<captures, logged, importVars, frames, version, capturer, datasets, tagging, kills>>
      /\ split' \subseteq Held
  <2>1. CASE AutoSplit
    BY <2>1 DEF AutoSplit
  <2>2. CASE \E d \in Sources : SetSplit(d)
    BY <2>2 DEF SetSplit, LearnInv, LearnTypes
  <2> QED
    BY <2>1, <2>2
<1>2. LearnTypes'
  BY <1>1, SameFrames DEF LearnInv, LearnTypes, importVars
<1> QED
  BY <1>1, <1>2, SameFrames, SetInv

LEMMA VersionSteps == ASSUME LearnInv, RecordVersion \/ TagFrames PROVE LearnInv'
<1>1. /\ datasets \in Seq(Nat) /\ Len(datasets) <= MaxVersions /\ Len(datasets) \in Nat
      /\ MaxVersions \in Nat
  BY WorkersCounted DEF LearnInv, LearnTypes
<1>2. CASE RecordVersion
  <2>1. PICK n : n = FramesOf(split)
    OBVIOUS
  <2>2. split \subseteq Sources
    BY DEF LearnInv, LearnTypes, Held
  <2>3. n \in Nat
    BY <2>1, <2>2, LearnFinite
  <2>4. /\ Len(datasets) < MaxVersions /\ datasets' = Append(datasets, n)
        /\ UNCHANGED <<captures, logged, importVars, frames, split, version, capturer, kills>>
        /\ tagging' = TRUE
    BY <1>2, <2>1 DEF RecordVersion
  <2>5. datasets' \in Seq(Nat) /\ Len(datasets') <= MaxVersions
    BY <1>1, <2>3, <2>4
  <2>6. LearnTypes'
    BY <2>4, <2>5, SameFrames DEF LearnInv, LearnTypes, importVars
  <2> QED
    BY <2>4, <2>6, SameFrames, SetInv
<1>3. CASE TagFrames
  <2>1. /\ UNCHANGED <<captures, logged, importVars, frames, split, capturer, datasets, kills>>
        /\ tagging' = FALSE
        /\ version' = [d \in Sources |->
             IF d \in split /\ version[d] = 0 THEN Len(datasets) ELSE version[d]]
    BY <1>3 DEF TagFrames
  <2>2. Len(datasets) \in 0 .. MaxVersions
    BY <1>1
  <2>3. version' \in [Sources -> 0 .. MaxVersions]
    BY <2>1, <2>2 DEF LearnInv, LearnTypes
  <2>4. LearnTypes'
    BY <2>1, <2>3, SameFrames DEF LearnInv, LearnTypes, importVars
  <2> QED
    BY <2>1, <2>4, SameFrames, SetInv
<1> QED
  BY <1>2, <1>3

\* The steps of an import leave captures and uploads alone.
LEMMA ImportFrame ==
  ASSUME LearnInv, UNCHANGED <<captureVars, version, datasets, tagging>>,
         imports' \in [Imports -> Import], imported' \in BOOLEAN, crossed' \in BOOLEAN,
         frames' \in [Sources -> Nat], split' \subseteq Held',
         \A d \in Detections \cup Uploaded : frames'[d] = frames[d],
         kills' \in 0 .. MaxKills
  PROVE  LearnTypes' /\ CapturesRight' /\ LimitRight' /\ \A f \in Uploaded : frames'[f] <= 1
<1>1. UNCHANGED <<captures, logged, capturer>>
  BY DEF captureVars
<1>2. LearnTypes'
  BY <1>1 DEF LearnInv, LearnTypes
<1>3. \A d \in Detections : frames'[d] <= frames[d]
  <2>1. \A d \in Detections : frames'[d] = frames[d] /\ frames[d] \in Nat
    BY SourcesApart DEF LearnInv, LearnTypes
  <2> QED
    BY <2>1
<1>4. (\A d \in Detections : Past(d)' \subseteq Past(d)) /\ Copying' \subseteq Copying
  BY <1>1 DEF Past, Copying
<1>5. CapturesRight' /\ LimitRight'
  BY <1>1, <1>3, <1>4, CaptureQuiet
<1> QED
  BY <1>2, <1>5 DEF LearnInv, ImportsRight

\* The chances of an image, when one import changes
LEMMA ChanceChange ==
  ASSUME LearnInv, NEW i \in Imports, NEW m \in Import, imports' = [imports EXCEPT ![i] = m],
         NEW f \in Images
  PROVE  /\ imports' \in [Imports -> Import] /\ imports'[i] = m
         /\ \A j \in Imports : j # i => imports'[j] = imports[j]
         /\ Cardinality(Chances(f)) \in Nat /\ Cardinality(Chances(f)') \in Nat
         /\ Cardinality(Chances(f)') <= Cardinality(Chances(f)) + 1
         /\ (i \in Chances(f)' => i \in Chances(f)) =>
              Cardinality(Chances(f)') <= Cardinality(Chances(f))
         /\ i \in Chances(f) /\ i \notin Chances(f)' =>
              Cardinality(Chances(f)') + 1 = Cardinality(Chances(f))
<1>1. /\ imports' \in [Imports -> Import] /\ imports'[i] = m
      /\ \A j \in Imports : j # i => imports'[j] = imports[j]
  BY DEF LearnInv, LearnTypes
<1>2. PICK A, B : A = Chances(f) /\ B = Chances(f)'
  OBVIOUS
<1>3. A \subseteq Imports /\ B \subseteq Imports
  BY <1>2 DEF Chances
<1>4. IsFiniteSet(A) /\ IsFiniteSet(B) /\ Cardinality(A) \in Nat /\ Cardinality(B) \in Nat
  BY <1>3, WorkersCounted
<1>5. \A j \in Imports : j # i => (j \in A <=> j \in B)
  BY <1>1, <1>2 DEF Chances
<1>6. B \subseteq A \cup {i}
  BY <1>3, <1>5
<1>7. IsFiniteSet(A \cup {i}) /\ Cardinality(A \cup {i}) \in Nat /\ Cardinality(A \cup {i}) <= Cardinality(A) + 1
  <2>1. CASE i \in A
    <3>1. A \cup {i} = A
      BY <2>1
    <3>2. IsFiniteSet(A) /\ Cardinality(A) \in Nat /\ Cardinality(A) <= Cardinality(A) + 1
      BY <1>4
    <3> QED
      BY <3>1, <3>2
  <2>2. CASE i \notin A
    <3>1. IsFiniteSet(A \cup {i}) /\ Cardinality(A \cup {i}) = Cardinality(A) + 1
      BY <1>4, <2>2, FS_AddElement
    <3>2. Cardinality(A) \in Nat
      BY <1>4
    <3> QED
      BY <3>1, <3>2
  <2> QED
    BY <2>1, <2>2
<1>8. Cardinality(B) <= Cardinality(A \cup {i})
  BY <1>6, <1>7, FS_Subset
<1>9. Cardinality(B) <= Cardinality(A) + 1
  BY <1>4, <1>7, <1>8
<1>10. ASSUME i \in B => i \in A PROVE Cardinality(B) <= Cardinality(A)
  <2>1. B \subseteq A
    BY <1>3, <1>5, <1>10
  <2> QED
    BY <1>4, <2>1, FS_Subset
<1>11. ASSUME i \in A, i \notin B PROVE Cardinality(B) + 1 = Cardinality(A)
  <2>1. B = A \ {i}
    BY <1>3, <1>5, <1>11
  <2>2. Cardinality(A \ {i}) = Cardinality(A) - 1
    BY <1>4, <1>11, FS_RemoveElement
  <2> QED
    BY <1>4, <2>1, <2>2
<1> QED
  BY <1>1, <1>2, <1>4, <1>9, <1>10, <1>11

LEMMA ImportOf ==
  ASSUME LearnInv, NEW i \in Imports
  PROVE  /\ imports \in [Imports -> Import] /\ imports[i] \in Import
         /\ imports[i].todo \subseteq Images
BY DEF LearnInv, LearnTypes, Import

\* A step of an import that stores no image
LEMMA ImportQuiet ==
  ASSUME LearnInv, UNCHANGED <<captureVars, version, datasets, tagging, frames, split>>,
         NEW i \in Imports, NEW m \in Import, imports' = [imports EXCEPT ![i] = m],
         imported' \in BOOLEAN, crossed' \in BOOLEAN,
         \/ kills' = kills /\ \A f \in Images : i \in Chances(f)' => i \in Chances(f)
         \/ kills < MaxKills /\ kills' = kills + 1
  PROVE  LearnTypes' /\ CapturesRight' /\ LimitRight' /\ ImportsRight'
<1>1. imports' \in [Imports -> Import]
  BY DEF LearnInv, LearnTypes
<1>2. frames' \in [Sources -> Nat] /\ split' \subseteq Held'
  BY SameFrames DEF LearnInv, LearnTypes
<1>3. kills' \in 0 .. MaxKills /\ kills \in Nat /\ kills' \in Nat
  BY KillsGrow, WorkersCounted
<1>4. LearnTypes' /\ CapturesRight' /\ LimitRight' /\ \A f \in Uploaded : frames'[f] <= 1
  BY <1>1, <1>2, <1>3, ImportFrame
<1>5. ASSUME NEW f \in Images
      PROVE  frames'[f] + Cardinality(Chances(f)') <= Cardinality(Imports) + kills'
  <2>1. /\ Cardinality(Chances(f)) \in Nat /\ Cardinality(Chances(f)') \in Nat
        /\ Cardinality(Chances(f)') <= Cardinality(Chances(f)) + 1
        /\ (i \in Chances(f)' => i \in Chances(f)) =>
              Cardinality(Chances(f)') <= Cardinality(Chances(f))
    BY ChanceChange
  <2>2. frames[f] \in Nat /\ frames'[f] = frames[f]
    BY SourcesApart DEF LearnInv, LearnTypes
  <2>3. Cardinality(Imports) \in Nat
    BY WorkersCounted
  <2>4. frames[f] + Cardinality(Chances(f)) <= Cardinality(Imports) + kills
    BY DEF LearnInv, ImportsRight
  <2>5. CASE kills' = kills /\ (i \in Chances(f)' => i \in Chances(f))
    BY <1>3, <2>1, <2>2, <2>3, <2>4, <2>5
  <2>6. CASE kills' = kills + 1
    BY <1>3, <2>1, <2>2, <2>3, <2>4, <2>6
  <2> QED
    BY <2>5, <2>6
<1>6. ASSUME NEW f \in Images
      PROVE  frames'[f] + Cardinality(Chances(f))' <= Cardinality(Imports) + kills'
  BY <1>5
<1> QED
  BY <1>4, <1>6 DEF ImportsRight

LEMMA QueueImportInv == ASSUME LearnInv, NEW i \in Imports, QueueImport(i) PROVE LearnInv'
<1>1. PICK u \in Import : u = imports[i]
  BY ImportOf
<1>2. PICK m : m = [u EXCEPT !.at = "queued"]
  OBVIOUS
<1>3. m \in Import /\ m.at = "queued" /\ m.todo = u.todo
  BY <1>2 DEF Import
<1>4. /\ UNCHANGED <<captureVars, version, datasets, tagging, frames, split>>
      /\ UNCHANGED <<imported, crossed, kills>>
      /\ u.at = "none" /\ imports' = [imports EXCEPT ![i] = m]
  BY <1>1, <1>2, ImportOf DEF QueueImport
<1>5. \A f \in Images : i \in Chances(f)
  BY <1>1, <1>4 DEF Chances
<1>6. imported' \in BOOLEAN /\ crossed' \in BOOLEAN
  BY <1>4 DEF LearnInv, LearnTypes
<1>7. LearnTypes' /\ CapturesRight' /\ LimitRight' /\ ImportsRight'
  BY <1>3, <1>4, <1>5, <1>6, ImportQuiet
<1>8. imports'[i] = m /\ \A j \in Imports : j # i => imports'[j] = imports[j]
  BY <1>4, ImportOf
<1>9. Importing' = Importing /\ i \notin Importing
  BY <1>1, <1>3, <1>4, <1>8 DEF Importing
<1>10. \A j \in Importing : imports'[j] = imports[j]
  BY <1>8, <1>9 DEF Importing
<1>11. LoneImportRight'
  BY <1>4, <1>9, <1>10 DEF LearnInv, LoneImportRight
<1> QED
  BY <1>7, <1>11 DEF LearnInv

LEMMA BeginImportInv == ASSUME LearnInv, NEW i \in Imports, BeginImport(i) PROVE LearnInv'
<1>1. PICK m : m = IF imported THEN [NoImport EXCEPT !.at = "over"]
                   ELSE [at |-> "images", todo |-> Images]
  OBVIOUS
<1>2. m \in Import /\ m.at = (IF imported THEN "over" ELSE "images")
  BY <1>1 DEF Import, NoImport
<1>3. /\ UNCHANGED <<captureVars, version, datasets, tagging, frames, split>>
      /\ UNCHANGED <<imported, kills>>
      /\ imports[i].at = "queued" /\ imports' = [imports EXCEPT ![i] = m]
      /\ crossed' = (crossed \/ (~imported /\ \E j \in Imports : imports[j].at = "images"))
  BY <1>1 DEF BeginImport
<1>4. \A f \in Images : i \in Chances(f)
  BY <1>3 DEF Chances
<1>5. imported' \in BOOLEAN /\ crossed' \in BOOLEAN
  BY <1>3 DEF LearnInv, LearnTypes
<1>6. LearnTypes' /\ CapturesRight' /\ LimitRight' /\ ImportsRight'
  BY <1>2, <1>3, <1>4, <1>5, ImportQuiet
<1>7. imports'[i] = m /\ \A j \in Imports : j # i => imports'[j] = imports[j]
  BY <1>3, ImportOf
<1>8. i \notin Importing
  BY <1>3 DEF Importing
<1>9. \A j \in Importing : imports'[j] = imports[j]
  BY <1>7, <1>8 DEF Importing
<1>10. LoneImportRight'
  <2>1. CASE imported
    <3>1. Importing' = Importing
      BY <1>2, <1>7, <1>8, <2>1 DEF Importing
    <3> QED
      BY <1>3, <1>9, <2>1, <3>1 DEF LearnInv, LoneImportRight
  <2>2. CASE ~imported /\ Importing # {}
    <3>1. crossed'
      BY <1>3, <2>2 DEF Importing
    <3> QED
      BY <3>1 DEF LoneImportRight
  <2>3. CASE ~imported /\ Importing = {}
    <3>1. Importing' = {i}
      BY <1>2, <1>7, <2>3 DEF Importing
    <3>2. ~crossed' => \A f \in Images : frames[f] = 0
      <4>1. ~crossed' => ~crossed
        BY <1>3
      <4> QED
        BY <2>3, <4>1 DEF LearnInv, LoneImportRight
    <3> QED
      BY <1>2, <1>3, <1>7, <2>3, <3>1 DEF LearnInv, LoneImportRight, Import
  <2> QED
    BY <2>1, <2>2, <2>3
<1> QED
  BY <1>6, <1>10 DEF LearnInv

LEMMA NoExportInv == ASSUME LearnInv, NEW i \in Imports, NoExport(i) PROVE LearnInv'
<1>1. PICK u \in Import : u = imports[i]
  BY ImportOf
<1>2. PICK m : m = [u EXCEPT !.todo = {}]
  OBVIOUS
<1>3. m \in Import /\ m.at = u.at /\ m.todo = {}
  BY <1>2 DEF Import
<1>4. /\ UNCHANGED <<captureVars, version, datasets, tagging, frames, split>>
      /\ UNCHANGED <<imported, crossed, kills>>
      /\ u = [at |-> "images", todo |-> Images] /\ imports' = [imports EXCEPT ![i] = m]
  BY <1>1, <1>2, ImportOf DEF NoExport
<1>5. \A f \in Images : i \in Chances(f)
  <2>1. imports[i].at = "images" /\ imports[i].todo = Images
    BY <1>1, <1>4
  <2> QED
    BY <2>1 DEF Chances
<1>6. imported' \in BOOLEAN /\ crossed' \in BOOLEAN
  BY <1>4 DEF LearnInv, LearnTypes
<1>7. LearnTypes' /\ CapturesRight' /\ LimitRight' /\ ImportsRight'
  BY <1>3, <1>4, <1>5, <1>6, ImportQuiet
<1>8. imports'[i] = m /\ \A j \in Imports : j # i => imports'[j] = imports[j]
  BY <1>4, ImportOf
<1>9. Importing' = Importing
  BY <1>1, <1>3, <1>8 DEF Importing
<1>10. \A j \in Importing : imports'[j].todo \subseteq imports[j].todo
  BY <1>3, <1>8 DEF Importing
<1>11. LoneImportRight'
  BY <1>4, <1>9, <1>10 DEF LearnInv, LoneImportRight
<1> QED
  BY <1>7, <1>11 DEF LearnInv

LEMMA EndImportInv == ASSUME LearnInv, NEW i \in Imports, EndImport(i) PROVE LearnInv'
<1>1. PICK u \in Import : u = imports[i]
  BY ImportOf
<1>2. PICK m : m = [u EXCEPT !.at = "over"]
  OBVIOUS
<1>3. m \in Import /\ m.at = "over"
  BY <1>2 DEF Import
<1>4. /\ UNCHANGED <<captureVars, version, datasets, tagging, frames, split>>
      /\ UNCHANGED <<crossed, kills>> /\ imported' = TRUE
      /\ u = [at |-> "images", todo |-> {}] /\ imports' = [imports EXCEPT ![i] = m]
  BY <1>1, <1>2, ImportOf DEF EndImport
<1>5. imports'[i] = m /\ \A j \in Imports : j # i => imports'[j] = imports[j]
  BY <1>4, ImportOf
<1>6. \A f \in Images : i \notin Chances(f)'
  BY <1>3, <1>5 DEF Chances
<1>7. crossed' \in BOOLEAN
  BY <1>4 DEF LearnInv, LearnTypes
<1>8. LearnTypes' /\ CapturesRight' /\ LimitRight' /\ ImportsRight'
  BY <1>3, <1>4, <1>6, <1>7, ImportQuiet
<1>9. Importing' = Importing \ {i} /\ i \in Importing
  <2>1. imports[i].at = "images"
    BY <1>1, <1>4
  <2> QED
    BY <1>3, <1>5, <2>1 DEF Importing
<1>10. ASSUME ~crossed PROVE Importing' = {} /\ \A f \in Images : frames[f] <= 1
  BY <1>9, <1>10 DEF LearnInv, LoneImportRight
<1>11. LoneImportRight'
  BY <1>4, <1>10 DEF LoneImportRight
<1> QED
  BY <1>8, <1>11 DEF LearnInv

LEMMA ImporterDiesInv == ASSUME LearnInv, NEW i \in Imports, ImporterDies(i) PROVE LearnInv'
<1>1. PICK m : m = [NoImport EXCEPT !.at = "queued"]
  OBVIOUS
<1>2. m \in Import
  BY <1>1 DEF NoImport, Import
<1>3. /\ UNCHANGED <<captureVars, version, datasets, tagging, frames, split>>
      /\ UNCHANGED imported /\ crossed' = TRUE /\ kills < MaxKills /\ kills' = kills + 1
      /\ imports' = [imports EXCEPT ![i] = m]
  BY <1>1 DEF ImporterDies
<1>4. imported' \in BOOLEAN
  BY <1>3 DEF LearnInv, LearnTypes
<1>5. LearnTypes' /\ CapturesRight' /\ LimitRight' /\ ImportsRight'
  BY <1>2, <1>3, <1>4, ImportQuiet
<1>6. LoneImportRight'
  BY <1>3 DEF LoneImportRight
<1> QED
  BY <1>5, <1>6 DEF LearnInv

LEMMA ImportImageInv ==
  ASSUME LearnInv, NEW i \in Imports, NEW f \in Images, ImportImage(i, f) PROVE LearnInv'
<1>1. PICK u \in Import : u = imports[i]
  BY ImportOf
<1>2. PICK m : m = [u EXCEPT !.todo = u.todo \ {f}]
  OBVIOUS
<1>3. m \in Import /\ m.at = u.at /\ m.todo = u.todo \ {f}
  BY <1>2 DEF Import
<1>4. /\ UNCHANGED <<captureVars, version, datasets, tagging>>
      /\ UNCHANGED <<imported, crossed, kills>>
      /\ u.at = "images" /\ f \in u.todo /\ imports' = [imports EXCEPT ![i] = m]
      /\ \/ frames' = [frames EXCEPT ![f] = @ + 1] /\ split' = split \cup {f}
         \/ UNCHANGED <<frames, split>>
  BY <1>1, <1>2, ImportOf DEF ImportImage
<1>5. imports'[i] = m /\ \A j \in Imports : j # i => imports'[j] = imports[j]
  BY <1>4, ImportOf
<1>6. i \in Chances(f) /\ i \notin Chances(f)'
  BY <1>1, <1>3, <1>4, <1>5 DEF Chances
<1>7. \A g \in Images : i \in Chances(g)' => i \in Chances(g)
  BY <1>1, <1>3, <1>4, <1>5 DEF Chances
<1>8. imported' \in BOOLEAN /\ crossed' \in BOOLEAN /\ kills \in Nat
  BY <1>4, KillsGrow DEF LearnInv, LearnTypes
<1>9. Importing' = Importing /\ i \in Importing
  BY <1>1, <1>3, <1>4, <1>5 DEF Importing
<1>10. \A j \in Importing : imports'[j].todo \subseteq imports[j].todo
  BY <1>1, <1>3, <1>5 DEF Importing
<1>11. CASE UNCHANGED <<frames, split>>
  <2>1. LearnTypes' /\ CapturesRight' /\ LimitRight' /\ ImportsRight'
    BY <1>3, <1>4, <1>7, <1>8, <1>11, ImportQuiet
  <2>2. LoneImportRight'
    BY <1>4, <1>9, <1>10, <1>11 DEF LearnInv, LoneImportRight
  <2> QED
    BY <2>1, <2>2 DEF LearnInv
<1>12. CASE frames' = [frames EXCEPT ![f] = @ + 1] /\ split' = split \cup {f}
  <2>1. PICK n \in Nat : n = frames[f]
    BY SourcesApart DEF LearnInv, LearnTypes
  <2>2. frames \in [Sources -> Nat] /\ f \in Sources /\ frames' = [frames EXCEPT ![f] = n + 1]
    BY <1>12, <2>1, SourcesApart DEF LearnInv, LearnTypes
  <2>3. /\ frames' \in [Sources -> Nat] /\ frames'[f] = n + 1
        /\ \A d \in Sources : d # f => frames'[d] = frames[d]
    BY <2>2
  <2>4. split' \subseteq Held'
    <3>1. Held \cup {f} \subseteq Held'
      BY <2>2, <2>3 DEF Held
    <3> QED
      BY <1>12, <3>1 DEF LearnInv, LearnTypes
  <2>5. \A d \in Detections \cup Uploaded : frames'[d] = frames[d]
    BY <2>3, SourcesApart
  <2>6. LearnTypes' /\ CapturesRight' /\ LimitRight' /\ \A g \in Uploaded : frames'[g] <= 1
    <3>1. imports' \in [Imports -> Import]
      BY <1>3, <1>4, ImportOf
    <3>2. kills' \in 0 .. MaxKills
      BY <1>4, KillsGrow
    <3> QED
      BY <1>4, <1>8, <2>3, <2>4, <2>5, <3>1, <3>2, ImportFrame
  <2>7. ASSUME NEW g \in Images
        PROVE  frames'[g] + Cardinality(Chances(g)') <= Cardinality(Imports) + kills'
    <3>1. /\ Cardinality(Chances(g)) \in Nat /\ Cardinality(Chances(g)') \in Nat
          /\ (i \in Chances(g)' => i \in Chances(g)) =>
               Cardinality(Chances(g)') <= Cardinality(Chances(g))
          /\ i \in Chances(g) /\ i \notin Chances(g)' =>
               Cardinality(Chances(g)') + 1 = Cardinality(Chances(g))
      BY <1>3, <1>4, ChanceChange
    <3>2. Cardinality(Imports) \in Nat
      BY WorkersCounted
    <3>3. frames[g] + Cardinality(Chances(g)) <= Cardinality(Imports) + kills
      BY DEF LearnInv, ImportsRight
    <3>4. CASE g = f
      <4>1. n + Cardinality(Chances(g)) <= Cardinality(Imports) + kills
        BY <2>1, <3>3, <3>4
      <4>2. Cardinality(Chances(g)') + 1 = Cardinality(Chances(g))
        BY <1>6, <3>1, <3>4
      <4>3. frames'[g] = n + 1
        BY <2>3, <3>4
      <4> QED
        BY <1>4, <1>8, <2>1, <3>1, <3>2, <4>1, <4>2, <4>3
    <3>5. CASE g # f
      <4>1. frames'[g] = frames[g] /\ frames[g] \in Nat
        BY <2>2, <2>3, <3>5, SourcesApart
      <4>2. Cardinality(Chances(g)') <= Cardinality(Chances(g))
        BY <1>7, <3>1
      <4> QED
        BY <1>4, <1>8, <3>1, <3>2, <3>3, <4>1, <4>2
    <3> QED
      BY <3>4, <3>5
  <2>8. ASSUME NEW g \in Images
        PROVE  frames'[g] + Cardinality(Chances(g))' <= Cardinality(Imports) + kills'
    BY <2>7
  <2>9. ImportsRight'
    BY <2>6, <2>8 DEF ImportsRight
  <2>10. LoneImportRight'
    <3>1. SUFFICES ASSUME ~crossed PROVE LoneImportRight'
      BY <1>4 DEF LoneImportRight
    <3>2. /\ \A g \in Images : frames[g] <= 1
          /\ \A j, k \in Importing : j = k
          /\ imported => Importing = {}
          /\ \A j \in Importing : \A g \in imports[j].todo : frames[g] = 0
      BY <3>1 DEF LearnInv, LoneImportRight
    <3>3. n = 0
      BY <1>1, <1>4, <1>9, <2>1, <3>2
    <3>4. \A g \in Images : frames'[g] <= 1
      BY <2>3, <3>2, <3>3, SourcesApart
    <3>5. \A j \in Importing' : j = i
      BY <1>9, <3>2
    <3>6. \A g \in imports'[i].todo : g # f /\ g \in Sources /\ frames'[g] = 0
      <4>1. \A g \in u.todo : g \in Images /\ frames[g] = 0
        BY <1>1, <1>9, <3>2 DEF Import
      <4> QED
        BY <1>3, <1>5, <2>3, <4>1, SourcesApart
    <3> QED
      BY <1>4, <1>9, <3>2, <3>4, <3>5, <3>6 DEF LoneImportRight
  <2> QED
    BY <2>6, <2>9, <2>10 DEF LearnInv
<1> QED
  BY <1>4, <1>11, <1>12

LEMMA LearnStep == ASSUME LearnInv, LearningNext PROVE LearnInv'
<1>1. CASE \E d \in Detections : Detect(d) \/ \E w \in Capturers : Take(w, d)
  BY <1>1, DetectStepInv, TakeInv
<1>2. CASE \E w \in Capturers :
             TryLog(w) \/ CheckLimit(w) \/ Drop(w) \/ InsertFrame(w) \/ CapturerDies(w) \/ CapturerDiesLate(w)
  BY <1>2, TryLogInv, CheckLimitInv, DropInv, StoreSteps, CapturerDiesInv
<1>3. CASE \E i \in Imports :
             \/ QueueImport(i) \/ BeginImport(i) \/ NoExport(i) \/ EndImport(i) \/ ImporterDies(i)
             \/ \E f \in Images : ImportImage(i, f)
  BY <1>3, QueueImportInv, BeginImportInv, NoExportInv, EndImportInv, ImporterDiesInv, ImportImageInv
<1>4. CASE \E f \in Uploaded : UploadFrame(f)
  BY <1>4, UploadInv
<1>5. CASE \E f \in Sources : SetSplit(f) \/ DeleteFrame(f)
  BY <1>5, SplitSteps, DeleteInv
<1>6. CASE AutoSplit \/ RecordVersion \/ TagFrames
  BY <1>6, SplitSteps, VersionSteps
<1> QED
  BY <1>1, <1>2, <1>3, <1>4, <1>5, <1>6 DEF LearningNext

LEMMA LearnStutter == ASSUME LearnInv, UNCHANGED learningVars PROVE LearnInv'
<1>1. /\ UNCHANGED <<captures, logged, imports, imported, crossed, frames>>
      /\ UNCHANGED <<split, version, capturer, datasets, tagging, kills>>
  BY DEF learningVars, importVars
<1>2. LearnTypes'
  BY <1>1, SameFrames DEF LearnInv, LearnTypes
<1> QED
  BY <1>1, <1>2, SameFrames, SetInv DEF importVars

LEMMA LearnInvariant == LearningSpec => []LearnInv
<1>1. LearnInv /\ [LearningNext]_learningVars => LearnInv'
  BY LearnStep, LearnStutter
<1> QED
  BY <1>1, LearnInitInv, PTL DEF LearningSpec

LEMMA LearnTyped ==
  ASSUME LearnInv
  PROVE  LearningTypeOK
BY LearnFinite DEF LearnInv, LearnTypes, LearningTypeOK, Import, Capturer

\* The types of the learning set; a source has no more frames than imports and deaths
\* of workers can bring.
THEOREM LearningTypeCorrect == LearningSpec => []LearningTypeOK
<1>1. LearnInv => LearningTypeOK
  BY LearnTyped
<1> QED
  BY <1>1, LearnInvariant, PTL

\* However often a capture or an import is delivered, a detection is captured once, an
\* image once unless its imports cross, and the daily limit is exceeded by no more than
\* the workers that had passed capture_detection's check.
THEOREM NoFrameTooManyCorrect == LearningSpec => []NoFrameTooMany
<1>1. LearnInv => NoFrameTooMany
  BY DEF LearnInv, CapturesRight, LimitRight, LoneImportRight, Copying, NoFrameTooMany
<1> QED
  BY <1>1, LearnInvariant, PTL
-------------------------------------------------------------------------------
(* The services together: in each behaviour one of them works *)

ServicesInv ==
  /\ component = "events" => CountInv /\ FoundRight
  /\ component = "incidents" => EdgeTypeOK
  /\ component = "notifications" => NoteInv
  /\ component = "settings" => SettingsInv
  /\ component = "models" => ModelInv
  /\ component = "learning" => LearnInv
  /\ component = "detection" => DetectInv
  /\ component = "datasets" => DatasetInv
  /\ component = "pull" => PullInv

\* A step is one of the service at work, with all it changes.
LEMMA ServiceAtWork ==
  ASSUME [ServicesNext]_ServicesVars
  PROVE  /\ component' = component
         /\ component = "events" => [GroupingNext]_groupingVars
         /\ component = "incidents" => [EdgeNext]_edgeVars
         /\ component = "notifications" => [NotificationNext]_notificationVars
         /\ component = "settings" => [SettingsNext]_settingVars
         /\ component = "models" => [ModelNext]_modelVars
         /\ component = "learning" => [LearningNext]_learningVars
         /\ component = "detection" => [DetectionNext]_detectionVars
         /\ component = "datasets" => [DatasetNext]_datasetVars
         /\ component = "pull" => [PullNext]_pullVars
BY DEF ServicesNext, ServicesVars, cloudParts, edgeParts, groupingVars, cloudVars, edgeVars

LEMMA ServicesStep ==
  ASSUME ServicesInv, [ServicesNext]_ServicesVars
  PROVE  ServicesInv'
<1>1. CASE component = "events"
  <2>1. CountInv /\ FoundRight
    BY <1>1 DEF ServicesInv
  <2>2. [GroupingNext]_groupingVars /\ component' = "events"
    BY <1>1, ServiceAtWork
  <2>3. (CountInv /\ FoundRight)'
    BY <2>1, <2>2, GroupingStep
  <2> QED
    BY <2>2, <2>3 DEF ServicesInv
<1>2. CASE component = "incidents"
  <2>1. EdgeTypeOK
    BY <1>2 DEF ServicesInv
  <2>2. [EdgeNext]_edgeVars /\ component' = "incidents"
    BY <1>2, ServiceAtWork
  <2>3. EdgeTypeOK'
    BY <2>1, <2>2, EdgeNextType
  <2> QED
    BY <2>2, <2>3 DEF ServicesInv
<1>3. CASE component = "notifications"
  <2>1. NoteInv
    BY <1>3 DEF ServicesInv
  <2>2. [NotificationNext]_notificationVars /\ component' = "notifications"
    BY <1>3, ServiceAtWork
  <2>3. NoteInv'
    BY <2>1, <2>2, NoteInductive
  <2> QED
    BY <2>2, <2>3 DEF ServicesInv
<1>4. CASE component = "settings"
  <2>1. SettingsInv
    BY <1>4 DEF ServicesInv
  <2>2. [SettingsNext]_settingVars /\ component' = "settings"
    BY <1>4, ServiceAtWork
  <2>3. SettingsInv'
    BY <2>1, <2>2, SettingsInductive
  <2> QED
    BY <2>2, <2>3 DEF ServicesInv
<1>5. CASE component = "models"
  <2>1. ModelInv
    BY <1>5 DEF ServicesInv
  <2>2. [ModelNext]_modelVars /\ component' = "models"
    BY <1>5, ServiceAtWork
  <2>3. ModelInv'
    BY <2>1, <2>2, ModelInductive
  <2> QED
    BY <2>2, <2>3 DEF ServicesInv
<1>6. CASE component = "learning"
  <2>1. LearnInv
    BY <1>6 DEF ServicesInv
  <2>2. [LearningNext]_learningVars /\ component' = "learning"
    BY <1>6, ServiceAtWork
  <2>3. LearnInv'
    BY <2>1, <2>2, LearnStep, LearnStutter
  <2> QED
    BY <2>2, <2>3 DEF ServicesInv
<1>7. CASE component = "detection"
  <2>1. DetectInv
    BY <1>7 DEF ServicesInv
  <2>2. [DetectionNext]_detectionVars /\ component' = "detection"
    BY <1>7, ServiceAtWork
  <2>3. DetectInv'
    BY <2>1, <2>2, DetectInductive
  <2> QED
    BY <2>2, <2>3 DEF ServicesInv
<1>8. CASE component = "datasets"
  <2>1. DatasetInv
    BY <1>8 DEF ServicesInv
  <2>2. [DatasetNext]_datasetVars /\ component' = "datasets"
    BY <1>8, ServiceAtWork
  <2>3. DatasetInv'
    BY <2>1, <2>2, DatasetInductive
  <2> QED
    BY <2>2, <2>3 DEF ServicesInv
<1>9. CASE component = "pull"
  <2>1. PullInv
    BY <1>9 DEF ServicesInv
  <2>2. [PullNext]_pullVars /\ component' = "pull"
    BY <1>9, ServiceAtWork
  <2>3. PullInv'
    BY <2>1, <2>2, PullInductive
  <2> QED
    BY <2>2, <2>3 DEF ServicesInv
<1>10. CASE component \notin Components
  BY <1>10, ServiceAtWork DEF ServicesInv, Components
<1> QED
  BY <1>1, <1>2, <1>3, <1>4, <1>5, <1>6, <1>7, <1>8, <1>9, <1>10 DEF Components

LEMMA ServicesInvariant == ServicesSpec => [](component \in Components /\ ServicesInv)
<1>1. ServicesInit => component \in Components /\ ServicesInv
  BY GroupingInitInv, EdgeInitType, NoteInitInv, SettingsInitInv, ModelInitInv, LearnInitInv,
     DetectInitInv, DatasetInitInv, PullInitInv DEF ServicesInit, ServicesInv
<1>2. (component \in Components /\ ServicesInv) /\ [ServicesNext]_ServicesVars
        => (component \in Components /\ ServicesInv)'
  BY ServicesStep, ServiceAtWork
<1> QED
  BY <1>1, <1>2, PTL DEF ServicesSpec

\* Type correctness of the services in one specification, whichever works: the steps of
\* each, and nothing but them, keep its documents, calls, tasks and lists well formed.
THEOREM ServiceTypesCorrect == ServicesSpec => []ServiceTypes
<1>1. component \in Components /\ ServicesInv => ServiceTypes
  <2> SUFFICES ASSUME component \in Components, ServicesInv
               PROVE  ServiceTypes
    OBVIOUS
  <2>1. component = "events" => CloudTypeOK
    BY DEF ServicesInv, CountInv
  <2>2. component = "notifications" => NotificationTypeOK
    BY NoteTyped DEF ServicesInv
  <2>3. component = "settings" => SettingsTypeOK
    BY SettingsTyped DEF ServicesInv
  <2>4. component = "models" => ModelTypeOK
    BY DEF ServicesInv, ModelInv, ModelTypes
  <2>5. component = "learning" => LearningTypeOK
    BY LearnTyped DEF ServicesInv
  <2>6. component = "detection" => DetectionTypeOK
    BY DetectTyped DEF ServicesInv
  <2>7. component = "datasets" => DatasetTypeOK
    BY DEF ServicesInv, DatasetInv
  <2>8. component = "pull" => PullTypeOK
    BY DEF ServicesInv, PullInv
  <2>9. component = "incidents" => EdgeTypeOK
    BY DEF ServicesInv
  <2> HIDE DEF ServicesInv
  <2> QED
    BY <2>1, <2>2, <2>3, <2>4, <2>5, <2>6, <2>7, <2>8, <2>9 DEF ServiceTypes, Components
<1> QED
  BY <1>1, ServicesInvariant, PTL
=================================================================================
