------------------------------- MODULE CameraConfig -------------------------------
(***************************************************************************)
(* The configuration of one camera on its way from the dashboard to the    *)
(* edge.  services/camera_service.py keeps regions of interest ("roi") and *)
(* dry references ("ref") as versioned documents of which one should be    *)
(* active; services/edge_camera_service.py assembles them into a payload   *)
(* and posts it to the agent's agent/config_receiver.py, which stores it   *)
(* in files the detection loop reads.  Several requests may be under way,  *)
(* and each awaits the database between its steps.  The camera is one its  *)
(* agent keeps: what becomes of one the agent unregisters is left out.     *)
(***************************************************************************)
EXTENDS Naturals, Sequences, FiniteSets

CONSTANTS
  Requests,    \* requests that can be under way at a time
  MaxDocs,     \* bound on versions of each kind of document
  MaxVersion,  \* bound on config_version
  MaxFailures  \* bound on pushes that are refused, or whose first attempt fails

ASSUME ConfigAssumption ==
  Requests # {} /\ {MaxDocs, MaxVersion, MaxFailures} \subseteq Nat

VARIABLES
  docs,      \* [kind -> sequence of documents [version, active]]
  camera,    \* the camera's document; "active" is any status but "inactive"
  request,   \* what each request is doing
  edge,      \* the agent's files: the stored configuration and the dry references
  failures,
  overlapped \* since the last quiet moment, two requests were under way at once

configVars == <<docs, camera, request, edge, failures, overlapped>>

DocKinds == {"roi", "ref"}
Quiet == [op |-> "none", at |-> "start", kind |-> "roi", version |-> 0, enabled |-> FALSE,
          roi |-> 0, ref |-> 0, tries |-> 0, ack |-> "none"]

ConfigTypeOK ==
  /\ \A k \in DocKinds : Len(docs[k]) <= MaxDocs /\
       \A i \in DOMAIN docs[k] : docs[k][i] \in [version : 1 .. MaxDocs, active : BOOLEAN]
  /\ camera \in [status : {"active", "inactive"},
                 enabled : BOOLEAN, version : 0 .. MaxVersion,
                 config : {"waiting", "received", "failed", "push_pending"}]
  /\ edge \in [stored : BOOLEAN, version : 0 .. MaxVersion, enabled : BOOLEAN,
               roi : 0 .. MaxDocs, refs : 0 .. MaxDocs]
  /\ failures \in 0 .. MaxFailures /\ overlapped \in BOOLEAN

ConfigInit ==
  /\ docs = [k \in DocKinds |-> <<>>]
  /\ camera = [status |-> "active", enabled |-> FALSE, version |-> 0, config |-> "waiting"]
  /\ request = [r \in Requests |-> Quiet]
  /\ edge = [stored |-> FALSE, version |-> 0, enabled |-> FALSE, roi |-> 0, refs |-> 0]
  /\ failures = 0 /\ overlapped = FALSE

Busy == {r \in Requests : request[r].op # "none"}
\* Every request that changed something pushes the configuration in the end
Push == [Quiet EXCEPT !.op = "push", !.at = "assemble"]
Assemble(r) == request' = [request EXCEPT ![r] = Push]

\* find_one of the active document: one of them, or none (0)
ActiveDocs(k) == {i \in DOMAIN docs[k] : docs[k][i].active}
ActiveChoice(k) == IF ActiveDocs(k) = {} THEN {0} ELSE ActiveDocs(k)
Deactivated(k) == [docs EXCEPT ![k] = [i \in DOMAIN @ |-> [@[i] EXCEPT !.active = FALSE]]]

-------------------------------------------------------------------------------
(* The requests: what each does before its push *)

Begin(r, op, kind, at) ==
  /\ request[r] = Quiet
  /\ request' = [request EXCEPT ![r] = [Quiet EXCEPT !.op = op, !.kind = kind, !.at = at]]
  /\ overlapped' = (Busy # {})
  /\ UNCHANGED <<edge, failures>>

\* save_roi and capture_dry_reference, after the frames were read
BeginSave(r, k) ==
  /\ Len(docs[k]) < MaxDocs
  /\ Begin(r, "save", k, "number")
  /\ docs' = Deactivated(k)
  /\ UNCHANGED camera
\* toggle_detection has read the old value when it writes the new one
BeginToggle(r) ==
  /\ request[r] = Quiet
  /\ request' = [request EXCEPT ![r] =
       [Quiet EXCEPT !.op = "toggle", !.at = "toggle", !.enabled = ~camera.enabled]]
  /\ overlapped' = (Busy # {})
  /\ UNCHANGED <<docs, camera, edge, failures>>
BeginDelete(r) ==
  /\ Begin(r, "delete", "roi", "cascade")
  /\ camera' = [camera EXCEPT !.status = "inactive", !.enabled = FALSE]
  /\ UNCHANGED docs
BeginPush(r) == Begin(r, "push", "roi", "assemble") /\ UNCHANGED <<docs, camera>>

\* The next version is one more than the greatest, read before the insert
Number(r) ==
  /\ request[r].at = "number"
  /\ LET d == docs[request[r].kind]
         last == IF d = <<>> THEN 0 ELSE CHOOSE v \in {d[i].version : i \in DOMAIN d} :
                                           \A i \in DOMAIN d : d[i].version <= v
     IN request' = [request EXCEPT ![r].at = "insert", ![r].version = last + 1]
  /\ UNCHANGED <<docs, camera, edge, failures, overlapped>>
Insert(r) ==
  /\ request[r].at = "insert" /\ Len(docs[request[r].kind]) < MaxDocs
  /\ docs' = [docs EXCEPT ![request[r].kind] =
                Append(@, [version |-> request[r].version, active |-> TRUE])]
  /\ Assemble(r)
  /\ UNCHANGED <<camera, edge, failures, overlapped>>
WriteToggle(r) ==
  /\ request[r].at = "toggle"
  /\ camera' = [camera EXCEPT !.enabled = request[r].enabled]
  /\ Assemble(r)
  /\ UNCHANGED <<docs, edge, failures, overlapped>>
\* delete_camera deactivates the regions of interest, then the references
Cascade(r) ==
  /\ request[r].at = "cascade"
  /\ docs' = Deactivated(request[r].kind)
  /\ IF request[r].kind = "roi"
     THEN request' = [request EXCEPT ![r].kind = "ref"]
     ELSE Assemble(r)
  /\ UNCHANGED <<camera, edge, failures, overlapped>>

\* Requests of a single write: reactivate_camera, and test_camera_connection, which
\* overwrites any status, "inactive" included, with "testing", "online" or "offline"
Reactivate ==
  /\ camera.status = "inactive"
  /\ camera' = [camera EXCEPT !.status = "active", !.config = "waiting"]
  /\ UNCHANGED <<docs, request, edge, failures, overlapped>>
TestConnection ==
  /\ camera.status = "inactive"
  /\ camera' = [camera EXCEPT !.status = "active"]
  /\ UNCHANGED <<docs, request, edge, failures, overlapped>>

-------------------------------------------------------------------------------
(* The push *)

\* assemble_camera_config reads the camera first and then the documents
ReadCamera(r) ==
  /\ request[r].at = "assemble" /\ camera.version < MaxVersion
  /\ request' = [request EXCEPT ![r].at = "documents", ![r].version = camera.version + 1,
                                ![r].enabled = camera.enabled]
  /\ UNCHANGED <<docs, camera, edge, failures, overlapped>>
ReadDocuments(r) ==
  /\ request[r].at = "documents"
  /\ \E i \in ActiveChoice("roi"), j \in ActiveChoice("ref") :
       request' = [request EXCEPT ![r].at = "post", ![r].roi = i, ![r].ref = j]
  /\ UNCHANGED <<docs, camera, edge, failures, overlapped>>

\* receive_camera_config with the payload of r.  The version is stored, never
\* compared; without a dry reference in the payload the old images stay.
StoredConfig(r) ==
  [stored |-> TRUE, version |-> request[r].version, enabled |-> request[r].enabled,
   roi |-> request[r].roi, refs |-> IF request[r].ref = 0 THEN edge.refs ELSE request[r].ref]

PostAnswered(r) ==
  /\ request[r].at = "post"
  /\ edge' = StoredConfig(r)
  /\ request' = [request EXCEPT ![r].at = "record", ![r].ack = "received"]
  /\ UNCHANGED <<docs, camera, failures, overlapped>>
\* An attempt fails: not delivered, refused with 401 because the cloud sends no
\* key, or handled with its answer lost.  There are two attempts.
PostFails(r, handled) ==
  /\ request[r].at = "post"
  /\ IF request[r].tries = 0
     THEN failures < MaxFailures /\ failures' = failures + 1 ELSE UNCHANGED failures
  /\ edge' = IF handled THEN StoredConfig(r) ELSE edge
  /\ request' = [request EXCEPT ![r].tries = @ + 1,
                                ![r].at = IF request[r].tries = 0 THEN "post" ELSE "record"]
  /\ UNCHANGED <<docs, camera, overlapped>>

\* The payload does not pass the validation or cannot be written: 200, with the status
\* "failed".  What was stored before the exception stays, the images first.
PostRefused(r) ==
  /\ request[r].at = "post"
  /\ failures < MaxFailures /\ failures' = failures + 1
  /\ edge' \in {edge, [edge EXCEPT !.refs = StoredConfig(r).refs], StoredConfig(r)}
  /\ request' = [request EXCEPT ![r].at = "record", ![r].ack = "failed"]
  /\ UNCHANGED <<docs, camera, overlapped>>

\* (mutant) the outcome of the push is not looked at
Record_Optimistic(r) ==
  /\ request[r].at = "record"
  /\ camera' = [camera EXCEPT !.version = request[r].version, !.config = "received"]
  /\ request' = [request EXCEPT ![r] = Quiet]
  /\ UNCHANGED <<docs, edge, failures, overlapped>>
\* The version and the outcome are written, the agent's own status if it answered; an
\* unanswered push is queued as a command of a kind no poller knows, so nothing comes
\* of it.
Record(r) ==
  /\ request[r].at = "record"
  /\ camera' = [camera EXCEPT !.version = request[r].version,
                  !.config = IF request[r].ack = "none" THEN "push_pending" ELSE request[r].ack]
  /\ request' = [request EXCEPT ![r] = Quiet]
  /\ UNCHANGED <<docs, edge, failures, overlapped>>

Step(r) ==
  \/ Number(r) \/ Insert(r) \/ WriteToggle(r) \/ Cascade(r)
  \/ ReadCamera(r) \/ ReadDocuments(r) \/ PostAnswered(r) \/ Record(r)

ConfigNext ==
  \/ \E r \in Requests :
       \/ \E k \in DocKinds : BeginSave(r, k)
       \/ BeginToggle(r) \/ BeginDelete(r) \/ BeginPush(r)
       \/ Step(r)
       \/ PostRefused(r) \/ \E handled \in BOOLEAN : PostFails(r, handled)
  \/ Reactivate \/ TestConnection

ConfigSpec == ConfigInit /\ [][ConfigNext]_configVars
-------------------------------------------------------------------------------
(* Properties *)

\* An acknowledged push is in force: when no request is under way and the
\* last ones did not overlap, a camera shown as "received" runs on the
\* edge with the version, the region and the switch its documents have now, and
\* with the active dry reference if there is one.
AckedConfigInForce ==
  (Busy = {} /\ ~overlapped /\ camera.config = "received") =>
    /\ edge.version = camera.version /\ edge.enabled = camera.enabled
    /\ edge.roi \in ActiveChoice("roi")
    /\ ActiveDocs("ref") # {} => edge.refs \in ActiveDocs("ref")
===============================================================================
