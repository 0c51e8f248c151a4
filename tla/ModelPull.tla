------------------------------- MODULE ModelPull -------------------------------
(***************************************************************************)
(* Models pulled from Roboflow (services/roboflow_model_service.py), in    *)
(* one process of the backend.  A version is downloaded as ONNX, or its    *)
(* weights are downloaded and converted, in a thread: the SDK writes them  *)
(* into the current directory, which belongs to the process, so the thread *)
(* makes a temporary directory the current one and then goes back.  What   *)
(* was fetched is stored and registered; select_and_deploy_model goes on   *)
(* to bring the classes and to promote the model.                          *)
(***************************************************************************)
EXTENDS Naturals, FiniteSets

CONSTANTS
  RoboflowVersions,  \* versions of the project
  Pulls,             \* requests, each made at most once
  Home               \* the directory the process starts in

ASSUME ModelPullAssumption == Home \notin Pulls

VARIABLES
  pull,       \* what each request is doing
  cwd,        \* the current directory of the process; that of a pull has its name
  dirs,       \* the directories that exist
  weights,    \* the version whose weights file a directory holds
  registered, \* db.model_versions
  classNames, \* versions whose class names are in db.detection_classes
  nameless,   \* selects for which nobody knew class names
  selected,   \* the request whose model was promoted last
  overlapped   \* pulls that shared the current directory with another one

pullVars ==
  <<pull, cwd, dirs, weights, registered, classNames, nameless, selected, overlapped>>

NoVersionYet == "none"
Known == RoboflowVersions \cup {NoVersionYet}
NotAsked ==
  [at |-> "idle", version |-> NoVersionYet, select |-> FALSE, back |-> Home,
   bytes |-> NoVersionYet, raised |-> FALSE]
InThread == {"getcwd", "chdir", "download", "leave", "convert"}
Converting == { p \in Pulls : pull[p].at \in InThread }

PullTypeOK ==
  /\ pull \in [Pulls ->
       [at : {"idle", "rest", "store", "classes", "promote", "over"} \cup InThread,
        version : Known, select : BOOLEAN, back : Pulls \cup {Home},
        bytes : Known, raised : BOOLEAN]]
  /\ cwd \in Pulls \cup {Home} /\ dirs \subseteq Pulls \cup {Home} /\ Home \in dirs
  /\ weights \in [Pulls \cup {Home} -> Known]
  /\ registered \subseteq [by : Pulls, version : RoboflowVersions, weights : RoboflowVersions]
  /\ classNames \subseteq RoboflowVersions /\ nameless \subseteq Pulls
  /\ selected \subseteq Pulls /\ overlapped \subseteq Pulls

PullInit ==
  /\ pull = [p \in Pulls |-> NotAsked]
  /\ cwd = Home /\ dirs = {Home} /\ weights = [d \in Pulls \cup {Home} |-> NoVersionYet]
  /\ registered = {} /\ classNames = {} /\ nameless = {} /\ selected = {} /\ overlapped = {}

Moves(p, at) ==
  pull' = [pull EXCEPT ![p] =
    IF at = "over" THEN [NotAsked EXCEPT !.at = at, !.version = pull[p].version]
    ELSE [@ EXCEPT !.at = at]]

-------------------------------------------------------------------------------
(* The ONNX export, or the weights *)

Ask(p, v, select) ==
  /\ pull[p].at = "idle"
  /\ pull' = [pull EXCEPT ![p] = [NotAsked EXCEPT
                !.at = "rest", !.version = v, !.select = select]]
  /\ UNCHANGED <<cwd, dirs, weights, registered, classNames, nameless, selected, overlapped>>
AskPull(p, v) == Ask(p, v, FALSE)
AskSelect(p, v) == Ask(p, v, TRUE)
\* No key or no workspace
NotConfigured(p) ==
  /\ pull[p].at = "rest"
  /\ Moves(p, "over")
  /\ UNCHANGED <<cwd, dirs, weights, registered, classNames, nameless, selected, overlapped>>
\* Roboflow does not describe the project or the version
DetailsFail(p) ==
  /\ pull[p].at = "rest"
  /\ Moves(p, "over")
  /\ UNCHANGED <<cwd, dirs, weights, registered, classNames, nameless, selected, overlapped>>
RestServes(p) ==
  /\ pull[p].at = "rest"
  /\ pull' = [pull EXCEPT ![p].at = "store", ![p].bytes = pull[p].version]
  /\ UNCHANGED <<cwd, dirs, weights, registered, classNames, nameless, selected, overlapped>>
\* No export, no answer or no ONNX: the thread starts and makes its directory
RestLacks(p) ==
  /\ pull[p].at = "rest"
  /\ Moves(p, "getcwd")
  /\ dirs' = dirs \cup {p}
  /\ overlapped' = IF Converting = {} THEN overlapped ELSE overlapped \cup Converting \cup {p}
  /\ UNCHANGED <<cwd, weights, registered, classNames, nameless, selected>>

\* The outer finally: the directory goes, whatever has been raised
Cleared(p) ==
  /\ dirs' = dirs \ {p}
  /\ weights' = [weights EXCEPT ![p] = NoVersionYet]
GetCwd(p) ==
  /\ pull[p].at = "getcwd"
  /\ IF cwd \in dirs
     THEN /\ pull' = [pull EXCEPT ![p].at = "chdir", ![p].back = cwd]
          /\ UNCHANGED <<dirs, weights>>
     ELSE Moves(p, "over") /\ Cleared(p)
  /\ UNCHANGED <<cwd, registered, classNames, nameless, selected, overlapped>>
ChangeDir(p) ==
  /\ pull[p].at = "chdir"
  /\ cwd' = p
  /\ Moves(p, "download")
  /\ UNCHANGED <<dirs, weights, registered, classNames, nameless, selected, overlapped>>
\* The SDK writes one file into the directory that is current by then
Download(p) ==
  /\ pull[p].at = "download"
  /\ \/ /\ cwd \in dirs
        /\ weights' = [weights EXCEPT ![cwd] = pull[p].version]
        /\ Moves(p, "leave")
     \/ /\ pull' = [pull EXCEPT ![p].at = "leave", ![p].raised = TRUE]
        /\ UNCHANGED weights
  /\ UNCHANGED <<cwd, dirs, registered, classNames, nameless, selected, overlapped>>
\* (mutant) back only when the download has worked
Leave_NoFinally(p) ==
  /\ pull[p].at = "leave"
  /\ IF pull[p].raised
     THEN UNCHANGED cwd /\ Moves(p, "over") /\ Cleared(p)
     ELSE cwd' = pull[p].back /\ Moves(p, "convert") /\ UNCHANGED <<dirs, weights>>
  /\ UNCHANGED <<registered, classNames, nameless, selected, overlapped>>
Leave(p) ==
  /\ pull[p].at = "leave"
  /\ cwd' = IF pull[p].back \in dirs THEN pull[p].back ELSE cwd
  /\ IF pull[p].raised \/ pull[p].back \notin dirs
     THEN Moves(p, "over") /\ Cleared(p)
     ELSE Moves(p, "convert") /\ UNCHANGED <<dirs, weights>>
  /\ UNCHANGED <<registered, classNames, nameless, selected, overlapped>>
\* What lies in the own directory is converted; nothing there is an error
Convert(p) ==
  /\ pull[p].at = "convert"
  /\ \/ /\ weights[p] # NoVersionYet
        /\ pull' = [pull EXCEPT ![p].at = "store", ![p].bytes = weights[p]]
     \/ Moves(p, "over")
  /\ Cleared(p)
  /\ UNCHANGED <<cwd, registered, classNames, nameless, selected, overlapped>>

-------------------------------------------------------------------------------
(* Registration, classes and promotion *)

Register(p) ==
  /\ pull[p].at = "store"
  /\ registered' = registered \cup
       {[by |-> p, version |-> pull[p].version, weights |-> pull[p].bytes]}
  /\ Moves(p, IF pull[p].select THEN "classes" ELSE "over")
  /\ UNCHANGED <<cwd, dirs, weights, classNames, nameless, selected, overlapped>>
StoreFails(p) ==
  /\ pull[p].at = "store"
  /\ Moves(p, "over")
  /\ UNCHANGED <<cwd, dirs, weights, registered, classNames, nameless, selected, overlapped>>
NamesFromRoboflow(p) == classNames' = classNames \cup {pull[p].version}
\* Names come from Roboflow, else from the model itself, which may have none
BringClasses(p) ==
  /\ pull[p].at = "classes"
  /\ \/ NamesFromRoboflow(p) /\ UNCHANGED nameless
     \/ classNames' = classNames \cup {pull[p].bytes} /\ UNCHANGED nameless
     \/ nameless' = nameless \cup {p} /\ UNCHANGED classNames
  /\ Moves(p, "promote")
  /\ UNCHANGED <<cwd, dirs, weights, registered, selected, overlapped>>
Promote(p) ==
  /\ pull[p].at = "promote"
  /\ selected' = {p}
  /\ Moves(p, "over")
  /\ UNCHANGED <<cwd, dirs, weights, registered, classNames, nameless, overlapped>>

PullNext ==
  \E p \in Pulls :
    \/ \E v \in RoboflowVersions : AskPull(p, v) \/ AskSelect(p, v)
    \/ NotConfigured(p) \/ DetailsFail(p) \/ RestServes(p) \/ RestLacks(p)
    \/ GetCwd(p) \/ ChangeDir(p) \/ Download(p) \/ Leave(p) \/ Convert(p)
    \/ Register(p) \/ StoreFails(p) \/ BringClasses(p) \/ Promote(p)
PullSpec == PullInit /\ [][PullNext]_pullVars

-------------------------------------------------------------------------------
(* Properties *)

\* Whatever fails on the way, a pull whose conversion met no other one registers the
\* weights of the version it was asked for, and the process is back where it started;
\* a pull leaves no directory behind, and what a select promotes has its classes.
LonePullIsRight ==
  /\ \A r \in registered : r.by \notin overlapped => r.weights = r.version
  /\ Converting = {} /\ overlapped = {} => cwd = Home
  /\ dirs = {Home} \cup Converting
  /\ \A p \in selected \ (overlapped \cup nameless) : pull[p].version \in classNames

\* "Pull the latest ONNX model from Roboflow and register it."
\* (roboflow_model_service.py): what is registered as a version has its weights.
WeightsAreOfVersion == \A r \in registered : r.weights = r.version
===============================================================================
