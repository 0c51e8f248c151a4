-------------------------------- MODULE ModelSwap --------------------------------
(***************************************************************************)
(* The inference server beside the agent (inference-server/): downloading  *)
(* a model, checking it, swapping it in and falling back, and what an      *)
(* inference makes of a frame; and the agent's part in it: the command     *)
(* that deploys a model, the check at start, and the command that brings   *)
(* the alert classes.                                                      *)
(*                                                                         *)
(* The server runs each request in a thread of its own.  A model file is   *)
(* good or it is one that does not load or does not survive the dummy      *)
(* inference.  A frame is one bit: it shows what the alert classes name;   *)
(* of the ways to read a model's output only that of the segmenting models *)
(* is told apart.                                                          *)
(* The command reload_model with a path, which nothing in the cloud sends, *)
(* is left out.                                                            *)
(***************************************************************************)
EXTENDS Naturals, FiniteSets

CONSTANTS
  Versions,    \* models the cloud offers
  Segmenting,  \* those whose second output are mask prototypes
  Fetches,     \* download requests that can be under way at a time
  NoVersion,   \* stands for no model
  MaxAsked,    \* bound on the downloads asked for
  MaxServerStarts \* bound on restarts of the inference server

ASSUME SwapAssumption ==
  /\ NoVersion \notin Versions /\ Segmenting \subseteq Versions
  /\ {MaxAsked, MaxServerStarts} \subseteq Nat

VARIABLES
  file,     \* what lies in the models directory for each version
  newest,   \* the file with the latest modification time
  sidecar,  \* versions whose class names lie beside the file
  model,    \* the session in use
  kept,     \* the session kept to fall back on, and its names
  names,    \* the version whose class names are in use
  fetch,    \* what each download request is doing at the server
  asking,   \* the request the agent waits for, and what it was asked for
  classes,  \* the agent has stored alert classes the cloud sent
  alerts,   \* ALERT_CLASSES of the server is not empty
  answer,   \* the last inference since then: the frame shows water, is_wet
  asked, serverStarts

swapVars == <<file, newest, sidecar, model, kept, names, fetch, asking, classes, alerts,
              answer, asked, serverStarts>>

NoFetch == [at |-> "idle", v |-> NoVersion]
NoAnswer == [water |-> FALSE, wet |-> FALSE]
NoSession == [model |-> NoVersion, names |-> NoVersion]
Some == Versions \cup {NoVersion}
Asking == { f \in Fetches : asking[f] # "no" }

SwapTypeOK ==
  /\ file \in [Versions -> {"none", "good", "bad"}] /\ newest \in Some
  /\ sidecar \subseteq Versions
  /\ model \in Some /\ names \in Some /\ kept \in [model : Some, names : Some]
  /\ fetch \in [Fetches -> [at : {"idle", "download", "swap", "build", "loaded", "failed"},
                            v : Some]]
  /\ asking \in [Fetches -> {"no", "command", "check"}] /\ Cardinality(Asking) <= 1
  /\ classes \in BOOLEAN /\ alerts \in BOOLEAN
  /\ answer \in [water : BOOLEAN, wet : BOOLEAN]
  /\ asked \in 0 .. MaxAsked /\ serverStarts \in 0 .. MaxServerStarts
  /\ newest # NoVersion => file[newest] # "none"

SwapInit ==
  /\ newest \in Some                            \* the bundle may bring a model
  /\ file = [v \in Versions |-> IF v = newest THEN "good" ELSE "none"]
  /\ sidecar = {} /\ model = newest /\ names = NoVersion /\ kept = NoSession
  /\ fetch = [f \in Fetches |-> NoFetch]
  /\ asking = [f \in Fetches |-> "no"]
  /\ classes = FALSE /\ alerts = FALSE /\ answer = NoAnswer
  /\ asked = 0 /\ serverStarts = 0

-------------------------------------------------------------------------------
(* The agent asks and hears *)

\* The poller runs one command at a time, and the check at start comes before it
AskDownload(f, v, why) ==
  /\ Asking = {} /\ fetch[f].at = "idle" /\ asked < MaxAsked
  /\ asked' = asked + 1
  /\ fetch' = [fetch EXCEPT ![f] = [at |-> "download", v |-> v]]
  /\ asking' = [asking EXCEPT ![f] = why]
  /\ UNCHANGED <<file, newest, sidecar, model, kept, names, classes, alerts, answer, serverStarts>>
\* deploy_model: whether it is the model in use is not looked at
DeployModel(f, v) == AskDownload(f, v, "command")
\* The cloud's answer is the production model of the organisation promoted last;
\* an answer without a model ends the check
Production == Versions
CheckAtStart(f, v) == v \in Production /\ v # model /\ AskDownload(f, v, "check")
\* MODEL_DOWNLOAD_TIMEOUT: the command fails, the server goes on
AskerGivesUp(f) ==
  /\ f \in Asking /\ fetch[f].at \notin {"loaded", "failed"}
  /\ asking' = [asking EXCEPT ![f] = "no"]
  /\ UNCHANGED <<file, newest, sidecar, model, kept, names, fetch, classes, alerts, answer,
                 asked, serverStarts>>
\* After "loaded" the class names that came with a command are put beside the file
AskerHears(f) ==
  /\ f \in Asking /\ fetch[f].at \in {"loaded", "failed"}
  /\ asking' = [asking EXCEPT ![f] = "no"]
  /\ fetch' = [fetch EXCEPT ![f] = NoFetch]
  /\ \/ UNCHANGED sidecar
     \/ /\ asking[f] = "command" /\ fetch[f].at = "loaded"
        /\ sidecar' = sidecar \cup {fetch[f].v}
  /\ UNCHANGED <<file, newest, model, kept, names, classes, alerts, answer, asked, serverStarts>>

\* update_classes: the files are written; the module predict whose function would
\* set the server's classes is not in the agent's container
UpdateClasses ==
  /\ classes' = TRUE /\ answer' = NoAnswer
  /\ UNCHANGED <<file, newest, sidecar, model, kept, names, fetch, asking, alerts, asked, serverStarts>>

-------------------------------------------------------------------------------
(* One request at the server *)

\* Unreachable, an error status, a wrong checksum, or another download of this file
\* has moved the temporary one away
DownloadFails(f) ==
  /\ fetch[f].at = "download"
  /\ fetch' = [fetch EXCEPT ![f].at = "failed"]
  /\ UNCHANGED <<file, newest, sidecar, model, kept, names, asking, classes, alerts, answer,
                 asked, serverStarts>>
\* The checksum is that of the bytes received: with another download of this file
\* beside, the file itself may be something else
Downloaded(f) ==
  /\ fetch[f].at = "download"
  /\ \E quality \in {"good", "bad"} : file' = [file EXCEPT ![fetch[f].v] = quality]
  /\ newest' = fetch[f].v
  /\ fetch' = [fetch EXCEPT ![f].at = "swap"]
  /\ UNCHANGED <<sidecar, model, kept, names, asking, classes, alerts, answer, asked, serverStarts>>

\* What is no ONNX file is refused before anything is touched; the session in use is kept
Kept == IF model = NoVersion THEN kept ELSE [model |-> model, names |-> names]
SwapBegins(f) ==
  /\ fetch[f].at = "swap"
  /\ \/ fetch' = [fetch EXCEPT ![f].at = "build"] /\ kept' = Kept
     \/ /\ file[fetch[f].v] = "bad"
        /\ fetch' = [fetch EXCEPT ![f].at = "failed"]
        /\ UNCHANGED kept
  /\ UNCHANGED <<file, newest, sidecar, model, names, asking, classes, alerts, answer, asked, serverStarts>>

NamesOf(v) == IF v \in sidecar THEN v ELSE NoVersion
SwapInstalls(f) ==
  LET v == fetch[f].v IN
  /\ fetch[f].at = "build" /\ file[v] = "good"
  /\ model' = v /\ names' = NamesOf(v)
  /\ fetch' = [fetch EXCEPT ![f].at = "loaded"]
  /\ UNCHANGED <<file, newest, sidecar, kept, asking, classes, alerts, answer, asked, serverStarts>>
\* (mutant) the session that is put back is not looked at whether it is one
Restored_Dropped == kept.model
\* The session kept comes back, over whatever another swap has put in since
Restored == IF kept.model = NoVersion THEN model ELSE kept.model
SwapFails(f) ==
  /\ fetch[f].at = "build" /\ file[fetch[f].v] = "bad"
  /\ model' = Restored
  /\ names' = IF kept.names = NoVersion THEN names ELSE kept.names
  /\ fetch' = [fetch EXCEPT ![f].at = "failed"]
  /\ UNCHANGED <<file, newest, sidecar, kept, asking, classes, alerts, answer, asked, serverStarts>>
Unheard(f) ==
  /\ f \notin Asking /\ fetch[f].at \in {"loaded", "failed"}
  /\ fetch' = [fetch EXCEPT ![f] = NoFetch]
  /\ UNCHANGED <<file, newest, sidecar, model, kept, names, asking, classes, alerts, answer,
                 asked, serverStarts>>

\* Only the newest file is tried; alert classes that were saved are not read
RestartServer ==
  LET v == IF newest # NoVersion /\ file[newest] = "good" THEN newest ELSE NoVersion IN
  /\ serverStarts < MaxServerStarts /\ serverStarts' = serverStarts + 1
  /\ model' = v /\ kept' = NoSession
  /\ names' = IF v = NoVersion THEN NoVersion ELSE NamesOf(v)
  /\ alerts' = FALSE
  /\ fetch' = [f \in Fetches |-> IF f \in Asking THEN [fetch[f] EXCEPT !.at = "failed"] ELSE NoFetch]
  /\ UNCHANGED <<file, newest, sidecar, asking, classes, answer, asked>>

\* Without class names the first class counts as wet, with them the alert classes
CountsAsWet(shown) == shown /\ (names = NoVersion \/ alerts)
\* The type is told from the outputs, those of a segmenting model first
Segments(v) == v \in Segmenting
\* /infer reads every type of model.  /infer-batch takes the masks of a segmenting
\* model for scores of classes: what it makes of a frame has no relation to it.
Shown(water) == {water}
ShownInBatch(water) == IF Segments(model) THEN BOOLEAN ELSE {water}
Remembered(a) == IF classes THEN a ELSE NoAnswer
AnswersFrame(water, readings) ==
  /\ model # NoVersion
  /\ \E shown \in readings :
       answer' = Remembered([water |-> water, wet |-> CountsAsWet(shown)])
  /\ UNCHANGED <<file, newest, sidecar, model, kept, names, fetch, asking, classes, alerts,
                 asked, serverStarts>>
Infer(water) == AnswersFrame(water, Shown(water))
InferBatch(water) == AnswersFrame(water, ShownInBatch(water))

SwapNext ==
  \/ \E f \in Fetches, v \in Versions : DeployModel(f, v) \/ CheckAtStart(f, v)
  \/ \E f \in Fetches : \/ AskerGivesUp(f) \/ AskerHears(f) \/ DownloadFails(f) \/ Downloaded(f)
                        \/ SwapBegins(f) \/ SwapInstalls(f) \/ SwapFails(f) \/ Unheard(f)
  \/ UpdateClasses \/ RestartServer
  \/ \E water \in BOOLEAN : Infer(water) \/ InferBatch(water)
SwapSpec == SwapInit /\ [][SwapNext]_swapVars

-------------------------------------------------------------------------------
(* Properties *)

\* A server that has a model has one until it is restarted, whatever downloads,
\* checks and swaps fail, also side by side; and it goes back only to a session
\* that worked.
NeverUnloaded ==
  [][ (model # NoVersion /\ serverStarts' = serverStarts) => model' # NoVersion ]_swapVars

\* "Alert classes - populated by cloud push via update_classes command."
\* (inference-server/predict.py): once the classes have come and while they are in
\* force a frame that shows one of them is wet.
ClassesTakeEffect == classes /\ answer.water => answer.wet
===============================================================================
