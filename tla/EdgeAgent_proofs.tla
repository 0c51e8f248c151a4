---------------------------- MODULE EdgeAgent_proofs ----------------------------
(***************************************************************************)
(* Theorems about what runs beside the detection on the edge: the models   *)
(* of the inference server, the switched devices, the agent's files and    *)
(* its logs; and the types of these and of what the cloud sends to the     *)
(* agents in the specification that puts them side by side (FleetTypes).   *)
(***************************************************************************)
EXTENDS MCFleet, CommandQueue_proofs

-------------------------------------------------------------------------------
(* The models of the inference server *)

Fetch == [at : {"idle", "download", "swap", "build", "loaded", "failed"}, v : Some]

\* A request the server works on, or has done, is for a version; one request is
\* waited for at a time.
SwapInv ==
  /\ file \in [Versions -> {"none", "good", "bad"}] /\ newest \in Some
  /\ sidecar \subseteq Versions
  /\ model \in Some /\ names \in Some /\ kept \in [model : Some, names : Some]
  /\ fetch \in [Fetches -> Fetch]
  /\ asking \in [Fetches -> {"no", "command", "check"}]
  /\ classes \in BOOLEAN /\ alerts \in BOOLEAN
  /\ answer \in [water : BOOLEAN, wet : BOOLEAN]
  /\ asked \in 0 .. MaxAsked /\ serverStarts \in 0 .. MaxServerStarts
  /\ newest # NoVersion => file[newest] # "none"
  /\ \A f \in Fetches :
       fetch[f].at \in {"download", "swap", "build", "loaded"} => fetch[f].v \in Versions
  /\ \A f, g \in Asking : f = g

LEMMA SwapInitInv ==
  ASSUME SwapInit
  PROVE  SwapInv
<1>1. NoFetch \in Fetch /\ NoSession \in [model : Some, names : Some]
      /\ NoAnswer \in [water : BOOLEAN, wet : BOOLEAN]
  BY DEF NoFetch, NoSession, NoAnswer, Fetch, Some
<1>2. Asking = {}
  BY DEF SwapInit, Asking
<1>3. /\ file \in [Versions -> {"none", "good", "bad"}] /\ newest \in Some
      /\ newest # NoVersion => file[newest] # "none"
  BY DEF SwapInit, Some
<1>4. /\ fetch \in [Fetches -> Fetch]
      /\ \A f \in Fetches :
           fetch[f].at \in {"download", "swap", "build", "loaded"} => fetch[f].v \in Versions
  BY <1>1 DEF SwapInit, NoFetch
<1>5. asked \in 0 .. MaxAsked /\ serverStarts \in 0 .. MaxServerStarts
  BY SwapAssumption DEF SwapInit
<1>6. names \in Some /\ model \in Some
  BY <1>3 DEF SwapInit, Some
<1> QED
  BY <1>1, <1>2, <1>3, <1>4, <1>5, <1>6 DEF SwapInit, SwapInv

\* A request is handed to the server.
LEMMA AskStep ==
  ASSUME SwapInv, NEW f \in Fetches, NEW v \in Versions, NEW why \in {"command", "check"},
         AskDownload(f, v, why)
  PROVE  SwapInv'
<1>1. [at |-> "download", v |-> v] \in Fetch
  BY DEF Fetch, Some
<1>2. /\ fetch' \in [Fetches -> Fetch]
      /\ fetch'[f] = [at |-> "download", v |-> v]
      /\ \A g \in Fetches \ {f} : fetch'[g] = fetch[g]
  BY <1>1 DEF AskDownload, SwapInv
<1>3. \A g \in Fetches :
        fetch'[g].at \in {"download", "swap", "build", "loaded"} => fetch'[g].v \in Versions
  BY <1>2 DEF SwapInv
<1>4. /\ asking' \in [Fetches -> {"no", "command", "check"}]
      /\ \A g, h \in Asking' : g = h
  BY DEF AskDownload, SwapInv, Asking
<1>5. asked' \in 0 .. MaxAsked
  BY SwapAssumption DEF AskDownload, SwapInv
<1> QED
  BY <1>2, <1>3, <1>4, <1>5 DEF AskDownload, SwapInv

\* A request goes on: its state is another, for the same version.
LEMMA FetchGoesOn ==
  ASSUME SwapInv, NEW f \in Fetches, fetch[f].at \in {"download", "swap", "build"},
         NEW stage \in {"swap", "build", "loaded", "failed"},
         fetch' = [fetch EXCEPT ![f].at = stage]
  PROVE  /\ fetch' \in [Fetches -> Fetch] /\ fetch[f].v \in Versions
         /\ \A g \in Fetches :
              fetch'[g].at \in {"download", "swap", "build", "loaded"} => fetch'[g].v \in Versions
<1>1. fetch \in [Fetches -> Fetch] /\ fetch[f].v \in Versions
  BY DEF SwapInv
<1>2. PICK r : r = [fetch[f] EXCEPT !.at = stage]
  OBVIOUS
<1>3. r \in Fetch /\ r.at = stage /\ r.v = fetch[f].v
  BY <1>1, <1>2 DEF Fetch
<1>4. fetch' = [fetch EXCEPT ![f] = r]
  BY <1>1, <1>2
<1>5. /\ fetch' \in [Fetches -> Fetch] /\ fetch'[f] = r
      /\ \A g \in Fetches \ {f} : fetch'[g] = fetch[g]
  BY <1>1, <1>3, <1>4
<1>6. fetch'[f].v \in Versions
  BY <1>1, <1>3, <1>5
<1>7. \A g \in Fetches \ {f} :
        fetch'[g].at \in {"download", "swap", "build", "loaded"} => fetch'[g].v \in Versions
  BY <1>5 DEF SwapInv
<1> QED
  BY <1>1, <1>5, <1>6, <1>7

LEMMA ServerStep ==
  ASSUME SwapInv, NEW f \in Fetches,
         \/ DownloadFails(f) \/ Downloaded(f) \/ SwapBegins(f) \/ SwapInstalls(f) \/ SwapFails(f)
  PROVE  SwapInv' /\ (model # NoVersion => model' # NoVersion)
<1>1. PICK stage \in {"swap", "build", "loaded", "failed"} : fetch' = [fetch EXCEPT ![f].at = stage]
  BY DEF DownloadFails, Downloaded, SwapBegins, SwapInstalls, SwapFails
<1>2. fetch[f].at \in {"download", "swap", "build"}
  BY DEF DownloadFails, Downloaded, SwapBegins, SwapInstalls, SwapFails
<1>3. /\ fetch' \in [Fetches -> Fetch] /\ fetch[f].v \in Versions
      /\ \A g \in Fetches :
           fetch'[g].at \in {"download", "swap", "build", "loaded"} => fetch'[g].v \in Versions
  BY <1>1, <1>2, FetchGoesOn
<1>4. /\ UNCHANGED <<asking, sidecar, classes, alerts, answer, asked, serverStarts>>
  BY DEF DownloadFails, Downloaded, SwapBegins, SwapInstalls, SwapFails
<1>5. /\ file' \in [Versions -> {"none", "good", "bad"}] /\ newest' \in Some
      /\ newest' # NoVersion => file'[newest'] # "none"
  <2>1. CASE Downloaded(f)
    BY <1>3, <2>1 DEF Downloaded, SwapInv, Some
  <2>2. CASE UNCHANGED <<file, newest>>
    BY <2>2 DEF SwapInv
  <2> QED
    BY <2>1, <2>2 DEF DownloadFails, SwapBegins, SwapInstalls, SwapFails
<1>6. /\ model' \in Some /\ names' \in Some /\ kept' \in [model : Some, names : Some]
      /\ model # NoVersion => model' # NoVersion
  <2>1. CASE UNCHANGED <<model, names, kept>>
    BY <2>1 DEF SwapInv
  <2>2. CASE SwapBegins(f)
    BY <2>2 DEF SwapBegins, Kept, SwapInv
  <2>3. CASE SwapInstalls(f)
    BY <1>3, <2>3, SwapAssumption DEF SwapInstalls, NamesOf, SwapInv, Some
  <2>4. CASE SwapFails(f)
    BY <2>4 DEF SwapFails, Restored, SwapInv
  <2> QED
    BY <2>1, <2>2, <2>3, <2>4 DEF DownloadFails, Downloaded
<1> QED
  BY <1>3, <1>4, <1>5, <1>6 DEF SwapInv, Asking

LEMMA AskerStep ==
  ASSUME SwapInv, NEW f \in Fetches, AskerGivesUp(f) \/ AskerHears(f) \/ Unheard(f)
  PROVE  SwapInv' /\ model' = model
<1>1. NoFetch \in Fetch /\ NoFetch.at = "idle"
  BY DEF NoFetch, Fetch, Some
<1>2. /\ fetch' \in [Fetches -> Fetch]
      /\ \A g \in Fetches :
           fetch'[g].at \in {"download", "swap", "build", "loaded"} => fetch'[g].v \in Versions
  <2>1. fetch' = fetch \/ fetch' = [fetch EXCEPT ![f] = NoFetch]
    BY DEF AskerGivesUp, AskerHears, Unheard
  <2> QED
    BY <1>1, <2>1 DEF SwapInv
<1>3. asking' = asking \/ asking' = [asking EXCEPT ![f] = "no"]
  BY DEF AskerGivesUp, AskerHears, Unheard
<1>4. /\ asking' \in [Fetches -> {"no", "command", "check"}]
      /\ \A g, h \in Asking' : g = h
  BY <1>3 DEF SwapInv, Asking
<1>5. sidecar' \subseteq Versions
  BY DEF AskerGivesUp, AskerHears, Unheard, SwapInv
<1>6. UNCHANGED <<file, newest, model, kept, names, classes, alerts, answer, asked, serverStarts>>
  BY DEF AskerGivesUp, AskerHears, Unheard
<1> QED
  BY <1>2, <1>4, <1>5, <1>6 DEF SwapInv

LEMMA ServerRestartStep ==
  ASSUME SwapInv, RestartServer
  PROVE  SwapInv' /\ serverStarts' # serverStarts
<1>1. NoFetch \in Fetch /\ NoFetch.at = "idle" /\ NoSession \in [model : Some, names : Some]
      /\ NoVersion \in Some
  BY DEF NoFetch, NoSession, Fetch, Some
<1>2. \A f \in Fetches : [fetch[f] EXCEPT !.at = "failed"] \in Fetch
                         /\ [fetch[f] EXCEPT !.at = "failed"].at = "failed"
  BY DEF SwapInv, Fetch
<1>3. /\ fetch' \in [Fetches -> Fetch]
      /\ \A g \in Fetches : fetch'[g].at \in {"failed", "idle"}
  BY <1>1, <1>2 DEF RestartServer
<1>4. model' \in Some /\ names' \in Some /\ kept' \in [model : Some, names : Some]
  BY <1>1 DEF RestartServer, NamesOf, SwapInv
<1>5. serverStarts' \in 0 .. MaxServerStarts /\ serverStarts' # serverStarts
  BY SwapAssumption DEF RestartServer, SwapInv
<1>6. UNCHANGED <<file, newest, sidecar, asking, classes, answer, asked>> /\ alerts' = FALSE
  BY DEF RestartServer
<1> QED
  BY <1>3, <1>4, <1>5, <1>6 DEF SwapInv, Asking

LEMMA AnswerStep ==
  ASSUME SwapInv,
         UpdateClasses \/ \E water \in BOOLEAN : Infer(water) \/ InferBatch(water)
  PROVE  SwapInv' /\ model' = model
<1>1. NoAnswer \in [water : BOOLEAN, wet : BOOLEAN]
  BY DEF NoAnswer
<1>2. answer' \in [water : BOOLEAN, wet : BOOLEAN]
  <2>1. CASE UpdateClasses
    BY <1>1, <2>1 DEF UpdateClasses
  <2>2. CASE \E water \in BOOLEAN : Infer(water) \/ InferBatch(water)
    <3>0. PICK water \in BOOLEAN :
            \E w : answer' = Remembered([water |-> water, wet |-> CountsAsWet(w)])
      BY <2>2 DEF Infer, InferBatch, AnswersFrame
    <3>1. PICK w : answer' = Remembered([water |-> water, wet |-> CountsAsWet(w)])
      BY <3>0
    <3>2. CountsAsWet(w) \in BOOLEAN
      BY DEF CountsAsWet
    <3> QED
      BY <1>1, <3>1, <3>2 DEF Remembered
  <2> QED
    BY <2>1, <2>2
<1>3. /\ UNCHANGED <<file, newest, sidecar, model, kept, names, fetch, asking, alerts, asked,
                     serverStarts>>
      /\ classes' \in BOOLEAN
  BY DEF UpdateClasses, Infer, InferBatch, AnswersFrame, SwapInv
<1> QED
  BY <1>2, <1>3 DEF SwapInv, Asking

LEMMA SwapStep ==
  ASSUME SwapInv, SwapNext
  PROVE  /\ SwapInv'
         /\ (model # NoVersion /\ serverStarts' = serverStarts) => model' # NoVersion
<1>1. CASE \E f \in Fetches, v \in Versions : DeployModel(f, v) \/ CheckAtStart(f, v)
  <2>1. PICK f \in Fetches, v \in Versions, why \in {"command", "check"} : AskDownload(f, v, why)
    BY <1>1 DEF DeployModel, CheckAtStart
  <2>2. model' = model
    BY <2>1 DEF AskDownload
  <2> QED
    BY <2>1, <2>2, AskStep
<1>2. CASE \E f \in Fetches : AskerGivesUp(f) \/ AskerHears(f) \/ Unheard(f)
  BY <1>2, AskerStep
<1>3. CASE \E f \in Fetches : \/ DownloadFails(f) \/ Downloaded(f) \/ SwapBegins(f)
                              \/ SwapInstalls(f) \/ SwapFails(f)
  BY <1>3, ServerStep
<1>4. CASE RestartServer
  BY <1>4, ServerRestartStep
<1>5. CASE UpdateClasses \/ \E water \in BOOLEAN : Infer(water) \/ InferBatch(water)
  BY <1>5, AnswerStep
<1> QED
  BY <1>1, <1>2, <1>3, <1>4, <1>5 DEF SwapNext

LEMMA SwapInductive == SwapInv /\ [SwapNext]_swapVars => SwapInv'
<1>1. SwapInv /\ UNCHANGED swapVars => SwapInv'
  BY DEF SwapInv, swapVars, Asking
<1> QED
  BY <1>1, SwapStep

LEMMA SwapInvariant == SwapSpec => []SwapInv
  BY SwapInductive, SwapInitInv, PTL DEF SwapSpec

LEMMA SwapTyped == SwapInv => SwapTypeOK
<1> SUFFICES ASSUME SwapInv
             PROVE  SwapTypeOK
  OBVIOUS
<1>1. Cardinality(Asking) <= 1
  <2>1. CASE Asking = {}
    BY <2>1, FS_EmptySet
  <2>2. CASE Asking # {}
    <3>1. PICK f \in Asking : Asking = {f}
      BY <2>2 DEF SwapInv
    <3> QED
      BY <3>1, FS_Singleton
  <2> QED
    BY <2>1, <2>2
<1> QED
  BY <1>1 DEF SwapInv, SwapTypeOK, Fetch

\* The inference server's variables keep their types: one request is waited for at a
\* time, and the newest file is a file.
THEOREM SwapTypeCorrect == SwapSpec => []SwapTypeOK
  BY SwapTyped, SwapInvariant, PTL

\* A server that has a model has one until it is restarted, whatever downloads, checks
\* and swaps fail, also side by side (model_loader.py: a swap that fails puts the
\* session kept back, if there is one).
THEOREM NeverUnloadedCorrect == SwapSpec => NeverUnloaded
<1>1. SwapInv /\ [SwapNext]_swapVars =>
        [(model # NoVersion /\ serverStarts' = serverStarts) => model' # NoVersion]_swapVars
  BY SwapStep
<1> QED
  BY <1>1, SwapInvariant, PTL DEF SwapSpec, NeverUnloaded

-------------------------------------------------------------------------------
(* The switched devices *)

Toggle == [at : {"idle", "waiting", "left"}, plug : Plugs, on : BOOLEAN, alone : BOOLEAN,
           direct : BOOLEAN]
DeviceCommand == [at : {"none", "arrived", "trying"} \cup Answers, tries : 0 .. Attempts, known : BOOLEAN]

DeviceTypes ==
  /\ plugOn \subseteq Plugs /\ named \subseteq Plugs /\ offline \subseteq Plugs
  /\ heard \subseteq Plugs /\ refused \subseteq Plugs
  /\ status \in [Plugs -> {"online", "triggered", "offline", "error"}]
  /\ call \in [Callers -> Toggle] /\ command \in [Callers -> DeviceCommand]
  /\ failed \in [Plugs -> 0 .. OfflineAfter]
  /\ renames \in 0 .. MaxRenames
  /\ \A t \in Callers : command[t].at \in {"arrived", "trying"} => command[t].tries < Attempts

LimiterTypes ==
  /\ DOMAIN triggers = Plugs
  /\ \A p \in Plugs : triggers[p] \in [0 .. Minute - 1 -> 0 .. TriggerLimit]

\* A command at the edge belongs to a toggle that is under way or was left behind.
Owned == \A t \in Callers : command[t].at # "none" => call[t].at # "idle"
\* A toggle that counts as alone has no other beside it on its plug.
AloneOK ==
  \A t, u \in Callers :
    t # u /\ call[t].at # "idle" /\ call[u].at # "idle" /\ call[t].alone =>
      call[u].plug # call[t].plug
\* Nothing is under way on a plug the cloud has heard of.
QuietOK == \A p \in heard : \A t \in Callers : call[t].at # "idle" => call[t].plug # p
\* The plug is as the toggle wants it when it was done and was alone, unless it refused.
DoneOK ==
  \A t \in Callers :
    command[t].at = "ok" /\ call[t].alone /\ call[t].plug \notin refused =>
      (call[t].on <=> call[t].plug \in plugOn)

DeviceInv ==
  DeviceTypes /\ LimiterTypes /\ Owned /\ AloneOK /\ QuietOK /\ DoneOK /\ ShownAsHeard

LEMMA NoCallTypes ==
  /\ NoCall \in Toggle /\ NoCall.at = "idle" /\ NoCall.alone = FALSE
  /\ NoCommand \in DeviceCommand /\ NoCommand.at = "none"
  BY DeviceAssumption DEF NoCall, NoCommand, Toggle, DeviceCommand, Answers

LEMMA DeviceInitInv ==
  ASSUME DeviceInit
  PROVE  DeviceInv
<1>1. DeviceTypes
  BY NoCallTypes, DeviceAssumption DEF DeviceInit, DeviceTypes
<1>2. LimiterTypes
  BY DeviceAssumption DEF DeviceInit, LimiterTypes
<1>3. Owned /\ AloneOK /\ QuietOK /\ DoneOK /\ ShownAsHeard
  BY NoCallTypes DEF DeviceInit, Owned, AloneOK, QuietOK, DoneOK, ShownAsHeard
<1> QED
  BY <1>1, <1>2, <1>3 DEF DeviceInv

\* A toggle, or a direct request
LEMMA SwitchStep ==
  ASSUME DeviceInv, NEW t \in Callers, NEW p \in Plugs, NEW on \in BOOLEAN,
         NEW direct \in BOOLEAN, Ask(t, p, on, direct)
  PROVE  DeviceInv'
<1>1. DeviceTypes /\ LimiterTypes /\ Owned /\ AloneOK /\ QuietOK /\ DoneOK /\ ShownAsHeard
  BY DEF DeviceInv
<1>2. PICK new : new = [at |-> "waiting", plug |-> p, on |-> on,
                        alone |-> ~direct /\ Others(t, p) = {}, direct |-> direct]
  OBVIOUS
<1>3. PICK fresh : fresh = [at |-> "arrived", tries |-> 0, known |-> p \in named]
  OBVIOUS
<1>4. /\ new \in Toggle /\ new.at = "waiting" /\ new.plug = p
      /\ (new.alone => Others(t, p) = {})
  BY <1>2 DEF Toggle
<1>5. fresh \in DeviceCommand /\ fresh.at = "arrived" /\ fresh.tries = 0
  BY <1>3, DeviceAssumption DEF DeviceCommand
<1>6. /\ command' = [command EXCEPT ![t] = fresh]
      /\ heard' = heard \ {p} /\ refused' = refused \ {p} /\ call[t].at = "idle"
      /\ UNCHANGED <<plugOn, status, named, failed, offline, triggers, renames>>
  BY <1>3 DEF Ask
<1>7. /\ call' \in [Callers -> Toggle] /\ call'[t] = new
      /\ \A u \in Callers \ {t} :
           /\ call'[u].at = call[u].at /\ call'[u].plug = call[u].plug
           /\ (call'[u].on <=> call[u].on)
           /\ (call'[u].alone <=> call[u].alone /\ u \notin Others(t, p))
  <2>1. call' = [u \in Callers |->
          IF u = t THEN new
          ELSE IF u \in Others(t, p) THEN [call[u] EXCEPT !.alone = FALSE] ELSE call[u]]
    BY <1>2 DEF Ask
  <2>2. \A u \in Callers : call[u] \in Toggle
    BY <1>1 DEF DeviceTypes
  <2>3. \A u \in Callers :
          /\ [call[u] EXCEPT !.alone = FALSE] \in Toggle
          /\ [call[u] EXCEPT !.alone = FALSE].at = call[u].at
          /\ [call[u] EXCEPT !.alone = FALSE].plug = call[u].plug
          /\ ([call[u] EXCEPT !.alone = FALSE].on <=> call[u].on)
          /\ ~[call[u] EXCEPT !.alone = FALSE].alone
    BY <2>2 DEF Toggle
  <2>4. \A u \in Callers \ {t} :
          \/ u \notin Others(t, p) /\ call'[u] = call[u]
          \/ u \in Others(t, p) /\ call'[u] = [call[u] EXCEPT !.alone = FALSE]
    BY <2>1
  <2>5. call' \in [Callers -> Toggle] /\ call'[t] = new
    BY <1>4, <2>1, <2>2, <2>3
  <2> QED
    BY <2>3, <2>4, <2>5
<1>8. /\ command' \in [Callers -> DeviceCommand] /\ command'[t] = fresh
      /\ \A u \in Callers \ {t} : command'[u] = command[u]
  BY <1>1, <1>5, <1>6 DEF DeviceTypes
<1>9. DeviceTypes'
  BY <1>1, <1>5, <1>6, <1>7, <1>8, DeviceAssumption DEF DeviceTypes
<1>10. LimiterTypes'
  BY <1>1, <1>6 DEF LimiterTypes
<1>11. Owned'
  BY <1>1, <1>4, <1>7, <1>8 DEF Owned
<1>12. AloneOK'
  <2>1. \A u \in Callers \ {t} : call[u].at # "idle" /\ call[u].plug = p => u \in Others(t, p)
    BY DEF Others, Target
  <2> QED
    BY <1>1, <1>4, <1>7, <2>1 DEF AloneOK
<1>13. QuietOK'
  BY <1>1, <1>4, <1>6, <1>7 DEF QuietOK
<1>14. DoneOK'
  <2> SUFFICES ASSUME NEW u \in Callers, command'[u].at = "ok", call'[u].alone,
                      call'[u].plug \notin refused'
               PROVE  call'[u].on <=> call'[u].plug \in plugOn'
    BY DEF DoneOK
  <2>1. u # t /\ command[u].at = "ok" /\ call[u].alone /\ u \notin Others(t, p)
    BY <1>5, <1>7, <1>8
  <2>2. call[u].plug # p
    BY <1>1, <2>1 DEF Owned, Others, Target
  <2> QED
    BY <1>1, <1>6, <1>7, <2>1, <2>2 DEF DoneOK
<1>15. ShownAsHeard'
  BY <1>1, <1>6 DEF ShownAsHeard
<1> QED
  BY <1>9, <1>10, <1>11, <1>12, <1>13, <1>14, <1>15 DEF DeviceInv

\* A toggle that is over leaves nothing at the edge.
LEMMA ToggleOver ==
  ASSUME DeviceTypes, Owned, AloneOK, NEW t \in Callers,
         call' = [call EXCEPT ![t] = NoCall], command' = [command EXCEPT ![t] = NoCommand]
  PROVE  /\ call' \in [Callers -> Toggle] /\ command' \in [Callers -> DeviceCommand]
         /\ \A u \in Callers : command'[u].at \in {"arrived", "trying"} => command'[u].tries < Attempts
         /\ call'[t].at = "idle" /\ command'[t].at = "none"
         /\ \A u \in Callers \ {t} : call'[u] = call[u] /\ command'[u] = command[u]
         /\ Owned' /\ AloneOK'
<1>1. /\ call' \in [Callers -> Toggle] /\ command' \in [Callers -> DeviceCommand]
      /\ call'[t].at = "idle" /\ command'[t].at = "none"
      /\ \A u \in Callers \ {t} : call'[u] = call[u] /\ command'[u] = command[u]
  BY NoCallTypes DEF DeviceTypes
<1> QED
  BY <1>1 DEF DeviceTypes, Owned, AloneOK

\* A refused connection, a status written on an answer, and an answer passed on
LEMMA ToggleEndStep ==
  ASSUME DeviceInv, NEW t \in Callers,
         ToggleFails(t) \/ ToggleAnswered(t) \/ DirectlyAnswered(t)
  PROVE  DeviceInv'
<1>1. DeviceTypes /\ LimiterTypes /\ Owned /\ AloneOK /\ QuietOK /\ DoneOK /\ ShownAsHeard
  BY DEF DeviceInv
<1>2. /\ call' = [call EXCEPT ![t] = NoCall] /\ command' = [command EXCEPT ![t] = NoCommand]
      /\ call[t].at = "waiting"
      /\ UNCHANGED <<plugOn, named, failed, offline, refused, triggers, renames>>
  BY DEF ToggleFails, ToggleAnswered, DirectlyAnswered
<1>3. /\ call' \in [Callers -> Toggle] /\ command' \in [Callers -> DeviceCommand]
      /\ \A u \in Callers : command'[u].at \in {"arrived", "trying"} => command'[u].tries < Attempts
      /\ call'[t].at = "idle" /\ command'[t].at = "none"
      /\ \A u \in Callers \ {t} : call'[u] = call[u] /\ command'[u] = command[u]
      /\ Owned' /\ AloneOK'
  BY <1>1, <1>2, ToggleOver
<1>4. call[t].plug \in Plugs /\ \A u \in Callers : call[u] \in Toggle
  BY <1>1 DEF DeviceTypes, Toggle
<1>5. DoneOK'
  BY <1>1, <1>2, <1>3 DEF DoneOK
<1>6. LimiterTypes'
  BY <1>1, <1>2 DEF LimiterTypes
<1>7. CASE ToggleFails(t) \/ DirectlyAnswered(t)
  <2>1. status' = status /\ heard' = heard
    BY <1>7 DEF ToggleFails, DirectlyAnswered
  <2>2. DeviceTypes'
    BY <1>1, <1>2, <1>3, <2>1 DEF DeviceTypes
  <2>3. QuietOK' /\ ShownAsHeard'
    BY <1>1, <1>2, <1>3, <2>1 DEF QuietOK, ShownAsHeard
  <2> QED
    BY <1>3, <1>5, <1>6, <2>2, <2>3 DEF DeviceInv
<1>8. CASE ToggleAnswered(t)
  <2>1. /\ status' = [status EXCEPT ![call[t].plug] = NewStatus(t)]
        /\ \/ heard' = heard
           \/ call[t].alone /\ command[t].at = "ok" /\ heard' = heard \cup {call[t].plug}
    BY <1>8 DEF ToggleAnswered, Target
  <2>2. /\ NewStatus(t) \in {"triggered", "offline"}
        /\ (NewStatus(t) = "triggered" <=> call[t].on)
    BY DEF NewStatus
  <2>3. DeviceTypes'
    BY <1>1, <1>2, <1>3, <1>4, <2>1, <2>2 DEF DeviceTypes
  <2>4. call[t].plug \notin heard
    BY <1>1, <1>2 DEF QuietOK
  <2>5. QuietOK'
    BY <1>1, <1>2, <1>3, <1>4, <2>1, <2>4 DEF QuietOK, AloneOK
  <2>6. \A p \in heard : status'[p] = status[p]
    BY <1>1, <2>1, <2>4 DEF DeviceTypes
  <2>7. status'[call[t].plug] = NewStatus(t)
    BY <1>1, <1>4, <2>1 DEF DeviceTypes
  <2>8. ShownAsHeard'
    BY <1>1, <1>2, <2>1, <2>2, <2>6, <2>7 DEF ShownAsHeard, DoneOK
  <2> QED
    BY <1>3, <1>5, <1>6, <2>3, <2>5, <2>8 DEF DeviceInv
<1> QED
  BY <1>7, <1>8

\* The cloud stops waiting.
LEMMA TimeOutStep ==
  ASSUME DeviceInv, NEW t \in Callers, ToggleTimesOut(t)
  PROVE  DeviceInv'
<1>1. DeviceTypes /\ LimiterTypes /\ Owned /\ AloneOK /\ QuietOK /\ DoneOK /\ ShownAsHeard
  BY DEF DeviceInv
<1>2. PICK left : left = [call[t] EXCEPT !.at = "left"]
  OBVIOUS
<1>3. /\ left \in Toggle /\ left.at = "left" /\ left.plug = call[t].plug
      /\ (left.on <=> call[t].on) /\ (left.alone <=> call[t].alone)
  BY <1>1, <1>2 DEF DeviceTypes, Toggle
<1>4. /\ call' = [call EXCEPT ![t] = left] /\ call[t].at = "waiting"
      /\ UNCHANGED <<plugOn, status, named, command, failed, offline, heard, refused, triggers, renames>>
  BY <1>1, <1>2 DEF ToggleTimesOut, DeviceTypes
<1>5. /\ call' \in [Callers -> Toggle] /\ call'[t] = left
      /\ \A u \in Callers \ {t} : call'[u] = call[u]
  BY <1>1, <1>3, <1>4 DEF DeviceTypes
<1>6. DeviceTypes' /\ LimiterTypes'
  BY <1>1, <1>4, <1>5 DEF DeviceTypes, LimiterTypes
<1>7. Owned' /\ AloneOK' /\ QuietOK'
  BY <1>1, <1>3, <1>4, <1>5 DEF Owned, AloneOK, QuietOK
<1>8. DoneOK' /\ ShownAsHeard'
  BY <1>1, <1>3, <1>4, <1>5 DEF DoneOK, ShownAsHeard
<1> QED
  BY <1>6, <1>7, <1>8 DEF DeviceInv

\* The steps at one plug that are no toggle
LEMMA PlugStep ==
  ASSUME DeviceInv, NEW p \in Plugs, DeletePlug(p) \/ RegisterPlug(p) \/ RenamePlug(p)
  PROVE  DeviceInv'
<1>1. DeviceTypes /\ LimiterTypes /\ Owned /\ AloneOK /\ QuietOK /\ DoneOK /\ ShownAsHeard
  BY DEF DeviceInv
<1>2. /\ UNCHANGED <<plugOn, call, refused, triggers>>
      /\ heard' \subseteq heard /\ \A q \in heard' : status'[q] = status[q]
      /\ status' \in [Plugs -> {"online", "triggered", "offline", "error"}]
  BY <1>1 DEF DeletePlug, RegisterPlug, RenamePlug, DeviceTypes
<1>3. /\ command' \in [Callers -> DeviceCommand]
      /\ \A t \in Callers : command'[t].at = command[t].at /\ command'[t].tries = command[t].tries
  <2>1. \/ command' = command
        \/ command' = [t \in Callers |-> [command[t] EXCEPT !.known = @ /\ Target(t) # p]]
    BY DEF DeletePlug, RegisterPlug, RenamePlug
  <2>2. \A t \in Callers : command[t] \in DeviceCommand
    BY <1>1 DEF DeviceTypes
  <2>3. \A t \in Callers :
          /\ [command[t] EXCEPT !.known = @ /\ Target(t) # p] \in DeviceCommand
          /\ [command[t] EXCEPT !.known = @ /\ Target(t) # p].at = command[t].at
          /\ [command[t] EXCEPT !.known = @ /\ Target(t) # p].tries = command[t].tries
    BY <2>2 DEF DeviceCommand
  <2> QED
    BY <1>1, <2>1, <2>3, ZenonT(40) DEF DeviceTypes
<1>4. DeviceTypes'
  <2>1. renames' \in 0 .. MaxRenames
    BY <1>1, DeviceAssumption DEF DeletePlug, RegisterPlug, RenamePlug, DeviceTypes
  <2>2. /\ failed' \in [Plugs -> 0 .. OfflineAfter] /\ named' \subseteq Plugs
        /\ offline' \subseteq Plugs
    BY <1>1, DeviceAssumption DEF DeletePlug, RegisterPlug, RenamePlug, DeviceTypes
  <2> QED
    BY <1>1, <1>2, <1>3, <2>1, <2>2 DEF DeviceTypes
<1>5. LimiterTypes' /\ Owned' /\ AloneOK' /\ QuietOK' /\ DoneOK' /\ ShownAsHeard'
  BY <1>1, <1>2, <1>3 DEF LimiterTypes, Owned, AloneOK, QuietOK, DoneOK, ShownAsHeard
<1> QED
  BY <1>4, <1>5 DEF DeviceInv

\* A command that ends: its answer waits for the toggle, or the toggle that was left
\* behind is over.
LEMMA EndsEffect ==
  ASSUME DeviceTypes, Owned, AloneOK, QuietOK, NEW t \in Callers, NEW result \in Answers,
         command[t].at # "none", Ends(t, result), heard' = heard
  PROVE  /\ call' \in [Callers -> Toggle] /\ command' \in [Callers -> DeviceCommand]
         /\ \A u \in Callers : command'[u].at \in {"arrived", "trying"} => command'[u].tries < Attempts
         /\ \A u \in Callers \ {t} : call'[u] = call[u] /\ command'[u] = command[u]
         /\ \/ call'[t].at = "idle" /\ command'[t].at = "none"
            \/ call'[t] = call[t] /\ command'[t].at = result
         /\ Owned' /\ AloneOK' /\ QuietOK'
<1>0. call[t].at # "idle" /\ result \notin {"arrived", "trying", "none"}
  BY DEF Owned, Answers
<1>1. CASE call[t].at = "left"
  <2>1. call' = [call EXCEPT ![t] = NoCall] /\ command' = [command EXCEPT ![t] = NoCommand]
    BY <1>1 DEF Ends
  <2>2. /\ call' \in [Callers -> Toggle] /\ command' \in [Callers -> DeviceCommand]
        /\ \A u \in Callers : command'[u].at \in {"arrived", "trying"} => command'[u].tries < Attempts
        /\ call'[t].at = "idle" /\ command'[t].at = "none"
        /\ \A u \in Callers \ {t} : call'[u] = call[u] /\ command'[u] = command[u]
        /\ Owned' /\ AloneOK'
    BY <2>1, ToggleOver
  <2>3. QuietOK'
    BY <2>2 DEF QuietOK
  <2> QED
    BY <2>2, <2>3
<1>2. CASE call[t].at # "left"
  <2>1. PICK done : done = [NoCommand EXCEPT !.at = result]
    OBVIOUS
  <2>2. done \in DeviceCommand /\ done.at = result
    BY <2>1, NoCallTypes DEF DeviceCommand
  <2>3. command' = [command EXCEPT ![t] = done] /\ call' = call
    BY <1>2, <2>1 DEF Ends
  <2>4. /\ command' \in [Callers -> DeviceCommand] /\ command'[t] = done
        /\ \A u \in Callers \ {t} : command'[u] = command[u]
    BY <2>2, <2>3 DEF DeviceTypes
  <2>5. \A u \in Callers : command'[u].at \in {"arrived", "trying"} => command'[u].tries < Attempts
    BY <1>0, <2>2, <2>4 DEF DeviceTypes
  <2>6. Owned' /\ AloneOK' /\ QuietOK'
    BY <1>0, <2>2, <2>3, <2>4 DEF Owned, AloneOK, QuietOK
  <2> QED
    BY <2>2, <2>3, <2>4, <2>5, <2>6 DEF DeviceTypes
<1> QED
  BY <1>1, <1>2

LEMMA TakeStep ==
  ASSUME DeviceInv, NEW t \in Callers, TakeCommand(t)
  PROVE  DeviceInv'
<1>1. DeviceTypes /\ LimiterTypes /\ Owned /\ AloneOK /\ QuietOK /\ DoneOK /\ ShownAsHeard
  BY DEF DeviceInv
<1>2. /\ command[t].at = "arrived"
      /\ UNCHANGED <<plugOn, status, named, failed, offline, heard, refused, triggers, renames>>
  BY DEF TakeCommand
<1>3. LimiterTypes' /\ ShownAsHeard'
  BY <1>1, <1>2 DEF LimiterTypes, ShownAsHeard
<1>4. CASE command[t].known
  <2>1. PICK next : next = [command[t] EXCEPT !.at = "trying"]
    OBVIOUS
  <2>2. next \in DeviceCommand /\ next.at = "trying" /\ next.tries = command[t].tries
    BY <1>1, <2>1 DEF DeviceTypes, DeviceCommand
  <2>3. command' = [command EXCEPT ![t] = next] /\ call' = call
    BY <1>1, <1>4, <2>1 DEF TakeCommand, DeviceTypes
  <2>4. /\ command' \in [Callers -> DeviceCommand] /\ command'[t] = next
        /\ \A u \in Callers \ {t} : command'[u] = command[u]
    BY <1>1, <2>2, <2>3 DEF DeviceTypes
  <2>5. DeviceTypes'
    BY <1>1, <1>2, <2>2, <2>3, <2>4 DEF DeviceTypes
  <2>6. Owned' /\ AloneOK' /\ QuietOK' /\ DoneOK'
    BY <1>1, <1>2, <2>2, <2>3, <2>4 DEF Owned, AloneOK, QuietOK, DoneOK
  <2> QED
    BY <1>3, <2>5, <2>6 DEF DeviceInv
<1>5. CASE ~command[t].known
  <2>1. Ends(t, "unsupported") /\ "unsupported" \in Answers
    BY <1>5 DEF TakeCommand, Answers
  <2>2. /\ call' \in [Callers -> Toggle] /\ command' \in [Callers -> DeviceCommand]
        /\ \A u \in Callers : command'[u].at \in {"arrived", "trying"} => command'[u].tries < Attempts
        /\ \A u \in Callers \ {t} : call'[u] = call[u] /\ command'[u] = command[u]
        /\ \/ call'[t].at = "idle" /\ command'[t].at = "none"
           \/ call'[t] = call[t] /\ command'[t].at = "unsupported"
        /\ Owned' /\ AloneOK' /\ QuietOK'
    BY <1>1, <1>2, <2>1, EndsEffect
  <2>3. DeviceTypes' /\ DoneOK'
    BY <1>1, <1>2, <2>2 DEF DeviceTypes, DoneOK
  <2> QED
    BY <1>3, <2>2, <2>3 DEF DeviceInv
<1> QED
  BY <1>4, <1>5

\* What an attempt may change on the plug: it has the state the toggle asks for, and no
\* plug the cloud has heard of changes.
LEMMA SwitchedPlug ==
  ASSUME DeviceInv, NEW t \in Callers, command[t].at = "trying", plugOn' \in {plugOn, Switched(t)}
  PROVE  /\ call[t].at # "idle" /\ call[t].plug \in Plugs /\ plugOn' \subseteq Plugs
         /\ \A p \in Plugs \ {call[t].plug} : p \in plugOn' <=> p \in plugOn
         /\ plugOn' = Switched(t) => (call[t].plug \in plugOn' <=> call[t].on)
         /\ call[t].plug \notin heard
<1>1. call[t].at # "idle"
  BY DEF DeviceInv, Owned
<1>2. call[t].plug \in Plugs /\ plugOn \subseteq Plugs
  BY DEF DeviceInv, DeviceTypes, Toggle
<1> QED
  BY <1>1, <1>2 DEF Switched, Target, DeviceInv, QuietOK

\* The attempt works, or the last one fails.
LEMMA LastAttempt ==
  ASSUME DeviceInv, NEW t \in Callers, command[t].at = "trying",
         plugOn' \in {plugOn, Switched(t)}, NEW result \in Answers,
         refused' \in SUBSET Plugs, \A p \in Plugs \ {call[t].plug} : p \in refused' <=> p \in refused,
         result = "ok" /\ call[t].plug \notin refused' => plugOn' = Switched(t),
         failed' \in [Plugs -> 0 .. OfflineAfter], offline' \subseteq Plugs, Ends(t, result),
         UNCHANGED <<status, named, heard, triggers, renames>>
  PROVE  DeviceInv'
<1>1. DeviceTypes /\ LimiterTypes /\ Owned /\ AloneOK /\ QuietOK /\ DoneOK /\ ShownAsHeard
  BY DEF DeviceInv
<1>2. /\ call' \in [Callers -> Toggle] /\ command' \in [Callers -> DeviceCommand]
      /\ \A u \in Callers : command'[u].at \in {"arrived", "trying"} => command'[u].tries < Attempts
      /\ \A u \in Callers \ {t} : call'[u] = call[u] /\ command'[u] = command[u]
      /\ \/ call'[t].at = "idle" /\ command'[t].at = "none"
         \/ call'[t] = call[t] /\ command'[t].at = result
      /\ Owned' /\ AloneOK' /\ QuietOK'
  BY <1>1, EndsEffect
<1>3. /\ call[t].at # "idle" /\ call[t].plug \in Plugs /\ plugOn' \subseteq Plugs
      /\ \A p \in Plugs \ {call[t].plug} : p \in plugOn' <=> p \in plugOn
      /\ plugOn' = Switched(t) => (call[t].plug \in plugOn' <=> call[t].on)
      /\ call[t].plug \notin heard
  BY SwitchedPlug
<1>4. DeviceTypes' /\ LimiterTypes'
  BY <1>1, <1>2, <1>3 DEF DeviceTypes, LimiterTypes
<1>5. ShownAsHeard'
  BY <1>1, <1>3 DEF ShownAsHeard, DeviceTypes
<1>6. DoneOK'
  <2> SUFFICES ASSUME NEW u \in Callers, command'[u].at = "ok", call'[u].alone,
                      call'[u].plug \notin refused'
               PROVE  call'[u].on <=> call'[u].plug \in plugOn'
    BY DEF DoneOK
  <2>1. CASE u = t
    BY <1>2, <1>3, <2>1
  <2>2. CASE u # t
    <3>1. command[u].at = "ok" /\ call[u].alone /\ call[u].at # "idle" /\ call[u] \in Toggle
      BY <1>1, <1>2, <2>2 DEF Owned, DeviceTypes
    <3>2. call[u].plug # call[t].plug
      BY <1>1, <1>3, <2>2, <3>1 DEF AloneOK
    <3>3. call[u].plug \in Plugs
      BY <3>1 DEF Toggle
    <3> QED
      BY <1>1, <1>2, <1>3, <2>2, <3>1, <3>2, <3>3 DEF DoneOK
  <2> QED
    BY <2>1, <2>2
<1> QED
  BY <1>2, <1>4, <1>5, <1>6 DEF DeviceInv

LEMMA AttemptStep ==
  ASSUME DeviceInv, NEW t \in Callers, AttemptWorks(t) \/ AttemptFails(t)
  PROVE  DeviceInv'
<1>1. DeviceTypes /\ LimiterTypes /\ Owned /\ AloneOK /\ QuietOK /\ DoneOK /\ ShownAsHeard
  BY DEF DeviceInv
<1>2. /\ command[t].at = "trying" /\ plugOn' \in {plugOn, Switched(t)}
      /\ UNCHANGED <<status, named, heard, triggers, renames>>
  BY DEF AttemptWorks, AttemptFails
<1>3. CASE AttemptWorks(t)
  <2>0. call[t].plug \in Plugs /\ Target(t) = call[t].plug
    BY <1>1 DEF DeviceTypes, Toggle, Target
  <2>1. /\ Ends(t, "ok") /\ "ok" \in Answers
        /\ \/ plugOn' = Switched(t) /\ refused' = refused \ {Target(t)}
           \/ refused' = refused \cup {Target(t)}
        /\ failed' = [failed EXCEPT ![Target(t)] = 0] /\ offline' = offline \ {Target(t)}
    BY <1>3 DEF AttemptWorks, Answers
  <2>2. 0 \in 0 .. OfflineAfter
    BY DeviceAssumption
  <2>3. failed' \in [Plugs -> 0 .. OfflineAfter]
    BY <1>1, <2>1, <2>2 DEF DeviceTypes
  <2>4. offline' \subseteq Plugs
    BY <1>1, <2>1 DEF DeviceTypes
  <2>5. /\ refused' \in SUBSET Plugs
        /\ \A p \in Plugs \ {call[t].plug} : p \in refused' <=> p \in refused
        /\ call[t].plug \notin refused' => plugOn' = Switched(t)
    BY <1>1, <2>0, <2>1 DEF DeviceTypes
  <2> QED
    BY <1>2, <2>1, <2>3, <2>4, <2>5, LastAttempt
<1>4. CASE AttemptFails(t) /\ command[t].tries + 1 = Attempts
  <2> DEFINE count == IF failed[Target(t)] < OfflineAfter THEN failed[Target(t)] + 1
                      ELSE failed[Target(t)]
  <2>1. /\ Ends(t, "failed") /\ "failed" \in Answers
        /\ failed' = [failed EXCEPT ![Target(t)] = count]
        /\ offline' \in {offline, offline \cup {Target(t)}} /\ refused' = refused
    BY <1>4 DEF AttemptFails, GaveUpAnswer, Answers
  <2>2. Target(t) \in Plugs
    BY <1>1 DEF Target, DeviceTypes, Toggle
  <2>3. count \in 0 .. OfflineAfter
    BY <1>1, <2>2, DeviceAssumption DEF DeviceTypes
  <2> HIDE DEF count
  <2>4. failed' \in [Plugs -> 0 .. OfflineAfter] /\ offline' \subseteq Plugs
    BY <1>1, <2>1, <2>2, <2>3 DEF DeviceTypes
  <2>5. "failed" # "ok" /\ refused' \in SUBSET Plugs
    BY <1>1, <2>1 DEF DeviceTypes
  <2> QED
    BY <1>2, <2>1, <2>4, <2>5, LastAttempt
<1>5. CASE AttemptFails(t) /\ command[t].tries + 1 # Attempts
  <2>1. PICK next : next = [command[t] EXCEPT !.tries = @ + 1]
    OBVIOUS
  <2>2. command[t] \in DeviceCommand /\ command[t].tries < Attempts
    BY <1>1, <1>2 DEF DeviceTypes
  <2>3. command[t].tries + 1 \in 0 .. Attempts /\ command[t].tries + 1 < Attempts
    BY <1>5, <2>2, DeviceAssumption DEF DeviceCommand
  <2>4. next \in DeviceCommand /\ next.at = "trying" /\ next.tries < Attempts
    BY <1>2, <2>1, <2>2, <2>3 DEF DeviceCommand
  <2>5. command' = [command EXCEPT ![t] = next] /\ UNCHANGED <<failed, offline, call, refused>>
    BY <1>1, <1>5, <2>1 DEF AttemptFails, DeviceTypes
  <2>6. /\ command' \in [Callers -> DeviceCommand] /\ command'[t] = next
        /\ \A u \in Callers \ {t} : command'[u] = command[u]
    BY <1>1, <2>4, <2>5 DEF DeviceTypes
  <2>7. /\ call[t].at # "idle" /\ call[t].plug \in Plugs /\ plugOn' \subseteq Plugs
        /\ \A p \in Plugs \ {call[t].plug} : p \in plugOn' <=> p \in plugOn
        /\ call[t].plug \notin heard
    BY <1>2, SwitchedPlug
  <2>8. DeviceTypes' /\ LimiterTypes'
    BY <1>1, <1>2, <2>4, <2>5, <2>6, <2>7 DEF DeviceTypes, LimiterTypes
  <2>9. Owned' /\ AloneOK' /\ QuietOK'
    BY <1>1, <1>2, <2>4, <2>5, <2>6, <2>7 DEF Owned, AloneOK, QuietOK
  <2>10. ShownAsHeard'
    BY <1>1, <1>2, <2>5, <2>7 DEF ShownAsHeard, DeviceTypes
  <2>11. DoneOK'
    <3> SUFFICES ASSUME NEW u \in Callers, command'[u].at = "ok", call'[u].alone,
                        call'[u].plug \notin refused'
                 PROVE  call'[u].on <=> call'[u].plug \in plugOn'
      BY DEF DoneOK
    <3>1. u # t /\ command[u].at = "ok" /\ call[u].alone
      BY <2>4, <2>5, <2>6
    <3>2. call[u].at # "idle" /\ call[u].plug \in Plugs
      BY <1>1, <3>1 DEF Owned, DeviceTypes, Toggle
    <3>3. call[u].plug # call[t].plug
      BY <1>1, <2>7, <3>1, <3>2 DEF AloneOK
    <3> QED
      BY <1>1, <2>5, <2>7, <3>1, <3>2, <3>3 DEF DoneOK
  <2> QED
    BY <2>8, <2>9, <2>10, <2>11 DEF DeviceInv
<1> QED
  BY <1>3, <1>4, <1>5

\* The limiter lets a trigger through only while fewer than its limit are remembered,
\* so that those of the last second are fewer too.
LEMMA UnderTheLimit ==
  ASSUME LimiterTypes, NEW p \in Plugs, UnderLimit(p), Minute > 0
  PROVE  triggers[p][0] < TriggerLimit
<1> SUFFICES ASSUME ~(triggers[p][0] < TriggerLimit)
             PROVE  FALSE
  OBVIOUS
<1>1. /\ Minute \in Nat /\ TriggerLimit \in Nat /\ 0 \in 0 .. Minute - 1
      /\ triggers[p][0] \in 0 .. TriggerLimit
  BY DeviceAssumption DEF LimiterTypes
<1>2. triggers[p][0] = TriggerLimit
  BY <1>1
<1>3. /\ IsFiniteSet(0 .. Minute - 1) /\ IsFiniteSet(1 .. TriggerLimit)
      /\ Cardinality(1 .. TriggerLimit) = TriggerLimit
  <2>1. 0 \in Int /\ 1 \in Int /\ Minute - 1 \in Int /\ TriggerLimit \in Int
    BY <1>1
  <2>2. IsFiniteSet(0 .. Minute - 1) /\ IsFiniteSet(1 .. TriggerLimit)
    BY <2>1, FS_Interval
  <2>3. Cardinality(1 .. TriggerLimit) = IF 1 > TriggerLimit THEN 0 ELSE TriggerLimit - 1 + 1
    BY <2>1, FS_Interval
  <2> QED
    BY <1>1, <2>2, <2>3
<1>4. IsFiniteSet({0}) /\ Cardinality({0}) = 1
  BY FS_Singleton
<1>5. IsFiniteSet((0 .. Minute - 1) \X (1 .. TriggerLimit))
  BY <1>3, FS_Product
<1>6. Cardinality({0} \X (1 .. TriggerLimit)) = 1 * TriggerLimit
  BY <1>3, <1>4, FS_Product, ZenonT(40)
<1>7. Recently(p) \subseteq (0 .. Minute - 1) \X (1 .. TriggerLimit)
  BY DEF Recently
<1>8. {0} \X (1 .. TriggerLimit) \subseteq Recently(p)
  BY <1>1, <1>2 DEF Recently
<1>9. IsFiniteSet(Recently(p))
  BY <1>5, <1>7, FS_Subset
<1>10. Cardinality({0} \X (1 .. TriggerLimit)) <= Cardinality(Recently(p))
  BY <1>8, <1>9, FS_Subset
<1>11. Cardinality(Recently(p)) \in Nat
  BY <1>9, FS_CardinalityType
<1> QED
  BY <1>1, <1>6, <1>10, <1>11 DEF UnderLimit

LEMMA TriggerStep ==
  ASSUME DeviceInv, (\E p \in Plugs : TriggerPlug(p)) \/ SecondsPass
  PROVE  DeviceInv'
<1>1. DeviceTypes /\ LimiterTypes /\ Owned /\ AloneOK /\ QuietOK /\ DoneOK /\ ShownAsHeard
  BY DEF DeviceInv
<1>2. UNCHANGED <<plugOn, status, named, call, command, failed, offline, heard, refused, renames>>
  BY DEF TriggerPlug, SecondsPass
<1>3. LimiterTypes'
  <2>1. ASSUME NEW p \in Plugs, TriggerPlug(p)
        PROVE  LimiterTypes'
    <3>1. PICK row : row = [triggers[p] EXCEPT ![0] = @ + 1]
      OBVIOUS
    <3>2. triggers' = [triggers EXCEPT ![p] = row]
      BY <1>1, <2>1, <3>1 DEF TriggerPlug, LimiterTypes
    <3>3. row \in [0 .. Minute - 1 -> 0 .. TriggerLimit]
      <4>1. triggers[p] \in [0 .. Minute - 1 -> 0 .. TriggerLimit]
        BY <1>1 DEF LimiterTypes
      <4>2. CASE Minute > 0
        <5>1. triggers[p][0] < TriggerLimit
          BY <1>1, <2>1, <4>2, UnderTheLimit DEF TriggerPlug
        <5>2. triggers[p][0] + 1 \in 0 .. TriggerLimit
          BY <4>1, <4>2, <5>1, DeviceAssumption
        <5> QED
          BY <3>1, <4>1, <5>2
      <4>3. CASE ~(Minute > 0)
        <5>1. 0 \notin 0 .. Minute - 1
          BY <4>3, DeviceAssumption
        <5> QED
          BY <3>1, <4>1, <5>1
      <4> QED
        BY <4>2, <4>3
    <3> QED
      BY <1>1, <3>2, <3>3 DEF LimiterTypes
  <2>2. ASSUME SecondsPass
        PROVE  LimiterTypes'
    <3>1. \A p \in Plugs : \A a \in 0 .. Minute - 1 :
            (IF a = 0 THEN 0 ELSE triggers[p][a - 1]) \in 0 .. TriggerLimit
      <4> TAKE p \in Plugs
      <4> TAKE a \in 0 .. Minute - 1
      <4>1. a # 0 => a - 1 \in 0 .. Minute - 1
        BY DeviceAssumption
      <4> QED
        BY <1>1, <4>1, DeviceAssumption DEF LimiterTypes
    <3> QED
      BY <2>2, <3>1 DEF SecondsPass, LimiterTypes
  <2> QED
    BY <2>1, <2>2
<1>4. DeviceTypes' /\ Owned' /\ AloneOK' /\ QuietOK' /\ DoneOK' /\ ShownAsHeard'
  BY <1>1, <1>2 DEF DeviceTypes, Owned, AloneOK, QuietOK, DoneOK, ShownAsHeard
<1> QED
  BY <1>3, <1>4 DEF DeviceInv

LEMMA DeviceInductive == DeviceInv /\ [DeviceNext]_deviceVars => DeviceInv'
<1> SUFFICES ASSUME DeviceInv, [DeviceNext]_deviceVars
             PROVE  DeviceInv'
  OBVIOUS
<1>1. CASE \E t \in Callers, p \in Plugs, on \in BOOLEAN : AskToggle(t, p, on) \/ AskDirectly(t, p, on)
  <2>1. PICK t \in Callers, p \in Plugs, on \in BOOLEAN : Ask(t, p, on, FALSE) \/ Ask(t, p, on, TRUE)
    BY <1>1 DEF AskToggle, AskDirectly
  <2>2. TRUE \in BOOLEAN /\ FALSE \in BOOLEAN
    OBVIOUS
  <2> QED
    BY <2>1, <2>2, SwitchStep, Zenon
<1>2. CASE \E t \in Callers : ToggleFails(t) \/ ToggleAnswered(t) \/ DirectlyAnswered(t)
  BY <1>2, ToggleEndStep
<1>3. CASE \E t \in Callers : ToggleTimesOut(t)
  BY <1>3, TimeOutStep
<1>4. CASE \E t \in Callers : TakeCommand(t)
  BY <1>4, TakeStep
<1>5. CASE \E t \in Callers : AttemptWorks(t) \/ AttemptFails(t)
  BY <1>5, AttemptStep
<1>6. CASE \E p \in Plugs : DeletePlug(p) \/ RegisterPlug(p) \/ RenamePlug(p)
  BY <1>6, PlugStep
<1>7. CASE (\E p \in Plugs : TriggerPlug(p)) \/ SecondsPass
  BY <1>7, TriggerStep
<1>8. CASE UNCHANGED deviceVars
  BY <1>8 DEF deviceVars, DeviceInv, DeviceTypes, LimiterTypes, Owned, AloneOK, QuietOK, DoneOK,
              ShownAsHeard
<1> QED
  BY <1>1, <1>2, <1>3, <1>4, <1>5, <1>6, <1>7, <1>8 DEF DeviceNext

LEMMA DeviceInvariant == DeviceSpec => []DeviceInv
  BY DeviceInductive, DeviceInitInv, PTL DEF DeviceSpec

LEMMA DeviceTyped == DeviceInv => DeviceTypeOK
BY DEF DeviceInv, DeviceTypes, LimiterTypes, DeviceTypeOK, Toggle, DeviceCommand

\* The variables of the switched devices keep their types: no command is tried more
\* often than it may be, no count of failures passes the one at which the plug is
\* offline, and the limiter remembers no more triggers of a second than its limit.
THEOREM DeviceTypeCorrect == DeviceSpec => []DeviceTypeOK
  BY DeviceTyped, DeviceInvariant, PTL

\* The dashboard shows a plug as it is when the last toggle was answered "ok" and no
\* other command was beside it or came directly to the edge since (routers/devices.py,
\* routers/edge_proxy.py, device_controller.py), whatever other toggles, deletions,
\* registrations, renames and late attempts there are; a plug that refused in a reply
\* _send_command_raw does not read is excepted.
THEOREM ShownAsHeardCorrect == DeviceSpec => []ShownAsHeard
<1>1. DeviceInv => ShownAsHeard
  BY DEF DeviceInv
<1> QED
  BY <1>1, DeviceInvariant, PTL

-------------------------------------------------------------------------------
(* The agent's files *)

File == {NoFile, Torn} \cup {Whole(facts) : facts \in SUBSET Facts}
FileSteps == [do : {"put", "add", "mark", "drop"}, path : Paths, facts : SUBSET Facts]
PictureSteps == [do : {"clear", "begin", "end"}, path : Cams, facts : {{}}]
PlanStep == FileSteps \cup PictureSteps

\* Only the steps that write a file go through the stages of a write.
FilesTypes ==
  /\ disk \in [Paths -> [main : File, bak : File]]
  /\ pictures \in [Cams -> {"none", "some", "all"}]
  /\ plan \in Seq(PlanStep)
  /\ at \in {"next", "backup", "copying", "temp"}
  /\ at # "next" => plan # <<>> /\ Todo \in FileSteps
  /\ writing \subseteq Facts /\ added \subseteq Things
  /\ DOMAIN expected = Paths /\ DOMAIN earlier = Paths
  /\ mishaps \in 0 .. MaxMishaps /\ damaged \in BOOLEAN

\* Nothing is being written to the file.
Idle(p) == at = "next" \/ p # Path

\* Before any damage a file is what a read may find ...
Undamaged == ~damaged => \A p \in Paths : disk[p].main.is # "torn" /\ disk[p].main \in expected[p]

\* ... and, as long as every handler came to its end, its backup is what it held before
\* the last write; the backup being made is that of a file that is there.
Backed(p) ==
  /\ Idle(p) \/ at = "backup" =>
       /\ disk[p].bak.is = "whole" => disk[p].bak \in earlier[p]
       /\ disk[p].bak.is # "whole" => disk[p].bak.is = "none" /\ NoFile \in earlier[p]
       /\ disk[p].main.is = "none" => disk[p].bak.is = "none"
  /\ ~Idle(p) /\ at = "copying" => disk[p].main.is # "none"
  /\ ~Idle(p) /\ at = "temp" =>
       IF disk[p].main.is = "none" THEN disk[p].bak.is = "none" ELSE disk[p].bak = disk[p].main
BackupsOK == ~damaged /\ mishaps = 0 => \A p \in Paths : Backed(p)

\* Where nothing is being written, a read finds what it may find, or what the file held
\* before, damaged or not.
ReadOK == mishaps = 0 => \A p \in Paths : Idle(p) => Found(p) \in expected[p] \cup earlier[p]

FilesInv == FilesTypes /\ Undamaged /\ BackupsOK /\ ReadOK

LEMMA FileCases ==
  ASSUME NEW x \in File
  PROVE  /\ x.is \in {"none", "torn", "whole"} /\ x.facts \subseteq Facts
         /\ x.is = "none" => x = NoFile
         /\ x.is = "torn" => x = Torn
  BY DEF File, NoFile, Torn, Whole

LEMMA DiskTypes ==
  ASSUME FilesTypes, NEW p \in Paths
  PROVE  /\ disk[p] \in [main : File, bak : File]
         /\ disk[p].main \in File /\ disk[p].bak \in File
         /\ disk[p].main.is \in {"none", "torn", "whole"}
         /\ disk[p].bak.is \in {"none", "torn", "whole"}
         /\ disk[p].main.is = "none" => disk[p].main = NoFile
<1>1. /\ disk[p] \in [main : File, bak : File]
      /\ disk[p].main \in File /\ disk[p].bak \in File
  BY DEF FilesTypes
<1> QED
  BY <1>1, FileCases

\* What a read finds
LEMMA FoundFile ==
  ASSUME FilesTypes, NEW p \in Paths
  PROVE  /\ Found(p) \in File /\ Found(p).facts \subseteq Facts
         /\ disk[p].main.is # "torn" => Found(p) = disk[p].main
         /\ disk[p].main.is = "torn" /\ disk[p].bak.is = "whole" => Found(p) = disk[p].bak
         /\ disk[p].main.is = "torn" /\ disk[p].bak.is # "whole" => Found(p) = NoFile
<1>1. /\ disk[p].main.is # "torn" => Found(p) = disk[p].main
      /\ disk[p].main.is = "torn" /\ disk[p].bak.is = "whole" => Found(p) = disk[p].bak
      /\ disk[p].main.is = "torn" /\ disk[p].bak.is # "whole" => Found(p) = NoFile
  BY DiskTypes DEF Found
<1>2. Found(p) \in File
  BY <1>1, DiskTypes DEF File
<1> QED
  BY <1>1, <1>2, FileCases

\* The steps handlers set out to do
LEMMA StepTypes ==
  /\ \A i \in Things : Add(i) \in PlanStep /\ Drop(i) \in PlanStep
  /\ \A i \in Things : \A m \in Marks : Mark(i, m) \in PlanStep
  /\ \A c \in Things : \A facts \in SUBSET Facts : Put(c, facts) \in PlanStep
  /\ \A c \in Cams : \A how \in {"clear", "begin", "end"} : Pictures(c, how) \in PlanStep
<1>1. \A i \in Things : Listing(i) \in Paths /\ i \in Paths
  BY DEF Listing, Paths
<1>2. \A i \in Things : \A m \in Marks : {<<i, m>>} \in SUBSET Facts /\ {i} \X Marks \in SUBSET Facts
  BY DEF Facts
<1>3. "here" \in Marks
  BY DEF Marks
<1>4. \A i \in Things : Add(i) \in FileSteps /\ Drop(i) \in FileSteps
  BY <1>1, <1>2, <1>3 DEF Add, Drop, FileSteps
<1>5. \A i \in Things : \A m \in Marks : Mark(i, m) \in FileSteps
  BY <1>1, <1>2 DEF Mark, FileSteps
<1>6. \A c \in Things : \A facts \in SUBSET Facts : Put(c, facts) \in FileSteps
  BY <1>1 DEF Put, FileSteps
<1>7. \A c \in Cams : \A how \in {"clear", "begin", "end"} : Pictures(c, how) \in PictureSteps
  BY DEF Pictures, PictureSteps
<1> QED
  BY <1>4, <1>5, <1>6, <1>7 DEF PlanStep

\* A handler sets out.
LEMMA HandleStep ==
  ASSUME FilesInv, NEW steps \in Seq(PlanStep), Handle(steps), added' \subseteq Things
  PROVE  FilesInv'
<1>1. /\ at = "next" /\ at' = "next" /\ plan' = steps
      /\ UNCHANGED <<disk, pictures, writing, expected, earlier, mishaps, damaged>>
  BY DEF FilesInv, FilesTypes, Handle
<1>2. \A p \in Paths : Idle(p) /\ Idle(p)'
  BY <1>1 DEF Idle
<1>3. FilesTypes'
  BY <1>1 DEF FilesInv, FilesTypes
<1>4. Undamaged'
  BY <1>1 DEF FilesInv, Undamaged
<1>5. BackupsOK'
  BY <1>1, <1>2 DEF FilesInv, BackupsOK, Backed
<1>6. ReadOK'
  BY <1>1, <1>2 DEF FilesInv, ReadOK, Found
<1> QED
  BY <1>3, <1>4, <1>5, <1>6 DEF FilesInv

Handlers ==
  \/ \E c \in Cams :
       \/ AddLocalCamera(c) \/ AddCameraFromCloud(c) \/ TestCamera(c) \/ RemoveLocalCamera(c)
       \/ \E n \in Pushed, w, i \in BOOLEAN : ReceiveCameraConfig(c, n, w, i)
  \/ \E d \in Devs :
       \/ AddLocalDevice(d) \/ AddDeviceFromCloud(d) \/ UpdateDevice(d) \/ RemoveLocalDevice(d)
       \/ \E n \in Pushed : ReceiveDeviceConfig(d, n)
  \/ \E i \in Things : LinkThing(i)

LEMMA HandlersStep ==
  ASSUME FilesInv, Handlers
  PROVE  FilesInv'
<1>0. /\ Cams \subseteq Things /\ Devs \subseteq Things /\ added \subseteq Things
      /\ {"here", "linked", "changed", "configured"} \subseteq Marks
  BY DEF Things, Marks, FilesInv, FilesTypes
<1>1. ASSUME NEW i \in Things, Known(i) \/ New(i)
      PROVE  added' \subseteq Things
  BY <1>0, <1>1 DEF Known, New
<1>2. ASSUME NEW i \in Things,
             \/ AddLocalCamera(i) \/ AddLocalDevice(i) \/ AddCameraFromCloud(i)
             \/ AddDeviceFromCloud(i) \/ LinkThing(i) \/ TestCamera(i) \/ UpdateDevice(i)
             \/ RemoveLocalCamera(i) \/ RemoveLocalDevice(i)
      PROVE  FilesInv'
  <2>1. added' \subseteq Things
    BY <1>1, <1>2 DEF AddLocalCamera, AddLocalDevice, AddCameraFromCloud, AddDeviceFromCloud,
       LinkThing, TestCamera, UpdateDevice, RemoveLocalCamera, RemoveLocalDevice
  <2>2. /\ Add(i) \in PlanStep /\ Drop(i) \in PlanStep /\ Mark(i, "linked") \in PlanStep
        /\ Mark(i, "changed") \in PlanStep
    BY <1>0, StepTypes
  <2>3. /\ <<Add(i)>> \in Seq(PlanStep) /\ <<Add(i), Mark(i, "linked")>> \in Seq(PlanStep)
        /\ <<Mark(i, "linked")>> \in Seq(PlanStep) /\ <<Mark(i, "changed")>> \in Seq(PlanStep)
        /\ <<Drop(i)>> \in Seq(PlanStep)
    BY <2>2
  <2>4. \/ Handle(<<Add(i)>>) \/ Handle(<<Add(i), Mark(i, "linked")>>)
        \/ Handle(<<Mark(i, "linked")>>) \/ Handle(<<Mark(i, "changed")>>) \/ Handle(<<Drop(i)>>)
    BY <1>2 DEF AddLocalCamera, AddLocalDevice, AddCameraFromCloud, AddDeviceFromCloud,
       LinkThing, TestCamera, UpdateDevice, RemoveLocalCamera, RemoveLocalDevice
  <2> QED
    BY <2>1, <2>3, <2>4, HandleStep, Zenon
<1>3. ASSUME NEW c \in Cams, NEW n \in Pushed, NEW w \in BOOLEAN, NEW i \in BOOLEAN,
             ReceiveCameraConfig(c, n, w, i)
      PROVE  FilesInv'
  <2>1. /\ {<<n, "config">>} \in SUBSET Facts /\ {n} \X {"config", "incident"} \in SUBSET Facts
        /\ c \in Things
    BY <1>0 DEF Facts
  <2>2. /\ Put(c, {<<n, "config">>}) \in PlanStep
        /\ Put(c, {n} \X {"config", "incident"}) \in PlanStep
        /\ Mark(c, "configured") \in PlanStep
        /\ Pictures(c, "clear") \in PlanStep /\ Pictures(c, "begin") \in PlanStep
        /\ Pictures(c, "end") \in PlanStep
    BY <1>0, <2>1, StepTypes
  <2>3. PICK first, second, third, last :
          /\ first = IF w THEN SavePictures(c) ELSE <<>>
          /\ second = <<Put(c, {<<n, "config">>})>>
          /\ third = IF i THEN <<Put(c, {n} \X {"config", "incident"})>> ELSE <<>>
          /\ last = <<Mark(c, "configured")>>
    OBVIOUS
  <2>4. /\ first \in Seq(PlanStep) /\ second \in Seq(PlanStep)
        /\ third \in Seq(PlanStep) /\ last \in Seq(PlanStep)
    BY <2>2, <2>3 DEF SavePictures
  <2>5. PICK steps : steps = first \o second \o third \o last
    OBVIOUS
  <2>6. steps \in Seq(PlanStep)
    BY <2>4, <2>5
  <2>7. Handle(steps) /\ added' \subseteq Things
    BY <1>1, <1>3, <2>1, <2>3, <2>5 DEF ReceiveCameraConfig
  <2> QED
    BY <2>6, <2>7, HandleStep
<1>4. ASSUME NEW d \in Devs, NEW n \in Pushed, ReceiveDeviceConfig(d, n)
      PROVE  FilesInv'
  <2>1. {<<n, "config">>} \in SUBSET Facts /\ d \in Things
    BY <1>0 DEF Facts
  <2>2. <<Put(d, {<<n, "config">>})>> \in Seq(PlanStep)
    BY <2>1, StepTypes
  <2>3. Handle(<<Put(d, {<<n, "config">>})>>) /\ added' \subseteq Things
    BY <1>1, <1>4, <2>1 DEF ReceiveDeviceConfig
  <2> QED
    BY <2>2, <2>3, HandleStep, Zenon
<1>5. \/ \E i \in Things :
           \/ AddLocalCamera(i) \/ AddLocalDevice(i) \/ AddCameraFromCloud(i)
           \/ AddDeviceFromCloud(i) \/ LinkThing(i) \/ TestCamera(i) \/ UpdateDevice(i)
           \/ RemoveLocalCamera(i) \/ RemoveLocalDevice(i)
      \/ \E c \in Cams, n \in Pushed, w, i \in BOOLEAN : ReceiveCameraConfig(c, n, w, i)
      \/ \E d \in Devs, n \in Pushed : ReceiveDeviceConfig(d, n)
  BY <1>0, Zenon DEF Handlers
<1> QED
  BY <1>2, <1>3, <1>4, <1>5, Zenon

\* The step that is under way, and its file
LEMMA TodoTypes ==
  ASSUME FilesTypes, plan # <<>>
  PROVE  /\ Todo \in PlanStep /\ Path \in Paths /\ Todo.facts \subseteq Facts
         /\ Tail(plan) \in Seq(PlanStep)
         /\ Todo.do \in Rewrites \cup {"put"} => Todo \in FileSteps
         /\ Todo.do \in {"clear", "begin", "end"} => Todo \notin FileSteps /\ Path \in Cams
<1>1. Todo \in PlanStep /\ Tail(plan) \in Seq(PlanStep)
  BY DEF FilesTypes, Todo
<1>2. Todo \in FileSteps \/ Todo \in PictureSteps
  BY <1>1 DEF PlanStep
<1> QED
  BY <1>1, <1>2 DEF FileSteps, PictureSteps, Path, Rewrites, Paths, Things

LEMMA RestoreStep ==
  ASSUME FilesInv, Restore
  PROVE  FilesInv'
<1>1. FilesTypes /\ plan # <<>> /\ Path \in Paths
  BY TodoTypes DEF FilesInv, Restore, Rewritten
<1>2. PICK p \in Paths : p = Path
  BY <1>1
<1>3. /\ disk[p].main.is = "torn" /\ disk[p].bak.is = "whole"
      /\ UNCHANGED <<pictures, plan, at, writing, expected, earlier, added, mishaps, damaged>>
  BY <1>2 DEF Restore, Restorable
<1>4. PICK d : d = [disk[p] EXCEPT !.main = disk[p].bak]
  OBVIOUS
<1>5. d \in [main : File, bak : File] /\ d.main = disk[p].bak /\ d.bak = disk[p].bak
  BY <1>1, <1>4, DiskTypes
<1>6. disk' = [disk EXCEPT ![p] = d]
  BY <1>1, <1>2, <1>4 DEF Restore, FilesTypes
<1>7. /\ disk' \in [Paths -> [main : File, bak : File]] /\ disk'[p] = d
      /\ \A q \in Paths \ {p} : disk'[q] = disk[q]
  BY <1>1, <1>5, <1>6 DEF FilesTypes
<1>8. FilesTypes'
  BY <1>1, <1>3, <1>7 DEF FilesTypes, Todo
<1>9. damaged
  BY <1>3 DEF FilesInv, Undamaged
<1>10. \A q \in Paths : Idle(q)' <=> Idle(q)
  BY <1>3 DEF Idle, Path, Todo
<1>11. \A q \in Paths : Found(q)' = Found(q)
  BY <1>3, <1>5, <1>7 DEF Found
<1>12. Undamaged' /\ BackupsOK' /\ ReadOK'
  BY <1>3, <1>9, <1>10, <1>11 DEF FilesInv, Undamaged, BackupsOK, ReadOK
<1> QED
  BY <1>8, <1>12 DEF FilesInv

\* A step that writes nothing
LEMMA NoWriteStep ==
  ASSUME FilesInv, NothingToWrite \/ ChangePictures
  PROVE  FilesInv'
<1>1. /\ FilesTypes /\ plan # <<>> /\ Path \in Paths /\ Tail(plan) \in Seq(PlanStep)
  BY TodoTypes DEF FilesInv, NothingToWrite, ChangePictures, Rewritten
<1>2. /\ plan' = Tail(plan) /\ at' = "next"
      /\ UNCHANGED <<disk, writing, expected, earlier, added, mishaps, damaged>>
  BY DEF NothingToWrite, ChangePictures, Proceed
<1>3. at = "next"
  <2>1. CASE NothingToWrite
    BY <2>1 DEF NothingToWrite, Rewritten
  <2>2. CASE ChangePictures
    BY <1>1, <2>2, TodoTypes DEF ChangePictures, FilesTypes
  <2> QED
    BY <2>1, <2>2
<1>4. pictures' \in [Cams -> {"none", "some", "all"}]
  <2>1. CASE NothingToWrite
    BY <1>1, <2>1 DEF NothingToWrite, FilesTypes
  <2>2. CASE ChangePictures
    <3>1. PICK x \in {"none", "some", "all"} : pictures' = [pictures EXCEPT ![Path] = x]
      BY <2>2 DEF ChangePictures
    <3> QED
      BY <1>1, <3>1 DEF FilesTypes
  <2> QED
    BY <2>1, <2>2
<1>5. FilesTypes'
  BY <1>1, <1>2, <1>4 DEF FilesTypes
<1>6. \A p \in Paths : Idle(p) /\ Idle(p)'
  BY <1>2, <1>3 DEF Idle
<1>7. Undamaged' /\ BackupsOK' /\ ReadOK'
  BY <1>2, <1>6 DEF FilesInv, Undamaged, BackupsOK, Backed, ReadOK, Found
<1> QED
  BY <1>5, <1>7 DEF FilesInv

LEMMA BeginWriteStep ==
  ASSUME FilesInv, BeginWrite
  PROVE  FilesInv'
<1>1. /\ FilesTypes /\ plan # <<>> /\ Path \in Paths /\ Todo.facts \subseteq Facts
      /\ at = "next" /\ Todo \in FileSteps
  BY TodoTypes DEF FilesInv, BeginWrite, Rewritten
<1>2. PICK p \in Paths : p = Path
  BY <1>1
<1>3. /\ at' = "backup" /\ writing' = Content
      /\ expected' = [expected EXCEPT ![p] = {Found(p), Whole(Content)}]
      /\ UNCHANGED <<disk, pictures, plan, earlier, added, mishaps, damaged>>
  BY <1>2 DEF BeginWrite
<1>4. Content \subseteq Facts
  BY <1>1, FoundFile DEF Content
<1>5. FilesTypes'
  BY <1>1, <1>3, <1>4 DEF FilesTypes, Todo
<1>6. /\ Path' = Path /\ \A q \in Paths : Idle(q) /\ (Idle(q)' <=> q # p)
  BY <1>1, <1>2, <1>3 DEF Idle, Path, Todo
<1>7. expected'[p] = {Found(p), Whole(Content)} /\ \A q \in Paths \ {p} : expected'[q] = expected[q]
  BY <1>1, <1>3 DEF FilesTypes
<1>8. Undamaged'
  BY <1>1, <1>3, <1>7, FoundFile DEF FilesInv, Undamaged
<1>9. BackupsOK'
  BY <1>3, <1>6 DEF FilesInv, BackupsOK, Backed
<1>10. ReadOK'
  BY <1>3, <1>6, <1>7 DEF FilesInv, ReadOK, Found
<1> QED
  BY <1>5, <1>8, <1>9, <1>10 DEF FilesInv

LEMMA BackupStep ==
  ASSUME FilesInv, BeginBackup \/ EndBackup
  PROVE  FilesInv'
<1>1. /\ at \in {"backup", "copying"} /\ FilesTypes /\ plan # <<>> /\ Todo \in FileSteps
      /\ UNCHANGED <<pictures, plan, writing, expected, earlier, added, mishaps, damaged>>
  BY DEF FilesInv, FilesTypes, BeginBackup, EndBackup
<1>2. PICK p \in Paths : p = Path
  BY <1>1, TodoTypes
<1>3. at' \in {"copying", "temp"}
  BY DEF BeginBackup, EndBackup
<1>c. Path' = p
  BY <1>1, <1>2 DEF Path, Todo
<1>d. \A q \in Paths : (Idle(q) <=> q # p)
  BY <1>1, <1>2 DEF Idle
<1>e. \A q \in Paths : (Idle(q)' <=> q # p)
  BY <1>1, <1>3, <1>c DEF Idle
<1>4. \/ /\ at' = "temp" /\ at = "backup" /\ disk[p].main.is = "none" /\ disk' = disk
      \/ /\ at' = "copying" /\ disk[p].main.is # "none"
         /\ disk' = [disk EXCEPT ![p].bak = Torn]
      \/ /\ at' = "temp" /\ at = "copying" /\ disk' = [disk EXCEPT ![p].bak = disk[p].main]
  BY <1>2 DEF BeginBackup, EndBackup
<1>a. ASSUME NEW x \in File, disk' = [disk EXCEPT ![p].bak = x]
      PROVE  /\ disk' \in [Paths -> [main : File, bak : File]]
             /\ \A q \in Paths \ {p} : disk'[q] = disk[q]
             /\ disk'[p].main = disk[p].main /\ disk'[p].bak = x
  <2>1. PICK d : d = [disk[p] EXCEPT !.bak = x]
    OBVIOUS
  <2>2. d \in [main : File, bak : File] /\ d.main = disk[p].main /\ d.bak = x
    BY <1>1, <1>a, <2>1, DiskTypes
  <2>3. disk' = [disk EXCEPT ![p] = d]
    BY <1>1, <1>a, <2>1 DEF FilesTypes
  <2> QED
    BY <1>1, <2>2, <2>3 DEF FilesTypes
<1>b. /\ disk' \in [Paths -> [main : File, bak : File]]
      /\ \A q \in Paths \ {p} : disk'[q] = disk[q]
      /\ disk'[p].main = disk[p].main
  <2>1. Torn \in File /\ disk[p].main \in File
    BY <1>1, DiskTypes DEF File
  <2>2. CASE disk' = disk
    BY <1>1, <2>2 DEF FilesTypes
  <2>3. CASE disk' = [disk EXCEPT ![p].bak = Torn]
    BY <1>a, <2>1, <2>3
  <2>4. CASE disk' = [disk EXCEPT ![p].bak = disk[p].main]
    BY <1>a, <2>1, <2>4
  <2> QED
    BY <1>4, <2>2, <2>3, <2>4
<1>5. FilesTypes'
  <2>1. at' \in {"copying", "temp"}
    BY <1>4
  <2> QED
    BY <1>1, <1>b, <2>1 DEF FilesTypes, Todo
<1>6. Undamaged'
  <2>1. \A q \in Paths : disk'[q].main = disk[q].main
    BY <1>b
  <2> QED
    BY <1>1, <2>1 DEF FilesInv, Undamaged
<1>7. BackupsOK'
  <2> SUFFICES ASSUME ~damaged, mishaps = 0, NEW q \in Paths
               PROVE  Backed(q)'
    BY <1>1 DEF BackupsOK
  <2>1. Backed(q)
    BY DEF FilesInv, BackupsOK
  <2>2. CASE q # p
    BY <1>1, <1>d, <1>e, <1>b, <2>1, <2>2 DEF Backed
  <2>3. CASE q = p
    <3>1. ~Idle(q)' /\ ~Idle(q)
      BY <1>d, <1>e, <2>3
    <3>2. CASE at' = "temp" /\ at = "backup" /\ disk[p].main.is = "none" /\ disk' = disk
      BY <1>1, <2>1, <2>3, <3>1, <3>2 DEF Backed
    <3>3. CASE at' = "copying" /\ disk[p].main.is # "none"
      BY <1>b, <2>3, <3>1, <3>3 DEF Backed
    <3>4. CASE at' = "temp" /\ at = "copying" /\ disk' = [disk EXCEPT ![p].bak = disk[p].main]
      <4>1. disk'[p].bak = disk[p].main
        BY <1>1, <1>a, <3>4, DiskTypes
      <4> QED
        BY <1>b, <2>1, <2>3, <3>1, <3>4, <4>1 DEF Backed
    <3> QED
      BY <1>4, <3>2, <3>3, <3>4
  <2> QED
    BY <2>2, <2>3
<1>8. ReadOK'
  <2> SUFFICES ASSUME mishaps = 0, NEW q \in Paths, Idle(q)'
               PROVE  Found(q)' \in expected[q] \cup earlier[q]
    BY <1>1 DEF ReadOK
  <2>1. q # p /\ Idle(q)
    BY <1>d, <1>e
  <2>2. Found(q)' = Found(q)
    BY <1>b, <2>1 DEF Found
  <2> QED
    BY <2>1, <2>2 DEF FilesInv, ReadOK
<1> QED
  BY <1>5, <1>6, <1>7, <1>8 DEF FilesInv

LEMMA ReplaceStep ==
  ASSUME FilesInv, Replace
  PROVE  FilesInv'
<1>1. /\ at = "temp" /\ FilesTypes /\ plan # <<>>
      /\ UNCHANGED <<pictures, added, mishaps, damaged>>
  BY DEF FilesInv, FilesTypes, Replace
<1>2. PICK p \in Paths : p = Path
  BY <1>1, TodoTypes
<1>3. /\ disk' = [disk EXCEPT ![p].main = Whole(writing)]
      /\ earlier' = [earlier EXCEPT ![p] = expected[p]]
      /\ expected' = [expected EXCEPT ![p] = {Whole(writing)}]
      /\ plan' = Tail(plan) /\ at' = "next" /\ writing' = {}
  BY <1>2 DEF Replace, Proceed
<1>4. Whole(writing) \in File /\ Whole(writing).is = "whole"
  BY <1>1 DEF FilesTypes, File, Whole
<1>5. /\ disk' \in [Paths -> [main : File, bak : File]]
      /\ \A q \in Paths \ {p} : disk'[q] = disk[q]
      /\ disk'[p].main = Whole(writing) /\ disk'[p].bak = disk[p].bak
  <2>1. PICK d : d = [disk[p] EXCEPT !.main = Whole(writing)]
    OBVIOUS
  <2>2. d \in [main : File, bak : File] /\ d.main = Whole(writing) /\ d.bak = disk[p].bak
    BY <1>1, <1>4, <2>1, DiskTypes
  <2>3. disk' = [disk EXCEPT ![p] = d]
    BY <1>1, <1>3, <2>1 DEF FilesTypes
  <2> QED
    BY <1>1, <2>2, <2>3 DEF FilesTypes
<1>6. /\ expected'[p] = {Whole(writing)} /\ earlier'[p] = expected[p]
      /\ \A q \in Paths \ {p} : expected'[q] = expected[q] /\ earlier'[q] = earlier[q]
  BY <1>1, <1>3 DEF FilesTypes
<1>7. \A q \in Paths : /\ Idle(q) <=> q # p
                      /\ Idle(q)'
  BY <1>1, <1>2, <1>3 DEF Idle
<1>8. FilesTypes'
  BY <1>1, <1>3, <1>5, TodoTypes DEF FilesTypes
<1>9. Undamaged'
  BY <1>1, <1>4, <1>5, <1>6 DEF FilesInv, Undamaged
<1>10. BackupsOK'
  <2> SUFFICES ASSUME ~damaged, mishaps = 0, NEW q \in Paths
               PROVE  Backed(q)'
    BY <1>1 DEF BackupsOK
  <2>1. Backed(q)
    BY DEF FilesInv, BackupsOK
  <2>2. CASE q # p
    BY <1>3, <1>5, <1>6, <1>7, <2>1, <2>2 DEF Backed
  <2>3. CASE q = p
    <3>1. disk[p].main \in expected[p] /\ disk[p].main.is # "torn"
      BY DEF FilesInv, Undamaged
    <3>2. \/ disk[p].main = NoFile /\ disk[p].bak.is = "none"
          \/ disk[p].bak = disk[p].main /\ disk[p].main.is = "whole"
      BY <1>1, <1>7, <2>1, <2>3, <3>1, DiskTypes DEF Backed
    <3> QED
      BY <1>3, <1>4, <1>5, <1>6, <2>3, <3>1, <3>2 DEF Backed, NoFile
  <2> QED
    BY <2>2, <2>3
<1>11. ReadOK'
  <2> SUFFICES ASSUME mishaps = 0, NEW q \in Paths
               PROVE  Found(q)' \in expected'[q] \cup earlier'[q]
    BY <1>1 DEF ReadOK
  <2>1. CASE q # p
    BY <1>5, <1>6, <1>7, <2>1 DEF FilesInv, ReadOK, Found
  <2>2. CASE q = p
    BY <1>4, <1>5, <1>6, <2>2 DEF Found
  <2> QED
    BY <2>1, <2>2
<1> QED
  BY <1>8, <1>9, <1>10, <1>11 DEF FilesInv

LEMMA MishapStep ==
  ASSUME FilesInv, HandlerEnds \/ \E p \in Paths : DamageFile(p)
  PROVE  FilesInv'
<1>0. FilesTypes
  BY DEF FilesInv
<1>1. CASE HandlerEnds
  <2>1. /\ plan' = <<>> /\ at' = "next" /\ writing' = {} /\ mishaps' = mishaps + 1
        /\ mishaps < MaxMishaps
        /\ UNCHANGED <<disk, pictures, expected, earlier, added, damaged>>
    BY <1>1 DEF HandlerEnds
  <2>2. mishaps' \in 0 .. MaxMishaps /\ mishaps' # 0
    BY <1>0, <2>1, LocalFilesAssumption DEF FilesTypes
  <2>3. FilesTypes'
    BY <1>0, <2>1, <2>2 DEF FilesTypes
  <2> QED
    BY <2>1, <2>2, <2>3 DEF FilesInv, Undamaged, BackupsOK, ReadOK
<1>2. ASSUME NEW p \in Paths, DamageFile(p)
      PROVE  FilesInv'
  <2>1. /\ plan = <<>> /\ ~damaged /\ damaged'
        /\ UNCHANGED <<pictures, plan, at, writing, expected, earlier, added, mishaps>>
    BY <1>2 DEF DamageFile
  <2>2. PICK d : d = [disk[p] EXCEPT !.main = Torn]
    OBVIOUS
  <2>3. /\ d \in [main : File, bak : File] /\ d.main = Torn /\ d.bak = disk[p].bak
        /\ Torn.is = "torn"
    BY <1>0, <2>2, DiskTypes DEF File, Torn
  <2>4. disk' = [disk EXCEPT ![p] = d]
    BY <1>0, <1>2, <2>2 DEF DamageFile, FilesTypes
  <2>5. /\ disk' \in [Paths -> [main : File, bak : File]] /\ disk'[p] = d
        /\ \A q \in Paths \ {p} : disk'[q] = disk[q]
    BY <1>0, <2>3, <2>4 DEF FilesTypes
  <2>6. at = "next" /\ \A q \in Paths : Idle(q)
    BY <1>0, <2>1 DEF FilesTypes, Idle
  <2>7. FilesTypes'
    BY <1>0, <1>2, <2>1, <2>5, <2>6 DEF FilesTypes, DamageFile
  <2>8. ReadOK'
    <3> SUFFICES ASSUME mishaps = 0, NEW q \in Paths
                 PROVE  Found(q)' \in expected[q] \cup earlier[q]
      BY <2>1 DEF ReadOK
    <3>1. CASE q # p
      BY <2>5, <2>6, <3>1 DEF FilesInv, ReadOK, Found
    <3>2. CASE q = p
      <4>1. \/ disk[p].bak.is = "whole" /\ disk[p].bak \in earlier[p]
            \/ disk[p].bak.is # "whole" /\ NoFile \in earlier[p]
        BY <2>1, <2>6 DEF FilesInv, BackupsOK, Backed
      <4> QED
        BY <2>3, <2>5, <3>2, <4>1 DEF Found
    <3> QED
      BY <3>1, <3>2
  <2> QED
    BY <2>1, <2>7, <2>8 DEF FilesInv, Undamaged, BackupsOK
<1> QED
  BY <1>1, <1>2

LEMMA FilesInitInv == LocalFilesInit => FilesInv
<1> SUFFICES ASSUME LocalFilesInit
             PROVE  FilesInv
  OBVIOUS
<1>1. NoFile \in File /\ NoFile.is = "none"
  BY DEF File, NoFile
<1>2. FilesTypes
  <2>1. [main |-> NoFile, bak |-> NoFile] \in [main : File, bak : File]
    BY <1>1
  <2>2. disk \in [Paths -> [main : File, bak : File]]
    BY <2>1 DEF LocalFilesInit
  <2>3. mishaps \in 0 .. MaxMishaps
    BY LocalFilesAssumption DEF LocalFilesInit
  <2>4. plan \in Seq(PlanStep)
    BY DEF LocalFilesInit
  <2> QED
    BY <2>2, <2>3, <2>4 DEF LocalFilesInit, FilesTypes
<1>3. \A p \in Paths : /\ disk[p].main = NoFile /\ disk[p].bak = NoFile
                      /\ expected[p] = {NoFile} /\ earlier[p] = {NoFile}
  BY DEF LocalFilesInit
<1>4. Undamaged /\ BackupsOK /\ ReadOK
  BY <1>1, <1>3 DEF LocalFilesInit, Undamaged, BackupsOK, Backed, ReadOK, Found, Idle
<1> QED
  BY <1>2, <1>4 DEF FilesInv

LEMMA FilesInductive == FilesInv /\ [LocalFilesNext]_localFileVars => FilesInv'
<1> SUFFICES ASSUME FilesInv, [LocalFilesNext]_localFileVars
             PROVE  FilesInv'
  OBVIOUS
<1>1. CASE Handlers
  BY <1>1, HandlersStep
<1>2. CASE Restore
  BY <1>2, RestoreStep
<1>3. CASE NothingToWrite \/ ChangePictures
  BY <1>3, NoWriteStep
<1>4. CASE BeginWrite
  BY <1>4, BeginWriteStep
<1>5. CASE BeginBackup \/ EndBackup
  BY <1>5, BackupStep
<1>6. CASE Replace
  BY <1>6, ReplaceStep
<1>7. CASE HandlerEnds \/ \E p \in Paths : DamageFile(p)
  BY <1>7, MishapStep
<1>8. CASE UNCHANGED localFileVars
  BY <1>8 DEF localFileVars, FilesInv, FilesTypes, Todo, Undamaged, BackupsOK, Backed, Idle, Path,
              ReadOK, Found
<1> QED
  BY <1>1, <1>2, <1>3, <1>4, <1>5, <1>6, <1>7, <1>8 DEF LocalFilesNext, Handlers

LEMMA FilesInvariant == LocalFilesSpec => []FilesInv
  BY FilesInitInv, FilesInductive, PTL DEF LocalFilesSpec

LEMMA FilesTyped == FilesInv => LocalFilesTypeOK
<1> SUFFICES ASSUME FilesInv
             PROVE  LocalFilesTypeOK
  OBVIOUS
<1>1. FilesTypes
  BY DEF FilesInv
<1>2. \A p \in Paths, k \in {"main", "bak"} :
        disk[p][k].is \in {"none", "torn", "whole"} /\ disk[p][k].facts \subseteq Facts
  <2> TAKE p \in Paths, k \in {"main", "bak"}
  <2>1. disk[p][k] \in File
    BY <1>1, DiskTypes
  <2> QED
    BY <2>1, FileCases
<1> QED
  BY <1>1, <1>2 DEF FilesTypes, LocalFilesTypeOK

\* The agent's files and what is being done to them keep their types.
THEOREM FilesTypeCorrect == LocalFilesSpec => []LocalFilesTypeOK
  BY FilesTyped, FilesInvariant, PTL

\* "Atomically write JSON data to path with backup recovery." (local_config.py): a
\* handler that ends at any step leaves every file as it was or as it was to be; and
\* when none ended so, a file that is damaged is read as it was before its last write
\* at the worst, whatever is written afterwards.
THEOREM FilesSurviveCorrect == LocalFilesSpec => []FilesSurvive
<1>1. FilesInv => FilesSurvive
  <2> SUFFICES ASSUME FilesInv, NEW p \in Paths
               PROVE  /\ ~damaged => Found(p) \in expected[p]
                      /\ plan = <<>> /\ mishaps = 0 => Found(p) \in expected[p] \cup earlier[p]
    BY DEF FilesSurvive
  <2>1. ~damaged => Found(p) \in expected[p]
    BY FoundFile DEF FilesInv, Undamaged
  <2>2. plan = <<>> => Idle(p)
    BY DEF FilesInv, FilesTypes, Idle
  <2> QED
    BY <2>1, <2>2 DEF FilesInv, ReadOK
<1> QED
  BY <1>1, FilesInvariant, PTL

-------------------------------------------------------------------------------
(* The logs: sequences of warnings *)

\* No element occurs twice.
Distinct(s) == \A i, j \in 1 .. Len(s) : s[i] = s[j] => i = j

LEMMA ToSetTypes ==
  ASSUME NEW S, NEW s \in Seq(S)
  PROVE  /\ ToSet(s) \subseteq S
         /\ \A e : e \in ToSet(s) <=> \E i \in 1 .. Len(s) : s[i] = e
  BY DEF ToSet

\* What is taken from the front of a sequence, and what is left of it.
LEMMA FirstOf ==
  ASSUME NEW S, NEW s \in Seq(S), NEW n \in Nat
  PROVE  /\ First(n, s) \in Seq(S)
         /\ Len(First(n, s)) = IF Len(s) < n THEN Len(s) ELSE n
         /\ \A i \in 1 .. Len(First(n, s)) : First(n, s)[i] = s[i]
<1> DEFINE k == IF Len(s) < n THEN Len(s) ELSE n
<1>1. k \in Nat /\ 0 <= k /\ k <= Len(s)
  BY LenProperties
<1>2. /\ SubSeq(s, 1, k) \in Seq(S)
      /\ Len(SubSeq(s, 1, k)) = k
      /\ \A i \in 1 .. k : SubSeq(s, 1, k)[i] = s[i]
  <2> HIDE DEF k
  <2>1. \A i \in 1 .. k : i \in 1 .. Len(s) /\ 1 + i - 1 = i
    BY <1>1, LenProperties
  <2> QED
    BY <1>1, <2>1, SubSeqProperties
<1> QED
  BY <1>2 DEF First

LEMMA BeyondOf ==
  ASSUME NEW S, NEW s \in Seq(S), NEW n \in Nat
  PROVE  /\ Beyond(n, s) \in Seq(S)
         /\ Len(Beyond(n, s)) = IF Len(s) < n THEN 0 ELSE Len(s) - n
         /\ \A i \in 1 .. Len(Beyond(n, s)) : Beyond(n, s)[i] = s[i + n]
<1>1. Len(s) \in Nat
  OBVIOUS
<1> QED
  BY <1>1 DEF Beyond

LEMMA ReverseOf ==
  ASSUME NEW S, NEW s \in Seq(S)
  PROVE  /\ Reverse(s) \in Seq(S)
         /\ Len(Reverse(s)) = Len(s)
         /\ \A i \in 1 .. Len(s) : Reverse(s)[i] = s[(Len(s) - i) + 1]
<1>1. Len(s) \in Nat
  OBVIOUS
<1> QED
  BY <1>1 DEF Reverse

LEMMA SplitOf ==
  ASSUME NEW S, NEW s \in Seq(S), NEW n \in Nat
  PROVE  /\ ToSet(First(n, s)) \cup ToSet(Beyond(n, s)) = ToSet(s)
         /\ Len(First(n, s)) + Len(Beyond(n, s)) = Len(s)
         /\ Len(s) <= n => First(n, s) = s
         /\ Distinct(s) => /\ Distinct(First(n, s)) /\ Distinct(Beyond(n, s))
                           /\ ToSet(First(n, s)) \cap ToSet(Beyond(n, s)) = {}
<1> DEFINE f == First(n, s)
           b == Beyond(n, s)
<1>1. Len(s) \in Nat
  OBVIOUS
<1>2. /\ f \in Seq(S) /\ Len(f) = (IF Len(s) < n THEN Len(s) ELSE n)
      /\ \A i \in 1 .. Len(f) : f[i] = s[i]
  BY FirstOf
<1>3. /\ b \in Seq(S) /\ Len(b) = (IF Len(s) < n THEN 0 ELSE Len(s) - n)
      /\ \A i \in 1 .. Len(b) : b[i] = s[i + n]
  BY BeyondOf
<1> HIDE DEF f, b
<1>4. ToSet(f) \cup ToSet(b) = ToSet(s)
  <2>1. ASSUME NEW e \in ToSet(s) PROVE e \in ToSet(f) \cup ToSet(b)
    <3>1. PICK i \in 1 .. Len(s) : s[i] = e
      BY ToSetTypes
    <3>2. CASE i <= n
      <4>1. i \in 1 .. Len(f)
        BY <1>1, <1>2, <3>2
      <4> QED
        BY <1>2, <3>1, <4>1, ToSetTypes
    <3>3. CASE i > n
      <4>1. PICK k : k = i - n
        OBVIOUS
      <4>2. k \in 1 .. Len(b) /\ k + n = i
        BY <1>1, <1>3, <3>3, <4>1
      <4>3. b[k] = e
        BY <1>3, <3>1, <4>2
      <4> QED
        BY <1>3, <4>2, <4>3, ToSetTypes
    <3> QED
      BY <3>2, <3>3
  <2>2. ASSUME NEW e \in ToSet(f) PROVE e \in ToSet(s)
    <3>1. PICK i \in 1 .. Len(f) : f[i] = e
      BY <1>2, ToSetTypes
    <3>2. i \in 1 .. Len(s)
      BY <1>1, <1>2
    <3> QED
      BY <1>2, <3>1, <3>2, ToSetTypes
  <2>3. ASSUME NEW e \in ToSet(b) PROVE e \in ToSet(s)
    <3>1. PICK i \in 1 .. Len(b) : b[i] = e
      BY <1>3, ToSetTypes
    <3>2. i + n \in 1 .. Len(s)
      BY <1>1, <1>3
    <3> QED
      BY <1>3, <3>1, <3>2, ToSetTypes
  <2> QED
    BY <2>1, <2>2, <2>3
<1>5. Len(s) <= n => f = s
  <2>1. Len(s) <= n => Len(f) = Len(s)
    BY <1>1, <1>2
  <2> QED
    BY <1>2, <2>1, SeqEqual
<1>6. ASSUME Distinct(s) PROVE Distinct(f) /\ Distinct(b)
  <2>1. \A i, j \in 1 .. Len(s) : s[i] = s[j] => i = j
    BY <1>6 DEF Distinct
  <2>2. \A i \in 1 .. Len(f) : i \in 1 .. Len(s)
    BY <1>1, <1>2
  <2>3. \A i \in 1 .. Len(b) : i + n \in 1 .. Len(s)
    BY <1>1, <1>3
  <2>4. \A i, j \in 1 .. Len(f) : f[i] = f[j] => i = j
    BY <1>2, <2>1, <2>2
  <2>5. ASSUME NEW i \in 1 .. Len(b), NEW j \in 1 .. Len(b), b[i] = b[j] PROVE i = j
    <3>1. s[i + n] = s[j + n]
      BY <1>3, <2>5
    <3>2. i + n = j + n
      BY <2>1, <2>3, <3>1
    <3> QED
      BY <1>3, <3>2
  <2> QED
    BY <2>4, <2>5 DEF Distinct
<1>7. ASSUME Distinct(s), NEW e \in ToSet(f), e \in ToSet(b) PROVE FALSE
  <2>1. PICK i \in 1 .. Len(f) : f[i] = e
    BY <1>2, ToSetTypes
  <2>2. PICK j \in 1 .. Len(b) : b[j] = e
    BY <1>3, <1>7, ToSetTypes
  <2>3. i \in 1 .. Len(s) /\ j + n \in 1 .. Len(s) /\ i # j + n
    BY <1>1, <1>2, <1>3
  <2>4. s[i] = s[j + n]
    BY <1>2, <1>3, <2>1, <2>2
  <2> QED
    BY <1>7, <2>3, <2>4 DEF Distinct
<1> QED
  BY <1>1, <1>2, <1>3, <1>4, <1>5, <1>6, <1>7 DEF f, b
\* Both ends of two sequences put together.
LEMMA ConcatOf ==
  ASSUME NEW S, NEW s \in Seq(S), NEW t \in Seq(S)
  PROVE  /\ s \o t \in Seq(S) /\ Len(s \o t) = Len(s) + Len(t)
         /\ ToSet(s \o t) = ToSet(s) \cup ToSet(t)
         /\ Distinct(s) /\ Distinct(t) /\ ToSet(s) \cap ToSet(t) = {} => Distinct(s \o t)
<1> DEFINE c == s \o t
<1>1. Len(s) \in Nat /\ Len(t) \in Nat
  OBVIOUS
<1>2. c \in Seq(S) /\ Len(c) = Len(s) + Len(t)
  BY ConcatProperties
<1>3. \A i \in 1 .. Len(s) : i \in 1 .. Len(c) /\ c[i] = s[i]
  BY <1>1, ConcatProperties
<1>4. \A i \in 1 .. Len(t) : i + Len(s) \in 1 .. Len(c) /\ c[i + Len(s)] = t[i]
  <2> TAKE i \in 1 .. Len(t)
  <2>1. PICK k : k = i + Len(s)
    OBVIOUS
  <2>2. k \in 1 .. Len(s) + Len(t) /\ ~(k <= Len(s)) /\ k - Len(s) = i
    BY <1>1, <2>1
  <2>3. c[k] = t[i]
    BY <2>2, ConcatProperties
  <2> QED
    BY <1>2, <2>1, <2>2, <2>3
<1> HIDE DEF c
<1>5. \A k \in 1 .. Len(c) : \/ k \in 1 .. Len(s)
                             \/ \E i \in 1 .. Len(t) : k = i + Len(s)
  <2> SUFFICES ASSUME NEW k \in 1 .. Len(c), k \notin 1 .. Len(s)
               PROVE  \E i \in 1 .. Len(t) : k = i + Len(s)
    OBVIOUS
  <2>1. PICK i : i = k - Len(s)
    OBVIOUS
  <2>2. i \in 1 .. Len(t) /\ k = i + Len(s)
    BY <1>1, <1>2, <2>1
  <2> QED
    BY <2>2
<1>6. ToSet(c) = ToSet(s) \cup ToSet(t)
  <2>1. ASSUME NEW e \in ToSet(c) PROVE e \in ToSet(s) \cup ToSet(t)
    <3>1. PICK k \in 1 .. Len(c) : c[k] = e
      BY <1>2, ToSetTypes
    <3>2. CASE k \in 1 .. Len(s)
      BY <1>3, <3>1, <3>2, ToSetTypes
    <3>3. ASSUME NEW i \in 1 .. Len(t), k = i + Len(s) PROVE e \in ToSet(t)
      <4>1. t[i] = e
        BY <1>4, <3>1, <3>3
      <4> QED
        BY <4>1, ToSetTypes
    <3> QED
      BY <1>5, <3>2, <3>3
  <2>2. ASSUME NEW e \in ToSet(s) PROVE e \in ToSet(c)
    <3>1. PICK i \in 1 .. Len(s) : s[i] = e
      BY ToSetTypes
    <3> QED
      BY <1>2, <1>3, <3>1, ToSetTypes
  <2>3. ASSUME NEW e \in ToSet(t) PROVE e \in ToSet(c)
    <3>1. PICK i \in 1 .. Len(t) : t[i] = e
      BY ToSetTypes
    <3>2. PICK k : k = i + Len(s)
      OBVIOUS
    <3>3. k \in 1 .. Len(c) /\ c[k] = e
      BY <1>4, <3>1, <3>2
    <3> QED
      BY <1>2, <3>3, ToSetTypes
  <2> QED
    BY <2>1, <2>2, <2>3
<1>7. ASSUME Distinct(s), Distinct(t), ToSet(s) \cap ToSet(t) = {},
             NEW k \in 1 .. Len(c), NEW l \in 1 .. Len(c), c[k] = c[l]
      PROVE  k = l
  <2>1. \A i \in 1 .. Len(s), j \in 1 .. Len(t) : s[i] # t[j]
    BY <1>7, ToSetTypes
  <2>2. CASE k \in 1 .. Len(s) /\ l \in 1 .. Len(s)
    <3>1. s[k] = s[l]
      BY <1>3, <1>7, <2>2
    <3> QED
      BY <1>7, <2>2, <3>1 DEF Distinct
  <2>3. ASSUME k \in 1 .. Len(s), NEW j \in 1 .. Len(t), l = j + Len(s) PROVE FALSE
    <3>1. s[k] = t[j]
      BY <1>3, <1>4, <1>7, <2>3
    <3> QED
      BY <2>1, <2>3, <3>1
  <2>4. ASSUME l \in 1 .. Len(s), NEW j \in 1 .. Len(t), k = j + Len(s) PROVE FALSE
    <3>1. s[l] = t[j]
      BY <1>3, <1>4, <1>7, <2>4
    <3> QED
      BY <2>1, <2>4, <3>1
  <2>5. ASSUME NEW i \in 1 .. Len(t), NEW j \in 1 .. Len(t), k = i + Len(s), l = j + Len(s)
        PROVE  k = l
    <3>1. t[i] = t[j]
      BY <1>4, <1>7, <2>5
    <3> QED
      BY <1>7, <2>5, <3>1 DEF Distinct
  <2> QED
    BY <1>5, <2>2, <2>3, <2>4, <2>5
<1>8. Distinct(s) /\ Distinct(t) /\ ToSet(s) \cap ToSet(t) = {} => Distinct(c)
  BY <1>7 DEF Distinct
<1> QED
  BY <1>2, <1>6, <1>8 DEF c

LEMMA ReversedSet ==
  ASSUME NEW S, NEW s \in Seq(S)
  PROVE  /\ ToSet(Reverse(s)) = ToSet(s)
         /\ Distinct(s) => Distinct(Reverse(s))
<1> DEFINE r == Reverse(s)
<1>1. Len(s) \in Nat
  OBVIOUS
<1>2. r \in Seq(S) /\ Len(r) = Len(s) /\ \A i \in 1 .. Len(s) : r[i] = s[(Len(s) - i) + 1]
  BY ReverseOf
<1> HIDE DEF r
<1>3. \A i \in 1 .. Len(s) : (Len(s) - i) + 1 \in 1 .. Len(s)
  BY <1>1
<1>4. \A i \in 1 .. Len(s) : \E k \in 1 .. Len(s) : r[k] = s[i]
  <2> TAKE i \in 1 .. Len(s)
  <2>1. PICK k : k = (Len(s) - i) + 1
    OBVIOUS
  <2>2. k \in 1 .. Len(s) /\ (Len(s) - k) + 1 = i
    BY <1>1, <2>1
  <2> QED
    BY <1>2, <2>2
<1>5. ToSet(r) = ToSet(s)
  <2>1. ASSUME NEW e \in ToSet(r) PROVE e \in ToSet(s)
    <3>1. PICK i \in 1 .. Len(s) : r[i] = e
      BY <1>2, ToSetTypes
    <3>2. PICK k : k = (Len(s) - i) + 1
      OBVIOUS
    <3>3. k \in 1 .. Len(s) /\ s[k] = e
      BY <1>2, <1>3, <3>1, <3>2
    <3> QED
      BY <3>3, ToSetTypes
  <2>2. ASSUME NEW e \in ToSet(s) PROVE e \in ToSet(r)
    <3>1. PICK i \in 1 .. Len(s) : s[i] = e
      BY ToSetTypes
    <3> QED
      BY <1>2, <1>4, <3>1, ToSetTypes
  <2> QED
    BY <2>1, <2>2
<1>6. ASSUME Distinct(s), NEW i \in 1 .. Len(s), NEW j \in 1 .. Len(s), r[i] = r[j]
      PROVE  i = j
  <2>1. s[(Len(s) - i) + 1] = s[(Len(s) - j) + 1]
    BY <1>2, <1>6
  <2>2. (Len(s) - i) + 1 = (Len(s) - j) + 1
    BY <1>3, <1>6, <2>1 DEF Distinct
  <2> QED
    BY <1>1, <2>2
<1>7. Distinct(s) => Distinct(r)
  BY <1>2, <1>6 DEF Distinct
<1> QED
  BY <1>5, <1>7 DEF r

\* What a full deque gives up at its other end.
LEMMA AtRightOf ==
  ASSUME NEW s \in Seq(Entries), Len(s) <= BufferMax, NEW e \in Entries
  PROVE  /\ AtRight(s, e) \in Seq(Entries)
         /\ Len(AtRight(s, e)) <= BufferMax /\ Len(AtRight(s, e)) <= Len(s) + 1
         /\ ToSet(AtRight(s, e)) \subseteq ToSet(s) \cup {e} /\ e \in ToSet(AtRight(s, e))
         /\ Len(s) < BufferMax => ToSet(s) \subseteq ToSet(AtRight(s, e))
         /\ Distinct(s) /\ e \notin ToSet(s) => Distinct(AtRight(s, e))
<1>1. Len(s) \in Nat /\ BufferMax \in Nat /\ BufferMax > 0
  BY EdgeLogsAssumption
<1>2. PICK u : u = IF Len(s) = BufferMax THEN Tail(s) ELSE s
  OBVIOUS
<1>3. /\ u \in Seq(Entries) /\ Len(u) + 1 <= BufferMax /\ Len(u) <= Len(s)
      /\ ToSet(u) \subseteq ToSet(s) /\ (Len(s) < BufferMax => u = s)
      /\ Distinct(s) => Distinct(u)
  <2>1. CASE Len(s) = BufferMax
    <3>1. s # <<>>
      BY <1>1, <2>1, EmptySeq
    <3>2. Tail(s) = SubSeq(s, 2, Len(s)) /\ 1 + 1 = 2
      BY <3>1, TailIsSubSeq
    <3>3. u = Beyond(1, s)
      BY <1>2, <2>1, <3>2 DEF Beyond
    <3>4. /\ u \in Seq(Entries)
          /\ Len(u) = IF Len(s) < 1 THEN 0 ELSE Len(s) - 1
      BY <3>3, BeyondOf
    <3>5. /\ ToSet(First(1, s)) \cup ToSet(u) = ToSet(s)
          /\ Distinct(s) => Distinct(u)
      <4>1. 1 \in Nat
        OBVIOUS
      <4>2. /\ ToSet(First(1, s)) \cup ToSet(Beyond(1, s)) = ToSet(s)
            /\ Distinct(s) => Distinct(Beyond(1, s))
        BY <4>1, SplitOf, Zenon
      <4> QED
        BY <3>3, <4>2, Zenon
    <3> QED
      BY <1>1, <2>1, <3>4, <3>5
  <2>2. CASE Len(s) # BufferMax
    BY <1>1, <1>2, <2>2
  <2> QED
    BY <2>1, <2>2
<1>4. PICK t : t = <<e>>
  OBVIOUS
<1>5. t \in Seq(Entries) /\ Len(t) = 1 /\ ToSet(t) = {e} /\ Distinct(t)
  BY <1>4 DEF ToSet, Distinct
<1>6. AtRight(s, e) = u \o t
  BY <1>2, <1>3, <1>4, AppendIsConcat DEF AtRight
<1>7. /\ u \o t \in Seq(Entries) /\ Len(u \o t) = Len(u) + Len(t)
      /\ ToSet(u \o t) = ToSet(u) \cup ToSet(t)
      /\ Distinct(u) /\ Distinct(t) /\ ToSet(u) \cap ToSet(t) = {} => Distinct(u \o t)
  BY <1>3, <1>5, ConcatOf, Zenon
<1>8. Len(u) \in Nat
  BY <1>3
<1> QED
  BY <1>1, <1>3, <1>5, <1>6, <1>7, <1>8

LEMMA AtLeftOf ==
  ASSUME NEW s \in Seq(Entries), NEW r \in Seq(Entries)
  PROVE  /\ AtLeft(s, r) \in Seq(Entries)
         /\ Len(AtLeft(s, r)) <= BufferMax /\ Len(AtLeft(s, r)) <= Len(s) + Len(r)
         /\ ToSet(AtLeft(s, r)) \subseteq ToSet(s) \cup ToSet(r)
         /\ Len(s) + Len(r) <= BufferMax => ToSet(AtLeft(s, r)) = ToSet(s) \cup ToSet(r)
         /\ Distinct(s) /\ Distinct(r) /\ ToSet(s) \cap ToSet(r) = {} => Distinct(AtLeft(s, r))
<1>1. Len(s) \in Nat /\ Len(r) \in Nat /\ BufferMax \in Nat
  BY EdgeLogsAssumption
<1>2. PICK v : v = Reverse(r)
  OBVIOUS
<1>3. /\ v \in Seq(Entries) /\ Len(v) = Len(r) /\ ToSet(v) = ToSet(r)
      /\ Distinct(r) => Distinct(v)
  BY <1>2, ReverseOf, ReversedSet
<1>4. PICK c : c = v \o s
  OBVIOUS
<1>5. /\ c \in Seq(Entries) /\ Len(c) = Len(v) + Len(s)
      /\ ToSet(c) = ToSet(v) \cup ToSet(s)
      /\ Distinct(v) /\ Distinct(s) /\ ToSet(v) \cap ToSet(s) = {} => Distinct(c)
  <2>1. v \in Seq(Entries)
    BY <1>3
  <2>2. /\ v \o s \in Seq(Entries) /\ Len(v \o s) = Len(v) + Len(s)
        /\ ToSet(v \o s) = ToSet(v) \cup ToSet(s)
        /\ Distinct(v) /\ Distinct(s) /\ ToSet(v) \cap ToSet(s) = {} => Distinct(v \o s)
    BY <2>1, ConcatOf, Zenon
  <2> QED
    BY <1>4, <2>2, Zenon
<1>6. AtLeft(s, r) = First(BufferMax, c)
  BY <1>2, <1>4 DEF AtLeft
<1>7. /\ First(BufferMax, c) \in Seq(Entries)
      /\ Len(First(BufferMax, c)) = IF Len(c) < BufferMax THEN Len(c) ELSE BufferMax
  BY <1>1, <1>5, FirstOf
<1>8. /\ ToSet(First(BufferMax, c)) \subseteq ToSet(c)
      /\ Len(c) <= BufferMax => First(BufferMax, c) = c
      /\ Distinct(c) => Distinct(First(BufferMax, c))
  <2>1. c \in Seq(Entries) /\ BufferMax \in Nat
    BY <1>1, <1>5
  <2>2. /\ ToSet(First(BufferMax, c)) \cup ToSet(Beyond(BufferMax, c)) = ToSet(c)
        /\ Len(c) <= BufferMax => First(BufferMax, c) = c
        /\ Distinct(c) => Distinct(First(BufferMax, c))
    BY <2>1, SplitOf, Zenon
  <2> QED
    BY <2>2
<1> QED
  BY <1>1, <1>3, <1>5, <1>6, <1>7, <1>8

-------------------------------------------------------------------------------
(* The logs: the warnings *)

WarningTypes ==
  /\ buffer \in Seq(Entries) /\ batch \in Seq(Entries)
  /\ displaced \subseteq Entries /\ ended \subseteq Entries
  /\ stored \in [Entries -> Nat]
  /\ warned \in 0 .. MaxEntries /\ faults \in 0 .. MaxFaults

\* As many warnings were logged as memory holds.
Held ==
  /\ Len(buffer) <= BufferMax /\ Len(batch) <= BufferMax
  /\ Len(buffer) + Len(batch) <= warned

\* A warning waits in one place, or is being posted ...
HeldOnce ==
  /\ Distinct(buffer) /\ Distinct(batch) /\ ToSet(buffer) \cap ToSet(batch) = {}
  /\ ToSet(buffer) \cup ToSet(batch) \subseteq 1 .. warned

\* ... and it is stored once more only as it leaves, or when something fails.
StoredFew ==
  /\ \A e \in ToSet(buffer) \cup ToSet(batch) : stored[e] <= faults
  /\ \A e \in Entries : stored[e] <= faults + 1
  /\ \A e \in Entries : e > warned => stored[e] = 0

WarningInv == WarningTypes /\ Held /\ HeldOnce /\ StoredFew /\ WarningsAccountedFor

LEMMA WarningInitInv ==
  ASSUME EdgeLogsInit
  PROVE  WarningInv
<1>1. ToSet(buffer) = {} /\ ToSet(batch) = {} /\ Len(buffer) = 0 /\ Len(batch) = 0
  BY DEF EdgeLogsInit, ToSet
<1>2. BufferMax \in Nat /\ MaxEntries \in Nat /\ MaxFaults \in Nat
  BY EdgeLogsAssumption
<1>3. buffer \in Seq(Entries) /\ batch \in Seq(Entries)
  BY DEF EdgeLogsInit
<1>4. WarningTypes
  BY <1>2, <1>3 DEF EdgeLogsInit, WarningTypes
<1>5. Held
  BY <1>1, <1>2 DEF EdgeLogsInit, Held
<1>6. HeldOnce
  BY <1>1 DEF HeldOnce, Distinct
<1>7. StoredFew
  BY <1>1 DEF EdgeLogsInit, StoredFew
<1>8. WarningsAccountedFor
  BY DEF EdgeLogsInit, WarningsAccountedFor
<1> QED
  BY <1>4, <1>5, <1>6, <1>7, <1>8 DEF WarningInv

LEMMA EmitStep ==
  ASSUME WarningInv, Emit
  PROVE  WarningInv'
<1>1. /\ WarningTypes /\ Held /\ HeldOnce /\ StoredFew /\ WarningsAccountedFor
      /\ BufferMax \in Nat /\ MaxEntries \in Nat
  BY EdgeLogsAssumption DEF WarningInv
<1>2. PICK e : e = warned'
  OBVIOUS
<1>3. /\ warned < MaxEntries /\ e = warned + 1
      /\ displaced' = displaced \cup Lost(buffer, buffer')
      /\ batch' = batch /\ stored' = stored /\ ended' = ended /\ faults' = faults
  BY <1>2 DEF Emit
<1>4. e \in Entries /\ e \notin 1 .. warned /\ e \in Nat /\ warned \in Nat
      /\ \A x \in 1 .. e : x \in 1 .. warned \/ x = e
  BY <1>1, <1>3 DEF WarningTypes, Entries
<1>5. buffer \in Seq(Entries) /\ Len(buffer) <= BufferMax /\ Len(buffer) \in Nat
      /\ Len(batch) \in Nat
  BY <1>1 DEF WarningTypes, Held
<1>6. PICK b : b = buffer'
  OBVIOUS
<1>7. b = AtRight(buffer, e)
  BY <1>2, <1>6 DEF Emit
<1>8. /\ b \in Seq(Entries) /\ Len(b) <= BufferMax /\ Len(b) <= Len(buffer) + 1
      /\ ToSet(b) \subseteq ToSet(buffer) \cup {e} /\ e \in ToSet(b)
      /\ Len(buffer) < BufferMax => ToSet(buffer) \subseteq ToSet(b)
      /\ Distinct(buffer) /\ e \notin ToSet(buffer) => Distinct(b)
  BY <1>4, <1>5, <1>7, AtRightOf
<1>9. ToSet(buffer) \cup ToSet(batch) \subseteq 1 .. warned
  BY <1>1 DEF HeldOnce
<1>10. WarningTypes'
  <2>1. Lost(buffer, b) \subseteq Entries
    BY <1>5, ToSetTypes DEF Lost
  <2>2. e \in 0 .. MaxEntries
    BY <1>1, <1>3, <1>4 DEF WarningTypes
  <2> QED
    BY <1>1, <1>2, <1>3, <1>6, <1>8, <2>1, <2>2 DEF WarningTypes
<1>11. Held'
  <2>1. Len(b) \in Nat
    BY <1>8
  <2>2. Len(b) + Len(batch) <= warned + 1
    BY <1>1, <1>4, <1>5, <1>8, <2>1 DEF Held
  <2> QED
    BY <1>1, <1>2, <1>3, <1>6, <1>8, <2>2 DEF Held
<1>12. HeldOnce'
  <2>1. Distinct(b) /\ Distinct(batch) /\ ToSet(b) \cap ToSet(batch) = {}
    BY <1>1, <1>4, <1>8, <1>9 DEF HeldOnce
  <2>2. ToSet(b) \cup ToSet(batch) \subseteq 1 .. e
    BY <1>3, <1>4, <1>8, <1>9
  <2> QED
    BY <1>2, <1>3, <1>6, <2>1, <2>2 DEF HeldOnce
<1>13. StoredFew'
  <2>1. \A x \in ToSet(b) \cup ToSet(batch) : stored[x] <= faults
    <3> TAKE x \in ToSet(b) \cup ToSet(batch)
    <3>1. CASE x \in ToSet(buffer) \cup ToSet(batch)
      BY <1>1, <3>1 DEF StoredFew
    <3>2. CASE x = e
      <4>1. stored[e] = 0
        BY <1>1, <1>3, <1>4 DEF StoredFew
      <4> QED
        BY <1>1, <3>2, <4>1 DEF WarningTypes
    <3> QED
      BY <1>8, <3>1, <3>2
  <2>2. \A x \in Entries : x > e => x > warned
    BY <1>3, <1>4 DEF Entries
  <2> QED
    BY <1>1, <1>2, <1>3, <1>6, <2>1, <2>2 DEF StoredFew
<1>14. WarningsAccountedFor'
  <2>1. \A x \in 1 .. e :
          x \in ToSet(b) \cup ToSet(batch) \cup displaced' \cup ended \/ stored[x] > 0
    <3> TAKE x \in 1 .. e
    <3>1. CASE x = e
      BY <1>8, <3>1
    <3>2. CASE x \in 1 .. warned
      BY <1>1, <1>3, <1>6, <3>2 DEF WarningsAccountedFor, Lost
    <3> QED
      BY <1>4, <3>1, <3>2
  <2>2. displaced' # {} => e > BufferMax
    <3>1. CASE displaced # {}
      BY <1>1, <1>3, <1>4, <3>1 DEF WarningsAccountedFor
    <3>2. CASE displaced = {} /\ Len(buffer) < BufferMax
      BY <1>3, <1>6, <1>8, <3>2 DEF Lost
    <3>3. CASE Len(buffer) >= BufferMax
      BY <1>1, <1>3, <1>4, <1>5, <3>3 DEF Held
    <3> QED
      BY <1>1, <1>5, <3>1, <3>2, <3>3
  <2> QED
    BY <1>2, <1>3, <1>6, <2>1, <2>2 DEF WarningsAccountedFor
<1> QED
  BY <1>10, <1>11, <1>12, <1>13, <1>14 DEF WarningInv

LEMMA BeginFlushStep ==
  ASSUME WarningInv, BeginFlush
  PROVE  WarningInv'
<1>1. /\ WarningTypes /\ Held /\ HeldOnce /\ StoredFew /\ WarningsAccountedFor
      /\ batch = <<>> /\ batch' = buffer /\ buffer' = <<>>
      /\ UNCHANGED <<stored, displaced, ended, warned, faults>>
      /\ BufferMax \in Nat
  BY EdgeLogsAssumption DEF WarningInv, BeginFlush
<1>2. /\ ToSet(batch) = {} /\ ToSet(buffer') = {} /\ Len(batch) = 0 /\ Len(buffer') = 0
      /\ buffer' \in Seq(Entries) /\ Len(buffer) \in Nat
  BY <1>1 DEF ToSet, WarningTypes
<1>3. WarningTypes'
  BY <1>1, <1>2 DEF WarningTypes
<1>4. Held'
  BY <1>1, <1>2 DEF Held, WarningTypes
<1>5. HeldOnce'
  <2>1. Distinct(buffer')
    BY <1>2 DEF Distinct
  <2> QED
    BY <1>1, <1>2, <2>1 DEF HeldOnce
<1>6. StoredFew'
  BY <1>1, <1>2 DEF StoredFew
<1>7. WarningsAccountedFor'
  BY <1>1, <1>2 DEF WarningsAccountedFor
<1> QED
  BY <1>3, <1>4, <1>5, <1>6, <1>7 DEF WarningInv

\* The post ends: what was stored leaves and the rest is put back, and of a post that
\* failed all of it.
LEMMA HandBack ==
  ASSUME WarningInv, NEW r \in Seq(Entries), NEW taken \in SUBSET ToSet(batch),
         Distinct(r), Len(r) <= Len(batch),
         ToSet(r) \subseteq ToSet(batch), ToSet(batch) \subseteq ToSet(r) \cup taken,
         stored' = [e \in Entries |-> stored[e] + IF e \in taken THEN 1 ELSE 0],
         \/ faults' = faults /\ taken \cap ToSet(r) = {}
         \/ faults' = faults + 1 /\ faults < MaxFaults,
         buffer' = AtLeft(buffer, r), batch' = <<>>,
         displaced' = displaced \cup Lost(buffer \o r, buffer'),
         UNCHANGED <<ended, warned>>
  PROVE  WarningInv'
<1>1. /\ WarningTypes /\ Held /\ HeldOnce /\ StoredFew /\ WarningsAccountedFor
      /\ BufferMax \in Nat /\ MaxEntries \in Nat /\ MaxFaults \in Nat
      /\ buffer \in Seq(Entries) /\ batch \in Seq(Entries) /\ faults \in Nat /\ warned \in Nat
  BY EdgeLogsAssumption DEF WarningInv, WarningTypes
<1>2. Len(buffer) \in Nat /\ Len(batch) \in Nat /\ Len(r) \in Nat
  BY <1>1
<1>3. PICK b : b = buffer'
  OBVIOUS
<1>4. /\ b \in Seq(Entries)
      /\ Len(b) <= BufferMax /\ Len(b) <= Len(buffer) + Len(r)
      /\ ToSet(b) \subseteq ToSet(buffer) \cup ToSet(r)
      /\ Len(buffer) + Len(r) <= BufferMax => ToSet(b) = ToSet(buffer) \cup ToSet(r)
      /\ Distinct(buffer) /\ Distinct(r) /\ ToSet(buffer) \cap ToSet(r) = {} => Distinct(b)
  <2>1. b = AtLeft(buffer, r)
    BY <1>3
  <2> QED
    BY <1>1, <2>1, AtLeftOf
<1>5. ToSet(batch') = {} /\ Len(batch') = 0 /\ batch' \in Seq(Entries)
  BY DEF ToSet
<1>6. Lost(buffer \o r, b) = (ToSet(buffer) \cup ToSet(r)) \ ToSet(b)
  <2>1. ToSet(buffer \o r) = ToSet(buffer) \cup ToSet(r)
    BY <1>1, ConcatOf, ZenonT(40)
  <2> QED
    BY <2>1 DEF Lost
<1>7. /\ stored' \in [Entries -> Nat]
      /\ \A e \in Entries : /\ stored'[e] <= stored[e] + 1 /\ stored[e] <= stored'[e]
                            /\ stored'[e] > 0 <=> (e \in taken \/ stored[e] > 0)
                            /\ e \notin taken => stored'[e] = stored[e]
  BY <1>1 DEF WarningTypes
<1>8. ToSet(buffer) \subseteq Entries /\ ToSet(batch) \subseteq Entries
  BY <1>1, ToSetTypes
<1>9. faults' \in 0 .. MaxFaults /\ faults' \in Nat
  BY <1>1 DEF WarningTypes
<1>10. WarningTypes'
  BY <1>1, <1>3, <1>4, <1>5, <1>6, <1>7, <1>8, <1>9 DEF WarningTypes
<1>11. Held'
  <2>1. Len(b) \in Nat /\ Len(b) + 0 <= warned
    BY <1>1, <1>2, <1>4 DEF Held
  <2> QED
    BY <1>1, <1>3, <1>4, <1>5, <2>1 DEF Held
<1>12. HeldOnce'
  <2>1. Distinct(b)
    BY <1>1, <1>4 DEF HeldOnce
  <2>2. Distinct(batch')
    BY <1>5 DEF Distinct
  <2>3. ToSet(b) \subseteq 1 .. warned
    BY <1>1, <1>4 DEF HeldOnce
  <2> QED
    BY <1>3, <1>5, <2>1, <2>2, <2>3 DEF HeldOnce
<1>13. StoredFew'
  <2>1. ASSUME NEW e \in ToSet(b) PROVE stored'[e] <= faults'
    <3>1. e \in ToSet(buffer) \cup ToSet(batch) /\ e \in Entries /\ e \in ToSet(buffer) \cup ToSet(r)
      BY <1>4, <1>8, <2>1
    <3>2. stored[e] <= faults /\ stored[e] \in Nat /\ stored'[e] \in Nat
      BY <1>1, <1>7, <3>1 DEF StoredFew, WarningTypes
    <3>3. CASE faults' = faults + 1
      BY <1>1, <1>7, <3>1, <3>2, <3>3
    <3>4. CASE faults' = faults /\ taken \cap ToSet(r) = {}
      <4>1. e \notin taken
        BY <1>1, <3>1, <3>4 DEF HeldOnce
      <4> QED
        BY <1>7, <3>1, <3>2, <3>4, <4>1
    <3> QED
      BY <3>3, <3>4
  <2>2. ASSUME NEW e \in Entries PROVE stored'[e] <= faults' + 1
    <3>1. stored[e] <= faults + 1 /\ stored[e] \in Nat /\ stored'[e] \in Nat
      BY <1>1, <1>7 DEF StoredFew, WarningTypes
    <3>2. CASE e \in taken
      <4>1. stored[e] <= faults
        BY <1>1, <3>2 DEF StoredFew
      <4> QED
        BY <1>1, <1>7, <3>1, <4>1
    <3>3. CASE e \notin taken
      BY <1>1, <1>7, <3>1, <3>3
    <3> QED
      BY <3>2, <3>3
  <2>3. ASSUME NEW e \in Entries, e > warned PROVE stored'[e] = 0
    <3>1. e \notin taken
      BY <1>1, <2>3 DEF HeldOnce
    <3> QED
      BY <1>1, <1>7, <2>3, <3>1 DEF StoredFew
  <2> QED
    BY <1>3, <1>5, <2>1, <2>2, <2>3 DEF StoredFew
<1>14. WarningsAccountedFor'
  <2>1. ASSUME NEW e \in 1 .. warned
        PROVE  e \in ToSet(b) \cup displaced' \cup ended \/ stored'[e] > 0
    <3>1. e \in Entries
      BY <1>1 DEF WarningTypes, Entries
    <3>2. CASE e \in ToSet(buffer) \cup ToSet(r)
      BY <1>3, <1>6, <3>2
    <3>3. CASE e \in taken \/ stored[e] > 0
      BY <1>7, <3>1, <3>3
    <3>4. CASE e \in displaced \cup ended
      BY <3>4
    <3> QED
      BY <1>1, <3>2, <3>3, <3>4 DEF WarningsAccountedFor
  <2>2. displaced' # {} => warned > BufferMax
    <3>1. CASE displaced # {}
      BY <1>1, <3>1 DEF WarningsAccountedFor
    <3>2. CASE displaced = {} /\ Len(buffer) + Len(r) <= BufferMax
      BY <1>3, <1>4, <1>6, <3>2
    <3>3. CASE Len(buffer) + Len(r) > BufferMax
      BY <1>1, <1>2, <3>3 DEF Held
    <3> QED
      BY <1>1, <1>2, <3>1, <3>2, <3>3
  <2> QED
    BY <1>3, <1>5, <2>1, <2>2 DEF WarningsAccountedFor
<1> QED
  BY <1>10, <1>11, <1>12, <1>13, <1>14 DEF WarningInv

LEMMA FlushEndsStep ==
  ASSUME WarningInv, FlushAnswered \/ FlushFails
  PROVE  WarningInv'
<1>1. /\ WarningTypes /\ Held /\ HeldOnce
      /\ batch \in Seq(Entries) /\ BatchMax \in Nat
      /\ batch' = <<>> /\ UNCHANGED <<ended, warned>>
  BY EdgeLogsAssumption DEF WarningInv, WarningTypes, FlushAnswered, FlushFails
<1>2. PICK f : f = First(BatchMax, batch)
  OBVIOUS
<1>3. PICK r : r = Remaining
  OBVIOUS
<1>4. f \in Seq(Entries) /\ r \in Seq(Entries) /\ Len(f) \in Nat /\ Len(r) \in Nat
  <2>1. First(BatchMax, batch) \in Seq(Entries)
    BY <1>1, FirstOf
  <2>2. Beyond(BatchMax, batch) \in Seq(Entries)
    BY <1>1, BeyondOf
  <2> QED
    BY <1>2, <1>3, <2>1, <2>2, LenProperties DEF Remaining
<1>5. /\ ToSet(f) \cup ToSet(r) = ToSet(batch) /\ Len(f) + Len(r) = Len(batch)
      /\ Distinct(batch) => Distinct(r) /\ ToSet(f) \cap ToSet(r) = {}
  <2>1. /\ ToSet(First(BatchMax, batch)) \cup ToSet(Beyond(BatchMax, batch)) = ToSet(batch)
        /\ Len(First(BatchMax, batch)) + Len(Beyond(BatchMax, batch)) = Len(batch)
        /\ Distinct(batch) => /\ Distinct(First(BatchMax, batch))
                              /\ Distinct(Beyond(BatchMax, batch))
                              /\ ToSet(First(BatchMax, batch)) \cap ToSet(Beyond(BatchMax, batch)) = {}
    BY <1>1, SplitOf, Zenon
  <2> QED
    BY <1>2, <1>3, <2>1, Zenon DEF Remaining
<1>6. Distinct(batch)
  BY <1>1 DEF HeldOnce
<1>7. CASE FlushAnswered
  <2>1. PICK taken : taken = ToSet(f)
    OBVIOUS
  <2>2. stored' = [e \in Entries |-> stored[e] + IF e \in taken THEN 1 ELSE 0]
    BY <1>2, <1>7, <2>1 DEF FlushAnswered, StoredOnce
  <2>3. /\ buffer' = AtLeft(buffer, r) /\ displaced' = displaced \cup Lost(buffer \o r, buffer')
        /\ faults' = faults
    BY <1>3, <1>7 DEF FlushAnswered
  <2>4. /\ taken \in SUBSET ToSet(batch) /\ Distinct(r) /\ Len(r) <= Len(batch)
        /\ ToSet(r) \subseteq ToSet(batch) /\ ToSet(batch) \subseteq ToSet(r) \cup taken
        /\ taken \cap ToSet(r) = {}
    BY <1>4, <1>5, <1>6, <2>1
  <2> QED
    BY <1>1, <1>4, <2>2, <2>3, <2>4, HandBack
<1>8. CASE FlushFails
  <2>1. PICK n \in 0 .. BatchMax : stored' = StoredOnce(First(n, f))
    BY <1>2, <1>8 DEF FlushFails
  <2>2. PICK taken : taken = ToSet(First(n, f))
    OBVIOUS
  <2>3. stored' = [e \in Entries |-> stored[e] + IF e \in taken THEN 1 ELSE 0]
    BY <2>1, <2>2 DEF StoredOnce
  <2>4. taken \in SUBSET ToSet(batch)
    <3>1. n \in Nat
      BY <1>1
    <3>2. ToSet(First(n, f)) \cup ToSet(Beyond(n, f)) = ToSet(f)
      BY <1>4, <3>1, SplitOf, Zenon
    <3> QED
      BY <1>5, <2>2, <3>2
  <2>5. /\ buffer' = AtLeft(buffer, batch)
        /\ displaced' = displaced \cup Lost(buffer \o batch, buffer')
        /\ faults' = faults + 1 /\ faults < MaxFaults
    BY <1>8 DEF FlushFails
  <2>6. PICK b : b = batch
    OBVIOUS
  <2>7. /\ b \in Seq(Entries) /\ Distinct(b) /\ Len(b) <= Len(batch)
        /\ ToSet(b) \subseteq ToSet(batch) /\ ToSet(batch) \subseteq ToSet(b) \cup taken
        /\ buffer' = AtLeft(buffer, b)
        /\ displaced' = displaced \cup Lost(buffer \o b, buffer')
    BY <1>1, <1>6, <2>5, <2>6
  <2> QED
    BY <1>1, <2>3, <2>4, <2>5, <2>7, HandBack
<1> QED
  BY <1>7, <1>8

LEMMA AgentEndsStep ==
  ASSUME WarningInv, AgentEnds
  PROVE  WarningInv'
<1>1. /\ WarningTypes /\ Held /\ HeldOnce /\ StoredFew /\ WarningsAccountedFor
      /\ BatchMax \in Nat /\ BufferMax \in Nat /\ MaxFaults \in Nat /\ MaxEntries \in Nat
      /\ buffer \in Seq(Entries) /\ batch \in Seq(Entries) /\ faults \in Nat /\ warned \in Nat
      /\ UNCHANGED <<displaced, warned>> /\ faults' = faults + 1 /\ faults < MaxFaults
      /\ ended' = ended \cup ToSet(buffer) \cup ToSet(batch)
      /\ buffer' = <<>> /\ batch' = <<>>
  BY EdgeLogsAssumption, SMTT(30) DEF WarningInv, WarningTypes, AgentEnds
<1>2. PICK last : last = IF batch = <<>> THEN buffer ELSE batch
  OBVIOUS
<1>3. PICK n \in 0 .. BatchMax : stored' = StoredOnce(First(n, First(BatchMax, last)))
  BY <1>2 DEF AgentEnds
<1>4. PICK taken : taken = ToSet(First(n, First(BatchMax, last)))
  OBVIOUS
<1>5. taken \subseteq ToSet(buffer) \cup ToSet(batch)
  <2>1. last \in Seq(Entries) /\ n \in Nat
    BY <1>1, <1>2
  <2>2. First(BatchMax, last) \in Seq(Entries)
    BY <1>1, <2>1, FirstOf
  <2>3. /\ ToSet(First(BatchMax, last)) \cup ToSet(Beyond(BatchMax, last)) = ToSet(last)
    BY <1>1, <2>1, SplitOf, Zenon
  <2>4. ToSet(First(n, First(BatchMax, last))) \cup ToSet(Beyond(n, First(BatchMax, last)))
          = ToSet(First(BatchMax, last))
    BY <2>1, <2>2, SplitOf, Zenon
  <2> QED
    BY <1>2, <1>4, <2>3, <2>4
<1>6. /\ stored' \in [Entries -> Nat]
      /\ \A e \in Entries : /\ stored'[e] <= stored[e] + 1 /\ stored[e] <= stored'[e]
                            /\ e \notin taken => stored'[e] = stored[e]
  BY <1>1, <1>3, <1>4 DEF WarningTypes, StoredOnce
<1>7. /\ ToSet(buffer') = {} /\ ToSet(batch') = {} /\ Len(buffer') = 0 /\ Len(batch') = 0
      /\ buffer' \in Seq(Entries) /\ batch' \in Seq(Entries)
      /\ ToSet(buffer) \subseteq Entries /\ ToSet(batch) \subseteq Entries
  BY <1>1, ToSetTypes DEF ToSet
<1>8. WarningTypes'
  BY <1>1, <1>6, <1>7 DEF WarningTypes
<1>9. Held'
  BY <1>1, <1>7 DEF Held
<1>10. HeldOnce'
  BY <1>7 DEF HeldOnce, Distinct
<1>11. StoredFew'
  <2>1. ASSUME NEW e \in Entries PROVE stored'[e] <= faults' + 1
    <3>1. stored[e] <= faults + 1 /\ stored[e] \in Nat /\ stored'[e] \in Nat
      BY <1>1, <1>6 DEF StoredFew, WarningTypes
    <3> QED
      BY <1>1, <1>6, <3>1
  <2>2. ASSUME NEW e \in Entries, e > warned PROVE stored'[e] = 0
    <3>1. e \notin taken
      BY <1>1, <1>5, <2>2 DEF HeldOnce
    <3> QED
      BY <1>1, <1>6, <2>2, <3>1 DEF StoredFew
  <2> QED
    BY <1>1, <1>7, <2>1, <2>2 DEF StoredFew
<1>12. WarningsAccountedFor'
  <2>1. ASSUME NEW e \in 1 .. warned
        PROVE  e \in displaced \cup ended' \/ stored'[e] > 0
    <3>1. e \in Entries
      BY <1>1 DEF WarningTypes, Entries
    <3>2. stored[e] > 0 => stored'[e] > 0
      BY <1>6, <3>1, <1>1 DEF WarningTypes
    <3> QED
      BY <1>1, <3>2 DEF WarningsAccountedFor
  <2> QED
    BY <1>1, <2>1 DEF WarningsAccountedFor
<1> QED
  BY <1>8, <1>9, <1>10, <1>11, <1>12 DEF WarningInv

-------------------------------------------------------------------------------
(* The logs: the events *)

AlertEvent == [id : 1 .. MaxAlerts, synced : BOOLEAN]

\* The file holds the last events, numbered in a row.
EventInv ==
  /\ alertFile \in Seq(AlertEvent)
  /\ beat \in [sent : BOOLEAN, ids : SUBSET (1 .. MaxAlerts)]
  /\ noted \in 0 .. MaxAlerts
  /\ Len(alertFile) = (IF noted < KeepAlerts THEN noted ELSE KeepAlerts)
  /\ \A i \in 1 .. Len(alertFile) : alertFile[i].id = (noted - Len(alertFile)) + i

LEMMA EventInitInv ==
  ASSUME EdgeLogsInit
  PROVE  EventInv
<1>1. KeepAlerts \in Nat /\ MaxAlerts \in Nat /\ KeepAlerts > 0
  BY EdgeLogsAssumption
<1> QED
  BY <1>1 DEF EdgeLogsInit, EventInv, NoBeat

LEMMA LogEventStep ==
  ASSUME EventInv, LogEvent
  PROVE  EventInv'
<1>1. /\ KeepAlerts \in Nat /\ MaxAlerts \in Nat /\ KeepAlerts > 0
      /\ noted \in Nat /\ noted < MaxAlerts /\ noted' = noted + 1 /\ beat' = beat
      /\ alertFile \in Seq(AlertEvent) /\ Len(alertFile) \in Nat
      /\ Len(alertFile) = (IF noted < KeepAlerts THEN noted ELSE KeepAlerts)
      /\ \A i \in 1 .. Len(alertFile) : alertFile[i].id = (noted - Len(alertFile)) + i
  BY EdgeLogsAssumption DEF EventInv, LogEvent
<1>2. PICK m : m = noted'
  OBVIOUS
<1>3. PICK x : x = [id |-> m, synced |-> FALSE]
  OBVIOUS
<1>4. m \in 1 .. MaxAlerts /\ m = noted + 1
  BY <1>1, <1>2
<1>5. x \in AlertEvent /\ x.id = m
  BY <1>3, <1>4 DEF AlertEvent
<1>6. PICK a : a = Append(alertFile, x)
  OBVIOUS
<1>7. /\ a \in Seq(AlertEvent) /\ Len(a) = Len(alertFile) + 1
      /\ \A i \in 1 .. Len(alertFile) : a[i] = alertFile[i]
      /\ a[Len(alertFile) + 1] = x
  BY <1>1, <1>5, <1>6, AppendProperties
<1>8. \A i \in 1 .. Len(a) : a[i].id = (m - Len(a)) + i
  <2> TAKE i \in 1 .. Len(a)
  <2>1. CASE i \in 1 .. Len(alertFile)
    BY <1>1, <1>4, <1>7, <2>1, SMTT(30)
  <2>2. CASE i = Len(alertFile) + 1
    BY <1>1, <1>4, <1>5, <1>7, <2>2, SMTT(30)
  <2> QED
    BY <1>1, <1>7, <2>1, <2>2
<1>9. alertFile' = Rotated(a)
  BY <1>2, <1>3, <1>6 DEF LogEvent
<1>10. CASE noted < KeepAlerts
  <2>1. alertFile' = a /\ Len(a) = m
    BY <1>1, <1>4, <1>7, <1>9, <1>10 DEF Rotated
  <2>2. m \in 0 .. MaxAlerts /\ Len(a) = (IF m < KeepAlerts THEN m ELSE KeepAlerts)
    BY <1>1, <1>4, <1>7, <1>10
  <2>3. beat' \in [sent : BOOLEAN, ids : SUBSET (1 .. MaxAlerts)]
    BY <1>1 DEF EventInv
  <2> QED
    BY <1>2, <1>7, <1>8, <2>1, <2>2, <2>3 DEF EventInv
<1>11. CASE ~(noted < KeepAlerts)
  <2>1. Len(a) = KeepAlerts + 1 /\ Len(a) - KeepAlerts = 1
    BY <1>1, <1>7, <1>11
  <2>2. PICK b : b = Beyond(1, a)
    OBVIOUS
  <2>3. alertFile' = b
    BY <1>1, <1>9, <2>1, <2>2 DEF Rotated
  <2>4. /\ b \in Seq(AlertEvent) /\ Len(b) = (IF Len(a) < 1 THEN 0 ELSE Len(a) - 1)
        /\ \A i \in 1 .. Len(b) : b[i] = a[i + 1]
    BY <1>7, <2>2, BeyondOf
  <2>5. Len(b) = KeepAlerts
    BY <1>1, <2>1, <2>4
  <2>6. \A i \in 1 .. Len(b) : b[i].id = (m - Len(b)) + i
    <3> TAKE i \in 1 .. Len(b)
    <3>1. i + 1 \in 1 .. Len(a)
      BY <1>1, <2>1, <2>5
    <3>2. b[i].id = (m - Len(a)) + (i + 1)
      BY <1>8, <2>4, <3>1
    <3>3. i \in Int /\ m \in Int /\ Len(a) \in Int /\ Len(a) = Len(b) + 1
      BY <1>1, <1>4, <2>1, <2>5
    <3>4. (m - Len(a)) + (i + 1) = (m - Len(b)) + i
      BY <3>3
    <3> QED
      BY <3>2, <3>4
  <2>7. m \in 0 .. MaxAlerts /\ Len(b) = (IF m < KeepAlerts THEN m ELSE KeepAlerts)
    BY <1>1, <1>4, <1>11, <2>5
  <2>8. beat' \in [sent : BOOLEAN, ids : SUBSET (1 .. MaxAlerts)]
    BY <1>1 DEF EventInv
  <2> QED
    BY <1>2, <2>3, <2>4, <2>6, <2>7, <2>8 DEF EventInv
<1> QED
  BY <1>10, <1>11

LEMMA HeartbeatStep ==
  ASSUME EventInv, SendHeartbeat \/ HeartbeatAnswered \/ HeartbeatFails
  PROVE  EventInv'
<1>1. alertFile \in Seq(AlertEvent) /\ Len(alertFile) \in Nat /\ DOMAIN alertFile = 1 .. Len(alertFile)
  BY LenProperties DEF EventInv
<1>2. \A i \in 1 .. Len(alertFile) : alertFile[i] \in AlertEvent
  BY <1>1
<1>3. CASE SendHeartbeat
  <2>1. Unmarked \in SUBSET (1 .. MaxAlerts)
    BY <1>1, <1>2 DEF Unmarked, AlertEvent
  <2>2. beat' \in [sent : BOOLEAN, ids : SUBSET (1 .. MaxAlerts)]
    BY <1>3, <2>1 DEF SendHeartbeat
  <2> QED
    BY <1>3, <2>2 DEF SendHeartbeat, EventInv
<1>4. CASE HeartbeatFails
  BY <1>4 DEF HeartbeatFails, NoBeat, EventInv
<1>5. CASE HeartbeatAnswered
  <2>1. PICK a : a = alertFile'
    OBVIOUS
  <2>2. a = [i \in 1 .. Len(alertFile) |->
               [alertFile[i] EXCEPT !.synced = @ \/ alertFile[i].id \in beat.ids]]
    BY <1>1, <1>5, <2>1 DEF HeartbeatAnswered, Marked
  <2>3. \A i \in 1 .. Len(alertFile) : a[i] \in AlertEvent /\ a[i].id = alertFile[i].id
    <3> TAKE i \in 1 .. Len(alertFile)
    <3>1. PICK w \in BOOLEAN : w = (alertFile[i].synced \/ alertFile[i].id \in beat.ids)
      OBVIOUS
    <3>2. a[i] = [alertFile[i] EXCEPT !.synced = w]
      BY <2>2, <3>1
    <3> QED
      BY <1>2, <3>2 DEF AlertEvent
  <2>4. a \in Seq(AlertEvent) /\ Len(a) = Len(alertFile)
    <3>1. PICK n \in Nat : n = Len(alertFile)
      BY <1>1
    <3>2. DOMAIN a = 1 .. n /\ a \in [1 .. n -> AlertEvent]
      BY <2>2, <2>3, <3>1
    <3>3. a \in Seq(AlertEvent)
      BY <3>2, SeqDef
    <3> QED
      BY <3>1, <3>2, <3>3
  <2>5. NoBeat \in [sent : BOOLEAN, ids : SUBSET (1 .. MaxAlerts)]
    BY DEF NoBeat
  <2>6. beat' = NoBeat /\ noted' = noted
    BY <1>5 DEF HeartbeatAnswered
  <2> QED
    BY <2>1, <2>3, <2>4, <2>5, <2>6 DEF EventInv
<1> QED
  BY <1>3, <1>4, <1>5

LogInv == WarningInv /\ EventInv

LEMMA LogInductive == LogInv /\ [EdgeLogsNext]_edgeLogVars => LogInv'
<1> SUFFICES ASSUME WarningInv, EventInv, [EdgeLogsNext]_edgeLogVars
             PROVE  WarningInv' /\ EventInv'
  BY DEF LogInv
<1>1. ASSUME UNCHANGED <<buffer, batch, stored, displaced, ended, warned, faults>>
      PROVE  WarningInv'
  BY <1>1 DEF WarningInv, WarningTypes, Held, HeldOnce, StoredFew, WarningsAccountedFor
<1>2. ASSUME UNCHANGED <<buffer, batch, stored, displaced, ended, warned>>,
             faults' = faults + 1, faults < MaxFaults
      PROVE  WarningInv'
  <2>1. /\ faults \in Nat /\ MaxFaults \in Nat
        /\ ToSet(buffer) \subseteq Entries /\ ToSet(batch) \subseteq Entries
        /\ \A e \in Entries : stored[e] \in Nat
    BY EdgeLogsAssumption, ToSetTypes DEF WarningInv, WarningTypes
  <2>2. WarningTypes'
    BY <1>2, <2>1 DEF WarningInv, WarningTypes
  <2>3. StoredFew'
    BY <1>2, <2>1 DEF WarningInv, StoredFew
  <2> QED
    BY <1>2, <2>2, <2>3 DEF WarningInv, Held, HeldOnce, WarningsAccountedFor
<1>3. ASSUME UNCHANGED <<alertFile, beat, noted>>
      PROVE  EventInv'
  BY <1>3 DEF EventInv
<1>4. CASE Emit
  BY <1>3, <1>4, EmitStep DEF Emit
<1>5. CASE BeginFlush
  BY <1>3, <1>5, BeginFlushStep DEF BeginFlush
<1>6. CASE FlushAnswered \/ FlushFails
  BY <1>3, <1>6, FlushEndsStep DEF FlushAnswered, FlushFails
<1>7. CASE LogEvent
  BY <1>1, <1>7, LogEventStep DEF LogEvent
<1>8. CASE SendHeartbeat \/ HeartbeatAnswered
  BY <1>1, <1>8, HeartbeatStep DEF SendHeartbeat, HeartbeatAnswered
<1>9. CASE HeartbeatFails
  BY <1>2, <1>9, HeartbeatStep DEF HeartbeatFails
<1>10. CASE AgentEnds
  <2>1. EventInv'
    <3>1. NoBeat \in [sent : BOOLEAN, ids : SUBSET (1 .. MaxAlerts)]
      BY DEF NoBeat
    <3> QED
      BY <1>10, <3>1 DEF AgentEnds, EventInv
  <2> QED
    BY <1>10, <2>1, AgentEndsStep
<1>11. CASE UNCHANGED edgeLogVars
  BY <1>1, <1>3, <1>11 DEF edgeLogVars
<1> QED
  BY <1>4, <1>5, <1>6, <1>7, <1>8, <1>9, <1>10, <1>11 DEF EdgeLogsNext

LEMMA LogInvariant == EdgeLogsSpec => []LogInv
<1>1. EdgeLogsInit => LogInv
  BY WarningInitInv, EventInitInv DEF LogInv
<1>2. LogInv /\ [EdgeLogsNext]_edgeLogVars => LogInv'
  BY LogInductive
<1> QED
  BY <1>1, <1>2, PTL DEF EdgeLogsSpec

LEMMA LogTyped == LogInv => EdgeLogsTypeOK
<1> SUFFICES ASSUME WarningInv, EventInv
             PROVE  EdgeLogsTypeOK
  BY DEF LogInv
<1>1. /\ WarningTypes /\ Held /\ StoredFew /\ faults \in Nat /\ MaxFaults \in Nat
      /\ faults <= MaxFaults
  BY EdgeLogsAssumption DEF WarningInv, WarningTypes
<1>2. ToSet(buffer) \subseteq Entries /\ ToSet(batch) \subseteq Entries
  BY <1>1, ToSetTypes DEF WarningTypes
<1>3. stored \in [Entries -> 0 .. MaxFaults + 1]
  <2>1. \A e \in Entries : stored[e] \in Nat /\ stored[e] <= faults + 1
    BY <1>1 DEF WarningTypes, StoredFew
  <2>2. \A e \in Entries : stored[e] \in 0 .. MaxFaults + 1
    BY <1>1, <2>1
  <2> QED
    BY <1>1, <2>2 DEF WarningTypes
<1>4. /\ Len(alertFile) <= KeepAlerts
      /\ \A i \in DOMAIN alertFile : alertFile[i] \in [id : 1 .. MaxAlerts, synced : BOOLEAN]
  <2>1. KeepAlerts \in Nat /\ noted \in Nat
    BY EdgeLogsAssumption DEF EventInv
  <2>2. alertFile \in Seq(AlertEvent) /\ DOMAIN alertFile = 1 .. Len(alertFile)
    BY LenProperties DEF EventInv
  <2>3. \A i \in 1 .. Len(alertFile) : alertFile[i] \in [id : 1 .. MaxAlerts, synced : BOOLEAN]
    BY <2>2, ElementOfSeq DEF AlertEvent
  <2>4. Len(alertFile) <= KeepAlerts
    BY <2>1 DEF EventInv
  <2> QED
    BY <2>2, <2>3, <2>4
<1> QED
  BY <1>1, <1>2, <1>3, <1>4 DEF EdgeLogsTypeOK, WarningTypes, Held, EventInv

\* The buffer and the file stay within their sizes, and a warning is stored at most once
\* more than posts have failed and agents have ended.
THEOREM LogTypeCorrect == EdgeLogsSpec => []EdgeLogsTypeOK
  BY LogTyped, LogInvariant, PTL

\* log_shipper.py and alert_log.py: whatever posts fail and whatever is logged meanwhile,
\* a warning waits, is being posted or was stored, unless it fell out of a buffer that
\* was full or the agent ended; and the file holds, in the order of their coming, exactly
\* as many of the last events as it keeps, marked or not.
THEOREM NothingVanishesCorrect == EdgeLogsSpec => []NothingVanishes
<1>1. LogInv => NothingVanishes
  <2> SUFFICES ASSUME WarningInv, EventInv
               PROVE  UnmarkedEventsStay
    BY DEF LogInv, NothingVanishes, WarningInv
  <2>1. /\ alertFile \in Seq(AlertEvent) /\ Len(alertFile) \in Nat
        /\ DOMAIN alertFile = 1 .. Len(alertFile)
        /\ noted \in Nat /\ KeepAlerts \in Nat
        /\ Len(alertFile) = (IF noted < KeepAlerts THEN noted ELSE KeepAlerts)
        /\ \A i \in 1 .. Len(alertFile) : alertFile[i].id = (noted - Len(alertFile)) + i
    BY EdgeLogsAssumption, LenProperties DEF EventInv
  <2>2. PICK ids : ids = [i \in DOMAIN alertFile |-> alertFile[i].id]
    OBVIOUS
  <2>3. DOMAIN ids = 1 .. Len(alertFile)
        /\ \A i \in 1 .. Len(alertFile) : ids[i] = (noted - Len(alertFile)) + i
    BY <2>1, <2>2
  <2>4. \A i, j \in DOMAIN ids : i < j => ids[i] < ids[j]
    BY <2>1, <2>3
  <2>5. ASSUME NEW e \in ToSet(ids) PROVE e \in 1 .. noted /\ e + KeepAlerts > noted
    <3>1. PICK i \in 1 .. Len(alertFile) : e = (noted - Len(alertFile)) + i
      BY <2>3, <2>5 DEF ToSet
    <3> QED
      BY <2>1, <3>1
  <2>6. ASSUME NEW e \in 1 .. noted, e + KeepAlerts > noted PROVE e \in ToSet(ids)
    <3>1. PICK i : i = e - (noted - Len(alertFile))
      OBVIOUS
    <3>2. i \in 1 .. Len(alertFile) /\ e = (noted - Len(alertFile)) + i
      BY <2>1, <2>6, <3>1
    <3> QED
      BY <2>3, <3>2 DEF ToSet
  <2>7. ToSet(ids) = { e \in 1 .. noted : e + KeepAlerts > noted }
    BY <2>5, <2>6
  <2> QED
    BY <2>2, <2>4, <2>7 DEF UnmarkedEventsStay
<1> QED
  BY <1>1, LogInvariant, PTL

-------------------------------------------------------------------------------
(* What is sent to the agents and what runs on them, one part at work in a behaviour *)

\* The invariant of the part at work
FleetsInv ==
  /\ component \in {"commands", "rollout"} => RolloutInv
  /\ component = "config" => ConfigInv
  /\ component = "devices" => DeviceInv
  /\ component = "swap" => SwapInv
  /\ component = "logs" => LogInv
  /\ component = "files" => FilesInv

FleetPart ==
  \/ component \in {"commands", "rollout"} /\ [FleetNext]_fleetVars
  \/ component = "config" /\ [ConfigNext]_configVars
  \/ component = "devices" /\ [DeviceNext]_deviceVars
  \/ component = "swap" /\ [SwapNext]_swapVars
  \/ component = "logs" /\ [EdgeLogsNext]_edgeLogVars
  \/ component = "files" /\ [LocalFilesNext]_localFileVars

\* A step is one of the part at work, which stays the one at work.
LEMMA FleetAtWork ==
  ASSUME [FleetsNext]_FleetsVars, component \in Components
  PROVE  component' = component /\ FleetPart
<1>1. CASE UNCHANGED FleetsVars
  <2>1. /\ component' = component
        /\ UNCHANGED fleetVars /\ UNCHANGED configVars /\ UNCHANGED deviceVars
        /\ UNCHANGED swapVars /\ UNCHANGED edgeLogVars /\ UNCHANGED localFileVars
    BY <1>1 DEF FleetsVars
  <2> QED
    BY <2>1 DEF FleetPart, Components
<1>2. CASE FleetsNext
  <2>1. component' = component
    BY <1>2 DEF FleetsNext
  <2>2. CASE component = "commands" /\ CommandNext /\ UNCHANGED rolloutVars
    BY <2>1, <2>2 DEF FleetPart, FleetNext
  <2>3. CASE component = "rollout" /\ FleetNext
    BY <2>1, <2>3 DEF FleetPart
  <2>4. CASE component = "config" /\ ConfigNext
    BY <2>1, <2>4 DEF FleetPart
  <2>5. CASE component = "devices" /\ DeviceNext
    BY <2>1, <2>5 DEF FleetPart
  <2>6. CASE component = "swap" /\ SwapNext
    BY <2>1, <2>6 DEF FleetPart
  <2>7. CASE component = "logs" /\ EdgeLogsNext
    BY <2>1, <2>7 DEF FleetPart
  <2>8. CASE component = "files" /\ LocalFilesNext
    BY <2>1, <2>8 DEF FleetPart
  <2>9. \/ component = "commands" /\ CommandNext /\ UNCHANGED rolloutVars
        \/ component = "rollout" /\ FleetNext
        \/ component = "config" /\ ConfigNext
        \/ component = "devices" /\ DeviceNext
        \/ component = "swap" /\ SwapNext
        \/ component = "logs" /\ EdgeLogsNext
        \/ component = "files" /\ LocalFilesNext
    BY <1>2 DEF FleetsNext
  <2> QED
    BY <2>2, <2>3, <2>4, <2>5, <2>6, <2>7, <2>8, <2>9
<1> QED
  BY <1>1, <1>2

LEMMA FleetsStep ==
  ASSUME FleetsInv, component \in Components, [FleetsNext]_FleetsVars
  PROVE  FleetsInv' /\ component' \in Components
<1>1. component' = component /\ FleetPart
  BY FleetAtWork
<1>2. CASE component \in {"commands", "rollout"}
  <2>1. RolloutInv /\ [FleetNext]_fleetVars
    BY <1>1, <1>2 DEF FleetsInv, FleetPart
  <2> QED
    BY <1>1, <1>2, <2>1, RolloutInductive DEF FleetsInv
<1>3. CASE component = "config"
  <2>1. ConfigInv /\ [ConfigNext]_configVars
    BY <1>1, <1>3 DEF FleetsInv, FleetPart
  <2> QED
    BY <1>1, <1>3, <2>1, ConfigInductive DEF FleetsInv
<1>4. CASE component = "devices"
  <2>1. DeviceInv /\ [DeviceNext]_deviceVars
    BY <1>1, <1>4 DEF FleetsInv, FleetPart
  <2> QED
    BY <1>1, <1>4, <2>1, DeviceInductive DEF FleetsInv
<1>5. CASE component = "swap"
  <2>1. SwapInv /\ [SwapNext]_swapVars
    BY <1>1, <1>5 DEF FleetsInv, FleetPart
  <2> QED
    BY <1>1, <1>5, <2>1, SwapInductive DEF FleetsInv
<1>6. CASE component = "logs"
  <2>1. LogInv /\ [EdgeLogsNext]_edgeLogVars
    BY <1>1, <1>6 DEF FleetsInv, FleetPart
  <2> QED
    BY <1>1, <1>6, <2>1, LogInductive DEF FleetsInv
<1>7. CASE component = "files"
  <2>1. FilesInv /\ [LocalFilesNext]_localFileVars
    BY <1>1, <1>7 DEF FleetsInv, FleetPart
  <2> QED
    BY <1>1, <1>7, <2>1, FilesInductive DEF FleetsInv
<1> QED
  BY <1>1, <1>2, <1>3, <1>4, <1>5, <1>6, <1>7 DEF Components

LEMMA FleetsInvariant == FleetsSpec => [](FleetsInv /\ component \in Components)
<1>1. FleetsInit => FleetsInv /\ component \in Components
  <2> SUFFICES ASSUME FleetsInit
               PROVE  FleetsInv /\ component \in Components
    OBVIOUS
  <2>1. /\ component \in Components
        /\ FleetInit /\ ConfigInit /\ DeviceInit /\ SwapInit /\ EdgeLogsInit /\ LocalFilesInit
    BY DEF FleetsInit
  <2>2. RolloutInv /\ ConfigInv /\ DeviceInv /\ SwapInv /\ FilesInv
    BY <2>1, RolloutInitInv, ConfigInitInv, DeviceInitInv, SwapInitInv, FilesInitInv
  <2>3. LogInv
    BY <2>1, WarningInitInv, EventInitInv DEF LogInv
  <2> QED
    BY <2>1, <2>2, <2>3 DEF FleetsInv
<1>2. (FleetsInv /\ component \in Components) /\ [FleetsNext]_FleetsVars =>
        (FleetsInv /\ component \in Components)'
  BY FleetsStep
<1> QED
  BY <1>1, <1>2, PTL DEF FleetsSpec

\* Whichever part works, its variables keep their types: for any agents, commands,
\* requests, plugs, versions, warnings, files and bounds, not only those of the run.
THEOREM FleetTypesCorrect == FleetsSpec => []FleetTypes
<1>1. FleetsInv => FleetTypes
  <2> SUFFICES ASSUME FleetsInv
               PROVE  FleetTypes
    OBVIOUS
  <2>1. component \in {"commands", "rollout"} => CommandTypeOK /\ RolloutTypeOK
    BY RolloutTyped DEF FleetsInv, RolloutInv, QueueInv, QueueTypes
  <2>2. /\ component = "config" => ConfigTypeOK
        /\ component = "devices" => DeviceTypeOK
    BY ConfigTyped, DeviceTyped DEF FleetsInv
  <2>3. /\ component = "swap" => SwapTypeOK
        /\ component = "logs" => EdgeLogsTypeOK
        /\ component = "files" => LocalFilesTypeOK
    BY SwapTyped, LogTyped, FilesTyped DEF FleetsInv
  <2> QED
    BY <2>1, <2>2, <2>3 DEF FleetTypes
<1> QED
  BY <1>1, FleetsInvariant, PTL
===============================================================================
