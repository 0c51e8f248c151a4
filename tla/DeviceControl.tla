------------------------------ MODULE DeviceControl ------------------------------
(***************************************************************************)
(* Switching a device from the dashboard: routers/devices.py sends the     *)
(* command through services/edge_proxy_service.py to the agent's receiver, *)
(* whose controller (device_controller.py) tries it three times on the     *)
(* plug; the cloud then writes what it takes the device's status to be.    *)
(* The controller blocks the receiver, so it runs one command at a time,   *)
(* and the cloud may stop waiting before it is through.  It takes a reply  *)
(* of the plug as success without reading it.                              *)
(*                                                                         *)
(* routers/edge_proxy.py sends the same command for a user who controls a  *)
(* device directly, and writes no status at all.                           *)
(*                                                                         *)
(* Devices are plugs behind an agent.  MQTT and webhook controllers fail   *)
(* and count failures in the same way but nothing in the cloud asks for    *)
(* them.                                                                   *)
(***************************************************************************)
EXTENDS Naturals, FiniteSets

CONSTANTS
  Plugs,       \* TP-Link devices of one agent
  Callers,     \* requests that can be under way at a time
  Attempts,    \* attempts of one command
  OfflineAfter, \* DEVICE_MAX_CONSECUTIVE_FAILURES
  TriggerLimit,\* DEVICE_TRIGGER_RATE_LIMIT_PER_MIN
  Minute,      \* length of the limiter's window
  MaxRenames

ASSUME DeviceAssumption ==
  /\ {Attempts, OfflineAfter, TriggerLimit, Minute, MaxRenames} \subseteq Nat
  /\ Attempts > 0 /\ OfflineAfter > 0 /\ Plugs # {}

VARIABLES
  plugOn,   \* plugs that are on
  status,   \* the status document of each plug
  named,    \* plugs the edge knows under the name the cloud uses
  call,     \* what each toggle, or direct request, is doing in the cloud
  command,  \* and its command at the edge
  failed,   \* commands in a row that failed, for each plug
  offline,  \* plugs the controller has marked offline
  heard,    \* plugs whose status was written on the answer "ok" to a toggle that
            \* had no other command beside it, and neither written nor the plug sent
            \* another command since
  refused,  \* plugs whose last reply, since a request was made, was no success
  triggers, \* ages of the triggers of each plug in the limiter's window
  renames

deviceVars ==
  <<plugOn, status, named, call, command, failed, offline, heard, refused, triggers, renames>>

NoCall == [at |-> "idle", plug |-> CHOOSE p \in Plugs : TRUE, on |-> FALSE, alone |-> FALSE,
           direct |-> FALSE]
NoCommand == [at |-> "none", tries |-> 0, known |-> FALSE]
Answers == {"ok", "failed", "unsupported"}
Target(t) == call[t].plug

DeviceTypeOK ==
  /\ plugOn \subseteq Plugs /\ named \subseteq Plugs /\ offline \subseteq Plugs
  /\ heard \subseteq Plugs /\ refused \subseteq Plugs
  /\ status \in [Plugs -> {"online", "triggered", "offline", "error"}]
  /\ call \in [Callers -> [at : {"idle", "waiting", "left"}, plug : Plugs,
                           on : BOOLEAN, alone : BOOLEAN, direct : BOOLEAN]]
  /\ command \in [Callers -> [at : {"none", "arrived", "trying"} \cup Answers,
                              tries : 0 .. Attempts, known : BOOLEAN]]
  /\ failed \in [Plugs -> 0 .. OfflineAfter]
  /\ \A p \in Plugs : triggers[p] \in [0 .. Minute - 1 -> 0 .. TriggerLimit]
  /\ renames \in 0 .. MaxRenames

DeviceInit ==
  /\ plugOn = {} /\ named = Plugs /\ offline = {} /\ heard = {} /\ refused = {}
  /\ status = [p \in Plugs |-> "online"]
  /\ call = [t \in Callers |-> NoCall]
  /\ command = [t \in Callers |-> NoCommand]
  /\ failed = [p \in Plugs |-> 0]
  /\ triggers = [p \in Plugs |-> [a \in 0 .. Minute - 1 |-> 0]]
  /\ renames = 0

-------------------------------------------------------------------------------
(* The cloud's side *)

\* The agent's receiver is at a command
PlugBusy == \E t \in Callers : command[t].at = "trying"

Others(t, p) == { u \in Callers \ {t} : call[u].at # "idle" /\ Target(u) = p }
Ask(t, p, on, direct) ==
  /\ call[t].at = "idle"
  /\ call' = [u \in Callers |->
       IF u = t
       THEN [at |-> "waiting", plug |-> p, on |-> on,
             alone |-> ~direct /\ Others(t, p) = {}, direct |-> direct]
       ELSE IF u \in Others(t, p) THEN [call[u] EXCEPT !.alone = FALSE] ELSE call[u]]
  /\ command' = [command EXCEPT ![t] = [at |-> "arrived", tries |-> 0, known |-> p \in named]]
  /\ heard' = heard \ {p} /\ refused' = refused \ {p}
  /\ UNCHANGED <<plugOn, status, named, failed, offline, triggers, renames>>
AskToggle(t, p, on) == Ask(t, p, on, FALSE)
\* A user asks the edge itself, by the plug's name
AskDirectly(t, p, on) == Ask(t, p, on, TRUE)

\* The connection is refused: the caller gets an error and nothing is written
ToggleFails(t) ==
  /\ call[t].at = "waiting" /\ command[t].at = "arrived"
  /\ call' = [call EXCEPT ![t] = NoCall]
  /\ command' = [command EXCEPT ![t] = NoCommand]
  /\ UNCHANGED <<plugOn, status, named, failed, offline, heard, refused, triggers, renames>>
\* The proxy's time is up; the command is still there
ToggleTimesOut(t) ==
  /\ call[t].at = "waiting" /\ command[t].at \in {"arrived", "trying"}
  /\ call' = [call EXCEPT ![t].at = "left"]
  /\ UNCHANGED <<plugOn, status, named, command, failed, offline, heard, refused, triggers, renames>>

\* The status follows the request, whatever the answer says
NewStatus(t) == IF call[t].on THEN "triggered" ELSE "offline"
ToggleAnswered(t) ==
  LET p == Target(t) IN
  /\ call[t].at = "waiting" /\ command[t].at \in Answers /\ ~call[t].direct
  /\ status' = [status EXCEPT ![p] = NewStatus(t)]
  /\ heard' = IF call[t].alone /\ command[t].at = "ok" THEN heard \cup {p} ELSE heard
  /\ call' = [call EXCEPT ![t] = NoCall]
  /\ command' = [command EXCEPT ![t] = NoCommand]
  /\ UNCHANGED <<plugOn, named, failed, offline, refused, triggers, renames>>

\* The answer to a direct request is passed on, and the status stays as it was
DirectlyAnswered(t) ==
  /\ call[t].at = "waiting" /\ command[t].at \in Answers /\ call[t].direct
  /\ call' = [call EXCEPT ![t] = NoCall]
  /\ command' = [command EXCEPT ![t] = NoCommand]
  /\ UNCHANGED <<plugOn, status, named, failed, offline, heard, refused, triggers, renames>>

DeletePlug(p) ==
  /\ status' = [status EXCEPT ![p] = "offline"]
  /\ heard' = heard \ {p}
  /\ UNCHANGED <<plugOn, named, call, command, failed, offline, refused, triggers, renames>>
\* The agent registers its devices again at every start
RegisterPlug(p) ==
  /\ status' = [status EXCEPT ![p] = "online"]
  /\ heard' = heard \ {p}
  /\ UNCHANGED <<plugOn, named, call, command, failed, offline, refused, triggers, renames>>
\* The new name goes to the edge at once; the failure to send it is dropped.  Where it
\* arrives the counts start anew and a command under the old name finds no plug.
RenamePlug(p) ==
  /\ renames < MaxRenames
  /\ renames' = renames + 1
  /\ \/ /\ named' = named \ {p}
        /\ UNCHANGED <<command, failed, offline>>
     \/ /\ ~PlugBusy
        /\ named' = named \cup {p}
        /\ command' = [t \in Callers |-> [command[t] EXCEPT !.known = @ /\ Target(t) # p]]
        /\ failed' = [failed EXCEPT ![p] = 0]
        /\ offline' = offline \ {p}
  /\ UNCHANGED <<plugOn, status, call, heard, refused, triggers>>

\* The limiter forgets what is a minute old, refuses, or remembers; the trigger of
\* a plug then ends in an error, for a device an agent registered has no control URL
Recently(p) == { e \in (0 .. Minute - 1) \X (1 .. TriggerLimit) : e[2] <= triggers[p][e[1]] }
UnderLimit(p) == Cardinality(Recently(p)) < TriggerLimit
TriggerPlug(p) ==
  /\ UnderLimit(p)
  /\ triggers' = [triggers EXCEPT ![p][0] = @ + 1]
  /\ UNCHANGED <<plugOn, status, named, call, command, failed, offline, heard, refused, renames>>
SecondsPass ==
  /\ triggers' = [p \in Plugs |-> [a \in 0 .. Minute - 1 |-> IF a = 0 THEN 0 ELSE triggers[p][a - 1]]]
  /\ UNCHANGED <<plugOn, status, named, call, command, failed, offline, heard, refused, renames>>

-------------------------------------------------------------------------------
(* The agent's side *)

\* An answer nobody waits for ends the command
Ends(t, answer) ==
  IF call[t].at = "left"
  THEN /\ command' = [command EXCEPT ![t] = NoCommand]
       /\ call' = [call EXCEPT ![t] = NoCall]
  ELSE /\ command' = [command EXCEPT ![t] = [NoCommand EXCEPT !.at = answer]]
       /\ UNCHANGED call

TakeCommand(t) ==
  /\ command[t].at = "arrived" /\ ~PlugBusy
  /\ IF command[t].known
     THEN command' = [command EXCEPT ![t].at = "trying"] /\ UNCHANGED call
     ELSE Ends(t, "unsupported")
  /\ UNCHANGED <<plugOn, status, named, failed, offline, heard, refused, triggers, renames>>

Switched(t) == IF call[t].on THEN plugOn \cup {Target(t)} ELSE plugOn \ {Target(t)}
\* The plug replied.  The reply is not read: it may be an error, or empty.
AttemptWorks(t) ==
  LET p == Target(t) IN
  /\ command[t].at = "trying"
  /\ \/ plugOn' = Switched(t) /\ refused' = refused \ {p}
     \/ refused' = refused \cup {p} /\ UNCHANGED plugOn
  /\ failed' = [failed EXCEPT ![p] = 0]
  /\ offline' = offline \ {p}
  /\ Ends(t, "ok")
  /\ UNCHANGED <<status, named, heard, triggers, renames>>
\* (mutant) a command that was given up is answered as done
GaveUpAnswer_Ok(t) == "ok"
\* The plug may have switched although its answer did not come
GaveUpAnswer(t) == "failed"
AttemptFails(t) ==
  LET p == Target(t)
      last == command[t].tries + 1 = Attempts
      count == IF failed[p] < OfflineAfter THEN failed[p] + 1 ELSE failed[p]
  IN
  /\ command[t].at = "trying"
  /\ plugOn' \in {plugOn, Switched(t)}
  /\ IF last
     THEN /\ failed' = [failed EXCEPT ![p] = count]
          /\ offline' = IF count = OfflineAfter THEN offline \cup {p} ELSE offline
          /\ Ends(t, GaveUpAnswer(t))
     ELSE /\ command' = [command EXCEPT ![t].tries = @ + 1]
          /\ UNCHANGED <<failed, offline, call>>
  /\ UNCHANGED <<status, named, heard, refused, triggers, renames>>

DeviceNext ==
  \/ \E t \in Callers, p \in Plugs, on \in BOOLEAN : AskToggle(t, p, on) \/ AskDirectly(t, p, on)
  \/ \E t \in Callers : ToggleFails(t) \/ ToggleTimesOut(t) \/ ToggleAnswered(t)
                        \/ DirectlyAnswered(t) \/ TakeCommand(t) \/ AttemptWorks(t) \/ AttemptFails(t)
  \/ \E p \in Plugs : DeletePlug(p) \/ RegisterPlug(p) \/ RenamePlug(p) \/ TriggerPlug(p)
  \/ SecondsPass
DeviceSpec == DeviceInit /\ [][DeviceNext]_deviceVars

-------------------------------------------------------------------------------
(* Properties *)

\* The dashboard shows a plug as it is when the last toggle was answered "ok" and no
\* other command, not even one the cloud had stopped waiting for, was beside it or
\* came directly to the edge since; unless the plug refused in a reply nobody reads.
ShownAsHeard == \A p \in heard \ refused : (status[p] = "triggered") <=> (p \in plugOn)
===============================================================================
