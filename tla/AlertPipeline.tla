---------------------------- MODULE AlertPipeline ----------------------------
(***************************************************************************)
(* From a camera frame to an alert: the validator                          *)
(* (edge-agent/agent/validator.py) and what threaded_camera_loop of        *)
(* edge-agent/agent/main.py does with a frame that passes it.              *)
(*                                                                         *)
(* `validate` has no await in it, so it is one action.  The handling of a  *)
(* frame that passed starts with the upload, which is awaited: settings    *)
(* change, time passes and other cameras go on before the rest of it.      *)
(* What the upload does is the subject of FrameDelivery; here it has one   *)
(* of three results.  What becomes of an incident is that of EdgeIncidents.*)
(***************************************************************************)
EXTENDS Integers, Sequences, FiniteSets

CONSTANTS
  AlertCameras,
  Devices,          \* IoT devices of type tplink, mqtt or webhook
  Triggers,         \* Devices -> cameras whose alerts are to turn the device on
  Settings,         \* validation settings the cloud may hand out
  DefaultSettings,  \* the agent's own, until it has fetched the cloud's
  MaxHistory,       \* VALIDATOR_MAX_HISTORY
  MaxCooldown,      \* the longest cooldown in Settings; ages are counted up to it
  MaxRestarts       \* bound on restarts of the agent

\* Layer 3 asks for k wet frames of the last m, layer 4 for a changed scene and
\* no alert within the cooldown
SettingsRecord == [l1: BOOLEAN, l3: BOOLEAN, k: Nat, m: Nat, l4: BOOLEAN,
                   cooldown: 0..MaxCooldown]

ASSUME PipelineAssumption ==
  /\ Triggers \in [Devices -> SUBSET AlertCameras]
  /\ MaxHistory \in Nat \ {0} /\ MaxCooldown \in Nat /\ MaxRestarts \in Nat
  /\ Settings \subseteq SettingsRecord /\ DefaultSettings \in Settings

NotAlerted == -1

\* An entry of _history; `alerted` is the age of its alert, if it was one
Entry == [wet: BOOLEAN, alerted: {NotAlerted} \union 0..MaxCooldown]

\* What the inference says of a frame: `strong` when the class overrides and the
\* thresholds of layers 1 and 2 let it pass, `changed` when it differs from the
\* dry reference
Frame == [wet: BOOLEAN, strong: BOOLEAN, changed: BOOLEAN]
SpillFrame == [wet |-> TRUE, strong |-> TRUE, changed |-> TRUE]

VARIABLES
  settings,    \* AlertCameras -> the settings in force
  frames,      \* AlertCameras -> _history of the validator
  loop,        \* AlertCameras -> "reading" a frame, or "uploading" one that passed
  clip,        \* AUTO_CLIP_ON_DETECTION, which push_config may set
  state,       \* Devices -> what the heartbeat says of it (_device_state)
  relay,       \* Devices -> whether the device itself is on
  spill,       \* AlertCameras -> whether every frame shows the spill
  sinceAlert,  \* history: time since the last alert, up to MaxCooldown
  newer,       \* history: entries added after that of the last alert, up to MaxHistory
  wanted,      \* history: devices an alert was to turn on, not commanded since
  restarts     \* restarts so far

alertHistory == <<sinceAlert, newer>>
devices == <<state, relay, wanted>>
vars == <<settings, frames, loop, clip, devices, spill, alertHistory, restarts>>

Init ==
  /\ settings = [c \in AlertCameras |-> DefaultSettings]
  /\ frames = [c \in AlertCameras |-> <<>>]
  /\ loop = [c \in AlertCameras |-> "reading"]
  /\ clip = FALSE
  /\ state = [d \in Devices |-> "off"]
  /\ relay = [d \in Devices |-> FALSE]
  /\ spill = [c \in AlertCameras |-> FALSE]
  /\ sinceAlert = [c \in AlertCameras |-> MaxCooldown]
  /\ newer = [c \in AlertCameras |-> MaxHistory]
  /\ wanted = {}
  /\ restarts = 0

AtMost(n, bound) == IF n <= bound THEN n ELSE bound

-----------------------------------------------------------------------------
(* DetectionValidator.validate *)

\* Layers 1 and 2: what does not get through them is not remembered
Accepted(c, f) == f.strong /\ (settings[c].l1 => f.wet)

\* (mutant) one entry less than VALIDATOR_MAX_HISTORY is kept
Remember_OneLess(h, e) ==
  IF Len(h) < MaxHistory THEN Append(h, e) ELSE Append(Tail(Tail(h)), e)

\* _history with one more entry, the oldest one dropped when it is full
Remember(h, e) == IF Len(h) < MaxHistory THEN Append(h, e) ELSE Append(Tail(h), e)

\* The last m entries; h[-0:] is all of them
Window(h, m) == {i \in 1..Len(h) : m = 0 \/ i > Len(h) - m}

\* Layer 3
Persistent(h, s) == s.l3 => Cardinality({i \in Window(h, s.m) : h[i].wet}) >= s.k

\* Layer 4b: an alert that is remembered and younger than the cooldown
Suppressed(h, s) ==
  s.l4 /\ \E i \in 1..Len(h) : h[i].alerted # NotAlerted /\ h[i].alerted < s.cooldown

Passes(h, f, s) == Persistent(h, s) /\ (s.l4 => f.changed) /\ ~Suppressed(h, s)

History(c, f) == Remember(frames[c], [wet |-> f.wet, alerted |-> NotAlerted])

\* The frames camera c may deliver
Visible(c) == IF spill[c] THEN {SpillFrame} ELSE Frame

\* (mutant) a frame is marked as an alert before the cooldown is looked at
HoldBack_Marked(c, f) ==
  LET h == History(c, f) IN
  /\ loop[c] = "reading" /\ Accepted(c, f) /\ ~Passes(h, f, settings[c])
  /\ frames' = [frames EXCEPT ![c] = [h EXCEPT ![Len(h)].alerted =
                  IF Suppressed(h, settings[c]) THEN 0 ELSE @]]
  /\ newer' = [newer EXCEPT ![c] = AtMost(@ + 1, MaxHistory)]
  /\ UNCHANGED <<settings, loop, clip, devices, spill, sinceAlert, restarts>>

\* A frame that layer 3 or 4 holds back is remembered all the same
HoldBack(c, f) ==
  LET h == History(c, f) IN
  /\ loop[c] = "reading" /\ Accepted(c, f) /\ ~Passes(h, f, settings[c])
  /\ frames' = [frames EXCEPT ![c] = h]
  /\ newer' = [newer EXCEPT ![c] = AtMost(@ + 1, MaxHistory)]
  /\ UNCHANGED <<settings, loop, clip, devices, spill, sinceAlert, restarts>>

\* A frame that passes all layers is marked as an alert; its upload begins
Confirm(c, f) ==
  LET h == History(c, f) IN
  /\ loop[c] = "reading" /\ Accepted(c, f) /\ Passes(h, f, settings[c])
  /\ frames' = [frames EXCEPT ![c] = [h EXCEPT ![Len(h)].alerted = 0]]
  /\ loop' = [loop EXCEPT ![c] = "uploading"]
  /\ sinceAlert' = [sinceAlert EXCEPT ![c] = 0]
  /\ newer' = [newer EXCEPT ![c] = 0]
  /\ UNCHANGED <<settings, clip, devices, spill, restarts>>

-----------------------------------------------------------------------------
(* threaded_camera_loop once the upload has returned *)

ToTrigger(c) == {d \in Devices : c \in Triggers[d]}

\* The trigger block names tplink_ctrl, device_ctrl and webhook_ctrl, which are
\* local variables of main(): the first device to trigger raises a NameError, and
\* the except branch reports every device as offline
TriggerDevices(c) ==
  /\ state' = IF ToTrigger(c) = {} THEN state ELSE [d \in Devices |-> "offline"]
  /\ wanted' = wanted \union ToTrigger(c)
  /\ UNCHANGED relay

\* upload_detection returns True (stored, or skipped for the rate limit) or
\* False.  With AUTO_CLIP_ON_DETECTION a True leads to `clip_recorder`, another
\* name that is local to main(): the NameError ends the handling of the frame
\* before its incident, its devices and its buffering.
UploadReturns(c, ok) ==
  /\ loop[c] = "uploading"
  /\ loop' = [loop EXCEPT ![c] = "reading"]
  /\ IF ok /\ clip THEN UNCHANGED devices ELSE TriggerDevices(c)
  /\ UNCHANGED <<settings, frames, clip, spill, alertHistory, restarts>>

-----------------------------------------------------------------------------
(* The rest of the agent and its surroundings *)

\* sync_validation_settings replaces the map; a camera the map does not name falls
\* back to the defaults
SyncSettings(map) ==
  /\ settings' = map
  /\ UNCHANGED <<frames, loop, clip, devices, spill, alertHistory, restarts>>

\* command_poller push_config
PushConfig ==
  /\ clip' = ~clip
  /\ UNCHANGED <<settings, frames, loop, devices, spill, alertHistory, restarts>>

\* config_receiver control_device, from the cloud: the device obeys or does not
ControlDevice(d, on) ==
  /\ relay' \in {relay, [relay EXCEPT ![d] = on]}
  /\ wanted' = wanted \ {d}
  /\ UNCHANGED <<settings, frames, loop, clip, state, spill, alertHistory, restarts>>

Restart ==
  /\ restarts < MaxRestarts
  /\ restarts' = restarts + 1
  /\ settings' = [c \in AlertCameras |-> DefaultSettings]
  /\ frames' = [c \in AlertCameras |-> <<>>]
  /\ loop' = [c \in AlertCameras |-> "reading"]
  /\ clip' = FALSE
  /\ state' = [d \in Devices |-> "off"]
  /\ sinceAlert' = [c \in AlertCameras |-> MaxCooldown]
  /\ newer' = [c \in AlertCameras |-> MaxHistory]
  /\ UNCHANGED <<relay, wanted, spill>>

Older(h) == [i \in 1..Len(h) |->
               [h[i] EXCEPT !.alerted = IF @ = NotAlerted THEN @
                                        ELSE AtMost(@ + 1, MaxCooldown)]]

SecondPasses ==
  /\ frames' = [c \in AlertCameras |-> Older(frames[c])]
  /\ sinceAlert' = [c \in AlertCameras |-> AtMost(sinceAlert[c] + 1, MaxCooldown)]
  /\ UNCHANGED <<settings, loop, clip, devices, spill, newer, restarts>>

FloorChanges(c) ==
  /\ spill' = [spill EXCEPT ![c] = ~@]
  /\ UNCHANGED <<settings, frames, loop, clip, devices, alertHistory, restarts>>

\* A frame is validated, or the upload of one returns
CameraStep(c) ==
  \/ \E f \in Visible(c) : HoldBack(c, f) \/ Confirm(c, f)
  \/ \E ok \in BOOLEAN : UploadReturns(c, ok)

Next ==
  \/ \E c \in AlertCameras : CameraStep(c) \/ FloorChanges(c)
  \/ \E map \in [AlertCameras -> Settings] : SyncSettings(map)
  \/ PushConfig
  \/ \E d \in Devices, on \in BOOLEAN : ControlDevice(d, on)
  \/ Restart
  \/ SecondPasses

Spec == Init /\ [][Next]_vars

\* The capture thread goes on delivering frames, uploads return, time passes
FairSpec == Spec /\ WF_vars(SecondPasses) /\ \A c \in AlertCameras : WF_vars(CameraStep(c))

-----------------------------------------------------------------------------
(* Properties *)

TypeOK ==
  /\ settings \in [AlertCameras -> Settings]
  /\ frames \in [AlertCameras -> Seq(Entry)]
  /\ \A c \in AlertCameras : Len(frames[c]) <= MaxHistory
  /\ loop \in [AlertCameras -> {"reading", "uploading"}]
  /\ clip \in BOOLEAN
  /\ state \in [Devices -> {"on", "off", "offline"}]
  /\ relay \in [Devices -> BOOLEAN]
  /\ spill \in [AlertCameras -> BOOLEAN]
  /\ sinceAlert \in [AlertCameras -> 0..MaxCooldown]
  /\ newer \in [AlertCameras -> 0..MaxHistory]
  /\ wanted \subseteq Devices
  /\ restarts \in 0..MaxRestarts

Alert(c) == loop[c] = "reading" /\ loop'[c] = "uploading"

\* Layer 4b as it is: two alerts of a camera are a cooldown apart (the cooldown in
\* force at the second one), or so many accepted frames apart that the history no
\* longer holds the first, or layer 4 is off.  Held-back frames, settings that
\* change in between and the shared window of layer 3 make no other exception.
AlertsApart ==
  [][\A c \in AlertCameras : Alert(c) /\ settings[c].l4 =>
       \/ sinceAlert[c] >= settings[c].cooldown
       \/ newer[c] + 1 >= MaxHistory]_vars

\* What AlertsApart rests on: while the entry of the last alert is within the
\* history, it is where it should be, marked, and not aged beyond its time.
LastAlertRemembered ==
  \A c \in AlertCameras : newer[c] < MaxHistory =>
    /\ newer[c] < Len(frames[c])
    /\ frames[c][Len(frames[c]) - newer[c]].alerted \in 0..sinceAlert[c]

\* A spill that stays in the picture is reported again and again: the layers
\* delay alerts but do not lock one another out, whatever frames were remembered
\* before and however the settings change.
SpillReported ==
  \A c \in AlertCameras : <>[]spill[c] => []<>(loop[c] = "uploading")

\* main.py:740 "Trigger IoT devices on confirmed wet detection (selective by camera
\* assignment)": a device that was to be turned on, and that nobody switched since,
\* is on.
AlertTurnsDevicesOn == \A d \in wanted : relay[d]
=============================================================================
