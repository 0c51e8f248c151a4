------------------------ MODULE AlertPipeline_proofs ------------------------
(***************************************************************************)
(* Theorems about the alert pipeline: its types, and how far apart the     *)
(* alerts of a camera are (AlertsApart), for every set of cameras and      *)
(* settings and every length of the history.                               *)
(***************************************************************************)
EXTENDS AlertPipeline, TLAPS, SequenceTheorems

\* The history stays within its length, ends with the new entry, and keeps the
\* other entries at the same distance from its end, one further away.
LEMMA RememberProperties ==
  ASSUME NEW h \in Seq(Entry), Len(h) <= MaxHistory, NEW e \in Entry
  PROVE  LET r == Remember(h, e) IN
         /\ r \in Seq(Entry) /\ Len(r) \in 1..MaxHistory
         /\ r[Len(r)] = e
         /\ \A n \in Nat : n < Len(h) /\ n + 1 < MaxHistory =>
              n + 1 < Len(r) /\ r[Len(r) - (n + 1)] = h[Len(h) - n]
<1>0. MaxHistory \in Nat \ {0} /\ Len(h) \in Nat
  BY PipelineAssumption
<1>1. CASE Len(h) < MaxHistory
  <2>1. Remember(h, e) = Append(h, e)
    BY <1>1 DEF Remember
  <2> QED
    BY <1>0, <1>1, <2>1
<1>2. CASE Len(h) = MaxHistory
  <2> DEFINE t == Tail(h)
  <2>1. Remember(h, e) = Append(t, e) /\ h # <<>>
    BY <1>0, <1>2 DEF Remember
  <2>2. /\ t \in Seq(Entry) /\ Len(t) = Len(h) - 1
        /\ \A i \in 1..Len(t) : t[i] = h[i + 1]
    BY <2>1, <1>0
  <2> HIDE DEF t
  <2>3. /\ Append(t, e) \in Seq(Entry) /\ Len(Append(t, e)) = Len(t) + 1
        /\ Append(t, e)[Len(t) + 1] = e
        /\ \A i \in 1..Len(t) : Append(t, e)[i] = t[i]
    BY <2>2
  <2> QED
    BY <1>0, <1>2, <2>1, <2>2, <2>3
<1> QED
  BY <1>0, <1>1, <1>2

\* Marking the last entry as an alert changes nothing else.
LEMMA MarkProperties ==
  ASSUME NEW h \in Seq(Entry), Len(h) >= 1
  PROVE  LET r == [h EXCEPT ![Len(h)].alerted = 0] IN
         /\ r \in Seq(Entry) /\ Len(r) = Len(h)
         /\ r[Len(h)].alerted = 0
<1> DEFINE e == [h[Len(h)] EXCEPT !.alerted = 0]
<1>1. Len(h) \in 1..Len(h) /\ h[Len(h)] \in Entry
  OBVIOUS
<1>2. e \in Entry /\ e.alerted = 0
  BY <1>1, PipelineAssumption DEF Entry
<1>3. [h EXCEPT ![Len(h)].alerted = 0] = [h EXCEPT ![Len(h)] = e]
  BY <1>1
<1> HIDE DEF e
<1> QED
  BY <1>1, <1>2, <1>3, ExceptSeq

\* Time changes ages only, and an age by one at most.
LEMMA OlderProperties ==
  ASSUME NEW h \in Seq(Entry)
  PROVE  /\ Older(h) \in Seq(Entry) /\ Len(Older(h)) = Len(h)
         /\ \A i \in 1..Len(h), a \in 0..MaxCooldown : h[i].alerted \in 0..a =>
              Older(h)[i].alerted \in 0..AtMost(a + 1, MaxCooldown)
<1>1. MaxCooldown \in Nat /\ Len(h) \in Nat
  BY PipelineAssumption
<1>2. \A i \in 1..Len(h) : h[i] \in Entry
  OBVIOUS
<1>3. \A i \in 1..Len(h) :
        [h[i] EXCEPT !.alerted = IF @ = NotAlerted THEN @ ELSE AtMost(@ + 1, MaxCooldown)]
          \in Entry
  BY <1>1, <1>2 DEF Entry, AtMost, NotAlerted
<1>4. Older(h) \in [1..Len(h) -> Entry]
  BY <1>3 DEF Older
<1>5. Older(h) \in Seq(Entry) /\ Len(Older(h)) = Len(h)
  BY <1>1, <1>4, IsASeq
<1>6. ASSUME NEW i \in 1..Len(h), NEW a \in 0..MaxCooldown, h[i].alerted \in 0..a
      PROVE  Older(h)[i].alerted \in 0..AtMost(a + 1, MaxCooldown)
  BY <1>1, <1>2, <1>6 DEF Older, Entry, AtMost, NotAlerted
<1> QED
  BY <1>5, <1>6

-----------------------------------------------------------------------------
(* Types *)

\* Histories start empty.
LEMMA EmptyHistories ==
  /\ [c \in AlertCameras |-> <<>>] \in [AlertCameras -> Seq(Entry)]
  /\ \A c \in AlertCameras : Len([b \in AlertCameras |-> <<>>][c]) = 0
<1>1. <<>> \in Seq(Entry) /\ Len(<<>>) = 0
  OBVIOUS
<1> DEFINE empty == <<>>
<1>2. empty \in Seq(Entry) /\ Len(empty) = 0
  BY <1>1
<1> HIDE DEF empty
<1>3. /\ [c \in AlertCameras |-> empty] \in [AlertCameras -> Seq(Entry)]
      /\ \A c \in AlertCameras : Len([b \in AlertCameras |-> empty][c]) = 0
  BY <1>2
<1> QED
  BY <1>3 DEF empty

\* The types hold initially.
LEMMA InitType == Init => TypeOK
<1>1. MaxHistory \in Nat \ {0} /\ MaxCooldown \in Nat /\ MaxRestarts \in Nat
  BY PipelineAssumption
<1> SUFFICES ASSUME Init PROVE TypeOK
  OBVIOUS
<1>2. /\ frames \in [AlertCameras -> Seq(Entry)]
      /\ \A c \in AlertCameras : Len(frames[c]) <= MaxHistory
  BY <1>1, EmptyHistories DEF Init
<1>3. /\ settings \in [AlertCameras -> Settings]
      /\ sinceAlert \in [AlertCameras -> 0..MaxCooldown] /\ newer \in [AlertCameras -> 0..MaxHistory]
      /\ restarts \in 0..MaxRestarts
  BY <1>1, PipelineAssumption DEF Init
<1>4. /\ loop \in [AlertCameras -> {"reading", "uploading"}] /\ clip \in BOOLEAN
      /\ state \in [Devices -> {"on", "off", "offline"}] /\ relay \in [Devices -> BOOLEAN]
      /\ spill \in [AlertCameras -> BOOLEAN] /\ wanted \subseteq Devices
  BY DEF Init
<1> QED
  BY <1>2, <1>3, <1>4 DEF TypeOK

\* What a frame adds to the history of its camera is an entry.
LEMMA HistoryType ==
  ASSUME TypeOK, NEW c \in AlertCameras, NEW f \in Visible(c)
  PROVE  LET h == History(c, f) IN
         /\ h \in Seq(Entry) /\ Len(h) \in 1..MaxHistory
         /\ \A n \in Nat : n < Len(frames[c]) /\ n + 1 < MaxHistory =>
              n + 1 < Len(h) /\ h[Len(h) - (n + 1)] = frames[c][Len(frames[c]) - n]
<1>1. f.wet \in BOOLEAN
  <2>1. CASE spill[c]
    <3>1. f = SpillFrame
      BY <2>1 DEF Visible
    <3> QED
      BY <3>1 DEF SpillFrame
  <2>2. CASE ~spill[c]
    <3>1. f \in Frame
      BY <2>2 DEF Visible
    <3> QED
      BY <3>1 DEF Frame
  <2> QED
    BY <2>1, <2>2
<1>2. [wet |-> f.wet, alerted |-> NotAlerted] \in Entry
  BY <1>1 DEF Entry
<1>3. frames[c] \in Seq(Entry) /\ Len(frames[c]) <= MaxHistory
  BY DEF TypeOK
<1> QED
  BY <1>2, <1>3, RememberProperties DEF History

\* Every step keeps the types.
LEMMA StepType == ASSUME TypeOK, [Next]_vars PROVE TypeOK'
<1>0. MaxHistory \in Nat \ {0} /\ MaxCooldown \in Nat /\ MaxRestarts \in Nat
  BY PipelineAssumption
<1> USE DEF TypeOK, devices, alertHistory
<1>1. ASSUME NEW c \in AlertCameras, NEW f \in Visible(c), HoldBack(c, f)
      PROVE  TypeOK'
  <2>1. History(c, f) \in Seq(Entry) /\ Len(History(c, f)) \in 1..MaxHistory
    BY HistoryType
  <2>2. AtMost(newer[c] + 1, MaxHistory) \in 0..MaxHistory
    BY <1>0 DEF AtMost
  <2> QED
    BY <1>0, <1>1, <2>1, <2>2 DEF HoldBack
<1>2. ASSUME NEW c \in AlertCameras, NEW f \in Visible(c), Confirm(c, f)
      PROVE  TypeOK'
  <2> DEFINE h == History(c, f)
             r == [h EXCEPT ![Len(h)].alerted = 0]
  <2>1. h \in Seq(Entry) /\ Len(h) \in 1..MaxHistory
    BY HistoryType
  <2>2. r \in Seq(Entry) /\ Len(r) <= MaxHistory
    BY <1>0, <2>1, MarkProperties
  <2>3. frames' = [frames EXCEPT ![c] = r]
    BY <1>2 DEF Confirm
  <2>4. /\ loop' = [loop EXCEPT ![c] = "uploading"]
        /\ sinceAlert' = [sinceAlert EXCEPT ![c] = 0]
        /\ newer' = [newer EXCEPT ![c] = 0]
        /\ UNCHANGED <<settings, clip, devices, spill, restarts>>
    BY <1>2 DEF Confirm
  <2> HIDE DEF h, r
  <2> QED
    BY <1>0, <2>2, <2>3, <2>4
<1>3. ASSUME NEW c \in AlertCameras, NEW ok \in BOOLEAN, UploadReturns(c, ok)
      PROVE  TypeOK'
  BY <1>3 DEF UploadReturns, TriggerDevices, ToTrigger
<1>4. ASSUME NEW map \in [AlertCameras -> Settings], SyncSettings(map)
      PROVE  TypeOK'
  BY <1>4 DEF SyncSettings
<1>5. ASSUME PushConfig PROVE TypeOK'
  BY <1>5 DEF PushConfig
<1>6. ASSUME NEW d \in Devices, NEW on \in BOOLEAN, ControlDevice(d, on)
      PROVE  TypeOK'
  BY <1>6 DEF ControlDevice
<1>7. ASSUME Restart PROVE TypeOK'
  <2>1. /\ frames' \in [AlertCameras -> Seq(Entry)]
        /\ \A c \in AlertCameras : Len(frames'[c]) <= MaxHistory
    BY <1>0, <1>7, EmptyHistories DEF Restart
  <2>2. /\ settings' \in [AlertCameras -> Settings]
        /\ sinceAlert' \in [AlertCameras -> 0..MaxCooldown] /\ newer' \in [AlertCameras -> 0..MaxHistory]
        /\ restarts' \in 0..MaxRestarts
    BY <1>0, <1>7, PipelineAssumption DEF Restart
  <2>3. /\ loop' \in [AlertCameras -> {"reading", "uploading"}] /\ clip' \in BOOLEAN
        /\ state' \in [Devices -> {"on", "off", "offline"}]
        /\ UNCHANGED <<relay, wanted, spill>>
    BY <1>7 DEF Restart
  <2> QED
    BY <2>1, <2>2, <2>3
<1>8. ASSUME SecondPasses PROVE TypeOK'
  <2>1. \A c \in AlertCameras : /\ Older(frames[c]) \in Seq(Entry)
                           /\ Len(Older(frames[c])) <= MaxHistory
    BY OlderProperties
  <2>2. \A c \in AlertCameras : AtMost(sinceAlert[c] + 1, MaxCooldown) \in 0..MaxCooldown
    BY <1>0 DEF AtMost
  <2> QED
    BY <1>8, <2>1, <2>2 DEF SecondPasses
<1>9. ASSUME NEW c \in AlertCameras, FloorChanges(c) PROVE TypeOK'
  BY <1>9 DEF FloorChanges
<1>10. CASE UNCHANGED vars
  BY <1>10 DEF vars
<1> QED
  BY <1>1, <1>2, <1>3, <1>4, <1>5, <1>6, <1>7, <1>8, <1>9, <1>10 DEF Next, CameraStep

\* The types of the pipeline: in particular a camera's history never exceeds
\* VALIDATOR_MAX_HISTORY, whatever the settings.
THEOREM PipelineTypeCorrect == Spec => []TypeOK
<1> QED
  BY InitType, StepType, PTL DEF Spec

-----------------------------------------------------------------------------
(* The distance between alerts *)

\* Every step keeps the entry of the last alert where LastAlertRemembered says.
LEMMA StepRemembers ==
  ASSUME TypeOK, LastAlertRemembered, [Next]_vars
  PROVE  LastAlertRemembered'
<1>0. MaxHistory \in Nat \ {0} /\ MaxCooldown \in Nat
  BY PipelineAssumption
<1> SUFFICES ASSUME NEW c \in AlertCameras, (newer[c] < MaxHistory)'
             PROVE  (/\ newer[c] < Len(frames[c])
                     /\ frames[c][Len(frames[c]) - newer[c]].alerted \in 0..sinceAlert[c])'
  BY DEF LastAlertRemembered
<1> DEFINE Kept == /\ newer'[c] < Len(frames'[c])
                   /\ frames'[c][Len(frames'[c]) - newer'[c]].alerted \in 0..sinceAlert'[c]
<1> USE DEF TypeOK, devices, alertHistory
<1>1. CASE UNCHANGED <<frames, newer, sinceAlert>>
  BY <1>1 DEF LastAlertRemembered
<1>2. ASSUME NEW b \in AlertCameras, NEW f \in Visible(b), HoldBack(b, f)
      PROVE  Kept
  <2>1. CASE b # c
    BY <1>2, <2>1 DEF HoldBack, LastAlertRemembered
  <2>2. CASE b = c
    <3> DEFINE h == History(c, f)
    <3>1. /\ frames'[c] = h /\ sinceAlert'[c] = sinceAlert[c]
          /\ newer'[c] = AtMost(newer[c] + 1, MaxHistory)
      BY <1>2, <2>2 DEF HoldBack
    <3>2. newer[c] + 1 < MaxHistory /\ newer'[c] = newer[c] + 1 /\ newer[c] \in Nat
      BY <1>0, <3>1 DEF AtMost
    <3>3. /\ newer[c] < Len(frames[c])
          /\ frames[c][Len(frames[c]) - newer[c]].alerted \in 0..sinceAlert[c]
      BY <1>0, <3>2 DEF LastAlertRemembered
    <3>4. newer[c] + 1 < Len(h) /\ h[Len(h) - (newer[c] + 1)] = frames[c][Len(frames[c]) - newer[c]]
      BY <2>2, <3>2, <3>3, HistoryType
    <3> QED
      BY <3>1, <3>2, <3>3, <3>4
  <2> QED
    BY <2>1, <2>2
<1>3. ASSUME NEW b \in AlertCameras, NEW f \in Visible(b), Confirm(b, f)
      PROVE  Kept
  <2>1. CASE b # c
    BY <1>3, <2>1 DEF Confirm, LastAlertRemembered
  <2>2. CASE b = c
    <3> DEFINE h == History(c, f)
               r == [h EXCEPT ![Len(h)].alerted = 0]
    <3>1. frames'[c] = r /\ sinceAlert'[c] = 0 /\ newer'[c] = 0
      BY <1>3, <2>2 DEF Confirm
    <3>2. h \in Seq(Entry) /\ Len(h) \in 1..MaxHistory
      BY <2>2, HistoryType
    <3>3. Len(r) = Len(h) /\ r[Len(h)].alerted = 0
      BY <1>0, <3>2, MarkProperties
    <3> QED
      BY <1>0, <3>1, <3>2, <3>3
  <2> QED
    BY <2>1, <2>2
<1>4. ASSUME SecondPasses PROVE Kept
  <2>1. /\ frames'[c] = Older(frames[c]) /\ newer'[c] = newer[c]
        /\ sinceAlert'[c] = AtMost(sinceAlert[c] + 1, MaxCooldown)
    BY <1>4 DEF SecondPasses
  <2>2. /\ newer[c] < Len(frames[c]) /\ newer[c] \in Nat
        /\ frames[c][Len(frames[c]) - newer[c]].alerted \in 0..sinceAlert[c]
    BY <1>0, <2>1 DEF LastAlertRemembered
  <2>3. Len(frames[c]) - newer[c] \in 1..Len(frames[c])
    BY <2>2
  <2> QED
    BY <2>1, <2>2, <2>3, OlderProperties
<1>5. ASSUME Restart PROVE Kept
  BY <1>0, <1>5 DEF Restart
<1>6. CASE \/ \E b \in AlertCameras, ok \in BOOLEAN : UploadReturns(b, ok)
           \/ \E map \in [AlertCameras -> Settings] : SyncSettings(map)
           \/ PushConfig
           \/ \E d \in Devices, on \in BOOLEAN : ControlDevice(d, on)
           \/ \E b \in AlertCameras : FloorChanges(b)
           \/ UNCHANGED vars
  <2>1. UNCHANGED <<frames, newer, sinceAlert>>
    BY <1>6 DEF UploadReturns, SyncSettings, PushConfig, ControlDevice, FloorChanges, vars
  <2> QED
    BY <1>1, <2>1
<1> QED
  BY <1>2, <1>3, <1>4, <1>5, <1>6 DEF Next, CameraStep

\* While fewer than MaxHistory accepted frames have followed an alert, the history
\* still holds it, marked and no older than it is.
THEOREM LastAlertRememberedCorrect == Spec => []LastAlertRemembered
<1>1. Init => LastAlertRemembered
  <2> SUFFICES ASSUME Init, NEW c \in AlertCameras PROVE ~(newer[c] < MaxHistory)
    BY DEF LastAlertRemembered
  <2> QED
    BY PipelineAssumption DEF Init
<1>2. TypeOK /\ LastAlertRemembered /\ [Next]_vars => LastAlertRemembered'
  BY StepRemembers
<1> QED
  BY <1>1, <1>2, PipelineTypeCorrect, PTL DEF Spec

\* A remembered alert that is younger than the cooldown holds the next one back,
\* so an alert that follows within the cooldown comes MaxHistory frames later.
LEMMA AlertStep ==
  ASSUME TypeOK, LastAlertRemembered, [Next]_vars,
         NEW c \in AlertCameras, Alert(c), settings[c].l4
  PROVE  sinceAlert[c] >= settings[c].cooldown \/ newer[c] + 1 >= MaxHistory
<1>0. MaxHistory \in Nat \ {0} /\ newer[c] \in Nat /\ sinceAlert[c] \in Nat
  BY PipelineAssumption DEF TypeOK
<1>1. PICK f \in Visible(c) : Confirm(c, f)
  <2>1. \E b \in AlertCameras : \E f \in Visible(b) : Confirm(b, f)
    BY DEF Alert, TypeOK, Next, CameraStep, HoldBack, UploadReturns, SyncSettings, PushConfig,
           ControlDevice, Restart, SecondPasses, FloorChanges, vars
  <2>2. PICK b \in AlertCameras : \E f \in Visible(b) : Confirm(b, f)
    BY <2>1
  <2>3. b = c
    BY <2>2 DEF Alert, Confirm, TypeOK
  <2> QED
    BY <2>2, <2>3
<1> DEFINE h == History(c, f)
<1>2. ~Suppressed(h, settings[c])
  BY <1>1 DEF Confirm, Passes
<1> SUFFICES ASSUME newer[c] + 1 < MaxHistory PROVE sinceAlert[c] >= settings[c].cooldown
  BY <1>0
<1>3. /\ newer[c] < Len(frames[c])
      /\ frames[c][Len(frames[c]) - newer[c]].alerted \in 0..sinceAlert[c]
  BY <1>0 DEF LastAlertRemembered
<1>4. /\ Len(h) \in Nat /\ newer[c] + 1 < Len(h)
      /\ h[Len(h) - (newer[c] + 1)] = frames[c][Len(frames[c]) - newer[c]]
  BY <1>0, <1>3, HistoryType
<1>5. settings[c].cooldown \in Nat
  BY PipelineAssumption DEF TypeOK, SettingsRecord
<1> DEFINE i == Len(h) - (newer[c] + 1)
<1>6. i \in 1..Len(h) /\ h[i].alerted \in 0..sinceAlert[c]
  BY <1>0, <1>3, <1>4
<1>7. ~(h[i].alerted < settings[c].cooldown)
  BY <1>2, <1>6 DEF Suppressed, NotAlerted
<1> QED
  BY <1>0, <1>5, <1>6, <1>7

\* Two alerts of a camera are a cooldown or MaxHistory accepted frames apart.
THEOREM AlertsApartCorrect == Spec => AlertsApart
<1>1. TypeOK /\ LastAlertRemembered /\ [Next]_vars =>
        [\A c \in AlertCameras : Alert(c) /\ settings[c].l4 =>
           \/ sinceAlert[c] >= settings[c].cooldown
           \/ newer[c] + 1 >= MaxHistory]_vars
  BY AlertStep
<1> QED
  BY <1>1, PipelineTypeCorrect, LastAlertRememberedCorrect, PTL DEF Spec, AlertsApart
=============================================================================
