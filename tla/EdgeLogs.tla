-------------------------------- MODULE EdgeLogs --------------------------------
(***************************************************************************)
(* What the agent keeps to tell the cloud later: the alert log, a file of  *)
(* events of which each heartbeat counts those not marked yet and marks    *)
(* them when it is answered (alert_log.py, heartbeat_loop), and the        *)
(* warnings and errors of its own log, held in memory and posted in        *)
(* batches (log_shipper.py, routers/logs.py).                              *)
(*                                                                         *)
(* Warnings come from every thread, also while a batch is posted.  They    *)
(* are numbered in the order in which they come, and so are the events.    *)
(* Writes of the file replace it, so a crash leaves the old or the new one.*)
(***************************************************************************)
EXTENDS Naturals, Sequences, SequencesExt

CONSTANTS
  BufferMax,   \* _MAX_BUFFER
  BatchMax,    \* entries of one request
  KeepAlerts,  \* max_entries of the alert log
  MaxEntries,  \* bound on the warnings logged
  MaxAlerts,   \* bound on the events logged
  MaxFaults    \* bound on posts that fail and restarts

ASSUME EdgeLogsAssumption ==
  /\ {BufferMax, BatchMax, KeepAlerts, MaxEntries, MaxAlerts, MaxFaults} \subseteq Nat
  /\ BufferMax > 0 /\ BatchMax > 0 /\ KeepAlerts > 0

VARIABLES
  buffer,    \* warnings that wait, as the deque holds them
  batch,     \* warnings taken out of it to be posted
  stored,    \* how often each warning was stored by the cloud
  displaced, \* warnings that fell out of a full buffer
  ended,     \* warnings that were in memory when the agent ended
  warned,    \* warnings logged so far
  alertFile, \* the file: events, oldest first
  beat,      \* the events counted by the heartbeat under way
  noted,     \* events logged so far
  faults

edgeLogVars == <<buffer, batch, stored, displaced, ended, warned, alertFile, beat, noted, faults>>

Entries == 1 .. MaxEntries
NoBeat == [sent |-> FALSE, ids |-> {}]

EdgeLogsTypeOK ==
  /\ Len(buffer) <= BufferMax /\ ToSet(buffer) \subseteq Entries
  /\ Len(batch) <= BufferMax /\ ToSet(batch) \subseteq Entries
  /\ stored \in [Entries -> 0 .. MaxFaults + 1]
  /\ displaced \subseteq Entries /\ ended \subseteq Entries /\ warned \in 0 .. MaxEntries
  /\ Len(alertFile) <= KeepAlerts
  /\ \A i \in DOMAIN alertFile : alertFile[i] \in [id : 1 .. MaxAlerts, synced : BOOLEAN]
  /\ beat \in [sent : BOOLEAN, ids : SUBSET (1 .. MaxAlerts)]
  /\ noted \in 0 .. MaxAlerts /\ faults \in 0 .. MaxFaults

EdgeLogsInit ==
  /\ buffer = <<>> /\ batch = <<>> /\ stored = [e \in Entries |-> 0]
  /\ displaced = {} /\ ended = {} /\ warned = 0
  /\ alertFile = <<>> /\ beat = NoBeat /\ noted = 0 /\ faults = 0

-------------------------------------------------------------------------------
(* The log shipper *)

First(n, s) == SubSeq(s, 1, IF Len(s) < n THEN Len(s) ELSE n)
Beyond(n, s) == SubSeq(s, n + 1, Len(s))
\* append and appendleft of a deque with a maxlen: the other end gives way
AtRight(s, e) == Append(IF Len(s) = BufferMax THEN Tail(s) ELSE s, e)
AtLeft(s, returned) == First(BufferMax, Reverse(returned) \o s)
Lost(old, new) == ToSet(old) \ ToSet(new)

Emit ==
  /\ warned < MaxEntries
  /\ warned' = warned + 1
  /\ buffer' = AtRight(buffer, warned')
  /\ displaced' = displaced \cup Lost(buffer, buffer')
  /\ UNCHANGED <<batch, stored, ended, alertFile, beat, noted, faults>>

BeginFlush ==
  /\ batch = <<>> /\ buffer # <<>>
  /\ batch' = buffer
  /\ buffer' = <<>>
  /\ UNCHANGED <<stored, displaced, ended, warned, alertFile, beat, noted, faults>>

StoredOnce(s) == [e \in Entries |-> stored[e] + IF e \in ToSet(s) THEN 1 ELSE 0]
\* (mutant) the entries beyond one request are dropped
Remaining_None == <<>>
\* Only the first entries are in the request; the others go back
Remaining == Beyond(BatchMax, batch)
FlushAnswered ==
  /\ batch # <<>>
  /\ stored' = StoredOnce(First(BatchMax, batch))
  /\ buffer' = AtLeft(buffer, Remaining)
  /\ displaced' = displaced \cup Lost(buffer \o Remaining, buffer')
  /\ batch' = <<>>
  /\ UNCHANGED <<ended, warned, alertFile, beat, noted, faults>>
\* Not reached, or stopped after any number of entries, or the answer is lost:
\* the whole batch goes back
FlushFails ==
  /\ batch # <<>> /\ faults < MaxFaults
  /\ faults' = faults + 1
  /\ \E n \in 0 .. BatchMax : stored' = StoredOnce(First(n, First(BatchMax, batch)))
  /\ buffer' = AtLeft(buffer, batch)
  /\ displaced' = displaced \cup Lost(buffer \o batch, buffer')
  /\ batch' = <<>>
  /\ UNCHANGED <<ended, warned, alertFile, beat, noted>>

-------------------------------------------------------------------------------
(* The alert log *)

Rotated(s) == IF Len(s) > KeepAlerts THEN Beyond(Len(s) - KeepAlerts, s) ELSE s
LogEvent ==
  /\ noted < MaxAlerts
  /\ noted' = noted + 1
  /\ alertFile' = Rotated(Append(alertFile, [id |-> noted', synced |-> FALSE]))
  /\ UNCHANGED <<buffer, batch, stored, displaced, ended, warned, beat, faults>>

Unmarked == { alertFile[i].id : i \in { j \in DOMAIN alertFile : ~alertFile[j].synced } }
SendHeartbeat ==
  /\ ~beat.sent
  /\ beat' = [sent |-> TRUE, ids |-> Unmarked]
  /\ UNCHANGED <<buffer, batch, stored, displaced, ended, warned, alertFile, noted, faults>>
Marked(ids) ==
  [i \in DOMAIN alertFile |->
     [alertFile[i] EXCEPT !.synced = @ \/ alertFile[i].id \in ids]]
HeartbeatAnswered ==
  /\ beat.sent
  /\ alertFile' = Marked(beat.ids)
  /\ beat' = NoBeat
  /\ UNCHANGED <<buffer, batch, stored, displaced, ended, warned, noted, faults>>
HeartbeatFails ==
  /\ beat.sent /\ faults < MaxFaults
  /\ faults' = faults + 1
  /\ beat' = NoBeat
  /\ UNCHANGED <<buffer, batch, stored, displaced, ended, warned, alertFile, noted>>

\* What is in memory is gone, but for what the post under way, or a last one at the
\* end of the loop, has stored
AgentEnds ==
  /\ faults < MaxFaults
  /\ faults' = faults + 1
  /\ LET last == IF batch = <<>> THEN buffer ELSE batch
     IN \E n \in 0 .. BatchMax : stored' = StoredOnce(First(n, First(BatchMax, last)))
  /\ ended' = ended \cup ToSet(buffer) \cup ToSet(batch)
  /\ buffer' = <<>> /\ batch' = <<>> /\ beat' = NoBeat
  /\ UNCHANGED <<displaced, warned, alertFile, noted>>

EdgeLogsNext ==
  \/ Emit \/ BeginFlush \/ FlushAnswered \/ FlushFails
  \/ LogEvent \/ SendHeartbeat \/ HeartbeatAnswered \/ HeartbeatFails
  \/ AgentEnds
EdgeLogsSpec == EdgeLogsInit /\ [][EdgeLogsNext]_edgeLogVars

-------------------------------------------------------------------------------
(* Properties *)

\* A warning waits, is being posted or is stored by the cloud, unless it fell out of
\* a full buffer or the agent ended, whatever posts fail and whatever is logged
\* meanwhile; nothing falls out before as many warnings were logged as the buffer holds.
WarningsAccountedFor ==
  LET waiting == ToSet(buffer) \cup ToSet(batch) IN
  /\ \A e \in 1 .. warned : e \in waiting \cup displaced \cup ended \/ stored[e] > 0
  /\ displaced # {} => warned > BufferMax
\* An event that is not marked is in the file until as many came after it as the file
\* keeps, and in the order of their coming.
UnmarkedEventsStay ==
  LET ids == [i \in DOMAIN alertFile |-> alertFile[i].id] IN
  /\ ToSet(ids) = { e \in 1 .. noted : e + KeepAlerts > noted }
  /\ \A i, j \in DOMAIN ids : i < j => ids[i] < ids[j]
NothingVanishes == WarningsAccountedFor /\ UnmarkedEventsStay

===============================================================================
