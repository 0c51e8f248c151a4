------------------------------ MODULE StagedRollout ------------------------------
(***************************************************************************)
(* staged_agent_rollout in workers/ota_worker.py: one agent after the      *)
(* other is sent an update_agent command, its acknowledgement is awaited,  *)
(* then the version it reports.  Agents report their version when they     *)
(* register after a start; heartbeats carry none.                          *)
(***************************************************************************)
EXTENDS CommandQueue

CONSTANT Order  \* agent_ids, the order in which the agents are updated

ASSUME RolloutAssumption == Order \in Seq(Agents)

VARIABLES
  step,      \* "start", "ack", "version" or "over": what the task waits for
  results,   \* the results so far, one for each agent dealt with
  updates,   \* the update commands the rollout sent
  reported   \* agent_version in the agents' documents, as the command that brought it

rolloutVars == <<step, results, updates, reported>>
fleetVars == <<commandVars, rolloutVars>>

RolloutTypeOK ==
  /\ step \in {"start", "ack", "version", "over"}
  /\ results \in UNION {[1 .. n -> {"success", "failed", "timeout", "error", "version_mismatch"}] :
                          n \in 0 .. Len(Order)}
  /\ updates \subseteq DOMAIN sent
  /\ reported \in [Agents -> 0 .. MaxCommands]

RolloutInit ==
  /\ step = "start" /\ results = <<>> /\ updates = {}
  /\ reported = [a \in Agents |-> 0]

Current == Order[Len(results) + 1]
Update == CHOOSE c \in updates : \A d \in updates : d <= c  \* the one sent last

\* (mutant) a command that is not acknowledged in time does not end the rollout
Result_TimeoutGoesOn(r) ==
  /\ results' = Append(results, r)
  /\ step' = IF r \in {"failed", "error"} \/ Len(results) + 1 = Len(Order)
             THEN "over" ELSE "start"
\* A result of the current agent: most of them abort the rollout
Result(r) ==
  /\ results' = Append(results, r)
  /\ step' = IF r \in {"failed", "timeout", "error"} \/ Len(results) + 1 = Len(Order)
             THEN "over" ELSE "start"

\* _send_update_command raises when the agent is gone
SendUpdate ==
  /\ step = "start" /\ Order # <<>>
  /\ IF Current \in agents
     THEN /\ Room
          /\ sent' = Queued(Current, "update_agent", 0, 0)
          /\ updates' = updates \cup {NextId}
          /\ step' = "ack"
          /\ UNCHANGED results
     ELSE Result("error") /\ UNCHANGED <<sent, updates>>
  /\ UNCHANGED <<words, agents, record, tails, fleet, agentVars, ackVars, crashes, reported>>

\* One look at the command, which stops at the words "completed" and "failed", or
\* at the version, where a mismatch does not abort.  The 30th or 12th look is the
\* last.
AwaitAck(last) ==
  CASE sent[Update].status = "completed" -> step' = "version" /\ UNCHANGED results
    [] sent[Update].status = "failed" -> Result("failed")
    [] OTHER -> last /\ Result("timeout")
AwaitVersion(last) ==
  IF reported[Current] = Update THEN Result("success") ELSE last /\ Result("version_mismatch")
Look(last) ==
  /\ step \in {"ack", "version"}
  /\ IF step = "ack" THEN AwaitAck(last) ELSE AwaitVersion(last)
  /\ UNCHANGED <<commandVars, updates, reported>>

\* register_with_backend after a start, answered with 200
ReportVersion(a) ==
  /\ a \in agents /\ reported[a] # image[a]
  /\ reported' = [reported EXCEPT ![a] = image[a]]
  /\ UNCHANGED <<commandVars, step, results, updates>>

RolloutNext ==
  \/ SendUpdate
  \/ \E last \in BOOLEAN : Look(last)
  \/ \E a \in Agents : ReportVersion(a)
-------------------------------------------------------------------------------
FleetInit == CommandInit /\ RolloutInit
FleetNext == (CommandNext /\ UNCHANGED rolloutVars) \/ RolloutNext
FleetSpec == FleetInit /\ [][FleetNext]_fleetVars

\* One store at a time: while the rollout goes on, at most one of its commands is
\* still waiting to be executed and acknowledged; once it is over no further agent
\* is sent one.
OneStoreAtATime ==
  /\ Cardinality({c \in updates : sent[c].status = "pending"}) <= 1
  /\ step = "over" => Cardinality(updates) <= Len(results)
===============================================================================
