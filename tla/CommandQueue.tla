------------------------------ MODULE CommandQueue ------------------------------
(***************************************************************************)
(* The commands the cloud queues for its edge agents: services/            *)
(* edge_service.py and workers/ota_worker.py queue them, the router hands  *)
(* the pending ones out, and agent/command_poller.py executes and          *)
(* acknowledges them one at a time.  An agent may stop between any two     *)
(* steps, and commands themselves make it stop.                            *)
(*                                                                         *)
(* An acknowledgement is a request: the cloud handles it in steps, with    *)
(* other requests in between, and no step asks whether the command was     *)
(* acknowledged before.  An agent that no longer waits for the answer      *)
(* leaves the request behind, and it is handled all the same.              *)
(*                                                                         *)
(* The cloud's schema accepts the words "success" and "failure" in an      *)
(* acknowledgement and answers 422 to any other; the poller says           *)
(* "completed" and "failed" and does not look at the answer.  Which words  *)
(* the agents of a behaviour use is its `words`.                           *)
(***************************************************************************)
EXTENDS Naturals, Sequences, FiniteSets

CONSTANTS
  Agents,      \* edge agents that may be provisioned
  Words,       \* the pairs of words acknowledgements may use
  UserKinds,   \* the kinds of command users send to one agent
  FleetKinds,  \* the kinds that are pushed to all agents
  BatchLimit,  \* commands handed out by one poll (100 in the code)
  MaxRetries,  \* how often a failed command is queued again (3 in the code)
  MaxCommands, \* bound on the commands ever queued
  MaxLosses,   \* bound on acknowledgements whose answer does not come in time
  MaxCrashes   \* bound on agents stopping by themselves

Kinds == {"deploy_model", "push_config", "update_classes", "update_agent",
          "restart_agent", "ping"}

\* No agent reports what it executed with the word for a failure
ASSUME CommandAssumption ==
  /\ Agents # {} /\ IsFiniteSet(Agents)
  /\ Words \subseteq [ok : STRING \ {"failure"}, bad : STRING]
  /\ UserKinds \subseteq Kinds /\ FleetKinds \subseteq Kinds
  /\ {BatchLimit, MaxRetries, MaxCommands, MaxLosses, MaxCrashes} \subseteq Nat

VARIABLES
  words,     \* the words of this behaviour's agents
  agents,    \* db.edge_agents
  sent,      \* db.edge_commands in the order of sent_at
  record,    \* what the agent's document says of its model and configuration
  tails,     \* pushed configurations not in the agent's document yet
  fleet,     \* a push to all agents under way: its kind and who is left
  fetched,   \* the commands of the last poll not dealt with yet
  waiting,   \* what poll_loop waits for: "poll" or the answer to an ack
  acks,      \* acknowledgements on their way and in the cloud's handler
  belated,   \* commands one of whose failures was handled after the agent had left
  exiting,   \* call_later(os._exit) is scheduled
  applied,   \* the last command of each kind that took effect on the agent
  image,     \* the update command whose software runs
  ran,       \* commands executed at least once
  losses, crashes

\* An acknowledgement the agent waits for has n = 0, one it left the number of the loss.
Acks == [of : 1 .. MaxCommands, word : STRING, at : {"sent", "settled", "answered"},
         n : 0 .. MaxLosses]

cloudVars == <<agents, sent, record, tails, fleet>>
agentVars == <<fetched, waiting, exiting, applied, image, ran>>
ackVars == <<acks, belated, losses>>
commandVars == <<words, cloudVars, agentVars, ackVars, crashes>>

Ids == 1 .. MaxCommands
Fields == {"model", "config"}

CommandTypeOK ==
  /\ words \in Words
  /\ agents \subseteq Agents
  /\ Len(sent) \in 0 .. MaxCommands
  /\ \A c \in DOMAIN sent :
       sent[c] \in [agent : Agents, kind : Kinds, retry : 0 .. MaxRetries,
                    of : 0 .. MaxCommands,
                    status : {"pending", "success", "failure", "deleted"}]
  /\ record \in [Agents -> [Fields -> 0 .. MaxCommands]]
  /\ tails \subseteq Ids
  /\ fleet \in [kind : Kinds, left : SUBSET Agents]
  /\ fetched \in [Agents -> SUBSET DOMAIN sent]
  /\ waiting \in [Agents -> {"poll", "ok", "bad"}]
  /\ exiting \in [Agents -> BOOLEAN]
  /\ applied \in [Agents -> [Kinds -> 0 .. MaxCommands]]
  /\ image \in [Agents -> 0 .. MaxCommands]
  /\ ran \subseteq DOMAIN sent
  /\ acks \subseteq Acks /\ belated \subseteq DOMAIN sent
  /\ losses \in 0 .. MaxLosses /\ crashes \in 0 .. MaxCrashes

CommandInit ==
  /\ words \in Words
  /\ agents \in SUBSET Agents
  /\ sent = <<>>
  /\ record = [a \in Agents |-> [f \in Fields |-> 0]]
  /\ tails = {}
  /\ fleet = [kind |-> "update_classes", left |-> {}]
  /\ fetched = [a \in Agents |-> {}]
  /\ waiting = [a \in Agents |-> "poll"]
  /\ exiting = [a \in Agents |-> FALSE]
  /\ applied = [a \in Agents |-> [k \in Kinds |-> 0]]
  /\ image = [a \in Agents |-> 0]
  /\ ran = {}
  /\ acks = {} /\ belated = {}
  /\ losses = 0 /\ crashes = 0

-------------------------------------------------------------------------------
(* The cloud *)

\* send_command; `of` is the command that failed, for one that is queued again
Queued(a, k, retry, of) ==
  Append(sent, [agent |-> a, kind |-> k, retry |-> retry, of |-> of,
                status |-> "pending"])

Room == Len(sent) < MaxCommands
NextId == Len(sent) + 1

\* push_model_to_edge writes nothing but the command
PushModel(a) == sent' = Queued(a, "deploy_model", 0, 0) /\ UNCHANGED tails
PushUpdate(a) == sent' = Queued(a, "update_agent", 0, 0) /\ UNCHANGED tails
\* _try_direct_push posts to a route that no agent has
PushedDirectly(a) == FALSE
\* push_agent_config writes the agent's document after the command
PushConfig(a) ==
  /\ ~PushedDirectly(a)
  /\ sent' = Queued(a, "push_config", 0, 0)
  /\ tails' = tails \cup {NextId}
\* A user's request: the agent exists and the command goes into the queue
SendCommand(a, k) ==
  /\ a \in agents /\ k \in UserKinds /\ Room
  /\ CASE k = "deploy_model" -> PushModel(a)
       [] k = "update_agent" -> PushUpdate(a)
       [] k = "push_config" -> PushConfig(a)
       [] OTHER -> sent' = Queued(a, k, 0, 0) /\ UNCHANGED tails
  /\ UNCHANGED <<words, agents, record, fleet, agentVars, ackVars, crashes>>

\* push_classes_to_edge and push_model_update read the list of agents once
PushToFleet(k) ==
  /\ k \in FleetKinds /\ fleet.left = {} /\ agents # {} /\ Room
  /\ fleet' = [kind |-> k, left |-> agents]
  /\ UNCHANGED <<words, agents, sent, record, tails, agentVars, ackVars, crashes>>

\* ... and queue one command after the other.  For an agent deleted meanwhile
\* send_command raises, which ends push_classes_to_edge; push_model_update goes on.
PushNext(a) ==
  /\ a \in fleet.left
  /\ IF a \in agents
     THEN /\ Room
          /\ sent' = Queued(a, fleet.kind, 0, 0)
          /\ fleet' = [fleet EXCEPT !.left = @ \ {a}]
     ELSE /\ fleet' = [fleet EXCEPT !.left =
                         IF fleet.kind = "update_classes" THEN {} ELSE @ \ {a}]
          /\ UNCHANGED sent
  /\ UNCHANGED <<words, agents, record, tails, agentVars, ackVars, crashes>>

Recorded(f, c) ==
  IF sent[c].agent \in agents THEN [record EXCEPT ![sent[c].agent][f] = c] ELSE record
\* The second write of push_agent_config
WriteRecord(c) ==
  /\ c \in tails
  /\ tails' = tails \ {c}
  /\ record' = Recorded("config", c)
  /\ UNCHANGED <<words, agents, sent, fleet, agentVars, ackVars, crashes>>

\* delete_agent
DeleteAgent(a) ==
  /\ a \in agents
  /\ agents' = agents \ {a}
  /\ sent' = [c \in DOMAIN sent |->
                IF sent[c].agent = a THEN [sent[c] EXCEPT !.status = "deleted"] ELSE sent[c]]
  /\ UNCHANGED <<words, record, tails, fleet, agentVars, ackVars, crashes>>

\* The handler of an acknowledgement, ack_command, after its first write, and when
\* it is through: an answer nobody waits for is dropped.
Moved(r, at) ==
  (acks \ {r}) \cup (IF at = "answered" /\ r.n # 0 THEN {} ELSE {[r EXCEPT !.at = at]})
\* The first write: the word becomes the status, whatever the status was.  A command
\* that is gone is answered 404 or, with its agent, 401; another word 422.
Settle(r) ==
  /\ r.at = "sent"
  /\ IF sent[r.of].status # "deleted" /\ r.word \in {"success", "failure"}
     THEN /\ sent' = [sent EXCEPT ![r.of].status = r.word]
          /\ acks' = Moved(r, IF r.word = "failure" \/ sent[r.of].kind = "deploy_model"
                              THEN "settled" ELSE "answered")
          /\ belated' = IF r.n # 0 /\ r.word = "failure" THEN belated \cup {r.of} ELSE belated
     ELSE acks' = Moved(r, "answered") /\ UNCHANGED <<sent, belated>>
  /\ UNCHANGED <<words, agents, record, tails, fleet, agentVars, losses, crashes>>
\* (mutant) the number of retries is not looked at
Retried_Always(c) == TRUE
\* A command that failed is queued again ...
Retried(c) == sent[c].retry < MaxRetries
\* ... after it is read once more.  What is read of it never changes and a deletion
\* takes the agent first, which send_command finds gone, so one step does.
Requeue(r) ==
  /\ r.at = "settled" /\ r.word = "failure"
  /\ LET c == sent[r.of] IN
       IF c.status # "deleted" /\ Retried(r.of)
       THEN Room /\ sent' = Queued(c.agent, c.kind, c.retry + 1, r.of)
       ELSE UNCHANGED sent
  /\ acks' = Moved(r, "answered")
  /\ UNCHANGED <<words, agents, record, tails, fleet, agentVars, belated, losses, crashes>>
\* A model that was deployed is recorded
RecordModel(r) ==
  /\ r.at = "settled" /\ r.word = "success"
  /\ record' = Recorded("model", r.of)
  /\ acks' = Moved(r, "answered")
  /\ UNCHANGED <<words, agents, sent, tails, fleet, agentVars, belated, losses, crashes>>
HandleAck(r) == Settle(r) \/ Requeue(r) \/ RecordModel(r)

-------------------------------------------------------------------------------
(* The agent *)

Pending(a) == {c \in DOMAIN sent : sent[c].agent = a /\ sent[c].status = "pending"}
\* get_pending_commands: the oldest pending commands, at most a batch
Oldest(a) == {c \in Pending(a) : Cardinality({d \in Pending(a) : d < c}) < BatchLimit}

\* poll_loop deals with all it fetched before it polls again ...
Poll(a) ==
  /\ a \in agents
  /\ waiting[a] = "poll" /\ fetched[a] = {}
  /\ Pending(a) # {}
  /\ fetched' = [fetched EXCEPT ![a] = Oldest(a)]
  /\ UNCHANGED <<words, cloudVars, waiting, exiting, applied, image, ran, ackVars, crashes>>

\* (mutant) the newest of the fetched commands come first
InHand_Newest(a, c) == c \in fetched[a] /\ \A d \in fetched[a] : d <= c
\* ... in the order in which they were sent
InHand(a, c) == c \in fetched[a] /\ \A d \in fetched[a] : c <= d

\* _execute up to the acknowledgement.  "refused": the step answers with an
\* error (model not loaded, no classes, keys rejected), which is still reported
\* as completed; "raised": it ends in the handler of exceptions.
Outcomes(k) ==
  CASE k \in {"deploy_model", "push_config", "update_classes"} -> {"done", "refused", "raised"}
    [] k = "restart_agent" -> {"done"}
    [] OTHER -> {"done", "raised"}
Ack(c, word) == [of |-> c, word |-> word, at |-> "sent", n |-> 0]
Execute(a, outcome) ==
  /\ waiting[a] = "poll"
  /\ \E c \in fetched[a] :
       LET k == sent[c].kind IN
       /\ InHand(a, c) /\ outcome \in Outcomes(k)
       /\ ran' = ran \cup {c}
       /\ applied' = IF outcome = "done" THEN [applied EXCEPT ![a][k] = c] ELSE applied
       /\ exiting' = [exiting EXCEPT ![a] =
                        @ \/ (outcome = "done" /\ k \in {"update_agent", "restart_agent"})]
       /\ acks' = acks \cup {Ack(c, IF outcome = "raised" THEN words.bad ELSE words.ok)}
  /\ waiting' = [waiting EXCEPT ![a] = IF outcome = "raised" THEN "bad" ELSE "ok"]
  /\ UNCHANGED <<words, cloudVars, fetched, image, belated, losses, crashes>>

\* The acknowledgement the agent waits for
AckOf(a) == {r \in acks : r.n = 0 /\ sent[r.of].agent = a}
NextCommand(a, c) ==
  /\ waiting' = [waiting EXCEPT ![a] = "poll"]
  /\ fetched' = [fetched EXCEPT ![a] = @ \ {c}]

\* The answer, 200, 401, 404 or 422, is not looked at
AckAnswered(a) ==
  /\ \E r \in AckOf(a) :
       r.at = "answered" /\ acks' = acks \ {r} /\ NextCommand(a, r.of)
  /\ UNCHANGED <<words, cloudVars, exiting, applied, image, ran, belated, losses, crashes>>

\* What is left of a request nobody waits for any more: nothing where it was lost on
\* its way or only its answer was, and the request where it was late
LeftBehind(r) ==
  {late \in {{}, {[r EXCEPT !.n = losses + 1]}} :
     /\ r.at = "settled" => late # {}
     /\ r.at = "answered" => late = {}}
\* (mutant) a report of a failure is repeated until it is answered
AckLost_Repeated(a) ==
  /\ losses < MaxLosses /\ losses' = losses + 1
  /\ \E r \in AckOf(a) : \E late \in LeftBehind(r) :
       acks' = (acks \ {r}) \cup late \cup {Ack(r.of, words.bad)}
  /\ waiting' = [waiting EXCEPT ![a] = "bad"]
  /\ UNCHANGED <<words, cloudVars, fetched, exiting, applied, image, ran, belated, crashes>>
\* No answer comes in time.  After "completed" the exception handler reports the same
\* command as failed; after that the poller gives up.
AckLost(a) ==
  /\ losses < MaxLosses /\ losses' = losses + 1
  /\ \E r \in AckOf(a) : \E late \in LeftBehind(r) :
       IF waiting[a] = "ok"
       THEN /\ acks' = (acks \ {r}) \cup late \cup {Ack(r.of, words.bad)}
            /\ waiting' = [waiting EXCEPT ![a] = "bad"]
            /\ UNCHANGED fetched
       ELSE acks' = (acks \ {r}) \cup late /\ NextCommand(a, r.of)
  /\ UNCHANGED <<words, cloudVars, exiting, applied, image, ran, belated, crashes>>

\* The process ends and the container restarts: what the poller held and the
\* attributes push_config set are gone; a pulled image may come up.
Restarted(a, newImage) ==
  /\ fetched' = [fetched EXCEPT ![a] = {}]
  /\ waiting' = [waiting EXCEPT ![a] = "poll"]
  /\ exiting' = [exiting EXCEPT ![a] = FALSE]
  /\ applied' = [applied EXCEPT ![a]["push_config"] = 0]
  /\ image' = IF newImage THEN [image EXCEPT ![a] = applied[a]["update_agent"]] ELSE image
  /\ \/ AckOf(a) = {} /\ UNCHANGED <<acks, losses>>
     \/ \E r \in AckOf(a) : \E late \in LeftBehind(r) :
          /\ acks' = (acks \ {r}) \cup late
          /\ IF late = {} THEN UNCHANGED losses ELSE losses < MaxLosses /\ losses' = losses + 1
  /\ UNCHANGED <<words, cloudVars, ran, belated>>
Exit(a, newImage) == exiting[a] /\ Restarted(a, newImage) /\ UNCHANGED crashes
Crash(a) == crashes < MaxCrashes /\ crashes' = crashes + 1 /\ Restarted(a, FALSE)

CommandNext ==
  \/ \E a \in Agents :
       \/ \E k \in UserKinds : SendCommand(a, k)
       \/ PushNext(a)
       \/ DeleteAgent(a)
       \/ Poll(a)
       \/ \E outcome \in {"done", "refused", "raised"} : Execute(a, outcome)
       \/ AckAnswered(a)
       \/ AckLost(a)
       \/ \E newImage \in BOOLEAN : Exit(a, newImage)
       \/ Crash(a)
  \/ \E k \in FleetKinds : PushToFleet(k)
  \/ \E c \in DOMAIN sent : WriteRecord(c)
  \/ \E r \in acks : HandleAck(r)

\* The poller polls, works through what it fetched and is answered in the end, and
\* the cloud's handlers go on
CommandFairness ==
  \A a \in Agents :
    /\ WF_commandVars(Poll(a))
    /\ WF_commandVars(\E outcome \in {"done", "refused", "raised"} : Execute(a, outcome))
    /\ WF_commandVars(AckAnswered(a))
    /\ WF_commandVars(\E r \in AckOf(a) : HandleAck(r))
    /\ WF_commandVars(\E c \in Ids : c \in DOMAIN sent /\ WriteRecord(c))

CommandSpec == CommandInit /\ [][CommandNext]_commandVars /\ CommandFairness
-------------------------------------------------------------------------------
(* Properties *)

\* The first executions of an agent's commands happen in the order in which they
\* were sent, whatever is lost, restarted or executed again: no configuration
\* or model is applied before one that was queued earlier.
RunsInOrder ==
  [][\A c \in ran' \ ran : \A d \in 1 .. c - 1 :
       sent[d].agent = sent[c].agent /\ sent[d].status # "deleted" => d \in ran']_commandVars

\* A command is queued again at most once, however often it is executed and whatever
\* becomes of its acknowledgements, unless a report of its failure was handled after
\* the agent had stopped waiting for it: then the command is still pending, runs
\* again, and both reports queue it again.
RetriedOnce ==
  \A c, d \in DOMAIN sent :
    sent[c].of = sent[d].of /\ sent[c].of # 0 /\ sent[c].of \notin belated => c = d

\* The comment in push_model_to_edge: the model version of an agent is updated
\* when the agent acknowledges the command; so a deployed model that stays loaded
\* is some time recorded.
DeploymentIsRecorded ==
  \A a \in Agents, c \in Ids :
    (applied[a]["deploy_model"] = c /\ a \in agents) ~>
      (record[a]["model"] # 0 \/ a \notin agents)
===============================================================================
