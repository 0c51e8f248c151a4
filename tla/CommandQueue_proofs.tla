-------------------------- MODULE CommandQueue_proofs --------------------------
(***************************************************************************)
(* Theorems about what the cloud sends to its agents: the commands it      *)
(* queues (their types, RetriedOnce, RunsInOrder), the rollout built on    *)
(* the queue (OneStoreAtATime), for any number of agents, commands,        *)
(* retries, lost acknowledgements and crashes; and the configuration of a  *)
(* camera (AckedConfigInForce), for any number of requests.                *)
(***************************************************************************)
EXTENDS StagedRollout, CameraConfig, TLAPS, FiniteSetTheorems, SequenceTheorems,
        WellFoundedInduction

Command == [agent : Agents, kind : Kinds, retry : 0 .. MaxRetries, of : 0 .. MaxCommands,
            status : {"pending", "success", "failure", "deleted"}]

QueueTypes == CommandTypeOK /\ sent \in Seq(Command)

\* The types of what the commands in an agent's hand are told from, and the others
HandTypes ==
  /\ sent \in Seq(Command) /\ Len(sent) <= MaxCommands
  /\ fetched \in [Agents -> SUBSET DOMAIN sent]
  /\ waiting \in [Agents -> {"poll", "ok", "bad"}]
  /\ ran \subseteq DOMAIN sent
  /\ acks \subseteq Acks /\ belated \subseteq DOMAIN sent

OtherTypes ==
  /\ words \in Words /\ agents \subseteq Agents
  /\ record \in [Agents -> [Fields -> 0 .. MaxCommands]]
  /\ tails \subseteq Ids
  /\ fleet \in [kind : Kinds, left : SUBSET Agents]
  /\ exiting \in [Agents -> BOOLEAN]
  /\ applied \in [Agents -> [Kinds -> 0 .. MaxCommands]]
  /\ image \in [Agents -> 0 .. MaxCommands]
  /\ losses \in 0 .. MaxLosses /\ crashes \in 0 .. MaxCrashes

\* The commands in an agent's hand are its own.  It waits for the answer to one
\* acknowledgement at most, of the command it deals with, which reports no failure
\* as long as the agent is not in its handler of exceptions.
HandOK ==
  /\ \A a \in Agents : \A c \in fetched[a] : sent[c].agent = a
  /\ \A a \in Agents : \A r \in AckOf(a) :
       waiting[a] # "poll" /\ InHand(a, r.of) /\ (waiting[a] = "ok" => r.word # "failure")
  /\ \A a \in Agents : \A r, s \in AckOf(a) : r = s

\* The reports of a command's failure that are about to queue it again, and the
\* commands that repeat it
Failing(c) == {r \in acks : r.of = c /\ r.word = "failure" /\ r.at = "settled"}
Repeats(c) == {d \in DOMAIN sent : sent[d].of = c}
Reported(c) == Failing(c) # {} \/ Repeats(c) # {}

\* A command none of whose failures was handled late fails once: when it has, it is
\* not pending and no longer in the agent's hand, but for the answer to that report.
OnceOK(c) ==
  /\ \A d, e \in Repeats(c) : d = e
  /\ \A r, s \in Failing(c) : r = s
  /\ Failing(c) = {} \/ Repeats(c) = {}
  /\ Reported(c) => sent[c].status # "pending"
  /\ Reported(c) => \A a \in Agents : c \in fetched[a] =>
       \E r \in AckOf(a) : r.of = c /\ r.at # "sent" /\ r.word = "failure"
ChainOK ==
  /\ \A d \in DOMAIN sent : sent[d].of \in {0} \cup ran
  /\ \A c \in DOMAIN sent \ belated : OnceOK(c)

\* What was acknowledged has run; what is older than a command in the agent's hand
\* has run, is in its hand too, or was deleted.
OrderOK ==
  /\ \A r \in acks : r.of \in ran
  /\ \A c \in DOMAIN sent : sent[c].status \in {"success", "failure"} => c \in ran
  /\ \A a \in Agents : \A c \in fetched[a] : \A d \in 1 .. c - 1 :
       sent[d].agent = a /\ sent[d].status # "deleted" => d \in ran \/ d \in fetched[a]

QueueInv == QueueTypes /\ HandOK /\ ChainOK /\ OrderOK

\* What the last three speak of
handVars == <<fetched, waiting, ran, acks, belated>>

-------------------------------------------------------------------------------
(* The sequence of commands *)

LEMMA Bounds ==
  /\ MaxCommands \in Nat /\ MaxRetries \in Nat /\ BatchLimit \in Nat
  /\ MaxLosses \in Nat /\ MaxCrashes \in Nat
  BY CommandAssumption

LEMMA IdFacts ==
  ASSUME NEW s \in Seq(Command)
  PROVE  /\ Len(s) \in Nat /\ DOMAIN s = 1 .. Len(s) /\ Len(s) + 1 \notin DOMAIN s
         /\ \A c \in DOMAIN s : c \in Nat /\ c < Len(s) + 1 /\ s[c] \in Command
  OBVIOUS

LEMMA CommandFacts ==
  ASSUME NEW c \in Command
  PROVE  /\ c.agent \in Agents /\ c.kind \in Kinds /\ c.of \in 0 .. MaxCommands
         /\ c.retry \in Nat /\ c.retry <= MaxRetries
         /\ c.status \in {"pending", "success", "failure", "deleted"}
  BY Bounds DEF Command, Ids

\* A command that is appended changes no other.
LEMMA AppendedCommand ==
  ASSUME NEW s \in Seq(Command), NEW e \in Command, NEW t, t = Append(s, e)
  PROVE  /\ t \in Seq(Command) /\ Len(t) = Len(s) + 1
         /\ DOMAIN t = DOMAIN s \cup {Len(s) + 1}
         /\ t[Len(s) + 1] = e
         /\ \A c \in DOMAIN s : t[c] = s[c]
<1>1. t \in Seq(Command) /\ Len(t) = Len(s) + 1
  OBVIOUS
<1>2. DOMAIN t = 1 .. (Len(s) + 1) /\ DOMAIN s = 1 .. Len(s)
  BY <1>1
<1>3. \A c \in 1 .. Len(s) + 1 : t[c] = IF c = Len(s) + 1 THEN e ELSE s[c]
  OBVIOUS
<1>4. DOMAIN t = DOMAIN s \cup {Len(s) + 1}
  BY <1>2
<1> QED
  BY <1>1, <1>2, <1>3, <1>4

\* What a command that is queued, one of its own, changes.
LEMMA NewCommand ==
  ASSUME QueueTypes, Room, NEW a \in Agents, NEW k \in Kinds, sent' = Queued(a, k, 0, 0)
  PROVE  /\ sent' \in Seq(Command) /\ Len(sent') <= MaxCommands
         /\ DOMAIN sent' = DOMAIN sent \cup {NextId} /\ NextId \notin DOMAIN sent
         /\ NextId \in Ids
         /\ sent'[NextId] = [agent |-> a, kind |-> k, retry |-> 0, of |-> 0,
                            status |-> "pending"]
         /\ \A c \in DOMAIN sent : sent'[c] = sent[c] /\ c < NextId
<1>1. sent \in Seq(Command) /\ Len(sent) \in Nat /\ Len(sent) < MaxCommands
  BY DEF QueueTypes, Room
<1>2. NextId \in Ids /\ NextId = Len(sent) + 1
  BY <1>1, Bounds DEF NextId, Ids
<1> PICK e : e = [agent |-> a, kind |-> k, retry |-> 0, of |-> 0, status |-> "pending"]
  OBVIOUS
<1>3. e \in Command
  BY <1>2, Bounds DEF Command
<1>4. sent' = Append(sent, e)
  BY DEF Queued
<1>5. /\ sent' \in Seq(Command) /\ Len(sent') = Len(sent) + 1
      /\ DOMAIN sent' = DOMAIN sent \cup {Len(sent) + 1}
      /\ sent'[Len(sent) + 1] = e
      /\ \A c \in DOMAIN sent : sent'[c] = sent[c]
  <2> PICK s \in Seq(Command) : s = sent
    BY <1>1
  <2>1. \A t : t = Append(s, e) =>
           /\ t \in Seq(Command) /\ Len(t) = Len(s) + 1
           /\ DOMAIN t = DOMAIN s \cup {Len(s) + 1}
           /\ t[Len(s) + 1] = e
           /\ \A c \in DOMAIN s : t[c] = s[c]
    BY <1>3, AppendedCommand, Zenon
  <2> HIDE <1>3
  <2> QED
    BY <1>4, <2>1
<1>6. Len(sent') <= MaxCommands
  BY <1>1, <1>5, Bounds
<1>7. NextId \notin DOMAIN sent /\ \A c \in DOMAIN sent : c < NextId
  BY <1>1, <1>2, IdFacts
<1> QED
  BY <1>2, <1>5, <1>6, <1>7

-------------------------------------------------------------------------------
(* The agents and their acknowledgements *)

LEMMA HandFacts ==
  ASSUME QueueTypes
  PROVE  /\ sent \in Seq(Command) /\ Len(sent) \in Nat /\ Len(sent) <= MaxCommands
         /\ DOMAIN sent = 1 .. Len(sent)
         /\ \A c \in DOMAIN sent : c \in Nat /\ c < NextId /\ sent[c] \in Command
         /\ fetched \in [Agents -> SUBSET DOMAIN sent]
         /\ waiting \in [Agents -> {"poll", "ok", "bad"}]
         /\ ran \subseteq DOMAIN sent
         /\ acks \subseteq Acks /\ belated \subseteq DOMAIN sent
<1>1. sent \in Seq(Command)
  BY DEF QueueTypes
<1>2. /\ Len(sent) \in Nat /\ DOMAIN sent = 1 .. Len(sent)
      /\ \A c \in DOMAIN sent : c \in Nat /\ c < NextId /\ sent[c] \in Command
  BY <1>1, IdFacts DEF NextId
<1>3. /\ fetched \in [Agents -> SUBSET DOMAIN sent]
      /\ waiting \in [Agents -> {"poll", "ok", "bad"}] /\ ran \subseteq DOMAIN sent
      /\ acks \subseteq Acks /\ belated \subseteq DOMAIN sent /\ Len(sent) <= MaxCommands
  BY Bounds DEF QueueTypes, CommandTypeOK
<1> QED
  BY <1>1, <1>2, <1>3

\* An acknowledgement is one of a command that ran; one that is waited for is waited
\* for by the command's agent.
LEMMA AckFacts ==
  ASSUME QueueInv, NEW r \in acks
  PROVE  /\ r \in Acks /\ r.of \in ran /\ r.of \in DOMAIN sent
         /\ sent[r.of] \in Command /\ sent[r.of].agent \in Agents
         /\ r.at \in {"sent", "settled", "answered"} /\ r.n \in 0 .. MaxLosses
         /\ r.n = 0 => r \in AckOf(sent[r.of].agent)
<1>1. r \in Acks /\ r.of \in ran /\ r.of \in DOMAIN sent
  BY HandFacts DEF QueueInv, OrderOK
<1>2. sent[r.of] \in Command
  BY <1>1, HandFacts DEF QueueInv
<1>3. sent[r.of].agent \in Agents
  BY <1>2, CommandFacts
<1> QED
  BY <1>1, <1>2, <1>3 DEF Acks, AckOf

\* A failure that is reported while the agent waits was not reported before.
LEMMA FirstReport ==
  ASSUME QueueInv, NEW r \in acks, r.n = 0, r.at = "sent", r.of \notin belated
  PROVE  ~Reported(r.of)
<1>1. PICK a \in Agents : a = sent[r.of].agent /\ r \in AckOf(a) /\ r.of \in DOMAIN sent
  BY AckFacts
<1>2. r.of \in fetched[a]
  BY <1>1 DEF QueueInv, HandOK, InHand
<1>3. \A s \in AckOf(a) : s = r
  BY <1>1 DEF QueueInv, HandOK
<1> QED
  BY <1>1, <1>2, <1>3 DEF QueueInv, ChainOK, OnceOK

\* What leaves a command failing once: no more reports or repeats of it, and its
\* report stays with an agent that has it in hand.
LEMMA OnceKept ==
  ASSUME NEW c, OnceOK(c), Repeats(c)' \subseteq Repeats(c),
         Failing(c)' # {} => Failing(c) # {}, \A s, t \in Failing(c)' : s = t,
         Reported(c) => (sent'[c].status = "pending" => sent[c].status = "pending"),
         Reported(c) => \A a \in Agents : c \in fetched'[a] =>
           /\ c \in fetched[a]
           /\ \A s \in AckOf(a) : s.of = c /\ s.at # "sent" /\ s.word = "failure" =>
                \E t \in AckOf(a)' : t.of = c /\ t.at # "sent" /\ t.word = "failure"
  PROVE  OnceOK(c)'
<1>1. Reported(c)' => Reported(c)
  BY DEF Reported
<1>2. \A d, e \in Repeats(c)' : d = e
  BY DEF OnceOK
<1>3. Failing(c)' = {} \/ Repeats(c)' = {}
  BY DEF OnceOK
<1>4. Reported(c)' => sent'[c].status # "pending"
  BY <1>1 DEF OnceOK
<1>5. Reported(c)' => \A a \in Agents : c \in fetched'[a] =>
        \E r \in AckOf(a)' : r.of = c /\ r.at # "sent" /\ r.word = "failure"
  BY <1>1 DEF OnceOK
<1> QED
  BY <1>2, <1>3, <1>4, <1>5 DEF OnceOK

\* A command that has not failed
LEMMA NotReported ==
  ASSUME NEW c, Repeats(c)' = {}, Failing(c)' = {}
  PROVE  OnceOK(c)'
  BY DEF OnceOK, Reported

\* A request the handler moves on
LEMMA MovedAck ==
  ASSUME QueueInv, NEW r \in acks, NEW at \in {"settled", "answered"},
         acks' = Moved(r, at), fetched' = fetched, waiting' = waiting,
         DOMAIN sent \subseteq DOMAIN sent',
         \A c \in DOMAIN sent : sent'[c].agent = sent[c].agent
  PROVE  /\ acks' \subseteq Acks /\ HandOK'
         /\ \A s \in acks' : s.of \in ran
         /\ \A s \in acks' : s \in acks \ {r} \/ s = [r EXCEPT !.at = at]
         /\ \A a \in Agents : \A s \in AckOf(a) : s # r => s \in AckOf(a)'
         /\ r.n = 0 => [r EXCEPT !.at = at] \in AckOf(sent[r.of].agent)'
<1> PICK q : q = [r EXCEPT !.at = at]
  OBVIOUS
<1>1. r \in Acks /\ r.of \in DOMAIN sent /\ r.of \in ran
  BY AckFacts
<1>2. q \in Acks /\ q.of = r.of /\ q.word = r.word /\ q.at = at /\ q.n = r.n
  BY <1>1 DEF Acks
<1>3. /\ acks' \subseteq (acks \ {r}) \cup {q}
      /\ \A s \in acks \ {r} : s \in acks'
      /\ r.n = 0 => q \in acks'
  BY DEF Moved
<1>4. acks' \subseteq Acks
  BY <1>2, <1>3, HandFacts DEF QueueInv
<1>5. \A s \in acks : s.of \in DOMAIN sent /\ s.of \in ran /\ sent'[s.of].agent = sent[s.of].agent
  BY AckFacts
<1>6. \A s \in acks' : s.of \in ran
  BY <1>1, <1>2, <1>3, <1>5
<1>7. \A a \in Agents : \A s \in AckOf(a)' :
        s \in AckOf(a) \ {r} \/ (s = q /\ r \in AckOf(a))
  BY <1>2, <1>3, <1>5 DEF AckOf
<1>8. HandOK'
  <2>1. \A a \in Agents : \A c \in fetched'[a] : sent'[c].agent = a
    BY HandFacts DEF QueueInv, HandOK
  <2>2. \A a \in Agents : \A s \in AckOf(a)' :
          waiting'[a] # "poll" /\ InHand(a, s.of)' /\ (waiting'[a] = "ok" => s.word # "failure")
    <3> SUFFICES ASSUME NEW a \in Agents, NEW s \in AckOf(a)'
                 PROVE  waiting'[a] # "poll" /\ InHand(a, s.of)' /\ (waiting'[a] = "ok" => s.word # "failure")
      OBVIOUS
    <3>1. PICK t \in AckOf(a) : t.of = s.of /\ t.word = s.word
      BY <1>2, <1>7
    <3>2. waiting[a] # "poll" /\ InHand(a, t.of) /\ (waiting[a] = "ok" => t.word # "failure")
      BY <3>1 DEF QueueInv, HandOK
    <3> QED
      BY <3>1, <3>2 DEF InHand
  <2>3. \A a \in Agents : \A s, t \in AckOf(a)' : s = t
    BY <1>7 DEF QueueInv, HandOK
  <2> QED
    BY <2>1, <2>2, <2>3 DEF HandOK
<1>9. \A a \in Agents : \A s \in AckOf(a) : s # r => s \in AckOf(a)'
  BY <1>3, <1>5 DEF AckOf
<1>10. r.n = 0 => q \in AckOf(sent[r.of].agent)'
  BY <1>1, <1>2, <1>3, <1>5 DEF AckOf
<1> QED
  BY <1>3, <1>4, <1>6, <1>8, <1>9, <1>10

\* The first write of a handler
LEMMA SettleEffect ==
  ASSUME QueueTypes, NEW r \in acks, r.of \in DOMAIN sent, Settle(r)
  PROVE  /\ sent' \in Seq(Command) /\ Len(sent') = Len(sent) /\ DOMAIN sent' = DOMAIN sent
         /\ \A d \in DOMAIN sent :
              /\ sent'[d].agent = sent[d].agent /\ sent'[d].of = sent[d].of
              /\ sent'[d].status = "deleted" <=> sent[d].status = "deleted"
              /\ \/ sent'[d].status = sent[d].status
                 \/ d = r.of /\ r.word \in {"success", "failure"} /\ sent'[d].status = r.word
         /\ \/ acks' = Moved(r, "answered") /\ UNCHANGED <<sent, belated>>
            \/ /\ acks' = Moved(r, IF r.word = "failure" \/ sent[r.of].kind = "deploy_model"
                                  THEN "settled" ELSE "answered")
               /\ r.word \in {"success", "failure"} /\ sent'[r.of].status = r.word
               /\ belated' = IF r.n # 0 /\ r.word = "failure" THEN belated \cup {r.of} ELSE belated
<1> DEFINE c == r.of
<1>0. /\ sent \in Seq(Command) /\ Len(sent) \in Nat /\ DOMAIN sent = 1 .. Len(sent)
      /\ c \in 1 .. Len(sent) /\ sent[c] \in Command
      /\ \A d \in DOMAIN sent : sent[d] \in Command
  BY HandFacts
<1>1. CASE ~(sent[c].status # "deleted" /\ r.word \in {"success", "failure"})
  <2>1. acks' = Moved(r, "answered") /\ UNCHANGED <<sent, belated>>
    BY <1>1 DEF Settle
  <2> QED
    BY <1>0, <2>1
<1>2. CASE sent[c].status # "deleted" /\ r.word \in {"success", "failure"}
  <2> PICK e : e = [sent[c] EXCEPT !.status = r.word]
    OBVIOUS
  <2>1. /\ e \in Command /\ e.agent = sent[c].agent /\ e.of = sent[c].of /\ e.status = r.word
    BY <1>0, <1>2 DEF Command
  <2>2. /\ sent' = [sent EXCEPT ![c] = e]
        /\ acks' = Moved(r, IF r.word = "failure" \/ sent[c].kind = "deploy_model"
                            THEN "settled" ELSE "answered")
        /\ belated' = IF r.n # 0 /\ r.word = "failure" THEN belated \cup {c} ELSE belated
    BY <1>0, <1>2 DEF Settle
  <2>3. /\ sent' \in Seq(Command) /\ Len(sent') = Len(sent) /\ DOMAIN sent' = DOMAIN sent
        /\ sent'[c] = e /\ \A d \in DOMAIN sent \ {c} : sent'[d] = sent[d]
    BY <1>0, <2>1, <2>2
  <2>4. \A d \in DOMAIN sent :
              /\ sent'[d].agent = sent[d].agent /\ sent'[d].of = sent[d].of
              /\ sent'[d].status = "deleted" <=> sent[d].status = "deleted"
              /\ \/ sent'[d].status = sent[d].status
                 \/ d = r.of /\ r.word \in {"success", "failure"} /\ sent'[d].status = r.word
    BY <1>2, <2>1, <2>3
  <2> QED
    BY <1>0, <1>2, <2>1, <2>2, <2>3, <2>4
<1> QED
  BY <1>1, <1>2

LEMMA SettleKeeps ==
  ASSUME QueueInv, NEW r \in acks, Settle(r)
  PROVE  HandTypes' /\ HandOK' /\ ChainOK' /\ OrderOK'
<1>0. /\ r.at = "sent" /\ UNCHANGED <<fetched, waiting, ran>> /\ QueueTypes
      /\ r \in Acks /\ r.of \in ran /\ r.of \in DOMAIN sent
      /\ sent[r.of].agent \in Agents
  BY AckFacts DEF Settle, agentVars, QueueInv
<1>1. /\ Len(sent) <= MaxCommands /\ DOMAIN sent = 1 .. Len(sent) /\ Len(sent) \in Nat
      /\ fetched \in [Agents -> SUBSET DOMAIN sent]
      /\ waiting \in [Agents -> {"poll", "ok", "bad"}]
      /\ ran \subseteq DOMAIN sent /\ belated \subseteq DOMAIN sent
  BY <1>0, HandFacts
<1>2. /\ sent' \in Seq(Command) /\ Len(sent') = Len(sent) /\ DOMAIN sent' = DOMAIN sent
      /\ \A d \in DOMAIN sent :
              /\ sent'[d].agent = sent[d].agent /\ sent'[d].of = sent[d].of
              /\ sent'[d].status = "deleted" <=> sent[d].status = "deleted"
              /\ \/ sent'[d].status = sent[d].status
                 \/ d = r.of /\ r.word \in {"success", "failure"} /\ sent'[d].status = r.word
  BY <1>0, SettleEffect
<1>3. \E at \in {"settled", "answered"} :
         /\ acks' = Moved(r, at)
         /\ \/ at = "answered" /\ UNCHANGED <<sent, belated>>
            \/ /\ r.word \in {"success", "failure"} /\ sent'[r.of].status = r.word
               /\ belated' = IF r.n # 0 /\ r.word = "failure" THEN belated \cup {r.of} ELSE belated
  <2>1. \/ acks' = Moved(r, "answered") /\ UNCHANGED <<sent, belated>>
        \/ /\ acks' = Moved(r, IF r.word = "failure" \/ sent[r.of].kind = "deploy_model"
                              THEN "settled" ELSE "answered")
           /\ r.word \in {"success", "failure"} /\ sent'[r.of].status = r.word
           /\ belated' = IF r.n # 0 /\ r.word = "failure" THEN belated \cup {r.of} ELSE belated
    BY <1>0, SettleEffect
  <2> QED
    BY <2>1
<1>4. PICK at \in {"settled", "answered"} :
         /\ acks' = Moved(r, at)
         /\ \/ at = "answered" /\ UNCHANGED <<sent, belated>>
            \/ /\ r.word \in {"success", "failure"} /\ sent'[r.of].status = r.word
               /\ belated' = IF r.n # 0 /\ r.word = "failure" THEN belated \cup {r.of} ELSE belated
  BY <1>3
<1> PICK q : q = [r EXCEPT !.at = at]
  OBVIOUS
<1>5. q.of = r.of /\ q.word = r.word /\ q.at = at /\ q.n = r.n
  BY <1>0 DEF Acks
<1>6. /\ acks' \subseteq Acks /\ HandOK'
      /\ \A s \in acks' : s.of \in ran
      /\ \A s \in acks' : s \in acks \ {r} \/ s = q
      /\ \A a \in Agents : \A s \in AckOf(a) : s # r => s \in AckOf(a)'
      /\ r.n = 0 => q \in AckOf(sent[r.of].agent)'
  BY <1>0, <1>2, <1>4, MovedAck
<1>7. belated \subseteq belated' /\ belated' \subseteq DOMAIN sent
  BY <1>0, <1>1, <1>4
<1>8. HandTypes'
  BY <1>0, <1>1, <1>2, <1>6, <1>7 DEF HandTypes
<1>9. OrderOK'
  <2>1. \A c \in DOMAIN sent : sent'[c].status \in {"success", "failure"} => c \in ran
    BY <1>0, <1>2 DEF QueueInv, OrderOK
  <2>2. \A b \in Agents : \A c \in fetched[b] : \A d \in 1 .. c - 1 :
          sent'[d].agent = b /\ sent'[d].status # "deleted" => d \in ran \/ d \in fetched[b]
    <3>1. \A b \in Agents : \A c \in fetched[b] : \A d \in 1 .. c - 1 : d \in DOMAIN sent
      BY <1>1
    <3> QED
      BY <1>2, <3>1 DEF QueueInv, OrderOK
  <2> QED
    BY <1>0, <1>2, <1>6, <2>1, <2>2 DEF OrderOK
<1>10. ChainOK'
  <2>1. \A d \in DOMAIN sent' : sent'[d].of \in {0} \cup ran'
    BY <1>0, <1>2 DEF QueueInv, ChainOK
  <2>2. ASSUME NEW c \in DOMAIN sent', c \notin belated'
        PROVE  OnceOK(c)'
    <3>1. c \in DOMAIN sent /\ c \notin belated /\ OnceOK(c)
      BY <1>2, <1>7, <2>2 DEF QueueInv, ChainOK
    <3>2. Repeats(c)' = Repeats(c)
      BY <1>2 DEF Repeats
    <3>3. CASE c = r.of /\ r.word = "failure" /\ at = "settled"
      <4>1. r.n = 0 /\ sent'[c].status = "failure"
        BY <1>0, <1>4, <2>2, <3>3
      <4>2. ~Reported(c)
        BY <1>0, <3>1, <3>3, <4>1, FirstReport
      <4>3. Repeats(c)' = {} /\ Failing(c) = {}
        BY <3>2, <4>2 DEF Reported
      <4>4. \A s \in Failing(c)' : s = q
        BY <1>6, <4>3 DEF Failing
      <4>5. \A a \in Agents : c \in fetched'[a] => q \in AckOf(a)'
        BY <1>0, <1>6, <3>3, <4>1 DEF QueueInv, HandOK
      <4>6. \A a \in Agents : c \in fetched'[a] =>
              \E t \in AckOf(a)' : t.of = c /\ t.at # "sent" /\ t.word = "failure"
        BY <1>5, <3>3, <4>5
      <4> QED
        BY <4>1, <4>3, <4>4, <4>6 DEF OnceOK
    <3>4. CASE ~(c = r.of /\ r.word = "failure" /\ at = "settled")
      <4>1. Failing(c)' \subseteq Failing(c)
        BY <1>5, <1>6, <3>4 DEF Failing
      <4>2. \A s, t \in Failing(c)' : s = t
        BY <3>1, <4>1 DEF OnceOK
      <4>3. sent'[c].status = "pending" => sent[c].status = "pending"
        BY <1>2, <3>1
      <4>4. \A a \in Agents : c \in fetched'[a] =>
              /\ c \in fetched[a]
              /\ \A s \in AckOf(a) : s.of = c /\ s.at # "sent" /\ s.word = "failure" =>
                   \E t \in AckOf(a)' : t.of = c /\ t.at # "sent" /\ t.word = "failure"
        BY <1>0, <1>6
      <4> QED
        BY <3>1, <3>2, <4>1, <4>2, <4>3, <4>4, OnceKept
    <3> QED
      BY <3>3, <3>4
  <2> QED
    BY <2>1, <2>2 DEF ChainOK
<1> QED
  BY <1>6, <1>8, <1>9, <1>10

\* A failed command that is queued again, and one that is not
LEMMA RequeueKeeps ==
  ASSUME QueueInv, NEW r \in acks, Requeue(r)
  PROVE  HandTypes' /\ HandOK' /\ ChainOK' /\ OrderOK'
<1>0. /\ r.at = "settled" /\ r.word = "failure" /\ acks' = Moved(r, "answered")
      /\ UNCHANGED <<fetched, waiting, ran, belated>> /\ QueueTypes
      /\ r \in Acks /\ r.of \in ran /\ r.of \in DOMAIN sent
      /\ sent[r.of].agent \in Agents /\ sent[r.of] \in Command
  BY AckFacts DEF Requeue, agentVars, QueueInv
<1>1. /\ sent \in Seq(Command) /\ Len(sent) <= MaxCommands
      /\ DOMAIN sent = 1 .. Len(sent) /\ Len(sent) \in Nat
      /\ fetched \in [Agents -> SUBSET DOMAIN sent]
      /\ waiting \in [Agents -> {"poll", "ok", "bad"}]
      /\ ran \subseteq DOMAIN sent /\ belated \subseteq DOMAIN sent
  BY <1>0, HandFacts
<1>2. /\ sent' \in Seq(Command) /\ Len(sent') <= MaxCommands
      /\ \A d \in DOMAIN sent : d \in DOMAIN sent' /\ sent'[d] = sent[d]
      /\ \/ DOMAIN sent' = DOMAIN sent
         \/ /\ DOMAIN sent' = DOMAIN sent \cup {NextId}
            /\ sent'[NextId].of = r.of /\ sent'[NextId].status = "pending"
  <2>1. CASE UNCHANGED sent
    BY <1>1, <2>1
  <2>2. CASE /\ Room /\ Retried(r.of)
             /\ sent' = Queued(sent[r.of].agent, sent[r.of].kind, sent[r.of].retry + 1, r.of)
    <3> PICK e : e = [agent |-> sent[r.of].agent, kind |-> sent[r.of].kind,
                      retry |-> sent[r.of].retry + 1, of |-> r.of, status |-> "pending"]
      OBVIOUS
    <3>1. /\ sent[r.of].agent \in Agents /\ sent[r.of].kind \in Kinds
          /\ sent[r.of].retry + 1 \in 0 .. MaxRetries /\ r.of \in 0 .. MaxCommands
      BY <1>0, <1>1, <2>2, CommandFacts, Bounds DEF Retried
    <3>2. e \in Command
      BY <3>1 DEF Command
    <3>3. sent' = Append(sent, e)
      BY <2>2 DEF Queued
    <3>4. PICK s \in Seq(Command) : s = sent
      BY <1>1
    <3>5. \A t : t = Append(s, e) =>
           /\ t \in Seq(Command) /\ Len(t) = Len(s) + 1
           /\ DOMAIN t = DOMAIN s \cup {Len(s) + 1}
           /\ t[Len(s) + 1] = e
           /\ \A c \in DOMAIN s : t[c] = s[c]
      BY <3>2, AppendedCommand, Zenon
    <3>6. /\ sent' \in Seq(Command) /\ Len(sent') = Len(sent) + 1
          /\ DOMAIN sent' = DOMAIN sent \cup {NextId}
          /\ sent'[NextId] = e
          /\ \A c \in DOMAIN sent : sent'[c] = sent[c]
      BY <3>3, <3>4, <3>5 DEF NextId
    <3>7. Len(sent') <= MaxCommands
      BY <1>1, <2>2, <3>6, Bounds DEF Room
    <3>8. e.of = r.of /\ e.status = "pending"
      OBVIOUS
    <3> QED
      BY <3>6, <3>7, <3>8
  <2> QED
    BY <2>1, <2>2 DEF Requeue
<1>3. NextId \notin DOMAIN sent
  BY <1>1 DEF NextId
<1> PICK q : q = [r EXCEPT !.at = "answered"]
  OBVIOUS
<1>4. q.of = r.of /\ q.word = r.word /\ q.at = "answered" /\ q.n = r.n
  BY <1>0 DEF Acks
<1>5. /\ acks' \subseteq Acks /\ HandOK'
      /\ \A s \in acks' : s.of \in ran
      /\ \A s \in acks' : s \in acks \ {r} \/ s = q
      /\ \A a \in Agents : \A s \in AckOf(a) : s # r => s \in AckOf(a)'
      /\ r.n = 0 => q \in AckOf(sent[r.of].agent)'
  <2>1. /\ DOMAIN sent \subseteq DOMAIN sent'
        /\ \A c \in DOMAIN sent : sent'[c].agent = sent[c].agent
    BY <1>2
  <2> QED
    BY <1>0, <2>1, MovedAck
<1>6. HandTypes'
  <2>1. DOMAIN sent \subseteq DOMAIN sent'
    BY <1>2
  <2> QED
    BY <1>0, <1>1, <1>2, <1>5, <2>1 DEF HandTypes
<1>7. OrderOK'
  <2>1. \A c \in DOMAIN sent' : sent'[c].status \in {"success", "failure"} => c \in ran
    BY <1>2 DEF QueueInv, OrderOK
  <2>2. \A b \in Agents : \A c \in fetched[b] : \A d \in 1 .. c - 1 :
          sent'[d].agent = b /\ sent'[d].status # "deleted" => d \in ran \/ d \in fetched[b]
    <3>1. \A b \in Agents : \A c \in fetched[b] : \A d \in 1 .. c - 1 : d \in DOMAIN sent
      BY <1>1
    <3> QED
      BY <1>2, <3>1 DEF QueueInv, OrderOK
  <2> QED
    BY <1>0, <1>5, <2>1, <2>2 DEF OrderOK
<1>8. ChainOK'
  <2>1. \A d \in DOMAIN sent' : sent'[d].of \in {0} \cup ran'
    BY <1>0, <1>2 DEF QueueInv, ChainOK
  <2>2. ASSUME NEW c \in DOMAIN sent, c \notin belated
        PROVE  OnceOK(c)'
    <3>1. OnceOK(c)
      BY <2>2 DEF QueueInv, ChainOK
    <3>2. Failing(c)' \subseteq Failing(c) \ {r}
      BY <1>4, <1>5 DEF Failing
    <3>3. \A a \in Agents : c \in fetched'[a] =>
              /\ c \in fetched[a]
              /\ \A s \in AckOf(a) : s.of = c /\ s.at # "sent" /\ s.word = "failure" =>
                   \E t \in AckOf(a)' : t.of = c /\ t.at # "sent" /\ t.word = "failure"
      <4> SUFFICES ASSUME NEW a \in Agents, c \in fetched'[a], NEW s \in AckOf(a),
                          s.of = c, s.at # "sent", s.word = "failure"
                   PROVE  \E t \in AckOf(a)' : t.of = c /\ t.at # "sent" /\ t.word = "failure"
        BY <1>0
      <4>1. CASE s # r
        BY <1>5, <4>1
      <4>2. CASE s = r
        <5>1. r.n = 0 /\ sent'[r.of].agent = a
          BY <1>0, <1>2, <4>2 DEF AckOf
        <5>2. q \in AckOf(a)'
          BY <1>5, <5>1
        <5> QED
          BY <1>4, <4>2, <5>2
      <4> QED
        BY <4>1, <4>2
    <3>4. CASE c = r.of
      <4>1. r \in Failing(c)
        BY <1>0, <3>4 DEF Failing
      <4>2. Failing(c)' = {} /\ Repeats(c) = {} /\ Reported(c)
        BY <3>1, <3>2, <4>1 DEF OnceOK, Reported
      <4>3. Repeats(c)' \subseteq {NextId}
        BY <1>2, <4>2 DEF Repeats
      <4>4. sent'[c].status # "pending"
        BY <1>2, <3>1, <4>2 DEF OnceOK
      <4>5. \A a \in Agents : c \in fetched'[a] =>
              \E t \in AckOf(a)' : t.of = c /\ t.at # "sent" /\ t.word = "failure"
        BY <3>1, <3>3, <4>2 DEF OnceOK
      <4>6. \A d, e \in Repeats(c)' : d = e
        BY <4>3
      <4> QED
        BY <4>2, <4>4, <4>5, <4>6 DEF OnceOK
    <3>5. CASE c # r.of
      <4>1. Repeats(c)' \subseteq Repeats(c)
        BY <1>2, <3>5 DEF Repeats
      <4>2. \A s, t \in Failing(c)' : s = t
        BY <3>1, <3>2 DEF OnceOK
      <4>3. sent'[c].status = "pending" => sent[c].status = "pending"
        BY <1>2
      <4>4. Failing(c)' # {} => Failing(c) # {}
        BY <3>2
      <4> QED
        BY <3>1, <3>3, <4>1, <4>2, <4>3, <4>4, OnceKept
    <3> QED
      BY <3>4, <3>5
  <2>3. ASSUME NEW c \in DOMAIN sent', c \notin DOMAIN sent
        PROVE  OnceOK(c)'
    <3>1. c # 0 /\ c \notin ran /\ UNCHANGED ran
      BY <1>0, <1>1, <1>2, <2>3 DEF NextId
    <3>2. Repeats(c)' = {}
      <4>1. \A d \in DOMAIN sent' : sent'[d].of # c
        BY <2>1, <3>1
      <4> QED
        BY <4>1 DEF Repeats
    <3>3. Failing(c)' = {}
      BY <1>5, <3>1 DEF Failing
    <3> QED
      BY <3>2, <3>3, NotReported
  <2> QED
    BY <1>0, <1>2, <2>1, <2>2, <2>3 DEF ChainOK
<1> QED
  BY <1>5, <1>6, <1>7, <1>8

\* A handler that records a model
LEMMA RecordModelKeeps ==
  ASSUME QueueInv, NEW r \in acks, RecordModel(r)
  PROVE  HandTypes' /\ HandOK' /\ ChainOK' /\ OrderOK'
<1>0. /\ r.at = "settled" /\ r.word = "success" /\ acks' = Moved(r, "answered")
      /\ UNCHANGED <<sent, fetched, waiting, ran, belated>> /\ QueueTypes
      /\ r \in Acks
  BY AckFacts DEF RecordModel, agentVars, QueueInv
<1> PICK q : q = [r EXCEPT !.at = "answered"]
  OBVIOUS
<1>1. q.of = r.of /\ q.word = "success"
  BY <1>0 DEF Acks
<1>2. /\ acks' \subseteq Acks /\ HandOK'
      /\ \A s \in acks' : s.of \in ran
      /\ \A s \in acks' : s \in acks \ {r} \/ s = q
      /\ \A a \in Agents : \A s \in AckOf(a) : s # r => s \in AckOf(a)'
  BY <1>0, MovedAck
<1>3. HandTypes' /\ OrderOK'
  BY <1>0, <1>2, HandFacts DEF HandTypes, OrderOK, QueueInv
<1>4. ASSUME NEW c \in DOMAIN sent, c \notin belated
      PROVE  OnceOK(c)'
  <2>1. OnceOK(c)
    BY <1>4 DEF QueueInv, ChainOK
  <2>2. Failing(c)' \subseteq Failing(c) /\ Repeats(c)' = Repeats(c)
    BY <1>0, <1>1, <1>2 DEF Failing, Repeats
  <2>3. \A s, t \in Failing(c)' : s = t
    BY <2>1, <2>2 DEF OnceOK
  <2>4. \A a \in Agents : c \in fetched'[a] =>
              /\ c \in fetched[a]
              /\ \A s \in AckOf(a) : s.of = c /\ s.at # "sent" /\ s.word = "failure" =>
                   \E t \in AckOf(a)' : t.of = c /\ t.at # "sent" /\ t.word = "failure"
    BY <1>0, <1>2
  <2> QED
    BY <1>0, <2>1, <2>2, <2>3, <2>4, OnceKept
<1>5. ChainOK'
  BY <1>0, <1>4 DEF QueueInv, ChainOK
<1> QED
  BY <1>2, <1>3, <1>5

-------------------------------------------------------------------------------
(* The agents *)

\* The commands an agent is handed are its pending ones, and no pending one that is
\* older than one of them is left out.
LEMMA OldestFirst ==
  ASSUME QueueTypes, NEW a \in Agents, NEW c \in Oldest(a), NEW d \in Pending(a), d < c
  PROVE  d \in Oldest(a)
<1> DEFINE Older(e) == {x \in Pending(a) : x < e}
<1>1. sent \in Seq(Command) /\ Len(sent) \in Nat /\ DOMAIN sent = 1 .. Len(sent)
  BY IdFacts DEF QueueTypes
<1>2. IsFiniteSet(DOMAIN sent)
  BY <1>1, FS_Interval
<1>3. IsFiniteSet(Older(c))
  BY <1>2, FS_Subset DEF Pending
<1>4. Older(d) \subseteq Older(c)
  BY <1>1 DEF Pending, Oldest
<1>5. IsFiniteSet(Older(d)) /\ Cardinality(Older(d)) <= Cardinality(Older(c))
  BY <1>3, <1>4, FS_Subset
<1>6. Cardinality(Older(d)) \in Nat /\ Cardinality(Older(c)) \in Nat
  BY <1>3, <1>5, FS_CardinalityType
<1>7. Cardinality(Older(c)) < BatchLimit
  BY DEF Oldest
<1>8. Cardinality(Older(d)) < BatchLimit
  BY <1>5, <1>6, <1>7, Bounds
<1> QED
  BY <1>8 DEF Oldest

\* A command that is queued by a user's request
LEMMA NewCommandKeeps ==
  ASSUME QueueInv, Room, NEW a \in Agents, NEW k \in Kinds, sent' = Queued(a, k, 0, 0),
         UNCHANGED handVars
  PROVE  HandOK' /\ ChainOK' /\ OrderOK'
<1>1. /\ DOMAIN sent' = DOMAIN sent \cup {NextId} /\ NextId \notin DOMAIN sent
      /\ sent'[NextId].of = 0 /\ sent'[NextId].status = "pending"
      /\ \A c \in DOMAIN sent : sent'[c] = sent[c]
  <2>1. QueueTypes
    BY DEF QueueInv
  <2>2. /\ DOMAIN sent' = DOMAIN sent \cup {NextId} /\ NextId \notin DOMAIN sent
        /\ sent'[NextId] = [agent |-> a, kind |-> k, retry |-> 0, of |-> 0, status |-> "pending"]
        /\ \A c \in DOMAIN sent : sent'[c] = sent[c]
    BY <2>1, NewCommand, Zenon
  <2> QED
    BY <2>2
<1>2. /\ fetched \in [Agents -> SUBSET DOMAIN sent] /\ ran \subseteq DOMAIN sent
      /\ DOMAIN sent = 1 .. Len(sent) /\ Len(sent) \in Nat /\ NextId # 0
      /\ UNCHANGED <<fetched, waiting, ran, acks, belated>>
  BY HandFacts DEF QueueInv, NextId, handVars
<1>3. \A r \in acks : r.of \in DOMAIN sent /\ sent'[r.of] = sent[r.of]
  BY <1>1, AckFacts
<1>4. \A b \in Agents : AckOf(b)' = AckOf(b)
  BY <1>2, <1>3 DEF AckOf
<1>5. HandOK'
  BY <1>1, <1>2, <1>4 DEF HandOK, QueueInv, InHand
<1>6. ChainOK'
  <2>1. \A d \in DOMAIN sent' : sent'[d].of \in {0} \cup ran'
    BY <1>1, <1>2 DEF QueueInv, ChainOK
  <2>2. ASSUME NEW c \in DOMAIN sent, c \notin belated
        PROVE  OnceOK(c)'
    <3>1. OnceOK(c)
      BY <2>2 DEF QueueInv, ChainOK
    <3>2. Repeats(c)' = Repeats(c)
      BY <1>1, <1>2 DEF Repeats
    <3>3. Failing(c)' = Failing(c) /\ \A s, t \in Failing(c)' : s = t
      BY <1>2, <3>1 DEF Failing, OnceOK
    <3> QED
      BY <1>1, <1>2, <1>4, <3>1, <3>2, <3>3, OnceKept
  <2>3. ASSUME NEW c \in DOMAIN sent', c \notin DOMAIN sent
        PROVE  OnceOK(c)'
    <3>1. c # 0 /\ c \notin ran /\ UNCHANGED <<ran, acks>>
      BY <1>1, <1>2, <2>3
    <3>2. Repeats(c)' = {}
      <4>1. \A d \in DOMAIN sent' : sent'[d].of # c
        BY <2>1, <3>1
      <4> QED
        BY <4>1 DEF Repeats
    <3>3. Failing(c)' = {}
      BY <1>3, <2>3, <3>1 DEF Failing
    <3> QED
      BY <3>2, <3>3, NotReported
  <2> QED
    BY <1>1, <1>2, <2>1, <2>2, <2>3 DEF ChainOK
<1>7. OrderOK'
  <2>1. \A c \in DOMAIN sent : 1 .. c - 1 \subseteq DOMAIN sent
    BY <1>2
  <2> QED
    BY <1>1, <1>2, <2>1 DEF OrderOK, QueueInv
<1> QED
  BY <1>5, <1>6, <1>7

\* Steps that touch no acknowledgement and no command but to delete it
LEMMA ChainKept ==
  ASSUME QueueInv, UNCHANGED <<ran, acks, belated>>, DOMAIN sent' = DOMAIN sent,
         \A c \in DOMAIN sent :
           /\ sent'[c].agent = sent[c].agent /\ sent'[c].of = sent[c].of
           /\ sent'[c].status = sent[c].status \/ sent'[c].status = "deleted",
         \A a \in Agents : \A c \in fetched'[a] : c \in fetched[a] \/ ~Reported(c)
  PROVE  ChainOK' /\ \A a \in Agents : AckOf(a)' = AckOf(a)
<1>1. \A a \in Agents : AckOf(a)' = AckOf(a)
  BY AckFacts DEF AckOf
<1>2. ASSUME NEW c \in DOMAIN sent, c \notin belated
      PROVE  OnceOK(c)'
  <2>1. OnceOK(c)
    BY <1>2 DEF QueueInv, ChainOK
  <2>2. Repeats(c)' = Repeats(c) /\ Failing(c)' = Failing(c)
    BY DEF Repeats, Failing
  <2>3. \A s, t \in Failing(c)' : s = t
    BY <2>1, <2>2 DEF OnceOK
  <2> QED
    BY <1>1, <2>1, <2>2, <2>3, OnceKept
<1>3. ChainOK'
  BY <1>2 DEF QueueInv, ChainOK
<1> QED
  BY <1>1, <1>3

\* An agent that is deleted
LEMMA DeleteKeeps ==
  ASSUME QueueInv, NEW a \in Agents, DeleteAgent(a)
  PROVE  /\ sent' \in Seq(Command) /\ Len(sent') <= MaxCommands /\ DOMAIN sent' = DOMAIN sent
         /\ HandOK' /\ ChainOK' /\ OrderOK'
<1>1. DOMAIN sent' = DOMAIN sent
  BY DEF DeleteAgent
<1>2. /\ \A c \in DOMAIN sent : c \in Nat /\ sent[c] \in Command
      /\ DOMAIN sent = 1 .. Len(sent) /\ Len(sent) \in Nat /\ Len(sent) <= MaxCommands
      /\ fetched \in [Agents -> SUBSET DOMAIN sent]
  BY HandFacts DEF QueueInv
<1>3. \A c \in DOMAIN sent :
        /\ sent'[c] \in Command
        /\ sent'[c].agent = sent[c].agent /\ sent'[c].of = sent[c].of
        /\ sent'[c].status = sent[c].status \/ sent'[c].status = "deleted"
  <2> TAKE c \in DOMAIN sent
  <2>1. sent'[c] = sent[c] \/ sent'[c] = [sent[c] EXCEPT !.status = "deleted"]
    BY DEF DeleteAgent
  <2> QED
    BY <1>2, <2>1 DEF Command
<1>4. sent' \in Seq(Command) /\ Len(sent') <= MaxCommands
  <2>1. sent' \in [1 .. Len(sent) -> Command]
    BY <1>1, <1>2, <1>3 DEF DeleteAgent
  <2>2. sent' \in Seq(Command)
    BY <1>2, <2>1
  <2>3. Len(sent') = Len(sent)
    BY <1>1, <1>2, <2>2
  <2> QED
    BY <1>2, <2>2, <2>3
<1>5. UNCHANGED <<fetched, waiting, ran, acks, belated>>
  BY DEF DeleteAgent, agentVars, ackVars
<1>6. ChainOK' /\ \A b \in Agents : AckOf(b)' = AckOf(b)
  BY <1>1, <1>3, <1>5, ChainKept
<1>7. HandOK'
  BY <1>1, <1>2, <1>3, <1>5, <1>6 DEF HandOK, QueueInv, InHand
<1>8. OrderOK'
  <2>1. \A c \in DOMAIN sent : 1 .. c - 1 \subseteq DOMAIN sent
    BY <1>2
  <2> QED
    BY <1>1, <1>2, <1>3, <1>5, <2>1 DEF OrderOK, QueueInv
<1> QED
  BY <1>1, <1>4, <1>6, <1>7, <1>8

\* A poll
LEMMA PollKeeps ==
  ASSUME QueueInv, NEW a \in Agents, Poll(a)
  PROVE  /\ fetched' \in [Agents -> SUBSET DOMAIN sent]
         /\ HandOK' /\ ChainOK' /\ OrderOK'
<1>1. /\ waiting[a] = "poll" /\ fetched' = [fetched EXCEPT ![a] = Oldest(a)]
      /\ UNCHANGED <<sent, waiting, ran, acks, belated>>
  BY DEF Poll, cloudVars, ackVars
<1>2. /\ fetched \in [Agents -> SUBSET DOMAIN sent]
      /\ \A c \in DOMAIN sent : c \in Nat /\ sent[c] \in Command
      /\ DOMAIN sent = 1 .. Len(sent) /\ Len(sent) \in Nat
  BY HandFacts DEF QueueInv
<1>3. \A c \in Oldest(a) : c \in DOMAIN sent /\ sent[c].agent = a /\ sent[c].status = "pending"
  BY DEF Oldest, Pending
<1>4. fetched' \in [Agents -> SUBSET DOMAIN sent]
  BY <1>1, <1>2, <1>3
<1>5. fetched'[a] = Oldest(a) /\ \A b \in Agents \ {a} : fetched'[b] = fetched[b]
  BY <1>1, <1>2
<1>6. \A b \in Agents : AckOf(b)' = AckOf(b)
  BY <1>1 DEF AckOf
<1>7. HandOK'
  BY <1>1, <1>3, <1>5, <1>6 DEF HandOK, QueueInv, InHand
<1>8. ChainOK'
  <2>1. ASSUME NEW c \in DOMAIN sent, c \notin belated
        PROVE  OnceOK(c)'
    <3>1. OnceOK(c)
      BY <2>1 DEF QueueInv, ChainOK
    <3>2. Repeats(c)' = Repeats(c) /\ Failing(c)' = Failing(c) /\ \A s, t \in Failing(c)' : s = t
      BY <1>1, <3>1 DEF Repeats, Failing, OnceOK
    <3>3. Reported(c) => c \notin Oldest(a)
      BY <1>3, <3>1 DEF OnceOK
    <3>4. Reported(c) => \A b \in Agents : c \in fetched'[b] => c \in fetched[b]
      BY <1>5, <3>3
    <3>5. \A b \in Agents : \A s \in AckOf(b) :
            s.of = c /\ s.at # "sent" /\ s.word = "failure" =>
              \E t \in AckOf(b)' : t.of = c /\ t.at # "sent" /\ t.word = "failure"
      BY <1>6
    <3>6. sent'[c].status = "pending" => sent[c].status = "pending"
      BY <1>1
    <3>7. Reported(c) => \A b \in Agents : c \in fetched'[b] =>
           /\ c \in fetched[b]
           /\ \A s \in AckOf(b) : s.of = c /\ s.at # "sent" /\ s.word = "failure" =>
                \E t \in AckOf(b)' : t.of = c /\ t.at # "sent" /\ t.word = "failure"
      BY <3>4, <3>5
    <3> QED
      BY <3>1, <3>2, <3>6, <3>7, OnceKept
  <2> QED
    BY <1>1, <2>1 DEF ChainOK, QueueInv
<1>9. OrderOK'
  <2>1. \A c \in Oldest(a) : \A d \in 1 .. c - 1 :
          sent[d].agent = a /\ sent[d].status # "deleted" => d \in ran \/ d \in Oldest(a)
    <3> TAKE c \in Oldest(a)
    <3> TAKE d \in 1 .. c - 1
    <3>1. d \in DOMAIN sent /\ d < c
      BY <1>2, <1>3
    <3>2. ASSUME sent[d].agent = a, sent[d].status = "pending"
          PROVE  d \in Oldest(a)
      <4>1. d \in Pending(a)
        BY <3>1, <3>2 DEF Pending
      <4> QED
        BY <3>1, <4>1, OldestFirst DEF QueueInv
    <3>3. sent[d].status \in {"success", "failure"} => d \in ran
      BY <3>1 DEF QueueInv, OrderOK
    <3>4. sent[d].status \in {"pending", "success", "failure", "deleted"}
      BY <1>2, <3>1, CommandFacts
    <3> QED
      BY <3>2, <3>3, <3>4
  <2> QED
    BY <1>1, <1>5, <2>1 DEF OrderOK, QueueInv
<1> QED
  BY <1>4, <1>7, <1>8, <1>9

\* The words of an acknowledgement are words, and the one of success is no failure's.
LEMMA WordFacts ==
  ASSUME QueueTypes
  PROVE  words.ok \in STRING /\ words.bad \in STRING /\ words.ok # "failure"
  BY CommandAssumption DEF QueueTypes, CommandTypeOK

\* The execution of a command, and its first acknowledgement
LEMMA ExecuteKeeps ==
  ASSUME QueueInv, NEW a \in Agents, NEW outcome, Execute(a, outcome)
  PROVE  /\ HandTypes' /\ HandOK' /\ ChainOK' /\ OrderOK'
         /\ \A c \in ran' \ ran : \A d \in 1 .. c - 1 :
              sent[d].agent = sent[c].agent /\ sent[d].status # "deleted" => d \in ran'
<1> DEFINE word == IF outcome = "raised" THEN words.bad ELSE words.ok
<1>1. PICK c \in fetched[a] : /\ InHand(a, c) /\ ran' = ran \cup {c}
                              /\ acks' = acks \cup {Ack(c, word)}
  BY DEF Execute
<1>2. /\ waiting[a] = "poll"
      /\ waiting' = [waiting EXCEPT ![a] = IF outcome = "raised" THEN "bad" ELSE "ok"]
      /\ UNCHANGED <<sent, fetched, belated>>
  BY DEF Execute, cloudVars
<1>3. /\ fetched \in [Agents -> SUBSET DOMAIN sent] /\ waiting \in [Agents -> {"poll", "ok", "bad"}]
      /\ ran \subseteq DOMAIN sent /\ \A d \in DOMAIN sent : d \in Nat /\ d \in Ids
      /\ acks \subseteq Acks /\ belated \subseteq DOMAIN sent
      /\ sent \in Seq(Command) /\ Len(sent) <= MaxCommands
  BY HandFacts, Bounds DEF QueueInv, Ids
<1>4. word \in STRING /\ (outcome # "raised" => word # "failure")
  BY WordFacts DEF QueueInv
<1> HIDE DEF word
<1> PICK q : q = Ack(c, word)
  OBVIOUS
<1>5. q \in Acks /\ q.of = c /\ q.word = word /\ q.at = "sent" /\ q.n = 0
  BY <1>1, <1>3, <1>4, Bounds DEF Ack, Acks, Ids
<1>6. sent[c].agent = a /\ AckOf(a) = {} /\ c \in DOMAIN sent
  BY <1>1, <1>2, <1>3 DEF QueueInv, HandOK
<1>7. /\ AckOf(a)' = {q}
      /\ \A b \in Agents \ {a} : AckOf(b)' = AckOf(b)
  BY <1>1, <1>2, <1>5, <1>6 DEF AckOf
<1>8. HandTypes'
  BY <1>1, <1>2, <1>3, <1>5, <1>6 DEF HandTypes
<1>9. HandOK'
  <2>1. /\ \A b \in Agents \ {a} : waiting'[b] = waiting[b]
        /\ waiting'[a] # "poll" /\ (waiting'[a] = "ok" => word # "failure")
    BY <1>2, <1>3, <1>4
  <2>2. InHand(a, c)'
    BY <1>1, <1>2 DEF InHand
  <2>3. \A b \in Agents : \A r \in AckOf(b)' :
          waiting'[b] # "poll" /\ InHand(b, r.of)' /\ (waiting'[b] = "ok" => r.word # "failure")
    BY <1>2, <1>5, <1>7, <2>1, <2>2 DEF QueueInv, HandOK, InHand
  <2>4. \A b \in Agents : \A r, s \in AckOf(b)' : r = s
    BY <1>7 DEF QueueInv, HandOK
  <2> QED
    BY <1>2, <2>3, <2>4 DEF QueueInv, HandOK
<1>10. ChainOK'
  <2>1. ASSUME NEW e \in DOMAIN sent, e \notin belated
        PROVE  OnceOK(e)'
    <3>1. OnceOK(e)
      BY <2>1 DEF QueueInv, ChainOK
    <3>2. Repeats(e)' = Repeats(e) /\ Failing(e)' = Failing(e) /\ \A s, t \in Failing(e)' : s = t
      BY <1>1, <1>2, <1>5, <3>1 DEF Repeats, Failing, OnceOK
    <3>3. \A b \in Agents : AckOf(b) \subseteq AckOf(b)'
      BY <1>6, <1>7
    <3>4. sent'[e].status = "pending" => sent[e].status = "pending"
      BY <1>2
    <3>5. \A b \in Agents : e \in fetched'[b] =>
           /\ e \in fetched[b]
           /\ \A s \in AckOf(b) : s.of = e /\ s.at # "sent" /\ s.word = "failure" =>
                \E t \in AckOf(b)' : t.of = e /\ t.at # "sent" /\ t.word = "failure"
      BY <1>2, <3>3
    <3> QED
      BY <3>1, <3>2, <3>4, <3>5, OnceKept
  <2> QED
    BY <1>1, <1>2, <2>1 DEF ChainOK, QueueInv
<1>11. OrderOK'
  BY <1>1, <1>2, <1>5 DEF OrderOK, QueueInv
<1>12. \A d \in 1 .. c - 1 : sent[d].agent = a /\ sent[d].status # "deleted" => d \in ran
  <2>1. \A d \in 1 .. c - 1 : d \notin fetched[a]
    BY <1>1, <1>3 DEF InHand
  <2> QED
    BY <1>1, <2>1 DEF QueueInv, OrderOK
<1> QED
  BY <1>1, <1>6, <1>8, <1>9, <1>10, <1>11, <1>12

\* What is left of a request that is not waited for any more
LEMMA LateAck ==
  ASSUME QueueInv, NEW a \in Agents, NEW r \in AckOf(a), NEW late \in LeftBehind(r),
         late = {} \/ losses < MaxLosses
  PROVE  /\ late \subseteq Acks /\ \A s, t \in late : s = t
         /\ \A s \in late : s.of = r.of /\ s.word = r.word /\ s.at = r.at /\ s.n # 0
<1>1. r \in Acks
  BY AckFacts DEF AckOf
<1>2. losses \in 0 .. MaxLosses
  BY DEF QueueInv, QueueTypes, CommandTypeOK
<1> PICK q : q = [r EXCEPT !.n = losses + 1]
  OBVIOUS
<1>3. late \subseteq {q}
  BY DEF LeftBehind
<1>4. /\ q.of = r.of /\ q.word = r.word /\ q.at = r.at /\ q.n = losses + 1
      /\ losses < MaxLosses => q \in Acks
  BY <1>1, <1>2, Bounds DEF Acks
<1>5. late = {} \/ (late = {q} /\ losses < MaxLosses)
  BY <1>3
<1>6. losses + 1 # 0
  BY <1>2, Bounds
<1>7. CASE late = {}
  BY <1>7
<1>8. CASE late = {q} /\ q \in Acks
  BY <1>4, <1>6, <1>8
<1> QED
  BY <1>4, <1>5, <1>7, <1>8

\* An agent that stops waiting for the answer to r, reports the failure of the command
\* it reported a success of, or deals with it no more
LEMMA LeftKeeps ==
  ASSUME QueueInv, NEW a \in Agents, NEW r \in AckOf(a), NEW late \in LeftBehind(r),
         late = {} \/ losses < MaxLosses,
         NEW more, acks' = (acks \ {r}) \cup late \cup more,
         UNCHANGED <<sent, ran, belated>>,
         \/ /\ more = {} /\ waiting' = [waiting EXCEPT ![a] = "poll"]
            /\ fetched' \in [Agents -> SUBSET DOMAIN sent] /\ fetched'[a] \in {{}, fetched[a] \ {r.of}}
            /\ \A b \in Agents \ {a} : fetched'[b] = fetched[b]
         \/ /\ more = {Ack(r.of, words.bad)} /\ waiting[a] = "ok"
            /\ waiting' = [waiting EXCEPT ![a] = "bad"] /\ fetched' = fetched
  PROVE  HandTypes' /\ HandOK' /\ ChainOK' /\ OrderOK'
<1>1. /\ fetched \in [Agents -> SUBSET DOMAIN sent] /\ waiting \in [Agents -> {"poll", "ok", "bad"}]
      /\ ran \subseteq DOMAIN sent /\ \A d \in DOMAIN sent : d \in Nat /\ d \in Ids
      /\ acks \subseteq Acks /\ belated \subseteq DOMAIN sent
      /\ sent \in Seq(Command) /\ Len(sent) <= MaxCommands
  BY HandFacts, Bounds DEF QueueInv, Ids
<1>2. /\ r \in acks /\ r \in Acks /\ r.of \in ran /\ r.of \in DOMAIN sent /\ sent[r.of].agent = a
      /\ r.n = 0 /\ \A s \in AckOf(a) : s = r
      /\ InHand(a, r.of) /\ (waiting[a] = "ok" => r.word # "failure")
  <2>1. r \in acks /\ r.n = 0 /\ sent[r.of].agent = a
    BY DEF AckOf
  <2> QED
    BY <2>1, AckFacts DEF QueueInv, HandOK
<1>3. /\ late \subseteq Acks /\ \A s, t \in late : s = t
      /\ \A s \in late : s.of = r.of /\ s.word = r.word /\ s.at = r.at /\ s.n # 0
  BY LateAck
<1> PICK q : q = Ack(r.of, words.bad)
  OBVIOUS
<1>4. q \in Acks /\ q.of = r.of /\ q.at = "sent" /\ q.n = 0
  BY <1>1, <1>2, WordFacts, Bounds DEF Ack, Acks, Ids, QueueInv
<1>5. more \subseteq {q} /\ (more # {} => waiting[a] = "ok" /\ waiting'[a] = "bad" /\ fetched' = fetched)
  BY <1>1
<1>6. /\ fetched' \in [Agents -> SUBSET DOMAIN sent] /\ waiting' \in [Agents -> {"poll", "ok", "bad"}]
      /\ fetched'[a] \in {{}, fetched[a] \ {r.of}, fetched[a]}
      /\ more = {} => r.of \notin fetched'[a]
      /\ \A b \in Agents \ {a} : fetched'[b] = fetched[b] /\ waiting'[b] = waiting[b]
  BY <1>1, <1>2
<1>7. acks' \subseteq Acks /\ \A s \in acks' : s.of \in ran
  BY <1>1, <1>2, <1>3, <1>4, <1>5, AckFacts
<1>8. /\ AckOf(a)' \subseteq more
      /\ \A b \in Agents \ {a} : AckOf(b)' = AckOf(b)
  BY <1>2, <1>3, <1>4, <1>5 DEF AckOf
<1>9. HandTypes'
  BY <1>1, <1>6, <1>7 DEF HandTypes
<1>10. HandOK'
  <2>1. \A b \in Agents : \A c \in fetched'[b] : sent'[c].agent = b
    BY <1>6 DEF QueueInv, HandOK
  <2>2. \A s \in AckOf(a)' :
          waiting'[a] # "poll" /\ InHand(a, s.of)' /\ (waiting'[a] = "ok" => s.word # "failure")
    BY <1>2, <1>4, <1>5, <1>8 DEF InHand
  <2>3. \A b \in Agents \ {a} : \A s \in AckOf(b)' :
          waiting'[b] # "poll" /\ InHand(b, s.of)' /\ (waiting'[b] = "ok" => s.word # "failure")
    BY <1>6, <1>8 DEF QueueInv, HandOK, InHand
  <2>4. \A b \in Agents : \A s, t \in AckOf(b)' : s = t
    BY <1>5, <1>8 DEF QueueInv, HandOK
  <2> QED
    BY <2>1, <2>2, <2>3, <2>4 DEF HandOK
<1>11. OrderOK'
  <2>1. \A b \in Agents : \A c \in fetched'[b] : \A d \in 1 .. c - 1 :
          sent[d].agent = b /\ sent[d].status # "deleted" => d \in ran \/ d \in fetched'[b]
    BY <1>2, <1>6 DEF QueueInv, OrderOK
  <2> QED
    BY <1>7, <2>1 DEF OrderOK, QueueInv
<1>12. ChainOK'
  <2>1. ASSUME NEW c \in DOMAIN sent, c \notin belated
        PROVE  OnceOK(c)'
    <3>1. OnceOK(c)
      BY <2>1 DEF QueueInv, ChainOK
    <3>2. Repeats(c)' = Repeats(c)
      BY DEF Repeats
    <3>3. \A s \in Failing(c)' : s \in Failing(c) \ {r} \/ (s \in late /\ r \in Failing(c))
      BY <1>2, <1>3, <1>4, <1>5 DEF Failing
    <3>4. \A s, t \in Failing(c) : s = t
      BY <3>1 DEF OnceOK
    <3>5. (Failing(c)' # {} => Failing(c) # {}) /\ \A s, t \in Failing(c)' : s = t
      BY <1>3, <3>3, <3>4
    <3>6. \A b \in Agents : c \in fetched'[b] =>
           /\ c \in fetched[b]
           /\ \A s \in AckOf(b) : s.of = c /\ s.at # "sent" /\ s.word = "failure" =>
                \E t \in AckOf(b)' : t.of = c /\ t.at # "sent" /\ t.word = "failure"
      <4>1. CASE more = {}
        BY <1>2, <1>6, <1>8, <4>1
      <4>2. CASE more # {}
        BY <1>2, <1>5, <1>6, <1>8, <4>2
      <4> QED
        BY <4>1, <4>2
    <3>7. sent'[c].status = "pending" => sent[c].status = "pending"
      OBVIOUS
    <3> QED
      BY <3>1, <3>2, <3>5, <3>6, <3>7, OnceKept
  <2> QED
    BY <2>1 DEF ChainOK, QueueInv
<1> QED
  BY <1>9, <1>10, <1>11, <1>12

-------------------------------------------------------------------------------
(* The types of a step *)

LEMMA TypeParts ==
  ASSUME QueueTypes
  PROVE  HandTypes /\ OtherTypes
  BY Bounds DEF QueueTypes, CommandTypeOK, HandTypes, OtherTypes

\* The two parts make the types of the next state.
LEMMA NextTypes ==
  ASSUME HandTypes', OtherTypes'
  PROVE  QueueTypes'
<1>1. sent' \in Seq(Command) /\ Len(sent') <= MaxCommands
  BY DEF HandTypes
<1>2. Len(sent') \in 0 .. MaxCommands
  BY <1>1, Bounds
<1>3. \A c \in DOMAIN sent' : sent'[c] \in Command
  BY <1>1
<1> QED
  BY <1>1, <1>2, <1>3 DEF QueueTypes, CommandTypeOK, HandTypes, OtherTypes, Command

\* Steps that change nothing the commands in hand are told from
LEMMA HandKept ==
  ASSUME QueueInv, UNCHANGED handVars, sent' = sent
  PROVE  HandOK' /\ ChainOK' /\ OrderOK'
<1>1. UNCHANGED <<fetched, waiting, ran, acks, belated>>
  BY DEF handVars
<1>2. ChainOK' /\ \A a \in Agents : AckOf(a)' = AckOf(a)
  BY <1>1, ChainKept
<1> QED
  BY <1>1, <1>2 DEF QueueInv, HandOK, InHand, OrderOK

LEMMA NothingAwaited ==
  ASSUME QueueInv, NEW a \in Agents, AckOf(a) = {}, UNCHANGED <<sent, ran, acks, belated>>,
         fetched' = [fetched EXCEPT ![a] = {}], waiting' = [waiting EXCEPT ![a] = "poll"]
  PROVE  HandTypes' /\ HandOK' /\ ChainOK' /\ OrderOK'
<1>1. /\ fetched \in [Agents -> SUBSET DOMAIN sent]
      /\ waiting \in [Agents -> {"poll", "ok", "bad"}] /\ HandTypes
  BY HandFacts, TypeParts DEF QueueInv
<1>2. /\ fetched' \in [Agents -> SUBSET DOMAIN sent] /\ waiting' \in [Agents -> {"poll", "ok", "bad"}]
      /\ fetched'[a] = {}
      /\ \A b \in Agents \ {a} : fetched'[b] = fetched[b] /\ waiting'[b] = waiting[b]
  BY <1>1
<1>3. ChainOK' /\ \A b \in Agents : AckOf(b)' = AckOf(b)
  <2>1. \A b \in Agents : \A c \in fetched'[b] : c \in fetched[b] \/ ~Reported(c)
    BY <1>2
  <2> QED
    BY <2>1, ChainKept
<1>4. HandOK' /\ OrderOK'
  BY <1>2, <1>3 DEF QueueInv, HandOK, InHand, OrderOK
<1> QED
  BY <1>1, <1>2, <1>3, <1>4 DEF HandTypes

\* What an agent's document says of a command
LEMMA RecordedTypes ==
  ASSUME OtherTypes, NEW f \in Fields, NEW c \in 0 .. MaxCommands
  PROVE  Recorded(f, c) \in [Agents -> [Fields -> 0 .. MaxCommands]]
  BY DEF Recorded, OtherTypes

\* A command that is queued keeps the types of the hand.
LEMMA NewCommandTypes ==
  ASSUME QueueInv, Room, NEW a \in Agents, NEW k \in Kinds, sent' = Queued(a, k, 0, 0),
         UNCHANGED handVars
  PROVE  HandTypes' /\ NextId \in Ids
<1>1. QueueTypes
  BY DEF QueueInv
<1>2. /\ sent' \in Seq(Command) /\ Len(sent') <= MaxCommands
      /\ DOMAIN sent' = DOMAIN sent \cup {NextId} /\ NextId \in Ids
  BY <1>1, NewCommand, Zenon
<1> QED
  BY <1>1, <1>2, TypeParts DEF HandTypes, handVars

\* A request of a user, and a push to the next agent of a fleet
LEMMA SendCommandStep ==
  ASSUME QueueInv, NEW a \in Agents, NEW k \in UserKinds, SendCommand(a, k)
  PROVE  QueueInv'
<1>1. /\ Room /\ k \in Kinds
      /\ UNCHANGED handVars
      /\ UNCHANGED <<words, agents, record, fleet, exiting, applied, image, losses, crashes>>
  BY CommandAssumption DEF SendCommand, handVars, agentVars, ackVars
<1>2. /\ sent' = Queued(a, k, 0, 0)
      /\ tails' = tails \/ tails' = tails \cup {NextId}
  <2>1. CASE k = "deploy_model"
    BY <2>1 DEF SendCommand, PushModel
  <2>2. CASE k = "update_agent"
    BY <2>2 DEF SendCommand, PushUpdate
  <2>3. CASE k = "push_config"
    BY <2>3 DEF SendCommand, PushConfig
  <2>4. CASE k \notin {"deploy_model", "update_agent", "push_config"}
    BY <2>4 DEF SendCommand
  <2> QED
    BY <2>1, <2>2, <2>3, <2>4
<1>3. HandOK' /\ ChainOK' /\ OrderOK'
  BY <1>1, <1>2, NewCommandKeeps, Zenon
<1>4. HandTypes' /\ NextId \in Ids
  BY <1>1, <1>2, NewCommandTypes, Zenon
<1>5. OtherTypes'
  <2>1. OtherTypes
    BY TypeParts DEF QueueInv
  <2>2. tails' \subseteq Ids
    BY <1>2, <1>4, <2>1 DEF OtherTypes
  <2> QED
    BY <1>1, <2>1, <2>2 DEF OtherTypes
<1> QED
  BY <1>3, <1>4, <1>5, NextTypes DEF QueueInv

LEMMA PushNextStep ==
  ASSUME QueueInv, NEW a \in Agents, PushNext(a)
  PROVE  QueueInv'
<1>1. /\ UNCHANGED handVars
      /\ UNCHANGED <<words, agents, record, tails, exiting, applied, image, losses, crashes>>
      /\ HandTypes /\ OtherTypes
  BY TypeParts DEF PushNext, handVars, agentVars, ackVars, QueueInv
<1>2. fleet' \in [kind : Kinds, left : SUBSET Agents] /\ fleet.kind \in Kinds
  BY <1>1 DEF PushNext, OtherTypes
<1>3. OtherTypes'
  BY <1>1, <1>2 DEF OtherTypes
<1>4. CASE a \in agents
  <2>1. Room /\ sent' = Queued(a, fleet.kind, 0, 0)
    BY <1>4 DEF PushNext
  <2>2. HandOK' /\ ChainOK' /\ OrderOK'
    BY <1>1, <1>2, <2>1, NewCommandKeeps, Zenon
  <2>3. HandTypes'
    BY <1>1, <1>2, <2>1, NewCommandTypes, Zenon
  <2> QED
    BY <1>3, <2>2, <2>3, NextTypes DEF QueueInv
<1>5. CASE a \notin agents
  <2>1. sent' = sent
    BY <1>5 DEF PushNext
  <2>2. HandTypes'
    BY <1>1, <2>1 DEF HandTypes, handVars
  <2>3. HandOK' /\ ChainOK' /\ OrderOK'
    BY <1>1, <2>1, HandKept
  <2> QED
    BY <1>3, <2>2, <2>3, NextTypes DEF QueueInv
<1> QED
  BY <1>4, <1>5

\* The steps of the cloud that queue nothing
LEMMA CloudStep ==
  ASSUME QueueInv,
         \/ \E k \in FleetKinds : PushToFleet(k)
         \/ \E c \in DOMAIN sent : WriteRecord(c)
  PROVE  QueueInv'
<1>1. HandTypes /\ OtherTypes
  BY TypeParts DEF QueueInv
<1>2. UNCHANGED handVars /\ sent' = sent
  BY DEF PushToFleet, WriteRecord, handVars, agentVars, ackVars
<1>3. OtherTypes'
  <2>1. CASE \E k \in FleetKinds : PushToFleet(k)
    BY <1>1, <2>1, CommandAssumption DEF PushToFleet, OtherTypes, agentVars, ackVars
  <2>2. ASSUME NEW c \in DOMAIN sent, WriteRecord(c)
        PROVE  OtherTypes'
    <3>1. c \in 0 .. MaxCommands
      BY <1>1, Bounds DEF HandTypes
    <3>2. record' \in [Agents -> [Fields -> 0 .. MaxCommands]]
      BY <1>1, <2>2, <3>1, RecordedTypes DEF WriteRecord, Fields
    <3> QED
      BY <1>1, <2>2, <3>2 DEF WriteRecord, OtherTypes, agentVars, ackVars
  <2> QED
    BY <2>1, <2>2
<1>4. HandTypes' /\ HandOK' /\ ChainOK' /\ OrderOK'
  BY <1>1, <1>2, HandKept DEF HandTypes, handVars
<1> QED
  BY <1>3, <1>4, NextTypes DEF QueueInv

\* The handler of an acknowledgement
LEMMA HandlerStep ==
  ASSUME QueueInv, NEW r \in acks, HandleAck(r)
  PROVE  QueueInv'
<1>1. HandTypes /\ OtherTypes
  BY TypeParts DEF QueueInv
<1>2. HandTypes' /\ HandOK' /\ ChainOK' /\ OrderOK'
  BY SettleKeeps, RequeueKeeps, RecordModelKeeps DEF HandleAck
<1>3. OtherTypes'
  <2>1. CASE Settle(r)
    BY <1>1, <2>1 DEF Settle, OtherTypes, agentVars
  <2>2. CASE Requeue(r)
    BY <1>1, <2>2 DEF Requeue, OtherTypes, agentVars
  <2>3. CASE RecordModel(r)
    <3>1. r.of \in 0 .. MaxCommands
      BY AckFacts, Bounds DEF Acks
    <3>2. record' \in [Agents -> [Fields -> 0 .. MaxCommands]]
      BY <1>1, <2>3, <3>1, RecordedTypes DEF RecordModel, Fields
    <3> QED
      BY <1>1, <2>3, <3>2 DEF RecordModel, OtherTypes, agentVars
  <2> QED
    BY <2>1, <2>2, <2>3 DEF HandleAck
<1> QED
  BY <1>2, <1>3, NextTypes DEF QueueInv

LEMMA DeleteStep ==
  ASSUME QueueInv, NEW a \in Agents, DeleteAgent(a)
  PROVE  QueueInv'
<1>1. HandTypes /\ OtherTypes
  BY TypeParts DEF QueueInv
<1>2. /\ sent' \in Seq(Command) /\ Len(sent') <= MaxCommands /\ DOMAIN sent' = DOMAIN sent
      /\ HandOK' /\ ChainOK' /\ OrderOK'
  BY DeleteKeeps
<1>3. HandTypes' /\ OtherTypes'
  BY <1>1, <1>2 DEF DeleteAgent, HandTypes, OtherTypes, agentVars, ackVars
<1> QED
  BY <1>2, <1>3, NextTypes DEF QueueInv

\* The steps of an agent
LEMMA ExecuteStep ==
  ASSUME QueueInv, NEW a \in Agents, NEW outcome, Execute(a, outcome)
  PROVE  QueueInv'
<1>1. HandTypes /\ OtherTypes
  BY TypeParts DEF QueueInv
<1>2. HandTypes' /\ HandOK' /\ ChainOK' /\ OrderOK'
  BY ExecuteKeeps
<1>4. PICK c \in fetched[a] :
        /\ applied' = IF outcome = "done" THEN [applied EXCEPT ![a][sent[c].kind] = c] ELSE applied
        /\ exiting' = [exiting EXCEPT ![a] =
             @ \/ (outcome = "done" /\ sent[c].kind \in {"update_agent", "restart_agent"})]
  BY DEF Execute
<1>5. c \in 0 .. MaxCommands /\ sent[c].kind \in Kinds
  BY <1>1, Bounds, CommandFacts DEF HandTypes
<1>6. applied' \in [Agents -> [Kinds -> 0 .. MaxCommands]]
  BY <1>1, <1>4, <1>5 DEF OtherTypes
<1>7. exiting' \in [Agents -> BOOLEAN]
  BY <1>1, <1>4 DEF OtherTypes
<1>8. OtherTypes'
  BY <1>1, <1>6, <1>7 DEF Execute, OtherTypes, cloudVars
<1> QED
  BY <1>2, <1>8, NextTypes DEF QueueInv

LEMMA PollStep ==
  ASSUME QueueInv, NEW a \in Agents, Poll(a)
  PROVE  QueueInv'
<1>1. HandTypes /\ OtherTypes
  BY TypeParts DEF QueueInv
<1>2. fetched' \in [Agents -> SUBSET DOMAIN sent] /\ HandOK' /\ ChainOK' /\ OrderOK'
  BY PollKeeps
<1>3. HandTypes' /\ OtherTypes'
  BY <1>1, <1>2 DEF Poll, HandTypes, OtherTypes, cloudVars, ackVars
<1> QED
  BY <1>2, <1>3, NextTypes DEF QueueInv

LEMMA RestartStep ==
  ASSUME QueueInv, NEW a \in Agents, Crash(a) \/ \E newImage \in BOOLEAN : Exit(a, newImage)
  PROVE  QueueInv'
<1>1. HandTypes /\ OtherTypes
  BY TypeParts DEF QueueInv
<1>2. PICK changed : Restarted(a, changed)
  BY DEF Crash, Exit
<1>3. /\ fetched' = [fetched EXCEPT ![a] = {}] /\ waiting' = [waiting EXCEPT ![a] = "poll"]
      /\ UNCHANGED <<sent, ran, belated>>
      /\ fetched \in [Agents -> SUBSET DOMAIN sent] /\ losses \in 0 .. MaxLosses
  BY <1>1, <1>2 DEF Restarted, cloudVars, HandTypes, OtherTypes
<1>4. HandTypes' /\ HandOK' /\ ChainOK' /\ OrderOK' /\ losses' \in 0 .. MaxLosses
  <2>1. CASE AckOf(a) = {} /\ UNCHANGED <<acks, losses>>
    BY <1>3, <2>1, NothingAwaited
  <2>2. ASSUME NEW r \in AckOf(a), NEW late \in LeftBehind(r), acks' = (acks \ {r}) \cup late,
               IF late = {} THEN UNCHANGED losses ELSE losses < MaxLosses /\ losses' = losses + 1
        PROVE  HandTypes' /\ HandOK' /\ ChainOK' /\ OrderOK' /\ losses' \in 0 .. MaxLosses
    <3>1. late = {} \/ losses < MaxLosses
      BY <2>2
    <3>2. losses' \in 0 .. MaxLosses
      BY <1>3, <2>2, Bounds
    <3>3. /\ fetched' \in [Agents -> SUBSET DOMAIN sent] /\ fetched'[a] = {}
          /\ \A b \in Agents \ {a} : fetched'[b] = fetched[b]
      BY <1>3
    <3> PICK more : more = {}
      OBVIOUS
    <3>4. acks' = (acks \ {r}) \cup late \cup more
      BY <2>2
    <3>5. HandTypes' /\ HandOK' /\ ChainOK' /\ OrderOK'
      BY <1>3, <3>1, <3>3, <3>4, LeftKeeps
    <3> QED
      BY <3>2, <3>5
  <2> QED
    BY <1>2, <2>1, <2>2 DEF Restarted
<1>5. crashes' \in 0 .. MaxCrashes
  <2>1. crashes' = crashes \/ (crashes < MaxCrashes /\ crashes' = crashes + 1)
    <3>1. CASE Crash(a)
      BY <3>1 DEF Crash
    <3>2. CASE \E newImage \in BOOLEAN : Exit(a, newImage)
      BY <3>2 DEF Exit
    <3> QED
      BY <3>1, <3>2
  <2> QED
    BY <1>1, <2>1, Bounds DEF OtherTypes
<1>6. OtherTypes'
  <2>1. exiting' \in [Agents -> BOOLEAN]
    BY <1>1, <1>2 DEF Restarted, OtherTypes
  <2>2. /\ applied' \in [Agents -> [Kinds -> 0 .. MaxCommands]]
        /\ image' \in [Agents -> 0 .. MaxCommands]
    BY <1>1, <1>2, Bounds DEF Restarted, OtherTypes, Kinds
  <2> QED
    BY <1>1, <1>2, <1>4, <1>5, <2>1, <2>2 DEF Restarted, OtherTypes, cloudVars
<1> QED
  BY <1>4, <1>6, NextTypes DEF QueueInv

\* An acknowledgement that is answered, and one that is not in time
LEMMA AnsweredStep ==
  ASSUME QueueInv, NEW a \in Agents, AckAnswered(a)
  PROVE  QueueInv'
<1>1. HandTypes /\ OtherTypes
  BY TypeParts DEF QueueInv
<1>2. /\ UNCHANGED <<sent, ran, belated>>
      /\ fetched \in [Agents -> SUBSET DOMAIN sent]
  BY <1>1 DEF AckAnswered, HandTypes, cloudVars
<1>3. PICK r \in AckOf(a) : r.at = "answered" /\ acks' = acks \ {r} /\ NextCommand(a, r.of)
  BY DEF AckAnswered
<1> PICK late : late = {}
  OBVIOUS
<1> PICK more : more = {}
  OBVIOUS
<1>4. /\ late \in LeftBehind(r) /\ acks' = (acks \ {r}) \cup late \cup more
      /\ waiting' = [waiting EXCEPT ![a] = "poll"]
      /\ fetched' \in [Agents -> SUBSET DOMAIN sent] /\ fetched'[a] = fetched[a] \ {r.of}
      /\ \A b \in Agents \ {a} : fetched'[b] = fetched[b]
  BY <1>2, <1>3 DEF LeftBehind, NextCommand
<1>5. HandTypes' /\ HandOK' /\ ChainOK' /\ OrderOK'
  BY <1>2, <1>4, LeftKeeps
<1>6. OtherTypes'
  BY <1>1 DEF AckAnswered, OtherTypes, cloudVars
<1> QED
  BY <1>5, <1>6, NextTypes DEF QueueInv

LEMMA LostStep ==
  ASSUME QueueInv, NEW a \in Agents, AckLost(a)
  PROVE  QueueInv'
<1>1. HandTypes /\ OtherTypes
  BY TypeParts DEF QueueInv
<1>2. /\ UNCHANGED <<sent, ran, belated>> /\ losses < MaxLosses /\ losses' = losses + 1
      /\ fetched \in [Agents -> SUBSET DOMAIN sent]
  BY <1>1 DEF AckLost, HandTypes, cloudVars
<1>3. PICK r \in AckOf(a) : \E late \in LeftBehind(r) :
         IF waiting[a] = "ok"
         THEN /\ acks' = (acks \ {r}) \cup late \cup {Ack(r.of, words.bad)}
              /\ waiting' = [waiting EXCEPT ![a] = "bad"]
              /\ UNCHANGED fetched
         ELSE acks' = (acks \ {r}) \cup late /\ NextCommand(a, r.of)
  BY DEF AckLost
<1>4. PICK late \in LeftBehind(r) :
         IF waiting[a] = "ok"
         THEN /\ acks' = (acks \ {r}) \cup late \cup {Ack(r.of, words.bad)}
              /\ waiting' = [waiting EXCEPT ![a] = "bad"]
              /\ UNCHANGED fetched
         ELSE acks' = (acks \ {r}) \cup late /\ NextCommand(a, r.of)
  BY <1>3
<1>5. HandTypes' /\ HandOK' /\ ChainOK' /\ OrderOK'
  <2>1. CASE waiting[a] = "ok"
    <3> PICK more : more = {Ack(r.of, words.bad)}
      OBVIOUS
    <3>1. /\ acks' = (acks \ {r}) \cup late \cup more
          /\ waiting' = [waiting EXCEPT ![a] = "bad"] /\ fetched' = fetched
      BY <1>4, <2>1
    <3> QED
      BY <1>2, <2>1, <3>1, LeftKeeps
  <2>2. CASE waiting[a] # "ok"
    <3> PICK more : more = {}
      OBVIOUS
    <3>1. /\ acks' = (acks \ {r}) \cup late \cup more
          /\ waiting' = [waiting EXCEPT ![a] = "poll"]
          /\ fetched' \in [Agents -> SUBSET DOMAIN sent] /\ fetched'[a] = fetched[a] \ {r.of}
          /\ \A b \in Agents \ {a} : fetched'[b] = fetched[b]
      BY <1>2, <1>4, <2>2 DEF NextCommand
    <3> QED
      BY <1>2, <3>1, LeftKeeps
  <2> QED
    BY <2>1, <2>2
<1>6. OtherTypes'
  BY <1>1, <1>2, Bounds DEF AckLost, OtherTypes, cloudVars
<1> QED
  BY <1>5, <1>6, NextTypes DEF QueueInv

-------------------------------------------------------------------------------
(* Theorems *)

LEMMA InitTypes ==
  ASSUME CommandInit
  PROVE  QueueInv
<1>1. HandTypes /\ OtherTypes
  BY Bounds DEF CommandInit, HandTypes, OtherTypes, Kinds, Fields
<1>2. sent = <<>> /\ DOMAIN sent = {} /\ Len(sent) \in 0 .. MaxCommands
  BY Bounds DEF CommandInit
<1>3. QueueTypes
  BY <1>1, <1>2 DEF QueueTypes, CommandTypeOK, HandTypes, OtherTypes
<1>4. HandOK /\ ChainOK /\ OrderOK
  BY <1>2 DEF CommandInit, HandOK, ChainOK, OrderOK, AckOf
<1> QED
  BY <1>3, <1>4 DEF QueueInv

LEMMA CommandStep ==
  ASSUME QueueInv, CommandNext
  PROVE  QueueInv'
<1>1. CASE \E a \in Agents, k \in UserKinds : SendCommand(a, k)
  BY <1>1, SendCommandStep
<1>2. CASE \E a \in Agents : PushNext(a)
  BY <1>2, PushNextStep
<1>3. CASE \E a \in Agents : DeleteAgent(a)
  BY <1>3, DeleteStep
<1>4. CASE \E a \in Agents : Poll(a)
  BY <1>4, PollStep
<1>5. CASE \E a \in Agents : \E outcome \in {"done", "refused", "raised"} : Execute(a, outcome)
  BY <1>5, ExecuteStep
<1>6. CASE \E a \in Agents : AckAnswered(a) \/ AckLost(a)
  BY <1>6, AnsweredStep, LostStep
<1>7. CASE \E a \in Agents : Crash(a) \/ \E newImage \in BOOLEAN : Exit(a, newImage)
  BY <1>7, RestartStep, Zenon
<1>8. CASE \/ \E k \in FleetKinds : PushToFleet(k)
           \/ \E c \in DOMAIN sent : WriteRecord(c)
  BY <1>8, CloudStep, Zenon
<1>9. CASE \E r \in acks : HandleAck(r)
  BY <1>9, HandlerStep
<1> QED
  BY <1>1, <1>2, <1>3, <1>4, <1>5, <1>6, <1>7, <1>8, <1>9 DEF CommandNext

LEMMA CommandStutter ==
  ASSUME QueueInv, UNCHANGED commandVars
  PROVE  QueueInv'
<1>1. HandTypes' /\ OtherTypes'
  BY TypeParts DEF commandVars, cloudVars, agentVars, ackVars, QueueInv, HandTypes, OtherTypes
<1>2. HandOK' /\ ChainOK' /\ OrderOK'
  BY HandKept DEF commandVars, cloudVars, agentVars, ackVars, handVars
<1> QED
  BY <1>1, <1>2, NextTypes DEF QueueInv

LEMMA QueueInvariant == CommandSpec => []QueueInv
<1>1. CommandInit => QueueInv
  BY InitTypes
<1>2. QueueInv /\ [CommandNext]_commandVars => QueueInv'
  BY CommandStep, CommandStutter
<1> QED
  BY <1>1, <1>2, PTL DEF CommandSpec

\* The variables of the command queue keep their types: in particular an agent only
\* ever holds commands that are in the collection, and commands that ran were queued.
THEOREM CommandTypeCorrect == CommandSpec => []CommandTypeOK
<1>1. QueueInv => CommandTypeOK
  BY DEF QueueInv, QueueTypes
<1> QED
  BY <1>1, QueueInvariant, PTL

\* The invariant of the queue has it: the repetitions of a command without a belated report
\* are one at most.
LEMMA RepeatedOnce == QueueInv => RetriedOnce
<1> SUFFICES ASSUME QueueInv, NEW c \in DOMAIN sent, NEW d \in DOMAIN sent,
                    sent[c].of = sent[d].of, sent[c].of # 0, sent[c].of \notin belated
             PROVE  c = d
  BY DEF RetriedOnce
<1> PICK p : p = sent[c].of
  OBVIOUS
<1>1. p \in DOMAIN sent \ belated
  BY HandFacts DEF QueueInv, ChainOK
<1>2. c \in Repeats(p) /\ d \in Repeats(p)
  BY DEF Repeats
<1> QED
  BY <1>1, <1>2 DEF QueueInv, ChainOK, OnceOK

\* Whatever is lost, repeated or late, and whenever agents stop: a command of whose failure
\* no report was handled after its agent had stopped waiting for it is queued again at
\* most once (ack_command of edge_service.py).
THEOREM RetriedOnceCorrect == CommandSpec => []RetriedOnce
  BY RepeatedOnce, QueueInvariant, PTL

\* Only an execution makes a command run, and it is the oldest in the agent's hand.
LEMMA FirstTimeInOrder ==
  ASSUME QueueInv, CommandNext
  PROVE  \A c \in ran' \ ran : \A d \in 1 .. c - 1 :
           sent[d].agent = sent[c].agent /\ sent[d].status # "deleted" => d \in ran'
<1>1. CASE \E a \in Agents : \E outcome \in {"done", "refused", "raised"} : Execute(a, outcome)
  BY <1>1, ExecuteKeeps
<1>2. CASE ran' = ran
  BY <1>2
<1>3. \/ \E a \in Agents : \E outcome \in {"done", "refused", "raised"} : Execute(a, outcome)
      \/ ran' = ran
  BY DEF CommandNext, SendCommand, PushNext, DeleteAgent, Poll, AckAnswered, AckLost, Exit, Crash,
         Restarted, PushToFleet, WriteRecord, HandleAck, Settle, Requeue, RecordModel, agentVars
<1> QED
  BY <1>1, <1>2, <1>3

\* No configuration or model is applied on an agent before one that was queued for
\* it earlier: the first executions of its commands (poll_loop, _execute) happen in
\* the order of sent_at, whatever is lost, restarted or executed again.
THEOREM RunsInOrderCorrect == CommandSpec => RunsInOrder
<1> DEFINE InOrder == \A c \in ran' \ ran : \A d \in 1 .. c - 1 :
              sent[d].agent = sent[c].agent /\ sent[d].status # "deleted" => d \in ran'
<1>1. QueueInv /\ [CommandNext]_commandVars => [InOrder]_commandVars
  BY FirstTimeInOrder
<1>2. RunsInOrder <=> [][InOrder]_commandVars
  BY DEF RunsInOrder
<1> HIDE DEF InOrder
<1> QED
  BY <1>1, <1>2, QueueInvariant, PTL DEF CommandSpec

-------------------------------------------------------------------------------
(* The rollout *)

Outcome == {"success", "failed", "timeout", "error", "version_mismatch"}

\* One result for each agent dealt with, and an agent is left while it goes on
RolloutTypes ==
  /\ step \in {"start", "ack", "version", "over"}
  /\ results \in Seq(Outcome) /\ Len(results) <= Len(Order)
  /\ step \in {"ack", "version"} => Order # <<>>
  /\ step # "over" /\ Order # <<>> => Len(results) < Len(Order)
  /\ updates \subseteq DOMAIN sent
  /\ reported \in [Agents -> 0 .. MaxCommands]

\* Only the command sent last can be pending, and only while it is awaited or after
\* the rollout gave up on it
LastPending ==
  \A c \in updates : sent[c].status = "pending" => step \in {"ack", "over"} /\ c = Update

\* One command for each result, and one for the agent that is waited for
OnePerResult ==
  /\ IsFiniteSet(updates)
  /\ Cardinality(updates) <= Len(results) + (IF step \in {"ack", "version"} THEN 1 ELSE 0)

RolloutInv == QueueInv /\ RolloutTypes /\ LastPending /\ OnePerResult

\* A command is pending only once: a retry of it is another command.
LEMMA PendingOnce ==
  ASSUME QueueInv, CommandNext, NEW c \in DOMAIN sent
  PROVE  /\ c \in DOMAIN sent'
         /\ sent'[c].status = "pending" => sent[c].status = "pending"
<1>0. QueueTypes /\ sent[c] \in Command
  BY HandFacts DEF QueueInv
<1>1. CASE sent' = sent
  BY <1>1
<1>2. ASSUME NEW a \in Agents, NEW k \in Kinds, Room, sent' = Queued(a, k, 0, 0)
      PROVE  c \in DOMAIN sent' /\ sent'[c] = sent[c]
  <2>1. DOMAIN sent' = DOMAIN sent \cup {NextId} /\ \A d \in DOMAIN sent : sent'[d] = sent[d]
    BY <1>0, <1>2, NewCommand, Zenon
  <2> QED
    BY <2>1
<1>3. CASE \E r \in acks : HandleAck(r)
  <2>1. PICK r \in acks : HandleAck(r)
    BY <1>3
  <2>2. CASE Settle(r)
    <3>1. r.of \in DOMAIN sent
      BY AckFacts
    <3> QED
      BY <1>0, <2>2, <3>1, SettleEffect
  <2>3. CASE Requeue(r)
    <3>1. sent' = sent \/ \E e : sent' = Append(sent, e)
      BY <2>3 DEF Requeue, Queued
    <3>2. sent \in Seq(Command) /\ c \in 1 .. Len(sent)
      BY <1>0, HandFacts
    <3> QED
      BY <3>1, <3>2
  <2>4. CASE RecordModel(r)
    BY <2>4 DEF RecordModel
  <2> QED
    BY <2>1, <2>2, <2>3, <2>4 DEF HandleAck
<1>4. CASE \E a \in Agents : DeleteAgent(a)
  <2>1. PICK a \in Agents : DeleteAgent(a)
    BY <1>4
  <2>2. c \in DOMAIN sent' /\ (sent'[c] = sent[c] \/ sent'[c] = [sent[c] EXCEPT !.status = "deleted"])
    BY <2>1 DEF DeleteAgent
  <2> QED
    BY <1>0, <2>2 DEF Command
<1>5. CASE \E a \in Agents : \E k \in UserKinds : SendCommand(a, k)
  <2>1. PICK a \in Agents, k \in UserKinds : SendCommand(a, k)
    BY <1>5
  <2>2. k \in Kinds /\ Room
    BY <2>1, CommandAssumption DEF SendCommand
  <2>3. sent' = Queued(a, k, 0, 0)
    <3>1. CASE k = "deploy_model"
      BY <2>1, <3>1 DEF SendCommand, PushModel
    <3>2. CASE k = "update_agent"
      BY <2>1, <3>2 DEF SendCommand, PushUpdate
    <3>3. CASE k = "push_config"
      BY <2>1, <3>3 DEF SendCommand, PushConfig
    <3>4. CASE k \notin {"deploy_model", "update_agent", "push_config"}
      BY <2>1, <3>4 DEF SendCommand
    <3> QED
      BY <3>1, <3>2, <3>3, <3>4
  <2> QED
    BY <1>2, <2>2, <2>3
<1>6. CASE \E a \in Agents : PushNext(a)
  <2>1. PICK a \in Agents : PushNext(a)
    BY <1>6
  <2>2. fleet.kind \in Kinds
    BY TypeParts DEF QueueInv, OtherTypes
  <2>3. sent' = sent \/ (Room /\ sent' = Queued(a, fleet.kind, 0, 0))
    BY <2>1 DEF PushNext
  <2> QED
    BY <1>1, <1>2, <2>2, <2>3
<1>8. \/ sent' = sent
      \/ \E a \in Agents : DeleteAgent(a)
      \/ \E a \in Agents : \E k \in UserKinds : SendCommand(a, k)
      \/ \E a \in Agents : PushNext(a)
      \/ \E r \in acks : HandleAck(r)
  BY DEF CommandNext, Poll, Execute, AckAnswered, AckLost, Exit, Crash, Restarted, PushToFleet,
         WriteRecord, cloudVars
<1> QED
  BY <1>1, <1>3, <1>4, <1>5, <1>6, <1>8

\* The agent whose turn it is
LEMMA CurrentAgent ==
  ASSUME RolloutTypes, Order # <<>>, step # "over"
  PROVE  Current \in Agents
<1>1. Order \in Seq(Agents) /\ Len(Order) \in Nat
  BY RolloutAssumption
<1>2. Len(results) \in Nat /\ Len(results) < Len(Order)
  BY DEF RolloutTypes
<1>3. Len(results) + 1 \in 1 .. Len(Order)
  BY <1>1, <1>2
<1> QED
  BY <1>1, <1>3 DEF Current

\* A result ends the turn of an agent.
LEMMA ResultEnds ==
  ASSUME RolloutTypes, OnePerResult, Order # <<>>, step # "over", NEW r \in Outcome, Result(r),
         UNCHANGED <<updates, reported>>, DOMAIN sent \subseteq DOMAIN sent'
  PROVE  /\ RolloutTypes' /\ OnePerResult' /\ step' \in {"start", "over"}
         /\ (r \in {"failed", "timeout", "error"} => step' = "over")
<1>1. /\ results \in Seq(Outcome) /\ Len(results) \in Nat /\ Len(Order) \in Nat
      /\ Len(results) < Len(Order)
  BY RolloutAssumption DEF RolloutTypes
<1>2. results' \in Seq(Outcome) /\ Len(results') = Len(results) + 1
  BY <1>1 DEF Result
<1>3. /\ step' \in {"start", "over"} /\ (r \in {"failed", "timeout", "error"} => step' = "over")
      /\ (step' = "start" => Len(results) + 1 # Len(Order))
  BY DEF Result
<1>4. RolloutTypes'
  BY <1>1, <1>2, <1>3 DEF RolloutTypes
<1>5. Cardinality(updates) \in Nat
  BY FS_CardinalityType DEF OnePerResult
<1>6. OnePerResult'
  BY <1>1, <1>2, <1>3, <1>5 DEF OnePerResult
<1> QED
  BY <1>3, <1>4, <1>6

\* The update that was sent last
LEMMA NewUpdate ==
  ASSUME QueueTypes, updates \subseteq DOMAIN sent, updates' = updates \cup {NextId}
  PROVE  Update' = NextId
<1>1. NextId \in Nat /\ \A c \in updates : c \in Nat /\ c < NextId
  BY HandFacts DEF NextId
<1>2. \A c : (c \in updates' /\ \A d \in updates' : d <= c) <=> c = NextId
  BY <1>1
<1> QED
  BY <1>2 DEF Update

LEMMA SendUpdateStep ==
  ASSUME RolloutInv, SendUpdate
  PROVE  RolloutInv'
<1>1. /\ step = "start" /\ Order # <<>> /\ Current \in Agents
      /\ UNCHANGED <<words, agents, record, tails, fleet, exiting, applied, image, losses, crashes>>
      /\ UNCHANGED handVars /\ reported' = reported
  BY CurrentAgent DEF SendUpdate, RolloutInv, agentVars, ackVars, handVars
<1>2. CASE Current \in agents
  <2>1. /\ Room /\ sent' = Queued(Current, "update_agent", 0, 0)
        /\ updates' = updates \cup {NextId} /\ step' = "ack" /\ results' = results
    BY <1>2 DEF SendUpdate
  <2>2. "update_agent" \in Kinds /\ QueueInv /\ QueueTypes
    BY DEF Kinds, RolloutInv, QueueInv
  <2>3. QueueInv'
    <3>1. HandOK' /\ ChainOK' /\ OrderOK'
      BY <1>1, <2>1, <2>2, NewCommandKeeps, Zenon
    <3>2. HandTypes'
      BY <1>1, <2>1, <2>2, NewCommandTypes, Zenon
    <3>3. OtherTypes'
      BY <1>1, <2>2, TypeParts DEF OtherTypes
    <3> QED
      BY <3>1, <3>2, <3>3, NextTypes DEF QueueInv
  <2>4. /\ DOMAIN sent' = DOMAIN sent \cup {NextId} /\ NextId \notin DOMAIN sent
        /\ \A c \in DOMAIN sent : sent'[c] = sent[c]
    BY <1>1, <2>1, <2>2, NewCommand, Zenon
  <2>5. RolloutTypes'
    BY <1>1, <2>1, <2>4 DEF RolloutInv, RolloutTypes
  <2>6. LastPending'
    <3>1. \A c \in updates : sent'[c].status # "pending"
      BY <1>1, <2>4 DEF RolloutInv, RolloutTypes, LastPending
    <3>2. Update' = NextId
      BY <2>1, <2>2, NewUpdate DEF RolloutInv, RolloutTypes
    <3> QED
      BY <2>1, <3>1, <3>2 DEF LastPending
  <2>7. OnePerResult'
    <3>1. IsFiniteSet(updates) /\ NextId \notin updates /\ Cardinality(updates) <= Len(results)
      BY <1>1, <2>4 DEF RolloutInv, RolloutTypes, OnePerResult
    <3>2. IsFiniteSet(updates') /\ Cardinality(updates') = Cardinality(updates) + 1
      BY <2>1, <3>1, FS_AddElement
    <3>3. Cardinality(updates) \in Nat /\ Len(results) \in Nat
      BY <3>1, FS_CardinalityType DEF RolloutInv, RolloutTypes
    <3> QED
      BY <2>1, <3>1, <3>2, <3>3 DEF OnePerResult
  <2> QED
    BY <2>3, <2>5, <2>6, <2>7 DEF RolloutInv
<1>3. CASE Current \notin agents
  <2>1. Result("error") /\ UNCHANGED <<sent, updates>>
    BY <1>3 DEF SendUpdate
  <2>2. "error" \in Outcome /\ step # "over" /\ DOMAIN sent \subseteq DOMAIN sent'
    BY <1>1, <2>1 DEF Outcome
  <2>3. RolloutTypes' /\ OnePerResult'
    BY <1>1, <2>1, <2>2, ResultEnds DEF RolloutInv
  <2>4. QueueInv'
    <3>1. UNCHANGED commandVars
      BY <1>1, <2>1 DEF commandVars, cloudVars, agentVars, ackVars, handVars
    <3> QED
      BY <3>1, CommandStutter DEF RolloutInv
  <2>5. LastPending'
    BY <1>1, <2>1 DEF RolloutInv, LastPending
  <2> QED
    BY <2>3, <2>4, <2>5 DEF RolloutInv
<1> QED
  BY <1>2, <1>3

LEMMA LookStep ==
  ASSUME RolloutInv, NEW last \in BOOLEAN, Look(last)
  PROVE  RolloutInv'
<1>1. /\ step \in {"ack", "version"} /\ Order # <<>> /\ UNCHANGED <<updates, reported>>
      /\ UNCHANGED commandVars /\ sent' = sent
  BY DEF Look, RolloutInv, RolloutTypes, commandVars, cloudVars
<1>2. QueueInv'
  BY <1>1, CommandStutter DEF RolloutInv
<1>3. Update' = Update
  BY <1>1 DEF Update
<1>4. \/ step = "ack" /\ sent[Update].status = "completed" /\ step' = "version" /\ results' = results
      \/ step = "ack" /\ \E r \in {"failed", "timeout"} : Result(r)
      \/ step = "version" /\ \E r \in {"success", "version_mismatch"} : Result(r)
  BY <1>1 DEF Look, AwaitAck, AwaitVersion
<1>5. CASE /\ step = "ack" /\ sent[Update].status = "completed"
           /\ step' = "version" /\ results' = results
  <2>1. LastPending'
    BY <1>1, <1>5 DEF RolloutInv, LastPending
  <2>2. RolloutTypes' /\ OnePerResult'
    BY <1>1, <1>5 DEF RolloutInv, RolloutTypes, OnePerResult
  <2> QED
    BY <1>2, <2>1, <2>2 DEF RolloutInv
<1>6. ASSUME step = "ack", NEW r \in {"failed", "timeout"}, Result(r)
      PROVE  RolloutInv'
  <2>1. r \in Outcome /\ step # "over" /\ DOMAIN sent \subseteq DOMAIN sent'
    BY <1>1, <1>6 DEF Outcome
  <2>2. RolloutTypes' /\ OnePerResult' /\ step' = "over"
    BY <1>1, <1>6, <2>1, ResultEnds DEF RolloutInv
  <2>3. LastPending'
    BY <1>1, <1>3, <2>2 DEF RolloutInv, LastPending
  <2> QED
    BY <1>2, <2>2, <2>3 DEF RolloutInv
<1>7. ASSUME step = "version", NEW r \in {"success", "version_mismatch"}, Result(r)
      PROVE  RolloutInv'
  <2>1. r \in Outcome /\ step # "over" /\ DOMAIN sent \subseteq DOMAIN sent'
    BY <1>1, <1>7 DEF Outcome
  <2>2. RolloutTypes' /\ OnePerResult'
    BY <1>1, <1>7, <2>1, ResultEnds DEF RolloutInv
  <2>3. LastPending'
    BY <1>1, <1>7 DEF RolloutInv, LastPending
  <2> QED
    BY <1>2, <2>2, <2>3 DEF RolloutInv
<1> QED
  BY <1>4, <1>5, <1>6, <1>7

LEMMA ReportStep ==
  ASSUME RolloutInv, NEW a \in Agents, ReportVersion(a)
  PROVE  RolloutInv'
<1>1. /\ UNCHANGED commandVars /\ UNCHANGED <<step, results, updates>> /\ sent' = sent
      /\ reported' = [reported EXCEPT ![a] = image[a]]
  BY DEF ReportVersion, commandVars, cloudVars
<1>2. QueueInv'
  BY <1>1, CommandStutter DEF RolloutInv
<1>3. image[a] \in 0 .. MaxCommands
  BY TypeParts DEF RolloutInv, QueueInv, OtherTypes
<1>4. RolloutTypes'
  BY <1>1, <1>3 DEF RolloutInv, RolloutTypes
<1>5. LastPending' /\ OnePerResult'
  BY <1>1 DEF RolloutInv, LastPending, OnePerResult, Update
<1> QED
  BY <1>2, <1>4, <1>5 DEF RolloutInv

LEMMA QueueStep ==
  ASSUME RolloutInv, CommandNext, UNCHANGED rolloutVars
  PROVE  RolloutInv'
<1>1. UNCHANGED <<step, results, updates, reported>> /\ QueueInv
  BY DEF rolloutVars, RolloutInv
<1>2. QueueInv'
  BY <1>1, CommandStep
<1>3. DOMAIN sent \subseteq DOMAIN sent'
  BY <1>1, PendingOnce
<1>a. \A c \in DOMAIN sent : sent'[c].status = "pending" => sent[c].status = "pending"
  BY <1>1, PendingOnce
<1>4. RolloutTypes'
  <2>1. updates \subseteq DOMAIN sent'
    BY <1>3 DEF RolloutInv, RolloutTypes
  <2> QED
    BY <1>1, <2>1 DEF RolloutInv, RolloutTypes
<1>5. OnePerResult'
  BY <1>1 DEF RolloutInv, OnePerResult
<1>6. LastPending'
  <2>1. Update' = Update
    BY <1>1 DEF Update
  <2>2. \A c \in updates : sent'[c].status = "pending" => step \in {"ack", "over"} /\ c = Update
    BY <1>a DEF RolloutInv, RolloutTypes, LastPending
  <2> QED
    BY <1>1, <2>1, <2>2 DEF LastPending
<1> QED
  BY <1>2, <1>4, <1>5, <1>6 DEF RolloutInv

LEMMA RolloutInitInv == FleetInit => RolloutInv
<1> SUFFICES ASSUME FleetInit
             PROVE  RolloutInv
  OBVIOUS
<1>1. QueueInv
  BY InitTypes DEF FleetInit
<1>2. RolloutTypes /\ LastPending
  BY Bounds, RolloutAssumption DEF FleetInit, RolloutInit, RolloutTypes, LastPending
<1>3. OnePerResult
  BY FS_EmptySet DEF FleetInit, RolloutInit, OnePerResult
<1> QED
  BY <1>1, <1>2, <1>3 DEF RolloutInv

\* Every step of the queue and of the rollout keeps the invariant.
LEMMA RolloutInductive == RolloutInv /\ [FleetNext]_fleetVars => RolloutInv'
<1> SUFFICES ASSUME RolloutInv, [FleetNext]_fleetVars
             PROVE  RolloutInv'
  OBVIOUS
<1>1. CASE CommandNext /\ UNCHANGED rolloutVars
  BY <1>1, QueueStep
<1>2. CASE SendUpdate
  BY <1>2, SendUpdateStep
<1>3. CASE \E last \in BOOLEAN : Look(last)
  BY <1>3, LookStep, Zenon
<1>4. CASE \E a \in Agents : ReportVersion(a)
  BY <1>4, ReportStep
<1>5. CASE UNCHANGED fleetVars
  <2>1. UNCHANGED commandVars /\ UNCHANGED <<step, results, updates, reported>> /\ sent' = sent
    BY <1>5 DEF fleetVars, rolloutVars, commandVars, cloudVars
  <2>2. QueueInv'
    BY <2>1, CommandStutter DEF RolloutInv
  <2> QED
    BY <2>1, <2>2 DEF RolloutInv, RolloutTypes, LastPending, OnePerResult, Update
<1> QED
  BY <1>1, <1>2, <1>3, <1>4, <1>5 DEF FleetNext, RolloutNext

LEMMA RolloutInvariant == FleetSpec => []RolloutInv
  BY RolloutInitInv, RolloutInductive, PTL DEF FleetSpec

LEMMA RolloutTyped == RolloutInv => RolloutTypeOK
<1> SUFFICES ASSUME RolloutInv
             PROVE  RolloutTypeOK
  OBVIOUS
<1>1. /\ results \in [1 .. Len(results) -> Outcome]
      /\ Len(results) \in 0 .. Len(Order)
  BY RolloutAssumption DEF RolloutInv, RolloutTypes
<1> QED
  BY <1>1 DEF RolloutInv, RolloutTypes, RolloutTypeOK, Outcome

\* The rollout's variables keep their types: it has at most one result for each
\* agent of its order, and its update commands are in the collection.
THEOREM RolloutTypeCorrect == FleetSpec => []RolloutTypeOK
  BY RolloutTyped, RolloutInvariant, PTL

\* One store at a time (staged_agent_rollout): whatever users queue, agents do and
\* acknowledgements suffer meanwhile, at most one of the rollout's commands is
\* pending, and when it is over no more agents were sent one than it has results.
THEOREM OneStoreCorrect == FleetSpec => []OneStoreAtATime
<1>1. RolloutInv => OneStoreAtATime
  <2> SUFFICES ASSUME RolloutInv
               PROVE  OneStoreAtATime
    OBVIOUS
  <2> DEFINE Awaited == {c \in updates : sent[c].status = "pending"}
  <2>1. Awaited \subseteq {Update}
    BY DEF RolloutInv, LastPending
  <2>2. IsFiniteSet({Update}) /\ Cardinality({Update}) = 1
    BY FS_Singleton
  <2>3. Cardinality(Awaited) <= 1
    BY <2>1, <2>2, FS_Subset
  <2>4. step = "over" => Cardinality(updates) <= Len(results)
    BY DEF RolloutInv, OnePerResult, RolloutTypes
  <2> QED
    BY <2>3, <2>4 DEF OneStoreAtATime
<1> QED
  BY <1>1, RolloutInvariant, PTL

\* With a rollout beside it the queue keeps what it promises alone.
THEOREM QueueKeepsInRollout == FleetSpec => [](CommandTypeOK /\ RetriedOnce)
<1>1. RolloutInv => CommandTypeOK /\ RetriedOnce
  BY RepeatedOnce DEF RolloutInv, QueueInv, QueueTypes
<1> QED
  BY <1>1, RolloutInvariant, PTL

-------------------------------------------------------------------------------
(* The configuration of a camera: what is stored and what is under way *)

ConfigDoc == [version : Nat, active : BOOLEAN]
ConfigTypes ==
  /\ docs \in [DocKinds -> Seq(ConfigDoc)]
  /\ \A k \in DocKinds : Len(docs[k]) <= MaxDocs
  /\ camera \in [status : {"active", "inactive"}, enabled : BOOLEAN, version : 0 .. MaxVersion,
                 config : {"waiting", "received", "failed", "push_pending"}]
  /\ edge \in [stored : BOOLEAN, version : 0 .. MaxVersion, enabled : BOOLEAN,
               roi : 0 .. MaxDocs, refs : 0 .. MaxDocs]
  /\ failures \in 0 .. MaxFailures /\ overlapped \in BOOLEAN

ConfigRequest ==
  [op : {"none", "save", "toggle", "delete", "push"},
   at : {"start", "number", "insert", "toggle", "cascade", "assemble", "documents", "post", "record"},
   kind : DocKinds, version : Nat, enabled : BOOLEAN, roi : 0 .. MaxDocs, ref : 0 .. MaxDocs,
   tries : Nat, ack : {"none", "received", "failed"}]

\* A request is at rest or at a step, carries a number that fits, and has no answer
\* before it has posted.
Consistent(q) ==
  /\ q \in ConfigRequest
  /\ (q.op = "none") <=> (q.at = "start")
  /\ q.op = "none" => q = Quiet
  /\ q.at # "record" => q.ack = "none"
  /\ q.at \in {"documents", "post", "record"} => q.version \in 1 .. MaxVersion
RequestTypes ==
  /\ request \in [Requests -> ConfigRequest]
  /\ \A r \in Requests : Consistent(request[r])
  /\ \A r \in Requests :
       request[r].at = "insert" => request[r].version \in 1 .. Len(docs[request[r].kind]) + 1

\* No document has a number beyond its place, although two may have the same.
Numbered == \A k \in DocKinds : \A i \in 1 .. Len(docs[k]) : docs[k][i].version \in 1 .. i

\* Two requests at once are noted; so a request that is not noted works alone: what it
\* has read is what there is, and what was acknowledged is what the edge has.
Carried(version) ==
  /\ edge.version = version /\ edge.enabled = camera.enabled
  /\ edge.roi \in ActiveChoice("roi")
  /\ ActiveDocs("ref") # {} => edge.refs \in ActiveDocs("ref")
ReadRight(q) ==
  /\ q.at \in {"documents", "post"} => q.enabled = camera.enabled
  /\ q.at = "post" => q.roi \in ActiveChoice("roi") /\ q.ref \in ActiveChoice("ref")
  /\ q.at = "record" /\ q.ack = "received" => Carried(q.version)
Alone == ~overlapped => \A r, s \in Requests : request[r].op # "none" /\ request[s].op # "none" => r = s
UnderWay == ~overlapped => \A r \in Requests : ReadRight(request[r])
AtRest ==
  ~overlapped /\ camera.config = "received" /\ (\A r \in Requests : request[r].op = "none")
    => Carried(camera.version)

ConfigInv == ConfigTypes /\ RequestTypes /\ Numbered /\ Alone /\ UnderWay /\ AtRest

LEMMA QuietTypes == Consistent(Quiet) /\ Quiet.at = "start" /\ Quiet.op = "none"
<1>1. 0 \in 0 .. MaxDocs
  BY ConfigAssumption
<1>2. Quiet \in ConfigRequest
  BY <1>1 DEF Quiet, ConfigRequest, DocKinds
<1> QED
  BY <1>2 DEF Quiet, Consistent

LEMMA PushTypes == Consistent(Push) /\ Push.at = "assemble" /\ Push.op = "push"
<1>1. PICK q \in ConfigRequest : q = Quiet
  BY QuietTypes DEF Consistent
<1>2. q.ack = "none"
  BY <1>1 DEF Quiet
<1>3. Push = [q EXCEPT !.op = "push", !.at = "assemble"]
  BY <1>1 DEF Push
<1>4. /\ Push \in ConfigRequest /\ Push.op = "push" /\ Push.at = "assemble"
      /\ Push.ack = "none"
  BY <1>2, <1>3 DEF ConfigRequest
<1> QED
  BY <1>4 DEF Consistent

LEMMA DocLengths ==
  ASSUME ConfigTypes
  PROVE  \A k \in DocKinds : docs[k] \in Seq(ConfigDoc) /\ Len(docs[k]) \in Nat
<1>1. \A k \in DocKinds : docs[k] \in Seq(ConfigDoc)
  BY DEF ConfigTypes
<1> QED
  BY <1>1, LenProperties

LEMMA ConfigInitInv ==
  ASSUME ConfigInit
  PROVE  ConfigInv
<1>1. MaxDocs \in Nat /\ MaxVersion \in Nat /\ MaxFailures \in Nat
  BY ConfigAssumption
<1>2. \A k \in DocKinds : docs[k] = <<>> /\ Len(docs[k]) = 0
  BY DEF ConfigInit
<1>3. \A r \in Requests : request[r] = Quiet
  BY DEF ConfigInit
<1>4. ConfigTypes
  <2>1. docs \in [DocKinds -> Seq(ConfigDoc)]
    BY DEF ConfigInit
  <2>2. 0 \in 0 .. MaxDocs /\ 0 \in 0 .. MaxVersion /\ 0 \in 0 .. MaxFailures
    BY <1>1
  <2>3. edge \in [stored : BOOLEAN, version : 0 .. MaxVersion, enabled : BOOLEAN,
                  roi : 0 .. MaxDocs, refs : 0 .. MaxDocs]
    BY <2>2 DEF ConfigInit
  <2>4. camera \in [status : {"active", "inactive"}, enabled : BOOLEAN, version : 0 .. MaxVersion,
                    config : {"waiting", "received", "failed", "push_pending"}]
    BY <2>2 DEF ConfigInit
  <2>5. failures \in 0 .. MaxFailures /\ overlapped \in BOOLEAN
    BY <2>2 DEF ConfigInit
  <2>6. \A k \in DocKinds : Len(docs[k]) <= MaxDocs
    BY <1>1, <1>2
  <2> QED
    BY <2>1, <2>3, <2>4, <2>5, <2>6 DEF ConfigTypes
<1>5. RequestTypes
  BY <1>3, QuietTypes DEF ConfigInit, RequestTypes, Consistent
<1>6. Numbered
  BY <1>2 DEF Numbered
<1>7. Alone /\ UnderWay /\ AtRest
  BY <1>3, QuietTypes DEF ConfigInit, Alone, UnderWay, AtRest, ReadRight
<1> QED
  BY <1>4, <1>5, <1>6, <1>7 DEF ConfigInv

\* A request that is under way makes a step.
LEMMA RequestStep ==
  ASSUME ConfigInv, NEW r \in Requests, request[r].op # "none",
         NEW q, Consistent(q), request' = [request EXCEPT ![r] = q],
         ConfigTypes', Numbered', overlapped' = overlapped,
         \A k \in DocKinds : Len(docs[k]) <= Len(docs'[k]),
         q.at = "insert" => q.version \in 1 .. Len(docs'[q.kind]) + 1,
         ~overlapped => ReadRight(q)',
         ~overlapped /\ q.op = "none" /\ camera'.config = "received" => Carried(camera.version)'
  PROVE  ConfigInv'
<1>1. request \in [Requests -> ConfigRequest] /\ q \in ConfigRequest
  BY DEF ConfigInv, RequestTypes, Consistent
<1>a. \A k \in DocKinds : Len(docs[k]) \in Nat /\ Len(docs'[k]) \in Nat
  <2>1. \A k \in DocKinds : docs[k] \in Seq(ConfigDoc) /\ docs'[k] \in Seq(ConfigDoc)
    BY DEF ConfigInv, ConfigTypes
  <2> QED
    BY <2>1, LenProperties
<1>2. /\ request' \in [Requests -> ConfigRequest] /\ request'[r] = q
      /\ \A s \in Requests \ {r} : request'[s] = request[s]
  BY <1>1
<1>3. RequestTypes'
  <2>1. \A s \in Requests : Consistent(request'[s])
    BY <1>2 DEF ConfigInv, RequestTypes
  <2>2. ASSUME NEW s \in Requests, request'[s].at = "insert"
        PROVE  request'[s].version \in 1 .. Len(docs'[request'[s].kind]) + 1
    <3>1. CASE s = r
      BY <1>2, <2>2, <3>1
    <3>2. CASE s # r
      <4>1. PICK k : k = request[s].kind
        OBVIOUS
      <4>2. /\ k \in DocKinds /\ request[s].version \in 1 .. (Len(docs[k]) + 1)
        BY <1>1, <1>2, <2>2, <3>2, <4>1 DEF ConfigInv, RequestTypes, ConfigRequest
      <4>3. Len(docs[k]) \in Nat /\ Len(docs'[k]) \in Nat /\ Len(docs[k]) <= Len(docs'[k])
        BY <1>a, <4>2
      <4> QED
        BY <1>2, <3>2, <4>1, <4>2, <4>3
    <3> QED
      BY <3>1, <3>2
  <2>3. (\A s \in Requests : Consistent(request[s]))'
    BY <2>1 DEF Consistent
  <2> QED
    BY <1>2, <2>2, <2>3 DEF RequestTypes
<1>4. ASSUME ~overlapped
      PROVE  \A s \in Requests \ {r} : request'[s] = Quiet
  BY <1>2, <1>4 DEF ConfigInv, Alone, RequestTypes, Consistent
<1>5. Alone'
  BY <1>4, QuietTypes DEF Alone
<1>6. UnderWay'
  <2> SUFFICES ASSUME ~overlapped, NEW s \in Requests
               PROVE  ReadRight(request[s])'
    BY DEF UnderWay
  <2>1. CASE s = r
    BY <1>2, <2>1 DEF ReadRight, Carried
  <2>2. CASE s # r
    BY <1>4, <2>2, QuietTypes DEF ReadRight
  <2> QED
    BY <2>1, <2>2
<1>7. AtRest'
  BY <1>2 DEF AtRest
<1> QED
  BY <1>3, <1>5, <1>6, <1>7 DEF ConfigInv

\* A request begins; when it does so beside another one, that is noted.
LEMMA RequestBegins ==
  ASSUME ConfigInv, NEW r \in Requests, request[r] = Quiet,
         NEW q, Consistent(q), request' = [request EXCEPT ![r] = q],
         q.at \in {"number", "toggle", "cascade", "assemble"},
         ConfigTypes', Numbered', overlapped' = (Busy # {}),
         \A k \in DocKinds : Len(docs[k]) <= Len(docs'[k])
  PROVE  ConfigInv'
<1>1. request \in [Requests -> ConfigRequest] /\ q \in ConfigRequest
  BY DEF ConfigInv, RequestTypes, Consistent
<1>a. \A k \in DocKinds : Len(docs[k]) \in Nat /\ Len(docs'[k]) \in Nat
  <2>1. \A k \in DocKinds : docs[k] \in Seq(ConfigDoc) /\ docs'[k] \in Seq(ConfigDoc)
    BY DEF ConfigInv, ConfigTypes
  <2> QED
    BY <2>1, LenProperties
<1>2. /\ request' \in [Requests -> ConfigRequest] /\ request'[r] = q
      /\ \A s \in Requests \ {r} : request'[s] = request[s]
  BY <1>1
<1>3. q.op # "none"
  BY DEF Consistent
<1>4. ASSUME ~overlapped'
      PROVE  \A s \in Requests \ {r} : request'[s] = Quiet
  BY <1>2, <1>4 DEF Busy, ConfigInv, RequestTypes, Consistent
<1>5. RequestTypes'
  <2>1. \A s \in Requests : Consistent(request'[s])
    BY <1>2 DEF ConfigInv, RequestTypes
  <2>2. ASSUME NEW s \in Requests, request'[s].at = "insert"
        PROVE  request'[s].version \in 1 .. Len(docs'[request'[s].kind]) + 1
    <3>1. s # r
      BY <1>2, <2>2
    <3>2. PICK k : k = request[s].kind
      OBVIOUS
    <3>3. /\ k \in DocKinds /\ request[s].version \in 1 .. (Len(docs[k]) + 1)
      BY <1>1, <1>2, <2>2, <3>1, <3>2 DEF ConfigInv, RequestTypes, ConfigRequest
    <3>4. Len(docs[k]) \in Nat /\ Len(docs'[k]) \in Nat /\ Len(docs[k]) <= Len(docs'[k])
      BY <1>a, <3>3
    <3> QED
      BY <1>2, <3>1, <3>2, <3>3, <3>4
  <2>3. (\A s \in Requests : Consistent(request[s]))'
    BY <2>1 DEF Consistent
  <2> QED
    BY <1>2, <2>2, <2>3 DEF RequestTypes
<1>6. Alone'
  BY <1>4, QuietTypes DEF Alone
<1>7. UnderWay'
  <2> SUFFICES ASSUME ~overlapped', NEW s \in Requests
               PROVE  ReadRight(request[s])'
    BY DEF UnderWay
  <2>1. request'[s].at \in {"start", "number", "toggle", "cascade", "assemble"}
    BY <1>2, <1>4, QuietTypes
  <2> QED
    BY <2>1 DEF ReadRight
<1>8. AtRest'
  BY <1>2, <1>3 DEF AtRest
<1> QED
  BY <1>5, <1>6, <1>7, <1>8 DEF ConfigInv
-------------------------------------------------------------------------------
(* ... step by step *)

\* A change of the documents of one kind.
LEMMA DocsChange ==
  ASSUME ConfigInv, NEW k \in DocKinds, NEW d \in Seq(ConfigDoc), docs' = [docs EXCEPT ![k] = d],
         Len(docs[k]) <= Len(d), Len(d) <= MaxDocs, \A i \in 1 .. Len(d) : d[i].version \in 1 .. i
  PROVE  /\ docs' \in [DocKinds -> Seq(ConfigDoc)]
         /\ \A x \in DocKinds : Len(docs'[x]) <= MaxDocs
         /\ \A x \in DocKinds : Len(docs[x]) <= Len(docs'[x])
         /\ Numbered'
<1>1. docs \in [DocKinds -> Seq(ConfigDoc)] /\ \A x \in DocKinds : Len(docs[x]) <= MaxDocs
      /\ Numbered
  BY DEF ConfigInv, ConfigTypes
<1>2. /\ docs' \in [DocKinds -> Seq(ConfigDoc)] /\ docs'[k] = d
      /\ \A x \in DocKinds \ {k} : docs'[x] = docs[x]
  BY <1>1
<1>3. \A x \in DocKinds : Len(docs[x]) \in Nat
  BY <1>1, LenProperties
<1>4. \A x \in DocKinds : Len(docs[x]) <= Len(docs'[x])
  BY <1>2, <1>3
<1>5. Numbered'
  BY <1>1, <1>2 DEF Numbered
<1> QED
  BY <1>1, <1>2, <1>4, <1>5

LEMMA DeactivatedOf ==
  ASSUME ConfigInv, NEW k \in DocKinds, docs' = Deactivated(k)
  PROVE  /\ docs' \in [DocKinds -> Seq(ConfigDoc)]
         /\ \A x \in DocKinds : Len(docs'[x]) <= MaxDocs
         /\ \A x \in DocKinds : Len(docs[x]) <= Len(docs'[x])
         /\ Numbered'
<1>1. docs \in [DocKinds -> Seq(ConfigDoc)] /\ \A x \in DocKinds : Len(docs[x]) <= MaxDocs
      /\ Numbered
  BY DEF ConfigInv, ConfigTypes
<1>2. PICK s \in Seq(ConfigDoc) : s = docs[k]
  BY <1>1
<1>3. Len(s) \in Nat /\ DOMAIN s = 1 .. Len(s) /\ \A i \in 1 .. Len(s) : s[i] \in ConfigDoc
  BY LenProperties, ElementOfSeq
<1>4. PICK d : d = [i \in DOMAIN s |-> [s[i] EXCEPT !.active = FALSE]]
  OBVIOUS
<1>5. \A i \in 1 .. Len(s) : d[i] \in ConfigDoc /\ d[i].version = s[i].version
  BY <1>3, <1>4 DEF ConfigDoc
<1>6. d \in Seq(ConfigDoc) /\ Len(d) = Len(s)
  <2>1. PICK n \in Nat : n = Len(s)
    BY <1>3
  <2>2. DOMAIN d = 1 .. n /\ d \in [1 .. n -> ConfigDoc]
    BY <1>3, <1>4, <1>5, <2>1
  <2>3. d \in Seq(ConfigDoc)
    BY <2>2, SeqDef
  <2> QED
    BY <2>1, <2>2, <2>3
<1>7. docs' = [docs EXCEPT ![k] = d]
  BY <1>1, <1>2, <1>4 DEF Deactivated
<1>8. \A i \in 1 .. Len(d) : d[i].version \in 1 .. i
  BY <1>1, <1>2, <1>5, <1>6 DEF Numbered
<1>9. Len(docs[k]) <= Len(d) /\ Len(d) <= MaxDocs
  BY <1>1, <1>2, <1>3, <1>6
<1> QED
  BY <1>6, <1>7, <1>8, <1>9, DocsChange

\* Nothing but the request and the camera changes.
LEMMA SameDocs ==
  ASSUME ConfigInv, UNCHANGED docs
  PROVE  /\ docs' \in [DocKinds -> Seq(ConfigDoc)]
         /\ \A x \in DocKinds : Len(docs'[x]) <= MaxDocs
         /\ \A x \in DocKinds : Len(docs[x]) <= Len(docs'[x])
         /\ Numbered'
<1>1. docs \in [DocKinds -> Seq(ConfigDoc)] /\ \A x \in DocKinds : Len(docs[x]) <= MaxDocs
  BY DEF ConfigInv, ConfigTypes
<1>2. \A x \in DocKinds : Len(docs[x]) \in Nat
  BY <1>1, LenProperties
<1>3. Numbered'
  BY DEF ConfigInv, Numbered
<1> QED
  BY <1>1, <1>2, <1>3

LEMMA BeginSteps ==
  ASSUME ConfigInv, NEW r \in Requests,
         (\E k \in DocKinds : BeginSave(r, k)) \/ BeginToggle(r) \/ BeginDelete(r) \/ BeginPush(r)
  PROVE  ConfigInv'
<1>1. /\ ConfigTypes /\ request[r] = Quiet
      /\ UNCHANGED <<edge, failures>> /\ overlapped' = (Busy # {})
  BY DEF ConfigInv, BeginSave, BeginToggle, BeginDelete, BeginPush, Begin
<1>2. PICK w \in ConfigRequest : w = Quiet
  BY QuietTypes DEF Consistent
<1>3. w.ack = "none"
  BY <1>2 DEF Quiet
<1>5. overlapped' \in BOOLEAN
  BY <1>1
<1>6. ASSUME NEW k \in DocKinds, BeginSave(r, k)
      PROVE  ConfigInv'
  <2>1. PICK q : q = [Quiet EXCEPT !.op = "save", !.kind = k, !.at = "number"]
    OBVIOUS
  <2>2. Consistent(q) /\ q.at = "number"
    <3>1. q = [w EXCEPT !.op = "save", !.kind = k, !.at = "number"]
      BY <1>2, <2>1
    <3>2. q \in ConfigRequest /\ q.op = "save" /\ q.at = "number" /\ q.ack = "none"
      BY <1>3, <3>1 DEF ConfigRequest
    <3> QED
      BY <3>2 DEF Consistent
  <2>3. request' = [request EXCEPT ![r] = q] /\ docs' = Deactivated(k) /\ camera' = camera
    BY <1>6, <2>1 DEF BeginSave, Begin
  <2>4. /\ docs' \in [DocKinds -> Seq(ConfigDoc)]
        /\ \A x \in DocKinds : Len(docs'[x]) <= MaxDocs
        /\ \A x \in DocKinds : Len(docs[x]) <= Len(docs'[x])
        /\ Numbered'
    BY <2>3, DeactivatedOf
  <2>5. ConfigTypes'
    BY <1>1, <1>5, <2>3, <2>4 DEF ConfigTypes
  <2> QED
    BY <1>1, <2>2, <2>3, <2>4, <2>5, RequestBegins
<1>7. CASE BeginToggle(r)
  <2>1. PICK q : q = [Quiet EXCEPT !.op = "toggle", !.at = "toggle", !.enabled = ~camera.enabled]
    OBVIOUS
  <2>2. PICK b \in BOOLEAN : b = ~camera.enabled
    OBVIOUS
  <2>3. q = [w EXCEPT !.op = "toggle", !.at = "toggle", !.enabled = b]
    BY <1>2, <2>1, <2>2
  <2>4. q \in ConfigRequest /\ q.op = "toggle" /\ q.at = "toggle" /\ q.ack = "none"
    BY <1>3, <2>3 DEF ConfigRequest
  <2>5. Consistent(q)
    BY <2>4 DEF Consistent
  <2>6. request' = [request EXCEPT ![r] = q] /\ docs' = docs /\ camera' = camera
    BY <1>7, <2>1 DEF BeginToggle
  <2>7. /\ docs' \in [DocKinds -> Seq(ConfigDoc)]
        /\ \A x \in DocKinds : Len(docs'[x]) <= MaxDocs
        /\ \A x \in DocKinds : Len(docs[x]) <= Len(docs'[x])
        /\ Numbered'
    BY <2>6, SameDocs
  <2>8. ConfigTypes'
    BY <1>1, <1>5, <2>6, <2>7 DEF ConfigTypes
  <2> QED
    BY <1>1, <2>4, <2>5, <2>6, <2>7, <2>8, RequestBegins
<1>8. CASE BeginDelete(r) \/ BeginPush(r)
  <2>1. PICK op \in {"delete", "push"}, at \in {"cascade", "assemble"} :
          /\ Begin(r, op, "roi", at) /\ docs' = docs
          /\ camera' \in {camera, [camera EXCEPT !.status = "inactive", !.enabled = FALSE]}
    BY <1>8 DEF BeginDelete, BeginPush
  <2>2. PICK q : q = [Quiet EXCEPT !.op = op, !.kind = "roi", !.at = at]
    OBVIOUS
  <2>3. Consistent(q) /\ q.at = at
    <3>1. q = [w EXCEPT !.op = op, !.kind = "roi", !.at = at]
      BY <1>2, <2>2
    <3>2. q \in ConfigRequest /\ q.op = op /\ q.at = at /\ q.ack = "none"
      BY <1>3, <3>1 DEF ConfigRequest, DocKinds
    <3> QED
      BY <3>2 DEF Consistent
  <2>4. request' = [request EXCEPT ![r] = q]
    BY <2>1, <2>2 DEF Begin
  <2>5. /\ docs' \in [DocKinds -> Seq(ConfigDoc)]
        /\ \A x \in DocKinds : Len(docs'[x]) <= MaxDocs
        /\ \A x \in DocKinds : Len(docs[x]) <= Len(docs'[x])
        /\ Numbered'
    BY <2>1, SameDocs
  <2>6. camera' \in [status : {"active", "inactive"}, enabled : BOOLEAN, version : 0 .. MaxVersion,
                     config : {"waiting", "received", "failed", "push_pending"}]
    BY <1>1, <2>1 DEF ConfigTypes
  <2>7. ConfigTypes'
    BY <1>1, <1>5, <2>5, <2>6 DEF ConfigTypes
  <2> QED
    BY <1>1, <2>1, <2>3, <2>4, <2>5, <2>7, RequestBegins
<1> QED
  BY <1>6, <1>7, <1>8

\* A set of numbers that is not empty has a least one, and a greatest one if it is bounded.
LEMMA Least ==
  ASSUME NEW T \in SUBSET Nat, T # {}
  PROVE  \E x \in T : \A y \in T : x <= y
<1>1. IsWellFoundedOn(OpToRel(<, Nat), Nat)
  BY NatLessThanWellFounded
<1>2. OpToRel(<, Nat) = {ss \in Nat \X Nat : ss[1] < ss[2]}
  BY DEF OpToRel
<1>3. PICK R : R = {ss \in Nat \X Nat : ss[1] < ss[2]}
  OBVIOUS
<1>4. IsWellFoundedOn(R, Nat)
  BY <1>1, <1>2, <1>3
<1>5. \E x \in T : \A y \in T : ~ (<<y, x>> \in R)
  BY <1>4, WFMin, Zenon
<1>6. \A x, y \in Nat : y < x => <<y, x>> \in R
  BY <1>3
<1>7. PICK x \in T : \A y \in T : ~ (<<y, x>> \in R)
  BY <1>5
<1>8. \A y \in T : y \in Nat /\ ~(y < x)
  BY <1>6, <1>7
<1>9. \A y \in T : x <= y
  BY <1>8
<1> QED
  BY <1>9

LEMMA Greatest ==
  ASSUME NEW N \in Nat, NEW T \in SUBSET (0 .. N), T # {}
  PROVE  \E x \in T : \A y \in T : y <= x
<1>1. PICK U : U = {N - x : x \in T}
  OBVIOUS
<1>2. U \in SUBSET Nat /\ U # {}
  <2>1. \A x \in T : N - x \in Nat
    <3> TAKE x \in T
    <3>1. x \in 0 .. N
      OBVIOUS
    <3> QED
      BY <3>1
  <2> QED
    BY <1>1, <2>1
<1>3. PICK u \in U : \A y \in U : u <= y
  BY <1>2, Least
<1>4. PICK x \in T : u = N - x
  BY <1>1, <1>3
<1>5. \A y \in T : N - x <= N - y
  BY <1>1, <1>3, <1>4
<1>6. \A y \in T : y <= x
  BY <1>5
<1> QED
  BY <1>6

LEMMA NumberStep ==
  ASSUME ConfigInv, NEW r \in Requests, Number(r)
  PROVE  ConfigInv'
<1>1. /\ ConfigTypes /\ Numbered /\ request[r].at = "number"
      /\ UNCHANGED <<docs, camera, edge, failures, overlapped>>
      /\ request[r] \in ConfigRequest /\ Consistent(request[r])
  BY DEF ConfigInv, RequestTypes, Number
<1>2. PICK w \in ConfigRequest : w = request[r]
  BY <1>1
<1>3. docs[request[r].kind] \in Seq(ConfigDoc)
  BY <1>1 DEF ConfigTypes, ConfigRequest
<1>4. PICK n \in Nat : n = Len(docs[request[r].kind])
  BY <1>3, LenProperties
<1>5. /\ DOMAIN docs[request[r].kind] = 1 .. n
      /\ \A i \in 1 .. n : docs[request[r].kind][i].version \in 1 .. i
  BY <1>1, <1>3, <1>4, LenProperties DEF Numbered, ConfigRequest
<1>6. PICK last : last = IF docs[request[r].kind] = <<>> THEN 0
                         ELSE CHOOSE v \in {docs[request[r].kind][i].version :
                                              i \in DOMAIN docs[request[r].kind]} :
                                \A i \in DOMAIN docs[request[r].kind] :
                                  docs[request[r].kind][i].version <= v
  OBVIOUS
<1>7. last \in 0 .. n
  <2>1. CASE docs[request[r].kind] = <<>>
    BY <1>6, <2>1
  <2>2. CASE docs[request[r].kind] # <<>>
    <3>1. PICK T : T = {docs[request[r].kind][i].version : i \in DOMAIN docs[request[r].kind]}
      OBVIOUS
    <3>2. n # 0
      BY <1>3, <1>4, <2>2, EmptySeq
    <3>3. T \in SUBSET (0 .. n) /\ T # {}
      <4>1. 1 \in DOMAIN docs[request[r].kind]
        BY <1>5, <3>2
      <4>2. \A i \in DOMAIN docs[request[r].kind] : docs[request[r].kind][i].version \in 0 .. n
        BY <1>5
      <4> QED
        BY <3>1, <4>1, <4>2
    <3>4. \E v \in T : \A y \in T : y <= v
      BY <3>3, Greatest
    <3>5. \E v \in {docs[request[r].kind][i].version : i \in DOMAIN docs[request[r].kind]} :
            \A i \in DOMAIN docs[request[r].kind] : docs[request[r].kind][i].version <= v
      BY <3>1, <3>4
    <3>6. last \in {docs[request[r].kind][i].version : i \in DOMAIN docs[request[r].kind]}
      BY <1>6, <2>2, <3>5
    <3> QED
      BY <3>1, <3>3, <3>6
  <2> QED
    BY <2>1, <2>2
<1>8. PICK q : q = [w EXCEPT !.at = "insert", !.version = last + 1]
  OBVIOUS
<1>9. /\ request' = [request EXCEPT ![r] = q]
      /\ q \in ConfigRequest /\ q.at = "insert" /\ q.version = last + 1 /\ q.kind = w.kind
      /\ q.op = w.op /\ q.ack = w.ack
  <2>1. request' = [request EXCEPT ![r].at = "insert", ![r].version = last + 1]
    BY <1>6 DEF Number
  <2>2. request' = [request EXCEPT ![r] = q]
    BY <1>2, <1>8, <2>1
  <2>3. last + 1 \in Nat
    BY <1>7
  <2> QED
    BY <1>8, <2>2, <2>3 DEF ConfigRequest
<1>10. Consistent(q) /\ w.op # "none"
  BY <1>1, <1>2, <1>9 DEF Consistent
<1>11. q.version \in 1 .. Len(docs'[q.kind]) + 1
  BY <1>1, <1>2, <1>4, <1>7, <1>9
<1>12. /\ ConfigTypes' /\ Numbered'
       /\ \A k \in DocKinds : Len(docs[k]) <= Len(docs'[k])
  BY <1>1, SameDocs DEF ConfigTypes
<1>13. ReadRight(q)' /\ q.op # "none"
  BY <1>9, <1>10 DEF ReadRight
<1> QED
  BY <1>1, <1>2, <1>9, <1>10, <1>11, <1>12, <1>13, RequestStep

LEMMA InsertStep ==
  ASSUME ConfigInv, NEW r \in Requests, Insert(r)
  PROVE  ConfigInv'
<1>1. /\ ConfigTypes /\ Numbered /\ RequestTypes /\ request[r].at = "insert"
      /\ UNCHANGED <<camera, edge, failures, overlapped>>
      /\ request[r] \in ConfigRequest /\ Consistent(request[r])
  BY DEF ConfigInv, RequestTypes, Insert
<1>2. PICK w \in ConfigRequest : w = request[r]
  BY <1>1
<1>3. PICK k \in DocKinds : k = w.kind
  BY DEF ConfigRequest
<1>4. PICK s \in Seq(ConfigDoc) : s = docs[k]
  BY <1>1 DEF ConfigTypes
<1>5. Len(s) \in Nat /\ w.version \in 1 .. (Len(s) + 1) /\ Len(s) < MaxDocs /\ MaxDocs \in Nat
  <2>1. w.version \in 1 .. (Len(s) + 1)
    BY <1>1, <1>2, <1>3, <1>4 DEF RequestTypes
  <2>2. Len(s) < MaxDocs
    BY <1>2, <1>3, <1>4 DEF Insert
  <2> QED
    BY <2>1, <2>2, ConfigAssumption
<1>6. PICK e : e = [version |-> w.version, active |-> TRUE]
  OBVIOUS
<1>7. e \in ConfigDoc /\ e.version = w.version
  BY <1>5, <1>6 DEF ConfigDoc
<1>8. PICK d : d = Append(s, e)
  OBVIOUS
<1>9. /\ d \in Seq(ConfigDoc) /\ Len(d) = Len(s) + 1
      /\ \A i \in 1 .. Len(s) : d[i] = s[i]
      /\ d[Len(s) + 1] = e
  BY <1>7, <1>8, AppendProperties
<1>10. docs' = [docs EXCEPT ![k] = d] /\ request' = [request EXCEPT ![r] = Push]
  BY <1>1, <1>2, <1>3, <1>4, <1>6, <1>8 DEF Insert, Assemble, ConfigTypes
<1>11. \A i \in 1 .. Len(d) : d[i].version \in 1 .. i
  <2> TAKE i \in 1 .. Len(d)
  <2>1. CASE i \in 1 .. Len(s)
    BY <1>1, <1>4, <1>9, <2>1 DEF Numbered
  <2>2. CASE i = Len(s) + 1
    BY <1>5, <1>7, <1>9, <2>2
  <2> QED
    BY <1>5, <1>9, <2>1, <2>2
<1>12. Len(docs[k]) <= Len(d) /\ Len(d) <= MaxDocs
  BY <1>4, <1>5, <1>9
<1>13. /\ docs' \in [DocKinds -> Seq(ConfigDoc)]
       /\ \A x \in DocKinds : Len(docs'[x]) <= MaxDocs
       /\ \A x \in DocKinds : Len(docs[x]) <= Len(docs'[x])
       /\ Numbered'
  BY <1>9, <1>10, <1>11, <1>12, DocsChange
<1>14. ConfigTypes'
  BY <1>1, <1>13 DEF ConfigTypes
<1>15. ReadRight(Push)' /\ request[r].op # "none"
  BY <1>1, PushTypes DEF ReadRight, Consistent, Push, Quiet
<1>16. PICK q : q = Push
  OBVIOUS
<1>17. /\ Consistent(q) /\ q.at = "assemble" /\ q.op = "push"
       /\ request' = [request EXCEPT ![r] = q]
  BY <1>10, <1>16, PushTypes
<1>18. ReadRight(q)'
  BY <1>17 DEF ReadRight
<1> QED
  BY <1>1, <1>13, <1>14, <1>15, <1>17, <1>18, RequestStep

LEMMA ToggleStep ==
  ASSUME ConfigInv, NEW r \in Requests, WriteToggle(r)
  PROVE  ConfigInv'
<1>1. /\ ConfigTypes /\ request[r].at = "toggle"
      /\ UNCHANGED <<docs, edge, failures, overlapped>>
      /\ request[r] \in ConfigRequest /\ Consistent(request[r])
      /\ camera' = [camera EXCEPT !.enabled = request[r].enabled]
  BY DEF ConfigInv, RequestTypes, WriteToggle
<1>2. PICK q : q = Push
  OBVIOUS
<1>3. /\ Consistent(q) /\ q.at = "assemble" /\ q.op = "push"
      /\ request' = [request EXCEPT ![r] = q]
  BY <1>2, PushTypes DEF WriteToggle, Assemble
<1>4. /\ docs' \in [DocKinds -> Seq(ConfigDoc)]
      /\ \A x \in DocKinds : Len(docs'[x]) <= MaxDocs
      /\ \A x \in DocKinds : Len(docs[x]) <= Len(docs'[x])
      /\ Numbered'
  BY <1>1, SameDocs
<1>5. camera' \in [status : {"active", "inactive"}, enabled : BOOLEAN, version : 0 .. MaxVersion,
                   config : {"waiting", "received", "failed", "push_pending"}]
  BY <1>1 DEF ConfigTypes, ConfigRequest
<1>6. ConfigTypes'
  BY <1>1, <1>4, <1>5 DEF ConfigTypes
<1>7. ReadRight(q)' /\ request[r].op # "none"
  BY <1>1, <1>3 DEF ReadRight, Consistent
<1> QED
  BY <1>1, <1>3, <1>4, <1>6, <1>7, RequestStep

LEMMA CascadeStep ==
  ASSUME ConfigInv, NEW r \in Requests, Cascade(r)
  PROVE  ConfigInv'
<1>1. /\ ConfigTypes /\ request[r].at = "cascade"
      /\ UNCHANGED <<camera, edge, failures, overlapped>>
      /\ request[r] \in ConfigRequest /\ Consistent(request[r])
      /\ docs' = Deactivated(request[r].kind)
  BY DEF ConfigInv, RequestTypes, Cascade
<1>2. PICK w \in ConfigRequest : w = request[r]
  BY <1>1
<1>3. /\ w.op # "none" /\ w.ack = "none" /\ w.kind \in DocKinds
  BY <1>1, <1>2 DEF Consistent, ConfigRequest
<1>4. PICK q : q = IF w.kind = "roi" THEN [w EXCEPT !.kind = "ref"] ELSE Push
  OBVIOUS
<1>5. /\ Consistent(q) /\ q.at \in {"cascade", "assemble"}
      /\ request' = [request EXCEPT ![r] = q]
  <2>1. CASE w.kind = "roi"
    <3>1. /\ q \in ConfigRequest /\ q.at = "cascade" /\ q.op = w.op /\ q.ack = "none"
      BY <1>1, <1>2, <1>3, <1>4, <2>1 DEF ConfigRequest, DocKinds
    <3>2. Consistent(q)
      BY <1>3, <3>1 DEF Consistent
    <3>3. request' = [request EXCEPT ![r].kind = "ref"]
      BY <1>2, <2>1 DEF Cascade
    <3>4. request' = [request EXCEPT ![r] = q]
      BY <1>2, <1>4, <2>1, <3>3
    <3> QED
      BY <3>1, <3>2, <3>4
  <2>2. CASE w.kind # "roi"
    BY <1>2, <1>4, <2>2, PushTypes DEF Cascade, Assemble
  <2> QED
    BY <2>1, <2>2
<1>6. /\ docs' \in [DocKinds -> Seq(ConfigDoc)]
      /\ \A x \in DocKinds : Len(docs'[x]) <= MaxDocs
      /\ \A x \in DocKinds : Len(docs[x]) <= Len(docs'[x])
      /\ Numbered'
  <2>1. PICK k \in DocKinds : k = w.kind
    BY <1>3
  <2>2. docs' = Deactivated(k)
    BY <1>1, <1>2, <2>1
  <2> QED
    BY <2>2, DeactivatedOf
<1>7. ConfigTypes'
  BY <1>1, <1>6 DEF ConfigTypes
<1>8. ReadRight(q)' /\ q.op # "none"
  BY <1>5 DEF ReadRight, Consistent
<1> QED
  BY <1>1, <1>2, <1>3, <1>5, <1>6, <1>7, <1>8, RequestStep

LEMMA ChoiceTypes ==
  ASSUME ConfigInv
  PROVE  /\ \A k \in DocKinds : ActiveDocs(k) \subseteq 1 .. MaxDocs
         /\ \A k \in DocKinds : ActiveChoice(k) \subseteq 0 .. MaxDocs
<1>1. MaxDocs \in Nat
  BY ConfigAssumption
<1>2. ConfigTypes
  BY DEF ConfigInv
<1>3. ASSUME NEW k \in DocKinds
      PROVE  ActiveDocs(k) \subseteq 1 .. MaxDocs /\ ActiveChoice(k) \subseteq 0 .. MaxDocs
  <2>1. PICK s \in Seq(ConfigDoc) : s = docs[k]
    BY <1>2 DEF ConfigTypes
  <2>2. PICK n \in Nat : n = Len(s) /\ n <= MaxDocs
    BY <1>2, <2>1, LenProperties DEF ConfigTypes
  <2>3. DOMAIN s = 1 .. n
    BY <2>2, LenProperties
  <2>4. ActiveDocs(k) \subseteq 1 .. n
    BY <2>1, <2>3 DEF ActiveDocs
  <2>5. ActiveDocs(k) \subseteq 1 .. MaxDocs
    BY <1>1, <2>2, <2>4
  <2>6. ActiveChoice(k) \subseteq ActiveDocs(k) \cup {0}
    BY DEF ActiveChoice
  <2> QED
    BY <1>1, <2>5, <2>6
<1> QED
  BY <1>3

\* The push reads the camera ...
LEMMA ReadCameraStep ==
  ASSUME ConfigInv, NEW r \in Requests, ReadCamera(r)
  PROVE  ConfigInv'
<1>1. /\ ConfigTypes /\ request[r].at = "assemble" /\ camera.version < MaxVersion
      /\ UNCHANGED <<docs, camera, edge, failures, overlapped>>
      /\ request[r] \in ConfigRequest /\ Consistent(request[r])
  BY DEF ConfigInv, RequestTypes, ReadCamera
<1>2. PICK w \in ConfigRequest : w = request[r]
  BY <1>1
<1>3. w.op # "none" /\ w.ack = "none"
  BY <1>1, <1>2 DEF Consistent
<1>4. PICK v \in Nat : v = camera.version + 1 /\ v \in 1 .. MaxVersion
  BY <1>1, ConfigAssumption DEF ConfigTypes
<1>5. PICK b \in BOOLEAN : b = camera.enabled
  BY <1>1 DEF ConfigTypes
<1>6. PICK q : q = [w EXCEPT !.at = "documents", !.version = v, !.enabled = b]
  OBVIOUS
<1>7. request' = [request EXCEPT ![r] = q]
  <2>1. request' = [request EXCEPT ![r].at = "documents", ![r].version = v, ![r].enabled = b]
    BY <1>4, <1>5 DEF ReadCamera
  <2> QED
    BY <1>2, <1>6, <2>1
<1>8. /\ q \in ConfigRequest /\ q.at = "documents" /\ q.op = w.op /\ q.ack = "none"
      /\ q.version = v /\ q.enabled = b
  BY <1>3, <1>6 DEF ConfigRequest
<1>9. Consistent(q)
  <2>1. q.version \in 1 .. MaxVersion
    BY <1>4, <1>8
  <2> QED
    BY <1>3, <1>8, <2>1 DEF Consistent
<1>10. /\ ConfigTypes' /\ Numbered'
       /\ \A k \in DocKinds : Len(docs[k]) <= Len(docs'[k])
  BY <1>1, SameDocs DEF ConfigTypes
<1>11. ReadRight(q)' /\ q.op # "none"
  BY <1>1, <1>3, <1>5, <1>8 DEF ReadRight
<1> QED
  BY <1>1, <1>2, <1>3, <1>7, <1>8, <1>9, <1>10, <1>11, RequestStep

\* ... and the documents, an active one of each kind if there is one.
LEMMA ReadDocumentsStep ==
  ASSUME ConfigInv, NEW r \in Requests, ReadDocuments(r)
  PROVE  ConfigInv'
<1>1. /\ ConfigTypes /\ request[r].at = "documents"
      /\ UNCHANGED <<docs, camera, edge, failures, overlapped>>
      /\ request[r] \in ConfigRequest /\ Consistent(request[r])
      /\ ~overlapped => ReadRight(request[r])
  BY DEF ConfigInv, RequestTypes, UnderWay, ReadDocuments
<1>2. PICK w \in ConfigRequest : w = request[r]
  BY <1>1
<1>3. w.op # "none" /\ w.ack = "none" /\ w.version \in 1 .. MaxVersion
  BY <1>1, <1>2 DEF Consistent
<1>4. PICK i \in ActiveChoice("roi"), j \in ActiveChoice("ref") :
        request' = [request EXCEPT ![r].at = "post", ![r].roi = i, ![r].ref = j]
  BY DEF ReadDocuments
<1>5. i \in 0 .. MaxDocs /\ j \in 0 .. MaxDocs
  BY <1>4, ChoiceTypes DEF DocKinds
<1>6. PICK q : q = [w EXCEPT !.at = "post", !.roi = i, !.ref = j]
  OBVIOUS
<1>7. request' = [request EXCEPT ![r] = q]
  BY <1>2, <1>4, <1>6
<1>8. /\ q \in ConfigRequest /\ q.at = "post" /\ q.op = w.op /\ q.ack = "none"
      /\ q.version = w.version /\ q.enabled = w.enabled /\ q.roi = i /\ q.ref = j
  BY <1>3, <1>5, <1>6 DEF ConfigRequest
<1>9. Consistent(q)
  BY <1>3, <1>8 DEF Consistent
<1>10. /\ ConfigTypes' /\ Numbered'
       /\ \A k \in DocKinds : Len(docs[k]) <= Len(docs'[k])
  BY <1>1, SameDocs DEF ConfigTypes
<1>11. /\ (ActiveChoice("roi"))' = ActiveChoice("roi")
       /\ (ActiveChoice("ref"))' = ActiveChoice("ref")
  BY <1>1 DEF ActiveChoice, ActiveDocs
<1>12. ASSUME ~overlapped
       PROVE  ReadRight(q)'
  <2>1. q.enabled = camera'.enabled
    BY <1>1, <1>2, <1>8, <1>12 DEF ReadRight
  <2>2. q.roi \in (ActiveChoice("roi"))' /\ q.ref \in (ActiveChoice("ref"))'
    BY <1>4, <1>8, <1>11
  <2> QED
    BY <1>8, <2>1, <2>2 DEF ReadRight
<1>13. q.op # "none" /\ q.at # "insert"
  BY <1>3, <1>8
<1> QED
  BY <1>1, <1>2, <1>3, <1>7, <1>9, <1>10, <1>12, <1>13, RequestStep

\* What an agent keeps of a push fits, and carries what the push has read.
LEMMA StoredTypes ==
  ASSUME ConfigInv, NEW r \in Requests, request[r].at = "post"
  PROVE  /\ StoredConfig(r) \in [stored : BOOLEAN, version : 0 .. MaxVersion, enabled : BOOLEAN,
                                 roi : 0 .. MaxDocs, refs : 0 .. MaxDocs]
         /\ StoredConfig(r).version = request[r].version
         /\ StoredConfig(r).enabled = request[r].enabled
         /\ StoredConfig(r).roi = request[r].roi
         /\ request[r].ref # 0 => StoredConfig(r).refs = request[r].ref
<1>1. ConfigTypes /\ request[r] \in ConfigRequest /\ Consistent(request[r])
  BY DEF ConfigInv, RequestTypes
<1>2. PICK w \in ConfigRequest : w = request[r]
  BY <1>1
<1>3. /\ w.version \in 1 .. MaxVersion /\ w.enabled \in BOOLEAN
      /\ w.roi \in 0 .. MaxDocs /\ w.ref \in 0 .. MaxDocs
  BY <1>1, <1>2 DEF Consistent, ConfigRequest
<1>4. w.version \in 0 .. MaxVersion
  BY <1>3, ConfigAssumption
<1>5. PICK refs \in 0 .. MaxDocs : refs = IF w.ref = 0 THEN edge.refs ELSE w.ref
  BY <1>1, <1>3 DEF ConfigTypes
<1>6. StoredConfig(r) = [stored |-> TRUE, version |-> w.version, enabled |-> w.enabled,
                         roi |-> w.roi, refs |-> refs]
  BY <1>2, <1>5 DEF StoredConfig
<1>7. w.ref # 0 => refs = w.ref
  BY <1>5
<1> QED
  BY <1>2, <1>3, <1>4, <1>6, <1>7

\* An answered push: the edge has what the push has read.
LEMMA PostAnsweredStep ==
  ASSUME ConfigInv, NEW r \in Requests, PostAnswered(r)
  PROVE  ConfigInv'
<1>1. /\ ConfigTypes /\ request[r].at = "post"
      /\ UNCHANGED <<docs, camera, failures, overlapped>> /\ edge' = StoredConfig(r)
      /\ request[r] \in ConfigRequest /\ Consistent(request[r])
      /\ ~overlapped => ReadRight(request[r])
  BY DEF ConfigInv, RequestTypes, UnderWay, PostAnswered
<1>2. PICK w \in ConfigRequest : w = request[r]
  BY <1>1
<1>3. w.op # "none" /\ w.version \in 1 .. MaxVersion
  BY <1>1, <1>2 DEF Consistent
<1>4. PICK q : q = [w EXCEPT !.at = "record", !.ack = "received"]
  OBVIOUS
<1>5. request' = [request EXCEPT ![r] = q]
  BY <1>2, <1>4 DEF PostAnswered
<1>6. /\ q \in ConfigRequest /\ q.at = "record" /\ q.op = w.op /\ q.ack = "received"
      /\ q.version = w.version
  BY <1>4 DEF ConfigRequest
<1>7. Consistent(q)
  BY <1>3, <1>6 DEF Consistent
<1>8. /\ edge' \in [stored : BOOLEAN, version : 0 .. MaxVersion, enabled : BOOLEAN,
                    roi : 0 .. MaxDocs, refs : 0 .. MaxDocs]
      /\ edge'.version = w.version /\ edge'.enabled = w.enabled /\ edge'.roi = w.roi
      /\ w.ref # 0 => edge'.refs = w.ref
  BY <1>1, <1>2, StoredTypes
<1>9. /\ docs' \in [DocKinds -> Seq(ConfigDoc)] /\ Numbered'
      /\ \A k \in DocKinds : Len(docs'[k]) <= MaxDocs
      /\ \A k \in DocKinds : Len(docs[k]) <= Len(docs'[k])
  BY <1>1, SameDocs
<1>10. ConfigTypes'
  BY <1>1, <1>8, <1>9 DEF ConfigTypes
<1>11. ASSUME ~overlapped
       PROVE  ReadRight(q)'
  <2>1. /\ w.enabled = camera.enabled /\ w.roi \in ActiveChoice("roi")
        /\ w.ref \in ActiveChoice("ref")
    BY <1>1, <1>2, <1>11 DEF ReadRight
  <2>2. /\ (ActiveChoice("roi"))' = ActiveChoice("roi")
        /\ (ActiveDocs("ref"))' = ActiveDocs("ref")
    BY <1>1 DEF ActiveChoice, ActiveDocs
  <2>3. ActiveDocs("ref") # {} => w.ref \in ActiveDocs("ref") /\ w.ref # 0
    <3>1. ActiveDocs("ref") \subseteq 1 .. MaxDocs
      BY ChoiceTypes DEF DocKinds
    <3>2. ActiveDocs("ref") # {} => w.ref \in ActiveDocs("ref")
      BY <2>1 DEF ActiveChoice
    <3> QED
      BY <3>1, <3>2, ConfigAssumption
  <2>4. Carried(q.version)'
    BY <1>1, <1>6, <1>8, <2>1, <2>2, <2>3 DEF Carried
  <2> QED
    BY <1>6, <2>4 DEF ReadRight
<1>12. q.op # "none" /\ q.at # "insert"
  BY <1>3, <1>6
<1> QED
  BY <1>1, <1>2, <1>3, <1>5, <1>7, <1>9, <1>10, <1>11, <1>12, RequestStep

\* An attempt that fails changes the files or not; there is a second one, and no answer.
LEMMA PostFailsStep ==
  ASSUME ConfigInv, NEW r \in Requests, NEW handled \in BOOLEAN, PostFails(r, handled)
  PROVE  ConfigInv'
<1>1. /\ ConfigTypes /\ request[r].at = "post"
      /\ UNCHANGED <<docs, camera, overlapped>>
      /\ edge' = IF handled THEN StoredConfig(r) ELSE edge
      /\ request[r] \in ConfigRequest /\ Consistent(request[r])
      /\ ~overlapped => ReadRight(request[r])
  BY DEF ConfigInv, RequestTypes, UnderWay, PostFails
<1>2. PICK w \in ConfigRequest : w = request[r]
  BY <1>1
<1>3. w.op # "none" /\ w.ack = "none" /\ w.version \in 1 .. MaxVersion /\ w.tries \in Nat
  BY <1>1, <1>2 DEF Consistent, ConfigRequest
<1>4. PICK at \in {"post", "record"} : at = IF w.tries = 0 THEN "post" ELSE "record"
  OBVIOUS
<1>n. PICK n \in Nat : n = w.tries + 1
  BY <1>3
<1>5. PICK q : q = [w EXCEPT !.tries = n, !.at = at]
  OBVIOUS
<1>6. request' = [request EXCEPT ![r] = q]
  <2>1. request' = [request EXCEPT ![r].tries = n, ![r].at = at]
    BY <1>2, <1>4, <1>n DEF PostFails
  <2> QED
    BY <1>2, <1>5, <2>1
<1>7. /\ q \in ConfigRequest /\ q.at = at /\ q.op = w.op /\ q.ack = "none"
      /\ q.version = w.version /\ q.enabled = w.enabled /\ q.roi = w.roi /\ q.ref = w.ref
  BY <1>3, <1>5 DEF ConfigRequest
<1>8. Consistent(q)
  BY <1>3, <1>7 DEF Consistent
<1>9. failures' \in 0 .. MaxFailures
  <2>1. failures' = failures \/ (failures < MaxFailures /\ failures' = failures + 1)
    BY DEF PostFails
  <2> QED
    BY <1>1, <2>1, ConfigAssumption DEF ConfigTypes
<1>10. edge' \in [stored : BOOLEAN, version : 0 .. MaxVersion, enabled : BOOLEAN,
                  roi : 0 .. MaxDocs, refs : 0 .. MaxDocs]
  BY <1>1, StoredTypes DEF ConfigTypes
<1>11. /\ docs' \in [DocKinds -> Seq(ConfigDoc)] /\ Numbered'
       /\ \A k \in DocKinds : Len(docs'[k]) <= MaxDocs
       /\ \A k \in DocKinds : Len(docs[k]) <= Len(docs'[k])
  BY <1>1, SameDocs
<1>12. ConfigTypes'
  BY <1>1, <1>9, <1>10, <1>11 DEF ConfigTypes
<1>13. ASSUME ~overlapped
       PROVE  ReadRight(q)'
  <2>1. /\ w.enabled = camera.enabled /\ w.roi \in ActiveChoice("roi")
        /\ w.ref \in ActiveChoice("ref")
    BY <1>1, <1>2, <1>13 DEF ReadRight
  <2>2. /\ (ActiveChoice("roi"))' = ActiveChoice("roi")
        /\ (ActiveChoice("ref"))' = ActiveChoice("ref")
    BY <1>1 DEF ActiveChoice, ActiveDocs
  <2> QED
    BY <1>1, <1>7, <2>1, <2>2 DEF ReadRight
<1>14. q.op # "none" /\ q.at # "insert"
  BY <1>3, <1>4, <1>7
<1> QED
  BY <1>1, <1>2, <1>3, <1>6, <1>8, <1>11, <1>12, <1>13, <1>14, RequestStep

\* A push the agent refuses: whatever of it is stored, no answer says it was received.
LEMMA PostRefusedStep ==
  ASSUME ConfigInv, NEW r \in Requests, PostRefused(r)
  PROVE  ConfigInv'
<1>1. /\ ConfigTypes /\ request[r].at = "post"
      /\ UNCHANGED <<docs, camera, overlapped>>
      /\ edge' \in {edge, [edge EXCEPT !.refs = StoredConfig(r).refs], StoredConfig(r)}
      /\ failures < MaxFailures /\ failures' = failures + 1
      /\ request[r] \in ConfigRequest /\ Consistent(request[r])
  BY DEF ConfigInv, RequestTypes, PostRefused
<1>2. PICK w \in ConfigRequest : w = request[r]
  BY <1>1
<1>3. w.op # "none" /\ w.version \in 1 .. MaxVersion
  BY <1>1, <1>2 DEF Consistent
<1>4. PICK q : q = [w EXCEPT !.at = "record", !.ack = "failed"]
  OBVIOUS
<1>5. request' = [request EXCEPT ![r] = q]
  BY <1>2, <1>4 DEF PostRefused
<1>6. /\ q \in ConfigRequest /\ q.at = "record" /\ q.op = w.op /\ q.ack = "failed"
      /\ q.version = w.version
  BY <1>4 DEF ConfigRequest
<1>7. Consistent(q)
  BY <1>3, <1>6 DEF Consistent
<1>8. edge' \in [stored : BOOLEAN, version : 0 .. MaxVersion, enabled : BOOLEAN,
                 roi : 0 .. MaxDocs, refs : 0 .. MaxDocs]
  <2>1. PICK c \in [stored : BOOLEAN, version : 0 .. MaxVersion, enabled : BOOLEAN,
                    roi : 0 .. MaxDocs, refs : 0 .. MaxDocs] : c = StoredConfig(r)
    BY <1>1, StoredTypes
  <2> QED
    BY <1>1, <2>1 DEF ConfigTypes
<1>9. /\ docs' \in [DocKinds -> Seq(ConfigDoc)] /\ Numbered'
      /\ \A k \in DocKinds : Len(docs'[k]) <= MaxDocs
      /\ \A k \in DocKinds : Len(docs[k]) <= Len(docs'[k])
  BY <1>1, SameDocs
<1>10. ConfigTypes'
  BY <1>1, <1>8, <1>9, ConfigAssumption DEF ConfigTypes
<1>11. ReadRight(q)'
  BY <1>6 DEF ReadRight
<1>12. q.op # "none" /\ q.at # "insert"
  BY <1>3, <1>6
<1> QED
  BY <1>1, <1>2, <1>3, <1>5, <1>7, <1>9, <1>10, <1>11, <1>12, RequestStep

\* The outcome is recorded: what is shown as received is what the edge has.
LEMMA RecordStep ==
  ASSUME ConfigInv, NEW r \in Requests, Record(r)
  PROVE  ConfigInv'
<1>1. /\ ConfigTypes /\ request[r].at = "record"
      /\ UNCHANGED <<docs, edge, failures, overlapped>>
      /\ request[r] \in ConfigRequest /\ Consistent(request[r])
      /\ ~overlapped => ReadRight(request[r])
  BY DEF ConfigInv, RequestTypes, UnderWay, Record
<1>2. PICK w \in ConfigRequest : w = request[r]
  BY <1>1
<1>3. w.op # "none" /\ w.version \in 0 .. MaxVersion
  BY <1>1, <1>2, ConfigAssumption DEF Consistent
<1>4. PICK c \in {"received", "failed", "push_pending"} :
        c = IF w.ack = "none" THEN "push_pending" ELSE w.ack
  BY DEF ConfigRequest
<1>5. camera' = [camera EXCEPT !.version = w.version, !.config = c]
  BY <1>2, <1>4 DEF Record
<1>6. /\ camera' \in [status : {"active", "inactive"}, enabled : BOOLEAN,
                      version : 0 .. MaxVersion,
                      config : {"waiting", "received", "failed", "push_pending"}]
      /\ camera'.version = w.version /\ camera'.config = c /\ camera'.enabled = camera.enabled
  BY <1>1, <1>3, <1>5 DEF ConfigTypes
<1>7. /\ docs' \in [DocKinds -> Seq(ConfigDoc)] /\ Numbered'
      /\ \A k \in DocKinds : Len(docs'[k]) <= MaxDocs
      /\ \A k \in DocKinds : Len(docs[k]) <= Len(docs'[k])
  BY <1>1, SameDocs
<1>8. ConfigTypes'
  BY <1>1, <1>6, <1>7 DEF ConfigTypes
<1>9. PICK q : q = Quiet
  OBVIOUS
<1>10. /\ Consistent(q) /\ q.at = "start" /\ request' = [request EXCEPT ![r] = q]
  BY <1>9, QuietTypes DEF Record
<1>11. ReadRight(q)' /\ q.at # "insert"
  BY <1>10 DEF ReadRight
<1>12. ASSUME ~overlapped, camera'.config = "received"
       PROVE  Carried(camera.version)'
  <2>1. w.ack = "received"
    BY <1>4, <1>6, <1>12
  <2>2. Carried(w.version)
    BY <1>1, <1>2, <1>12, <2>1 DEF ReadRight
  <2>3. /\ (ActiveChoice("roi"))' = ActiveChoice("roi")
        /\ (ActiveDocs("ref"))' = ActiveDocs("ref")
    BY <1>1 DEF ActiveChoice, ActiveDocs
  <2> QED
    BY <1>1, <1>6, <2>2, <2>3 DEF Carried
<1> QED
  BY <1>1, <1>2, <1>3, <1>7, <1>8, <1>10, <1>11, <1>12, RequestStep

\* The requests of one write touch only the status of the camera.
LEMMA StatusStep ==
  ASSUME ConfigInv, Reactivate \/ TestConnection
  PROVE  ConfigInv'
<1>1. /\ ConfigTypes /\ RequestTypes /\ Numbered /\ Alone /\ UnderWay /\ AtRest
      /\ UNCHANGED <<docs, request, edge, failures, overlapped>>
  BY DEF ConfigInv, Reactivate, TestConnection
<1>2. /\ camera' \in [status : {"active", "inactive"}, enabled : BOOLEAN,
                      version : 0 .. MaxVersion,
                      config : {"waiting", "received", "failed", "push_pending"}]
      /\ camera'.version = camera.version /\ camera'.enabled = camera.enabled
      /\ camera'.config = "received" => camera.config = "received"
  <2>1. CASE Reactivate
    BY <1>1, <2>1 DEF ConfigTypes, Reactivate
  <2>2. CASE TestConnection
    BY <1>1, <2>2 DEF ConfigTypes, TestConnection
  <2> QED
    BY <2>1, <2>2
<1>3. ConfigTypes'
  BY <1>1, <1>2 DEF ConfigTypes
<1>4. RequestTypes'
  BY <1>1 DEF RequestTypes, Consistent
<1>5. Numbered' /\ Alone'
  BY <1>1 DEF Numbered, Alone
<1>6. /\ (ActiveChoice("roi"))' = ActiveChoice("roi")
      /\ (ActiveChoice("ref"))' = ActiveChoice("ref")
      /\ (ActiveDocs("ref"))' = ActiveDocs("ref")
  BY <1>1 DEF ActiveChoice, ActiveDocs
<1>7. UnderWay'
  BY <1>1, <1>2, <1>6 DEF UnderWay, ReadRight, Carried
<1>8. AtRest'
  BY <1>1, <1>2, <1>6 DEF AtRest, Carried
<1> QED
  BY <1>3, <1>4, <1>5, <1>7, <1>8 DEF ConfigInv

LEMMA ConfigStutter ==
  ASSUME ConfigInv, UNCHANGED configVars
  PROVE  ConfigInv'
<1>1. /\ ConfigTypes /\ RequestTypes /\ Numbered /\ Alone /\ UnderWay /\ AtRest
      /\ UNCHANGED <<docs, camera, request, edge, failures, overlapped>>
  BY DEF ConfigInv, configVars
<1>2. ConfigTypes' /\ Numbered' /\ Alone'
  BY <1>1 DEF ConfigTypes, Numbered, Alone
<1>3. RequestTypes'
  BY <1>1 DEF RequestTypes, Consistent
<1>4. UnderWay'
  BY <1>1 DEF UnderWay, ReadRight, Carried, ActiveChoice, ActiveDocs
<1>5. AtRest'
  BY <1>1 DEF AtRest, Carried, ActiveChoice, ActiveDocs
<1> QED
  BY <1>2, <1>3, <1>4, <1>5 DEF ConfigInv

\* Every step of every request keeps the invariant of the configuration.
LEMMA ConfigInductive == ConfigInv /\ [ConfigNext]_configVars => ConfigInv'
<1> SUFFICES ASSUME ConfigInv, [ConfigNext]_configVars
             PROVE  ConfigInv'
  OBVIOUS
<1>1. ASSUME NEW r \in Requests,
             (\E k \in DocKinds : BeginSave(r, k)) \/ BeginToggle(r) \/ BeginDelete(r)
               \/ BeginPush(r)
      PROVE  ConfigInv'
  BY <1>1, BeginSteps
<1>2. ASSUME NEW r \in Requests, Step(r)
      PROVE  ConfigInv'
  BY <1>2, NumberStep, InsertStep, ToggleStep, CascadeStep, ReadCameraStep,
     ReadDocumentsStep, PostAnsweredStep, RecordStep DEF Step
<1>3. ASSUME NEW r \in Requests,
             PostRefused(r) \/ \E handled \in BOOLEAN : PostFails(r, handled)
      PROVE  ConfigInv'
  BY <1>3, PostFailsStep, PostRefusedStep
<1>4. CASE Reactivate \/ TestConnection
  BY <1>4, StatusStep
<1>5. CASE UNCHANGED configVars
  BY <1>5, ConfigStutter
<1> QED
  BY <1>1, <1>2, <1>3, <1>4, <1>5 DEF ConfigNext

\* The invariant of the configuration of a camera: every step of every request keeps it.
LEMMA ConfigInvariant == ConfigSpec => []ConfigInv
  BY ConfigInitInv, ConfigInductive, PTL DEF ConfigSpec

LEMMA ConfigTyped == ConfigInv => ConfigTypeOK
<1> SUFFICES ASSUME ConfigInv
             PROVE  ConfigTypeOK
  OBVIOUS
<1>1. ConfigTypes /\ Numbered /\ MaxDocs \in Nat
  BY ConfigAssumption DEF ConfigInv
<1>2. ASSUME NEW k \in DocKinds, NEW i \in DOMAIN docs[k]
      PROVE  docs[k][i] \in [version : 1 .. MaxDocs, active : BOOLEAN]
  <2>1. PICK s \in Seq(ConfigDoc) : s = docs[k]
    BY <1>1 DEF ConfigTypes
  <2>2. PICK n \in Nat : n = Len(s) /\ n <= MaxDocs
    BY <1>1, <2>1, LenProperties DEF ConfigTypes
  <2>3. i \in 1 .. n
    BY <1>2, <2>1, <2>2, LenProperties
  <2>4. s[i] \in ConfigDoc
    BY <2>2, <2>3, ElementOfSeq
  <2>5. s[i].version \in 1 .. i
    BY <1>1, <2>1, <2>2, <2>3 DEF Numbered
  <2>6. s[i].version \in 1 .. MaxDocs
    BY <1>1, <2>2, <2>3, <2>5
  <2> QED
    BY <2>1, <2>4, <2>6 DEF ConfigDoc
<1> QED
  BY <1>1, <1>2 DEF ConfigTypes, ConfigTypeOK

\* Type correctness of the configuration: two requests that number their documents at the
\* same time give the same number twice, but never one beyond the documents there are, and
\* what they carry to the edge and record stays within its types.
THEOREM ConfigTypeCorrect == ConfigSpec => []ConfigTypeOK
  BY ConfigTyped, ConfigInvariant, PTL

\* Whatever the requests, and whichever attempts fail or lose their answer: a camera that is
\* shown as "received" while nothing is under way, and since whose last quiet moment no two
\* requests overlapped, runs on the edge with the version, the region of interest, the switch
\* and (if there is one) the dry reference its documents have.
THEOREM AckedConfigInForceCorrect == ConfigSpec => []AckedConfigInForce
<1>1. ConfigInv => AckedConfigInForce
  BY DEF ConfigInv, AtRest, AckedConfigInForce, Carried, Busy
<1> QED
  BY <1>1, ConfigInvariant, PTL
===============================================================================
