-------------------------- MODULE ValkeyStoreProofs --------------------------
(***************************************************************************)
(* Proofs about ValkeyStore, for every set of agents, workers, tokens,     *)
(* queues and updaters: the indexes always agree with the agents, and      *)
(* until an update races the scripts complete agents exactly once, log     *)
(* every version and implement the contract of AgentSpace.                 *)
(***************************************************************************)
EXTENDS ValkeyStore, FiniteSetTheorems, TLAPS

USE AgentsAssumption, TokensAssumption, KindsAssumption, QueuesAssumption

-----------------------------------------------------------------------------
(* What the scripts write into one agent *)

\* The record that stands for an agent that is not stored.
LEMMA AbsentFacts ==
    /\ Absent \in Agent
    /\ Absent.status = "NONE" /\ Absent.version = 0
    /\ Absent.lease_token = NoToken /\ Absent.completed_by = NoToken
<1>1. (CHOOSE q \in Queues : TRUE) \in Queues
  OBVIOUS
<1> QED BY <1>1 DEF Absent, Agent

\* The record Out writes.
LEMMA NewFacts ==
    ASSUME NEW k \in Kinds, NEW q \in Queues, NEW o \in Tokens \cup {NoToken}
    PROVE  /\ New(k, q, o) \in Agent
           /\ New(k, q, o).status = "NEW"
           /\ New(k, q, o).lease_token = NoToken
           /\ New(k, q, o).completed_by = NoToken
           /\ New(k, q, o).version = 1
BY Zenon DEF New, Absent, Agent

\* The record a claim writes.
LEMMA ClaimedFacts ==
    ASSUME NEW r \in Agent, NEW w \in Workers, NEW t \in Tokens
    PROVE  /\ Claimed(r, w, t) \in Agent
           /\ Claimed(r, w, t).status = "IN_PROGRESS"
           /\ Claimed(r, w, t).lease_token = t
           /\ Claimed(r, w, t).completed_by = r.completed_by
           /\ Claimed(r, w, t).version = r.version + 1
BY DEF Claimed, Agent

\* The record a release or a reap writes.
LEMMA FreedFacts ==
    ASSUME NEW r \in Agent, NEW s \in {"NEW", "COMPLETED"}
    PROVE  /\ Freed(r, s) \in Agent
           /\ Freed(r, s).status = s
           /\ Freed(r, s).lease_token = NoToken
           /\ Freed(r, s).completed_by = r.completed_by
           /\ Freed(r, s).version = r.version + 1
BY DEF Freed, Agent

\* The record a completion writes.
LEMMA CompletedFacts ==
    ASSUME NEW r \in Agent
    PROVE  /\ Completed(r) \in Agent
           /\ Completed(r).status = "COMPLETED"
           /\ Completed(r).lease_token = NoToken
           /\ Completed(r).completed_by = r.lease_token
           /\ Completed(r).version = r.version + 1
BY FreedFacts, ZenonT(40) DEF Completed, Agent

\* The record a renewal writes.
LEMMA RenewedFacts ==
    ASSUME NEW r \in Agent
    PROVE  /\ Renewed(r) \in Agent
           /\ Renewed(r).status = r.status
           /\ Renewed(r).lease_token = r.lease_token
           /\ Renewed(r).completed_by = r.completed_by
           /\ Renewed(r).version = r.version
BY DEF Renewed, Agent

\* The record an update writes over the one it read.
LEMMA UpdatedFacts ==
    ASSUME NEW r \in Agent, NEW q \in Queues
    PROVE  /\ Updated(r, q) \in Agent
           /\ Updated(r, q).status = r.status
           /\ Updated(r, q).lease_token = r.lease_token
           /\ Updated(r, q).completed_by = r.completed_by
           /\ Updated(r, q).version = r.version + 1
<1>1. [r EXCEPT !.queue = q] \in Agent
  BY DEF Agent
<1>2. \A x \in Agent : [x EXCEPT !.version = @ + 1] \in Agent
  BY DEF Agent
<1>3. Updated(r, q) = [[r EXCEPT !.queue = q] EXCEPT !.version = @ + 1]
  BY DEF Updated, Agent
<1>4. Updated(r, q) \in Agent
  BY <1>1, <1>2, <1>3, Zenon
<1> QED BY <1>4 DEF Updated, Agent

-----------------------------------------------------------------------------
(* The inductive invariant *)

\* The events of agent a in the stream.
Log(a) == {f \in events : f.agent = a}

\* An agent that was never published is still blank.
BlankAgents == \A a \in Agents : agent[a].status = "NONE" => agent[a] = Absent

\* The stream holds one event per version of every agent, and is finite.
LogIsWhole ==
    \A a \in Agents :
      /\ IsFiniteSet(Log(a))
      /\ {e.version : e \in Log(a)} = 1 .. agent[a].version
      /\ Cardinality(Log(a)) = agent[a].version

\* An update reads an agent that was published.
ReadingsExist ==
    \A u \in Updaters : \A read \in reading[u] : read[2].status # "NONE"

\* The indexes match whatever races; exactly-once completion and the log are
\* kept only until an update races.
IInv ==
    /\ IndexesMatchAgents
    /\ BlankAgents
    /\ ReadingsExist
    /\ raced \/ (ConfirmedIsTheCompletion /\ LogIsWhole)

-----------------------------------------------------------------------------
(* What a step may do to the agents, as far as the contract can tell *)

Same(b) ==
    /\ agent'[b].status = agent[b].status
    /\ agent'[b].lease_token = agent[b].lease_token
    /\ agent'[b].completed_by = agent[b].completed_by

\* Nothing the contract speaks of, but possibly a repeated confirmation.
Quiet ==
    /\ \A b \in Agents : Same(b)
    /\ issued' = issued
    /\ \A a \in Agents, t \in Tokens :
         <<a, t>> \in acked' => \/ <<a, t>> \in acked
                                \/ /\ agent[a].status = "COMPLETED"
                                   /\ agent[a].completed_by = t

Publishes(S) ==
    /\ \A b \in S : /\ agent[b].status = "NONE"
                    /\ agent'[b].status = "NEW"
                    /\ agent'[b].lease_token = agent[b].lease_token
                    /\ agent'[b].completed_by = agent[b].completed_by
    /\ \A b \in Agents \ S : Same(b)
    /\ issued' = issued
    /\ acked' = acked

ClaimsFor(S, tok) ==
    /\ \A b \in S : /\ agent[b].status = "NEW"
                    /\ tok[b] \notin issued
                    /\ agent'[b].status = "IN_PROGRESS"
                    /\ agent'[b].lease_token = tok[b]
                    /\ agent'[b].completed_by = agent[b].completed_by
    /\ \A b, c \in S : tok[b] = tok[c] => b = c
    /\ \A b \in Agents \ S : Same(b)
    /\ issued' = issued \cup {tok[b] : b \in S}
    /\ acked' = acked

GivesBack(S) ==
    /\ \A b \in S : /\ agent[b].status = "IN_PROGRESS"
                    /\ agent'[b].status = "NEW"
                    /\ agent'[b].lease_token = NoToken
                    /\ agent'[b].completed_by = agent[b].completed_by
    /\ \A b \in Agents \ S : Same(b)
    /\ issued' = issued
    /\ acked' = acked

Finishes(a, S) ==
    /\ a \notin S
    /\ agent[a].status = "IN_PROGRESS"
    /\ agent'[a].status = "COMPLETED"
    /\ agent'[a].lease_token = NoToken
    /\ agent'[a].completed_by = agent[a].lease_token
    /\ \A b \in S : /\ agent[b].status = "NONE"
                    /\ agent'[b].status = "NEW"
                    /\ agent'[b].lease_token = agent[b].lease_token
                    /\ agent'[b].completed_by = agent[b].completed_by
    /\ \A b \in Agents \ (S \cup {a}) : Same(b)
    /\ issued' = issued
    /\ acked' = acked \cup {<<a, agent[a].lease_token>>}

Shape ==
    \/ Quiet
    \/ \E S \in SUBSET Agents : Publishes(S) \/ GivesBack(S)
    \/ \E S \in SUBSET Agents : \E tok \in [S -> Tokens] : ClaimsFor(S, tok)
    \/ \E a \in Agents : \E S \in SUBSET Agents : Finishes(a, S)

\* The agents of S move to their next version, each with one event of it, and
\* no other agent changes its version or its events.
Logged(S) ==
    /\ \A a \in S :
         /\ agent'[a].version = agent[a].version + 1
         /\ \E e \in Event : /\ e.agent = a /\ e.version = agent'[a].version
                             /\ Log(a)' = Log(a) \cup {e}
    /\ \A a \in Agents \ S :
         agent'[a].version = agent[a].version /\ Log(a)' = Log(a)

\* What every step amounts to.
Step ==
    /\ IndexesMatchAgents'
    /\ ReadingsExist'
    /\ \A a \in Agents : agent'[a] = agent[a] \/ agent'[a].status # "NONE"
    /\ raced' \/ (~raced /\ Shape /\ \E S \in SUBSET Agents : Logged(S))

-----------------------------------------------------------------------------
(* The steps every operation is made of *)

\* What storing an agent does to the hash and the indexes.
LEMMA PersistFacts ==
    ASSUME IndexesMatchAgents, NEW S \in SUBSET Agents, NEW new \in [S -> Agent],
           Persist(new)
    PROVE  /\ agent' \in [Agents -> Agent]
           /\ \A a \in S : agent'[a] = new[a]
           /\ \A a \in Agents \ S : agent'[a] = agent[a]
           /\ \A a \in Agents : index'[a] = Keys(agent'[a])
<1>1. \A a \in Agents : agent'[a] = IF a \in S THEN new[a] ELSE agent[a]
  BY DEF Persist
<1>2. agent' \in [Agents -> Agent]
  BY DEF Persist, IndexesMatchAgents, TypeOK
<1>3. ASSUME NEW a \in Agents
      PROVE  index'[a] = Keys(agent'[a])
  <2>1. index[a] = Keys(agent[a])
    BY DEF IndexesMatchAgents
  <2>2. index'[a] = IF a \in S THEN (index[a] \ Keys(agent[a])) \cup Keys(new[a])
                    ELSE index[a]
    BY DEF Persist
  <2> QED BY <1>1, <2>1, <2>2, ZenonT(40)
<1> QED BY <1>1, <1>2, <1>3

\* The events a script appends: one for each agent it writes, with its version.
LEMMA AppendFacts ==
    ASSUME TypeOK, agent' \in [Agents -> Agent],
           NEW S \in SUBSET Agents,
           NEW ty \in [S -> {"CREATED", "CLAIMED", "UPDATED", "COMPLETED", "RELEASED"}],
           events' = events \cup {[agent |-> b, version |-> agent'[b].version,
                                   type |-> ty[b]] : b \in S},
           \A a \in S : agent'[a].version = agent[a].version + 1,
           \A a \in Agents \ S : agent'[a].version = agent[a].version
    PROVE  events' \subseteq Event /\ Logged(S)
<1> DEFINE E(b) == [agent |-> b, version |-> agent'[b].version, type |-> ty[b]]
<1>1. \A b \in S : E(b) \in Event
  BY Zenon DEF Event, Agent
<1>2. events' \subseteq Event
  BY <1>1 DEF TypeOK
<1>3. ASSUME NEW a \in S
      PROVE  \E e \in Event : /\ e.agent = a /\ e.version = agent'[a].version
                              /\ Log(a)' = Log(a) \cup {e}
  <2>1. E(a).agent = a /\ E(a).version = agent'[a].version
    OBVIOUS
  <2>2. Log(a)' = Log(a) \cup {E(a)}
    BY DEF Log
  <2> QED BY <1>1, <2>1, <2>2, Zenon
<1>4. ASSUME NEW a \in Agents \ S
      PROVE  Log(a)' = Log(a)
  BY DEF Log
<1> QED BY <1>2, <1>3, <1>4 DEF Logged

\* A script that writes an agent and its event keeps the log whole.
LEMMA LoggedKeepsLog ==
    ASSUME TypeOK, LogIsWhole, NEW S \in SUBSET Agents, Logged(S)
    PROVE  LogIsWhole'
<1> SUFFICES ASSUME NEW a \in Agents
             PROVE  /\ IsFiniteSet(Log(a)')
                    /\ {e.version : e \in Log(a)'} = 1 .. agent'[a].version
                    /\ Cardinality(Log(a)') = agent'[a].version
  BY DEF LogIsWhole
<1>1. /\ IsFiniteSet(Log(a))
      /\ {e.version : e \in Log(a)} = 1 .. agent[a].version
      /\ Cardinality(Log(a)) = agent[a].version
  BY DEF LogIsWhole
<1>2. agent[a].version \in Nat
  BY DEF TypeOK, Agent
<1>3. CASE a \notin S
  BY <1>1, <1>3, Zenon DEF Logged
<1>4. CASE a \in S
  <2>1. PICK e \in Event : /\ e.agent = a /\ e.version = agent'[a].version
                           /\ Log(a)' = Log(a) \cup {e}
    BY <1>4, Zenon DEF Logged
  <2>2. agent'[a].version = agent[a].version + 1
    BY <1>4 DEF Logged
  <2>3. e \notin Log(a)
    <3>1. e.version \notin 1 .. agent[a].version
      BY <1>2, <2>1, <2>2
    <3> QED BY <1>1, <3>1
  <2>4. IsFiniteSet(Log(a)') /\ Cardinality(Log(a)') = agent[a].version + 1
    BY <1>1, <2>1, <2>3, FS_AddElement
  <2>5. {f.version : f \in Log(a)'} = {f.version : f \in Log(a)} \cup {agent[a].version + 1}
    BY <2>1, <2>2
  <2>6. 1 .. (agent[a].version + 1) = (1 .. agent[a].version) \cup {agent[a].version + 1}
    BY <1>2
  <2> QED BY <1>1, <2>2, <2>4, <2>5, <2>6, Zenon
<1> QED BY <1>3, <1>4

-----------------------------------------------------------------------------
(* Every operation is such a step *)

Types == {"CREATED", "CLAIMED", "UPDATED", "COMPLETED", "RELEASED"}

\* One event for every agent of S.
LogsOne(S, ty) ==
    events' = events \cup {[agent |-> b, version |-> agent'[b].version,
                            type |-> ty[b]] : b \in S}

\* What is not an agent, an index or an event keeps its type.
Bookkeeping ==
    /\ issued' \subseteq Tokens
    /\ returned' \subseteq Workers \X Agents \X Tokens
    /\ acked' \subseteq Agents \X Tokens
    /\ reading' \in [Updaters -> SUBSET (Agents \X Agent)]
    /\ ReadingsExist'
    /\ raced' \in BOOLEAN

\* Until an update races, every agent of S gets its next version.
Follows(S, new) ==
    raced' \/ (/\ ~raced /\ Shape
               /\ \A a \in S : new[a].version = agent[a].version + 1)

\* A script that writes the agents of S and logs one event for each.
LEMMA ScriptIsStep ==
    ASSUME IInv, NEW S \in SUBSET Agents, NEW new \in [S -> Agent], Persist(new),
           NEW ty \in [S -> Types], LogsOne(S, ty), Bookkeeping, Follows(S, new),
           \A a \in S : new[a].status # "NONE"
    PROVE  Step
<1>1. /\ agent' \in [Agents -> Agent]
      /\ \A a \in S : agent'[a] = new[a]
      /\ \A a \in Agents \ S : agent'[a] = agent[a]
      /\ \A a \in Agents : index'[a] = Keys(agent'[a])
  BY PersistFacts, Zenon DEF IInv
<1>2. TypeOK
  BY DEF IInv, IndexesMatchAgents
<1>3. events' \subseteq Event
  <2>1. \A b \in S : [agent |-> b, version |-> agent'[b].version,
                      type |-> ty[b]] \in Event
    BY <1>1, Zenon DEF Event, Agent, Types
  <2> QED BY <1>2, <2>1, Zenon DEF TypeOK, LogsOne
<1>4. IndexesMatchAgents'
  BY <1>1, <1>3 DEF IndexesMatchAgents, TypeOK, Bookkeeping
<1>5. \A a \in Agents : agent'[a] = agent[a] \/ agent'[a].status # "NONE"
  BY <1>1, Zenon
<1>6. CASE raced'
  BY <1>4, <1>5, <1>6, Zenon DEF Step, Bookkeeping
<1>7. CASE ~raced'
  <2>1. ~raced /\ Shape /\ \A a \in S : new[a].version = agent[a].version + 1
    BY <1>7, Zenon DEF Follows
  <2>2. Logged(S)
    BY <1>1, <1>2, <2>1, AppendFacts, ZenonT(40) DEF LogsOne, Types
  <2> QED BY <1>4, <1>5, <2>1, <2>2, Zenon DEF Step, Bookkeeping
<1> QED BY <1>6, <1>7, Zenon

\* Out stores one agent that was not there, with its event.
LEMMA OutIsStep ==
    ASSUME IInv, NEW a \in Agents, NEW k \in Kinds, NEW q \in Queues, Out(a, k, q)
    PROVE  Step
<1> DEFINE new == [b \in {a} |-> New(k, q, NoToken)]
           ty == [b \in {a} |-> "CREATED"]
<1>1. /\ New(k, q, NoToken) \in Agent
      /\ New(k, q, NoToken).status = "NEW"
      /\ New(k, q, NoToken).lease_token = NoToken
      /\ New(k, q, NoToken).completed_by = NoToken
      /\ New(k, q, NoToken).version = 1
  BY NewFacts
<1>2. /\ TypeOK /\ ReadingsExist /\ IndexesMatchAgents
      /\ BlankAgents
  BY DEF IInv, IndexesMatchAgents
<1>3. new \in [{a} -> Agent] /\ Persist(new) /\ new[a] = New(k, q, NoToken)
  BY <1>1 DEF Out
<1>4. ty \in [{a} -> Types]
  BY Zenon DEF Types
<1>5. LogsOne({a}, ty)
  BY Zenon DEF Out, Append, LogsOne
<1>6. agent'[a] = new[a] /\ \A b \in Agents \ {a} : agent'[b] = agent[b]
  BY <1>2, <1>3, PersistFacts, ZenonT(40)
<1>7. ASSUME ~raced
      PROVE  Publishes({a}) /\ new[a].version = agent[a].version + 1
  <2>1. agent[a].status = "NONE" /\ agent[a] = Absent
    BY <1>2, <1>7, Zenon DEF Out, BlankAgents
  <2>2. new[a].version = agent[a].version + 1
    BY <1>1, <2>1, AbsentFacts
  <2>3. issued' = issued /\ acked' = acked
    BY Zenon DEF Out
  <2>4. agent'[a] = New(k, q, NoToken)
    BY <1>3, <1>6, Zenon
  <2>5. Publishes({a})
    BY <1>1, <1>6, <2>1, <2>3, <2>4, AbsentFacts, Zenon DEF Publishes, Same
  <2> QED BY <2>2, <2>5, Zenon
<1>8. /\ issued' = issued /\ returned' = returned /\ acked' = acked
      /\ reading' = reading /\ raced' = raced /\ ReadingsExist'
  BY <1>2, Zenon DEF Out, updates, ReadingsExist
<1>9. Follows({a}, new)
  BY <1>2, <1>7, <1>8, Zenon DEF Shape, Follows
<1>10. Bookkeeping
  BY <1>2, <1>8, Zenon DEF TypeOK, Bookkeeping
<1>11. {a} \in SUBSET Agents /\ \A b \in {a} : new[b].status # "NONE"
  BY <1>1, <1>3
<1> HIDE DEF new, ty
<1> QED BY <1>3, <1>4, <1>5, <1>9, <1>10, <1>11, ScriptIsStep, Zenon

\* The claim scripts move agents from NEW to IN_PROGRESS, with their events.
LEMMA ClaimsAreStep ==
    ASSUME IInv, NEW S \in SUBSET Agents, NEW w \in Workers, NEW tok \in [S -> Tokens],
           \A a \in S : agent[a].status = "NEW" /\ tok[a] \notin issued,
           \A a, b \in S : tok[a] = tok[b] => a = b,
           Persist([a \in S |-> Claimed(agent[a], w, tok[a])]),
           issued' = issued \cup {tok[a] : a \in S},
           returned' \subseteq returned \cup {<<w, a, tok[a]>> : a \in S},
           Append(S, "CLAIMED"),
           UNCHANGED <<acked, updates>>
    PROVE  Step
<1> DEFINE new == [a \in S |-> Claimed(agent[a], w, tok[a])]
           ty == [a \in S |-> "CLAIMED"]
<1>1. /\ TypeOK /\ ReadingsExist /\ IndexesMatchAgents
      /\ agent \in [Agents -> Agent]
  BY Zenon DEF IInv, IndexesMatchAgents, TypeOK
<1>2. \A a \in S : /\ new[a] = Claimed(agent[a], w, tok[a])
                   /\ new[a] \in Agent
                   /\ new[a].status = "IN_PROGRESS"
                   /\ new[a].lease_token = tok[a]
                   /\ new[a].completed_by = agent[a].completed_by
                   /\ new[a].version = agent[a].version + 1
  BY <1>1, ClaimedFacts
<1>3. new \in [S -> Agent] /\ Persist(new)
  BY <1>2
<1>4. ty \in [S -> Types]
  BY DEF Types
<1>5. LogsOne(S, ty)
  BY DEF Append, LogsOne
<1> HIDE DEF new, ty
<1>6. /\ \A a \in S : agent'[a] = new[a]
      /\ \A a \in Agents \ S : agent'[a] = agent[a]
  BY <1>1, <1>3, PersistFacts, Zenon
<1>7. ClaimsFor(S, tok)
  BY <1>2, <1>6, ZenonT(40) DEF ClaimsFor, Same
<1>8. /\ reading' = reading /\ raced' = raced /\ ReadingsExist' /\ acked' = acked
  BY <1>1, Zenon DEF updates, ReadingsExist
<1>9. Follows(S, new)
  BY <1>2, <1>7, <1>8, Zenon DEF Shape, Follows
<1>10. returned' \subseteq Workers \X Agents \X Tokens
  <2>1. \A a \in S : <<w, a, tok[a]>> \in Workers \X Agents \X Tokens
    OBVIOUS
  <2> QED BY <1>1, <2>1 DEF TypeOK
<1>11. Bookkeeping
  BY <1>1, <1>8, <1>10, Zenon DEF TypeOK, Bookkeeping
<1>12. \A a \in S : new[a].status # "NONE"
  BY <1>2, Zenon
<1> QED BY <1>3, <1>4, <1>5, <1>9, <1>11, <1>12, ScriptIsStep, Zenon

\* A take claims one agent.
LEMMA ClaimIsStep ==
    ASSUME IInv, NEW w \in Workers, NEW a \in Agents, NEW t \in Tokens, Claim(w, a, t)
    PROVE  Step
<1> DEFINE tok == [b \in {a} |-> t]
<1>1. tok \in [{a} -> Tokens] /\ tok[a] = t
  OBVIOUS
<1>2. [b \in {a} |-> Claimed(agent[b], w, tok[b])] = [b \in {a} |-> Claimed(agent[a], w, t)]
  OBVIOUS
<1>3. Persist([b \in {a} |-> Claimed(agent[b], w, tok[b])])
  BY <1>2 DEF Claim
<1> HIDE DEF tok
<1>4. /\ \A b \in {a} : agent[b].status = "NEW" /\ tok[b] \notin issued
      /\ \A b, c \in {a} : tok[b] = tok[c] => b = c
      /\ issued' = issued \cup {tok[b] : b \in {a}}
      /\ returned' \subseteq returned \cup {<<w, b, tok[b]>> : b \in {a}}
      /\ Append({a}, "CLAIMED")
      /\ UNCHANGED <<acked, updates>>
  BY <1>1 DEF Claim
<1>5. {a} \in SUBSET Agents
  OBVIOUS
<1> QED BY <1>1, <1>3, <1>4, <1>5, ClaimsAreStep, Zenon

\* A batched take claims agents of which each was NEW.
LEMMA BatchIsStep ==
    ASSUME IInv, NEW w \in Workers, NEW q \in Queues, NEW k \in Kinds \cup {AnyKind},
           NEW limit \in 1 .. Cardinality(Agents), NEW S \in SUBSET Agents,
           NEW tok \in [S -> Tokens], QueueBatchTake(w, q, k, limit, tok)
    PROVE  Step
<1>1. DOMAIN tok = S
  BY ZenonT(40)
<1>2. \A a \in S : agent[a].status = "NEW"
  BY <1>1, Zenon DEF QueueBatchTake, Batch, Waiting
<1>3. /\ \A a \in S : tok[a] \notin issued
      /\ \A a, b \in S : tok[a] = tok[b] => a = b
      /\ Persist([a \in S |-> Claimed(agent[a], w, tok[a])])
      /\ issued' = issued \cup {tok[a] : a \in S}
      /\ Append(S, "CLAIMED")
      /\ UNCHANGED <<acked, updates>>
  BY <1>1 DEF QueueBatchTake
<1>4. returned' \subseteq returned \cup {<<w, a, tok[a]>> : a \in S}
  BY <1>1, Zenon DEF QueueBatchTake
<1> QED BY <1>2, <1>3, <1>4, ClaimsAreStep

\* Release and reap move agents back to NEW, with their events.
LEMMA GiveBackIsStep ==
    ASSUME IInv, NEW S \in SUBSET Agents,
           \A a \in S : agent[a].status = "IN_PROGRESS",
           Persist([a \in S |-> Freed(agent[a], "NEW")]),
           Append(S, "RELEASED"),
           UNCHANGED <<issued, returned, acked, updates>>
    PROVE  Step
<1> DEFINE new == [a \in S |-> Freed(agent[a], "NEW")]
           ty == [a \in S |-> "RELEASED"]
<1>1. /\ TypeOK /\ ReadingsExist /\ IndexesMatchAgents
      /\ agent \in [Agents -> Agent]
  BY Zenon DEF IInv, IndexesMatchAgents, TypeOK
<1>2. \A a \in S : /\ new[a] \in Agent
                   /\ new[a].status = "NEW"
                   /\ new[a].lease_token = NoToken
                   /\ new[a].completed_by = agent[a].completed_by
                   /\ new[a].version = agent[a].version + 1
  BY <1>1, FreedFacts, Zenon
<1>3. new \in [S -> Agent] /\ Persist(new)
  BY <1>2, Zenon
<1>4. ty \in [S -> Types]
  BY Zenon DEF Types
<1>5. LogsOne(S, ty)
  BY DEF Append, LogsOne
<1> HIDE DEF new, ty
<1>6. /\ \A a \in S : agent'[a] = new[a]
      /\ \A a \in Agents \ S : agent'[a] = agent[a]
  BY <1>1, <1>3, PersistFacts, Zenon
<1>7. GivesBack(S)
  BY <1>2, <1>6, Zenon DEF GivesBack, Same
<1>8. /\ issued' = issued /\ returned' = returned /\ acked' = acked
      /\ reading' = reading /\ raced' = raced /\ ReadingsExist'
  BY <1>1, Zenon DEF updates, ReadingsExist
<1>9. Follows(S, new)
  BY <1>2, <1>7, <1>8, Zenon DEF Shape, Follows
<1>10. Bookkeeping
  BY <1>1, <1>8, Zenon DEF TypeOK, Bookkeeping
<1>11. \A a \in S : new[a].status # "NONE"
  BY <1>2, Zenon
<1> QED BY <1>3, <1>4, <1>5, <1>9, <1>10, <1>11, ScriptIsStep, Zenon

\* Completion with outputs moves one agent to COMPLETED and stores the outputs.
LEMMA FinishIsStep ==
    ASSUME IInv, NEW w \in Workers, NEW a \in Agents, NEW t \in Tokens,
           HoldsLease(w, a, t),
           NEW O \in SUBSET (Agents \ {a}), NEW k \in Kinds, NEW q \in Queues,
           \A b \in O : agent[b].status = "NONE",
           Persist(WithOutputs(a, O, k, q)),
           acked' = acked \cup {<<a, t>>},
           events' = events \cup {[agent |-> b, version |-> agent'[b].version,
                                   type |-> IF b = a THEN "COMPLETED" ELSE "CREATED"] :
                                  b \in O \cup {a}},
           UNCHANGED <<issued, returned, updates>>
    PROVE  Step
<1> DEFINE S == O \cup {a}
           new == WithOutputs(a, O, k, q)
           ty == [b \in S |-> IF b = a THEN "COMPLETED" ELSE "CREATED"]
<1>1. /\ TypeOK /\ ReadingsExist /\ IndexesMatchAgents
      /\ agent \in [Agents -> Agent] /\ agent[a] \in Agent
      /\ agent[a].lease_token \in Tokens \cup {NoToken}
      /\ agent[a].status = "IN_PROGRESS" /\ agent[a].lease_token = t
      /\ BlankAgents
  BY Zenon DEF IInv, IndexesMatchAgents, TypeOK, Agent, HoldsLease
<1>2. /\ new[a] \in Agent
      /\ new[a].status = "COMPLETED"
      /\ new[a].lease_token = NoToken
      /\ new[a].completed_by = agent[a].lease_token
      /\ new[a].version = agent[a].version + 1
  <2>1. new[a] = Completed(agent[a])
    BY Zenon DEF WithOutputs
  <2> QED BY <1>1, <2>1, CompletedFacts
<1>3. \A b \in O : /\ new[b] \in Agent
                   /\ new[b].status = "NEW"
                   /\ new[b].lease_token = NoToken
                   /\ new[b].completed_by = NoToken
                   /\ new[b].version = 1
  <2>1. \A b \in O : new[b] = New(k, q, agent[a].lease_token)
    BY DEF WithOutputs
  <2> QED BY <1>1, <2>1, NewFacts
<1>4. S \in SUBSET Agents /\ new \in [S -> Agent] /\ Persist(new)
  BY <1>2, <1>3, Zenon DEF WithOutputs
<1>5. ty \in [S -> Types]
  BY DEF Types
<1>6. LogsOne(S, ty)
  BY Zenon DEF LogsOne
<1>7. \A b \in S : b \in O \/ b = a
  BY Zenon
<1>8. a \in S /\ \A b \in O : b \in S /\ b \in Agents /\ b # a
  OBVIOUS
<1> HIDE DEF new, ty
<1>9. /\ \A b \in S : agent'[b] = new[b]
      /\ \A b \in Agents \ S : agent'[b] = agent[b]
  BY <1>1, <1>4, PersistFacts, Zenon
<1>10. ASSUME ~raced
       PROVE  \A b \in O : /\ agent[b].lease_token = NoToken
                           /\ agent[b].completed_by = NoToken
                           /\ agent[b].version = 0
  BY <1>1, <1>10, AbsentFacts, Zenon DEF BlankAgents
<1>11. ASSUME ~raced
       PROVE  Finishes(a, O)
  BY <1>1, <1>2, <1>3, <1>8, <1>9, <1>10, <1>11, ZenonT(40) DEF Finishes, Same
<1>12. ASSUME ~raced
       PROVE  \A b \in S : new[b].version = agent[b].version + 1
  <2>1. \A b \in O : new[b].version = agent[b].version + 1
    BY <1>3, <1>10, <1>12
  <2> QED BY <1>2, <1>7, <2>1, Zenon
<1>13. /\ issued' = issued /\ returned' = returned
       /\ reading' = reading /\ raced' = raced /\ ReadingsExist'
  BY <1>1 DEF updates, ReadingsExist
<1>14. Follows(S, new)
  BY <1>11, <1>12, <1>13, Zenon DEF Shape, Follows
<1>15. acked' \subseteq Agents \X Tokens
  BY <1>1 DEF TypeOK
<1>16. Bookkeeping
  BY <1>1, <1>13, <1>15, Zenon DEF TypeOK, Bookkeeping
<1>17. \A b \in S : new[b].status # "NONE"
  BY <1>2, <1>3, <1>7, Zenon
<1> HIDE DEF S
<1> QED BY <1>4, <1>5, <1>6, <1>14, <1>16, <1>17, ScriptIsStep, Zenon

\* Complete finishes one agent whose lease it holds.
LEMMA CompleteIsStep ==
    ASSUME IInv, NEW w \in Workers, NEW a \in Agents, NEW t \in Tokens,
           CompleteAndGet(w, a, t)
    PROVE  Step
<1> DEFINE new == [b \in {a} |-> Completed(agent[a])]
           ty == [b \in {a} |-> "COMPLETED"]
<1>1. /\ TypeOK /\ ReadingsExist /\ IndexesMatchAgents /\ agent[a] \in Agent
      /\ agent[a].status = "IN_PROGRESS" /\ agent[a].lease_token = t
  BY Zenon DEF IInv, IndexesMatchAgents, TypeOK, CompleteAndGet, HoldsLease
<1>2. /\ new[a] \in Agent
      /\ new[a].status = "COMPLETED"
      /\ new[a].lease_token = NoToken
      /\ new[a].completed_by = agent[a].lease_token
      /\ new[a].version = agent[a].version + 1
  BY <1>1, CompletedFacts, Zenon
<1>3. {a} \in SUBSET Agents /\ new \in [{a} -> Agent] /\ Persist(new)
  BY <1>2, Zenon DEF CompleteAndGet
<1>4. ty \in [{a} -> Types]
  BY DEF Types
<1>5. LogsOne({a}, ty)
  BY DEF CompleteAndGet, Append, LogsOne
<1> HIDE DEF new, ty
<1>6. agent'[a] = new[a] /\ \A b \in Agents \ {a} : agent'[b] = agent[b]
  BY <1>1, <1>3, PersistFacts, Zenon
<1>7. /\ issued' = issued /\ returned' = returned /\ acked' = acked \cup {<<a, t>>}
      /\ reading' = reading /\ raced' = raced /\ ReadingsExist'
  BY <1>1, Zenon DEF CompleteAndGet, updates, ReadingsExist
<1>8. Finishes(a, {})
  BY <1>1, <1>2, <1>6, <1>7, Zenon DEF Finishes, Same
<1>9. Follows({a}, new)
  BY <1>2, <1>7, <1>8, Zenon DEF Shape, Follows
<1>10. acked' \subseteq Agents \X Tokens
  BY <1>1, <1>7 DEF TypeOK
<1>11. Bookkeeping
  BY <1>1, <1>7, <1>10, Zenon DEF TypeOK, Bookkeeping
<1>12. \A b \in {a} : new[b].status # "NONE"
  BY <1>2, Zenon
<1> QED BY <1>3, <1>4, <1>5, <1>9, <1>11, <1>12, ScriptIsStep, Zenon

\* The second half of UpdateAndGet: it races, or what it overwrites is what
\* it read.
LEMMA UpdateIsStep ==
    ASSUME IInv, NEW u \in Updaters, NEW q \in Queues, UpdateWrite(u, q)
    PROVE  Step
<1>1. /\ TypeOK /\ ReadingsExist /\ IndexesMatchAgents
      /\ agent \in [Agents -> Agent]
      /\ reading \in [Updaters -> SUBSET (Agents \X Agent)]
  BY DEF IInv, IndexesMatchAgents, TypeOK
<1>2. PICK read \in reading[u] :
        /\ raced' = (raced \/ agent[read[1]] # read[2])
        /\ Persist([b \in {read[1]} |-> Updated(read[2], q)])
        /\ Append({read[1]}, "UPDATED")
  BY Zenon DEF UpdateWrite
<1> DEFINE a == read[1]
           r == read[2]
           new == [b \in {a} |-> Updated(r, q)]
           ty == [b \in {a} |-> "UPDATED"]
<1>3. a \in Agents /\ r \in Agent /\ r.status # "NONE"
  BY <1>1 DEF ReadingsExist
<1>4. /\ new[a] = Updated(r, q) /\ new[a] \in Agent
      /\ new[a].status = r.status
      /\ new[a].lease_token = r.lease_token
      /\ new[a].completed_by = r.completed_by
      /\ new[a].version = r.version + 1
  BY <1>3, UpdatedFacts, Zenon
<1>5. {a} \in SUBSET Agents /\ new \in [{a} -> Agent] /\ Persist(new)
  BY <1>2, <1>3, <1>4, Zenon
<1>6. ty \in [{a} -> Types] /\ LogsOne({a}, ty)
  BY <1>2, Zenon DEF Types, LogsOne, Append
<1>7. raced' = (raced \/ agent[a] # r)
  BY <1>2
<1> HIDE DEF new, ty, a, r
<1>8. agent'[a] = new[a] /\ \A b \in Agents \ {a} : agent'[b] = agent[b]
  BY <1>1, <1>5, PersistFacts, Zenon
<1>9. issued' = issued /\ acked' = acked /\ returned' = returned
  BY Zenon DEF UpdateWrite
<1>10. reading' = [reading EXCEPT ![u] = {}]
  BY DEF UpdateWrite
<1>11. ASSUME ~raced' PROVE ~raced /\ agent[a] = r
  BY <1>7, <1>11, Zenon
<1>12. ASSUME ~raced' PROVE Quiet
  BY <1>4, <1>8, <1>9, <1>11, <1>12, Zenon DEF Quiet, Same
<1>13. Follows({a}, new)
  BY <1>4, <1>11, <1>12, Zenon DEF Follows, Shape
<1>14. ReadingsExist'
  BY <1>1, <1>10, Zenon DEF ReadingsExist
<1>15. Bookkeeping
  BY <1>1, <1>7, <1>9, <1>10, <1>14, Zenon DEF Bookkeeping, TypeOK
<1>16. \A b \in {a} : new[b].status # "NONE"
  BY <1>3, <1>4, Zenon
<1> QED BY <1>5, <1>6, <1>13, <1>15, <1>16, ScriptIsStep, Zenon

\* A step that writes no event.
LEMMA SilentIsStep ==
    ASSUME IInv, agent' \in [Agents -> Agent],
           \A a \in Agents : index'[a] = Keys(agent'[a]),
           \A a \in Agents : agent'[a] = agent[a] \/ agent'[a].status # "NONE",
           \A a \in Agents : agent'[a].version = agent[a].version,
           events' = events, Bookkeeping, raced' = raced, Quiet
    PROVE  Step
<1>1. IndexesMatchAgents'
  BY DEF IInv, IndexesMatchAgents, TypeOK, Bookkeeping
<1>2. Logged({})
  BY Zenon DEF Logged, Log
<1>3. raced \in BOOLEAN
  BY DEF IInv, IndexesMatchAgents, TypeOK
<1>4. Shape
  BY DEF Shape
<1>5. raced' \/ (~raced /\ Shape /\ \E S \in SUBSET Agents : Logged(S))
  BY <1>2, <1>3, <1>4, Zenon
<1> QED BY <1>1, <1>5, Zenon DEF Step, Bookkeeping

\* A renewal changes only the lease of one agent.
LEMMA RenewIsStep ==
    ASSUME IInv, NEW w \in Workers, NEW a \in Agents, NEW t \in Tokens,
           RenewLease(w, a, t)
    PROVE  Step
<1> DEFINE new == [b \in {a} |-> Renewed(agent[a])]
<1>1. /\ TypeOK /\ ReadingsExist /\ IndexesMatchAgents /\ agent[a] \in Agent
      /\ agent[a].status = "IN_PROGRESS"
  BY Zenon DEF IInv, IndexesMatchAgents, TypeOK, RenewLease, HoldsLease
<1>2. /\ new[a] \in Agent
      /\ new[a].status = agent[a].status
      /\ new[a].lease_token = agent[a].lease_token
      /\ new[a].completed_by = agent[a].completed_by
      /\ new[a].version = agent[a].version
  BY <1>1, RenewedFacts, Zenon
<1>3. {a} \in SUBSET Agents /\ new \in [{a} -> Agent] /\ Persist(new)
  BY <1>2 DEF RenewLease
<1> HIDE DEF new
<1>4. /\ agent' \in [Agents -> Agent]
      /\ agent'[a] = new[a] /\ \A b \in Agents \ {a} : agent'[b] = agent[b]
      /\ \A b \in Agents : index'[b] = Keys(agent'[b])
  BY <1>1, <1>3, PersistFacts, Zenon
<1>5. /\ issued' = issued /\ returned' = returned /\ acked' = acked
      /\ events' = events /\ reading' = reading /\ raced' = raced
  BY Zenon DEF RenewLease, updates
<1>6. Bookkeeping
  BY <1>1, <1>5, Zenon DEF Bookkeeping, TypeOK, ReadingsExist
<1>7. Quiet
  BY <1>2, <1>4, <1>5, Zenon DEF Quiet, Same
<1>8. \A b \in Agents : /\ agent'[b] = agent[b] \/ agent'[b].status # "NONE"
                        /\ agent'[b].version = agent[b].version
  BY <1>1, <1>2, <1>4, Zenon
<1> QED BY <1>4, <1>5, <1>6, <1>7, <1>8, SilentIsStep, Zenon

\* A completion that is sent again changes nothing.
LEMMA AgainIsStep ==
    ASSUME IInv, NEW a \in Agents, NEW t \in Tokens, CompleteAgain(a, t)
    PROVE  Step
<1>1. TypeOK /\ ReadingsExist /\ IndexesMatchAgents
  BY Zenon DEF IInv, IndexesMatchAgents
<1>2. /\ agent' = agent /\ index' = index /\ issued' = issued /\ returned' = returned
      /\ events' = events /\ reading' = reading /\ raced' = raced
      /\ acked' = acked \cup {<<a, t>>}
  BY Zenon DEF CompleteAgain, updates
<1>3. acked' \subseteq Agents \X Tokens
  BY <1>1, <1>2 DEF TypeOK
<1>4. Bookkeeping
  BY <1>1, <1>2, <1>3, Zenon DEF Bookkeeping, TypeOK, ReadingsExist
<1>5. Quiet
  BY <1>2, Zenon DEF Quiet, Same, CompleteAgain
<1>6. /\ agent' \in [Agents -> Agent]
      /\ \A b \in Agents : index'[b] = Keys(agent'[b])
  BY <1>1, <1>2, Zenon DEF TypeOK, IndexesMatchAgents
<1> QED BY <1>2, <1>4, <1>5, <1>6, SilentIsStep, Zenon

\* The read of an update changes no agent.
LEMMA ReadIsStep ==
    ASSUME IInv, NEW u \in Updaters, NEW a \in Agents, UpdateRead(u, a)
    PROVE  Step
<1>1. /\ TypeOK /\ ReadingsExist /\ IndexesMatchAgents /\ agent[a] \in Agent
      /\ reading \in [Updaters -> SUBSET (Agents \X Agent)]
  BY Zenon DEF IInv, IndexesMatchAgents, TypeOK
<1>2. /\ agent' = agent /\ index' = index /\ issued' = issued /\ returned' = returned
      /\ events' = events /\ raced' = raced /\ acked' = acked
      /\ reading' = [reading EXCEPT ![u] = {<<a, agent[a]>>}]
      /\ agent[a].status # "NONE"
  BY DEF UpdateRead
<1>3. {<<a, agent[a]>>} \in SUBSET (Agents \X Agent)
  BY <1>1
<1>4. reading' \in [Updaters -> SUBSET (Agents \X Agent)]
  BY <1>1, <1>2, <1>3, Zenon
<1>5. ReadingsExist'
  BY <1>1, <1>2 DEF ReadingsExist
<1>6. Bookkeeping
  BY <1>1, <1>2, <1>4, <1>5, Zenon DEF Bookkeeping, TypeOK
<1>7. Quiet
  BY <1>2, Zenon DEF Quiet, Same
<1>8. /\ agent' \in [Agents -> Agent]
      /\ \A b \in Agents : index'[b] = Keys(agent'[b])
  BY <1>1, <1>2, Zenon DEF TypeOK, IndexesMatchAgents
<1> QED BY <1>2, <1>6, <1>7, <1>8, SilentIsStep, Zenon

\* A lease that lapses stays in lease:by_until until the reaper takes it.
LEMMA LapseIsStep ==
    ASSUME IInv, NEW a \in Agents, LeaseLapses(a)
    PROVE  Step
<1>1. /\ TypeOK /\ ReadingsExist /\ IndexesMatchAgents /\ BlankAgents
      /\ agent \in [Agents -> Agent] /\ agent[a] \in Agent
      /\ agent[a].lease_until = "AHEAD"
  BY Zenon DEF IInv, IndexesMatchAgents, TypeOK, LeaseLapses
<1>2. agent[a].status # "NONE"
  BY <1>1 DEF BlankAgents, Absent
<1> DEFINE r == [agent[a] EXCEPT !.lease_until = "PAST"]
<1>3. agent' = [agent EXCEPT ![a] = r]
  BY <1>1 DEF LeaseLapses
<1>4. /\ r \in Agent
      /\ r.status = agent[a].status /\ r.lease_token = agent[a].lease_token
      /\ r.completed_by = agent[a].completed_by /\ r.version = agent[a].version
      /\ r.owner = agent[a].owner /\ r.queue = agent[a].queue
      /\ r.lease_until = "PAST"
  BY <1>1, Zenon DEF Agent
<1> HIDE DEF r
<1>5. Keys(r) = Keys(agent[a])
  BY <1>1, <1>4, Zenon DEF Keys
<1>6. /\ agent' \in [Agents -> Agent]
      /\ agent'[a] = r /\ \A b \in Agents \ {a} : agent'[b] = agent[b]
  BY <1>1, <1>3, <1>4
<1>7. /\ issued' = issued /\ returned' = returned /\ acked' = acked /\ index' = index
      /\ events' = events /\ raced' = raced
      /\ reading' = [u \in Updaters |-> IF <<a, agent[a]>> \in reading[u] THEN {<<a, agent'[a]>>}
                                        ELSE reading[u]]
  BY Zenon DEF LeaseLapses
<1>8. \A b \in Agents : index'[b] = Keys(agent'[b])
  BY <1>1, <1>5, <1>6, <1>7, Zenon DEF IndexesMatchAgents
<1>9. Bookkeeping
  <2>1. {<<a, agent'[a]>>} \in SUBSET (Agents \X Agent)
    BY <1>4, <1>6
  <2>2. reading \in [Updaters -> SUBSET (Agents \X Agent)]
    BY <1>1, Zenon DEF TypeOK
  <2>3. reading' \in [Updaters -> SUBSET (Agents \X Agent)]
    BY <1>7, <2>1, <2>2, Zenon
  <2>4. \A x \in {<<a, agent'[a]>>} : x[2].status # "NONE"
    BY <1>2, <1>4, <1>6
  <2>5. ReadingsExist'
    BY <1>1, <1>7, <2>2, <2>4, Zenon DEF ReadingsExist
  <2> QED BY <1>1, <1>7, <2>3, <2>5, Zenon DEF Bookkeeping, TypeOK
<1>10. Quiet
  BY <1>4, <1>6, <1>7, Zenon DEF Quiet, Same
<1>11. \A b \in Agents : /\ agent'[b] = agent[b] \/ agent'[b].status # "NONE"
                         /\ agent'[b].version = agent[b].version
  BY <1>2, <1>4, <1>6, Zenon
<1> QED BY <1>6, <1>7, <1>8, <1>9, <1>10, <1>11, SilentIsStep, Zenon

\* The reaper takes only agents that are IN_PROGRESS: lease:by_until holds no
\* other, because the indexes match the agents.
LEMMA ReapIsStep ==
    ASSUME IInv, NEW S \in SUBSET Agents, ReapExpiredLeases(S)
    PROVE  Step
<1>1. ASSUME NEW a \in S PROVE agent[a].status = "IN_PROGRESS"
  <2>1. <<"lease", "by_until">> \in Keys(agent[a])
    BY Zenon DEF ReapExpiredLeases, IInv, IndexesMatchAgents
  <2> QED BY <2>1, Zenon DEF Keys
<1> QED BY <1>1, GiveBackIsStep, Zenon DEF ReapExpiredLeases

\* Release gives one agent back.
LEMMA ReleaseIsStep ==
    ASSUME IInv, NEW w \in Workers, NEW a \in Agents, NEW t \in Tokens,
           ReleaseAndGet(w, a, t)
    PROVE  Step
<1>1. [b \in {a} |-> Freed(agent[b], "NEW")] = [b \in {a} |-> Freed(agent[a], "NEW")]
  BY Zenon
<1>2. Persist([b \in {a} |-> Freed(agent[b], "NEW")])
  BY <1>1, Zenon DEF ReleaseAndGet
<1>3. {a} \in SUBSET Agents /\ \A b \in {a} : agent[b].status = "IN_PROGRESS"
  BY DEF ReleaseAndGet, HoldsLease
<1> QED BY <1>2, <1>3, GiveBackIsStep, Zenon DEF ReleaseAndGet

\* Every step of the store is one of the shapes above.
LEMMA NextIsStep ==
    ASSUME IInv, [Next]_vars
    PROVE  Step
<1>1. CASE UNCHANGED vars
  <2>1. TypeOK /\ ReadingsExist /\ IndexesMatchAgents
    BY Zenon DEF IInv, IndexesMatchAgents
  <2>2. /\ agent' = agent /\ index' = index /\ issued' = issued /\ returned' = returned
        /\ acked' = acked /\ events' = events /\ reading' = reading /\ raced' = raced
    BY <1>1, Zenon DEF vars
  <2>3. Bookkeeping
    BY <2>1, <2>2, Zenon DEF Bookkeeping, TypeOK, ReadingsExist
  <2>4. Quiet
    BY <2>2, Zenon DEF Quiet, Same
  <2>5. /\ agent' \in [Agents -> Agent]
        /\ \A b \in Agents : index'[b] = Keys(agent'[b])
    BY <2>1, <2>2, Zenon DEF TypeOK, IndexesMatchAgents
  <2> QED BY <2>2, <2>3, <2>4, <2>5, SilentIsStep, Zenon
<1>2. ASSUME NEW w \in Workers, NEW q \in Queues, NEW k \in Kinds \cup {AnyKind},
             NEW t \in Tokens, QueueTake(w, q, k, t)
      PROVE  Step
  <2>1. PICK a \in Agents : Claim(w, a, t)
    BY <1>2, Zenon DEF QueueTake, Waiting, Entries
  <2> QED BY <2>1, ClaimIsStep, Zenon
<1>3. ASSUME NEW w \in Workers, NEW a \in Agents, NEW t \in Tokens, LeaseCall(w, a, t)
      PROVE  Step
  <2>1. ASSUME NEW O \in SUBSET (Agents \ {a}), NEW k \in Kinds, NEW q \in Queues,
               CompleteAndOut(w, a, t, O, k, q)
        PROVE  Step
    BY <2>1, FinishIsStep, Zenon DEF CompleteAndOut
  <2> QED BY <1>3, <2>1, CompleteIsStep, AgainIsStep, ReleaseIsStep, RenewIsStep, Zenon
          DEF LeaseCall
<1> QED BY <1>1, <1>2, <1>3, OutIsStep, ClaimIsStep, BatchIsStep, ReapIsStep, ReadIsStep,
           UpdateIsStep, LapseIsStep, Zenon DEF Next

-----------------------------------------------------------------------------
(* The invariant *)

\* The invariant holds of an empty database.
LEMMA IInvInit == Init => IInv
<1> SUFFICES ASSUME Init PROVE IInv
  OBVIOUS
<1>1. /\ agent = [a \in Agents |-> Absent] /\ index = [a \in Agents |-> {}]
      /\ issued = {} /\ returned = {} /\ acked = {} /\ events = {}
      /\ reading = [u \in Updaters |-> {}] /\ raced = FALSE
  BY DEF Init
<1>2. TypeOK
  BY <1>1, AbsentFacts, Zenon DEF TypeOK
<1>3. Keys(Absent) = {}
  BY AbsentFacts, Zenon DEF Keys
<1>4. IndexesMatchAgents /\ BlankAgents /\ ReadingsExist
  BY <1>1, <1>2, <1>3, Zenon DEF IndexesMatchAgents, BlankAgents, ReadingsExist
<1>5. ConfirmedIsTheCompletion
  BY <1>1, Zenon DEF ConfirmedIsTheCompletion
<1>6. ASSUME NEW a \in Agents
      PROVE  /\ IsFiniteSet(Log(a))
             /\ {e.version : e \in Log(a)} = 1 .. agent[a].version
             /\ Cardinality(Log(a)) = agent[a].version
  <2>1. Log(a) = {}
    BY <1>1, Zenon DEF Log
  <2>2. agent[a].version = 0
    BY <1>1, AbsentFacts, Zenon
  <2>3. 1 .. 0 = {}
    OBVIOUS
  <2> QED BY <2>1, <2>2, <2>3, FS_EmptySet, Zenon
<1>7. LogIsWhole
  BY <1>6 DEF LogIsWhole
<1> QED BY <1>4, <1>5, <1>7, Zenon DEF IInv

\* No shape but the write of a stale update undoes a confirmed completion.
LEMMA ShapeKeepsConfirmed ==
    ASSUME TypeOK, ConfirmedIsTheCompletion, Shape
    PROVE  ConfirmedIsTheCompletion'
<1> SUFFICES ASSUME NEW c \in Agents, NEW t \in Tokens, <<c, t>> \in acked'
             PROVE  agent'[c].status = "COMPLETED" /\ agent'[c].completed_by = t
  BY Zenon DEF ConfirmedIsTheCompletion
<1>1. <<c, t>> \in acked => agent[c].status = "COMPLETED" /\ agent[c].completed_by = t
  BY Zenon DEF ConfirmedIsTheCompletion
<1>2. CASE Quiet
  BY <1>1, <1>2, Zenon DEF Quiet, Same
<1>3. ASSUME NEW S \in SUBSET Agents, Publishes(S)
      PROVE  agent'[c].status = "COMPLETED" /\ agent'[c].completed_by = t
  BY <1>1, <1>3, Zenon DEF Publishes, Same
<1>4. ASSUME NEW S \in SUBSET Agents, GivesBack(S)
      PROVE  agent'[c].status = "COMPLETED" /\ agent'[c].completed_by = t
  BY <1>1, <1>4, Zenon DEF GivesBack, Same
<1>5. ASSUME NEW S \in SUBSET Agents, NEW tok \in [S -> Tokens], ClaimsFor(S, tok)
      PROVE  agent'[c].status = "COMPLETED" /\ agent'[c].completed_by = t
  BY <1>1, <1>5, Zenon DEF ClaimsFor, Same
<1>6. ASSUME NEW a \in Agents, NEW S \in SUBSET Agents, Finishes(a, S)
      PROVE  agent'[c].status = "COMPLETED" /\ agent'[c].completed_by = t
  <2>1. CASE c = a
    BY <1>1, <1>6, <2>1, Zenon DEF Finishes
  <2>2. CASE c # a
    BY <1>1, <1>6, <2>2, Zenon DEF Finishes, Same
  <2> QED BY <2>1, <2>2
<1> QED BY <1>2, <1>3, <1>4, <1>5, <1>6, Zenon DEF Shape

\* Every step keeps the invariant.
LEMMA IInvInductive == IInv /\ [Next]_vars => IInv'
<1> SUFFICES ASSUME IInv, [Next]_vars PROVE IInv'
  OBVIOUS
<1>1. Step
  BY NextIsStep, Zenon
<1>2. IndexesMatchAgents' /\ ReadingsExist'
  BY <1>1, Zenon DEF Step
<1>3. BlankAgents'
  <2>1. Absent' = Absent
    BY DEF Absent
  <2> QED BY <1>1, <2>1, Zenon DEF Step, IInv, BlankAgents
<1>4. ASSUME ~raced'
      PROVE  ConfirmedIsTheCompletion' /\ LogIsWhole'
  <2>1. ~raced /\ Shape /\ \E S \in SUBSET Agents : Logged(S)
    BY <1>1, <1>4, Zenon DEF Step
  <2>2. TypeOK /\ ConfirmedIsTheCompletion /\ LogIsWhole
    BY <2>1 DEF IInv, IndexesMatchAgents
  <2> QED BY <2>1, <2>2, ShapeKeepsConfirmed, LoggedKeepsLog, Zenon
<1> QED BY <1>2, <1>3, <1>4, Zenon DEF IInv

\* The inductive invariant holds in every reachable state.
THEOREM IInvHolds == Spec => []IInv
<1> QED BY IInvInit, IInvInductive, PTL DEF Spec

\* The indexes agree with the agents whatever the updates race with: the
\* scripts remove the index entries of what is stored, not of what the caller
\* believes is stored.
THEOREM IndexesAlwaysMatch == Spec => []IndexesMatchAgents
<1>1. IInv => IndexesMatchAgents
  BY DEF IInv
<1> QED BY <1>1, IInvHolds, PTL

\* A completion that was confirmed under a token is the agent's one and only
\* completion, until an update overwrites a change it had not read.
THEOREM ExactlyOnceUnlessRaced == Spec => []ConfirmedUnlessRaced
<1>1. IInv => ConfirmedUnlessRaced
  BY DEF IInv, ConfirmedUnlessRaced
<1> QED BY <1>1, IInvHolds, PTL

\* Until an update races, the stream holds exactly one event for every
\* version of every agent: the scripts write the agent and its event together.
THEOREM LogIsExact == Spec => []LogIsTheHistory
<1>1. IInv => LogIsTheHistory
  BY Zenon DEF IInv, LogIsWhole, Log, LogIsTheHistory
<1> QED BY <1>1, IInvHolds, PTL

-----------------------------------------------------------------------------
(* The refinement of AgentSpace *)

\* Every shape is a step of the abstract contract or a stutter.
LEMMA ShapeRefines ==
    ASSUME TypeOK, Shape
    PROVE  Contract!Next \/ UNCHANGED Contract!vars
<1> DEFINE st == [a \in Agents |-> agent[a].status]
           le == [a \in Agents |-> agent[a].lease_token]
           fb == [a \in Agents |-> agent[a].completed_by]
<1>1. CASE Quiet
  <2>1. st' = st /\ le' = le /\ fb' = fb /\ issued' = issued
    BY <1>1 DEF Quiet, Same
  <2> QED BY <2>1, Zenon DEF Contract!vars
<1>2. ASSUME NEW S \in SUBSET Agents, Publishes(S)
      PROVE  Contract!Publish(S)
  <2>1. \A a \in S : st[a] = "NONE"
    BY <1>2, Zenon DEF Publishes
  <2>2. st' = [a \in Agents |-> IF a \in S THEN "NEW" ELSE st[a]]
    BY <1>2, Zenon DEF Publishes, Same
  <2>3. le' = le /\ fb' = fb /\ issued' = issued
    BY <1>2, Zenon DEF Publishes, Same
  <2> QED BY <2>1, <2>2, <2>3, Zenon DEF Contract!Publish
<1>3. ASSUME NEW S \in SUBSET Agents, GivesBack(S)
      PROVE  Contract!GiveBack(S)
  <2>1. \A a \in S : st[a] = "IN_PROGRESS"
    BY <1>3, Zenon DEF GivesBack
  <2>2. st' = [a \in Agents |-> IF a \in S THEN "NEW" ELSE st[a]]
    BY <1>3, Zenon DEF GivesBack, Same
  <2>3. le' = [a \in Agents |-> IF a \in S THEN NoToken ELSE le[a]]
    BY <1>3, Zenon DEF GivesBack, Same
  <2>4. fb' = fb /\ issued' = issued
    BY <1>3 DEF GivesBack, Same
  <2> QED BY <2>1, <2>2, <2>3, <2>4, Zenon DEF Contract!GiveBack
<1>4. ASSUME NEW S \in SUBSET Agents, NEW tok \in [S -> Tokens], ClaimsFor(S, tok)
      PROVE  Contract!Claim(S, tok)
  <2>1. \A a \in S : st[a] = "NEW" /\ tok[a] \notin issued
    BY <1>4, Zenon DEF ClaimsFor
  <2>2. \A a, b \in S : tok[a] = tok[b] => a = b
    BY <1>4, Zenon DEF ClaimsFor
  <2>3. st' = [a \in Agents |-> IF a \in S THEN "IN_PROGRESS" ELSE st[a]]
    BY <1>4, ZenonT(40) DEF ClaimsFor, Same
  <2>4. le' = [a \in Agents |-> IF a \in S THEN tok[a] ELSE le[a]]
    BY <1>4, ZenonT(40) DEF ClaimsFor, Same
  <2>5. fb' = fb /\ issued' = issued \cup {tok[a] : a \in S}
    BY <1>4 DEF ClaimsFor, Same
  <2> QED BY <2>1, <2>2, <2>3, <2>4, <2>5, Zenon DEF Contract!Claim
<1>5. ASSUME NEW a \in Agents, NEW S \in SUBSET Agents, Finishes(a, S)
      PROVE  Contract!Finish(a, S)
  <2>1. st[a] = "IN_PROGRESS" /\ \A b \in S : st[b] = "NONE"
    BY <1>5, Zenon DEF Finishes
  <2>2. st' = [b \in Agents |-> IF b = a THEN "COMPLETED"
                                ELSE IF b \in S THEN "NEW" ELSE st[b]]
    BY <1>5 DEF Finishes, Same
  <2>3. le' = [le EXCEPT ![a] = NoToken]
    BY <1>5, Zenon DEF Finishes, Same
  <2>4. fb' = [fb EXCEPT ![a] = le[a]]
    BY <1>5, Zenon DEF Finishes, Same
  <2>5. issued' = issued
    BY <1>5 DEF Finishes
  <2> QED BY <2>1, <2>2, <2>3, <2>4, <2>5, Zenon DEF Contract!Finish
<1> QED BY <1>1, <1>2, <1>3, <1>4, <1>5, Zenon DEF Shape, Contract!Next

\* Until an update races, every script is a step of the contract of
\* AgentSpace, or none of its business.
THEOREM Refinement == Spec => ImplementsContract
<1>1. Init => Contract!Init
  BY AbsentFacts DEF Init, Contract!Init
<1>2. IInv /\ [Next]_vars => [raced' \/ Contract!Next]_(Contract!vars)
  <2> SUFFICES ASSUME IInv, [Next]_vars, ~raced'
               PROVE  Contract!Next \/ UNCHANGED Contract!vars
    OBVIOUS
  <2>1. Step
    BY NextIsStep, Zenon
  <2>2. TypeOK /\ Shape
    BY <2>1 DEF Step, IInv, IndexesMatchAgents
  <2> QED BY <2>2, ShapeRefines
<1> QED BY <1>1, <1>2, IInvHolds, PTL DEF Spec, ImplementsContract
=============================================================================
