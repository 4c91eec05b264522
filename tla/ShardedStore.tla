---------------------------- MODULE ShardedStore ----------------------------
(***************************************************************************)
(* Agents spread over several databases (pkg/store/postgressharded, and    *)
(* the sharded mode of pkg/store/valkey).  A queue belongs to the shard    *)
(* its name hashes to, modulo the number of shards of the map the node has *)
(* loaded.  Every server node loads the shard map when it starts; the map  *)
(* may give each shard an owner, and a node refuses to publish to and take *)
(* from a shard that another node owns.  Nothing compares a new map with   *)
(* the one before it: it may list other shards.  The calls                 *)
(* that name an agent find its shard first, by the caller's hint or by     *)
(* asking the shards one after the other, and act on it in a second step.  *)
(* The cache idToShard is left out: a row never changes its shard, and an  *)
(* entry is tried with a Get before it is used, so that it only changes    *)
(* which shard is asked first.                                             *)
(*                                                                         *)
(* A single shard is a PostgresStore or a ValkeyStore: what these modules  *)
(* show of it, that a call on a row is atomic and holds to the AgentSpace  *)
(* contract, is taken for granted here, and the question is whether the    *)
(* shards together hold to it too.                                         *)
(***************************************************************************)
EXTENDS Naturals, Sequences, FiniteSets

CONSTANTS
    Nodes,      \* server processes
    Shards,     \* the databases of all shard maps
    Queues,
    Owners,     \* the shard maps an operator may deploy: owner_node_id by shard
    Hash,       \* Hash[m][q]: fnv32a(namespace:queue) modulo the number of shards
                \* of map m, as an index into the map's list
    FirstMap,   \* the one of them the nodes start with
    AnyNode,    \* the empty owner_node_id
    Calls,      \* requests that are under way
    NoShard,
    MaxAgents,  \* bound: agents published
    MaxTokens,  \* bound: claims
    MaxFaults,  \* bound: node crashes, shard outages and new shard maps
    MaxMoved    \* bound: agents that are out of place at the same time

VARIABLES
    backend,    \* "postgres" (postgres-sharded) or "valkey"
    file,       \* the shard map file
    map,        \* map[n]: the shard map node n has loaded
    live,       \* the nodes that run
    down,       \* the shards that do not answer
    row,        \* row[a]: the one row of agent a, on whatever shard
    issued,     \* issued[t]: the agent claimed under token t
    call,       \* call[c]: a request between its lookup and its effect
    faults,
    moved,      \* history: the agents an update left without a queue of their shard
    rehashed,   \* history: the queues a new map sent to another shard
    finishedBy  \* history: the token whose claim finished the agent

vars == <<backend, file, map, live, down, row, issued, call, faults, moved, rehashed, finishedBy>>
deployment == <<backend, file, map, live, down, faults, rehashed>>

\* Identifiers and tokens are fresh UUIDs: the next one is as good as any.
Agents == 1..MaxAgents
Tokens == 1..MaxTokens
NoToken == 0

\* The queue of an agent without one in its metadata.
NoQueue == "none"

NoRow == [shard |-> NoShard, status |-> "NONE", token |-> NoToken, lapsed |-> FALSE, queue |-> NoQueue]
NewRow(s, q) == [shard |-> s, status |-> "NEW", token |-> NoToken, lapsed |-> FALSE, queue |-> q]
NoCall == [op |-> "none"]

Operations == {"complete", "complete_and_out", "release", "renew"}

ASSUME ShardMapAssumption ==
    /\ NoShard \notin Shards /\ NoQueue \notin Queues
    /\ FirstMap \in Owners
    /\ \A m \in Owners : \E S \in SUBSET Shards : m \in [S -> Nodes \cup {AnyNode}]
    /\ Hash \in [Owners -> [Queues -> Shards]]
    /\ \A m \in Owners, q \in Queues : Hash[m][q] \in DOMAIN m
    /\ MaxAgents \in Nat /\ MaxTokens \in Nat /\ MaxFaults \in Nat /\ MaxMoved \in Nat

Row == [shard : Shards \cup {NoShard}, status : {"NONE", "NEW", "IN_PROGRESS", "COMPLETED"},
        token : Tokens \cup {NoToken}, lapsed : BOOLEAN, queue : Queues \cup {NoQueue}]

Call == [op : Operations, node : Nodes, token : Tokens, shard : Shards, queue : Queues \cup {NoQueue}]

Init ==
    /\ backend \in {"postgres", "valkey"}
    /\ file = FirstMap
    /\ map = [n \in Nodes |-> file]
    /\ live = Nodes /\ down = {}
    /\ row = [a \in Agents |-> NoRow]
    /\ issued = <<>>
    /\ call = [c \in Calls |-> NoCall]
    /\ faults = 0
    /\ moved = {} /\ rehashed = {}
    /\ finishedBy = [a \in Agents |-> NoToken]

-----------------------------------------------------------------------------
\* Routing.

Fresh(a) == row[a].status = "NONE" /\ \A b \in 1..(a - 1) : row[b].status # "NONE"

\* ownsShard
Owns(n, s) == s \in DOMAIN map[n] /\ map[n][s] \in {n, AnyNode}

\* The shards a node has a client for: a postgres-sharded node connects to those
\* it owns, a Valkey node to all.
Connected(n) == IF backend = "postgres" THEN {s \in Shards : Owns(n, s)} ELSE DOMAIN map[n]

\* targetShardSpec, targetShard: where node n looks for queue q.
Target(n, q) == Hash[map[n]][q]

\* shardForNamespaceQueue, targetShard: the node answers for the queue, and is
\* not sending its caller to the owner.
Serves(n, q) == n \in live /\ Owns(n, Target(n, q))

\* shardFromHint: the shard_id of a claimed agent, sent back by its holder.  The
\* lease calls of Valkey drop the hint, and CompleteAndOut reads the source row
\* all the same.
Hinted(n, a, op) ==
    backend = "postgres" /\ op # "complete_and_out" /\ row[a].shard \in Connected(n)

\* shardByTupleID, shardByID: a shard that does not answer is passed over, and an
\* agent that is only there is `not found'.
Found(n, a) == row[a].shard \in Connected(n) \ down

-----------------------------------------------------------------------------
\* The calls that name a queue.

\* Out
Out(n, a, q) ==
    /\ Serves(n, q) /\ Target(n, q) \notin down
    /\ Fresh(a)
    /\ row' = [row EXCEPT ![a] = NewRow(Target(n, q), q)]
    /\ UNCHANGED <<deployment, issued, call, moved, finishedBy>>

\* Take, In and each agent of BatchTake.  The row is looked for on one shard.
Take(n, q, a) ==
    /\ row[a].status = "NEW" /\ row[a].queue = q /\ Len(issued) < MaxTokens
    /\ Serves(n, q) /\ Target(n, q) \notin down
    /\ row[a].shard = Target(n, q)
    /\ issued' = Append(issued, a)
    /\ row' = [row EXCEPT ![a].status = "IN_PROGRESS", ![a].token = Len(issued')]
    /\ UNCHANGED <<deployment, call, moved, finishedBy>>

-----------------------------------------------------------------------------
\* The calls that name an agent.

\* A request of whoever holds token t, with an output for queue q if it is a
\* CompleteAndOut, reaches node n and its agent is looked up.
Lookup(c, n, op, t, q) ==
    LET a == issued[t] IN
    /\ call[c] = NoCall /\ n \in live
    /\ Found(n, a) \/ Hinted(n, a, op)
    /\ op = "complete_and_out" <=> q # NoQueue
    /\ call' = [call EXCEPT ![c] = [op |-> op, node |-> n, token |-> t, shard |-> row[a].shard, queue |-> q]]
    /\ UNCHANGED <<deployment, row, issued, moved, finishedBy>>

\* The lease test of the shard's own store.
HoldsLease(r, t) == r.status = "IN_PROGRESS" /\ r.token = t

Freed(r, s) == [r EXCEPT !.status = s, !.token = NoToken, !.lapsed = FALSE]

\* Variant with a fault: an output may belong to another shard.
AcceptsOutputAnywhere(k) == Owns(k.node, Target(k.node, k.queue))

\* completeAndOutWithContext, CompleteAndOut: the output's queue must be one this
\* node answers for, on the shard of its source.
AcceptsOutput(k) == Owns(k.node, Target(k.node, k.queue)) /\ Target(k.node, k.queue) = k.shard

\* Variant with a fault: the shard's store does not look at the token.
EffectUnfenced(k, a, b) ==
    IF k.op = "complete" THEN [row EXCEPT ![a] = Freed(@, "COMPLETED")] ELSE row

\* What the shard does with the call for agent a and the new agent b; a call it
\* refuses changes nothing.
Effect(k, a, b) ==
    IF ~HoldsLease(row[a], k.token) THEN row
    ELSE CASE k.op = "complete" -> [row EXCEPT ![a] = Freed(@, "COMPLETED")]
           [] k.op = "release" -> [row EXCEPT ![a] = Freed(@, "NEW")]
           [] k.op = "renew" -> [row EXCEPT ![a].lapsed = FALSE]
           [] k.op = "complete_and_out" ->
                IF ~(AcceptsOutput(k) /\ Fresh(b)) THEN row
                ELSE [row EXCEPT ![a] = Freed(@, "COMPLETED"),
                                 ![b] = NewRow(k.shard, k.queue)]

\* Complete, CompleteAndOut, Release and RenewLease on the shard that was found.
Perform(c) ==
    LET k == call[c] IN
    /\ k # NoCall /\ k.shard \notin down
    /\ \E b \in Agents : /\ (\E x \in Agents : Fresh(x)) => Fresh(b)
                         /\ row' = Effect(k, issued[k.token], b)
    /\ finishedBy' = [a \in Agents |->
                        IF row[a].status # "COMPLETED" /\ row'[a].status = "COMPLETED"
                        THEN k.token ELSE finishedBy[a]]
    /\ call' = [call EXCEPT ![c] = NoCall]
    /\ UNCHANGED <<deployment, issued, moved>>

\* The shard is gone when the call reaches it.
CallFails(c) ==
    /\ call[c] # NoCall /\ call[c].shard \in down
    /\ call' = [call EXCEPT ![c] = NoCall]
    /\ UNCHANGED <<deployment, row, issued, moved, finishedBy>>

\* Update with queue q in its metadata.  PostgresShardedStore.Update refuses a
\* queue, as UpdateAndGet of Valkey does another one; the store bound to a
\* request's context calls updateWithContext, behind the test.  An empty queue
\* passes all the tests, and takes the agent out of its queue.
Update(n, a, q, bound) ==
    /\ n \in live /\ Found(n, a)
    /\ q = NoQueue \/ (bound /\ backend = "postgres")
    /\ row' = [row EXCEPT ![a].queue = q]
    /\ moved' = IF q # NoQueue /\ Target(n, q) = row[a].shard THEN moved \ {a} ELSE moved \cup {a}
    /\ Cardinality(moved') <= MaxMoved
    /\ UNCHANGED <<deployment, issued, call, finishedBy>>

-----------------------------------------------------------------------------
\* Leases, faults and deployments.

LeaseLapses(a) ==
    /\ row[a].status = "IN_PROGRESS" /\ ~row[a].lapsed
    /\ row' = [row EXCEPT ![a].lapsed = TRUE]
    /\ UNCHANGED <<deployment, issued, call, moved, finishedBy>>

\* Variant with a fault: a shard without an owner is nobody's to reap.
ReapOwnedOnly(n, a) ==
    /\ row[a].lapsed /\ n \in live
    /\ row[a].shard \in DOMAIN map[n] /\ map[n][row[a].shard] = n /\ row[a].shard \notin down
    /\ row' = [row EXCEPT ![a] = Freed(@, "NEW")]
    /\ UNCHANGED <<deployment, issued, call, moved, finishedBy>>

\* The reaper of a node works on the shards the node owns.
ReapExpiredLeases(n, a) ==
    /\ row[a].lapsed /\ n \in live
    /\ Owns(n, row[a].shard) /\ row[a].shard \notin down
    /\ row' = [row EXCEPT ![a] = Freed(@, "NEW")]
    /\ UNCHANGED <<deployment, issued, call, moved, finishedBy>>

Fault == faults < MaxFaults /\ faults' = faults + 1

\* The process dies with its requests.
Stop(n) ==
    /\ live' = live \ {n}
    /\ call' = [c \in Calls |-> IF call[c] # NoCall /\ call[c].node = n THEN NoCall ELSE call[c]]

NodeCrash(n) ==
    /\ n \in live /\ Fault /\ Stop(n)
    /\ UNCHANGED <<backend, file, map, down, row, issued, moved, rehashed, finishedBy>>

\* New, NewValkeyStore: the map is read once; every shard the node will use must
\* answer, and a Valkey node must own one.
NodeStart(n) ==
    /\ n \notin live
    /\ backend = "valkey" => \E s \in DOMAIN file : file[s] \in {n, AnyNode}
    /\ \A s \in down \cap DOMAIN file : backend = "postgres" /\ file[s] \notin {n, AnyNode}
    /\ live' = live \cup {n}
    /\ map' = [map EXCEPT ![n] = file]
    /\ UNCHANGED <<backend, file, down, row, issued, call, faults, moved, rehashed, finishedBy>>

\* The operator deploys another map, and restarts the nodes one by one: a running
\* node does not read the file again.  The map may list other shards, and send a
\* queue to another one of them.
NewMap(m) ==
    /\ m # file /\ Fault
    /\ file' = m
    /\ rehashed' = rehashed \cup {q \in Queues : Hash[m][q] # Hash[file][q]}
    /\ UNCHANGED <<backend, map, live, down, row, issued, call, moved, finishedBy>>

Rollout(n) ==
    /\ n \in live /\ map[n] # file /\ Stop(n)
    /\ UNCHANGED <<backend, file, map, down, row, issued, faults, moved, rehashed, finishedBy>>

ShardFails(s) ==
    /\ s \notin down /\ Fault
    /\ down' = down \cup {s}
    /\ UNCHANGED <<backend, file, map, live, row, issued, call, moved, rehashed, finishedBy>>

ShardReturns(s) ==
    /\ s \in down
    /\ down' = down \ {s}
    /\ UNCHANGED <<backend, file, map, live, row, issued, call, faults, moved, rehashed, finishedBy>>

Progress ==
    \/ \E n \in Nodes, q \in Queues, a \in Agents : Take(n, q, a)
    \/ \E n \in Nodes, a \in Agents : ReapExpiredLeases(n, a)
    \/ \E n \in Nodes : NodeStart(n) \/ Rollout(n)
    \/ \E s \in Shards : ShardReturns(s)

Next ==
    \/ Progress
    \/ \E n \in Nodes, a \in Agents, q \in Queues : Out(n, a, q)
    \/ \E c \in Calls, n \in Nodes, op \in Operations, t \in DOMAIN issued, q \in Queues \cup {NoQueue} :
          Lookup(c, n, op, t, q)
    \/ \E c \in Calls : Perform(c) \/ CallFails(c)
    \/ \E n \in Nodes, a \in Agents, q \in Queues \cup {NoQueue}, bound \in BOOLEAN : Update(n, a, q, bound)
    \/ \E a \in Agents : LeaseLapses(a)
    \/ \E n \in Nodes : NodeCrash(n)
    \/ \E m \in Owners : NewMap(m)
    \/ \E s \in Shards : ShardFails(s)

\* Workers keep asking every node for work in every queue, the reapers run,
\* outages end, and operators finish what they deploy.  Tokens and faults are
\* bounded, so that each part of Progress gets its turn.
Spec == Init /\ [][Next]_vars /\ WF_vars(Progress)

-----------------------------------------------------------------------------
\* Properties

\* Types of the variables.
TypeOK ==
    /\ backend \in {"postgres", "valkey"}
    /\ file \in Owners /\ map \in [Nodes -> Owners]
    /\ live \subseteq Nodes /\ down \subseteq Shards
    /\ row \in [Agents -> Row]
    /\ issued \in Seq(Agents) /\ Len(issued) <= MaxTokens
    /\ call \in [Calls -> Call \cup {NoCall}]
    /\ faults \in 0..MaxFaults /\ moved \subseteq Agents /\ rehashed \subseteq Queues
    /\ finishedBy \in [Agents -> Tokens \cup {NoToken}]

\* targetShardSpec, completeAndOutWithContext, Update: an agent is on the one
\* shard where the takes of its queue look for it, at every node, whatever nodes
\* and maps come and go.  The exceptions are the agents that an update left
\* without a queue of their shard, and the queues that a new map sent to another
\* shard: no take finds the ones, nor the other's agents from before the map.
AgentsAreWhereTakesLook ==
    /\ TypeOK
    /\ \A a \in Agents :
          row[a].status # "NONE" /\ a \notin moved /\ row[a].queue \notin rehashed =>
             \A n \in Nodes : row[a].shard = Target(n, row[a].queue)

Contract == INSTANCE AgentSpace WITH
    status <- [a \in Agents |-> row[a].status],
    lease <- [a \in Agents |-> row[a].token],
    issued <- DOMAIN issued

\* The shards and nodes together are one AgentSpace: a claim that two
\* nodes serve at once, from maps that disagree, is still exclusive, and a
\* CompleteAndOut is one step although the lookup before it was another.
ImplementsContract == Contract!Spec

Waits(a) == row[a].status = "NEW" \/ row[a].lapsed

\* No take looks where the agent is, or the model has no more tokens.
Unclaimable(a) ==
    \/ row[a].queue = NoQueue \/ Hash[file][row[a].queue] # row[a].shard
    \/ Len(issued) = MaxTokens

\* Take and the reapers: free work is taken and a lapsed lease ends, through
\* crashes, outages and changes of ownership, as long as the map gives every
\* shard a node that runs; except for agents that are not on the shard of their
\* queue, leases on a shard that the map no longer lists, and once the model has
\* no more tokens.
WorkGoesOn ==
    \A a \in Agents :
        Waits(a) ~> \/ ~Waits(a)
                    \/ row[a].status = "NEW" /\ Unclaimable(a)
                    \/ row[a].shard \notin DOMAIN file
=============================================================================
