----------------------------- MODULE ValkeyStore -----------------------------
(***************************************************************************)
(* The agent lifecycle of the Valkey backend (pkg/store/valkey).  Valkey   *)
(* runs a Lua script atomically, so every operation that is one script is  *)
(* one step.  UpdateAndGet is not: it GETs the agent, changes it in Go and *)
(* writes the whole agent back with a script that compares nothing, so it  *)
(* is two steps with anything in between.                                  *)
(*                                                                         *)
(* Agents are numbered in the order of their scores in the queues' sorted  *)
(* sets, and are published in any order: scores are clock readings of      *)
(* several servers.  They have no TTL (the default), events are written by *)
(* the scripts (VALKEY events not deferred), and there is one shard.  A    *)
(* lost reply or a crashed worker is a worker that never uses its lease.   *)
(***************************************************************************)
EXTENDS Naturals, FiniteSets

CONSTANTS
    Agents,       \* a set of numbers: the agents that may ever be published
    Workers,      \* worker identities
    NoOwner,      \* the empty owner
    Tokens,       \* the lease tokens that may ever be generated
    NoToken,      \* the empty lease token
    Queues,       \* queue names
    Kinds,        \* kinds of agents
    AnyKind,      \* a query that does not ask for a kind
    Updaters,     \* clients that call UpdateAndGet
    MaxVersion    \* bound: UpdateAndGet is not called past this version

ASSUME AgentsAssumption == Agents \subseteq Nat /\ IsFiniteSet(Agents)
ASSUME TokensAssumption == NoToken \notin Tokens /\ NoOwner \notin Workers
ASSUME KindsAssumption == AnyKind \notin Kinds /\ MaxVersion \in Nat
ASSUME QueuesAssumption == Queues # {}

VARIABLES
    agent,        \* agent[a]: the JSON value under a's key
    index,        \* index[a]: the index sets and sorted sets that hold a
    issued,       \* the lease tokens generated so far
    returned,     \* the <<worker, agent, token>> triples calls returned
    acked,        \* the <<agent, token>> pairs whose completion was confirmed
    events,       \* stream:events
    reading,      \* reading[u]: what u's UpdateAndGet has read, if it is called
    raced         \* whether an update has overwritten what it had not read

vars == <<agent, index, issued, returned, acked, events, reading, raced>>
updates == <<reading, raced>>

Agent == [status       : {"NONE", "NEW", "IN_PROGRESS", "COMPLETED"},
          kind         : Kinds \cup {AnyKind},
          queue        : Queues,
          owner        : Workers \cup {NoOwner},
          lease_token  : Tokens \cup {NoToken},
          lease_until  : {"NULL", "AHEAD", "PAST"},
          version      : Nat,
          completed_by : Tokens \cup {NoToken},
          origin       : Tokens \cup {NoToken}]

Event == [agent : Agents, version : Nat,
          type : {"CREATED", "CLAIMED", "UPDATED", "COMPLETED", "RELEASED"}]

Absent == [status |-> "NONE", kind |-> AnyKind, queue |-> CHOOSE q \in Queues : TRUE,
           owner |-> NoOwner, lease_token |-> NoToken, lease_until |-> "NULL",
           version |-> 0, completed_by |-> NoToken, origin |-> NoToken]

\* Values keep their types, and an update in flight has read some agent.
TypeOK ==
    /\ agent \in [Agents -> Agent]
    /\ issued \subseteq Tokens
    /\ returned \subseteq Workers \X Agents \X Tokens
    /\ acked \subseteq Agents \X Tokens
    /\ events \subseteq Event
    /\ reading \in [Updaters -> SUBSET (Agents \X Agent)]
    /\ raced \in BOOLEAN

Init ==
    /\ agent = [a \in Agents |-> Absent]
    /\ index = [a \in Agents |-> {}]
    /\ issued = {}
    /\ returned = {}
    /\ acked = {}
    /\ events = {}
    /\ reading = [u \in Updaters |-> {}]
    /\ raced = FALSE

-----------------------------------------------------------------------------
\* The index keys of an agent: its status and owner, the queue while it is
\* NEW, and lease:by_until while it is IN_PROGRESS with a lease.
Keys(r) ==
    IF r.status = "NONE" THEN {}
    ELSE {<<"status", r.status>>}
         \cup {<<"owner", w>> : w \in {r.owner} \ {NoOwner}}
         \cup (IF r.status = "NEW" THEN {<<"queue", r.queue>>} ELSE {})
         \cup (IF r.status = "IN_PROGRESS" /\ r.lease_until # "NULL"
               THEN {<<"lease", "by_until">>} ELSE {})

\* remove_indexes of what is stored, persist_agent, add_indexes of the new.
Persist(new) ==
    /\ agent' = [a \in Agents |-> IF a \in DOMAIN new THEN new[a] ELSE agent[a]]
    /\ index' = [a \in Agents |->
                   IF a \in DOMAIN new
                   THEN (index[a] \ Keys(agent[a])) \cup Keys(new[a])
                   ELSE index[a]]

\* append_event, for every agent of S.
Append(S, type) ==
    events' = events \cup {[agent |-> a, type |-> type,
                            version |-> agent'[a].version] : a \in S}

New(k, q, origin) == [Absent EXCEPT !.status = "NEW", !.kind = k, !.queue = q,
                                    !.version = 1, !.origin = origin]

Claimed(r, w, t) ==
    [status |-> "IN_PROGRESS", kind |-> r.kind, queue |-> r.queue, owner |-> w,
     lease_token |-> t, lease_until |-> "AHEAD", version |-> r.version + 1,
     completed_by |-> r.completed_by, origin |-> r.origin]

Freed(r, status) ==
    [status |-> status, kind |-> r.kind, queue |-> r.queue, owner |-> NoOwner,
     lease_token |-> NoToken, lease_until |-> "NULL", version |-> r.version + 1,
     completed_by |-> r.completed_by, origin |-> r.origin]

\* Variant with a fault: the completing token is not recorded.
CompletedUnsigned(r) == Freed(r, "COMPLETED")

Completed(r) == [Freed(r, "COMPLETED") EXCEPT !.completed_by = r.lease_token]

Renewed(r) == [r EXCEPT !.lease_until = "AHEAD"]

\* ApplyUpdates: payload, tags and metadata, and with it the queue.
Updated(r, q) == [r EXCEPT !.queue = q, !.version = @ + 1]

\* Variant with a fault: the lease token is not compared.
HoldsLeaseByOwner(w, a, t) ==
    agent[a].status = "IN_PROGRESS" /\ agent[a].owner = w

HoldsLease(w, a, t) ==
    /\ agent[a].status = "IN_PROGRESS"
    /\ agent[a].owner = w
    /\ agent[a].lease_token = t

Matches(k, a) == k = AnyKind \/ k = agent[a].kind

\* The entries of a queue's sorted set, and those a take may hand out.
Entries(q) == {a \in Agents : <<"queue", q>> \in index[a]}
Waiting(q) == {a \in Entries(q) : agent[a].status = "NEW" /\ agent[a].queue = q}

-----------------------------------------------------------------------------
Out(a, k, q) ==
    /\ agent[a].status = "NONE"
    /\ Persist([b \in {a} |-> New(k, q, NoToken)])
    /\ Append({a}, "CREATED")
    /\ UNCHANGED <<issued, returned, acked, updates>>

\* claimScript: the agent read before is claimed if it is still NEW.
Claim(w, a, t) ==
    /\ agent[a].status = "NEW"
    /\ t \notin issued
    /\ Persist([b \in {a} |-> Claimed(agent[a], w, t)])
    /\ issued' = issued \cup {t}
    /\ returned' = returned \cup {<<w, a, t>>}
    /\ Append({a}, "CLAIMED")
    /\ UNCHANGED <<acked, updates>>

\* queueTakeScript: only the head of the queue may be claimed.
QueueTake(w, q, k, t) ==
    \E a \in Waiting(q) :
      /\ \A b \in Waiting(q) : a <= b
      /\ Matches(k, a)
      /\ Claim(w, a, t)

\* queueBatchTakeScript claims the heads one after the other, up to limit or
\* up to the first of another kind; that one makes it answer NOT_QUEUE_HEAD,
\* and BatchTake then returns no agents.
Batch(q, k, limit) ==
    LET ahead(a) == {b \in Waiting(q) : b < a}
    IN  {a \in Waiting(q) : /\ Cardinality(ahead(a)) < limit
                            /\ \A b \in ahead(a) \cup {a} : Matches(k, b)}

QueueBatchTake(w, q, k, limit, tok) ==
    LET S == DOMAIN tok
        refused == Cardinality(S) < limit /\ S # Waiting(q)
    IN  /\ S = Batch(q, k, limit)
        /\ S # {}
        /\ \A a \in S : tok[a] \notin issued
        /\ \A a, b \in S : tok[a] = tok[b] => a = b
        /\ Persist([a \in S |-> Claimed(agent[a], w, tok[a])])
        /\ issued' = issued \cup {tok[a] : a \in S}
        /\ returned' = IF refused THEN returned
                       ELSE returned \cup {<<w, a, tok[a]>> : a \in S}
        /\ Append(S, "CLAIMED")
        /\ UNCHANGED <<acked, updates>>

CompleteAndGet(w, a, t) ==
    /\ HoldsLease(w, a, t)
    /\ Persist([b \in {a} |-> Completed(agent[a])])
    /\ acked' = acked \cup {<<a, t>>}
    /\ Append({a}, "COMPLETED")
    /\ UNCHANGED <<issued, returned, updates>>

\* A retry of Complete under the completing token.
CompleteAgain(a, t) ==
    /\ agent[a].status = "COMPLETED"
    /\ agent[a].completed_by = t
    /\ acked' = acked \cup {<<a, t>>}
    /\ UNCHANGED <<agent, index, issued, returned, events, updates>>

WithOutputs(a, O, k, q) ==
    [b \in O \cup {a} |-> IF b = a THEN Completed(agent[a])
                          ELSE New(k, q, agent[a].lease_token)]

CompleteAndOut(w, a, t, O, k, q) ==
    /\ HoldsLease(w, a, t)
    /\ \A b \in O : agent[b].status = "NONE"
    /\ Persist(WithOutputs(a, O, k, q))
    /\ acked' = acked \cup {<<a, t>>}
    /\ events' = events \cup {[agent |-> b, version |-> agent'[b].version,
                               type |-> IF b = a THEN "COMPLETED" ELSE "CREATED"] :
                              b \in O \cup {a}}
    /\ UNCHANGED <<issued, returned, updates>>

ReleaseAndGet(w, a, t) ==
    /\ HoldsLease(w, a, t)
    /\ Persist([b \in {a} |-> Freed(agent[a], "NEW")])
    /\ Append({a}, "RELEASED")
    /\ UNCHANGED <<issued, returned, acked, updates>>

RenewLease(w, a, t) ==
    /\ HoldsLease(w, a, t)
    /\ Persist([b \in {a} |-> Renewed(agent[a])])
    /\ UNCHANGED <<issued, returned, acked, events, updates>>

\* Variant with a fault: the reaper logs nothing.
ReapSilently(S) ==
    /\ S # {}
    /\ \A a \in S : <<"lease", "by_until">> \in index[a]
                    /\ agent[a].lease_until = "PAST"
    /\ Persist([a \in S |-> Freed(agent[a], "NEW")])
    /\ UNCHANGED <<issued, returned, acked, events, updates>>

\* reapScript: a batch of the entries of lease:by_until that have lapsed.
ReapExpiredLeases(S) ==
    /\ S # {}
    /\ \A a \in S : <<"lease", "by_until">> \in index[a]
                    /\ agent[a].lease_until = "PAST"
    /\ Persist([a \in S |-> Freed(agent[a], "NEW")])
    /\ Append(S, "RELEASED")
    /\ UNCHANGED <<issued, returned, acked, updates>>

\* UpdateAndGet reads the agent, and later overwrites whatever is stored then.
UpdateRead(u, a) ==
    /\ reading[u] = {}
    /\ agent[a].status # "NONE"
    /\ agent[a].version < MaxVersion
    /\ reading' = [reading EXCEPT ![u] = {<<a, agent[a]>>}]
    /\ UNCHANGED <<agent, index, issued, returned, acked, events, raced>>

\* Variant with a fault: the indexes of what was read are removed, not those
\* of what is stored.
UpdateWriteUnindexed(u, q) ==
    /\ \E read \in reading[u] :
         LET a == read[1]
             next == Updated(read[2], q)
         IN  /\ raced' = (raced \/ agent[a] # read[2])
             /\ agent' = [agent EXCEPT ![a] = next]
             /\ index' = [index EXCEPT ![a] = (@ \ Keys(read[2])) \cup Keys(next)]
             /\ Append({a}, "UPDATED")
    /\ reading' = [reading EXCEPT ![u] = {}]
    /\ UNCHANGED <<issued, returned, acked>>

UpdateWrite(u, q) ==
    /\ \E read \in reading[u] :
         /\ raced' = (raced \/ agent[read[1]] # read[2])
         /\ Persist([b \in {read[1]} |-> Updated(read[2], q)])
         /\ Append({read[1]}, "UPDATED")
    /\ reading' = [reading EXCEPT ![u] = {}]
    /\ UNCHANGED <<issued, returned, acked>>

\* Time passes for an update's copy of the agent too.
LeaseLapses(a) ==
    /\ agent[a].lease_until = "AHEAD"
    /\ agent' = [agent EXCEPT ![a].lease_until = "PAST"]
    /\ reading' = [u \in Updaters |-> IF <<a, agent[a]>> \in reading[u] THEN {<<a, agent'[a]>>}
                                      ELSE reading[u]]
    /\ UNCHANGED <<index, issued, returned, acked, events, raced>>

-----------------------------------------------------------------------------
\* A worker calls with a lease a call returned to it, current or stale.
LeaseCall(w, a, t) ==
    /\ <<w, a, t>> \in returned
    /\ \/ CompleteAndGet(w, a, t)
       \/ CompleteAgain(a, t)
       \/ \E O \in SUBSET (Agents \ {a}), k \in Kinds, q \in Queues :
            CompleteAndOut(w, a, t, O, k, q)
       \/ ReleaseAndGet(w, a, t)
       \/ RenewLease(w, a, t)

Next ==
    \/ \E a \in Agents, k \in Kinds, q \in Queues : Out(a, k, q)
    \/ \E w \in Workers, a \in Agents, t \in Tokens : Claim(w, a, t)
    \/ \E w \in Workers, q \in Queues, k \in Kinds \cup {AnyKind}, t \in Tokens :
         QueueTake(w, q, k, t)
    \/ \E w \in Workers, q \in Queues, k \in Kinds \cup {AnyKind},
          limit \in 1 .. Cardinality(Agents) :
         \E S \in SUBSET Agents : \E tok \in [S -> Tokens] :
           QueueBatchTake(w, q, k, limit, tok)
    \/ \E w \in Workers, a \in Agents, t \in Tokens : LeaseCall(w, a, t)
    \/ \E S \in SUBSET Agents : ReapExpiredLeases(S)
    \/ \E u \in Updaters, a \in Agents : UpdateRead(u, a)
    \/ \E u \in Updaters, q \in Queues : UpdateWrite(u, q)
    \/ \E a \in Agents : LeaseLapses(a)

Spec == Init /\ [][Next]_vars

-----------------------------------------------------------------------------
\* Whatever updates race with, the queues, the lease index and the status and
\* owner indexes hold an agent exactly when its stored value says so: no
\* waiting agent is lost to its queue and no lease to the reaper.  (The type
\* invariant is part of it.)
IndexesMatchAgents ==
    /\ TypeOK
    /\ \A a \in Agents : index[a] = Keys(agent[a])

\* Exactly-once completion: a confirmed completion is the agent's one and
\* only completion.
ConfirmedIsTheCompletion ==
    \A a \in Agents, t \in Tokens :
      <<a, t>> \in acked =>
        agent[a].status = "COMPLETED" /\ agent[a].completed_by = t

\* The same until an update overwrites a change it had not read.
ConfirmedUnlessRaced == raced \/ ConfirmedIsTheCompletion

\* Until an update races, the stream holds exactly one event for every
\* version an agent ever had.
LogIsTheHistory ==
    raced \/ \A a \in Agents :
      /\ {e.version : e \in {f \in events : f.agent = a}} = 1 .. agent[a].version
      /\ Cardinality({f \in events : f.agent = a}) = agent[a].version

Contract == INSTANCE AgentSpace WITH
    status     <- [a \in Agents |-> agent[a].status],
    lease      <- [a \in Agents |-> agent[a].lease_token],
    finishedBy <- [a \in Agents |-> agent[a].completed_by]

\* Until an update races, the scripts implement the contract of AgentSpace.
ImplementsContract ==
    Contract!Init /\ [][raced' \/ Contract!Next]_(Contract!vars)
=============================================================================
