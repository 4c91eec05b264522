# A TLA+ verification of Agent Spaces

Agent Spaces is a coordination runtime.  Producers put *agents* (units of work)
into a space; workers claim them under leases, complete or release them, and a
reaper takes back the claims of workers that died.  This directory models the
runtime's components in TLA+, model-checks them with TLC on small instances, and
proves their safety properties for every instance with TLAPS.  `PROJECT.json` maps
each definition to the source lines it models and lists runs, mutants, hazards,
findings and theorems.

## The system

| Part | Source | State | What changes it |
|---|---|---|---|
| Agent lifecycle, PostgreSQL | `pkg/store/postgres` | rows (status, owner, lease token, lease end, version, completing token), event table | Out, Take, BatchTake, UpdateAndGet, Complete, CompleteAndOut, Release, RenewLease, reaper |
| Queue claiming, prefetcher | same | row locks, advisory lock per queue, channel of identifiers | strict, parallel, batch and prefetched claims; commit and abort |
| Blocking calls | `postgres_notify.go`, `In`/`Read` of all stores, `InAgent`, `ReadAgent` | wake-up channels, listeners, deadlines | publish, LISTEN/NOTIFY, PUBLISH, poll timer, deadline |
| Deferred event writer | `postgres_engine.go`, `valkey/events.go`, `cmd/server` | channel, batch | enqueue, tick, flush, Close, end of process |
| Agent lifecycle, SQLite | `pkg/store/sqlite` | rows, events, the single connection, subscribers | the same operations as transactions that may fail |
| Agent lifecycle, Valkey | `pkg/store/valkey` | JSON values, index sets, stream | Lua scripts; a read-modify-write update |
| Sharding | `pkg/store/postgressharded`, sharded mode of `pkg/store/valkey` | shard maps of the nodes, homes of agents | routing, ownership, lookups, merged lists |
| Schema migrations | `pkg/store/migrations`, `*_migrations.go`, `cmd/server` | schema, `schema_migrations` table | migrate, rollback, validate, restarts |
| HTTP API, quotas | `internal/api` | none of its own; quotas are counted in the store | requests as sequences of store calls |
| Python SDK | `sdk/python` | attempts of a call | retries |

The API's handlers call a store; every store implements `agent.AgentSpace`.
Workers hold lease tokens and present them with every later call.  What is hard,
and what must hold nevertheless:

| Part | Hard behaviour | Property |
|---|---|---|
| PostgreSQL lifecycle | late holders, retried completions, reaper against renewal, events after the commit | one completion per agent, fenced tokens, finality, log in step with rows, lapsed leases end |
| Queue claiming | stale and double candidates, try-lock and row locks together | exclusive claims, strict order, no stuck queue |
| Blocking calls | signal between miss and sleep, lost notification, deadline against result | calls return, work does not lie beside a waiting call, documented answers |
| Event writer | full channel, refused batch, stop with a partial batch and operations under way | each event at most once, Close loses none of the operations that had returned, ticker writes the rest |
| SQLite lifecycle | one connection, failure anywhere in a transaction, clock read before waiting | contract, announced events are logged, no leaked connection |
| Valkey lifecycle | blind write of an update, partial batch, many index keys | indexes agree, contract until a race |
| Sharding | nodes with different maps, maps with other shards, lookup and effect as two steps, outages, updates that change the queue | an agent is where takes look, the shards are one AgentSpace, work goes on |
| Merged lists | shards read at different times, items that become visible out of order, pages and offsets | nothing missed that stays on the page, nothing repeated |
| Migrations | no lock between commands, kill between a statement and its record | no holes, recorded means applied, servers come up |
| API and SDK | count then create, retry of what took effect, reads that fail after it, second connection inside a transaction | quota unless raced, a reported outcome is true, every call ends |

## Modules

**`AgentSpace`** is the contract: an agent is published once, claimed under a
token never used before, given back, or finished, and then stays finished; the
outputs of a completion appear together with it.  The three stores and the
sharded composition are shown to implement it (`ImplementsContract`) under the
mapping that forgets all but status, current token and completing token; the
Valkey store only as long as no update has raced with another operation.

**`PostgresStore`** models the lifecycle operations.  Each is one SQL
transaction that decides on a row it has locked, so each is one step; a refused
request changes nothing.  `row[a]` has the columns the decisions depend on.
Clocks appear only where the code compares with them: `lease_until` is `NULL`,
`AHEAD` or `PAST`, and `live` is the TTL clause.  `held` and `acked` are what
workers were told; replies may be lost, workers repeat calls with any token they
ever got, and crash.  `DeferEvents` is the store's option.  `BatchTake` writes
its events after its commit, and the reaper never defers.

**`QueueClaim`** opens up the one thing `PostgresStore` leaves open, *which* row
a take claims.  Claims are transactions with locks: the strict head under the
advisory try-lock, the parallel claim with SKIP LOCKED, batches, and the
prefetcher with its channel of identifiers that may be stale or double.
`claims[a]` is the sequence of workers whose claims of `a` committed since it was
last free.  Agents are numbered by `created_at`, which `Out` stamps before it begins
its transaction, and become visible in any order; `before[a]` remembers what was
visible when `a` did.

**`BlockingCalls`** models the loops of `In` and `Read` on several servers with
each backend's way of waking up and giving up, and the answer of the handler.

**`EventWriter`** models the writer goroutine of deferred events with its bounded
channel, batch, ticker, and the two ways a process stops.  Neither waits for the
operations under way: they commit, queue and write beside the drain, and on Valkey
are cancelled with the store's context.

**`SQLiteStore`** models the lifecycle on a single connection: a transaction is
open over several steps and may fail or die anywhere, calls wait for it with a
clock they read earlier, the reaper goes on after failed statements, and
subscribers are told of events after the commit, or before it by the reaper.

**`ValkeyStore`** models the Lua scripts, each one step, with all index keys, and
`UpdateAndGet` as its two steps.  The history variable `raced` records whether
an update has overwritten something it had not read; a lease that merely lapses in
between is no race.

**`ShardedStore`** composes several stores.  A node loads the shard map when it
starts and keeps it, so that nodes may disagree about owners and about the list of
shards; publishing and taking go to the shard that the node's map has at the
queue's hash modulo the length of the list, and only through its owner; a call
that names an agent looks it up in one step and acts in a second, while the
agent may be finished, reaped or claimed again in between.  Nodes crash, shards
stop answering and come back, an operator deploys another map, which may send a
queue to another shard (`rehashed`), and updates take agents out of their queue
(`moved`).  Each shard is
taken to be atomic per call, which is what the store modules show.

**`ShardedReads`** models the lists merged from several shards: the shards are
asked one after the other while items are recorded, and the page is cut out of
the sorted union.  An item has a time stamp and a place in the order of insertion
on its shard, which need not agree: a shard of Valkey cuts its events by the one and
the page is sorted by the other.  `Rank` is the reference: the position an item has in the list.
Page sizes are positive; a size of 0, which stands for no limit, is left out.

**`SchemaMigrations`** models `migrate`, `rollback` and `validate` of both SQL
backends over their real lists of files: which ones run in a transaction with
their record and which are two statements, which can be repeated, which create,
rename or refuse.  Commands run at the same time without a lock, are killed at
any statement, and servers that failed are started again.  A server of PostgreSQL
then creates the partitions of the coming days, for which `agent_events` has to be
there and to be partitioned (`PartitionsEnsured`).

**`ApiRequests`** models the calls of the Python SDK, their retries, and the
handlers behind them as sequences of store calls that go on after the client has
left: quota counts and creation, take, the look at the agent before a completion
and the Get after it, and the second connection `completeAndGet` asks the pool for.
Each store call may fail (`Fails`): the handlers answer 404 to whatever goes wrong
when an agent is read, and the SDK does not repeat a call after a 404.

Definitions called a *variant with a fault* or *Fault* are not part of any
specification.  They change one definition the way a plausible bug would, and
each property is shown to fail when the variant named in `PROJECT.json` takes
its original's place.

## Runs

| Run | States | Shows |
|---|---|---|
| `postgres_lifecycle` | 113,584 | Two agents, workers and tokens, with lost replies, retries, crashed workers, lapsed leases and the reaper: tokens fence, completion is exactly-once, outputs have a cause, no version has two events, the log misses at most batch claims, no token is revived, the contract is implemented |
| `postgres_deferred` | 131,713 | One agent, events deferred to a writer that may die: no version has two events, and under the reaper's ticker every lapsed lease ends |
| `queue_claim` | 93,676 | Four configurations: no double claim; strict order of agents published one after the other in queues without batch takes and releases; filters hold without the prefetcher; no stuck queue when every query matches every agent |
| `blocking_calls` | 106,428 | Every call whose deadline passes returns; on the SQL stores blocked calls do not leave work lying; `in` on the SQL stores and `read` on Valkey answer as documented |
| `event_writer` | 134,521 | No event written twice; Close, with operations under way, loses none of those that had returned unless the database refused it; all are written in the end |
| `sqlite_store` | 320,434 | Exactly-once completion and the contract hold across failures and crashes; only the reaper's events can be announced or omitted wrongly; every call returns |
| `valkey_scripts` | 108,119 | Indexes always agree with agents, whatever races; contract, exactly-once completion and log hold until an update races |
| `valkey_update_completion` | violated | A racing update undoes a confirmed completion |
| `sharded_store` | 267,303 | Two nodes, two shards, two maps of which one leaves out a shard: agents are where takes look unless an update moved them or a map their queue; the shards together implement the contract; free and lapsed work goes on |
| `sharded_reads` | 475,156 | Every list, limit and offset over every placement and order of insertion of three items: a page misses nothing that stays on it and repeats nothing |
| `schema_migrations` | 264,098 | A migrating server, a validating server and an operator's command, killed anywhere: no holes in the record, what is recorded is applied, servers come up, with the exceptions below |
| `api_requests` | 581,488 | A producer and a worker with two attempts each, lost answers and failing store calls, over four deployments: the quota holds unless raced, reported outcomes are true, every call and handler ends |

The violated run is a disagreement between the code and its documentation; the
finding in `PROJECT.json` quotes both.

**Named exceptions.**  Where the code does not have a property everywhere, the
passing run checks the strongest version that holds, and the property names the
exception.  The exceptions are behaviours of the code:

- A Valkey update writes back what it read (`valkey/store.go:1060`); the
  Valkey properties hold until one races (`raced`).
- A batch take on Valkey that meets another kind returns nothing of what it has
  claimed (`valkey/store.go:2456`); the agents wait for the reaper.  The contract
  allows a claim nobody was told of.
- A prefetched claim ignores the query's filters (`postgres_lifecycle.go:195`):
  `UnprefetchedClaimsMatch`.  Batch takes overtake strict ones: `StrictOrder` is
  about queues without them.  Of two agents that are published at the same time
  the younger may become visible, and be claimed, first: `StrictOrder` is about an
  agent and the older ones that were visible when it was published.
- A timed-out `in` on Valkey gives `InAgent` a nil agent (`handlers.go:668`), and
  a `read` whose deadline passes on an SQL store answers 500 where
  `api/openapi.yaml` has 408 (`handlers.go:459`): `AgreeingHandlersAnswer` leaves
  both out.  `waitForWakeup` of Valkey can miss a signal (`valkey/store.go:1766`):
  `WaitingWorkIsTaken` is about the SQL stores.
- A server stopped by a signal returns from `main` without closing its store
  (`cmd/server/main.go:947`): `StoppingKeepsEvents` promises nothing for it, nor
  for an operation that `Close` meets between its commit and its `enqueueEvent`
  (`postgres_engine.go:168`), whose event may be queued behind the drain.
- The SQLite reaper tells subscribers of a release before it commits it
  (`sqlite_reaper.go:132`): `AnnouncedIsLogged` leaves its announcements out.
- An update through the store bound to a request may change an agent's queue to
  one of another shard (`postgressharded/store.go:902`), and one with an empty queue
  passes the tests of both sharded stores; no take finds the agent again (`moved`).
  A map that lists other shards sends queues to another shard, and no take finds
  the agents that were queued before it (`rehashed`).
- `QueryEvents` of the sharded PostgreSQL store applies the offset twice
  (`postgressharded/store.go:690`); Valkey filters only the events
  (`valkey/store.go:1488`) or spans (`:1606`) it fetched for an unfiltered page, and
  fetches events by the order in which they were added, which is not that of their
  stamps when operations overlap.  `Exact` leaves these reads out of
  `PagesMissNothing`.
- A rollback beside another command can leave a hole in the recorded versions
  (`overlap`); where it undid the rename or the partitions under a newer version,
  every server of PostgreSQL fails in `ensureEventPartitions` from then on
  (`EventsLost`).  An interrupted `CREATE INDEX CONCURRENTLY` is recorded as built
  when it is run again (`cut`), and a late `0001` creates the indexes again that
  0010 to 0013 dropped.  SQLite's `0002` cannot be applied after its own
  rollback (`ColumnLeftBehind`).  A SQLite database never passes `validate`: its
  last file is 6, the target 17.
- The quota is two or three counts before a write (`raced` of `ApiRequests`).
  Valkey refuses the repetition of a complete-and-out that took effect
  (`valkey/store.go:3275`).  A call may end in `NotFoundError` although it completed
  its agent: the agent could not be read back (`handlers.go:768`), or an earlier
  attempt completed it and the look at it failed (`handlers.go:695`, `:808`).
  `OutcomesAreTrue` names these three cases.  Without a time limit,
  completions in conflict can use up the pool and wait for each other
  (`postgres_lifecycle.go:803`); `CallsEnd` asks for a limit or a larger pool.

A configuration (backend, claim mode, prefetcher, callers that read or never
time out, how the process stops, pool and time limit) is a variable
that `Init` chooses, so that one run covers all of them.

**Bounds.**  Two agents are enough for a batch, for outputs, and for one agent's
token to be tried on another; two tokens are enough for a lease, its reaping and
a second lease, hence for every stale token; two workers for the old and the new
holder.  In `sqlite_store` there is one named worker, and anonymous takers are
the second party; one of the two agents has a TTL.  `valkey_scripts` has two
kinds, so that a batch meets an agent it does not want.  `MaxVersion` stops
`UpdateAndGet`, the only operation tokens do not bound.  `QueueCap` 1 with
four events makes the channel overflow; `BatchSize` 2 gives full and partial
batches.  `MaxAborts` and `MaxReleases` of 1 give each order of an abort, a
release and the claims around it; three agents were checked once as well (2.4
million states).  In `sharded_store` one map leaves a shard
without an owner and the other gives the first shard to the other node and leaves
out the second; one call between lookup and effect meets everything the other
actions do; one fault is a crash, an outage or a new map; `MaxMoved` 1 lets an
update take one of the two agents out of place while the other stays.  Three maps
without that bound were checked once as well (0.7 million states).  In
`sharded_reads` three items on two shards with pages of one or two give pages that
lie on one shard, on both, and across the end of a list, and streams that are in
the order of the stamps or not; four items were checked once as well.
In `schema_migrations` databases start empty or just before the renaming file,
and operators ask for versions on both sides of it, and for one before the
partitions; one kill is enough for every cut between a statement and its record.
In `api_requests` the namespace has room
for one more agent, so that each second creation is at the cap, and two answers are
lost or store calls fail (`MaxLosses`), which is enough for both attempts of a call.
With one output a complete-and-out leaves the number of active agents as it was, so
that only creations can exceed the cap.  Symmetry is used only where no liveness is
checked.

**Fairness.**  `PostgresStore`: the reaper, because its ticker runs while the
store is open and a row skipped as locked is found by a later tick.
`BlockingCalls`: a runnable call runs and deadlines pass; nothing is assumed of
publishers, notifications or listeners.  `EventWriter`: the writer goroutine and
running operations.  `QueueClaim`: workers keep taking.  `SQLiteStore`: a
transaction runs on unless it fails, and a waiting call is not passed over for
ever (strong fairness, since other calls get the connection in between);
database/sql serves waiting requests without preference.  `ShardedStore`: workers
keep asking, reapers tick, stopped nodes and shards come back and an operator
finishes a rollout (`Progress`); nothing is assumed of publishers, of calls that
name an agent, or of faults.  `SchemaMigrations`: processes run and a server that
exited is started again; operators need not act.  `ApiRequests`: handlers and
clients go on, and a client gives up only where a time limit exists.

`CHECK_DEADLOCK FALSE` is set where the system may stop: the store modules end
when tokens and versions are used up, in `BlockingCalls` a call with no deadline
may wait for ever for work nobody publishes, and lists, migrations and SDK calls
come to an end.

## Proofs

Every safety property of a passing run is also a theorem, for every value of
the constants.  A proof module extends the module it is about; two of them extend a
second one and have a last section about it: merged lists with the sharded store,
blocking calls with the claims they repeat.

| Module | Theorems (the property each one states) |
|---|---|
| `PostgresStoreProofs` | listed below |
| `SQLiteStoreProofs` | `ExactlyOnceCompletion` (`ConfirmedIsTheCompletion`), `AnnouncementsAreLogged` (`AnnouncedIsLogged`), `LogIsNearlyComplete` (`LogMissesOnlyReaps`), `Refinement` (`ImplementsContract`) |
| `ValkeyStoreProofs` | `IndexesAlwaysMatch` (`IndexesMatchAgents`), `ExactlyOnceUnlessRaced` (`ConfirmedUnlessRaced`), `LogIsExact` (`LogIsTheHistory`), `Refinement` (`ImplementsContract`) |
| `ShardedStoreProofs` | `Placement` (`AgentsAreWhereTakesLook`), `ShardedRefinement` (`ImplementsContract`); of `ShardedReads`: `ReadsMissNothing` (`PagesMissNothing`), `ReadsRepeatNothing` (`PagesRepeatNothing`) |
| `QueueClaimProofs` | `ExclusiveClaims` (`ClaimsAreExclusive`), `MatchingClaims` (`UnprefetchedClaimsMatch`), `ClaimsInOrder` (`StrictOrder`); of `BlockingCalls`: `BlockedCallsAnswer` (`AgreeingHandlersAnswer`) |
| `EventWriterProofs` | `ClosingLosesNothing` (`StoppingKeepsEvents`), `EventsAreWrittenOnce` (`EventsAreUnique`) |
| `SchemaMigrationsProofs` | `RecordedVersionsHaveNoHoles` (`RecordIsAPrefix`), `RecordedVersionsAreApplied` (`RecordedIsApplied`) |
| `ApiRequestsProofs` | `CallsReportTheTruth` (`OutcomesAreTrue`), `QuotaHolds` (`QuotaHoldsUnlessRaced`) |

Each inductive invariant was also checked by TLC, as an invariant of its
component's run.

`ShardedReads` and `BlockingCalls` share a proof module with the component they
belong to.  That module extends both, so the parts of these two specifications
have names of their own (`ReadsSpec`, `ReadsNext`, ...; `CallsSpec`, `CallsNext`,
...).

### PostgreSQL

`PostgresStoreProofs` proves, for any sets of agents, workers and tokens, any
bound and both values of `DeferEvents`:

| Theorem | States |
|---|---|
| `TypeCorrect` | `Spec => []TypeOK` |
| `LeasesMatchStatus` | a lease exactly while IN_PROGRESS, a completing token exactly when COMPLETED |
| `Fencing` | a token acts for one agent and one worker |
| `ExactlyOnceCompletion` | a confirmed completion is the only one |
| `OutputsAreCaused` | outputs only of completions that took effect |
| `NoRevival`, `Finality`, `Versions` | the three action properties |
| `SingleEvents` | at most one event per version, none ahead of its row |
| `DenseLog` | without deferred events the log lacks only batch claims |
| `Refinement` | `Spec => ImplementsContract` |

They rest on the module's four named assumptions (the empty identity and the
empty token are not real ones, the bound is a number, the option a Boolean).

*The argument.*  `StepShape` shows that every step is, for the leases, one of
five shapes: quiet, insert, claim, complete, give back.  The later proofs go by
shape, not by operation.  None of the invariants is inductive alone: that a
confirmed completion stays *the* completion needs that no other row carries the
same token, which needs that every token in use was issued before and that a
claim takes one that was not.  The inductive invariant `IInv` is therefore the
conjunction of the types, `LeaseMatchesStatus`, `TokenNamesOneClaim`,
`ConfirmedIsTheCompletion` and `OutputsHaveACompletion` with three
strengthenings: `TokensIssued` (tokens in rows and in workers' hands were
issued), `TokensApart` (no two rows share one, as lease or as completer) and
`AbsentRowsAreBlank`.  The action properties and the refinement follow from
`IInv` and the shape of the step.

For the log there is a second shape, `LogStep`: a step moves a set of agents on
by one version each, describes each at most once, and leaves only a claim of a
NEW row unlogged.  New events are then ahead of all old ones, so that they stay
single.  A claim that goes unlogged starts from a NEW row, whose newest version is
logged by `NoGaps`, so that no two versions in a row are missing; that a NEW row
has a version at all is `RowsHaveVersions`.

### SQLite

An operation takes several steps here, and the row it decided on is written only
when its transaction commits.  The proof describes the open transaction by what
it is going to write (`Pending`): `Shape` says that it inserts, claims, updates,
completes, repeats or gives back, *relative to the committed rows*, and `Logs`
what it has logged of each agent.  Nobody else has the connection, so these stay
true until the commit, and a commit is then one step of the contract; a rollback
or a crash throws the transaction away.  `IInv` adds that rows never inserted are
blank, that only claimed rows lapse, and that tokens workers hold or call with
were issued.  A second invariant carries `LogMissesOnlyReaps`: the third case of
`Logs` is the reaper's release without an event, which starts from an
IN_PROGRESS row, whose newest version is logged.  The module needs no assumption
on its constants.

### Valkey

Each script is one step, so the invariant speaks of the agents' values: indexes
equal to `Keys` of the value, agents never published blank, and, until `raced`,
exactly-once completion and one event per version.  `IndexesMatchAgents` needs
no `raced`: `UpdateWrite` computes the indexes from the value it overwrites and
not from the one it read.  `LogIsTheHistory` counts events; the proof adds them
one version at a time with the theorems on cardinality.  Assumptions: agents are
a finite set of numbers, the empty token, owner and filter are not real ones, there
is a queue, and the bound is a number.

### Sharding

`ShardedStoreProofs` proves, for any nodes, shards, queues, hash, shard maps and
calls (`ShardMapAssumption`: a map gives each of its shards a node or none, and the
hash maps the queues to shards of the map), `Placement` (`AgentsAreWhereTakesLook`) and
`ShardedRefinement` (`ImplementsContract`).  A call acts on what it looked up
earlier, and a row may have changed since; what survives is that a row never
changes its shard, that a call's token was issued, and that a token is compared
again when the call acts.  Placement needs more: nodes that have loaded different
maps must still look in the same place.  `MapsAgree` says that they do for every
queue that no map sent elsewhere, and `RowIsSound` that a row is there (`Home`);
one conjunct of `IInv` is about the calls; `StepShape` reduces the actions to what they do to
rows, `RowsStaySound` and `DeploymentStaysTyped` show that the invariant is kept.

### Merged lists

A page is a statement about sorting and cutting lists of any length, and a proof
by induction on the length is out of reach.  `ShardedReads` therefore says what
the sorted list *is*: the item at position `n` is the one whose `Place`, the
number of items that are not after it, is `n`.  `PlaceFacts` shows from the
theorems on cardinality that places are distinct, follow the order and run from 1
to the number of items; `FS_Injection` then gives an item for every position
(`SortedFacts`), and `CutFacts` says which places a page holds.  The invariant
`ReadsInv` is about reads under way.  `Covered`: of the shards already asked, the
read has every item that was there when it began and whose position in the whole
list is not past the end of the page.  It holds because an item's place in its
shard's own list is at most its place in the whole one, in whichever order the shard
cuts it where the read is exact (`OrdersAgree`), and places only grow while
items are recorded (`PlaceMonotone`).  `PageSound` keeps the answered page in order
and after the offset, whatever is recorded later.  The theorems hold for any
sequence of shards and any number of items (`Bounds`: page sizes are positive,
offsets are numbers).

### Queue claiming

The claims hold for any finite set of agents numbered in their order of
creation, any workers, configurations and limits (the module's three
assumptions).  `ClaimsAreExclusive` needs that the rows a transaction holds are
NEW (`PicksAreNew`) and that no two hold the same one, which is what row locks
give; a stale prefetched identifier is harmless because the row is tested again.
For `StrictOrder` the hard case is a snapshot taken before another transaction
committed, while older agents may still be on their way.  The predecessors of an
agent are the older ones that were visible at its publication (`before`), and they
stay visible (`BeforeIsBorn`).  `HeldInOrder` says that a snapshot misses no
predecessor of its agents that is not claimed, and that all predecessors of a held
or claimed row are claimed.

`BlockedCallsAnswer` is about any servers, calls and backends.  What a call on an
SQL store does at its deadline depends on where it is (`WakeLate`,
`ClaimInterrupted`); the proof goes through the ways to return and what the
handler makes of each.  Beside the types the invariant needs only that no more
agents are free than were made.

### Event writer

`EventWriterProofs` proves, for any events, capacity, batch size and refused
writes, `ClosingLosesNothing` and `EventsAreWrittenOnce`.  `Accounted` says that the
event of a returned operation is in the channel, the batch or the database, or
was refused.  Operations go on filling the channel during Close, so that the writer
can leave it with events in it; `Phases` says that none of these is of an operation
that had returned when Close began (`handed`), and what of theirs the writer has
emptied at each stage.  `Once` is the other half: batch
and channel are free of repetitions, have nothing in common, and hold only events
of returned operations that are neither written nor refused.  The proofs rest on
the module's four assumptions on its constants.

### Schema migrations

The theorems hold for any number of servers, operators and kills, and any start
version and target (`VersionsAssumption`: a database starts empty or at a version
that has a file).  `Base` is what a command keeps whatever runs beside it: where
its loop is, and that an index build has its table and blocks other changes of it.
`Ordered` holds until a rollback overlaps: no migration is past a version that is
not recorded (`Behind`), the tables have their name by the rename's record
(`Named`), and what is recorded or about to be is applied (`Kept`, `Made`).
`Named` is needed because a migration that started with an old version runs files
on tables that were renamed meanwhile; what it then does is recorded already.

### API and SDK

`ApiRequestsProofs` proves both safety properties for any producers, workers,
attempts, quota, seeds, lost answers and deployments.  Assumptions: no client is
both a producer and a worker, numbers are numbers, the quota is not exceeded at
the start, and deployments have the form `Deployment` says.

*What calls report.*  A client may have several attempts under way, and handlers go
on after their client has left.  `OInv` links the three parties: an agent names the
request that made it and the request whose claim completed it (`AgentsSound`),
and these have been sent and are over; a handler runs the operation of its client's
call (`HandlersSound`); a handler that has found out or answered something is right
about it, *and stays right* until its client reads the answer (`RepliesTrue`).
The last point is the hard one: `Refused` must not become false later, so a worker
that lost its lease can never complete, and one that completed is refused only in
the Valkey repetition of a complete-and-out.  A 404 is weaker: `Missed` says what
one attempt that could not look at its agent still proves, that the agent is not
completed and that nothing of the call goes on, and `Looked` that a first attempt
completes nothing before it has looked.  `OutputsOnce` says that a completion
has its output exactly when it took effect, which is why a repetition publishes
nothing.  Steps of handlers and the reaper are reduced to `Moves(r)`, what a step
for request `r` may do to the agents; `HandlerKeeps` shows once that such a step
keeps `OInv`, and each action is shown to be one.

*The quota.*  `QInv` says what a creation may rely on between its counts: as long
as it is not marked stale, the NEW agents are no more than it counted, and after
the second count the two together leave room for one.  A step that adds a NEW
agent marks the creations it passes (`StaleFacts`), one that adds none changes
neither sum (`NoAgentAdded`, on the cardinalities of the two sets), and a stale
creation that writes sets `raced`.

### What is only model-checked

Liveness: `CallsEnd`, `CallsReturn` of `BlockingCalls` and of `SQLiteStore`,
`WaitingWorkIsTaken`, `CommittedIsLogged`, `ServersComeUp`, `LapsedLeaseEnds`,
`NewIsClaimed` and `WorkGoesOn`.  Fairness and ENABLED are beyond the prover.

Only proved, and in no run: `LeaseMatchesStatus`, `CompletionIsFinal` and
`VersionTracksChange` of `PostgresStore`.

## Not modelled

- Payloads, tags and traces (no decision but the filters depends on them),
  metrics, logging, health and statistics handlers.
- Authentication compares a request with keys loaded at start and shares no
  state between requests.  The rate limiter is a counter under a mutex; only the
  clock decides when its entries are pruned.
- The leadership lock of Valkey's reaper: reaping is one script any server may
  run, so that two leaders harm no agent.
- Event partitions: that a server needs partitioned event tables to come up is in
  `SchemaMigrations`; which days have a partition, and when old ones are dropped,
  depends on the date and is not modelled.
- Equal time stamps: no two are equal in the models of lists and queues.  Merged
  lists order them by identifier, the shards' own lists not everywhere.
- Subscriptions: when an event is announced is in `SQLiteStore`; the text keys
  that encode filters are not modelled, and no order of delivery is promised.
- The TypeScript SDK sends each request once (`ApiRequests` with one attempt).
  Flags, configuration, wiring and the examples have no state of their own.
- In `ValkeyStore`: agents with a TTL, and deferred events (those are in
  `EventWriter`).  In `BlockingCalls`: cancellation by the client, and database
  errors other than the deadline.  A COMMIT that fails in SQLite is taken to
  discard its transaction.
- `ShardedStore` leaves out the cache of homes: a row never changes its shard and
  an entry is tried before it is used.  Lists and counts of a postgres-sharded
  node are of the shards it is connected to; `ShardedReads` is about these.
- In all store modules a row of a given identifier is inserted once: the server
  makes identifiers, so an insert over an existing row does not occur through
  the API.
