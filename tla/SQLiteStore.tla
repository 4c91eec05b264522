---------------------------- MODULE SQLiteStore ----------------------------
(***************************************************************************)
(* The SQLite backend (pkg/store/sqlite): the agent lifecycle, the lease   *)
(* reaper and the announcement of events to in-process subscribers.        *)
(*                                                                         *)
(* The pool has one connection, so a transaction runs alone: `tx' is the   *)
(* open one, with the rows as it will leave them, and the other calls wait *)
(* for it.  A transaction ends in a commit, in an error (a statement or    *)
(* the commit fails, or the store's context is cancelled: the deferred     *)
(* Rollback discards it), or with the process.  The lease-guarded calls    *)
(* and UpdateAndGet read the clock before they wait for the connection:    *)
(* `live' in a call is the TTL clause at that earlier time.                *)
(*                                                                         *)
(* lapsed and expired are the clock: the agents whose lease_until, or whose*)
(* created_at plus TTL, is in the past.                                    *)
(***************************************************************************)
EXTENDS Naturals

CONSTANTS
    Agents,       \* agent identifiers that may ever be inserted
    Mortal,       \* the agents among them that have a TTL
    Workers,      \* worker identities
    Anonymous,    \* the empty worker identity
    Reaper,       \* the lease reaper, as the one who runs a transaction
    Tokens,       \* the lease tokens (UUIDs) that may ever be generated
    NoToken,      \* the empty lease token
    NoCall, NoTx, \* no request is waiting; no transaction is open
    MaxVersion    \* bound: UpdateAndGet is not called past this version

VARIABLES
    row,          \* row[a]: the committed row with id a
    log,          \* the committed agent_events
    tx,           \* the open transaction
    call,         \* call[w]: the request of w that the server is working on
    issued,       \* the lease tokens of the claims committed so far
    held,         \* held[w]: the <<agent, token>> pairs take replies gave w
    acked,        \* the <<agent, token>> pairs whose completion was confirmed
    announced,    \* the events subscribers were told of
    lapsed, expired

vars == <<row, log, tx, call, issued, held, acked, announced, lapsed, expired>>
clients == <<issued, held, acked>>
clock == <<lapsed, expired>>

Row == [status       : {"NONE", "NEW", "IN_PROGRESS", "COMPLETED"},
        owner        : Workers \cup {Anonymous},
        lease_token  : Tokens \cup {NoToken},
        version      : Nat,
        completed_by : Tokens \cup {NoToken}]

Event == [agent   : Agents,
          type    : {"CREATED", "CLAIMED", "UPDATED", "COMPLETED", "RELEASED"},
          version : Nat,
          reaped  : BOOLEAN]    \* AgentID is "reaper"

Ops == {"update", "complete", "completeAndOut", "release", "renew"}
Call == [op : Ops, agent : Agents, token : Tokens \cup {NoToken}, live : BOOLEAN]

Tx == [by     : Workers \cup {Anonymous, Reaper},
       row    : [Agents -> Row],
       events : SUBSET Event,
       leased : SUBSET (Agents \X Tokens),   \* leases that start or are renewed
       done   : SUBSET (Agents \X Tokens),   \* the completion to confirm
       todo   : SUBSET Agents]               \* agents the reaper has yet to release

\* Committed rows and events, the open transaction and the waiting calls have
\* their types.
TypeOK ==
    /\ row \in [Agents -> Row]
    /\ log \subseteq Event /\ announced \subseteq Event
    /\ tx = NoTx \/ tx \in Tx
    /\ call \in [Workers -> Call \cup {NoCall}]
    /\ issued \subseteq Tokens
    /\ held \in [Workers -> SUBSET (Agents \X Tokens)]
    /\ acked \subseteq Agents \X Tokens
    /\ lapsed \subseteq Agents /\ expired \subseteq Agents

NoRow == [status |-> "NONE", owner |-> Anonymous, lease_token |-> NoToken,
          version |-> 0, completed_by |-> NoToken]

Init ==
    /\ row = [a \in Agents |-> NoRow]
    /\ log = {} /\ announced = {}
    /\ tx = NoTx
    /\ call = [w \in Workers |-> NoCall]
    /\ issued = {}
    /\ held = [w \in Workers |-> {}]
    /\ acked = {}
    /\ lapsed = {} /\ expired = {}

-----------------------------------------------------------------------------
\* What the statements write into one row.
upsertSQLiteAgent == [NoRow EXCEPT !.status = "NEW", !.version = 1]

claimSQLiteAgent(r, w, t) ==
    [status |-> "IN_PROGRESS", owner |-> w, lease_token |-> t,
     version |-> r.version + 1, completed_by |-> r.completed_by]

\* Variant with a fault: the token stays behind.
UnleasedKeepsToken(r, status) ==
    [r EXCEPT !.status = status, !.owner = Anonymous, !.version = @ + 1]

Unleased(r, status) ==
    [status |-> status, owner |-> Anonymous, lease_token |-> NoToken,
     version |-> r.version + 1, completed_by |-> r.completed_by]

Completed(r) == [Unleased(r, "COMPLETED") EXCEPT !.completed_by = r.lease_token]

insertSQLiteEvent(a, type, rows, reaped) ==
    [agent |-> a, type |-> type, version |-> rows[a].version, reaped |-> reaped]

\* Variant with a fault: subscribers are told before the commit.
BeginAnnounces(w, rows, events, leased, done) ==
    /\ tx = NoTx
    /\ tx' = [by |-> w, row |-> rows, events |-> events, leased |-> leased,
              done |-> done, todo |-> {}]
    /\ announced' = announced \cup events
    /\ UNCHANGED <<row, log, clock>>

\* BeginTx and the statements of an operation that is not refused.
Begin(w, rows, events, leased, done) ==
    /\ tx = NoTx
    /\ tx' = [by |-> w, row |-> rows, events |-> events, leased |-> leased,
              done |-> done, todo |-> {}]
    /\ UNCHANGED <<row, log, announced, clock>>

-----------------------------------------------------------------------------
Out(a) ==
    /\ row[a].status = "NONE"
    /\ LET rows == [row EXCEPT ![a] = upsertSQLiteAgent]
       IN  Begin(Anonymous, rows,
                 {insertSQLiteEvent(a, "CREATED", rows, FALSE)}, {}, {})
    /\ UNCHANGED <<clients, call>>

\* Take claims the oldest row that passes the filters; which of the claimable
\* ones that is depends on the query.
Claimable(a) == row[a].status = "NEW" /\ a \notin expired

\* Take reads the clock inside its transaction.
Take(w, a, t) ==
    /\ w # Anonymous => call[w] = NoCall
    /\ Claimable(a)
    /\ t \notin issued
    /\ LET rows == [row EXCEPT ![a] = claimSQLiteAgent(@, w, t)]
       IN  Begin(w, rows, {insertSQLiteEvent(a, "CLAIMED", rows, FALSE)},
                 {<<a, t>>}, {})
    /\ UNCHANGED <<clients, call>>

\* A request arrives: an update by anyone, or a call of a worker with a lease
\* it was given, current or stale.
Request(w, op, a, t) ==
    /\ call[w] = NoCall
    /\ tx # NoTx => tx.by # w
    /\ IF op = "update"
       THEN t = NoToken /\ row[a].status # "NONE" /\ row[a].version < MaxVersion
       ELSE <<a, t>> \in held[w]
    /\ call' = [call EXCEPT ![w] = [op |-> op, agent |-> a, token |-> t,
                                    live |-> a \notin expired]]
    /\ UNCHANGED <<row, log, tx, clients, announced, clock>>

\* Variant with a fault: the token is not compared.
HoldsLeaseByOwner(w, c) ==
    /\ c.live
    /\ row[c.agent].status = "IN_PROGRESS"
    /\ row[c.agent].owner = w

HoldsLease(w, c) ==
    /\ c.live
    /\ row[c.agent].status = "IN_PROGRESS"
    /\ row[c.agent].owner = w
    /\ row[c.agent].lease_token = c.token

AlreadyCompleted(c) ==
    /\ c.live
    /\ c.op \in {"complete", "completeAndOut"}
    /\ row[c.agent].status = "COMPLETED"
    /\ row[c.agent].completed_by = c.token

Accepted(w, c) ==
    \/ c.op = "update" /\ c.live
    \/ c.op # "update" /\ (HoldsLease(w, c) \/ AlreadyCompleted(c))

\* Variant with a fault: the version is not incremented.
UpdateInPlace(w, c) ==
    /\ c.op = "update" /\ Accepted(w, c)
    /\ Begin(w, row, {insertSQLiteEvent(c.agent, "UPDATED", row, FALSE)}, {}, {})
    /\ UNCHANGED <<clients, call>>

UpdateAndGet(w, c) ==
    /\ c.op = "update" /\ Accepted(w, c)
    /\ LET rows == [row EXCEPT ![c.agent].version = @ + 1]
       IN  Begin(w, rows, {insertSQLiteEvent(c.agent, "UPDATED", rows, FALSE)}, {}, {})
    /\ UNCHANGED <<clients, call>>

\* CompleteAndGet (O = {}) and CompleteAndOut: one transaction completes the
\* agent and inserts its outputs.
CompleteAndOut(w, c, O) ==
    /\ c.op = "complete" => O = {}
    /\ c.op \in {"complete", "completeAndOut"} /\ HoldsLease(w, c)
    /\ \A b \in O : row[b].status = "NONE"
    /\ LET a == c.agent
           rows == [b \in Agents |-> IF b = a THEN Completed(row[a])
                                     ELSE IF b \in O THEN upsertSQLiteAgent
                                     ELSE row[b]]
       IN  Begin(w, rows,
                 {insertSQLiteEvent(a, "COMPLETED", rows, FALSE)}
                   \cup {insertSQLiteEvent(b, "CREATED", rows, FALSE) : b \in O},
                 {}, {<<a, c.token>>})
    /\ UNCHANGED <<clients, call>>

\* A retry is confirmed again and writes nothing.
CompleteAgain(w, c) ==
    /\ AlreadyCompleted(c)
    /\ Begin(w, row, {}, {}, {<<c.agent, c.token>>})
    /\ UNCHANGED <<clients, call>>

ReleaseAndGet(w, c) ==
    /\ c.op = "release" /\ HoldsLease(w, c)
    /\ LET rows == [row EXCEPT ![c.agent] = Unleased(@, "NEW")]
       IN  Begin(w, rows, {insertSQLiteEvent(c.agent, "RELEASED", rows, FALSE)}, {}, {})
    /\ UNCHANGED <<clients, call>>

RenewLease(w, c) ==
    /\ c.op = "renew" /\ HoldsLease(w, c)
    /\ Begin(w, row, {}, {<<c.agent, c.token>>}, {})
    /\ UNCHANGED <<clients, call>>

\* Every early return rolls the transaction back.
Refuse(w, c) ==
    /\ ~Accepted(w, c)
    /\ tx = NoTx
    /\ call' = [call EXCEPT ![w] = NoCall]
    /\ UNCHANGED <<row, log, tx, clients, announced, clock>>

Serve(w) ==
    /\ call[w] # NoCall
    /\ LET c == call[w]
       IN  \/ UpdateAndGet(w, c) \/ CompleteAgain(w, c) \/ ReleaseAndGet(w, c)
           \/ RenewLease(w, c) \/ Refuse(w, c)
           \/ \E O \in SUBSET (Agents \ {c.agent}) : CompleteAndOut(w, c, O)

-----------------------------------------------------------------------------
\* A tick of the reaper.  Its clock was read before the transaction began, so
\* it may leave out leases that have lapsed since.
reapExpiredLeases(S) ==
    /\ S # {} /\ S \subseteq lapsed
    /\ tx = NoTx
    /\ tx' = [by |-> Reaper, row |-> row, events |-> {}, leased |-> {},
              done |-> {}, todo |-> S]
    /\ UNCHANGED <<row, log, call, clients, announced, clock>>

\* The statements for one agent: the update fails; the update succeeds and
\* the event's insert fails; or both succeed, and subscribers are told before
\* the commit.  The loop goes on to the next agent in every case.
ReapOne(a) ==
    /\ tx # NoTx /\ a \in tx.todo
    /\ LET rows == [tx.row EXCEPT ![a] = Unleased(@, "NEW")]
           e == insertSQLiteEvent(a, "RELEASED", rows, TRUE)
       IN  \/ /\ tx' = [tx EXCEPT !.todo = @ \ {a}]
              /\ UNCHANGED announced
           \/ /\ tx' = [tx EXCEPT !.todo = @ \ {a}, !.row = rows]
              /\ UNCHANGED announced
           \/ /\ tx' = [tx EXCEPT !.todo = @ \ {a}, !.row = rows,
                                  !.events = @ \cup {e}]
              /\ announced' = announced \cup {e}
    /\ UNCHANGED <<row, log, call, clients, clock>>

\* The reply to the caller.  A lost reply needs no case of its own: nothing
\* makes a worker use the lease or the confirmation it was given.
Reply ==
    /\ call' = [w \in Workers |-> IF w = tx.by THEN NoCall ELSE call[w]]
    /\ held' = [w \in Workers |-> IF w = tx.by THEN held[w] \cup tx.leased ELSE held[w]]
    /\ acked' = acked \cup tx.done
    /\ issued' = issued \cup {p[2] : p \in tx.leased}

\* Variant with a fault: the retry of a completion returns without ending its
\* transaction.
CommitUnlessRetry ==
    /\ tx # NoTx /\ tx.todo = {}
    /\ tx.done # {} => tx.events # {}
    /\ row' = tx.row
    /\ log' = log \cup tx.events
    /\ announced' = IF tx.by = Reaper THEN announced ELSE announced \cup tx.events
    /\ lapsed' = {a \in lapsed : tx.row[a].status = "IN_PROGRESS"
                                  /\ \A p \in tx.leased : p[1] # a}
    /\ tx' = NoTx
    /\ Reply
    /\ UNCHANGED expired

\* The commit, and then the announcement of every event but the reaper's.
Commit ==
    /\ tx # NoTx /\ tx.todo = {}
    /\ row' = tx.row
    /\ log' = log \cup tx.events
    /\ announced' = IF tx.by = Reaper THEN announced ELSE announced \cup tx.events
    /\ lapsed' = {a \in lapsed : tx.row[a].status = "IN_PROGRESS"
                                  /\ \A p \in tx.leased : p[1] # a}
    /\ tx' = NoTx
    /\ Reply
    /\ UNCHANGED expired

\* A statement or the commit fails; the caller gets the error.
Fail ==
    /\ tx # NoTx
    /\ tx' = NoTx
    /\ call' = [w \in Workers |-> IF w = tx.by THEN NoCall ELSE call[w]]
    /\ UNCHANGED <<row, log, clients, announced, clock>>

\* The server dies and restarts on its database file.
Crash ==
    /\ tx # NoTx \/ \E w \in Workers : call[w] # NoCall
    /\ tx' = NoTx
    /\ call' = [w \in Workers |-> NoCall]
    /\ UNCHANGED <<row, log, clients, announced, clock>>

LeaseLapses(a) ==
    /\ row[a].status = "IN_PROGRESS" /\ a \notin lapsed
    /\ lapsed' = lapsed \cup {a}
    /\ UNCHANGED <<row, log, tx, call, clients, announced, expired>>

TTLPasses(a) ==
    /\ a \in Mortal
    /\ row[a].status # "NONE" /\ a \notin expired
    /\ expired' = expired \cup {a}
    /\ UNCHANGED <<row, log, tx, call, clients, announced, lapsed>>

-----------------------------------------------------------------------------
Next ==
    \/ \E a \in Agents : Out(a) \/ ReapOne(a) \/ LeaseLapses(a) \/ TTLPasses(a)
    \/ \E w \in Workers \cup {Anonymous}, a \in Agents, t \in Tokens : Take(w, a, t)
    \/ \E w \in Workers, op \in Ops, a \in Agents, t \in Tokens \cup {NoToken} :
         Request(w, op, a, t)
    \/ \E w \in Workers : Serve(w)
    \/ \E S \in SUBSET Agents : reapExpiredLeases(S)
    \/ Commit \/ Fail \/ Crash

Spec == Init /\ [][Next]_vars

\* A transaction runs to its commit unless it fails on the way, and a call that waits for
\* the connection is not passed over for ever.
Fairness ==
    /\ WF_vars(Commit \/ \E a \in Agents : ReapOne(a))
    /\ \A w \in Workers : SF_vars(Serve(w))

FairSpec == Spec /\ Fairness

-----------------------------------------------------------------------------
\* Exactly-once completion: a completion some worker was told had succeeded
\* (CompleteAndGet, CompleteAndOut) is the only one of its agent, whatever
\* was retried, failed, reaped, or lost with the process.  (The type invariant
\* is part of it.)
ConfirmedIsTheCompletion ==
    /\ TypeOK
    /\ \A a \in Agents, t \in Tokens :
         <<a, t>> \in acked =>
           row[a].status = "COMPLETED" /\ row[a].completed_by = t

\* Subscribers are told only of events that are in the log, with one
\* exception: the reaper tells them before it commits (sqlite_reaper.go:132),
\* so that what it announced may never have happened.
AnnouncedIsLogged ==
    \A e \in announced : e \in log \/ e.reaped

\* The log has one event for each version of an agent, except for versions
\* the reaper made whose event it could not insert: those follow a logged
\* version, and as the newest version leave the agent NEW.
LogMissesOnlyReaps ==
    \A a \in Agents :
      LET logged == {e \in log : e.agent = a}
          missing == (1 .. row[a].version) \ {e.version : e \in logged}
      IN  /\ \A e, f \in logged : e.version = f.version => e = f
          /\ \A e \in logged : e.version <= row[a].version
          /\ 1 \notin missing
          /\ \A v \in missing : v + 1 \notin missing
          /\ row[a].version \in missing => row[a].status = "NEW"

\* Every call is answered: no path through an operation or the reaper keeps
\* the only connection.
CallsReturn == \A w \in Workers : call[w] # NoCall ~> call[w] = NoCall

Contract == INSTANCE AgentSpace WITH
    status     <- [a \in Agents |-> row[a].status],
    lease      <- [a \in Agents |-> row[a].lease_token],
    finishedBy <- [a \in Agents |-> row[a].completed_by]

\* The committed rows implement the contract of AgentSpace: a transaction
\* that fails or dies with the process leaves nothing behind, and
\* CompleteAndOut publishes its outputs with the completion.
ImplementsContract == Contract!Spec
=============================================================================
