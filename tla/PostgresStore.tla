---------------------------- MODULE PostgresStore ----------------------------
(***************************************************************************)
(* The agent lifecycle of the PostgreSQL backend (pkg/store/postgres):     *)
(* Out, Take and In, BatchTake, UpdateAndGet, Complete, CompleteAndOut,    *)
(* Release, RenewLease and the lease reaper, with the workers that call    *)
(* them, lose replies, retry with the tokens they hold, and crash.         *)
(*                                                                         *)
(* Every operation is one SQL transaction that decides on a row it has     *)
(* locked, so it is one atomic step here.  Which free row a take claims is *)
(* left open: it depends on the query, on the order of the rows and on the *)
(* rows other transactions have locked (SKIP LOCKED).  The state of a      *)
(* clock is kept only where the code compares with it: lease_until is NULL,*)
(* AHEAD of now or PAST, and `live' is the TTL clause.  A row whose status *)
(* is NONE stands for an identifier no row has.  A request that the code refuses   *)
(* changes nothing and is a stuttering step.                               *)
(***************************************************************************)
EXTENDS Naturals

CONSTANTS
    Agents,       \* agent identifiers that may ever be inserted
    Workers,      \* worker identities (the X-Agent-ID of a request)
    Anonymous,    \* the empty worker identity
    Tokens,       \* the lease tokens (UUIDs) that may ever be generated
    NoToken,      \* the empty lease token
    MaxVersion,   \* bound: UpdateAndGet is not called past this version
    DeferEvents   \* the store's deferEvents option

ASSUME AnonymousAssumption == Anonymous \notin Workers
ASSUME TokenAssumption == NoToken \notin Tokens
ASSUME VersionAssumption == MaxVersion \in Nat
ASSUME DeferAssumption == DeferEvents \in BOOLEAN

VARIABLES
    row,          \* row[a]: the row of the agents table with id a
    issued,       \* the lease tokens generated so far
    held,         \* held[w]: the <<agent, token>> pairs take replies gave w
    acked,        \* the <<agent, token>> pairs whose completion was confirmed
    events,       \* the agent_events table
    unlogged      \* events committed rows are still owed: the deferred queue
                  \* and the events BatchTake writes after its commit

vars == <<row, issued, held, acked, events, unlogged>>

Status == {"NONE", "NEW", "IN_PROGRESS", "COMPLETED"}
EventType == {"CREATED", "CLAIMED", "UPDATED", "COMPLETED", "RELEASED"}

Row == [status       : Status,
        owner        : Workers \cup {Anonymous},
        lease_token  : Tokens \cup {NoToken},
        lease_until  : {"NULL", "AHEAD", "PAST"},
        live         : BOOLEAN,
        version      : Nat,
        completed_by : Tokens \cup {NoToken},  \* _completed_by_token
        origin       : Tokens \cup {NoToken}]  \* the completion that output it

Event == [agent : Agents, type : EventType, version : Nat]

\* Every column of these modules' rows has its declared type, and worker
\* state and events refer to agents and tokens that exist.
TypeOK ==
    /\ row \in [Agents -> Row]
    /\ issued \subseteq Tokens
    /\ held \in [Workers -> SUBSET (Agents \X Tokens)]
    /\ acked \subseteq Agents \X Tokens
    /\ events \subseteq Event
    /\ unlogged \subseteq Event

NoRow == [status |-> "NONE", owner |-> Anonymous, lease_token |-> NoToken,
          lease_until |-> "NULL", live |-> TRUE, version |-> 0,
          completed_by |-> NoToken, origin |-> NoToken]

Init ==
    /\ row = [a \in Agents |-> NoRow]
    /\ issued = {}
    /\ held = [w \in Workers |-> {}]
    /\ acked = {}
    /\ events = {}
    /\ unlogged = {}

-----------------------------------------------------------------------------
\* What a transaction writes into one row.
NewRow(origin) == [NoRow EXCEPT !.status = "NEW", !.version = 1,
                                !.origin = origin]

\* Variant with a fault: owner and token are bound to each other's columns.
ClaimedRowSwapped(r, w, t) ==
    [status |-> "IN_PROGRESS", owner |-> t, lease_token |-> w,
     lease_until |-> "AHEAD", live |-> r.live, version |-> r.version + 1,
     completed_by |-> r.completed_by, origin |-> r.origin]

ClaimedRow(r, w, t) ==
    [status |-> "IN_PROGRESS", owner |-> w, lease_token |-> t,
     lease_until |-> "AHEAD", live |-> r.live, version |-> r.version + 1,
     completed_by |-> r.completed_by, origin |-> r.origin]

\* Owner and lease are cleared on every way out of a claim.
Unleased(r, status, by) ==
    [status |-> status, owner |-> Anonymous, lease_token |-> NoToken,
     lease_until |-> "NULL", live |-> r.live, version |-> r.version + 1,
     completed_by |-> by, origin |-> r.origin]

\* Variant with a fault: the completing token is not recorded.
CompletedRowUnsigned(r) == Unleased(r, "COMPLETED", r.completed_by)

CompletedRow(r) == Unleased(r, "COMPLETED", r.lease_token)

ReleasedRow(r) == Unleased(r, "NEW", r.completed_by)

EventOf(a, type) == [agent |-> a, type |-> type, version |-> row'[a].version]

\* Events go into the transaction, or to the writer's queue after it.
Record(E) ==
    IF DeferEvents
    THEN unlogged' = unlogged \cup E /\ UNCHANGED events
    ELSE events' = events \cup E /\ UNCHANGED unlogged

\* Variant with a fault: a lapsed lease is claimed over without a release.
ClaimableLapsed(a) ==
    /\ row[a].status = "NEW" \/ row[a].lease_until = "PAST"
    /\ row[a].live

\* The WHERE clause of a claim, and of the lease-guarded operations.
Claimable(a) == row[a].status = "NEW" /\ row[a].live

\* Variant with a fault: the token is not compared.
HoldsLeaseByOwner(w, a, t) ==
    /\ row[a].status = "IN_PROGRESS"
    /\ row[a].owner = w
    /\ row[a].live

HoldsLease(w, a, t) ==
    /\ row[a].status = "IN_PROGRESS"
    /\ row[a].owner = w
    /\ row[a].lease_token = t
    /\ row[a].live

AlreadyCompleted(a, t) ==
    /\ row[a].status = "COMPLETED"
    /\ row[a].completed_by = t
    /\ row[a].live

\* The reply of a request reaches the caller, or is lost on the way.
GiveLeases(w, L) ==
    IF w = Anonymous THEN UNCHANGED held
    ELSE held' \in {held, [held EXCEPT ![w] = @ \cup L]}

Acknowledge(a, t) == acked' \in {acked, acked \cup {<<a, t>>}}

-----------------------------------------------------------------------------
Out(a) ==
    /\ row[a].status = "NONE"
    /\ row' = [row EXCEPT ![a] = NewRow(NoToken)]
    /\ Record({EventOf(a, "CREATED")})
    /\ UNCHANGED <<issued, held, acked>>

\* Variant with a fault: a claim is not given a new token.
TakeWithUsedToken(w, a, t) ==
    /\ Claimable(a)
    /\ row' = [row EXCEPT ![a] = ClaimedRow(@, w, t)]
    /\ issued' = issued \cup {t}
    /\ GiveLeases(w, {<<a, t>>})
    /\ Record({EventOf(a, "CLAIMED")})
    /\ UNCHANGED acked

\* take, with its parallel, strict, prefetched and legacy claim paths.  A
\* worker may leave its identity empty.
Take(w, a, t) ==
    /\ Claimable(a)
    /\ t \notin issued
    /\ row' = [row EXCEPT ![a] = ClaimedRow(@, w, t)]
    /\ issued' = issued \cup {t}
    /\ GiveLeases(w, {<<a, t>>})
    /\ Record({EventOf(a, "CLAIMED")})
    /\ UNCHANGED acked

\* The events of a batch are written one by one after the commit.
BatchTake(w, S, tok) ==
    /\ S # {}
    /\ \A a \in S : Claimable(a) /\ tok[a] \notin issued
    /\ \A a, b \in S : tok[a] = tok[b] => a = b
    /\ row' = [a \in Agents |-> IF a \in S THEN ClaimedRow(row[a], w, tok[a])
                                           ELSE row[a]]
    /\ issued' = issued \cup {tok[a] : a \in S}
    /\ GiveLeases(w, {<<a, tok[a]>> : a \in S})
    /\ unlogged' = unlogged \cup {EventOf(a, "CLAIMED") : a \in S}
    /\ UNCHANGED <<events, acked>>

\* Variant with a fault: the version is not incremented.
UpdateInPlace(a) ==
    /\ row[a].status # "NONE"
    /\ row[a].live
    /\ UNCHANGED row
    /\ Record({EventOf(a, "UPDATED")})
    /\ UNCHANGED <<issued, held, acked>>

\* Payload, tags and metadata change; over HTTP status and owner may not.
UpdateAndGet(a) ==
    /\ row[a].status # "NONE"
    /\ row[a].live
    /\ row[a].version < MaxVersion
    /\ row' = [row EXCEPT ![a].version = @ + 1]
    /\ Record({EventOf(a, "UPDATED")})
    /\ UNCHANGED <<issued, held, acked>>

CompleteAndGet(w, a, t) ==
    /\ HoldsLease(w, a, t)
    /\ row' = [row EXCEPT ![a] = CompletedRow(@)]
    /\ Acknowledge(a, t)
    /\ Record({EventOf(a, "COMPLETED")})
    /\ UNCHANGED <<issued, held>>

\* A retry under the token that completed the agent is confirmed again, by
\* Complete and by CompleteAndOut, which then creates no outputs.
CompleteAgain(a, t) ==
    /\ AlreadyCompleted(a, t)
    /\ Acknowledge(a, t)
    /\ UNCHANGED <<row, issued, held, events, unlogged>>

CompleteAndOut(w, a, t, O) ==
    /\ HoldsLease(w, a, t)
    /\ \A b \in O : row[b].status = "NONE"
    /\ row' = [b \in Agents |-> IF b = a THEN CompletedRow(row[a])
                                ELSE IF b \in O THEN NewRow(t) ELSE row[b]]
    /\ Acknowledge(a, t)
    /\ Record({EventOf(a, "COMPLETED")} \cup {EventOf(b, "CREATED") : b \in O})
    /\ UNCHANGED <<issued, held>>

ReleaseAndGet(w, a, t) ==
    /\ HoldsLease(w, a, t)
    /\ row' = [row EXCEPT ![a] = ReleasedRow(@)]
    /\ Record({EventOf(a, "RELEASED")})
    /\ UNCHANGED <<issued, held, acked>>

\* Variant with a fault: a renewal takes a released agent back.
RenewLeaseReclaims(w, a, t) ==
    /\ HoldsLease(w, a, t) \/ row[a].status = "NEW"
    /\ row' = [row EXCEPT ![a] = ClaimedRow(@, w, t)]
    /\ UNCHANGED <<issued, held, acked, events, unlogged>>

\* No version, no event, and no test of lease_until: a lapsed lease that has
\* not been reaped is revived.
RenewLease(w, a, t) ==
    /\ HoldsLease(w, a, t)
    /\ row' = [row EXCEPT ![a].lease_until = "AHEAD"]
    /\ UNCHANGED <<issued, held, acked, events, unlogged>>

\* Variants with a fault: no event; agents past their TTL are left out.
ReapSilently(S) ==
    /\ S # {}
    /\ \A a \in S : row[a].status = "IN_PROGRESS" /\ row[a].lease_until = "PAST"
    /\ row' = [a \in Agents |-> IF a \in S THEN ReleasedRow(row[a]) ELSE row[a]]
    /\ UNCHANGED <<issued, held, acked, events, unlogged>>

ReapLiveOnly(S) ==
    /\ S # {}
    /\ \A a \in S : row[a].lease_until = "PAST" /\ row[a].live
    /\ row' = [a \in Agents |-> IF a \in S THEN ReleasedRow(row[a]) ELSE row[a]]
    /\ events' = events \cup {EventOf(a, "RELEASED") : a \in S}
    /\ UNCHANGED <<issued, held, acked, unlogged>>

\* One tick of the reaper.  It skips the rows other transactions have locked,
\* does not look at the TTL, and always logs in its own transaction.
ReapExpiredLeases(S) ==
    /\ S # {}
    /\ \A a \in S : row[a].status = "IN_PROGRESS" /\ row[a].lease_until = "PAST"
    /\ row' = [a \in Agents |-> IF a \in S THEN ReleasedRow(row[a]) ELSE row[a]]
    /\ events' = events \cup {EventOf(a, "RELEASED") : a \in S}
    /\ UNCHANGED <<issued, held, acked, unlogged>>

\* The event writer inserts some of the events it is owed, or fails to: the
\* write returns an error that is only logged, or the process dies.
FlushEvents(E) ==
    /\ E # {}
    /\ unlogged' = unlogged \ E
    /\ events' \in {events, events \cup E}
    /\ UNCHANGED <<row, issued, held, acked>>

-----------------------------------------------------------------------------
\* Time passes lease_until, or created_at plus the TTL.
LeaseLapses(a) ==
    /\ row[a].lease_until = "AHEAD"
    /\ row' = [row EXCEPT ![a].lease_until = "PAST"]
    /\ UNCHANGED <<issued, held, acked, events, unlogged>>

TTLPasses(a) ==
    /\ row[a].status # "NONE"
    /\ row[a].live
    /\ row' = [row EXCEPT ![a].live = FALSE]
    /\ UNCHANGED <<issued, held, acked, events, unlogged>>

\* A worker restarts and has forgotten its leases.
WorkerCrash(w) ==
    /\ held[w] # {}
    /\ held' = [held EXCEPT ![w] = {}]
    /\ UNCHANGED <<row, issued, acked, events, unlogged>>

-----------------------------------------------------------------------------
\* A worker calls with a lease it was given, current or stale.
LeaseCall(w, a, t) ==
    /\ <<a, t>> \in held[w]
    /\ \/ CompleteAndGet(w, a, t)
       \/ CompleteAgain(a, t)
       \/ \E O \in SUBSET (Agents \ {a}) : CompleteAndOut(w, a, t, O)
       \/ ReleaseAndGet(w, a, t)
       \/ RenewLease(w, a, t)

Next ==
    \/ \E a \in Agents : Out(a) \/ UpdateAndGet(a) \/ LeaseLapses(a) \/ TTLPasses(a)
    \/ \E w \in Workers \cup {Anonymous} : \E a \in Agents, t \in Tokens :
         Take(w, a, t)
    \/ \E w \in Workers \cup {Anonymous} : \E S \in SUBSET Agents :
         \E tok \in [S -> Tokens] : BatchTake(w, S, tok)
    \/ \E w \in Workers, a \in Agents, t \in Tokens : LeaseCall(w, a, t)
    \/ \E S \in SUBSET Agents : ReapExpiredLeases(S)
    \/ \E E \in SUBSET unlogged : FlushEvents(E)
    \/ \E w \in Workers : WorkerCrash(w)

Spec == Init /\ [][Next]_vars

\* The reaper's ticker runs for as long as the store is open; a row it skips
\* because a transaction has it locked is found by a later tick.
Fairness ==
    \A a \in Agents :
      WF_vars(\E S \in SUBSET Agents : a \in S /\ ReapExpiredLeases(S))

FairSpec == Spec /\ Fairness

-----------------------------------------------------------------------------
(* Safety *)

\* A row has a lease exactly while it is IN_PROGRESS, and records the token
\* that completed it exactly when it is COMPLETED: no path out of a claim
\* (complete, release, reap) leaves a part of the lease behind.
LeaseMatchesStatus ==
    \A a \in Agents :
      /\ row[a].status = "IN_PROGRESS" <=> row[a].lease_token # NoToken
      /\ row[a].status = "IN_PROGRESS" <=> row[a].lease_until # "NULL"
      /\ row[a].owner # Anonymous => row[a].status = "IN_PROGRESS"
      /\ row[a].status = "COMPLETED" <=> row[a].completed_by # NoToken

\* A token names one claim: whichever worker was given it, there is one agent
\* and one worker it can act for, and while it is current that worker owns
\* the row.
TokenNamesOneClaim ==
    \A w, v \in Workers, a, b \in Agents, t \in Tokens :
      <<a, t>> \in held[w] =>
        /\ <<b, t>> \in held[v] => a = b /\ w = v
        /\ row[b].lease_token = t => a = b /\ row[b].owner = w
        /\ row[b].completed_by = t => a = b

\* Exactly-once completion: a completion some worker was told had succeeded
\* is the one and only completion of that agent, whatever was retried, lost,
\* reaped or claimed again in between.
ConfirmedIsTheCompletion ==
    \A a \in Agents, t \in Tokens :
      <<a, t>> \in acked =>
        row[a].status = "COMPLETED" /\ row[a].completed_by = t

\* Output agents exist only for a completion that took effect.
OutputsHaveACompletion ==
    \A b \in Agents :
      row[b].origin # NoToken =>
        \E a \in Agents : row[a].completed_by = row[b].origin

\* A version of an agent is described by at most one event, written or still
\* owed, and never by one ahead of the row.
OneEventPerVersion ==
    \A e, f \in events \cup unlogged :
      /\ e.version \in 1 .. row[e.agent].version
      /\ e.agent = f.agent /\ e.version = f.version => e = f

\* Without deferred events the log is the history of the row but for claims
\* made by BatchTake: it starts with the creation, never misses two versions
\* in a row, and lacks the newest one only while the agent is claimed.
LogMissesOnlyClaims ==
    \A a \in Agents :
      LET logged == {e.version : e \in {f \in events : f.agent = a}}
          missing == (1 .. row[a].version) \ logged
      IN  ~DeferEvents =>
            /\ 1 \notin missing
            /\ \A v \in missing : v + 1 \notin missing
            /\ row[a].version \in missing => row[a].status = "IN_PROGRESS"

-----------------------------------------------------------------------------
(* What a step may never do *)

\* A lease token that stopped being current never becomes current again.
TokensAreNotRevived ==
    [][\A a \in Agents :
         row'[a].lease_token \in
           {row[a].lease_token, NoToken} \cup (Tokens \ issued)]_vars

\* A completed agent stays completed by the same claim, and the agents that
\* completion put out never change: a retried CompleteAndOut adds none.
CompletionIsFinal ==
    [][\A a \in Agents :
         row[a].status = "COMPLETED" =>
           /\ row'[a].status = "COMPLETED"
           /\ row'[a].completed_by = row[a].completed_by
           /\ \A b \in Agents : row'[b].origin = row[a].completed_by
                                   <=> row[b].origin = row[a].completed_by]_vars

\* The version of an agent only grows, and grows whenever its status or its
\* lease changes hands.
VersionTracksChange ==
    [][\A a \in Agents :
         /\ row'[a].version >= row[a].version
         /\ <<row'[a].status, row'[a].owner, row'[a].lease_token>>
              # <<row[a].status, row[a].owner, row[a].lease_token>>
            => row'[a].version > row[a].version]_vars

-----------------------------------------------------------------------------
(* Liveness *)

\* A lapsed lease does not hold an agent for ever: it is renewed, ends, or is
\* taken back by the reaper, also after a crash and after the TTL.
LapsedLeaseEnds ==
    \A a \in Agents : row[a].lease_until = "PAST" ~> row[a].lease_until # "PAST"

-----------------------------------------------------------------------------
(* The contract of an agent space, implemented by the rows *)

Contract == INSTANCE AgentSpace WITH
    status     <- [a \in Agents |-> row[a].status],
    lease      <- [a \in Agents |-> row[a].lease_token],
    finishedBy <- [a \in Agents |-> row[a].completed_by]

\* The backend implements the contract of AgentSpace: nothing is claimed
\* twice at once, given back or finished except under the current claim.
ImplementsContract == Contract!Spec
=============================================================================
