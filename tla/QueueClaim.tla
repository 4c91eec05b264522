----------------------------- MODULE QueueClaim -----------------------------
(***************************************************************************)
(* How the Postgres store picks the agent of a take on one queue: the      *)
(* strict head claim under the queue's advisory lock, the parallel claim   *)
(* that skips locked rows, the batch claim, and the prefetcher that offers *)
(* identifiers read earlier.  A claim is a transaction: it locks the rows  *)
(* it picks and commits or aborts later, while others run.                 *)
(*                                                                         *)
(* Agents are numbered in the order of (created_at, id).  Out stamps an    *)
(* agent before it begins the transaction that publishes it, so that       *)
(* agents may become visible in another order than that of their numbers.  *)
(***************************************************************************)
EXTENDS Naturals, Sequences, FiniteSets

CONSTANTS Agents,       \* agents of the queue, a set of numbers
          KindOf,       \* the kind of each agent
          Workers,      \* processes that take
          Setups,       \* the configurations considered, records of
                        \*   mode: queueClaimMode, "strict" or "parallel"
                        \*   batches: whether BatchTake is used
                        \*   prefetch: whether the prefetcher is configured
                        \*   wants: the kinds each worker's query matches
          BatchLimit,   \* the limit of a BatchTake
          BufferSize, FetchLimit,   \* of the prefetcher
          MaxAborts, MaxReleases    \* bounds

ASSUME AgentsAssumption == Agents \subseteq Nat /\ IsFiniteSet(Agents)
ASSUME SetupsAssumption ==
    \A u \in Setups : /\ u.mode \in {"strict", "parallel"}
                      /\ {u.batches, u.prefetch} \subseteq BOOLEAN
                      /\ DOMAIN u.wants = Workers
ASSUME LimitsAssumption ==
    {BatchLimit, BufferSize, FetchLimit, MaxAborts, MaxReleases} \subseteq Nat

VARIABLES setup,       \* the configuration of this deployment
          status,      \* committed status of each agent
          pc,          \* per worker: what its call does next
          snapshot,    \* per worker: rows its statement sees
          picked,      \* per worker: rows its transaction has locked
          advisory,    \* holder of the queue's advisory lock
          candidate,   \* per worker: identifier from the prefetcher
          attempts,    \* per worker: candidates tried by this take
          buffer,      \* the prefetcher's channel
          fetched,     \* identifiers read and not yet sent to the channel
          claims,      \* claims[a]: the workers whose claims of a committed since a was
                       \* published or released, in order
          before,      \* history, before[a]: the agents visible when a was committed
          aborts, releases

prefetcher == <<buffer, fetched>>
bounds == <<setup, before, aborts, releases>>
vars == <<status, pc, snapshot, picked, advisory, candidate, attempts, buffer,
          fetched, claims, before, setup, aborts, releases>>

\* State has its type; a row is locked by one transaction, the advisory lock is
\* held by one, and the prefetcher's channel keeps to its capacity.
TypeOK ==
    /\ setup \in Setups
    /\ status \in [Agents -> {"unborn", "NEW", "IN_PROGRESS"}]
    /\ pc \in [Workers -> {"idle", "head", "byID", "normal", "commit"}]
    /\ snapshot \in [Workers -> SUBSET Agents]
    /\ picked \in [Workers -> SUBSET Agents]
    /\ \A v, w \in Workers : v # w => picked[v] \cap picked[w] = {}
    /\ advisory \subseteq Workers /\ \A v, w \in advisory : v = w
    /\ candidate \in [Workers -> SUBSET Agents]
    /\ attempts \in [Workers -> 0..3]
    /\ buffer \in Seq(Agents) /\ Len(buffer) <= BufferSize
    /\ fetched \in Seq(Agents)
    /\ claims \in [Agents -> Seq(Workers)]
    /\ before \in [Agents -> SUBSET Agents]
    /\ aborts \in 0..MaxAborts /\ releases \in 0..MaxReleases

Init ==
    /\ setup \in Setups
    /\ status = [a \in Agents |-> "unborn"]
    /\ pc = [w \in Workers |-> "idle"]
    /\ snapshot = [w \in Workers |-> {}] /\ picked = [w \in Workers |-> {}]
    /\ advisory = {} /\ candidate = [w \in Workers |-> {}]
    /\ attempts = [w \in Workers |-> 0]
    /\ buffer = <<>> /\ fetched = <<>>
    /\ claims = [a \in Agents |-> <<>>]
    /\ before = [a \in Agents |-> {}]
    /\ aborts = 0 /\ releases = 0

-----------------------------------------------------------------------------
New == {a \in Agents : status[a] = "NEW"}
Locked(w) == UNION {picked[v] : v \in Workers \ {w}}
MatchedBy(w) == {a \in Agents : KindOf[a] \in setup.wants[w]}
Matching(w) == New \cap MatchedBy(w)

\* The n oldest of a set of agents, or all of them.
Oldest(S, n) == {a \in S : Cardinality({b \in S : b < a}) < n}

Goto(w, l) == pc' = [pc EXCEPT ![w] = l]

\* The transaction of w holds the rows S and continues; the empty set means
\* that the call found nothing and ends.
Pick(w, S) ==
    /\ picked' = [picked EXCEPT ![w] = S]
    /\ Goto(w, IF S = {} THEN "idle" ELSE "commit")
    /\ advisory' = IF S = {} THEN advisory \ {w} ELSE advisory

\* The commit of an Out: agents that were stamped earlier may still be on
\* their way.
Out(a) ==
    /\ status[a] = "unborn"
    /\ status' = [status EXCEPT ![a] = "NEW"]
    /\ before' = [before EXCEPT ![a] = {b \in Agents : status[b] # "unborn"}]
    /\ UNCHANGED <<pc, snapshot, picked, advisory, candidate, attempts,
                   prefetcher, claims, setup, aborts, releases>>

\* Take: the strict path ends at once when the advisory lock is held.
Take(w) ==
    /\ pc[w] = "idle"
    /\ \/ /\ setup.mode = "strict" /\ advisory = {}
          /\ advisory' = {w} /\ Goto(w, "head")
          /\ snapshot' = [snapshot EXCEPT ![w] = New]
       \/ /\ setup.mode = "parallel"
          /\ Goto(w, IF setup.prefetch THEN "byID" ELSE "normal")
          /\ UNCHANGED <<advisory, snapshot>>
    /\ attempts' = [attempts EXCEPT ![w] = 0]
    /\ UNCHANGED <<status, picked, candidate, prefetcher, claims, bounds>>

\* Fault: the oldest matching agent is claimed instead of a matching head.
takeStrictHeadClaimMatching(w) ==
    /\ pc[w] = "head"
    /\ LET rows == snapshot[w] \cap Matching(w)
       IN /\ Oldest(rows, 1) \cap Locked(w) = {}
          /\ Pick(w, Oldest(rows, 1))
    /\ UNCHANGED <<status, snapshot, candidate, attempts, prefetcher, claims,
                   bounds>>

\* Fault: the head is claimed whether or not it matches.
takeStrictHeadClaimAny(w) ==
    /\ pc[w] = "head"
    /\ LET head == Oldest(snapshot[w] \cap New, 1)
       IN head \cap Locked(w) = {} /\ Pick(w, head)
    /\ UNCHANGED <<status, snapshot, candidate, attempts, prefetcher, claims,
                   bounds>>

\* The head is the oldest row of the snapshot that is still NEW; FOR UPDATE
\* waits for its lock, and nothing is claimed unless the head matches.
takeStrictHeadClaim(w) ==
    /\ pc[w] = "head"
    /\ LET head == Oldest(snapshot[w] \cap New, 1)
       IN /\ head \cap Locked(w) = {}
          /\ Pick(w, head \cap Matching(w))
    /\ UNCHANGED <<status, snapshot, candidate, attempts, prefetcher, claims,
                   bounds>>

\* The atomic and the legacy claim: the oldest matching row nobody holds.
takeAtomicClaim(w) ==
    /\ pc[w] = "normal"
    /\ Pick(w, Oldest(Matching(w) \ Locked(w), 1))
    /\ UNCHANGED <<status, snapshot, candidate, attempts, prefetcher, claims,
                   bounds>>

BatchTake(w) ==
    /\ setup.batches /\ pc[w] = "idle"
    /\ LET S == Oldest(Matching(w) \ Locked(w), BatchLimit)
       IN S # {} /\ Pick(w, S)
    /\ UNCHANGED <<status, snapshot, candidate, attempts, prefetcher, claims,
                   bounds>>

-----------------------------------------------------------------------------
\* takePrefetched: the next candidate, if three have not failed and the
\* channel has one; the normal claim otherwise.
tryGet(w) ==
    /\ pc[w] = "byID" /\ candidate[w] = {}
    /\ IF attempts[w] < 3 /\ buffer # <<>>
         THEN /\ candidate' = [candidate EXCEPT ![w] = {Head(buffer)}]
              /\ buffer' = Tail(buffer)
              /\ attempts' = [attempts EXCEPT ![w] = @ + 1]
              /\ UNCHANGED pc
         ELSE Goto(w, "normal") /\ UNCHANGED <<candidate, buffer, attempts>>
    /\ UNCHANGED <<status, snapshot, picked, advisory, fetched, claims, bounds>>

\* Fault: the status is not compared.
claimByIDAnyStatus(w) ==
    /\ pc[w] = "byID" /\ candidate[w] # {}
    /\ candidate[w] \cap Locked(w) = {}
    /\ picked' = [picked EXCEPT ![w] = candidate[w]] /\ Goto(w, "commit")
    /\ candidate' = [candidate EXCEPT ![w] = {}]
    /\ UNCHANGED <<status, snapshot, advisory, attempts, prefetcher, claims,
                   bounds>>

\* UPDATE ... WHERE id AND status: waits for the row's lock, then compares
\* the status.  The rest of the query is not looked at.
claimByID(w) ==
    /\ pc[w] = "byID" /\ candidate[w] # {}
    /\ candidate[w] \cap Locked(w) = {}
    /\ LET S == candidate[w] \cap New
       IN /\ picked' = [picked EXCEPT ![w] = S]
          /\ Goto(w, IF S = {} THEN "byID" ELSE "commit")
    /\ candidate' = [candidate EXCEPT ![w] = {}]
    /\ UNCHANGED <<status, snapshot, advisory, attempts, prefetcher, claims,
                   bounds>>

\* The prefetcher reads identifiers without locks when its channel is less
\* than half full ...
fetchCandidateIDs ==
    /\ setup.prefetch /\ fetched = <<>> /\ New # {}
    /\ Len(buffer) < BufferSize \div 2
    /\ LET S == Oldest(New, FetchLimit)
       IN  \E ids \in [1..Cardinality(S) -> S] :
             /\ \A i, j \in DOMAIN ids : i < j => ids[i] < ids[j]
             /\ fetched' = ids
    /\ UNCHANGED <<status, pc, snapshot, picked, advisory, candidate, attempts,
                   buffer, claims, bounds>>

\* ... and sends them one by one.
SendCandidate ==
    /\ fetched # <<>> /\ Len(buffer) < BufferSize
    /\ buffer' = Append(buffer, Head(fetched)) /\ fetched' = Tail(fetched)
    /\ UNCHANGED <<status, pc, snapshot, picked, advisory, candidate, attempts,
                   claims, bounds>>

\* An idle prefetcher is dropped with what it has read.
evictIdle ==
    /\ buffer \o fetched # <<>> /\ \A w \in Workers : pc[w] = "idle"
    /\ buffer' = <<>> /\ fetched' = <<>>
    /\ UNCHANGED <<status, pc, snapshot, picked, advisory, candidate, attempts,
                   claims, bounds>>

-----------------------------------------------------------------------------
\* The end of w's transaction frees its rows and its advisory lock.
EndTx(w) ==
    /\ picked' = [picked EXCEPT ![w] = {}] /\ Goto(w, "idle")
    /\ advisory' = advisory \ {w}
    /\ UNCHANGED <<snapshot, candidate, attempts, prefetcher>>

Commit(w) ==
    /\ pc[w] = "commit"
    /\ status' = [a \in Agents |-> IF a \in picked[w] THEN "IN_PROGRESS"
                                                      ELSE status[a]]
    /\ claims' = [a \in Agents |-> IF a \in picked[w] THEN Append(claims[a], w)
                                                      ELSE claims[a]]
    /\ EndTx(w)
    /\ UNCHANGED bounds

\* Fault: an aborted strict take keeps the advisory lock (a session lock).
AbortKeepsLock(w) ==
    /\ pc[w] = "commit" /\ aborts < MaxAborts
    /\ aborts' = aborts + 1
    /\ picked' = [picked EXCEPT ![w] = {}] /\ Goto(w, "idle")
    /\ UNCHANGED <<status, snapshot, advisory, candidate, attempts, prefetcher,
                   claims, setup, before, releases>>

\* The event cannot be inserted, or the connection or the caller goes away.
Abort(w) ==
    /\ pc[w] = "commit" /\ aborts < MaxAborts
    /\ aborts' = aborts + 1
    /\ EndTx(w)
    /\ UNCHANGED <<setup, before, status, claims, releases>>

\* A lease is released or reaped: the agent is NEW again, at its old place.
Release(a) ==
    /\ status[a] = "IN_PROGRESS" /\ releases < MaxReleases
    /\ a \notin UNION {picked[w] : w \in Workers}
    /\ releases' = releases + 1
    /\ status' = [status EXCEPT ![a] = "NEW"]
    /\ claims' = [claims EXCEPT ![a] = <<>>]
    /\ UNCHANGED <<pc, snapshot, picked, advisory, candidate, attempts,
                   prefetcher, setup, before, aborts>>

Step(w) == \/ Take(w) \/ takeStrictHeadClaim(w) \/ takeAtomicClaim(w)
           \/ tryGet(w) \/ claimByID(w) \/ Commit(w)

Next ==
    \/ \E a \in Agents : Out(a) \/ Release(a)
    \/ \E w \in Workers : Step(w) \/ BatchTake(w) \/ Abort(w)
    \/ fetchCandidateIDs \/ SendCandidate \/ evictIdle

\* Workers keep taking, and what they do goes on.
Fairness == \A w \in Workers : WF_vars(Step(w))

Spec == Init /\ [][Next]_vars /\ Fairness

-----------------------------------------------------------------------------
(* Properties.                                                              *)

\* No agent is claimed by two workers, or twice, however stale the prefetched
\* identifiers are and whatever was released in between.  (The type invariant
\* is part of it.)
ClaimsAreExclusive == TypeOK /\ \A a \in Agents : Len(claims[a]) <= 1

\* What a worker claims is what its query asks for.
ClaimsMatch ==
    \A a \in Agents : \A i \in 1..Len(claims[a]) : a \in MatchedBy(claims[a][i])

\* The same for deployments without the prefetcher: the filters hold for the
\* strict head and for what a claim finds behind rows it skips.
UnprefetchedClaimsMatch == ~setup.prefetch => ClaimsMatch

\* Strict mode keeps the order of the queue: while nothing is released, an
\* agent is claimed only after every agent that was created before it and that
\* was visible when it was published, also when the queries ask for different
\* kinds, transactions abort, and others are published meanwhile.  (Of two that
\* are published at the same time the younger may be visible, and claimed,
\* first.  A batch take uses the parallel claim in every mode and may
\* overtake.)
StrictOrder ==
    setup.mode = "strict" /\ ~setup.batches /\ releases = 0 =>
      \A a \in Agents : claims[a] # <<>> =>
        \A b \in before[a] : b < a => claims[b] # <<>>

\* The queue is not stuck: when every query matches every agent, an agent
\* that is NEW is claimed, although takes give up when the lock is held,
\* abort, skip locked rows or meet stale candidates.
NewIsClaimed ==
    \A a \in Agents :
      (status[a] = "NEW" /\ \A w \in Workers : Agents = MatchedBy(w))
        ~> status[a] # "NEW"
=============================================================================
