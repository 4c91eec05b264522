-------------------------- MODULE QueueClaimProofs --------------------------
(***************************************************************************)
(* Proofs about QueueClaim, for every finite set of agents, every set of   *)
(* workers, every deployment and every bound: no agent is claimed twice,   *)
(* claims match without the prefetcher, and strict queues keep their       *)
(* order.  The last section is about BlockingCalls, the calls that wait    *)
(* for something to claim.  That no queue gets stuck and that calls return *)
(* are liveness properties and stay with TLC.                              *)
(***************************************************************************)
EXTENDS QueueClaim, BlockingCalls, FiniteSetTheorems, TLAPS

-----------------------------------------------------------------------------
(* The inductive invariant *)

\* A transaction holds rows only between its claim and its end, and they are
\* NEW until then: a release waits for the lock.
PicksAreNew ==
    \A w \in Workers : picked[w] \subseteq New /\ (pc[w] # "commit" => picked[w] = {})

\* An agent is IN_PROGRESS by exactly one committed claim.
ClaimsAreCounted ==
    \A a \in Agents : IF status[a] = "IN_PROGRESS" THEN Len(claims[a]) = 1
                      ELSE claims[a] = <<>>

\* Without the prefetcher nothing is claimed by identifier, and what a
\* transaction holds is what its query asks for.
FiltersHold ==
    ~setup.prefetch =>
      /\ \A w \in Workers : pc[w] # "byID" /\ picked[w] \subseteq MatchedBy(w)
      /\ ClaimsMatch

\* What was visible once stays so.
BeforeIsBorn ==
    \A a \in Agents : \A b \in before[a] : status[b] # "unborn"

Strict == setup.mode = "strict" /\ ~setup.batches

\* A snapshot holds visible agents, and misses no predecessor of theirs that is
\* not claimed; a row that is held or claimed has only claimed predecessors.  A
\* predecessor is an older agent that was visible at the publication.
HeldInOrder(at, seen, held, is, bef) ==
    /\ \A w \in Workers : at[w] = "head" => \A a \in seen[w] :
         /\ is[a] # "unborn"
         /\ \A b \in bef[a] : b < a => b \in seen[w] \/ is[b] = "IN_PROGRESS"
    /\ \A w \in Workers : \A a \in held[w] : \A b \in bef[a] :
         b < a => is[b] = "IN_PROGRESS"
    /\ \A a \in Agents : is[a] = "IN_PROGRESS" =>
         \A b \in bef[a] : b < a => is[b] = "IN_PROGRESS"

\* On a strict queue no other claim runs, and the order is kept as long as
\* nothing is released.
StrictTakes ==
    Strict => /\ \A w \in Workers : pc[w] \in {"idle", "head", "commit"}
              /\ releases = 0 => HeldInOrder(pc, snapshot, picked, status, before)

IInv ==
    /\ TypeOK /\ PicksAreNew /\ ClaimsAreCounted /\ FiltersHold
    /\ BeforeIsBorn /\ StrictTakes

-----------------------------------------------------------------------------
(* The operators *)

\* The oldest of a set are of the set, and nothing in it is older than the first.
LEMMA OldestFacts ==
    ASSUME NEW S \in SUBSET Agents, NEW n \in Nat
    PROVE  /\ Oldest(S, n) \subseteq S
           /\ \A a \in Oldest(S, 1), b \in S : ~(b < a)
<1>1. Oldest(S, n) \subseteq S
  BY DEF Oldest
<1>2. ASSUME NEW a \in Oldest(S, 1), NEW b \in S, b < a
      PROVE  FALSE
  <2> DEFINE older == {c \in S : c < a}
  <2>1. IsFiniteSet(older)
    BY AgentsAssumption, FS_Subset, Zenon
  <2>2. Cardinality(older) < 1
    BY DEF Oldest
  <2>3. older = {}
    BY <2>1, <2>2, FS_CardinalityType, FS_EmptySet
  <2> QED BY <1>2, <2>3
<1> QED BY <1>1, <1>2

\* What Pick writes keeps the type, and rows are locked by one transaction.
LEMMA PickType ==
    ASSUME TypeOK, NEW w \in Workers, NEW S \in SUBSET Agents, S \cap Locked(w) = {},
           picked' = [picked EXCEPT ![w] = S]
    PROVE  /\ picked' \in [Workers -> SUBSET Agents]
           /\ \A u, v \in Workers : u # v => picked'[u] \cap picked'[v] = {}
<1>1. picked \in [Workers -> SUBSET Agents]
  BY DEF TypeOK
<1>2. \A v \in Workers : v # w => picked'[v] = picked[v] /\ picked[v] \cap S = {}
  BY <1>1 DEF Locked
<1>3. picked'[w] = S
  BY <1>1
<1>4. \A u, v \in Workers : u # v => picked[u] \cap picked[v] = {}
  BY DEF TypeOK
<1> QED BY <1>1, <1>2, <1>3, <1>4

-----------------------------------------------------------------------------
(* A transaction of w takes rows, or ends without any *)

\* What is left alone when w's transaction picks or drops its rows.
KeepsRows ==
    /\ status' = status /\ claims' = claims /\ snapshot' = snapshot
    /\ setup' = setup /\ before' = before /\ releases' = releases

\* What the rows and the next step of w have to be.
GoodPick(w, S, l) ==
    /\ S \subseteq New
    /\ S \cap Locked(w) = {}
    /\ l \in {"idle", "byID", "normal", "commit"}
    /\ l # "commit" => S = {}
    /\ ~setup.prefetch => l # "byID" /\ S \subseteq MatchedBy(w)
    /\ Strict => /\ l \in {"idle", "commit"}
                 /\ releases = 0 =>
                      \A a \in S : \A b \in before[a] :
                        b < a => status[b] = "IN_PROGRESS"

\* The variables Pick does not constrain keep their types.
KeepsTypes ==
    /\ advisory' \subseteq advisory
    /\ candidate' \in [Workers -> SUBSET Agents]
    /\ attempts' = attempts /\ buffer' = buffer /\ fetched' = fetched
    /\ aborts' \in 0..MaxAborts

\* A worker that picks agents it may claim, or finds none, keeps the invariant.
LEMMA PickKeepsIInv ==
    ASSUME IInv, NEW w \in Workers, NEW S \in SUBSET Agents, NEW l, GoodPick(w, S, l),
           picked' = [picked EXCEPT ![w] = S], pc' = [pc EXCEPT ![w] = l],
           KeepsRows, KeepsTypes
    PROVE  IInv'
<1>1. /\ TypeOK /\ PicksAreNew /\ ClaimsAreCounted /\ FiltersHold
      /\ BeforeIsBorn /\ StrictTakes
  BY DEF IInv
<1>2. /\ picked \in [Workers -> SUBSET Agents]
      /\ pc \in [Workers -> {"idle", "head", "byID", "normal", "commit"}]
  BY <1>1 DEF TypeOK
<1>3. /\ picked' \in [Workers -> SUBSET Agents]
      /\ \A u, v \in Workers : u # v => picked'[u] \cap picked'[v] = {}
  BY <1>1, PickType, Zenon DEF GoodPick
<1>4. pc' \in [Workers -> {"idle", "head", "byID", "normal", "commit"}]
  BY <1>2 DEF GoodPick
<1>5. TypeOK'
  BY <1>1, <1>3, <1>4 DEF TypeOK, KeepsRows, KeepsTypes
<1>6. /\ picked'[w] = S /\ pc'[w] = l
      /\ \A v \in Workers : v # w => picked'[v] = picked[v] /\ pc'[v] = pc[v]
  BY <1>2
<1>7. PicksAreNew'
  <2>1. New' = New
    BY DEF New, KeepsRows
  <2> QED BY <1>1, <1>6, <2>1, Zenon DEF PicksAreNew, GoodPick
<1>8. ClaimsAreCounted' /\ BeforeIsBorn'
  BY <1>1 DEF ClaimsAreCounted, BeforeIsBorn, KeepsRows
<1>9. FiltersHold'
  <2>1. \A v \in Workers : MatchedBy(v)' = MatchedBy(v)
    BY DEF MatchedBy, KeepsRows
  <2>2. ClaimsMatch => ClaimsMatch'
    BY DEF ClaimsMatch, MatchedBy, KeepsRows
  <2> QED BY <1>1, <1>6, <2>1, <2>2, Zenon DEF FiltersHold, GoodPick, KeepsRows
<1>10. StrictTakes'
  <2>0. HeldInOrder(pc, snapshot, picked, status, before)'
        <=> HeldInOrder(pc', snapshot', picked', status', before')
    BY DEF HeldInOrder
  <2>1. /\ Strict' = Strict /\ releases' = releases
        /\ status' = status /\ snapshot' = snapshot /\ before' = before
    BY DEF Strict, KeepsRows
  <2> SUFFICES ASSUME Strict
               PROVE  /\ \A v \in Workers : pc'[v] \in {"idle", "head", "commit"}
                      /\ releases = 0 => HeldInOrder(pc', snapshot, picked', status, before)
    BY <2>0, <2>1, Zenon DEF StrictTakes
  <2>2. \A v \in Workers : pc'[v] \in {"idle", "head", "commit"}
    BY <1>1, <1>6 DEF StrictTakes, GoodPick
  <2>3. ASSUME releases = 0
        PROVE  HeldInOrder(pc', snapshot, picked', status, before)
    <3>1. HeldInOrder(pc, snapshot, picked, status, before)
      BY <1>1, <2>3 DEF StrictTakes
    <3>2. pc'[w] # "head"
      BY <1>6 DEF GoodPick
    <3>3. \A a \in S : \A b \in before[a] : b < a => status[b] = "IN_PROGRESS"
      BY <2>3 DEF GoodPick
    <3> QED BY <1>6, <3>1, <3>2, <3>3, Zenon DEF HeldInOrder
  <2> QED BY <2>2, <2>3
<1> QED BY <1>5, <1>7, <1>8, <1>9, <1>10, Zenon DEF IInv

\* The claims that skip what others hold.
LEMMA SkippingPick ==
    ASSUME IInv, NEW w \in Workers, NEW n \in Nat, ~Strict,
           NEW S, S = Oldest(Matching(w) \ Locked(w), n),
           NEW l, l = IF S = {} THEN "idle" ELSE "commit"
    PROVE  S \in SUBSET Agents /\ GoodPick(w, S, l)
<1>1. Matching(w) \ Locked(w) \in SUBSET Agents
  BY DEF Matching, New
<1>2. S \subseteq Matching(w) \ Locked(w)
  BY <1>1, OldestFacts, Zenon
<1> QED BY <1>1, <1>2, Zenon DEF GoodPick, Matching

\* takeStrictHeadClaim keeps the invariant: the head it takes has no older NEW agent.
LEMMA HeadKeepsIInv ==
    ASSUME IInv, NEW w \in Workers, takeStrictHeadClaim(w)
    PROVE  IInv'
<1> DEFINE rows == snapshot[w] \cap New
           S == Oldest(rows, 1) \cap Matching(w)
           l == IF S = {} THEN "idle" ELSE "commit"
<1>1. /\ TypeOK /\ BeforeIsBorn /\ StrictTakes /\ pc[w] = "head"
      /\ rows \in SUBSET Agents
  BY DEF IInv, takeStrictHeadClaim, New
<1>2. /\ Oldest(rows, 1) \subseteq rows
      /\ \A a \in Oldest(rows, 1), b \in rows : ~(b < a)
  BY <1>1, OldestFacts, Zenon
<1>3. /\ S \subseteq rows /\ S \subseteq MatchedBy(w) /\ S \cap Locked(w) = {}
      /\ \A a \in S, b \in rows : ~(b < a)
  BY <1>2, Zenon DEF takeStrictHeadClaim, Matching
<1>4. ASSUME Strict, releases = 0, NEW a \in S, NEW b \in before[a], b < a
      PROVE  status[b] = "IN_PROGRESS"
  <2>0. a \in Agents /\ b \in Agents /\ a \in snapshot[w]
    BY <1>1, <1>3, Zenon DEF TypeOK
  <2>1. b \in snapshot[w] \/ status[b] = "IN_PROGRESS"
    BY <1>1, <1>4, <2>0, Zenon DEF StrictTakes, HeldInOrder
  <2>2. b \notin rows
    BY <1>3, <1>4, Zenon
  <2>3. status[b] # "unborn"
    BY <1>1, <2>0, Zenon DEF BeforeIsBorn
  <2>4. status[b] \in {"unborn", "NEW", "IN_PROGRESS"}
    BY <1>1, <2>0, Zenon DEF TypeOK
  <2> QED BY <2>0, <2>1, <2>2, <2>3, <2>4, Zenon DEF New
<1>5. GoodPick(w, S, l)
  BY <1>3, <1>4, Zenon DEF GoodPick
<1>6. /\ picked' = [picked EXCEPT ![w] = S] /\ pc' = [pc EXCEPT ![w] = l]
      /\ KeepsRows /\ KeepsTypes
  BY <1>1 DEF takeStrictHeadClaim, Pick, Goto, KeepsRows, KeepsTypes, TypeOK,
              prefetcher, bounds
<1>7. S \in SUBSET Agents
  BY <1>1, <1>3
<1> HIDE DEF S, l
<1> QED BY <1>5, <1>6, <1>7, PickKeepsIInv, Zenon

\* takeAtomicClaim keeps the invariant: it picks an agent that nobody has locked.
LEMMA AtomicKeepsIInv ==
    ASSUME IInv, NEW w \in Workers, takeAtomicClaim(w)
    PROVE  IInv'
<1> DEFINE S == Oldest(Matching(w) \ Locked(w), 1)
           l == IF S = {} THEN "idle" ELSE "commit"
<1>1. TypeOK /\ ~Strict
  BY DEF IInv, StrictTakes, takeAtomicClaim
<1>2. /\ picked' = [picked EXCEPT ![w] = S] /\ pc' = [pc EXCEPT ![w] = l]
      /\ KeepsRows /\ KeepsTypes
  BY <1>1 DEF takeAtomicClaim, Pick, Goto, KeepsRows, KeepsTypes, TypeOK,
              prefetcher, bounds
<1>3. S \in SUBSET Agents /\ GoodPick(w, S, l)
  BY <1>1, SkippingPick, ZenonT(40)
<1> HIDE DEF S, l
<1> QED BY <1>2, <1>3, PickKeepsIInv, Zenon

\* BatchTake keeps the invariant: it picks agents that nobody has locked.
LEMMA BatchKeepsIInv ==
    ASSUME IInv, NEW w \in Workers, BatchTake(w)
    PROVE  IInv'
<1> DEFINE S == Oldest(Matching(w) \ Locked(w), BatchLimit)
           l == IF S = {} THEN "idle" ELSE "commit"
<1>1. TypeOK /\ ~Strict /\ BatchLimit \in Nat
  BY LimitsAssumption DEF IInv, Strict, BatchTake
<1>2. /\ picked' = [picked EXCEPT ![w] = S] /\ pc' = [pc EXCEPT ![w] = l]
      /\ KeepsRows /\ KeepsTypes
  BY <1>1, Zenon DEF BatchTake, Pick, Goto, KeepsRows, KeepsTypes, TypeOK, prefetcher, bounds
<1>3. S \in SUBSET Agents /\ GoodPick(w, S, l)
  BY <1>1, SkippingPick, Zenon
<1> HIDE DEF S, l
<1> QED BY <1>2, <1>3, PickKeepsIInv, Zenon

\* A stale candidate that is not NEW any more is not picked.
LEMMA ByIDKeepsIInv ==
    ASSUME IInv, NEW w \in Workers, claimByID(w)
    PROVE  IInv'
<1> DEFINE S == candidate[w] \cap New
           l == IF S = {} THEN "byID" ELSE "commit"
<1>1. TypeOK /\ ~Strict /\ setup.prefetch /\ candidate \in [Workers -> SUBSET Agents]
  BY Zenon DEF IInv, StrictTakes, FiltersHold, claimByID, TypeOK
<1>2. candidate' \in [Workers -> SUBSET Agents]
  BY <1>1 DEF claimByID
<1>3. /\ picked' = [picked EXCEPT ![w] = S] /\ pc' = [pc EXCEPT ![w] = l]
      /\ KeepsRows /\ KeepsTypes
  BY <1>1, <1>2, Zenon DEF claimByID, Goto, KeepsRows, KeepsTypes, TypeOK, prefetcher, bounds
<1>4. S \in SUBSET Agents /\ GoodPick(w, S, l)
  BY <1>1 DEF GoodPick, claimByID, New
<1> HIDE DEF S, l
<1> QED BY <1>3, <1>4, PickKeepsIInv, Zenon

\* A rolled back claim keeps the invariant: it leaves its agent as it was.
LEMMA AbortKeepsIInv ==
    ASSUME IInv, NEW w \in Workers, Abort(w)
    PROVE  IInv'
<1>1. TypeOK
  BY DEF IInv
<1>2. aborts' \in 0..MaxAborts
  BY LimitsAssumption, <1>1 DEF TypeOK, Abort
<1>3. /\ picked' = [picked EXCEPT ![w] = {}] /\ pc' = [pc EXCEPT ![w] = "idle"]
      /\ KeepsRows /\ KeepsTypes
  BY <1>1, <1>2, Zenon DEF Abort, EndTx, Goto, KeepsRows, KeepsTypes, TypeOK, prefetcher
<1>4. {} \in SUBSET Agents /\ GoodPick(w, {}, "idle")
  BY DEF GoodPick
<1> QED BY <1>3, <1>4, PickKeepsIInv, Zenon

-----------------------------------------------------------------------------
(* The other steps *)

\* A call starts, or a take by identifier goes on: no rows are involved.
LEMMA CallKeepsIInv ==
    ASSUME IInv, TypeOK', NEW w \in Workers, NEW l, pc' = [pc EXCEPT ![w] = l],
           pc[w] # "commit", l # "commit",
           ~setup.prefetch => l # "byID",
           Strict => l \in {"idle", "head"},
           \A v \in Workers \ {w} : snapshot'[v] = snapshot[v],
           l = "head" => snapshot'[w] = New,
           status' = status, picked' = picked, claims' = claims, setup' = setup,
           before' = before, releases' = releases
    PROVE  IInv'
<1>1. /\ TypeOK /\ PicksAreNew /\ ClaimsAreCounted /\ FiltersHold
      /\ BeforeIsBorn /\ StrictTakes
      /\ pc \in [Workers -> {"idle", "head", "byID", "normal", "commit"}]
  BY DEF IInv, TypeOK
<1>2. pc'[w] = l /\ \A v \in Workers : v # w => pc'[v] = pc[v]
  BY <1>1
<1>3. PicksAreNew'
  BY <1>1, <1>2 DEF PicksAreNew, New
<1>4. ClaimsAreCounted' /\ BeforeIsBorn'
  BY <1>1, Zenon DEF ClaimsAreCounted, BeforeIsBorn
<1>5. FiltersHold'
  <2>1. \A v \in Workers : MatchedBy(v)' = MatchedBy(v)
    BY DEF MatchedBy
  <2>2. ClaimsMatch => ClaimsMatch'
    BY DEF ClaimsMatch, MatchedBy
  <2> QED BY <1>1, <1>2, <2>1, <2>2, Zenon DEF FiltersHold
<1>6. StrictTakes'
  <2>0. HeldInOrder(pc, snapshot, picked, status, before)'
        <=> HeldInOrder(pc', snapshot', picked', status', before')
    BY DEF HeldInOrder
  <2>1. Strict' = Strict
    BY DEF Strict
  <2> SUFFICES ASSUME Strict
               PROVE  /\ \A v \in Workers : pc'[v] \in {"idle", "head", "commit"}
                      /\ releases = 0 => HeldInOrder(pc', snapshot', picked, status, before)
    BY <2>0, <2>1, Zenon DEF StrictTakes
  <2>2. \A v \in Workers : pc'[v] \in {"idle", "head", "commit"}
    BY <1>1, <1>2, Zenon DEF StrictTakes
  <2>3. ASSUME releases = 0
        PROVE  HeldInOrder(pc', snapshot', picked, status, before)
    <3>1. HeldInOrder(pc, snapshot, picked, status, before)
      BY <1>1, <2>3, Zenon DEF StrictTakes
    <3>2. \A a \in New : /\ status[a] # "unborn"
                         /\ \A b \in before[a] : b \in New \/ status[b] = "IN_PROGRESS"
      <4>1. /\ status \in [Agents -> {"unborn", "NEW", "IN_PROGRESS"}]
            /\ before \in [Agents -> SUBSET Agents]
        BY <1>1, Zenon DEF TypeOK
      <4>2. ASSUME NEW b \in Agents, status[b] # "unborn"
            PROVE  b \in New \/ status[b] = "IN_PROGRESS"
        BY <4>1, <4>2 DEF New
      <4> QED BY <1>1, <4>1, <4>2, ZenonT(40) DEF BeforeIsBorn, New
    <3> QED BY <1>2, <3>1, <3>2, ZenonT(40) DEF HeldInOrder
  <2> QED BY <2>2, <2>3, Zenon
<1> QED BY <1>3, <1>4, <1>5, <1>6, Zenon DEF IInv

\* Take, which starts a claim, keeps the invariant.
LEMMA TakeKeepsIInv ==
    ASSUME IInv, NEW w \in Workers, Take(w)
    PROVE  IInv'
<1>1. TypeOK /\ pc[w] = "idle" /\ snapshot \in [Workers -> SUBSET Agents]
      /\ pc \in [Workers -> {"idle", "head", "byID", "normal", "commit"}]
  BY DEF IInv, TypeOK, Take
<1>2. /\ status' = status /\ picked' = picked /\ claims' = claims /\ setup' = setup
      /\ before' = before /\ releases' = releases /\ aborts' = aborts /\ candidate' = candidate
      /\ buffer' = buffer /\ fetched' = fetched
      /\ attempts' = [attempts EXCEPT ![w] = 0]
  BY DEF Take, prefetcher, bounds
<1>3. attempts' \in [Workers -> 0..3]
  BY <1>1, <1>2 DEF TypeOK
<1>4. CASE /\ setup.mode = "strict" /\ advisory = {}
           /\ advisory' = {w} /\ Goto(w, "head")
           /\ snapshot' = [snapshot EXCEPT ![w] = New]
  <2>1. New \in SUBSET Agents
    BY DEF New
  <2>2. snapshot' \in [Workers -> SUBSET Agents] /\ snapshot'[w] = New
        /\ \A v \in Workers \ {w} : snapshot'[v] = snapshot[v]
    BY <1>1, <1>4, <2>1, Zenon
  <2>3. pc' = [pc EXCEPT ![w] = "head"]
    BY <1>4 DEF Goto
  <2>4. pc' \in [Workers -> {"idle", "head", "byID", "normal", "commit"}]
    BY <1>1, <2>3
  <2>5. advisory' \subseteq Workers /\ \A u, v \in advisory' : u = v
    BY <1>4, Zenon
  <2>6. TypeOK'
    BY <1>1, <1>2, <1>3, <2>2, <2>4, <2>5, Zenon DEF TypeOK
  <2> QED BY <1>1, <1>2, <2>2, <2>3, <2>6, CallKeepsIInv, Zenon
<1>5. CASE /\ setup.mode = "parallel"
           /\ Goto(w, IF setup.prefetch THEN "byID" ELSE "normal")
           /\ UNCHANGED <<advisory, snapshot>>
  <2> DEFINE l == IF setup.prefetch THEN "byID" ELSE "normal"
  <2>1. pc' = [pc EXCEPT ![w] = l]
    BY <1>5 DEF Goto
  <2>2. pc' \in [Workers -> {"idle", "head", "byID", "normal", "commit"}]
    BY <1>1, <2>1, Zenon
  <2>3. TypeOK'
    BY <1>1, <1>2, <1>3, <1>5, <2>2, Zenon DEF TypeOK
  <2>4. /\ l # "commit" /\ l # "head" /\ (~setup.prefetch => l # "byID") /\ ~Strict
        /\ \A v \in Workers \ {w} : snapshot'[v] = snapshot[v]
    BY <1>5, Zenon DEF Strict
  <2> HIDE DEF l
  <2> QED BY <1>1, <1>2, <2>1, <2>3, <2>4, CallKeepsIInv, Zenon
<1> QED BY <1>4, <1>5, Zenon DEF Take

\* A take answered from the prefetch buffer keeps the invariant.
LEMMA TryGetKeepsIInv ==
    ASSUME IInv, NEW w \in Workers, tryGet(w)
    PROVE  IInv'
<1>1. /\ TypeOK /\ pc[w] = "byID" /\ setup.prefetch /\ ~Strict
      /\ pc \in [Workers -> {"idle", "head", "byID", "normal", "commit"}]
  BY Zenon DEF IInv, TypeOK, tryGet, FiltersHold, StrictTakes
<1>2. /\ status' = status /\ picked' = picked /\ claims' = claims /\ setup' = setup
      /\ before' = before /\ releases' = releases /\ aborts' = aborts /\ snapshot' = snapshot
      /\ advisory' = advisory /\ fetched' = fetched
  BY DEF tryGet, bounds
<1>3. CASE /\ attempts[w] < 3 /\ buffer # <<>>
           /\ candidate' = [candidate EXCEPT ![w] = {Head(buffer)}]
           /\ buffer' = Tail(buffer)
           /\ attempts' = [attempts EXCEPT ![w] = @ + 1]
           /\ UNCHANGED pc
  <2>1. buffer \in Seq(Agents) /\ Len(buffer) <= BufferSize /\ BufferSize \in Nat
    BY LimitsAssumption, <1>1, Zenon DEF TypeOK
  <2>2. Head(buffer) \in Agents
    BY <1>3, <2>1
  <2>3. buffer' \in Seq(Agents) /\ Len(buffer') <= BufferSize
    BY <1>3, <2>1
  <2>4. candidate' \in [Workers -> SUBSET Agents]
    BY <1>1, <1>3, <2>2, Zenon DEF TypeOK
  <2>5. attempts' \in [Workers -> 0..3]
    <3>1. attempts \in [Workers -> 0..3]
      BY <1>1 DEF TypeOK
    <3>2. attempts[w] \in 0..3 /\ attempts[w] < 3
      BY <1>3, <3>1
    <3>3. attempts[w] + 1 \in 0..3
      BY <3>2
    <3> QED BY <1>3, <3>1, <3>3, Zenon
  <2>6. TypeOK'
    BY <1>1, <1>2, <1>3, <2>3, <2>4, <2>5, Zenon DEF TypeOK
  <2>7. pc' = [pc EXCEPT ![w] = "byID"]
    BY <1>1, <1>3
  <2> QED BY <1>1, <1>2, <2>6, <2>7, CallKeepsIInv, Zenon
<1>4. CASE Goto(w, "normal") /\ UNCHANGED <<candidate, buffer, attempts>>
  <2>1. pc' = [pc EXCEPT ![w] = "normal"]
    BY <1>4 DEF Goto
  <2>2. pc' \in [Workers -> {"idle", "head", "byID", "normal", "commit"}]
    BY <1>1, <2>1, Zenon
  <2>3. TypeOK'
    BY <1>1, <1>2, <1>4, <2>2, Zenon DEF TypeOK
  <2> QED BY <1>1, <1>2, <2>1, <2>3, CallKeepsIInv, Zenon
<1> QED BY <1>3, <1>4 DEF tryGet

\* The prefetcher's steps, and stuttering.
LEMMA PrefetcherKeepsIInv ==
    ASSUME IInv, buffer' \in Seq(Agents), Len(buffer') <= BufferSize,
           fetched' \in Seq(Agents),
           status' = status, pc' = pc, snapshot' = snapshot, picked' = picked,
           advisory' = advisory, candidate' = candidate, attempts' = attempts,
           claims' = claims, setup' = setup, before' = before, aborts' = aborts,
           releases' = releases
    PROVE  IInv'
<1>1. /\ TypeOK /\ PicksAreNew /\ ClaimsAreCounted /\ FiltersHold
      /\ BeforeIsBorn /\ StrictTakes
  BY Zenon DEF IInv
<1>2. TypeOK'
  BY <1>1, Zenon DEF TypeOK
<1>3. PicksAreNew' /\ ClaimsAreCounted' /\ BeforeIsBorn'
  BY <1>1, Zenon DEF PicksAreNew, ClaimsAreCounted, BeforeIsBorn, New
<1>4. FiltersHold'
  BY <1>1, Zenon DEF FiltersHold, ClaimsMatch, MatchedBy
<1>5. StrictTakes'
  <2>1. Strict' = Strict
    BY Zenon DEF Strict
  <2>2. HeldInOrder(pc, snapshot, picked, status, before)'
        = HeldInOrder(pc, snapshot, picked, status, before)
    BY DEF HeldInOrder
  <2> QED BY <1>1, <2>1, <2>2, Zenon DEF StrictTakes
<1> QED BY <1>2, <1>3, <1>4, <1>5, Zenon DEF IInv

\* fetchCandidateIDs keeps the invariant: it only reads the rows.
LEMMA FetchKeepsIInv ==
    ASSUME IInv, fetchCandidateIDs
    PROVE  IInv'
<1> DEFINE S == Oldest(New, FetchLimit)
<1>1. TypeOK /\ S \subseteq Agents
  BY DEF IInv, Oldest, New
<1>2. Cardinality(S) \in Nat
  BY AgentsAssumption, <1>1, FS_Subset, FS_CardinalityType, Zenon
<1>3. PICK ids \in [1..Cardinality(S) -> S] : fetched' = ids
  BY DEF fetchCandidateIDs
<1> HIDE DEF S
<1>4. fetched' \in [1..Cardinality(S) -> Agents]
  BY <1>1, <1>3, Zenon
<1>5. fetched' \in Seq(Agents)
  BY <1>2, <1>4
<1>6. buffer \in Seq(Agents) /\ Len(buffer) <= BufferSize
  BY <1>1 DEF TypeOK
<1> QED BY <1>5, <1>6, PrefetcherKeepsIInv, Zenon DEF fetchCandidateIDs, bounds

\* A candidate that goes into the buffer keeps the invariant.
LEMMA SendKeepsIInv ==
    ASSUME IInv, SendCandidate
    PROVE  IInv'
<1>1. /\ buffer \in Seq(Agents) /\ fetched \in Seq(Agents) /\ fetched # <<>>
      /\ Len(buffer) < BufferSize /\ BufferSize \in Nat
      /\ buffer' = Append(buffer, Head(fetched)) /\ fetched' = Tail(fetched)
  BY LimitsAssumption DEF IInv, TypeOK, SendCandidate
<1>2. Head(fetched) \in Agents /\ fetched' \in Seq(Agents)
  BY <1>1
<1>3. buffer' \in Seq(Agents) /\ Len(buffer') <= BufferSize
  BY <1>1, <1>2
<1> QED BY <1>2, <1>3, PrefetcherKeepsIInv, Zenon DEF SendCandidate, bounds

\* evictIdle, which empties the buffer, keeps the invariant.
LEMMA EvictKeepsIInv ==
    ASSUME IInv, evictIdle
    PROVE  IInv'
<1>1. /\ buffer' = <<>> /\ fetched' = <<>> /\ BufferSize \in Nat
  BY LimitsAssumption DEF evictIdle
<1>2. buffer' \in Seq(Agents) /\ fetched' \in Seq(Agents) /\ Len(buffer') <= BufferSize
  BY <1>1
<1> QED BY <1>2, PrefetcherKeepsIInv, Zenon DEF evictIdle, bounds

\* Publishing an agent keeps the invariant: no snapshot has it yet, and what
\* is before it is visible.
LEMMA OutKeepsIInv ==
    ASSUME IInv, NEW a \in Agents, Out(a)
    PROVE  IInv'
<1>1. /\ TypeOK /\ PicksAreNew /\ ClaimsAreCounted /\ FiltersHold
      /\ BeforeIsBorn /\ StrictTakes
      /\ status \in [Agents -> {"unborn", "NEW", "IN_PROGRESS"}]
      /\ status[a] = "unborn" /\ before \in [Agents -> SUBSET Agents]
  BY DEF IInv, TypeOK, Out
<1>2. /\ pc' = pc /\ snapshot' = snapshot /\ picked' = picked /\ advisory' = advisory
      /\ candidate' = candidate /\ attempts' = attempts /\ buffer' = buffer
      /\ fetched' = fetched /\ claims' = claims /\ setup' = setup /\ aborts' = aborts
      /\ releases' = releases
  BY DEF Out, prefetcher, bounds
<1>3. /\ status' \in [Agents -> {"unborn", "NEW", "IN_PROGRESS"}]
      /\ status'[a] = "NEW" /\ \A b \in Agents : b # a => status'[b] = status[b]
  BY <1>1, Zenon DEF Out
<1>4. TypeOK'
  <2>1. {b \in Agents : status[b] # "unborn"} \in SUBSET Agents
    BY Zenon
  <2>2. before' \in [Agents -> SUBSET Agents]
    BY <1>1, <2>1, Zenon DEF Out
  <2> QED BY <1>1, <1>2, <1>3, <2>2, Zenon DEF TypeOK
<1>0. /\ before'[a] = {b \in Agents : status[b] # "unborn"}
      /\ \A b \in Agents : b # a => before'[b] = before[b]
      /\ \A b \in Agents : before[b] \subseteq Agents /\ before'[b] \subseteq Agents
  <2>1. before' = [before EXCEPT ![a] = {b \in Agents : status[b] # "unborn"}]
    BY Zenon DEF Out
  <2>2. before' \in [Agents -> SUBSET Agents]
    BY <1>4, Zenon DEF TypeOK
  <2> QED BY <1>1, <2>1, <2>2
<1>5. PicksAreNew'
  BY <1>1, <1>2, <1>3, Zenon DEF PicksAreNew, New
<1>6. ClaimsAreCounted'
  BY <1>1, <1>2, <1>3, Zenon DEF ClaimsAreCounted
<1>7. BeforeIsBorn'
  <2>1. \A b \in Agents : status[b] # "unborn" => status'[b] # "unborn"
    BY <1>1, <1>3, Zenon
  <2> QED BY <1>0, <1>1, <2>1, ZenonT(40) DEF BeforeIsBorn
<1>8. FiltersHold'
  BY <1>1, <1>2, Zenon DEF FiltersHold, ClaimsMatch, MatchedBy
<1>9. StrictTakes'
  <2>1. \A b \in Agents : (status'[b] = "IN_PROGRESS") <=> (status[b] = "IN_PROGRESS")
    BY <1>1, <1>3, Zenon
  <2>2. HeldInOrder(pc, snapshot, picked, status, before) =>
          HeldInOrder(pc, snapshot, picked, status', before')
    <3> SUFFICES ASSUME HeldInOrder(pc, snapshot, picked, status, before)
                 PROVE  HeldInOrder(pc, snapshot, picked, status', before')
      BY Zenon
    <3>1. ASSUME NEW w \in Workers, pc[w] = "head", NEW c \in snapshot[w]
          PROVE  /\ status'[c] # "unborn"
                 /\ \A b \in before'[c] : b < c =>
                      b \in snapshot[w] \/ status'[b] = "IN_PROGRESS"
      <4>1. c \in Agents /\ status[c] # "unborn"
        BY <1>1, <3>1, Zenon DEF TypeOK, HeldInOrder
      <4>2. before'[c] = before[c] /\ status'[c] = status[c]
        BY <1>0, <1>1, <1>3, <4>1, Zenon
      <4> QED BY <1>0, <2>1, <3>1, <4>1, <4>2, ZenonT(40) DEF HeldInOrder
    <3>2. ASSUME NEW c \in Agents, status[c] # "unborn",
                 \A b \in before[c] : b < c => status[b] = "IN_PROGRESS"
          PROVE  \A b \in before'[c] : b < c => status'[b] = "IN_PROGRESS"
      <4>1. before'[c] = before[c]
        BY <1>0, <1>1, <3>2, Zenon
      <4> QED BY <1>0, <2>1, <3>2, <4>1, Zenon
    <3>3. ASSUME NEW w \in Workers, NEW c \in picked[w]
          PROVE  \A b \in before'[c] : b < c => status'[b] = "IN_PROGRESS"
      <4>1. c \in Agents /\ status[c] # "unborn"
        BY <1>1, Zenon DEF PicksAreNew, New
      <4> QED BY <3>2, <4>1, Zenon DEF HeldInOrder
    <3>4. ASSUME NEW c \in Agents, status'[c] = "IN_PROGRESS"
          PROVE  \A b \in before'[c] : b < c => status'[b] = "IN_PROGRESS"
      <4>1. status[c] = "IN_PROGRESS"
        BY <2>1, <3>4, Zenon
      <4> QED BY <3>2, <4>1, Zenon DEF HeldInOrder
    <3> QED BY <3>1, <3>3, <3>4, ZenonT(40) DEF HeldInOrder
  <2> QED BY <1>1, <1>2, <2>2, ZenonT(40) DEF StrictTakes, Strict
<1> QED BY <1>4, <1>5, <1>6, <1>7, <1>8, <1>9, Zenon DEF IInv

\* Releasing an agent keeps the invariant: its claims start again.
LEMMA ReleaseKeepsIInv ==
    ASSUME IInv, NEW a \in Agents, Release(a)
    PROVE  IInv'
<1>1. /\ TypeOK /\ PicksAreNew /\ ClaimsAreCounted /\ FiltersHold
      /\ BeforeIsBorn /\ StrictTakes
      /\ status \in [Agents -> {"unborn", "NEW", "IN_PROGRESS"}]
      /\ claims \in [Agents -> Seq(Workers)]
      /\ status[a] = "IN_PROGRESS" /\ before \in [Agents -> SUBSET Agents]
      /\ releases \in 0..MaxReleases /\ releases < MaxReleases /\ releases' = releases + 1
  BY Zenon DEF IInv, TypeOK, Release
<1>2. /\ pc' = pc /\ snapshot' = snapshot /\ picked' = picked /\ advisory' = advisory
      /\ candidate' = candidate /\ attempts' = attempts /\ buffer' = buffer
      /\ fetched' = fetched /\ setup' = setup /\ before' = before /\ aborts' = aborts
  BY Zenon DEF Release, prefetcher
<1>3. /\ status' \in [Agents -> {"unborn", "NEW", "IN_PROGRESS"}]
      /\ status'[a] = "NEW" /\ \A b \in Agents : b # a => status'[b] = status[b]
  BY <1>1, Zenon DEF Release
<1>4. /\ claims' \in [Agents -> Seq(Workers)]
      /\ claims'[a] = <<>> /\ \A b \in Agents : b # a => claims'[b] = claims[b]
  BY <1>1 DEF Release
<1>5. TypeOK'
  <2>1. MaxReleases \in Nat
    BY LimitsAssumption
  <2>2. releases' \in 0..MaxReleases
    BY <1>1, <2>1
  <2> QED BY <1>1, <1>2, <1>3, <1>4, <2>2, Zenon DEF TypeOK
<1>6. PicksAreNew'
  BY <1>1, <1>2, <1>3, Zenon DEF PicksAreNew, New
<1>7. ClaimsAreCounted'
  BY <1>1, <1>3, <1>4, Zenon DEF ClaimsAreCounted
<1>8. BeforeIsBorn'
  BY <1>1, <1>2, <1>3, ZenonT(40) DEF BeforeIsBorn
<1>9. FiltersHold'
  <2>1. \A v \in Workers : MatchedBy(v)' = MatchedBy(v)
    BY <1>2, Zenon DEF MatchedBy
  <2>2. ClaimsMatch => ClaimsMatch'
    <3> SUFFICES ASSUME ClaimsMatch, NEW b \in Agents, NEW i \in 1..Len(claims'[b])
                 PROVE  KindOf[b] \in setup.wants[claims'[b][i]]
      BY <1>2, Zenon DEF ClaimsMatch, MatchedBy
    <3>1. b # a
      BY <1>4
    <3>2. claims'[b] = claims[b]
      BY <1>4, <3>1, Zenon
    <3> QED BY <3>2 DEF ClaimsMatch, MatchedBy
  <2> QED BY <1>1, <1>2, <2>1, <2>2, Zenon DEF FiltersHold
<1>10. StrictTakes'
  BY <1>1, <1>2 DEF StrictTakes, Strict
<1> QED BY <1>5, <1>6, <1>7, <1>8, <1>9, <1>10, Zenon DEF IInv

\* The commit of a claim keeps the invariant: the agent had no other claim.
LEMMA CommitKeepsIInv ==
    ASSUME IInv, NEW w \in Workers, Commit(w)
    PROVE  IInv'
<1>1. /\ TypeOK /\ PicksAreNew /\ ClaimsAreCounted /\ FiltersHold
      /\ BeforeIsBorn /\ StrictTakes
      /\ status \in [Agents -> {"unborn", "NEW", "IN_PROGRESS"}]
      /\ claims \in [Agents -> Seq(Workers)]
      /\ picked \in [Workers -> SUBSET Agents] /\ before \in [Agents -> SUBSET Agents]
      /\ pc \in [Workers -> {"idle", "head", "byID", "normal", "commit"}]
  BY Zenon DEF IInv, TypeOK
<1>2. /\ snapshot' = snapshot /\ candidate' = candidate /\ attempts' = attempts
      /\ buffer' = buffer /\ fetched' = fetched /\ setup' = setup /\ aborts' = aborts
      /\ before' = before /\ releases' = releases /\ advisory' = advisory \ {w}
  BY DEF Commit, EndTx, prefetcher, bounds
<1>3. /\ status' \in [Agents -> {"unborn", "NEW", "IN_PROGRESS"}]
      /\ \A a \in Agents : status'[a] = IF a \in picked[w] THEN "IN_PROGRESS" ELSE status[a]
  BY <1>1, Zenon DEF Commit
<1>4. /\ claims' \in [Agents -> Seq(Workers)]
      /\ \A a \in Agents : claims'[a] = IF a \in picked[w] THEN Append(claims[a], w)
                                        ELSE claims[a]
  BY <1>1 DEF Commit
<1>5. /\ picked' \in [Workers -> SUBSET Agents] /\ picked'[w] = {}
      /\ \A v \in Workers : v # w => picked'[v] = picked[v]
      /\ pc' \in [Workers -> {"idle", "head", "byID", "normal", "commit"}]
      /\ pc'[w] = "idle" /\ \A v \in Workers : v # w => pc'[v] = pc[v]
  BY <1>1, Zenon DEF Commit, EndTx, Goto
<1>6. \A u, v \in Workers : u # v => picked[u] \cap picked[v] = {}
  BY <1>1, Zenon DEF TypeOK
<1>7. TypeOK'
  <2>1. \A u, v \in Workers : u # v => picked'[u] \cap picked'[v] = {}
    BY <1>5, <1>6
  <2> QED BY <1>1, <1>2, <1>3, <1>4, <1>5, <2>1, Zenon DEF TypeOK
<1>8. \A a \in picked[w] : a \in Agents /\ status[a] = "NEW" /\ claims[a] = <<>>
  BY <1>1, Zenon DEF PicksAreNew, New, ClaimsAreCounted
<1>9. \A a \in picked[w] : Len(claims'[a]) = 1 /\ claims'[a][1] = w
  <2>1. <<>> \in Seq(Workers) /\ Len(<<>>) = 0
    OBVIOUS
  <2>2. Len(Append(<<>>, w)) = 1 /\ Append(<<>>, w)[1] = w
    BY <2>1
  <2> QED BY <1>4, <1>8, <2>2, Zenon
<1>10. PicksAreNew'
  BY <1>1, <1>3, <1>5, <1>6, Zenon DEF PicksAreNew, New
<1>11. ClaimsAreCounted'
  BY <1>1, <1>3, <1>4, <1>8, <1>9, Zenon DEF ClaimsAreCounted
<1>12. BeforeIsBorn'
  BY <1>1, <1>2, <1>3, <1>8, ZenonT(40) DEF BeforeIsBorn
<1>13. FiltersHold'
  <2>1. \A v \in Workers : MatchedBy(v)' = MatchedBy(v)
    BY <1>2, Zenon DEF MatchedBy
  <2>2. ASSUME ~setup.prefetch PROVE ClaimsMatch'
    <3> SUFFICES ASSUME NEW b \in Agents, NEW i \in 1..Len(claims'[b])
                 PROVE  KindOf[b] \in setup.wants[claims'[b][i]]
      BY <1>2, Zenon DEF ClaimsMatch, MatchedBy
    <3>1. CASE b \in picked[w]
      <4>1. claims'[b][i] = w
        BY <1>9, <3>1
      <4> QED BY <1>1, <2>2, <3>1, <4>1, Zenon DEF FiltersHold, MatchedBy
    <3>2. CASE b \notin picked[w]
      <4>1. claims'[b] = claims[b]
        BY <1>4, <3>2, Zenon
      <4> QED BY <1>1, <2>2, <4>1, Zenon DEF FiltersHold, ClaimsMatch, MatchedBy
    <3> QED BY <3>1, <3>2, Zenon
  <2> QED BY <1>1, <1>2, <1>5, <2>1, <2>2, Zenon DEF FiltersHold
<1>14. StrictTakes'
  <2>1. Strict' = Strict
    BY <1>2, Zenon DEF Strict
  <2>2. HeldInOrder(pc, snapshot, picked, status, before) =>
          HeldInOrder(pc', snapshot, picked', status', before')
    <3> SUFFICES ASSUME HeldInOrder(pc, snapshot, picked, status, before)
                 PROVE  HeldInOrder(pc', snapshot, picked', status', before)
      BY <1>2, Zenon
    <3>1. \A b \in Agents : status[b] = "IN_PROGRESS" => status'[b] = "IN_PROGRESS"
      BY <1>3, Zenon
    <3>2. \A b \in Agents : status[b] # "unborn" => status'[b] # "unborn"
      BY <1>3, Zenon
    <3>3. \A b \in Agents : before[b] \subseteq Agents
      BY <1>1, Zenon
    <3>4. ASSUME NEW v \in Workers, pc'[v] = "head", NEW c \in snapshot[v]
          PROVE  /\ status'[c] # "unborn"
                 /\ \A b \in before[c] : b < c =>
                      b \in snapshot[v] \/ status'[b] = "IN_PROGRESS"
      <4>1. pc[v] = "head" /\ c \in Agents
        BY <1>1, <1>5, <3>4, ZenonT(40) DEF TypeOK
      <4> QED BY <3>1, <3>2, <3>3, <4>1, ZenonT(40) DEF HeldInOrder
    <3>5. ASSUME NEW v \in Workers, NEW c \in picked[v]
          PROVE  \A b \in before[c] : b < c => status'[b] = "IN_PROGRESS"
      <4>1. c \in Agents
        BY <1>1, Zenon
      <4> QED BY <3>1, <3>3, <4>1, ZenonT(40) DEF HeldInOrder
    <3>6. ASSUME NEW c \in Agents, status'[c] = "IN_PROGRESS"
          PROVE  \A b \in before[c] : b < c => status'[b] = "IN_PROGRESS"
      <4>1. CASE c \in picked[w]
        BY <3>5, <4>1, Zenon
      <4>2. CASE c \notin picked[w]
        BY <1>3, <3>1, <3>3, <3>6, <4>2, ZenonT(40) DEF HeldInOrder
      <4> QED BY <4>1, <4>2, Zenon
    <3>7. \A v \in Workers : picked'[v] \subseteq picked[v]
      BY <1>5, Zenon
    <3> QED BY <3>4, <3>5, <3>6, <3>7, ZenonT(40) DEF HeldInOrder
  <2> QED BY <1>1, <1>2, <1>5, <2>1, <2>2, Zenon DEF StrictTakes
<1> QED BY <1>7, <1>10, <1>11, <1>12, <1>13, <1>14, Zenon DEF IInv

-----------------------------------------------------------------------------
(* The theorems *)

\* The invariant holds of an empty queue.
LEMMA IInvInit == Init => IInv
<1> SUFFICES ASSUME Init PROVE IInv
  BY Zenon
<1>1. TypeOK
  BY LimitsAssumption DEF Init, TypeOK
<1>2. PicksAreNew /\ ClaimsAreCounted /\ BeforeIsBorn
  BY Zenon DEF Init, PicksAreNew, ClaimsAreCounted, BeforeIsBorn, New
<1>3. FiltersHold
  BY DEF Init, FiltersHold, ClaimsMatch
<1>4. StrictTakes
  BY DEF Init, StrictTakes, HeldInOrder
<1> QED BY <1>1, <1>2, <1>3, <1>4, Zenon DEF IInv

\* Every step keeps the invariant.
LEMMA IInvInductive == IInv /\ [Next]_vars => IInv'
<1> SUFFICES ASSUME IInv, [Next]_vars PROVE IInv'
  BY Zenon
<1>1. CASE UNCHANGED vars
  <2>1. /\ buffer \in Seq(Agents) /\ Len(buffer) <= BufferSize /\ fetched \in Seq(Agents)
    BY Zenon DEF IInv, TypeOK
  <2> QED BY <1>1, <2>1, PrefetcherKeepsIInv, Zenon DEF vars
<1>2. ASSUME NEW w \in Workers, Step(w) PROVE IInv'
  BY <1>2, TakeKeepsIInv, HeadKeepsIInv, AtomicKeepsIInv, TryGetKeepsIInv,
     ByIDKeepsIInv, CommitKeepsIInv, Zenon DEF Step
<1> QED BY <1>1, <1>2, OutKeepsIInv, ReleaseKeepsIInv, BatchKeepsIInv, AbortKeepsIInv,
           FetchKeepsIInv, SendKeepsIInv, EvictKeepsIInv, Zenon DEF Next

\* The inductive invariant holds in every reachable state.
THEOREM IInvHolds == Spec => []IInv
<1> QED BY IInvInit, IInvInductive, PTL DEF Spec

\* No agent is claimed twice, by the same worker or by two, whatever claims
\* run at the same time and however stale the identifiers of the prefetcher
\* are: every claim compares the status under the row's lock.
THEOREM ExclusiveClaims == Spec => []ClaimsAreExclusive
<1>1. IInv => ClaimsAreExclusive
  <2>1. Len(<<>>) = 0
    BY Zenon
  <2>2. ClaimsAreCounted => \A a \in Agents : Len(claims[a]) \in {0, 1}
    BY <2>1 DEF ClaimsAreCounted
  <2>3. \A n \in {0, 1} : n <= 1
    OBVIOUS
  <2> QED BY <2>2, <2>3, Zenon DEF IInv, ClaimsAreExclusive
<1> QED BY <1>1, IInvHolds, PTL

\* Without the prefetcher a worker claims only what its query asks for; with
\* it, claimByID compares no more than the status.
THEOREM MatchingClaims == Spec => []UnprefetchedClaimsMatch
<1>1. IInv => UnprefetchedClaimsMatch
  BY Zenon DEF IInv, FiltersHold, UnprefetchedClaimsMatch
<1> QED BY <1>1, IInvHolds, PTL

\* On a strict queue an agent is claimed only after every agent that was created
\* before it and visible when it was published, as long as nothing is released.
THEOREM ClaimsInOrder == Spec => []StrictOrder
<1>1. IInv => StrictOrder
  BY DEF IInv, StrictTakes, HeldInOrder, Strict, ClaimsAreCounted, StrictOrder, TypeOK
<1> QED BY <1>1, IInvHolds, PTL

-----------------------------------------------------------------------------
(***************************************************************************)
(* The blocking calls, which repeat claims until their deadline, with the  *)
(* constants and variables of BlockingCalls.                               *)
(***************************************************************************)
\* The answers of AgreeingHandlersAnswer, and that no more agents are free than were made.
AnswerInv == AgreeingHandlersAnswer /\ free <= made

\* A blocking call is answered as documented: InAgent on the SQL stores with an
\* agent or 408, ReadAgent on Valkey with an agent or 204, whatever was published,
\* lost, or claimed by others before the deadline.
THEOREM BlockedCallsAnswer == CallsSpec => []AgreeingHandlersAnswer
<1> USE MaxWorkAssumption
<1>1. CallsInit => AnswerInv
  BY DEF CallsInit, AnswerInv, AgreeingHandlersAnswer, CallsTypeOK
<1>2. ASSUME AnswerInv, [CallsNext]_callsVars
      PROVE  AnswerInv'
  <2> USE <1>2 DEF AnswerInv, AgreeingHandlersAnswer, CallsTypeOK
  <2>1. ASSUME NEW s \in Servers, Publish(s)
        PROVE  AnswerInv'
    BY <2>1 DEF Publish, NotifiedAtCommit, setting
  <2>2. ASSUME NEW s \in Servers, Signal(s) \/ Receive(s) \/ ListenerFails(s) \/ ListenerErrs(s)
        PROVE  AnswerInv'
    BY <2>2, Zenon DEF Signal, Receive, ListenerFails, ListenerErrs, signalWakeups, Asleep, store, setting, waking
  <2>3. ASSUME NEW s \in Servers, NEW sent \in BOOLEAN, publishWakeup(s, sent)
        PROVE  AnswerInv'
    BY <2>3, Zenon DEF publishWakeup, store, setting
  <2>4. ASSUME NEW c \in Callers, Try(c)
        PROVE  AnswerInv'
    BY <2>4 DEF Try, Return, MoveTo, resolveTakeLockClause, ReadAgent, InAgent, store, setting, waking
  <2>5. ASSUME NEW c \in Callers, Claim(c)
        PROVE  AnswerInv'
    BY <2>5 DEF Claim, Return, MoveTo, ReadAgent, InAgent, store, setting, waking
  <2>6. ASSUME NEW c \in Callers, Sleep(c) \/ Wake(c) \/ DeadlinePasses(c)
        PROVE  AnswerInv'
    BY <2>6, ZenonT(40) DEF Sleep, Wake, DeadlinePasses, MoveTo, store, setting, waking
  <2>7. ASSUME NEW c \in Callers, WakeLate(c)
        PROVE  AnswerInv'
    <3>1. CASE backend = "valkey"
          BY <2>7, <3>1, ZenonT(40) DEF WakeLate, MoveTo, store, setting, waking
    <3>2. CASE backend # "valkey"
      <4>1. /\ place' = [place EXCEPT ![c] = "done"]
            /\ \E a \in {"408", "500"} : reply' = [reply EXCEPT ![c] = a] /\ (c \notin readers => a = "408")
            BY <2>7, <3>2, Zenon DEF WakeLate, Return, MoveTo, ReadAgent, InAgent
      <4> QED  BY <2>7, <3>2, <4>1 DEF WakeLate, store, setting, waking
    <3> QED  BY <3>1, <3>2, Zenon
  <2>9. ASSUME NEW c \in Callers, ClaimInterrupted(c)
        PROVE  AnswerInv'
    BY <2>9, Zenon DEF ClaimInterrupted, Return, MoveTo, ReadAgent, InAgent, store, setting, waking
  <2>8. CASE UNCHANGED callsVars
    BY <2>8 DEF callsVars
  <2> QED  BY <2>1, <2>2, <2>3, <2>4, <2>5, <2>6, <2>7, <2>8, <2>9, ZenonT(40) DEF CallsNext, CallStep
<1> QED  BY <1>1, <1>2, PTL DEF CallsSpec, AnswerInv
=============================================================================
