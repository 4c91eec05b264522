------------------------- MODULE PostgresStoreProofs -------------------------
(***************************************************************************)
(* Proofs about PostgresStore, for every set of agents, workers and tokens *)
(* and both settings of DeferEvents.                                       *)
(***************************************************************************)
EXTENDS PostgresStore, TLAPS

USE AnonymousAssumption, TokenAssumption, VersionAssumption, DeferAssumption

-----------------------------------------------------------------------------
(* What the row writers do *)

\* The row Out inserts is free and has no trace of a lease.
LEMMA NewRowFacts ==
    ASSUME NEW t \in Tokens \cup {NoToken}
    PROVE  /\ NewRow(t) \in Row
           /\ NewRow(t).status = "NEW"
           /\ NewRow(t).owner = Anonymous
           /\ NewRow(t).lease_token = NoToken
           /\ NewRow(t).lease_until = "NULL"
           /\ NewRow(t).completed_by = NoToken
           /\ NewRow(t).origin = t
           /\ NewRow(t).version = 1
BY DEF NewRow, NoRow, Row, Status

\* The row a claim writes carries the claim's owner and token.
LEMMA ClaimedRowFacts ==
    ASSUME NEW r \in Row, NEW w \in Workers \cup {Anonymous}, NEW t \in Tokens
    PROVE  /\ ClaimedRow(r, w, t) \in Row
           /\ ClaimedRow(r, w, t).status = "IN_PROGRESS"
           /\ ClaimedRow(r, w, t).owner = w
           /\ ClaimedRow(r, w, t).lease_token = t
           /\ ClaimedRow(r, w, t).lease_until = "AHEAD"
           /\ ClaimedRow(r, w, t).completed_by = r.completed_by
           /\ ClaimedRow(r, w, t).origin = r.origin
           /\ ClaimedRow(r, w, t).version = r.version + 1
BY DEF ClaimedRow, Row, Status

\* The row a completion writes has no lease and names the token it had.
LEMMA CompletedRowFacts ==
    ASSUME NEW r \in Row
    PROVE  /\ CompletedRow(r) \in Row
           /\ CompletedRow(r).status = "COMPLETED"
           /\ CompletedRow(r).owner = Anonymous
           /\ CompletedRow(r).lease_token = NoToken
           /\ CompletedRow(r).lease_until = "NULL"
           /\ CompletedRow(r).completed_by = r.lease_token
           /\ CompletedRow(r).origin = r.origin
           /\ CompletedRow(r).version = r.version + 1
BY DEF CompletedRow, Unleased, Row, Status

\* The row a release or a reap writes is free and has no lease.
LEMMA ReleasedRowFacts ==
    ASSUME NEW r \in Row
    PROVE  /\ ReleasedRow(r) \in Row
           /\ ReleasedRow(r).status = "NEW"
           /\ ReleasedRow(r).owner = Anonymous
           /\ ReleasedRow(r).lease_token = NoToken
           /\ ReleasedRow(r).lease_until = "NULL"
           /\ ReleasedRow(r).completed_by = r.completed_by
           /\ ReleasedRow(r).origin = r.origin
           /\ ReleasedRow(r).version = r.version + 1
BY DEF ReleasedRow, Unleased, Row, Status

\* An event takes its version from the row its transaction leaves.
LEMMA EventOfType ==
    ASSUME NEW a \in Agents, row'[a] \in Row, NEW type \in EventType
    PROVE  EventOf(a, type) \in Event
BY DEF EventOf, Event, Row

\* Logging in the transaction and deferring keep both event sets well typed.
LEMMA RecordType ==
    ASSUME events \subseteq Event, unlogged \subseteq Event,
           NEW E \in SUBSET Event, Record(E)
    PROVE  events' \subseteq Event /\ unlogged' \subseteq Event
BY DEF Record
-----------------------------------------------------------------------------
(* Type correctness *)

\* Every action of the store keeps the types.
LEMMA TypeInductive == TypeOK /\ [Next]_vars => TypeOK'
<1> SUFFICES ASSUME TypeOK, [Next]_vars PROVE TypeOK'
  OBVIOUS
<1> USE DEF TypeOK
<1>1. ASSUME NEW a \in Agents, Out(a) PROVE TypeOK'
  <2>1. row' \in [Agents -> Row]
    BY <1>1, NewRowFacts DEF Out
  <2>2. {EventOf(a, "CREATED")} \in SUBSET Event
    BY <2>1, EventOfType DEF EventType
  <2> QED BY <1>1, <2>1, <2>2, RecordType DEF Out
<1>2. ASSUME NEW w \in Workers \cup {Anonymous}, NEW a \in Agents, NEW t \in Tokens,
             Take(w, a, t)
      PROVE  TypeOK'
  <2>1. row' \in [Agents -> Row]
    BY <1>2, ClaimedRowFacts DEF Take
  <2>2. {EventOf(a, "CLAIMED")} \in SUBSET Event
    BY <2>1, EventOfType DEF EventType
  <2>3. held' \in [Workers -> SUBSET (Agents \X Tokens)]
    BY <1>2 DEF Take, GiveLeases
  <2> QED BY <1>2, <2>1, <2>2, <2>3, RecordType DEF Take
<1>3. ASSUME NEW w \in Workers \cup {Anonymous}, NEW S \in SUBSET Agents,
             NEW tok \in [S -> Tokens], BatchTake(w, S, tok)
      PROVE  TypeOK'
  <2>1. row' \in [Agents -> Row]
    BY <1>3, ClaimedRowFacts DEF BatchTake
  <2>2. {EventOf(a, "CLAIMED") : a \in S} \in SUBSET Event
    BY <2>1, EventOfType DEF EventType
  <2>3. {<<a, tok[a]>> : a \in S} \in SUBSET (Agents \X Tokens)
    OBVIOUS
  <2>4. held' \in [Workers -> SUBSET (Agents \X Tokens)]
    BY <1>3, <2>3 DEF BatchTake, GiveLeases
  <2> QED BY <1>3, <2>1, <2>2, <2>4 DEF BatchTake
<1>4. ASSUME NEW a \in Agents, UpdateAndGet(a) PROVE TypeOK'
  <2>1. row' \in [Agents -> Row]
    BY <1>4 DEF UpdateAndGet, Row
  <2>2. {EventOf(a, "UPDATED")} \in SUBSET Event
    BY <2>1, EventOfType DEF EventType
  <2> QED BY <1>4, <2>1, <2>2, RecordType DEF UpdateAndGet
<1>5. ASSUME NEW w \in Workers, NEW a \in Agents, NEW t \in Tokens,
             CompleteAndGet(w, a, t)
      PROVE  TypeOK'
  <2>1. row' \in [Agents -> Row]
    BY <1>5, CompletedRowFacts DEF CompleteAndGet
  <2>2. {EventOf(a, "COMPLETED")} \in SUBSET Event
    BY <2>1, EventOfType DEF EventType
  <2> QED BY <1>5, <2>1, <2>2, RecordType DEF CompleteAndGet, Acknowledge
<1>6. ASSUME NEW a \in Agents, NEW t \in Tokens, CompleteAgain(a, t)
      PROVE  TypeOK'
  BY <1>6 DEF CompleteAgain, Acknowledge
<1>7. ASSUME NEW w \in Workers, NEW a \in Agents, NEW t \in Tokens,
             NEW O \in SUBSET (Agents \ {a}), CompleteAndOut(w, a, t, O)
      PROVE  TypeOK'
  <2>1. row' \in [Agents -> Row]
    <3>1. CompletedRow(row[a]) \in Row
      BY CompletedRowFacts
    <3>2. NewRow(t) \in Row
      BY NewRowFacts
    <3> QED BY <1>7, <3>1, <3>2 DEF CompleteAndOut
  <2>2. {EventOf(a, "COMPLETED")} \cup {EventOf(b, "CREATED") : b \in O}
          \in SUBSET Event
    BY <2>1, EventOfType DEF EventType
  <2> QED BY <1>7, <2>1, <2>2, RecordType DEF CompleteAndOut, Acknowledge
<1>8. ASSUME NEW w \in Workers, NEW a \in Agents, NEW t \in Tokens,
             ReleaseAndGet(w, a, t)
      PROVE  TypeOK'
  <2>1. row' \in [Agents -> Row]
    BY <1>8, ReleasedRowFacts DEF ReleaseAndGet
  <2>2. {EventOf(a, "RELEASED")} \in SUBSET Event
    BY <2>1, EventOfType DEF EventType
  <2> QED BY <1>8, <2>1, <2>2, RecordType DEF ReleaseAndGet
<1>9. ASSUME NEW w \in Workers, NEW a \in Agents, NEW t \in Tokens,
             RenewLease(w, a, t)
      PROVE  TypeOK'
  BY <1>9 DEF RenewLease, Row
<1>10. ASSUME NEW S \in SUBSET Agents, ReapExpiredLeases(S) PROVE TypeOK'
  <2>1. row' \in [Agents -> Row]
    BY <1>10, ReleasedRowFacts DEF ReapExpiredLeases
  <2>2. {EventOf(a, "RELEASED") : a \in S} \in SUBSET Event
    BY <2>1, EventOfType DEF EventType
  <2> QED BY <1>10, <2>1, <2>2 DEF ReapExpiredLeases
<1>11. ASSUME NEW E \in SUBSET unlogged, FlushEvents(E) PROVE TypeOK'
  BY <1>11 DEF FlushEvents
<1>12. ASSUME NEW a \in Agents, LeaseLapses(a) PROVE TypeOK'
  BY <1>12 DEF LeaseLapses, Row
<1>13. ASSUME NEW a \in Agents, TTLPasses(a) PROVE TypeOK'
  <2>1. [row[a] EXCEPT !.live = FALSE] \in Row
    BY ZenonT(40) DEF Row
  <2> QED BY <1>13, <2>1 DEF TTLPasses
<1>14. ASSUME NEW w \in Workers, WorkerCrash(w) PROVE TypeOK'
  BY <1>14 DEF WorkerCrash
<1>15. CASE UNCHANGED vars
  BY <1>15 DEF vars
<1> QED
  BY <1>1, <1>2, <1>3, <1>4, <1>5, <1>6, <1>7, <1>8, <1>9, <1>10, <1>11,
     <1>12, <1>13, <1>14, <1>15, Zenon DEF Next, LeaseCall

\* Every reachable state is well typed: no operation of the lifecycle writes
\* a column, a lease list or an event outside its type.
THEOREM TypeCorrect == Spec => []TypeOK
<1>1. Init => TypeOK
  BY DEF Init, TypeOK, NoRow, Row, Status
<1> QED BY <1>1, TypeInductive, PTL DEF Spec

-----------------------------------------------------------------------------
(* The shapes of a step.  Seen from the leases, the operations do only five *)
(* things; the proofs below go by these cases instead of by the operations. *)

\* The columns a lease consists of, and what they leave behind.
Same(b) ==
    /\ row'[b].status = row[b].status
    /\ row'[b].owner = row[b].owner
    /\ row'[b].lease_token = row[b].lease_token
    /\ row'[b].completed_by = row[b].completed_by
    /\ row'[b].origin = row[b].origin

Quiet ==
    /\ \A b \in Agents : Same(b)
    /\ \A b \in Agents : row'[b].version >= row[b].version
    /\ \A b \in Agents : row[b].status = "NONE" => row'[b].version = row[b].version
    /\ \A b \in Agents : row'[b].lease_until = "NULL" <=> row[b].lease_until = "NULL"
    /\ issued' = issued
    /\ \A w \in Workers : held'[w] \subseteq held[w]
    /\ \A b \in Agents, t \in Tokens :
         <<b, t>> \in acked' =>
           \/ <<b, t>> \in acked
           \/ row[b].status = "COMPLETED" /\ row[b].completed_by = t

Inserts(a) ==
    /\ row[a].status = "NONE"
    /\ row'[a] = NewRow(NoToken)
    /\ \A b \in Agents \ {a} : row'[b] = row[b]
    /\ issued' = issued /\ held' = held /\ acked' = acked

Claims(w, S, tok) ==
    /\ \A a \in S : /\ row[a].status = "NEW"
                    /\ tok[a] \notin issued
                    /\ row'[a] = ClaimedRow(row[a], w, tok[a])
    /\ \A a, b \in S : tok[a] = tok[b] => a = b
    /\ \A b \in Agents \ S : row'[b] = row[b]
    /\ issued' = issued \cup {tok[a] : a \in S}
    /\ \A v \in Workers, b \in Agents, t \in Tokens :
         <<b, t>> \in held'[v] =>
           <<b, t>> \in held[v] \/ (v = w /\ b \in S /\ t = tok[b])
    /\ acked' = acked

Completes(a, t, O) ==
    /\ row[a].status = "IN_PROGRESS"
    /\ row[a].lease_token = t
    /\ row'[a] = CompletedRow(row[a])
    /\ \A b \in O : row[b].status = "NONE" /\ row'[b] = NewRow(t)
    /\ \A b \in Agents \ (O \cup {a}) : row'[b] = row[b]
    /\ issued' = issued /\ held' = held
    /\ acked' \subseteq acked \cup {<<a, t>>}

GivesBack(S) ==
    /\ \A a \in S : row[a].status = "IN_PROGRESS" /\ row'[a] = ReleasedRow(row[a])
    /\ \A b \in Agents \ S : row'[b] = row[b]
    /\ issued' = issued /\ held' = held /\ acked' = acked

Shape ==
    \/ Quiet
    \/ \E a \in Agents : Inserts(a)
    \/ \E w \in Workers \cup {Anonymous} : \E S \in SUBSET Agents :
         \E tok \in [S -> Tokens] : Claims(w, S, tok)
    \/ \E a \in Agents, t \in Tokens : \E O \in SUBSET (Agents \ {a}) :
         Completes(a, t, O)
    \/ \E S \in SUBSET Agents : GivesBack(S)

\* Every step of the store has one of the five shapes.
LEMMA StepShape == TypeOK /\ LeaseMatchesStatus /\ [Next]_vars => Shape
<1> SUFFICES ASSUME TypeOK, LeaseMatchesStatus, [Next]_vars PROVE Shape
  OBVIOUS
<1> USE DEF TypeOK
<1>1. ASSUME NEW a \in Agents, Out(a) PROVE Shape
  BY <1>1 DEF Out, Shape, Inserts
<1>2. ASSUME NEW w \in Workers \cup {Anonymous}, NEW a \in Agents, NEW t \in Tokens,
             Take(w, a, t)
      PROVE  Shape
  <2> DEFINE tok == [x \in {a} |-> t]
  <2>1. Claims(w, {a}, tok)
    <3>1. \A v \in Workers, b \in Agents, u \in Tokens :
            <<b, u>> \in held'[v] => <<b, u>> \in held[v] \/ (v = w /\ b = a /\ u = t)
      BY <1>2 DEF Take, GiveLeases
    <3> QED BY <1>2, <3>1 DEF Take, Claimable, Claims
  <2>2. tok \in [{a} -> Tokens] /\ {a} \in SUBSET Agents
    OBVIOUS
  <2> QED BY <2>1, <2>2, Zenon DEF Shape
<1>3. ASSUME NEW w \in Workers \cup {Anonymous}, NEW S \in SUBSET Agents,
             NEW tok \in [S -> Tokens], BatchTake(w, S, tok)
      PROVE  Shape
  <2>1. Claims(w, S, tok)
    <3>1. \A v \in Workers, b \in Agents, u \in Tokens :
            <<b, u>> \in held'[v] =>
              <<b, u>> \in held[v] \/ (v = w /\ b \in S /\ u = tok[b])
      BY <1>3 DEF BatchTake, GiveLeases
    <3> QED BY <1>3, <3>1 DEF BatchTake, Claimable, Claims
  <2> QED BY <2>1 DEF Shape
<1>4. ASSUME NEW a \in Agents, UpdateAndGet(a) PROVE Shape
  <2>1. Quiet
    BY <1>4 DEF UpdateAndGet, Quiet, Same, Row
  <2> QED BY <2>1 DEF Shape
<1>5. ASSUME NEW w \in Workers, NEW a \in Agents, NEW t \in Tokens,
             CompleteAndGet(w, a, t)
      PROVE  Shape
  <2>1. Completes(a, t, {})
    BY <1>5 DEF CompleteAndGet, HoldsLease, Acknowledge, Completes
  <2> QED BY <2>1 DEF Shape
<1>6. ASSUME NEW a \in Agents, NEW t \in Tokens, CompleteAgain(a, t) PROVE Shape
  <2>1. Quiet
    BY <1>6 DEF CompleteAgain, AlreadyCompleted, Acknowledge, Quiet, Same, Row
  <2> QED BY <2>1 DEF Shape
<1>7. ASSUME NEW w \in Workers, NEW a \in Agents, NEW t \in Tokens,
             NEW O \in SUBSET (Agents \ {a}), CompleteAndOut(w, a, t, O)
      PROVE  Shape
  <2>1. Completes(a, t, O)
    BY <1>7 DEF CompleteAndOut, HoldsLease, Acknowledge, Completes
  <2> QED BY <2>1 DEF Shape
<1>8. ASSUME NEW w \in Workers, NEW a \in Agents, NEW t \in Tokens,
             ReleaseAndGet(w, a, t)
      PROVE  Shape
  <2>1. GivesBack({a})
    BY <1>8 DEF ReleaseAndGet, HoldsLease, GivesBack
  <2> QED BY <2>1 DEF Shape
<1>9. ASSUME NEW w \in Workers, NEW a \in Agents, NEW t \in Tokens,
             RenewLease(w, a, t)
      PROVE  Shape
  <2>1. Quiet
    <3>1. row[a].lease_until # "NULL"
      BY <1>9 DEF RenewLease, HoldsLease, LeaseMatchesStatus
    <3> QED BY <1>9, <3>1 DEF RenewLease, Quiet, Same, Row
  <2> QED BY <2>1 DEF Shape
<1>10. ASSUME NEW S \in SUBSET Agents, ReapExpiredLeases(S) PROVE Shape
  <2>1. GivesBack(S)
    BY <1>10 DEF ReapExpiredLeases, GivesBack
  <2> QED BY <2>1 DEF Shape
<1>11. ASSUME NEW E \in SUBSET unlogged, FlushEvents(E) PROVE Shape
  BY <1>11 DEF FlushEvents, Shape, Quiet, Same, Row
<1>12. ASSUME NEW a \in Agents, LeaseLapses(a) PROVE Shape
  <2>1. Quiet
    BY <1>12 DEF LeaseLapses, Quiet, Same, Row
  <2> QED BY <2>1 DEF Shape
<1>13. ASSUME NEW a \in Agents, TTLPasses(a) PROVE Shape
  <2>1. Quiet
    BY <1>13 DEF TTLPasses, Quiet, Same, Row
  <2> QED BY <2>1 DEF Shape
<1>14. ASSUME NEW w \in Workers, WorkerCrash(w) PROVE Shape
  BY <1>14 DEF WorkerCrash, Shape, Quiet, Same, Row
<1>15. CASE UNCHANGED vars
  BY <1>15 DEF vars, Shape, Quiet, Same, Row
<1> QED
  BY <1>1, <1>2, <1>3, <1>4, <1>5, <1>6, <1>7, <1>8, <1>9, <1>10, <1>11,
     <1>12, <1>13, <1>14, <1>15, Zenon DEF Next, LeaseCall

-----------------------------------------------------------------------------
(* Fencing and exactly-once completion *)

\* Every token in use was generated before, so a new one is new everywhere.
TokensIssued ==
    /\ \A a \in Agents : /\ row[a].lease_token \in issued \cup {NoToken}
                         /\ row[a].completed_by \in issued \cup {NoToken}
    /\ \A w \in Workers, a \in Agents, t \in Tokens :
         <<a, t>> \in held[w] => t \in issued

\* No two rows share a token, as the lease they have or the one that
\* completed them.
TokensApart ==
    \A a, b \in Agents :
      /\ row[a].lease_token = row[b].lease_token /\ row[a].lease_token # NoToken
           => a = b
      /\ row[a].completed_by = row[b].completed_by /\ row[a].completed_by # NoToken
           => a = b
      /\ row[a].lease_token = row[b].completed_by => row[a].lease_token = NoToken

\* An identifier without a row has no past.
AbsentRowsAreBlank ==
    \A a \in Agents :
      row[a].status = "NONE" => row[a].origin = NoToken /\ row[a].version = 0

IInv ==
    /\ TypeOK
    /\ AbsentRowsAreBlank
    /\ LeaseMatchesStatus
    /\ TokensIssued
    /\ TokensApart
    /\ TokenNamesOneClaim
    /\ ConfirmedIsTheCompletion
    /\ OutputsHaveACompletion

\* An empty database satisfies the inductive invariant.
LEMMA IInvInit == Init => IInv
<1> SUFFICES ASSUME Init PROVE IInv
  OBVIOUS
<1>1. TypeOK
  BY DEF Init, TypeOK, NoRow, Row, Status
<1> QED
  BY <1>1 DEF Init, IInv, NoRow, LeaseMatchesStatus, TokensIssued, TokensApart,
     TokenNamesOneClaim, ConfirmedIsTheCompletion, OutputsHaveACompletion,
     AbsentRowsAreBlank

\* A step that leaves lease columns alone (update, renew, time, retry, crash,
\* flush) keeps the invariant.
LEMMA QuietKeepsIInv ==
    ASSUME IInv, TypeOK', Quiet PROVE IInv'
<1> USE DEF IInv
<1>0. /\ \A b \in Agents : Same(b)
      /\ issued' = issued
      /\ \A w \in Workers : held'[w] \subseteq held[w]
  BY Zenon DEF Quiet
<1>1. LeaseMatchesStatus'
  <2>1. \A b \in Agents : row'[b].lease_until = "NULL" <=> row[b].lease_until = "NULL"
    BY DEF Quiet
  <2> QED BY <1>0, <2>1 DEF LeaseMatchesStatus, Same
<1>2. TokensIssued'
  BY <1>0, Zenon DEF TokensIssued, Same
<1>3. TokensApart'
  BY <1>0 DEF TokensApart, Same
<1>4. TokenNamesOneClaim'
  BY <1>0 DEF TokenNamesOneClaim, Same
<1>5. ConfirmedIsTheCompletion'
  BY <1>0 DEF ConfirmedIsTheCompletion, Quiet, Same
<1>6. OutputsHaveACompletion'
  BY <1>0 DEF OutputsHaveACompletion, Same
<1>7. AbsentRowsAreBlank'
  BY <1>0, ZenonT(40) DEF AbsentRowsAreBlank, Quiet, Same
<1> QED BY <1>1, <1>2, <1>3, <1>4, <1>5, <1>6, <1>7, Zenon

\* Out keeps it: the new row carries no token.
LEMMA InsertKeepsIInv ==
    ASSUME IInv, TypeOK', NEW a \in Agents, Inserts(a) PROVE IInv'
<1> USE DEF Inserts, IInv
<1>0. /\ row'[a].status = "NEW" /\ row'[a].owner = Anonymous
      /\ row'[a].lease_token = NoToken /\ row'[a].lease_until = "NULL"
      /\ row'[a].completed_by = NoToken /\ row'[a].origin = NoToken
      /\ row[a].completed_by = NoToken
  <2>1. row'[a] = NewRow(NoToken) /\ row[a].completed_by = NoToken
    BY Zenon DEF LeaseMatchesStatus
  <2> QED BY <2>1, NewRowFacts
<1>1. LeaseMatchesStatus'
  BY <1>0 DEF LeaseMatchesStatus
<1>2. TokensIssued'
  BY <1>0, Zenon DEF TokensIssued
<1>3. TokensApart'
  BY <1>0 DEF TokensApart
<1>4. TokenNamesOneClaim'
  BY <1>0 DEF TokenNamesOneClaim
<1>5. ConfirmedIsTheCompletion'
  BY <1>0 DEF ConfirmedIsTheCompletion
<1>6. OutputsHaveACompletion'
  BY <1>0 DEF OutputsHaveACompletion
<1>7. AbsentRowsAreBlank'
  BY <1>0 DEF AbsentRowsAreBlank
<1> QED BY <1>1, <1>2, <1>3, <1>4, <1>5, <1>6, <1>7, Zenon

\* A take or a batch take keeps it: its tokens were never issued before.
LEMMA ClaimKeepsIInv ==
    ASSUME IInv, TypeOK', NEW w \in Workers \cup {Anonymous}, NEW S \in SUBSET Agents,
           NEW tok \in [S -> Tokens], Claims(w, S, tok)
    PROVE  IInv'
<1> USE DEF Claims, IInv
<1>0. \A a \in S : /\ row'[a].status = "IN_PROGRESS" /\ row'[a].owner = w
                   /\ row'[a].lease_token = tok[a] /\ row'[a].lease_until = "AHEAD"
                   /\ row'[a].completed_by = row[a].completed_by
                   /\ row'[a].origin = row[a].origin
                   /\ row[a].lease_token = NoToken
                   /\ row[a].completed_by = NoToken
  <2> SUFFICES ASSUME NEW a \in S
               PROVE  /\ row'[a].status = "IN_PROGRESS" /\ row'[a].owner = w
                      /\ row'[a].lease_token = tok[a] /\ row'[a].lease_until = "AHEAD"
                      /\ row'[a].completed_by = row[a].completed_by
                      /\ row'[a].origin = row[a].origin
                      /\ row[a].lease_token = NoToken
                      /\ row[a].completed_by = NoToken
    BY Zenon
  <2>1. row[a] \in Row /\ row'[a] = ClaimedRow(row[a], w, tok[a])
    BY Zenon DEF TypeOK
  <2>2. row[a].lease_token = NoToken /\ row[a].completed_by = NoToken
    BY Zenon DEF LeaseMatchesStatus
  <2> QED BY <2>1, <2>2, ClaimedRowFacts
<1>1. LeaseMatchesStatus'
  BY <1>0 DEF LeaseMatchesStatus
<1>2. TokensIssued'
  BY <1>0 DEF TokensIssued
<1>3. TokensApart'
  BY <1>0 DEF TokensApart, TokensIssued
<1>4. TokenNamesOneClaim'
  BY <1>0 DEF TokenNamesOneClaim, TokensIssued
<1>5. ConfirmedIsTheCompletion'
  BY <1>0 DEF ConfirmedIsTheCompletion
<1>6. OutputsHaveACompletion'
  BY <1>0 DEF OutputsHaveACompletion
<1>7. AbsentRowsAreBlank'
  BY <1>0 DEF AbsentRowsAreBlank
<1> QED BY <1>1, <1>2, <1>3, <1>4, <1>5, <1>6, <1>7, Zenon

\* A completion, with or without outputs, keeps it: the current token moves
\* from the lease to the completion.
LEMMA CompleteKeepsIInv ==
    ASSUME IInv, TypeOK', NEW a \in Agents, NEW t \in Tokens,
           NEW O \in SUBSET (Agents \ {a}), Completes(a, t, O)
    PROVE  IInv'
<1> USE DEF Completes, IInv
<1>0. /\ row'[a].status = "COMPLETED" /\ row'[a].owner = Anonymous
      /\ row'[a].lease_token = NoToken /\ row'[a].lease_until = "NULL"
      /\ row'[a].completed_by = t /\ row'[a].origin = row[a].origin
      /\ row[a].completed_by = NoToken
  <2>1. row[a] \in Row /\ row'[a] = CompletedRow(row[a]) /\ row[a].lease_token = t
    BY Zenon DEF TypeOK
  <2>2. row[a].completed_by = NoToken
    BY Zenon DEF LeaseMatchesStatus
  <2> QED BY <2>1, <2>2, CompletedRowFacts
<1>00. \A b \in O : /\ row'[b].status = "NEW" /\ row'[b].owner = Anonymous
                    /\ row'[b].lease_token = NoToken /\ row'[b].lease_until = "NULL"
                    /\ row'[b].completed_by = NoToken /\ row'[b].origin = t
                    /\ row[b].completed_by = NoToken
  <2>1. \A b \in O : row'[b] = NewRow(t) /\ row[b].completed_by = NoToken
    BY Zenon DEF LeaseMatchesStatus
  <2> QED BY <2>1, NewRowFacts
<1>1. LeaseMatchesStatus'
  BY <1>0, <1>00 DEF LeaseMatchesStatus
<1>2. TokensIssued'
  BY <1>0, <1>00, ZenonT(40) DEF TokensIssued
<1>3. TokensApart'
  BY <1>0, <1>00 DEF TokensApart
<1>4. TokenNamesOneClaim'
  BY <1>0, <1>00 DEF TokenNamesOneClaim
<1>5. ConfirmedIsTheCompletion'
  BY <1>0, <1>00 DEF ConfirmedIsTheCompletion
<1>6. OutputsHaveACompletion'
  BY <1>0, <1>00 DEF OutputsHaveACompletion
<1>7. AbsentRowsAreBlank'
  BY <1>0, <1>00 DEF AbsentRowsAreBlank
<1> QED BY <1>1, <1>2, <1>3, <1>4, <1>5, <1>6, <1>7, Zenon

\* A release or a tick of the reaper keeps it: tokens only disappear.
LEMMA GiveBackKeepsIInv ==
    ASSUME IInv, TypeOK', NEW S \in SUBSET Agents, GivesBack(S) PROVE IInv'
<1> USE DEF GivesBack, IInv
<1>0. \A a \in S : /\ row'[a].status = "NEW" /\ row'[a].owner = Anonymous
                   /\ row'[a].lease_token = NoToken /\ row'[a].lease_until = "NULL"
                   /\ row'[a].completed_by = row[a].completed_by
                   /\ row'[a].origin = row[a].origin
                   /\ row[a].completed_by = NoToken
  <2>1. \A a \in S : row[a] \in Row /\ row'[a] = ReleasedRow(row[a])
    BY DEF TypeOK
  <2>2. \A a \in S : row[a].completed_by = NoToken
    BY Zenon DEF LeaseMatchesStatus
  <2> QED BY <2>1, <2>2, ReleasedRowFacts
<1>1. LeaseMatchesStatus'
  BY <1>0 DEF LeaseMatchesStatus
<1>2. TokensIssued'
  BY <1>0, Zenon DEF TokensIssued
<1>3. TokensApart'
  BY <1>0 DEF TokensApart
<1>4. TokenNamesOneClaim'
  BY <1>0 DEF TokenNamesOneClaim
<1>5. ConfirmedIsTheCompletion'
  BY <1>0 DEF ConfirmedIsTheCompletion
<1>6. OutputsHaveACompletion'
  BY <1>0 DEF OutputsHaveACompletion
<1>7. AbsentRowsAreBlank'
  BY <1>0 DEF AbsentRowsAreBlank
<1> QED BY <1>1, <1>2, <1>3, <1>4, <1>5, <1>6, <1>7, Zenon

\* The invariant is inductive: every step has one of the shapes above.
LEMMA IInvInductive == IInv /\ [Next]_vars => IInv'
<1> SUFFICES ASSUME IInv, [Next]_vars PROVE IInv'
  OBVIOUS
<1>1. TypeOK'
  BY TypeInductive DEF IInv
<1>2. Shape
  BY StepShape DEF IInv
<1> QED
  BY <1>1, <1>2, QuietKeepsIInv, InsertKeepsIInv, ClaimKeepsIInv,
     CompleteKeepsIInv, GiveBackKeepsIInv DEF Shape

\* The inductive invariant holds in every reachable state.
THEOREM IInvHolds == Spec => []IInv
BY IInvInit, IInvInductive, PTL DEF Spec

\* Every way out of a claim takes the whole lease with it.
THEOREM LeasesMatchStatus == Spec => []LeaseMatchesStatus
BY IInvHolds, PTL DEF IInv

\* Fencing: a lease token acts for one agent and one worker, in every state
\* that retries, lost replies, crashes and the reaper can lead to.
THEOREM Fencing == Spec => []TokenNamesOneClaim
BY IInvHolds, PTL DEF IInv

\* Exactly-once completion: what a worker was told is completed is completed,
\* by the claim it was told about and by no other.
THEOREM ExactlyOnceCompletion == Spec => []ConfirmedIsTheCompletion
BY IInvHolds, PTL DEF IInv

\* No output agent without the completion that put it out.
THEOREM OutputsAreCaused == Spec => []OutputsHaveACompletion
BY IInvHolds, PTL DEF IInv

-----------------------------------------------------------------------------
(* What a step may never do *)

\* Columns of the rows a shape writes, for the three proofs that follow.
LEMMA WrittenRows ==
    ASSUME TypeOK
    PROVE  /\ \A a \in Agents, w \in Workers \cup {Anonymous}, t \in Tokens :
                /\ ClaimedRow(row[a], w, t).lease_token = t
                /\ ClaimedRow(row[a], w, t).origin = row[a].origin
                /\ ClaimedRow(row[a], w, t).version = row[a].version + 1
           /\ \A a \in Agents :
                /\ CompletedRow(row[a]).lease_token = NoToken
                /\ CompletedRow(row[a]).origin = row[a].origin
                /\ CompletedRow(row[a]).version = row[a].version + 1
                /\ ReleasedRow(row[a]).lease_token = NoToken
                /\ ReleasedRow(row[a]).origin = row[a].origin
                /\ ReleasedRow(row[a]).version = row[a].version + 1
           /\ \A t \in Tokens \cup {NoToken} :
                /\ NewRow(t).lease_token = NoToken
                /\ NewRow(t).origin = t
                /\ NewRow(t).version = 1
BY DEF TypeOK, ClaimedRow, CompletedRow, ReleasedRow, Unleased, NewRow, NoRow, Row

\* A token that stopped being current never becomes current again.
THEOREM NoRevival == Spec => TokensAreNotRevived
<1> DEFINE A == \A a \in Agents :
                  row'[a].lease_token \in
                    {row[a].lease_token, NoToken} \cup (Tokens \ issued)
<1>1. IInv /\ [Next]_vars => [A]_vars
  <2> SUFFICES ASSUME IInv, [Next]_vars, NEW a \in Agents
               PROVE  row'[a].lease_token \in
                        {row[a].lease_token, NoToken} \cup (Tokens \ issued)
    BY Zenon
  <2>1. CASE Quiet
    BY <2>1, Zenon DEF Quiet, Same
  <2>2. ASSUME NEW b \in Agents, Inserts(b)
        PROVE  row'[a].lease_token \in {row[a].lease_token, NoToken}
    BY <2>2, WrittenRows DEF Inserts, IInv
  <2>3. ASSUME NEW w \in Workers \cup {Anonymous}, NEW S \in SUBSET Agents,
               NEW tok \in [S -> Tokens], Claims(w, S, tok)
        PROVE  row'[a].lease_token \in {row[a].lease_token} \cup (Tokens \ issued)
    BY <2>3, WrittenRows DEF Claims, IInv
  <2>4. ASSUME NEW b \in Agents, NEW t \in Tokens,
               NEW O \in SUBSET (Agents \ {b}), Completes(b, t, O)
        PROVE  row'[a].lease_token \in {row[a].lease_token, NoToken}
    BY <2>4, WrittenRows DEF Completes, IInv
  <2>5. ASSUME NEW S \in SUBSET Agents, GivesBack(S)
        PROVE  row'[a].lease_token \in {row[a].lease_token, NoToken}
    BY <2>5, WrittenRows DEF GivesBack, IInv
  <2>6. Shape
    BY StepShape DEF IInv
  <2> QED BY <2>1, <2>2, <2>3, <2>4, <2>5, <2>6, Zenon DEF Shape
<1> QED BY <1>1, IInvHolds, PTL DEF Spec, TokensAreNotRevived

\* A completion is final, and a retried CompleteAndOut adds no outputs.
THEOREM Finality == Spec => CompletionIsFinal
<1> DEFINE Final(a) == row[a].status = "COMPLETED" =>
             /\ row'[a].status = "COMPLETED"
             /\ row'[a].completed_by = row[a].completed_by
             /\ \A b \in Agents : row'[b].origin = row[a].completed_by
                                     <=> row[b].origin = row[a].completed_by
<1>1. IInv /\ [Next]_vars => [\A a \in Agents : Final(a)]_vars
  <2> SUFFICES ASSUME IInv, [Next]_vars, NEW a \in Agents,
                      row[a].status = "COMPLETED"
               PROVE  /\ row'[a].status = "COMPLETED"
                      /\ row'[a].completed_by = row[a].completed_by
                      /\ \A b \in Agents : row'[b].origin = row[a].completed_by
                                             <=> row[b].origin = row[a].completed_by
    OBVIOUS
  <2> DEFINE Goal == /\ row'[a].status = "COMPLETED"
                     /\ row'[a].completed_by = row[a].completed_by
                     /\ \A b \in Agents : row'[b].origin = row[a].completed_by
                                            <=> row[b].origin = row[a].completed_by
  <2>0. row[a].completed_by # NoToken
    BY Zenon DEF IInv, LeaseMatchesStatus
  <2>1. CASE Quiet
    BY <2>1, Zenon DEF Quiet, Same
  <2>2. ASSUME NEW b \in Agents, Inserts(b) PROVE Goal
    <3>1. row[b].origin = NoToken /\ row'[b].origin = NoToken
      BY <2>2, WrittenRows, Zenon DEF Inserts, IInv, AbsentRowsAreBlank
    <3> QED BY <2>0, <2>2, <3>1, Zenon DEF Inserts
  <2>3. ASSUME NEW w \in Workers \cup {Anonymous}, NEW S \in SUBSET Agents,
               NEW tok \in [S -> Tokens], Claims(w, S, tok)
        PROVE  Goal
    <3>1. \A b \in Agents : row'[b].origin = row[b].origin
      BY <2>3, WrittenRows DEF Claims, IInv
    <3>2. a \notin S
      BY <2>3, Zenon DEF Claims
    <3> QED BY <2>3, <3>1, <3>2, Zenon DEF Claims
  <2>4. ASSUME NEW c \in Agents, NEW t \in Tokens,
               NEW O \in SUBSET (Agents \ {c}), Completes(c, t, O)
        PROVE  Goal
    <3>1. row[a].completed_by # t
      BY <2>0, <2>4, Zenon DEF Completes, IInv, TokensApart
    <3>2. \A b \in O : row[b].origin = NoToken /\ row'[b].origin = t
      BY <2>4, WrittenRows, Zenon DEF Completes, IInv, AbsentRowsAreBlank
    <3>3. \A b \in Agents \ O : row'[b].origin = row[b].origin
      BY <2>4, WrittenRows DEF Completes, IInv
    <3>4. row'[a] = row[a]
      BY <2>4, Zenon DEF Completes
    <3> QED BY <2>0, <3>1, <3>2, <3>3, <3>4, Zenon
  <2>5. ASSUME NEW S \in SUBSET Agents, GivesBack(S) PROVE Goal
    <3>1. \A b \in Agents : row'[b].origin = row[b].origin
      BY <2>5, WrittenRows, Zenon DEF GivesBack, IInv
    <3>2. a \notin S
      BY <2>5, Zenon DEF GivesBack
    <3> QED BY <2>5, <3>1, <3>2, Zenon DEF GivesBack
  <2>6. Shape
    BY StepShape DEF IInv
  <2> QED BY <2>1, <2>2, <2>3, <2>4, <2>5, <2>6, Zenon DEF Shape
<1> QED BY <1>1, IInvHolds, PTL DEF Spec, CompletionIsFinal

\* The version only grows, and grows with every change of status or lease.
THEOREM Versions == Spec => VersionTracksChange
<1> DEFINE Tracks(a) ==
             /\ row'[a].version >= row[a].version
             /\ <<row'[a].status, row'[a].owner, row'[a].lease_token>>
                  # <<row[a].status, row[a].owner, row[a].lease_token>>
                => row'[a].version > row[a].version
<1>1. IInv /\ [Next]_vars => [\A a \in Agents : Tracks(a)]_vars
  <2> SUFFICES ASSUME IInv, [Next]_vars, NEW a \in Agents PROVE Tracks(a)
    BY Zenon
  <2>0. row[a].version \in Nat /\ row'[a].version \in Nat
    <3>1. TypeOK /\ TypeOK'
      BY TypeInductive, Zenon DEF IInv
    <3> QED BY <3>1 DEF TypeOK, Row
  <2>1. CASE Quiet
    BY <2>0, <2>1, Zenon DEF Quiet, Same
  <2>2. row'[a] = row[a] \/ row'[a].version > row[a].version => Tracks(a)
    BY <2>0
  <2>3. ASSUME NEW b \in Agents, Inserts(b)
        PROVE  row'[a] = row[a] \/ row'[a].version > row[a].version
    BY <2>3, WrittenRows DEF Inserts, IInv, AbsentRowsAreBlank
  <2>4. ASSUME NEW w \in Workers \cup {Anonymous}, NEW S \in SUBSET Agents,
               NEW tok \in [S -> Tokens], Claims(w, S, tok)
        PROVE  row'[a] = row[a] \/ row'[a].version > row[a].version
    BY <2>0, <2>4, WrittenRows DEF Claims, IInv
  <2>5. ASSUME NEW c \in Agents, NEW t \in Tokens,
               NEW O \in SUBSET (Agents \ {c}), Completes(c, t, O)
        PROVE  row'[a] = row[a] \/ row'[a].version > row[a].version
    BY <2>0, <2>5, WrittenRows DEF Completes, IInv, AbsentRowsAreBlank
  <2>6. ASSUME NEW S \in SUBSET Agents, GivesBack(S)
        PROVE  row'[a] = row[a] \/ row'[a].version > row[a].version
    BY <2>0, <2>6, WrittenRows DEF GivesBack, IInv
  <2>7. Shape
    BY StepShape DEF IInv
  <2> HIDE DEF Tracks
  <2> QED BY <2>1, <2>2, <2>3, <2>4, <2>5, <2>6, <2>7, Zenon DEF Shape
<1> QED BY <1>1, IInvHolds, PTL DEF Spec, VersionTracksChange

-----------------------------------------------------------------------------
(* Events.  Seen from the log, a step moves some agents on by one version *)
(* each and describes each of them at most once.                          *)

Advances(S) ==
    /\ \A a \in S : row'[a].version = row[a].version + 1
    /\ \A a \in Agents \ S : /\ row'[a].version = row[a].version
                             /\ row'[a].status = row[a].status

Describes(S, type) ==
    \A e \in events' \cup unlogged' :
      \/ e \in events \cup unlogged
      \/ \E a \in S : e = [agent |-> a, type |-> type[a], version |-> row'[a].version]

\* With deferred events nothing is said of the log; otherwise only a claim may
\* go unlogged, the one of BatchTake.
Logs(S) ==
    /\ events \subseteq events'
    /\ \A a \in S :
         \/ DeferEvents
         \/ \E e \in events' : e.agent = a /\ e.version = row'[a].version
         \/ row[a].status = "NEW" /\ row'[a].status = "IN_PROGRESS"

LogStep ==
    \E S \in SUBSET Agents : \E type \in [S -> EventType] :
      Advances(S) /\ Describes(S, type) /\ Logs(S)

\* A step that touches neither versions and statuses nor new events.
LEMMA IdleLogStep ==
    ASSUME \A a \in Agents : /\ row'[a].version = row[a].version
                             /\ row'[a].status = row[a].status,
           events' \cup unlogged' \subseteq events \cup unlogged,
           events \subseteq events'
    PROVE  LogStep
<1> DEFINE type == [a \in {} |-> "CREATED"]
<1>1. type \in [{} -> EventType] /\ {} \in SUBSET Agents
  BY Zenon
<1>2. Advances({}) /\ Describes({}, type) /\ Logs({})
  BY Zenon DEF Advances, Describes, Logs
<1> QED BY <1>1, <1>2, Zenon DEF LogStep

\* Recording one event for each agent of S, in the transaction or deferred.
LEMMA RecordLogs ==
    ASSUME NEW S \in SUBSET Agents, NEW type \in [S -> EventType], Advances(S),
           Record({EventOf(a, type[a]) : a \in S})
    PROVE  LogStep
<1>1. Describes(S, type)
  BY DEF Describes, Record, EventOf
<1>2. Logs(S)
  <2>1. CASE DeferEvents
    BY <2>1, Zenon DEF Logs, Record
  <2>2. CASE ~DeferEvents
    <3>1. events' = events \cup {EventOf(a, type[a]) : a \in S}
      BY <2>2, Zenon DEF Record
    <3>2. \A a \in S : /\ EventOf(a, type[a]) \in events'
                       /\ EventOf(a, type[a]).agent = a
                       /\ EventOf(a, type[a]).version = row'[a].version
      BY <3>1 DEF EventOf
    <3> QED BY <3>1, <3>2 DEF Logs
  <2> QED BY <2>1, <2>2
<1> QED BY <1>1, <1>2 DEF LogStep

\* The same for the operations on one agent.
LEMMA RecordOneLogs ==
    ASSUME NEW a \in Agents, NEW ty \in EventType, Advances({a}),
           Record({EventOf(a, ty)})
    PROVE  LogStep
<1> DEFINE type == [x \in {a} |-> ty]
<1>1. type \in [{a} -> EventType] /\ {a} \in SUBSET Agents
  OBVIOUS
<1>2. {EventOf(x, type[x]) : x \in {a}} = {EventOf(a, ty)}
  OBVIOUS
<1> QED BY <1>1, <1>2, RecordLogs, Zenon

\* Every step of the store is a step of the log.
LEMMA LogStepShape == IInv /\ [Next]_vars => LogStep
<1> SUFFICES ASSUME IInv, [Next]_vars PROVE LogStep
  BY Zenon
<1>0. /\ row \in [Agents -> Row]
      /\ \A a \in Agents : row[a] \in Row /\ row[a].version \in Nat
      /\ \A a \in Agents : row[a].status = "NONE" => row[a].version = 0
  BY DEF IInv, TypeOK, AbsentRowsAreBlank, Row
<1>1. ASSUME NEW a \in Agents, Out(a) PROVE LogStep
  <2>1. row'[a] = NewRow(NoToken) /\ \A b \in Agents \ {a} : row'[b] = row[b]
    BY <1>0, <1>1, Zenon DEF Out
  <2>2. Advances({a})
    BY <1>0, <1>1, <2>1, NewRowFacts DEF Out, Advances
  <2> QED BY <1>1, <2>2, RecordOneLogs, Zenon DEF Out, EventType
<1>2. ASSUME NEW w \in Workers \cup {Anonymous}, NEW a \in Agents, NEW t \in Tokens,
             Take(w, a, t)
      PROVE  LogStep
  <2>1. row'[a] = ClaimedRow(row[a], w, t) /\ \A b \in Agents \ {a} : row'[b] = row[b]
    BY <1>0, <1>2, Zenon DEF Take
  <2>2. Advances({a})
    BY <1>0, <2>1, ClaimedRowFacts DEF Advances
  <2> QED BY <1>2, <2>2, RecordOneLogs, Zenon DEF Take, EventType
<1>3. ASSUME NEW w \in Workers \cup {Anonymous}, NEW S \in SUBSET Agents,
             NEW tok \in [S -> Tokens], BatchTake(w, S, tok)
      PROVE  LogStep
  <2> DEFINE type == [a \in S |-> "CLAIMED"]
  <2>1. /\ \A a \in S : row'[a] = ClaimedRow(row[a], w, tok[a])
        /\ \A b \in Agents \ S : row'[b] = row[b]
        /\ \A a \in S : row[a].status = "NEW"
    BY <1>3 DEF BatchTake, Claimable
  <2>2. \A a \in S : /\ row'[a].status = "IN_PROGRESS"
                     /\ row'[a].version = row[a].version + 1
    <3> SUFFICES ASSUME NEW a \in S
                 PROVE  /\ row'[a].status = "IN_PROGRESS"
                        /\ row'[a].version = row[a].version + 1
      OBVIOUS
    <3>1. row[a] \in Row /\ tok[a] \in Tokens
      BY <1>0, Zenon
    <3> QED BY <2>1, <3>1, ClaimedRowFacts
  <2>3. Advances(S)
    BY <2>1, <2>2, Zenon DEF Advances
  <2>4. Describes(S, type)
    BY <1>3, Zenon DEF BatchTake, Describes, EventOf
  <2>5. Logs(S)
    BY <1>3, <2>1, <2>2, Zenon DEF BatchTake, Logs
  <2>6. type \in [S -> EventType]
    BY DEF EventType
  <2> QED BY <2>3, <2>4, <2>5, <2>6, Zenon DEF LogStep
<1>4. ASSUME NEW a \in Agents, UpdateAndGet(a) PROVE LogStep
  <2>1. Advances({a})
    BY <1>0, <1>4 DEF UpdateAndGet, Advances, Row
  <2> QED BY <1>4, <2>1, RecordOneLogs, Zenon DEF UpdateAndGet, EventType
<1>5. ASSUME NEW w \in Workers, NEW a \in Agents, NEW t \in Tokens,
             CompleteAndGet(w, a, t)
      PROVE  LogStep
  <2>1. row'[a] = CompletedRow(row[a]) /\ \A b \in Agents \ {a} : row'[b] = row[b]
    BY <1>0, <1>5, Zenon DEF CompleteAndGet
  <2>2. Advances({a})
    BY <1>0, <2>1, CompletedRowFacts DEF Advances
  <2> QED BY <1>5, <2>2, RecordOneLogs, Zenon DEF CompleteAndGet, EventType
<1>6. ASSUME NEW a \in Agents, NEW t \in Tokens, CompleteAgain(a, t) PROVE LogStep
  BY <1>6, IdleLogStep DEF CompleteAgain
<1>7. ASSUME NEW w \in Workers, NEW a \in Agents, NEW t \in Tokens,
             NEW O \in SUBSET (Agents \ {a}), CompleteAndOut(w, a, t, O)
      PROVE  LogStep
  <2> DEFINE S == O \cup {a}
             type == [b \in S |-> IF b = a THEN "COMPLETED" ELSE "CREATED"]
  <2>1. /\ row'[a] = CompletedRow(row[a])
        /\ \A b \in O : row[b].status = "NONE" /\ row'[b] = NewRow(t)
        /\ \A b \in Agents \ S : row'[b] = row[b]
    BY <1>7, Zenon DEF CompleteAndOut
  <2>2. \A b \in O : row'[b].version = 1 /\ row[b].version = 0
    BY <1>0, <2>1, NewRowFacts
  <2>3. row'[a].version = row[a].version + 1
    BY <1>0, <2>1, CompletedRowFacts, Zenon
  <2>4. Advances(S)
    BY <2>1, <2>2, <2>3 DEF Advances
  <2>5. type \in [S -> EventType] /\ S \in SUBSET Agents
    BY DEF EventType
  <2>6. {EventOf(b, type[b]) : b \in S}
          = {EventOf(a, "COMPLETED")} \cup {EventOf(b, "CREATED") : b \in O}
    BY Zenon
  <2>7. Record({EventOf(b, type[b]) : b \in S})
    BY <1>7, <2>6, Zenon DEF CompleteAndOut
  <2> HIDE DEF type, S
  <2> QED BY <2>4, <2>5, <2>7, RecordLogs, Zenon
<1>8. ASSUME NEW w \in Workers, NEW a \in Agents, NEW t \in Tokens,
             ReleaseAndGet(w, a, t)
      PROVE  LogStep
  <2>1. row'[a] = ReleasedRow(row[a]) /\ \A b \in Agents \ {a} : row'[b] = row[b]
    BY <1>0, <1>8, Zenon DEF ReleaseAndGet
  <2>2. Advances({a})
    BY <1>0, <2>1, ReleasedRowFacts DEF Advances
  <2> QED BY <1>8, <2>2, RecordOneLogs, Zenon DEF ReleaseAndGet, EventType
<1>9. ASSUME NEW w \in Workers, NEW a \in Agents, NEW t \in Tokens,
             RenewLease(w, a, t)
      PROVE  LogStep
  <2>1. \A b \in Agents : row'[b].version = row[b].version /\ row'[b].status = row[b].status
    BY <1>0, <1>9 DEF RenewLease, Row
  <2> QED BY <1>9, <2>1, IdleLogStep DEF RenewLease
<1>10. ASSUME NEW S \in SUBSET Agents, ReapExpiredLeases(S) PROVE LogStep
  <2> DEFINE type == [a \in S |-> "RELEASED"]
  <2>1. /\ \A a \in S : row'[a] = ReleasedRow(row[a])
        /\ \A b \in Agents \ S : row'[b] = row[b]
    BY <1>10, Zenon DEF ReapExpiredLeases
  <2>2. Advances(S)
    BY <1>0, <2>1, ReleasedRowFacts DEF Advances
  <2>3. Describes(S, type)
    BY <1>10, Zenon DEF ReapExpiredLeases, Describes, EventOf
  <2>4. \A a \in S : /\ EventOf(a, "RELEASED") \in events'
                     /\ EventOf(a, "RELEASED").agent = a
                     /\ EventOf(a, "RELEASED").version = row'[a].version
    BY <1>10, Zenon DEF ReapExpiredLeases, EventOf
  <2>5. Logs(S)
    BY <1>10, <2>4, Zenon DEF ReapExpiredLeases, Logs
  <2>6. type \in [S -> EventType]
    BY DEF EventType
  <2> QED BY <2>2, <2>3, <2>5, <2>6 DEF LogStep
<1>11. ASSUME NEW E \in SUBSET unlogged, FlushEvents(E) PROVE LogStep
  BY <1>11, IdleLogStep, Zenon DEF FlushEvents
<1>12. ASSUME NEW a \in Agents, LeaseLapses(a) PROVE LogStep
  <2>1. \A b \in Agents : row'[b].version = row[b].version /\ row'[b].status = row[b].status
    BY <1>0, <1>12 DEF LeaseLapses, Row
  <2> QED BY <1>12, <2>1, IdleLogStep DEF LeaseLapses
<1>13. ASSUME NEW a \in Agents, TTLPasses(a) PROVE LogStep
  <2>1. \A b \in Agents : row'[b].version = row[b].version /\ row'[b].status = row[b].status
    BY <1>0, <1>13 DEF TTLPasses, Row
  <2> QED BY <1>13, <2>1, IdleLogStep DEF TTLPasses
<1>14. ASSUME NEW w \in Workers, WorkerCrash(w) PROVE LogStep
  BY <1>14, IdleLogStep, Zenon DEF WorkerCrash
<1>15. CASE UNCHANGED vars
  BY <1>15, IdleLogStep DEF vars
<1> QED
  BY <1>1, <1>2, <1>3, <1>4, <1>5, <1>6, <1>7, <1>8, <1>9, <1>10, <1>11,
     <1>12, <1>13, <1>14, <1>15, Zenon DEF Next, LeaseCall

\* A row that exists has been written at least once.
RowsHaveVersions ==
    \A a \in Agents : row[a].status # "NONE" => row[a].version >= 1

Logged(a, v) == \E e \in events : e.agent = a /\ e.version = v

\* LogMissesOnlyClaims without its sets of versions.
NoGaps(a) ==
    /\ row[a].version >= 1 => Logged(a, 1)
    /\ \A v \in 1 .. row[a].version :
         v + 1 <= row[a].version => Logged(a, v) \/ Logged(a, v + 1)
    /\ row[a].version >= 1 /\ ~Logged(a, row[a].version)
         => row[a].status = "IN_PROGRESS"

LogInv ==
    /\ IInv
    /\ RowsHaveVersions
    /\ OneEventPerVersion
    /\ ~DeferEvents => \A a \in Agents : NoGaps(a)

\* A step leaves the events of each version single: what it adds is ahead of
\* everything that was there.
LEMMA EventsStaySingle ==
    ASSUME IInv, IInv', OneEventPerVersion, LogStep
    PROVE  OneEventPerVersion'
<1>0. /\ \A a \in Agents : row[a].version \in Nat /\ row'[a].version \in Nat
      /\ events \cup unlogged \subseteq Event
  BY Zenon DEF IInv, TypeOK, Row
<1>1. PICK S \in SUBSET Agents : \E type \in [S -> EventType] :
        Advances(S) /\ Describes(S, type)
  BY DEF LogStep
<1>2. PICK type \in [S -> EventType] : Advances(S) /\ Describes(S, type)
  BY <1>1, Zenon
<1> DEFINE New(e) == /\ e.agent \in S
                     /\ e = [agent |-> e.agent, type |-> type[e.agent],
                              version |-> row'[e.agent].version]
<1>3. \A e \in events' \cup unlogged' : e \in events \cup unlogged \/ New(e)
  BY <1>2 DEF Describes
<1>4. \A e \in events \cup unlogged :
        /\ e.agent \in Agents /\ e.version \in Nat
        /\ e.version >= 1 /\ e.version <= row[e.agent].version
  BY <1>0 DEF OneEventPerVersion, Event
<1>5. \A a \in S : row'[a].version = row[a].version + 1
  BY <1>2, Zenon DEF Advances
<1>6. \A a \in Agents : row'[a].version >= row[a].version
  BY <1>0, <1>2 DEF Advances
<1>7. \A e : New(e) => e.version = row'[e.agent].version
  OBVIOUS
<1>8. \A e \in events' \cup unlogged' : e.version \in 1 .. row'[e.agent].version
  BY <1>0, <1>3, <1>4, <1>5, <1>6, <1>7
<1>9. ASSUME NEW e \in events' \cup unlogged', NEW f \in events' \cup unlogged',
             e.agent = f.agent, e.version = f.version
      PROVE  e = f
  <2>1. CASE e \in events \cup unlogged /\ f \in events \cup unlogged
    BY <1>9, <2>1, Zenon DEF OneEventPerVersion
  <2>2. CASE New(e) /\ New(f)
    BY <1>9, <2>2, Zenon
  <2>3. ASSUME NEW g \in events \cup unlogged, NEW h, New(h),
               g.agent = h.agent, g.version = h.version
        PROVE  FALSE
    <3>1. h.version = row[h.agent].version + 1
      BY <2>3, <1>5, <1>7, Zenon
    <3>2. g.version <= row[h.agent].version /\ row[h.agent].version \in Nat
      BY <2>3, <1>0, <1>4
    <3> QED BY <2>3, <3>1, <3>2
  <2> QED BY <1>3, <1>9, <2>1, <2>2, <2>3, Zenon
<1> QED BY <1>8, <1>9, Zenon DEF OneEventPerVersion

\* A step leaves no two versions in a row unlogged: a claim that goes unlogged
\* starts from a NEW row, whose newest version is logged.
LEMMA LogStaysDense ==
    ASSUME IInv, IInv', RowsHaveVersions, ~DeferEvents, LogStep,
           \A a \in Agents : NoGaps(a)
    PROVE  \A a \in Agents : NoGaps(a)'
<1> SUFFICES ASSUME NEW a \in Agents PROVE NoGaps(a)'
  BY Zenon
<1>0. row[a].version \in Nat /\ row'[a].version \in Nat
  BY DEF IInv, TypeOK, Row
<1>1. PICK S \in SUBSET Agents : Advances(S) /\ Logs(S)
  BY Zenon DEF LogStep
<1>2. \A v : Logged(a, v) => Logged(a, v)'
  BY <1>1 DEF Logs, Logged
<1>3. NoGaps(a)
  BY Zenon
<1>4. CASE a \notin S
  <2>1. row'[a].version = row[a].version /\ row'[a].status = row[a].status
    BY <1>1, <1>4, Zenon DEF Advances
  <2> HIDE DEF Logged
  <2> QED BY <1>0, <1>2, <1>3, <2>1, Zenon DEF NoGaps
<1>5. CASE a \in S
  <2>1. row'[a].version = row[a].version + 1
    BY <1>1, <1>5, Zenon DEF Advances
  <2>2. CASE \E e \in events' : e.agent = a /\ e.version = row'[a].version
    <3>1. \A v : v = row'[a].version => Logged(a, v)'
      BY <2>2, Zenon DEF Logged
    <3>2. Logged(a, row[a].version)'
      BY <2>2, Zenon DEF Logged
    <3>3. (row[a].version >= 1 => Logged(a, 1))'
      BY <1>0, <1>2, <1>3, <2>1, <3>1 DEF NoGaps
    <3>4. ASSUME NEW v \in 1 .. row'[a].version, v + 1 <= row'[a].version
          PROVE  Logged(a, v)' \/ Logged(a, v + 1)'
      <4>1. v + 1 = row'[a].version => Logged(a, v + 1)'
        BY <3>1, Zenon
      <4>2. v + 1 # row'[a].version => v \in 1 .. row[a].version /\ v + 1 <= row[a].version
        BY <1>0, <2>1, <3>4
      <4>3. v + 1 # row'[a].version => Logged(a, v) \/ Logged(a, v + 1)
        BY <1>3, <4>2, Zenon DEF NoGaps
      <4> QED BY <1>2, <4>1, <4>3, Zenon
    <3> QED BY <3>2, <3>3, <3>4 DEF NoGaps
  <2>3. CASE row[a].status = "NEW" /\ row'[a].status = "IN_PROGRESS"
    <3>1. row[a].version >= 1
      BY <2>3, Zenon DEF RowsHaveVersions
    <3>2. Logged(a, row[a].version)
      BY <1>3, <2>3, <3>1, Zenon DEF NoGaps
    <3> QED BY <1>0, <1>2, <1>3, <2>1, <2>3, <3>1, <3>2 DEF NoGaps
  <2> QED BY <1>1, <1>5, <2>2, <2>3, Zenon DEF Logs
<1> QED BY <1>4, <1>5

\* The log is right from the start and stays right.
THEOREM LogInvHolds == Spec => []LogInv
<1>1. Init => LogInv
  <2> SUFFICES ASSUME Init PROVE LogInv
    OBVIOUS
  <2>1. \A a \in Agents : row[a].version = 0 /\ row[a].status = "NONE"
    BY Zenon DEF Init, NoRow
  <2>2. OneEventPerVersion
    BY Zenon DEF Init, OneEventPerVersion
  <2>3. \A a \in Agents : NoGaps(a)
    <3> SUFFICES ASSUME NEW a \in Agents PROVE NoGaps(a)
      BY Zenon
    <3>1. row[a].version = 0 /\ ~(0 >= 1)
      BY <2>1
    <3>2. \A v \in 1 .. row[a].version : FALSE
      BY <3>1
    <3> QED BY <3>1, <3>2 DEF NoGaps
  <2> QED BY <2>1, <2>2, <2>3, IInvInit DEF LogInv, RowsHaveVersions
<1>2. LogInv /\ [Next]_vars => LogInv'
  <2> SUFFICES ASSUME LogInv, [Next]_vars PROVE LogInv'
    OBVIOUS
  <2>1. IInv /\ IInv' /\ LogStep
    BY IInvInductive, LogStepShape, Zenon DEF LogInv
  <2>2. RowsHaveVersions'
    <3>0. \A a \in Agents : row[a].version \in Nat
      BY <2>1 DEF IInv, TypeOK, Row
    <3>1. PICK S \in SUBSET Agents : Advances(S)
      BY <2>1 DEF LogStep
    <3> QED BY <3>0, <3>1 DEF LogInv, RowsHaveVersions, Advances
  <2>3. OneEventPerVersion'
    BY <2>1, EventsStaySingle DEF LogInv
  <2>4. ~DeferEvents => \A a \in Agents : NoGaps(a)'
    BY <2>1, LogStaysDense DEF LogInv
  <2> QED BY <2>1, <2>2, <2>3, <2>4 DEF LogInv
<1> QED BY <1>1, <1>2, PTL DEF Spec

\* No version has two events, written or owed, and none is ahead of its row.
THEOREM SingleEvents == Spec => []OneEventPerVersion
<1>1. LogInv => OneEventPerVersion
  BY Zenon DEF LogInv
<1> QED BY <1>1, LogInvHolds, PTL

\* Without deferred events the log lacks only claims made by BatchTake.
THEOREM DenseLog == Spec => []LogMissesOnlyClaims
<1>1. LogInv => LogMissesOnlyClaims
  <2> SUFFICES ASSUME LogInv, ~DeferEvents, NEW a \in Agents
               PROVE  LET logged == {e.version : e \in {f \in events : f.agent = a}}
                          missing == (1 .. row[a].version) \ logged
                      IN  /\ 1 \notin missing
                          /\ \A v \in missing : v + 1 \notin missing
                          /\ row[a].version \in missing => row[a].status = "IN_PROGRESS"
    BY DEF LogMissesOnlyClaims
  <2> DEFINE logged == {e.version : e \in {f \in events : f.agent = a}}
  <2>1. \A v : v \in logged <=> Logged(a, v)
    BY Zenon DEF Logged
  <2>2. row[a].version \in Nat
    BY DEF LogInv, IInv, TypeOK, Row
  <2>3. NoGaps(a)
    BY Zenon DEF LogInv
  <2> HIDE DEF logged
  <2>4. /\ 1 \notin (1 .. row[a].version) \ logged
        /\ \A v \in (1 .. row[a].version) \ logged :
             v + 1 \notin (1 .. row[a].version) \ logged
        /\ row[a].version \in (1 .. row[a].version) \ logged
             => row[a].status = "IN_PROGRESS"
    BY <2>1, <2>2, <2>3 DEF NoGaps
  <2> QED BY <2>4, Zenon DEF logged
<1> QED BY <1>1, LogInvHolds, PTL

-----------------------------------------------------------------------------
(* The rows implement the contract *)

\* Every behaviour of the store is a behaviour of AgentSpace.
THEOREM Refinement == Spec => ImplementsContract
<1>1. Init => Contract!Init
  BY DEF Init, NoRow, Contract!Init
<1>2. IInv /\ [Next]_vars => [Contract!Next]_(Contract!vars)
  <2> SUFFICES ASSUME IInv, [Next]_vars
               PROVE  Contract!Next \/ UNCHANGED Contract!vars
    OBVIOUS
  <2>0. TypeOK /\ LeaseMatchesStatus
    BY DEF IInv
  <2>1. CASE Quiet
    BY <2>1, Zenon DEF Quiet, Same, Contract!vars
  <2>2. ASSUME NEW a \in Agents, Inserts(a) PROVE Contract!Publish({a})
    BY <2>0, <2>2, NewRowFacts DEF Inserts, LeaseMatchesStatus, Contract!Publish
  <2>3. ASSUME NEW w \in Workers \cup {Anonymous}, NEW S \in SUBSET Agents,
               NEW tok \in [S -> Tokens], Claims(w, S, tok)
        PROVE  Contract!Claim(S, tok)
    <3>1. \A a \in S : row[a] \in Row /\ row'[a] = ClaimedRow(row[a], w, tok[a])
      BY <2>0, <2>3, Zenon DEF TypeOK, Claims
    <3>2. \A a \in S : /\ row'[a].status = "IN_PROGRESS"
                       /\ row'[a].lease_token = tok[a]
                       /\ row'[a].completed_by = row[a].completed_by
      BY <3>1, ClaimedRowFacts
    <3> QED BY <2>3, <3>2 DEF Claims, Contract!Claim
  <2>4. ASSUME NEW a \in Agents, NEW t \in Tokens,
               NEW O \in SUBSET (Agents \ {a}), Completes(a, t, O)
        PROVE  Contract!Finish(a, O)
    <3>1. row[a] \in Row /\ row'[a] = CompletedRow(row[a]) /\ row[a].lease_token = t
      BY <2>0, <2>4, Zenon DEF TypeOK, Completes
    <3>2. /\ row'[a].status = "COMPLETED" /\ row'[a].lease_token = NoToken
          /\ row'[a].completed_by = row[a].lease_token
      BY <3>1, CompletedRowFacts, ZenonT(40)
    <3>3. \A b \in O : /\ row[b].status = "NONE"
                       /\ row[b].lease_token = NoToken
                       /\ row[b].completed_by = NoToken
                       /\ row'[b] = NewRow(t)
      BY <2>0, <2>4, Zenon DEF LeaseMatchesStatus, Completes
    <3>4. \A b \in O : /\ row'[b].status = "NEW"
                       /\ row'[b].lease_token = row[b].lease_token
                       /\ row'[b].completed_by = row[b].completed_by
      BY <3>3, NewRowFacts
    <3>5. \A b \in Agents \ (O \cup {a}) : row'[b] = row[b]
      BY <2>4, Zenon DEF Completes
    <3>6. [b \in Agents |-> row'[b].status]
            = [b \in Agents |-> IF b = a THEN "COMPLETED"
                                ELSE IF b \in O THEN "NEW" ELSE row[b].status]
      BY <3>2, <3>4, <3>5, Zenon
    <3>7. [b \in Agents |-> row'[b].lease_token]
            = [[b \in Agents |-> row[b].lease_token] EXCEPT ![a] = NoToken]
      BY <3>2, <3>4, <3>5, Zenon
    <3>8. [b \in Agents |-> row'[b].completed_by]
            = [[b \in Agents |-> row[b].completed_by] EXCEPT ![a] = row[a].lease_token]
      BY <3>2, <3>4, <3>5, Zenon
    <3> QED BY <2>4, <3>3, <3>6, <3>7, <3>8, Zenon DEF Completes, Contract!Finish
  <2>5. ASSUME NEW S \in SUBSET Agents, GivesBack(S) PROVE Contract!GiveBack(S)
    <3>1. \A a \in S : row[a] \in Row /\ row'[a] = ReleasedRow(row[a])
      BY <2>0, <2>5, Zenon DEF TypeOK, GivesBack
    <3>2. \A a \in S : /\ row'[a].status = "NEW"
                       /\ row'[a].lease_token = NoToken
                       /\ row'[a].completed_by = row[a].completed_by
      BY <3>1, ReleasedRowFacts
    <3> QED BY <2>5, <3>2, Zenon DEF GivesBack, Contract!GiveBack
  <2>6. Shape
    BY <2>0, StepShape
  <2> QED BY <2>1, <2>2, <2>3, <2>4, <2>5, <2>6, Zenon DEF Shape, Contract!Next
<1> QED BY <1>1, <1>2, IInvHolds, PTL DEF Spec, ImplementsContract, Contract!Spec
=============================================================================
