-------------------------- MODULE SQLiteStoreProofs --------------------------
(***************************************************************************)
(* Proofs about SQLiteStore, for every set of agents, workers and tokens:  *)
(* exactly-once completion, what subscribers are told, what the log holds, *)
(* and that the committed rows implement the contract of AgentSpace.       *)
(*                                                                         *)
(* Everything rests on what an open transaction is going to write: nobody  *)
(* else has the connection, so the committed rows it started from are      *)
(* still there when it commits.                                            *)
(***************************************************************************)
EXTENDS SQLiteStore, TLAPS

-----------------------------------------------------------------------------
(* The inductive invariant *)

\* What the transaction x, started on the committed rows, leaves behind.
Kept(x, S) == \A b \in Agents \ S : x.row[b] = row[b]

Plain(x) == x.leased = {} /\ x.done = {}

Inserts(x, a) ==
    /\ row[a].status = "NONE"
    /\ x.row[a] = upsertSQLiteAgent
    /\ Kept(x, {a}) /\ Plain(x)

Claims(x, w, a, t) ==
    /\ row[a].status = "NEW" /\ t \notin issued
    /\ x.row[a] = claimSQLiteAgent(row[a], w, t)
    /\ Kept(x, {a})
    /\ x.leased = {<<a, t>>} /\ x.done = {}

Updates(x, a) ==
    /\ row[a].status # "NONE"
    /\ x.row[a] = [row[a] EXCEPT !.version = @ + 1]
    /\ Kept(x, {a}) /\ Plain(x)

Completes(x, a, t, O) ==
    /\ row[a].status = "IN_PROGRESS" /\ row[a].lease_token = t
    /\ x.row[a] = Completed(row[a])
    /\ \A b \in O : row[b].status = "NONE" /\ x.row[b] = upsertSQLiteAgent
    /\ Kept(x, O \cup {a})
    /\ x.leased = {} /\ x.done = {<<a, t>>}

\* A renewal or the retry of a completion writes no row.
Repeats(x) ==
    /\ Kept(x, {})
    /\ \A p \in x.leased : p[2] \in issued
    /\ \A p \in x.done : row[p[1]].status = "COMPLETED" /\ row[p[1]].completed_by = p[2]

GivesBack(x, S) ==
    /\ \A a \in S : row[a].status = "IN_PROGRESS" /\ x.row[a] = Unleased(row[a], "NEW")
    /\ \A a \in x.todo : row[a].status = "IN_PROGRESS" /\ a \notin S
    /\ Kept(x, S) /\ Plain(x)

Shape(x) ==
    \/ \E a \in Agents : x.todo = {} /\ (Inserts(x, a) \/ Updates(x, a))
    \/ \E w \in Workers \cup {Anonymous}, a \in Agents, t \in Tokens :
         x.todo = {} /\ Claims(x, w, a, t)
    \/ \E a \in Agents, t \in Tokens : \E O \in SUBSET (Agents \ {a}) :
         x.todo = {} /\ Completes(x, a, t, O)
    \/ x.todo = {} /\ Repeats(x)
    \/ \E S \in SUBSET Agents : GivesBack(x, S)

\* What the transaction x logs of agent b: nothing if it leaves b as it was,
\* one event of the new version, or nothing although the reaper released b.
Logs(x, b) ==
    \/ /\ x.row[b].version = row[b].version /\ x.row[b].status = row[b].status
       /\ \A e \in x.events : e.agent # b
    \/ /\ x.row[b].version = row[b].version + 1
       /\ \E e \in x.events : /\ e.agent = b /\ e.version = x.row[b].version
                              /\ \A f \in x.events : f.agent = b => f = e
    \/ /\ x.row[b].version = row[b].version + 1
       /\ row[b].status = "IN_PROGRESS" /\ x.row[b].status = "NEW"
       /\ \A e \in x.events : e.agent # b

\* The open transaction.
Pending == tx # NoTx => Shape(tx) /\ \A b \in Agents : Logs(tx, b)

\* A row that was never inserted is blank, and every other one has a version.
BlankRows ==
    \A a \in Agents : IF row[a].status = "NONE" THEN row[a] = NoRow
                                                ELSE row[a].version >= 1

\* Only the lease of a claimed agent lapses.
LapsedAreClaimed == \A a \in lapsed : row[a].status = "IN_PROGRESS"

\* Leases that workers hold, or call with, come from committed claims.
HeldAreIssued == \A w \in Workers, p \in Agents \X Tokens : p \in held[w] => p[2] \in issued

CallsAreSound ==
    \A w \in Workers :
      call[w] # NoCall =>
        IF call[w].op = "update" THEN row[call[w].agent].status # "NONE"
                                 ELSE call[w].token \in issued

IInv ==
    /\ ConfirmedIsTheCompletion
    /\ BlankRows
    /\ LapsedAreClaimed
    /\ HeldAreIssued
    /\ CallsAreSound
    /\ Pending
-----------------------------------------------------------------------------
(* What the statements write *)

\* The row Out inserts is free, blank and of version 1.
LEMMA UpsertFacts ==
    /\ upsertSQLiteAgent \in Row
    /\ upsertSQLiteAgent.status = "NEW"
    /\ upsertSQLiteAgent.lease_token = NoToken
    /\ upsertSQLiteAgent.completed_by = NoToken
    /\ upsertSQLiteAgent.version = 1
BY Zenon DEF upsertSQLiteAgent, NoRow, Row

\* A blank row is a row without a lease, a completion or a version.
LEMMA NoRowFacts ==
    /\ NoRow \in Row
    /\ NoRow.status = "NONE" /\ NoRow.version = 0
    /\ NoRow.lease_token = NoToken /\ NoRow.completed_by = NoToken
BY DEF NoRow, Row

\* A claim writes its token and a new version.
LEMMA ClaimFacts ==
    ASSUME NEW r \in Row, NEW w \in Workers \cup {Anonymous}, NEW t \in Tokens
    PROVE  /\ claimSQLiteAgent(r, w, t) \in Row
           /\ claimSQLiteAgent(r, w, t).status = "IN_PROGRESS"
           /\ claimSQLiteAgent(r, w, t).lease_token = t
           /\ claimSQLiteAgent(r, w, t).completed_by = r.completed_by
           /\ claimSQLiteAgent(r, w, t).version = r.version + 1
BY DEF claimSQLiteAgent, Row

\* A release or a reap clears the lease and keeps who completed the agent.
LEMMA ReleaseFacts ==
    ASSUME NEW r \in Row
    PROVE  /\ Unleased(r, "NEW") \in Row
           /\ Unleased(r, "NEW").status = "NEW"
           /\ Unleased(r, "NEW").lease_token = NoToken
           /\ Unleased(r, "NEW").completed_by = r.completed_by
           /\ Unleased(r, "NEW").version = r.version + 1
BY DEF Unleased, Row

\* A completion clears the lease and records its token.
LEMMA CompletedFacts ==
    ASSUME NEW r \in Row
    PROVE  /\ Completed(r) \in Row
           /\ Completed(r).status = "COMPLETED"
           /\ Completed(r).lease_token = NoToken
           /\ Completed(r).completed_by = r.lease_token
           /\ Completed(r).version = r.version + 1
BY DEF Completed, Unleased, Row

\* An update writes a new version and nothing else the contract knows of.
LEMMA UpdatedFacts ==
    ASSUME NEW r \in Row
    PROVE  LET u == [r EXCEPT !.version = @ + 1]
           IN  /\ u \in Row
               /\ u.status = r.status
               /\ u.lease_token = r.lease_token
               /\ u.completed_by = r.completed_by
               /\ u.version = r.version + 1
BY DEF Row

\* A transaction that writes one row and its event logs what it does.
LEMMA OneRowLogs ==
    ASSUME TypeOK, NEW a \in Agents, NEW x, Kept(x, {a}),
           NEW e, e.agent = a, e.version = x.row[a].version, x.events = {e},
           x.row[a].version = row[a].version + 1
    PROVE  \A b \in Agents : Logs(x, b)
BY Zenon DEF Logs, Kept

-----------------------------------------------------------------------------
(* The invariant holds at the start, and every step keeps it *)

\* The invariant holds of an empty database.
LEMMA IInvInit == Init => IInv
<1> SUFFICES ASSUME Init PROVE IInv
  OBVIOUS
<1>1. TypeOK
  BY NoRowFacts DEF Init, TypeOK
<1>2. BlankRows
  BY NoRowFacts, Zenon DEF Init, BlankRows
<1> QED
  BY <1>1, <1>2 DEF Init, IInv, ConfirmedIsTheCompletion, LapsedAreClaimed,
                    HeldAreIssued, CallsAreSound, Pending

\* The shape of the open transaction depends on the rows and the tokens only.
LEMMA ShapeStays ==
    ASSUME NEW x, tx' = x, Shape(x), \A b \in Agents : Logs(x, b), UNCHANGED <<row, issued>>
    PROVE  Shape(tx)' /\ \A b \in Agents : Logs(tx, b)'
<1>1. \A a \in Agents : (Inserts(x, a) <=> Inserts(tx, a)') /\ (Updates(x, a) <=> Updates(tx, a)')
  BY DEF Inserts, Updates, Kept, Plain
<1>2. \A w, a, t : Claims(x, w, a, t) <=> Claims(tx, w, a, t)'
  BY DEF Claims, Kept
<1>3. \A a, t, O : Completes(x, a, t, O) <=> Completes(tx, a, t, O)'
  BY DEF Completes, Kept
<1>4. Repeats(x) <=> Repeats(tx)'
  BY DEF Repeats, Kept
<1>5. \A S : GivesBack(x, S) <=> GivesBack(tx, S)'
  BY DEF GivesBack, Kept, Plain
<1>6. \A b \in Agents : Logs(tx, b)'
  BY DEF Logs
<1> QED BY <1>1, <1>2, <1>3, <1>4, <1>5, <1>6 DEF Shape

\* Statements of a transaction: the committed state stays as it is.
LEMMA StatementsKeepIInv ==
    ASSUME IInv, NEW x \in Tx, tx' = x, Shape(x), \A b \in Agents : Logs(x, b),
           announced' \subseteq Event, UNCHANGED <<row, log, clients, call, clock>>
    PROVE  IInv'
<1> USE DEF clients, clock
<1>1. TypeOK'
  BY DEF IInv, ConfirmedIsTheCompletion, TypeOK
<1>2. Shape(tx)' /\ \A b \in Agents : Logs(tx, b)'
  BY ShapeStays
<1>4. /\ BlankRows' /\ LapsedAreClaimed' /\ HeldAreIssued' /\ CallsAreSound'
  BY DEF IInv, BlankRows, LapsedAreClaimed, HeldAreIssued, CallsAreSound
<1>5. ConfirmedIsTheCompletion'
  BY <1>1 DEF IInv, ConfirmedIsTheCompletion
<1> QED BY <1>2, <1>4, <1>5 DEF IInv, Pending

\* Begin with statements that have a shape.
LEMMA BeginKeepsIInv ==
    ASSUME IInv,
           NEW w \in Workers \cup {Anonymous}, NEW rows \in [Agents -> Row],
           NEW events \in SUBSET Event, NEW leased \in SUBSET (Agents \X Tokens),
           NEW done \in SUBSET (Agents \X Tokens),
           LET x == [by |-> w, row |-> rows, events |-> events, leased |-> leased,
                     done |-> done, todo |-> {}]
           IN  Shape(x) /\ \A b \in Agents : Logs(x, b),
           Begin(w, rows, events, leased, done), UNCHANGED <<clients, call>>
    PROVE  IInv'
<1> DEFINE x == [by |-> w, row |-> rows, events |-> events, leased |-> leased,
                 done |-> done, todo |-> {}]
<1>1. x \in Tx
  BY DEF Tx
<1>2. Shape(x) /\ \A b \in Agents : Logs(x, b)
  BY Zenon
<1>3. tx' = x /\ UNCHANGED <<row, log, clients, call, clock>> /\ announced' \subseteq Event
  BY DEF Begin, IInv, ConfirmedIsTheCompletion, TypeOK
<1> HIDE DEF x
<1> QED BY <1>1, <1>2, <1>3, StatementsKeepIInv
\* The operations that insert, claim, update and release one agent.
LEMMA OneRowKeepsIInv ==
    ASSUME IInv, NEW w \in Workers \cup {Anonymous}, NEW a \in Agents, NEW r \in Row,
           NEW type \in {"CREATED", "CLAIMED", "UPDATED", "COMPLETED", "RELEASED"},
           NEW leased \in SUBSET (Agents \X Tokens),
           NEW done \in SUBSET (Agents \X Tokens),
           r.version = row[a].version + 1,
           NEW rows, rows = [row EXCEPT ![a] = r],
           \A x : /\ x.row = rows /\ x.leased = leased
                  /\ x.done = done /\ x.todo = {}
                  => Shape(x),
           Begin(w, rows, {insertSQLiteEvent(a, type, rows, FALSE)}, leased, done),
           UNCHANGED <<clients, call>>
    PROVE  IInv'
<1> DEFINE e == insertSQLiteEvent(a, type, rows, FALSE)
           x == [by |-> w, row |-> rows, events |-> {e}, leased |-> leased,
                 done |-> done, todo |-> {}]
<1>1. TypeOK
  BY DEF IInv, ConfirmedIsTheCompletion
<1>2. rows \in [Agents -> Row]
  BY <1>1 DEF TypeOK
<1>3. e \in Event /\ e.agent = a /\ e.version = rows[a].version
  BY <1>2 DEF insertSQLiteEvent, Event, Row
<1> HIDE DEF e
<1>4. /\ x.row = rows /\ x.events = {e} /\ x.leased = leased
      /\ x.done = done /\ x.todo = {}
  OBVIOUS
<1>5. Shape(x)
  BY <1>4, Zenon
<1>6. Kept(x, {a}) /\ x.row[a].version = row[a].version + 1 /\ e.version = x.row[a].version
  BY <1>1, <1>3 DEF Kept, TypeOK
<1>7. \A b \in Agents : Logs(x, b)
  <2> HIDE DEF x
  <2> QED BY <1>1, <1>3, <1>4, <1>6, OneRowLogs, Zenon
<1>8. Begin(w, rows, {e}, leased, done)
  BY Zenon DEF e
<1> QED BY <1>2, <1>3, <1>5, <1>7, <1>8, BeginKeepsIInv, ZenonT(40)

\* Out keeps the invariant.
LEMMA OutKeepsIInv ==
    ASSUME IInv, NEW a \in Agents, Out(a)
    PROVE  IInv'
<1> DEFINE r == upsertSQLiteAgent
           rows == [row EXCEPT ![a] = r]
<1>1. row \in [Agents -> Row] /\ row[a] = NoRow
  BY DEF IInv, ConfirmedIsTheCompletion, TypeOK, BlankRows, Out
<1>2. r \in Row /\ r.version = row[a].version + 1
  BY <1>1, UpsertFacts, NoRowFacts
<1>3. \A x : /\ x.row = rows /\ x.leased = {}
             /\ x.done = {} /\ x.todo = {}
             => Shape(x)
  <2> SUFFICES ASSUME NEW x, x.row = rows, x.leased = {}, x.done = {}, x.todo = {}
               PROVE  Shape(x)
    OBVIOUS
  <2>1. Inserts(x, a)
    BY <1>1 DEF Out, Inserts, Kept, Plain
  <2> QED BY <2>1 DEF Shape
<1>4. Begin(Anonymous, rows, {insertSQLiteEvent(a, "CREATED", rows, FALSE)}, {}, {})
  BY DEF Out
<1>5. UNCHANGED <<clients, call>>
  BY DEF Out
<1>6. rows = [row EXCEPT ![a] = r]
  OBVIOUS
<1> HIDE DEF r, rows
<1> QED BY <1>2, <1>3, <1>4, <1>5, <1>6, OneRowKeepsIInv, Zenon

\* A claim keeps the invariant: it takes a NEW agent and a new token.
LEMMA TakeKeepsIInv ==
    ASSUME IInv, NEW w \in Workers \cup {Anonymous}, NEW a \in Agents, NEW t \in Tokens,
           Take(w, a, t)
    PROVE  IInv'
<1> DEFINE r == claimSQLiteAgent(row[a], w, t)
           rows == [row EXCEPT ![a] = r]
<1>1. row \in [Agents -> Row]
  BY DEF IInv, ConfirmedIsTheCompletion, TypeOK
<1>2. r \in Row /\ r.version = row[a].version + 1
  BY <1>1, ClaimFacts
<1>3. \A x : /\ x.row = rows /\ x.leased = {<<a, t>>}
             /\ x.done = {} /\ x.todo = {}
             => Shape(x)
  <2> SUFFICES ASSUME NEW x, x.row = rows, x.leased = {<<a, t>>}, x.done = {}, x.todo = {}
               PROVE  Shape(x)
    OBVIOUS
  <2>1. Claims(x, w, a, t)
    BY <1>1 DEF Take, Claimable, Claims, Kept
  <2> QED BY <2>1 DEF Shape
<1>4. Begin(w, rows, {insertSQLiteEvent(a, "CLAIMED", rows, FALSE)}, {<<a, t>>}, {})
  BY DEF Take
<1>5. UNCHANGED <<clients, call>>
  BY DEF Take
<1>6. rows = [row EXCEPT ![a] = r] /\ {<<a, t>>} \in SUBSET (Agents \X Tokens)
  OBVIOUS
<1> HIDE DEF r, rows
<1> QED BY <1>2, <1>3, <1>4, <1>5, <1>6, OneRowKeepsIInv, Zenon

\* The agent of a waiting call exists, and its lease was issued.
LEMMA CallFacts ==
    ASSUME IInv, NEW w \in Workers, call[w] # NoCall
    PROVE  /\ call[w] \in Call
           /\ row \in [Agents -> Row] /\ issued \subseteq Tokens
           /\ call[w].op = "update" => row[call[w].agent].status # "NONE"
           /\ call[w].op # "update" => call[w].token \in issued /\ call[w].token \in Tokens
BY DEF IInv, ConfirmedIsTheCompletion, TypeOK, CallsAreSound

\* Update keeps the invariant.
LEMMA UpdateKeepsIInv ==
    ASSUME IInv, NEW w \in Workers, call[w] # NoCall, UpdateAndGet(w, call[w])
    PROVE  IInv'
<1> DEFINE a == call[w].agent
           r == [row[a] EXCEPT !.version = @ + 1]
           rows == [row EXCEPT ![a] = r]
<1>1. a \in Agents /\ row \in [Agents -> Row] /\ row[a].status # "NONE"
  BY CallFacts DEF UpdateAndGet, Call
<1>2. r \in Row /\ r.version = row[a].version + 1
  BY <1>1, UpdatedFacts
<1>3. \A x : /\ x.row = rows /\ x.leased = {}
             /\ x.done = {} /\ x.todo = {}
             => Shape(x)
  <2> SUFFICES ASSUME NEW x, x.row = rows, x.leased = {}, x.done = {}, x.todo = {}
               PROVE  Shape(x)
    BY Zenon
  <2>1. Updates(x, a)
    BY <1>1, Zenon DEF Updates, Kept, Plain
  <2> QED BY <1>1, <2>1 DEF Shape
<1>4. Begin(w, rows, {insertSQLiteEvent(a, "UPDATED", rows, FALSE)}, {}, {})
  BY Zenon DEF UpdateAndGet
<1>5. UNCHANGED <<clients, call>>
  BY DEF UpdateAndGet
<1>6. rows = [row EXCEPT ![a] = r]
  OBVIOUS
<1> HIDE DEF r, a, rows
<1> QED BY <1>1, <1>2, <1>3, <1>4, <1>5, <1>6, OneRowKeepsIInv, Zenon

\* Release keeps the invariant: the completed agent is never the one released.
LEMMA ReleaseKeepsIInv ==
    ASSUME IInv, NEW w \in Workers, call[w] # NoCall, ReleaseAndGet(w, call[w])
    PROVE  IInv'
<1> DEFINE a == call[w].agent
           r == Unleased(row[a], "NEW")
           rows == [row EXCEPT ![a] = r]
<1>1. a \in Agents /\ row \in [Agents -> Row] /\ row[a].status = "IN_PROGRESS"
  BY CallFacts DEF ReleaseAndGet, HoldsLease, Call
<1>2. r \in Row /\ r.version = row[a].version + 1
  BY <1>1, ReleaseFacts
<1>3. \A x : /\ x.row = rows /\ x.leased = {}
             /\ x.done = {} /\ x.todo = {}
             => Shape(x)
  <2> SUFFICES ASSUME NEW x, x.row = rows, x.leased = {}, x.done = {}, x.todo = {}
               PROVE  Shape(x)
    OBVIOUS
  <2>1. GivesBack(x, {a})
    BY <1>1 DEF GivesBack, Kept, Plain
  <2> QED BY <1>1, <2>1 DEF Shape
<1>4. Begin(w, rows, {insertSQLiteEvent(a, "RELEASED", rows, FALSE)}, {}, {})
  BY DEF ReleaseAndGet
<1>5. UNCHANGED <<clients, call>>
  BY DEF ReleaseAndGet
<1>6. rows = [row EXCEPT ![a] = r]
  OBVIOUS
<1> HIDE DEF r, a, rows
<1> QED BY <1>1, <1>2, <1>3, <1>4, <1>5, <1>6, OneRowKeepsIInv, Zenon
\* Complete keeps the invariant: it completes an agent that is IN_PROGRESS once.
LEMMA CompleteKeepsIInv ==
    ASSUME IInv, NEW w \in Workers, call[w] # NoCall,
           NEW O \in SUBSET (Agents \ {call[w].agent}), CompleteAndOut(w, call[w], O)
    PROVE  IInv'
<1> DEFINE a == call[w].agent
           t == call[w].token
           rows == [b \in Agents |-> IF b = a THEN Completed(row[a])
                                     ELSE IF b \in O THEN upsertSQLiteAgent
                                     ELSE row[b]]
           done(b) == insertSQLiteEvent(b, "COMPLETED", rows, FALSE)
           made(b) == insertSQLiteEvent(b, "CREATED", rows, FALSE)
           events == {done(a)} \cup {made(b) : b \in O}
           x == [by |-> w, row |-> rows, events |-> events, leased |-> {},
                 done |-> {<<a, t>>}, todo |-> {}]
<1>1. /\ a \in Agents /\ row \in [Agents -> Row] /\ t \in Tokens
      /\ row[a].status = "IN_PROGRESS" /\ row[a].lease_token = t
      /\ O \in SUBSET (Agents \ {a}) /\ TypeOK
  BY CallFacts, Zenon DEF CompleteAndOut, HoldsLease, Call, IInv, ConfirmedIsTheCompletion
<1>2. \A b \in O : row[b].status = "NONE" /\ row[b] = NoRow
  BY <1>1 DEF CompleteAndOut, IInv, BlankRows
<1>3. rows \in [Agents -> Row]
  BY <1>1, CompletedFacts, UpsertFacts, Zenon
<1>4. /\ Begin(w, rows, events, {}, {<<a, t>>})
      /\ UNCHANGED <<clients, call>>
  BY DEF CompleteAndOut
<1>5. /\ rows[a] = Completed(row[a])
      /\ \A b \in O : rows[b] = upsertSQLiteAgent
      /\ \A b \in Agents \ (O \cup {a}) : rows[b] = row[b]
  BY <1>1, Zenon
<1> HIDE DEF rows, a, t
<1>6. \A b \in Agents :
        /\ done(b) \in Event /\ done(b).agent = b /\ done(b).version = rows[b].version
        /\ made(b) \in Event /\ made(b).agent = b /\ made(b).version = rows[b].version
  BY <1>3 DEF insertSQLiteEvent, Event, Row
<1> HIDE DEF done, made
<1>7. events \in SUBSET Event
  BY <1>1, <1>6
<1>8. /\ \A e \in events : e.agent \in O \cup {a}
      /\ done(a) \in events /\ \A e \in events : e.agent = a => e = done(a)
      /\ \A b \in O : made(b) \in events /\ \A e \in events : e.agent = b => e = made(b)
  BY <1>1, <1>6
<1>9. /\ rows[a].version = row[a].version + 1
      /\ \A b \in O : rows[b].version = row[b].version + 1
  BY <1>1, <1>2, <1>5, CompletedFacts, UpsertFacts, NoRowFacts
<1> HIDE DEF events
<1>10. /\ x.row = rows /\ x.events = events /\ x.leased = {}
       /\ x.done = {<<a, t>>} /\ x.todo = {}
  OBVIOUS
<1> HIDE DEF x
<1>11. Shape(x)
  <2>1. Completes(x, a, t, O)
    BY <1>1, <1>2, <1>5, <1>10 DEF Completes, Kept
  <2> QED BY <1>1, <1>10, <2>1 DEF Shape
<1>12. ASSUME NEW b \in Agents PROVE Logs(x, b)
  <2>1. CASE b = a
    BY <1>1, <1>6, <1>8, <1>9, <1>10, <2>1, Zenon DEF Logs
  <2>2. CASE b \in O
    BY <1>1, <1>6, <1>8, <1>9, <1>10, <2>2 DEF Logs
  <2>3. CASE b \in Agents \ (O \cup {a})
    BY <1>5, <1>8, <1>10, <2>3 DEF Logs
  <2> QED BY <2>1, <2>2, <2>3, Zenon
<1>13. {<<a, t>>} \in SUBSET (Agents \X Tokens)
  BY <1>1
<1> QED BY <1>3, <1>4, <1>7, <1>11, <1>12, <1>13, BeginKeepsIInv, ZenonT(40) DEF x

\* Renewals and retries of a completion.
LEMMA RepeatKeepsIInv ==
    ASSUME IInv, NEW w \in Workers, call[w] # NoCall,
           CompleteAgain(w, call[w]) \/ RenewLease(w, call[w])
    PROVE  IInv'
<1> DEFINE p == <<call[w].agent, call[w].token>>
           x(leased, done) == [by |-> w, row |-> row, events |-> {}, leased |-> leased,
                               done |-> done, todo |-> {}]
<1>1. /\ row \in [Agents -> Row] /\ p \in Agents \X Tokens /\ p[2] \in issued
      /\ p[1] = call[w].agent /\ p[2] = call[w].token
  BY CallFacts, Zenon DEF CompleteAgain, AlreadyCompleted, RenewLease, Call
<1>2. ASSUME NEW leased, NEW done PROVE \A b \in Agents : Logs(x(leased, done), b)
  BY Zenon DEF Logs
<1>3. CASE CompleteAgain(w, call[w])
  <2>1. Repeats(x({}, {p}))
    BY <1>1, <1>3 DEF CompleteAgain, AlreadyCompleted, Repeats, Kept
  <2>2. Shape(x({}, {p}))
    BY <2>1, Zenon DEF Shape
  <2>3. Begin(w, row, {}, {}, {p}) /\ UNCHANGED <<clients, call>>
    BY <1>3, Zenon DEF CompleteAgain
  <2> HIDE DEF p
  <2> QED BY <1>1, <1>2, <2>2, <2>3, BeginKeepsIInv, Zenon
<1>4. CASE RenewLease(w, call[w])
  <2>1. Repeats(x({p}, {}))
    BY <1>1, <1>4 DEF RenewLease, Repeats, Kept
  <2>2. Shape(x({p}, {}))
    BY <2>1, Zenon DEF Shape
  <2>3. Begin(w, row, {}, {p}, {}) /\ UNCHANGED <<clients, call>>
    BY <1>4 DEF RenewLease
  <2> HIDE DEF p
  <2> QED BY <1>1, <1>2, <2>2, <2>3, BeginKeepsIInv
<1> QED BY <1>3, <1>4, Zenon
\* The reaper's transaction begins with nothing written.
LEMMA ReapKeepsIInv ==
    ASSUME IInv, NEW S \in SUBSET Agents, reapExpiredLeases(S)
    PROVE  IInv'
<1> DEFINE x == [by |-> Reaper, row |-> row, events |-> {}, leased |-> {},
                 done |-> {}, todo |-> S]
<1>1. row \in [Agents -> Row] /\ announced' \subseteq Event
  BY Zenon DEF IInv, ConfirmedIsTheCompletion, TypeOK, reapExpiredLeases
<1>2. x \in Tx
  BY <1>1 DEF Tx
<1>3. \A a \in S : row[a].status = "IN_PROGRESS"
  BY Zenon DEF IInv, LapsedAreClaimed, reapExpiredLeases
<1>4. GivesBack(x, {})
  BY <1>3 DEF GivesBack, Kept, Plain
<1>5. Shape(x) /\ \A b \in Agents : Logs(x, b)
  BY <1>4, Zenon DEF Shape, Logs
<1>6. tx' = x /\ UNCHANGED <<row, log, clients, call, clock>>
  BY DEF reapExpiredLeases
<1> HIDE DEF x
<1> QED BY <1>1, <1>2, <1>5, <1>6, StatementsKeepIInv, Zenon

\* The reaper's statements for one agent release it, log it, or do neither.
LEMMA ReapOneKeepsIInv ==
    ASSUME IInv, NEW a \in Agents, ReapOne(a)
    PROVE  IInv'
<1> DEFINE rows == [tx.row EXCEPT ![a] = Unleased(@, "NEW")]
           e == insertSQLiteEvent(a, "RELEASED", rows, TRUE)
           left == tx.todo \ {a}
<1>1. /\ tx # NoTx /\ tx \in Tx /\ a \in tx.todo /\ row \in [Agents -> Row]
      /\ announced \subseteq Event
      /\ Shape(tx) /\ \A b \in Agents : Logs(tx, b)
  BY Zenon DEF IInv, Pending, ConfirmedIsTheCompletion, TypeOK, ReapOne
<1>2. PICK S \in SUBSET Agents : GivesBack(tx, S)
  BY <1>1 DEF Shape
<1>3. row[a].status = "IN_PROGRESS" /\ a \notin S /\ tx.row[a] = row[a]
  BY <1>1, <1>2 DEF GivesBack, Kept
<1>4. tx.row \in [Agents -> Row] /\ tx.events \subseteq Event
  BY <1>1, Zenon DEF Tx
<1>5. rows \in [Agents -> Row] /\ rows[a] = Unleased(row[a], "NEW")
  BY <1>1, <1>3, <1>4, ReleaseFacts
<1>6. \A b \in Agents \ {a} : rows[b] = tx.row[b]
  BY <1>4, Zenon
<1>7. rows[a].version = row[a].version + 1 /\ rows[a].status = "NEW" /\ row[a].version \in Nat
  BY <1>1, <1>5, ReleaseFacts, Zenon DEF Row
<1>8. \A f \in tx.events : f.agent # a
  BY <1>1, <1>3, <1>7 DEF Logs
<1> HIDE DEF rows
<1>9. e \in Event /\ e.agent = a /\ e.version = rows[a].version
  BY <1>5 DEF insertSQLiteEvent, Event, Row
<1> HIDE DEF e
<1>10. UNCHANGED <<row, log, clients, call, clock>> /\ announced' \subseteq Event
  BY <1>1, <1>9, Zenon DEF ReapOne, e, rows
<1>11. \/ tx' = [tx EXCEPT !.todo = left]
       \/ tx' = [[tx EXCEPT !.todo = left] EXCEPT !.row = rows]
       \/ tx' = [[[tx EXCEPT !.todo = left] EXCEPT !.row = rows]
                   EXCEPT !.events = tx.events \cup {e}]
  BY <1>1, Zenon DEF ReapOne, Tx, e, rows
<1>12. tx' \in Tx
  <2>1. left \in SUBSET Agents /\ tx.events \cup {e} \in SUBSET Event
    BY <1>1, <1>4, <1>9 DEF Tx
  <2>2. \A r \in [Agents -> Row], E \in SUBSET Event, T \in SUBSET Agents :
          /\ [tx EXCEPT !.todo = T] \in Tx
          /\ [[tx EXCEPT !.todo = T] EXCEPT !.row = r] \in Tx
          /\ [[[tx EXCEPT !.todo = T] EXCEPT !.row = r] EXCEPT !.events = E] \in Tx
    BY <1>1, Zenon DEF Tx
  <2> HIDE DEF left
  <2>3. CASE tx' = [tx EXCEPT !.todo = left]
    BY <1>4, <2>1, <2>2, <2>3, Zenon
  <2>4. CASE tx' = [[tx EXCEPT !.todo = left] EXCEPT !.row = rows]
    BY <1>5, <2>1, <2>2, <2>4, Zenon
  <2>5. CASE tx' = [[[tx EXCEPT !.todo = left] EXCEPT !.row = rows]
                     EXCEPT !.events = tx.events \cup {e}]
    BY <1>5, <2>1, <2>2, <2>5, Zenon
  <2> QED BY <1>11, <2>3, <2>4, <2>5, Zenon
<1>13. /\ tx'.todo = left /\ tx'.leased = {} /\ tx'.done = {}
       /\ \/ tx'.row = tx.row /\ tx'.events = tx.events
          \/ tx'.row = rows /\ tx'.events = tx.events
          \/ tx'.row = rows /\ tx'.events = tx.events \cup {e}
  BY <1>1, <1>2, <1>11, Zenon DEF Tx, GivesBack, Plain
<1>14. Shape(tx')
  <2>1. CASE tx'.row = tx.row
    <3>1. GivesBack(tx', S)
      BY <1>2, <1>13, <2>1, Zenon DEF GivesBack, Kept, Plain
    <3> QED BY <3>1 DEF Shape
  <2>2. CASE tx'.row = rows
    <3>1. GivesBack(tx', S \cup {a})
      BY <1>2, <1>3, <1>5, <1>6, <1>13, <2>2 DEF GivesBack, Kept, Plain
    <3> QED BY <3>1, Zenon DEF Shape
  <2> QED BY <1>13, <2>1, <2>2, Zenon
<1>15. ASSUME NEW b \in Agents PROVE Logs(tx', b)
  <2>1. Logs(tx, b)
    BY <1>1, Zenon
  <2>2. CASE tx'.row = tx.row /\ tx'.events = tx.events
    BY <2>1, <2>2, Zenon DEF Logs
  <2>3. CASE tx'.row = rows /\ tx'.events = tx.events
    BY <1>3, <1>6, <1>7, <1>8, <2>1, <2>3 DEF Logs
  <2>4. CASE tx'.row = rows /\ tx'.events = tx.events \cup {e}
    <3>1. CASE b = a
      BY <1>7, <1>8, <1>9, <2>4, <3>1, Zenon DEF Logs
    <3>2. CASE b # a
      BY <1>6, <1>9, <2>1, <2>4, <3>2, Zenon DEF Logs
    <3> QED BY <3>1, <3>2, Zenon
  <2> QED BY <1>13, <2>2, <2>3, <2>4
<1> QED BY <1>10, <1>12, <1>14, <1>15, StatementsKeepIInv

\* A transaction that fails or dies leaves the committed state as it was.
LEMMA EndKeepsIInv ==
    ASSUME IInv, Fail \/ Crash
    PROVE  IInv'
<1> USE DEF clients, clock
<1>1. /\ tx' = NoTx /\ UNCHANGED <<row, log, clients, announced, clock>>
      /\ \A w \in Workers : call'[w] = NoCall \/ call'[w] = call[w]
      /\ call' \in [Workers -> Call \cup {NoCall}]
  BY DEF Fail, Crash, IInv, ConfirmedIsTheCompletion, TypeOK
<1>2. ConfirmedIsTheCompletion'
  BY <1>1 DEF IInv, ConfirmedIsTheCompletion, TypeOK
<1>3. CallsAreSound'
  BY <1>1, Zenon DEF IInv, CallsAreSound
<1> QED BY <1>1, <1>2, <1>3 DEF IInv, BlankRows, LapsedAreClaimed, HeldAreIssued, Pending

\* Requests arrive, are refused, and time passes.
LEMMA WaitingKeepsIInv ==
    ASSUME IInv,
           \/ \E w \in Workers, op \in Ops, a \in Agents, t \in Tokens \cup {NoToken} :
                Request(w, op, a, t)
           \/ \E w \in Workers : Refuse(w, call[w])
           \/ \E a \in Agents : LeaseLapses(a) \/ TTLPasses(a)
    PROVE  IInv'
<1> USE DEF clients, clock
<1>1. UNCHANGED <<row, log, tx, issued, held, acked, announced>>
  BY Zenon DEF Request, Refuse, LeaseLapses, TTLPasses
<1>2. /\ call' \in [Workers -> Call \cup {NoCall}]
      /\ CallsAreSound'
  <2>1. ASSUME NEW w \in Workers, NEW op \in Ops, NEW a \in Agents,
               NEW t \in Tokens \cup {NoToken}, Request(w, op, a, t)
        PROVE  call' \in [Workers -> Call \cup {NoCall}] /\ CallsAreSound'
    <3> DEFINE c == [op |-> op, agent |-> a, token |-> t, live |-> a \notin expired]
    <3>1. c \in Call
      BY Zenon DEF Call
    <3>2. IF op = "update" THEN row[a].status # "NONE" ELSE t \in issued
      BY <2>1 DEF Request, IInv, HeldAreIssued, ConfirmedIsTheCompletion, TypeOK
    <3>3. call' = [call EXCEPT ![w] = c] /\ call \in [Workers -> Call \cup {NoCall}]
      BY <2>1 DEF Request, IInv, ConfirmedIsTheCompletion, TypeOK
    <3>4. c.op = op /\ c.agent = a /\ c.token = t
      BY Zenon
    <3> HIDE DEF c
    <3> QED BY <1>1, <3>1, <3>2, <3>3, <3>4, Zenon DEF IInv, CallsAreSound
  <2>2. ASSUME NEW w \in Workers, Refuse(w, call[w])
        PROVE  call' \in [Workers -> Call \cup {NoCall}] /\ CallsAreSound'
    BY <1>1, <2>2, Zenon DEF Refuse, IInv, ConfirmedIsTheCompletion, TypeOK, CallsAreSound
  <2>3. ASSUME NEW a \in Agents, LeaseLapses(a) \/ TTLPasses(a)
        PROVE  call' \in [Workers -> Call \cup {NoCall}] /\ CallsAreSound'
    BY <1>1, <2>3 DEF LeaseLapses, TTLPasses, IInv, ConfirmedIsTheCompletion, TypeOK,
                      CallsAreSound
  <2> QED BY <2>1, <2>2, <2>3
<1>3. LapsedAreClaimed' /\ lapsed' \subseteq Agents /\ expired' \subseteq Agents
  BY <1>1, Zenon DEF Request, Refuse, LeaseLapses, TTLPasses, IInv, LapsedAreClaimed,
              ConfirmedIsTheCompletion, TypeOK
<1>4. ConfirmedIsTheCompletion'
  BY <1>1, <1>2, <1>3 DEF IInv, ConfirmedIsTheCompletion, TypeOK
<1>5. Pending'
  BY <1>1, ShapeStays DEF IInv, Pending
<1> QED BY <1>1, <1>2, <1>3, <1>4, <1>5 DEF IInv, BlankRows, HeldAreIssued
\* What a commit does to a row: it never undoes a completion or an insertion.
LEMMA PendingRow ==
    ASSUME IInv, tx # NoTx, NEW a \in Agents
    PROVE  /\ row[a].status = "COMPLETED" =>
                tx.row[a].status = "COMPLETED" /\ tx.row[a].completed_by = row[a].completed_by
           /\ row[a].status # "NONE" => tx.row[a].status # "NONE"
           /\ IF tx.row[a].status = "NONE" THEN tx.row[a] = NoRow ELSE tx.row[a].version >= 1
<1>1. /\ row[a] \in Row /\ row[a].version \in Nat /\ Shape(tx)
      /\ IF row[a].status = "NONE" THEN row[a] = NoRow ELSE row[a].version >= 1
  BY Zenon DEF IInv, Pending, ConfirmedIsTheCompletion, TypeOK, BlankRows, Row
<1>2. \/ tx.row[a] = row[a]
      \/ row[a].status = "NONE" /\ tx.row[a] = upsertSQLiteAgent
      \/ row[a].status # "NONE" /\ tx.row[a] = [row[a] EXCEPT !.version = @ + 1]
      \/ row[a].status = "NEW" /\ \E w \in Workers \cup {Anonymous}, t \in Tokens :
                                   tx.row[a] = claimSQLiteAgent(row[a], w, t)
      \/ row[a].status = "IN_PROGRESS" /\ tx.row[a] = Completed(row[a])
      \/ row[a].status = "IN_PROGRESS" /\ tx.row[a] = Unleased(row[a], "NEW")
  <2>1. ASSUME NEW b \in Agents, Inserts(tx, b) \/ Updates(tx, b) PROVE <1>2
    BY <2>1 DEF Inserts, Updates, Kept
  <2>2. ASSUME NEW w \in Workers \cup {Anonymous}, NEW b \in Agents, NEW t \in Tokens,
               Claims(tx, w, b, t)
        PROVE  <1>2
    BY <2>2 DEF Claims, Kept
  <2>3. ASSUME NEW b \in Agents, NEW t \in Tokens, NEW O \in SUBSET (Agents \ {b}),
               Completes(tx, b, t, O)
        PROVE  <1>2
    BY <2>3 DEF Completes, Kept
  <2>4. ASSUME Repeats(tx) PROVE <1>2
    BY <2>4 DEF Repeats, Kept
  <2>5. ASSUME NEW S \in SUBSET Agents, GivesBack(tx, S) PROVE <1>2
    BY <2>5 DEF GivesBack, Kept
  <2> QED BY <1>1, <2>1, <2>2, <2>3, <2>4, <2>5 DEF Shape
<1>3. CASE tx.row[a] = row[a]
  BY <1>1, <1>3
<1>4. CASE row[a].status = "NONE" /\ tx.row[a] = upsertSQLiteAgent
  BY <1>4, UpsertFacts
<1>5. CASE row[a].status # "NONE" /\ tx.row[a] = [row[a] EXCEPT !.version = @ + 1]
  BY <1>1, <1>5, UpdatedFacts
<1>6. ASSUME NEW w \in Workers \cup {Anonymous}, NEW t \in Tokens, row[a].status = "NEW",
             tx.row[a] = claimSQLiteAgent(row[a], w, t)
      PROVE  tx.row[a].status = "IN_PROGRESS" /\ tx.row[a].version >= 1
  <2>1. /\ claimSQLiteAgent(row[a], w, t).status = "IN_PROGRESS"
        /\ claimSQLiteAgent(row[a], w, t).version = row[a].version + 1
    BY <1>1, ClaimFacts, ZenonT(40)
  <2> QED BY <1>1, <1>6, <2>1
<1>7. CASE row[a].status = "IN_PROGRESS" /\ tx.row[a] = Completed(row[a])
  BY <1>1, <1>7, CompletedFacts
<1>8. CASE row[a].status = "IN_PROGRESS" /\ tx.row[a] = Unleased(row[a], "NEW")
  BY <1>1, <1>8, ReleaseFacts
<1> QED BY <1>2, <1>3, <1>4, <1>5, <1>6, <1>7, <1>8, Zenon

\* A completion is confirmed only with the row that records it.
LEMMA PendingDone ==
    ASSUME IInv, tx # NoTx, NEW a \in Agents, NEW t \in Tokens, <<a, t>> \in tx.done
    PROVE  tx.row[a].status = "COMPLETED" /\ tx.row[a].completed_by = t
<1>1. row \in [Agents -> Row] /\ Shape(tx)
  BY Zenon DEF IInv, Pending, ConfirmedIsTheCompletion, TypeOK
<1>2. \/ \E b \in Agents, u \in Tokens : \E O \in SUBSET (Agents \ {b}) : Completes(tx, b, u, O)
      \/ Repeats(tx)
  BY <1>1, Zenon DEF Shape, Inserts, Claims, Updates, GivesBack, Plain
<1>3. ASSUME NEW b \in Agents, NEW u \in Tokens, NEW O \in SUBSET (Agents \ {b}),
             Completes(tx, b, u, O)
      PROVE  tx.row[a].status = "COMPLETED" /\ tx.row[a].completed_by = t
  BY <1>1, <1>3, CompletedFacts DEF Completes
<1>4. CASE Repeats(tx)
  BY <1>4, Zenon DEF Repeats, Kept
<1> QED BY <1>2, <1>3, <1>4, Zenon

\* The commit of what a call did keeps the invariant.
LEMMA CommitKeepsIInv ==
    ASSUME IInv, Commit
    PROVE  IInv'
<1>1. /\ tx # NoTx /\ tx \in Tx /\ row' = tx.row /\ tx' = NoTx
      /\ acked' = acked \cup tx.done /\ log' = log \cup tx.events
      /\ issued' = issued \cup {p[2] : p \in tx.leased}
      /\ held' = [w \in Workers |-> IF w = tx.by THEN held[w] \cup tx.leased ELSE held[w]]
      /\ call' = [w \in Workers |-> IF w = tx.by THEN NoCall ELSE call[w]]
      /\ TypeOK
  BY Zenon DEF IInv, ConfirmedIsTheCompletion, TypeOK, Commit, Reply
<1>2. /\ row' \in [Agents -> Row] /\ tx.events \subseteq Event
      /\ tx.done \subseteq Agents \X Tokens /\ tx.leased \subseteq Agents \X Tokens
  BY <1>1, Zenon DEF Tx
<1>3. TypeOK'
  <2>1. held' \in [Workers -> SUBSET (Agents \X Tokens)] /\ issued' \subseteq Tokens
    BY <1>1, <1>2, Zenon DEF TypeOK
  <2>2. call' \in [Workers -> Call \cup {NoCall}]
    BY <1>1, Zenon DEF TypeOK
  <2>3. lapsed' \subseteq Agents /\ expired' \subseteq Agents
    BY Zenon DEF Commit, IInv, ConfirmedIsTheCompletion, TypeOK
  <2>4. announced' \subseteq Event /\ log' \subseteq Event
    BY <1>1, <1>2, Zenon DEF Commit, TypeOK
  <2> QED BY <1>1, <1>2, <2>1, <2>2, <2>3, <2>4, Zenon DEF TypeOK
<1>4. ConfirmedIsTheCompletion'
  <2> SUFFICES ASSUME NEW a \in Agents, NEW t \in Tokens, <<a, t>> \in acked'
               PROVE  row'[a].status = "COMPLETED" /\ row'[a].completed_by = t
    BY <1>3, Zenon DEF ConfirmedIsTheCompletion
  <2>1. CASE <<a, t>> \in acked
    BY <1>1, <2>1, PendingRow, Zenon DEF IInv, ConfirmedIsTheCompletion
  <2>2. CASE <<a, t>> \in tx.done
    BY <1>1, <2>2, PendingDone, Zenon
  <2> QED BY <1>1, <2>1, <2>2, Zenon
<1>5. BlankRows'
  BY <1>1, PendingRow DEF BlankRows
<1>6. LapsedAreClaimed'
  BY Zenon DEF Commit, LapsedAreClaimed
<1>7. HeldAreIssued'
  BY <1>1, <1>2, Zenon DEF IInv, HeldAreIssued
<1>8. CallsAreSound'
  <2> SUFFICES ASSUME NEW w \in Workers, call'[w] # NoCall
               PROVE  IF call'[w].op = "update" THEN row'[call'[w].agent].status # "NONE"
                                                ELSE call'[w].token \in issued'
    BY Zenon DEF CallsAreSound
  <2>1. call'[w] = call[w] /\ call[w] # NoCall
    BY <1>1, Zenon
  <2>2. call[w].agent \in Agents
    BY <2>1, CallFacts, Zenon DEF Call
  <2> QED BY <1>1, <2>1, <2>2, PendingRow, Zenon DEF IInv, CallsAreSound
<1> QED BY <1>1, <1>4, <1>5, <1>6, <1>7, <1>8, Zenon DEF IInv, Pending

\* Every step keeps the invariant.
LEMMA IInvInductive == IInv /\ [Next]_vars => IInv'
<1> SUFFICES ASSUME IInv, [Next]_vars PROVE IInv'
  OBVIOUS
<1>1. CASE \E a \in Agents : Out(a) \/ ReapOne(a) \/ LeaseLapses(a) \/ TTLPasses(a)
  BY <1>1, OutKeepsIInv, ReapOneKeepsIInv, WaitingKeepsIInv
<1>2. CASE \E w \in Workers \cup {Anonymous}, a \in Agents, t \in Tokens : Take(w, a, t)
  BY <1>2, TakeKeepsIInv
<1>3. CASE \E w \in Workers, op \in Ops, a \in Agents, t \in Tokens \cup {NoToken} :
             Request(w, op, a, t)
  BY <1>3, WaitingKeepsIInv, Zenon
<1>4. CASE \E w \in Workers : Serve(w)
  <2> PICK w \in Workers : Serve(w)
    BY <1>4, Zenon
  <2>1. CASE \E O \in SUBSET (Agents \ {call[w].agent}) : CompleteAndOut(w, call[w], O)
    BY <2>1, CompleteKeepsIInv DEF Serve
  <2>2. CASE Refuse(w, call[w])
    BY <2>2, WaitingKeepsIInv, Zenon
  <2>3. CASE UpdateAndGet(w, call[w]) \/ ReleaseAndGet(w, call[w])
    BY <2>3, UpdateKeepsIInv, ReleaseKeepsIInv, Zenon DEF Serve
  <2>4. CASE CompleteAgain(w, call[w]) \/ RenewLease(w, call[w])
    BY <2>4, RepeatKeepsIInv DEF Serve
  <2> QED BY <2>1, <2>2, <2>3, <2>4 DEF Serve
<1>5. CASE \E S \in SUBSET Agents : reapExpiredLeases(S)
  BY <1>5, ReapKeepsIInv
<1>6. CASE Commit \/ Fail \/ Crash
  BY <1>6, CommitKeepsIInv, EndKeepsIInv, Zenon
<1>7. CASE UNCHANGED vars
  <2>1. UNCHANGED <<row, log, tx, call, issued, held, acked, announced, lapsed, expired>>
    BY <1>7 DEF vars
  <2>2. Pending'
    BY <2>1, ShapeStays DEF IInv, Pending
  <2> QED BY <2>1, <2>2, Zenon DEF IInv, ConfirmedIsTheCompletion, TypeOK, BlankRows,
                            LapsedAreClaimed, HeldAreIssued, CallsAreSound
<1> QED BY <1>1, <1>2, <1>3, <1>4, <1>5, <1>6, <1>7 DEF Next
\* The invariant holds in every reachable state, whatever commits, fails, is
\* reaped or dies half-way.
THEOREM IInvHolds == Spec => []IInv
BY IInvInit, IInvInductive, PTL DEF Spec

\* Every state is well typed, and a completion that was confirmed is the
\* agent's only one: CompleteAndGet and CompleteAndOut complete an agent at most
\* once, under any interleaving of callers, the reaper, failures and crashes.
THEOREM ExactlyOnceCompletion == Spec => []ConfirmedIsTheCompletion
<1>1. IInv => ConfirmedIsTheCompletion
  BY Zenon DEF IInv
<1> QED BY <1>1, IInvHolds, PTL

-----------------------------------------------------------------------------
(* What subscribers are told, and what the log holds *)

\* Of all steps, only a commit changes rows, the log and what clients know, and
\* only a commit and the reaper tell subscribers anything.
LEMMA OnlyCommitWrites ==
    ASSUME [Next]_vars
    PROVE  \/ Commit
           \/ \E a \in Agents : ReapOne(a)
           \/ UNCHANGED <<row, log, clients, announced>>
<1> USE DEF clients
<1>1. ASSUME NEW w \in Workers, Serve(w) PROVE UNCHANGED <<row, log, clients, announced>>
  BY <1>1, Zenon DEF Serve, UpdateAndGet, CompleteAgain, ReleaseAndGet, RenewLease, Refuse,
              CompleteAndOut, Begin
<1>2. ASSUME NEW a \in Agents, Out(a) \/ LeaseLapses(a) \/ TTLPasses(a)
      PROVE  UNCHANGED <<row, log, clients, announced>>
  BY <1>2, Zenon DEF Out, Begin, LeaseLapses, TTLPasses
<1>3. ASSUME NEW w, NEW a, NEW t, Take(w, a, t)
      PROVE  UNCHANGED <<row, log, clients, announced>>
  BY <1>3, Zenon DEF Take, Begin
<1>4. ASSUME NEW w, NEW op, NEW a, NEW t, Request(w, op, a, t)
      PROVE  UNCHANGED <<row, log, clients, announced>>
  BY <1>4, Zenon DEF Request
<1>5. ASSUME NEW S, reapExpiredLeases(S) PROVE UNCHANGED <<row, log, clients, announced>>
  BY <1>5, Zenon DEF reapExpiredLeases
<1>6. ASSUME Fail \/ Crash \/ UNCHANGED vars
      PROVE  UNCHANGED <<row, log, clients, announced>>
  BY <1>6 DEF Fail, Crash, vars
<1> QED BY <1>1, <1>2, <1>3, <1>4, <1>5, <1>6 DEF Next

\* Subscribers learn of nothing that is not logged, but for what the reaper
\* tells them before it commits.
THEOREM AnnouncementsAreLogged == Spec => []AnnouncedIsLogged
<1>1. Init => AnnouncedIsLogged
  BY DEF Init, AnnouncedIsLogged
<1>2. AnnouncedIsLogged /\ [Next]_vars => AnnouncedIsLogged'
  <2> SUFFICES ASSUME AnnouncedIsLogged, [Next]_vars PROVE AnnouncedIsLogged'
    OBVIOUS
  <2>1. CASE Commit
    BY <2>1 DEF Commit, AnnouncedIsLogged
  <2>2. ASSUME NEW a \in Agents, ReapOne(a) PROVE AnnouncedIsLogged'
    BY <2>2 DEF ReapOne, insertSQLiteEvent, AnnouncedIsLogged
  <2>3. CASE UNCHANGED <<row, log, clients, announced>>
    BY <2>3, Zenon DEF AnnouncedIsLogged
  <2> QED BY <2>1, <2>2, <2>3, OnlyCommitWrites, Zenon
<1> QED BY <1>1, <1>2, PTL DEF Spec

Logged(a, v) == \E e \in log : e.agent = a /\ e.version = v

\* LogMissesOnlyReaps without its sets of versions.
SingleEvents ==
    \A e \in log : /\ e.version <= row[e.agent].version
                   /\ \A f \in log : e.agent = f.agent /\ e.version = f.version => e = f

NoGaps(a) ==
    /\ row[a].version >= 1 => Logged(a, 1)
    /\ \A v \in 1 .. row[a].version :
         v + 1 <= row[a].version => Logged(a, v) \/ Logged(a, v + 1)
    /\ row[a].version >= 1 /\ ~Logged(a, row[a].version) => row[a].status = "NEW"

LogInv == SingleEvents /\ \A a \in Agents : NoGaps(a)

\* A commit adds at most one event of an agent, ahead of all it has.
LEMMA CommitKeepsSingle ==
    ASSUME IInv, SingleEvents, Commit
    PROVE  SingleEvents'
<1>1. /\ row' = tx.row /\ log' = log \cup tx.events /\ tx.events \subseteq Event
      /\ \A b \in Agents : Logs(tx, b)
      /\ \A b \in Agents : row[b].version \in Nat
      /\ log \subseteq Event
  BY Zenon DEF Commit, IInv, ConfirmedIsTheCompletion, TypeOK, Pending, Tx, Row
<1>2. \A e \in log : e.agent \in Agents /\ e.version \in Nat /\ e.version <= row[e.agent].version
  BY <1>1, Zenon DEF SingleEvents, Event
<1>3. \A e \in tx.events : /\ e.agent \in Agents
                           /\ e.version = row[e.agent].version + 1
                           /\ row'[e.agent].version = row[e.agent].version + 1
                           /\ \A f \in tx.events : f.agent = e.agent => f = e
  BY <1>1, Zenon DEF Event, Logs
<1>4. \A b \in Agents : row'[b].version >= row[b].version /\ row'[b].version \in Nat
  BY <1>1 DEF Logs
<1>5. \A e \in log' : e.version <= row'[e.agent].version
  BY <1>1, <1>2, <1>3, <1>4
<1>6. ASSUME NEW e \in log', NEW f \in log', e.agent = f.agent, e.version = f.version
      PROVE  e = f
  <2>1. CASE e \in log /\ f \in log
    BY <1>6, <2>1, Zenon DEF SingleEvents
  <2>2. CASE e \in tx.events /\ f \in tx.events
    BY <1>3, <1>6, <2>2, Zenon
  <2>3. ASSUME NEW g \in log, NEW h \in tx.events, g.agent = h.agent, g.version = h.version
        PROVE  FALSE
    BY <1>1, <1>2, <1>3, <2>3
  <2> QED BY <1>1, <1>6, <2>1, <2>2, <2>3, Zenon
<1> QED BY <1>5, <1>6, Zenon DEF SingleEvents

\* A commit leaves a version unlogged only where the reaper released an agent,
\* whose last version a claim, an update or a renewal had logged.
LEMMA CommitKeepsDense ==
    ASSUME IInv, Commit, NEW a \in Agents, NoGaps(a)
    PROVE  NoGaps(a)'
<1>1. /\ row' = tx.row /\ log' = log \cup tx.events /\ Logs(tx, a)
      /\ row[a].version \in Nat
      /\ row[a].status = "IN_PROGRESS" => row[a].version >= 1
  BY Zenon DEF Commit, IInv, ConfirmedIsTheCompletion, TypeOK, Pending, BlankRows, Row
<1>2. \A v : Logged(a, v) => Logged(a, v)'
  BY <1>1 DEF Logged
<1>3. CASE row'[a].version = row[a].version /\ row'[a].status = row[a].status
  BY <1>1, <1>2, <1>3, Zenon DEF NoGaps
<1>4. CASE /\ row'[a].version = row[a].version + 1
           /\ \E e \in tx.events : e.agent = a /\ e.version = row'[a].version
  <2>1. \A v : v = row'[a].version => Logged(a, v)'
    BY <1>1, <1>4, Zenon DEF Logged
  <2>2. Logged(a, row[a].version)'
    BY <1>1, <1>4, Zenon DEF Logged
  <2>3. (row[a].version >= 1 => Logged(a, 1))'
    BY <1>1, <1>2, <1>4, <2>1 DEF NoGaps
  <2>4. ASSUME NEW v \in 1 .. row'[a].version, v + 1 <= row'[a].version
        PROVE  Logged(a, v)' \/ Logged(a, v + 1)'
    <3>1. v + 1 = row'[a].version => Logged(a, v + 1)'
      BY <2>1, Zenon
    <3>2. v + 1 # row'[a].version => v \in 1 .. row[a].version /\ v + 1 <= row[a].version
      BY <1>1, <1>4, <2>4
    <3>3. v + 1 # row'[a].version => Logged(a, v) \/ Logged(a, v + 1)
      BY <3>2, Zenon DEF NoGaps
    <3> QED BY <1>2, <3>1, <3>3, Zenon
  <2> QED BY <2>2, <2>3, <2>4, Zenon DEF NoGaps
<1>5. CASE /\ row'[a].version = row[a].version + 1
           /\ row[a].status = "IN_PROGRESS" /\ row'[a].status = "NEW"
  <2>1. row[a].version >= 1 /\ Logged(a, row[a].version)
    BY <1>1, <1>5 DEF NoGaps
  <2> QED BY <1>1, <1>2, <1>5, <2>1 DEF NoGaps
<1> QED BY <1>1, <1>3, <1>4, <1>5 DEF Logs

\* The log is right from the start and stays right.
THEOREM LogInvHolds == Spec => []LogInv
<1>1. Init => LogInv
  <2> SUFFICES ASSUME Init, NEW a \in Agents PROVE NoGaps(a)
    BY DEF Init, LogInv, SingleEvents
  <2>1. row[a].version = 0
    BY NoRowFacts DEF Init
  <2> QED BY <2>1 DEF NoGaps
<1>2. IInv /\ LogInv /\ [Next]_vars => LogInv'
  <2> SUFFICES ASSUME IInv, LogInv, [Next]_vars PROVE LogInv'
    OBVIOUS
  <2>1. CASE Commit
    BY <2>1, CommitKeepsSingle, CommitKeepsDense, Zenon DEF LogInv
  <2>2. CASE UNCHANGED <<row, log>>
    BY <2>2 DEF LogInv, SingleEvents, NoGaps, Logged
  <2>3. ASSUME NEW a \in Agents, ReapOne(a) PROVE UNCHANGED <<row, log>>
    BY <2>3, Zenon DEF ReapOne
  <2> QED BY <2>1, <2>2, <2>3, OnlyCommitWrites
<1> QED BY <1>1, <1>2, IInvHolds, PTL DEF Spec

\* The log has one event for each version of an agent but for those of releases
\* whose event the reaper could not insert, and never misses two in a row.
THEOREM LogIsNearlyComplete == Spec => []LogMissesOnlyReaps
<1>1. IInv /\ LogInv => LogMissesOnlyReaps
  <2> SUFFICES ASSUME IInv, LogInv, NEW a \in Agents
               PROVE  LET logged == {e \in log : e.agent = a}
                          missing == (1 .. row[a].version) \ {e.version : e \in logged}
                      IN  /\ \A e, f \in logged : e.version = f.version => e = f
                          /\ \A e \in logged : e.version <= row[a].version
                          /\ 1 \notin missing
                          /\ \A v \in missing : v + 1 \notin missing
                          /\ row[a].version \in missing => row[a].status = "NEW"
    BY Zenon DEF LogMissesOnlyReaps
  <2> DEFINE versions == {e.version : e \in {f \in log : f.agent = a}}
  <2>1. \A v : v \in versions <=> Logged(a, v)
    BY Zenon DEF Logged
  <2>2. row[a].version \in Nat /\ NoGaps(a)
    BY Zenon DEF LogInv, IInv, ConfirmedIsTheCompletion, TypeOK, Row
  <2>3. /\ \A e, f \in {g \in log : g.agent = a} : e.version = f.version => e = f
        /\ \A e \in {g \in log : g.agent = a} : e.version <= row[a].version
    BY Zenon DEF LogInv, SingleEvents
  <2> HIDE DEF versions
  <2>4. /\ 1 \notin (1 .. row[a].version) \ versions
        /\ \A v \in (1 .. row[a].version) \ versions : v + 1 \notin (1 .. row[a].version) \ versions
        /\ row[a].version \in (1 .. row[a].version) \ versions => row[a].status = "NEW"
    BY <2>1, <2>2 DEF NoGaps
  <2> QED BY <2>3, <2>4 DEF versions
<1> QED BY <1>1, IInvHolds, LogInvHolds, PTL

-----------------------------------------------------------------------------
(* The committed rows implement the contract *)

\* Every behaviour of the store is a behaviour of AgentSpace: a commit is one
\* step of the contract and nothing else is visible.
THEOREM Refinement == Spec => ImplementsContract
<1>1. Init => Contract!Init
  BY NoRowFacts DEF Init, Contract!Init
<1>2. IInv /\ [Next]_vars => [Contract!Next]_(Contract!vars)
  <2> SUFFICES ASSUME IInv, [Next]_vars
               PROVE  Contract!Next \/ UNCHANGED Contract!vars
    OBVIOUS
  <2>1. ASSUME UNCHANGED <<row, issued>> PROVE UNCHANGED Contract!vars
    BY <2>1 DEF Contract!vars
  <2>2. ASSUME NEW a \in Agents, ReapOne(a) PROVE UNCHANGED <<row, issued>>
    BY <2>2 DEF ReapOne, clients
  <2>3. CASE Commit
    <3>1. /\ row \in [Agents -> Row] /\ row' = tx.row /\ Shape(tx)
          /\ issued' = issued \cup {p[2] : p \in tx.leased}
      BY <2>3, Zenon DEF Commit, Reply, IInv, Pending, ConfirmedIsTheCompletion, TypeOK
    <3>2. \A b \in Agents : row[b].status = "NONE" => row[b] = NoRow
      BY Zenon DEF IInv, BlankRows
    <3>3. ASSUME NEW a \in Agents, Inserts(tx, a) PROVE Contract!Publish({a})
      <4>1. issued' = issued
        BY <3>1, <3>3, Zenon DEF Inserts, Plain
      <4>2. row[a] = NoRow /\ row'[a] = upsertSQLiteAgent /\ \A b \in Agents \ {a} : row'[b] = row[b]
        BY <3>1, <3>2, <3>3, Zenon DEF Inserts, Kept
      <4> QED BY <3>3, <4>1, <4>2, UpsertFacts, NoRowFacts, Zenon DEF Inserts, Contract!Publish
    <3>4. ASSUME NEW a \in Agents, Updates(tx, a) PROVE UNCHANGED Contract!vars
      <4>1. issued' = issued
        BY <3>1, <3>4, Zenon DEF Updates, Plain
      <4>2. \A b \in Agents : /\ row'[b].status = row[b].status
                              /\ row'[b].lease_token = row[b].lease_token
                              /\ row'[b].completed_by = row[b].completed_by
        <5>1. row[a] \in Row /\ row'[a] = [row[a] EXCEPT !.version = @ + 1]
          BY <3>1, <3>4 DEF Updates
        <5>2. /\ row'[a].status = row[a].status
              /\ row'[a].lease_token = row[a].lease_token
              /\ row'[a].completed_by = row[a].completed_by
          BY <5>1 DEF Row
        <5>3. \A b \in Agents \ {a} : row'[b] = row[b]
          BY <3>1, <3>4 DEF Updates, Kept
        <5> QED BY <5>2, <5>3
      <4> QED BY <4>1, <4>2 DEF Contract!vars
    <3>5. ASSUME NEW w \in Workers \cup {Anonymous}, NEW a \in Agents, NEW t \in Tokens,
                 Claims(tx, w, a, t)
          PROVE  Contract!Next
      <4> DEFINE tok == [b \in {a} |-> t]
      <4>1. /\ row'[a] = claimSQLiteAgent(row[a], w, t)
            /\ \A b \in Agents \ {a} : row'[b] = row[b]
            /\ row[a].status = "NEW" /\ t \notin issued
            /\ issued' = issued \cup {t}
        BY <3>1, <3>5 DEF Claims, Kept
      <4>2. /\ row'[a].status = "IN_PROGRESS" /\ row'[a].lease_token = t
            /\ row'[a].completed_by = row[a].completed_by
        BY <3>1, <4>1, ClaimFacts
      <4>3. Contract!Claim({a}, tok)
        BY <4>1, <4>2 DEF Contract!Claim
      <4>4. tok \in [{a} -> Tokens] /\ {a} \in SUBSET Agents
        BY Zenon
      <4> QED BY <4>3, <4>4, Zenon DEF Contract!Next
    <3>6. ASSUME NEW a \in Agents, NEW t \in Tokens, NEW O \in SUBSET (Agents \ {a}),
                 Completes(tx, a, t, O)
          PROVE  Contract!Finish(a, O)
      <4>1. /\ row'[a] = Completed(row[a]) /\ row[a].status = "IN_PROGRESS"
            /\ \A b \in O : row[b] = NoRow /\ row'[b] = upsertSQLiteAgent
            /\ \A b \in Agents \ (O \cup {a}) : row'[b] = row[b]
            /\ issued' = issued
        BY <3>1, <3>2, <3>6, Zenon DEF Completes, Kept
      <4>2. /\ row'[a].status = "COMPLETED" /\ row'[a].lease_token = NoToken
            /\ row'[a].completed_by = row[a].lease_token
        BY <3>1, <4>1, CompletedFacts
      <4>3. \A b \in O : /\ row[b].status = "NONE" /\ row'[b].status = "NEW"
                         /\ row'[b].lease_token = row[b].lease_token
                         /\ row'[b].completed_by = row[b].completed_by
        BY <4>1, UpsertFacts, NoRowFacts, Zenon
      <4>4. [b \in Agents |-> row'[b].status]
              = [b \in Agents |-> IF b = a THEN "COMPLETED"
                                  ELSE IF b \in O THEN "NEW" ELSE row[b].status]
        BY <4>1, <4>2, <4>3
      <4>5. [b \in Agents |-> row'[b].lease_token]
              = [[b \in Agents |-> row[b].lease_token] EXCEPT ![a] = NoToken]
        BY <4>1, <4>2, <4>3, Zenon
      <4>6. [b \in Agents |-> row'[b].completed_by]
              = [[b \in Agents |-> row[b].completed_by] EXCEPT ![a] = row[a].lease_token]
        BY <4>1, <4>2, <4>3, Zenon
      <4> QED BY <4>1, <4>3, <4>4, <4>5, <4>6, Zenon DEF Contract!Finish
    <3>7. ASSUME Repeats(tx) PROVE UNCHANGED Contract!vars
      <4>1. issued' = issued
        BY <3>1, <3>7, Zenon DEF Repeats
      <4> QED BY <3>1, <3>7, <4>1, Zenon DEF Repeats, Kept, Contract!vars
    <3>8. ASSUME NEW S \in SUBSET Agents, GivesBack(tx, S) PROVE Contract!GiveBack(S)
      <4>1. /\ \A a \in S : row[a].status = "IN_PROGRESS" /\ row'[a] = Unleased(row[a], "NEW")
            /\ \A b \in Agents \ S : row'[b] = row[b]
            /\ issued' = issued
        BY <3>1, <3>8, Zenon DEF GivesBack, Kept, Plain
      <4>2. \A a \in S : /\ row'[a].status = "NEW" /\ row'[a].lease_token = NoToken
                         /\ row'[a].completed_by = row[a].completed_by
        BY <3>1, <4>1, ReleaseFacts
      <4> QED BY <4>1, <4>2, Zenon DEF Contract!GiveBack
    <3> QED BY <3>1, <3>3, <3>4, <3>5, <3>6, <3>7, <3>8, ZenonT(40) DEF Shape, Contract!Next
  <2> QED BY <2>1, <2>2, <2>3, OnlyCommitWrites DEF clients
<1> QED BY <1>1, <1>2, IInvHolds, PTL DEF Spec, ImplementsContract, Contract!Spec
=============================================================================
