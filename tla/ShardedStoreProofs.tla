------------------------- MODULE ShardedStoreProofs -------------------------
(***************************************************************************)
(* Proofs about ShardedStore, for any number of nodes, shards, queues and  *)
(* calls, any hash and any shard maps: agents stay where the takes of      *)
(* their queue look for them, and the shards together implement the        *)
(* AgentSpace contract.                                                    *)
(*                                                                         *)
(* What both rest on is IInv.  Every kind of step does one of a few things *)
(* to the rows (Shape), so that the invariant and the refinement are       *)
(* proved for these instead of for every action.  The last section is      *)
(* about ShardedReads, the lists merged from the shards.                   *)
(***************************************************************************)
EXTENDS ShardedStore, ShardedReads, TLAPS

\* Shard s is where map m looks for queue q, unless q is one of the queues R that
\* a map sent elsewhere.
Home(m, R, q, s) == q \in Queues /\ s \in Shards /\ (q \notin R => s = Hash[m][q])

\* A row that was never published is empty, a published one is on a shard, the
\* home of its queue unless an update moved it.  Only a claimed row has a token or
\* a lapsed lease.
RowIsSound(a) ==
    /\ row[a].status = "NONE" => row[a] = NoRow /\ a \notin moved
    /\ row[a].status # "NONE" =>
          /\ row[a].shard \in Shards
          /\ a \notin moved => Home(file, rehashed, row[a].queue, row[a].shard)
    /\ row[a].status # "IN_PROGRESS" => row[a].token = NoToken /\ row[a].lapsed = FALSE

\* The maps the nodes have loaded agree with the file on the queues that no map
\* sent elsewhere.
MapsAgree == \A n \in Nodes, q \in Queues \ rehashed : Hash[map[n]][q] = Hash[file][q]

\* Call k names one of the tokens T, and one with an output its queue.
CallIsSound(k, T) == k.token \in T /\ (k.op = "complete_and_out" => k.queue \in Queues)

\* Beside these, the calls under way are sound.
IInv ==
    /\ TypeOK /\ MapsAgree
    /\ \A a \in Agents : RowIsSound(a)
    /\ \A c \in Calls : call[c] # NoCall => CallIsSound(call[c], DOMAIN issued)

-----------------------------------------------------------------------------
(* The shapes of a step *)

\* No row changes.
Quiet == UNCHANGED <<row, issued, moved, finishedBy>>

\* Out
Inserts(a) ==
    /\ row[a].status = "NONE"
    /\ \E q \in Queues, s \in Shards :
          row' = [row EXCEPT ![a] = NewRow(s, q)] /\ Home(file, rehashed, q, s)
    /\ UNCHANGED <<issued, moved, finishedBy>>

\* Take
Claims(a) ==
    /\ row[a].status = "NEW"
    /\ issued' = Append(issued, a) /\ Len(issued) < MaxTokens
    /\ row' = [row EXCEPT ![a] = [row[a] EXCEPT !.status = "IN_PROGRESS", !.token = Len(issued) + 1]]
    /\ UNCHANGED <<moved, finishedBy>>

\* Complete
Finishes(a) ==
    /\ row[a].status = "IN_PROGRESS"
    /\ row' = [row EXCEPT ![a] = Freed(row[a], "COMPLETED")]
    /\ finishedBy' = [finishedBy EXCEPT ![a] = row[a].token]
    /\ UNCHANGED <<issued, moved>>

\* CompleteAndOut with output b
FinishesWith(a, b) ==
    /\ row[a].status = "IN_PROGRESS" /\ row[b].status = "NONE"
    /\ \E q \in Queues, s \in Shards :
          /\ row' = [row EXCEPT ![a] = Freed(row[a], "COMPLETED"), ![b] = NewRow(s, q)]
          /\ Home(file, rehashed, q, s)
    /\ finishedBy' = [finishedBy EXCEPT ![a] = row[a].token]
    /\ UNCHANGED <<issued, moved>>

\* Release, the reaper
GivesBack(a) ==
    /\ row[a].status = "IN_PROGRESS"
    /\ row' = [row EXCEPT ![a] = Freed(row[a], "NEW")]
    /\ UNCHANGED <<issued, moved, finishedBy>>

\* RenewLease, and time that passes
Lapses(a) ==
    /\ row[a].status = "IN_PROGRESS"
    /\ \E l \in BOOLEAN : row' = [row EXCEPT ![a] = [row[a] EXCEPT !.lapsed = l]]
    /\ UNCHANGED <<issued, moved, finishedBy>>

\* Update
Moves(a) ==
    /\ row[a].status # "NONE"
    /\ \E q \in Queues \cup {NoQueue} :
          /\ row' = [row EXCEPT ![a] = [row[a] EXCEPT !.queue = q]]
          /\ moved' = moved \cup {a} \/ (moved' = moved \ {a} /\ Home(file, rehashed, q, row[a].shard))
    /\ UNCHANGED <<issued, finishedBy>>

Shape ==
    \/ Quiet
    \/ \E a \in Agents : Inserts(a) \/ Claims(a) \/ Finishes(a) \/ GivesBack(a) \/ Lapses(a) \/ Moves(a)
    \/ \E a, b \in Agents : FinishesWith(a, b)

\* Whatever maps come: what is the home of a queue stays it, and what a node takes
\* for it is.
HomesKept ==
    \A q, s : Home(file, rehashed, q, s) => Home(file', rehashed', q, s)

\* The shards of a map a node has loaded.
LEMMA MapsAreOfShards ==
    ASSUME IInv, NEW n \in Nodes
    PROVE  DOMAIN map[n] \subseteq Shards
<1>1. map[n] \in Owners
  BY DEF IInv, TypeOK
<1>2. PICK S \in SUBSET Shards : map[n] \in [S -> Nodes \cup {AnyNode}]
  BY <1>1, ShardMapAssumption, Zenon
<1> QED BY <1>2

\* A node looks for a queue on its home.
LEMMA TargetIsHome ==
    ASSUME IInv, NEW n \in Nodes, NEW q \in Queues
    PROVE  Target(n, q) \in Shards /\ Home(file, rehashed, q, Target(n, q))
<1>1. map[n] \in Owners
  BY DEF IInv, TypeOK
<1>2. Hash[map[n]][q] \in Shards
  BY <1>1, ShardMapAssumption
<1> QED BY <1>2, Zenon DEF IInv, MapsAgree, Target, Home

\* A call that reaches its shard finishes, gives back, renews or changes nothing.
LEMMA PerformShape ==
    ASSUME IInv, NEW c \in Calls, Perform(c)
    PROVE  Shape
<1> DEFINE k == call[c]
           a == issued[k.token]
<1>0. TypeOK /\ \A x \in Agents : RowIsSound(x)
  BY Zenon DEF IInv
<1>1. k \in Call /\ k.token \in DOMAIN issued /\ k # NoCall
  BY <1>0 DEF IInv, TypeOK, Perform, CallIsSound
<1>a. k.op = "complete_and_out" => k.queue \in Queues
  BY <1>1, Zenon DEF IInv, CallIsSound
<1>2. a \in Agents
  BY <1>0, <1>1 DEF TypeOK
<1>3. PICK b \in Agents : row' = Effect(k, a, b)
  BY Zenon DEF Perform
<1>4. /\ row \in [Agents -> Row] /\ finishedBy \in [Agents -> Tokens \cup {NoToken}]
      /\ UNCHANGED <<issued, moved>>
      /\ finishedBy' = [x \in Agents |->
                          IF row[x].status # "COMPLETED" /\ row'[x].status = "COMPLETED"
                          THEN k.token ELSE finishedBy[x]]
  BY <1>0 DEF Perform, TypeOK
<1>5. CASE ~HoldsLease(row[a], k.token)
  <2>1. row' = row
    BY <1>3, <1>5 DEF Effect
  <2>2. finishedBy' = finishedBy
    BY <1>4, <2>1
  <2> QED BY <1>4, <2>1, <2>2 DEF Shape, Quiet
<1>6. CASE HoldsLease(row[a], k.token)
  <2>0. row[a] \in Row /\ row[a].status = "IN_PROGRESS" /\ row[a].token = k.token
    BY <1>2, <1>4, <1>6, Zenon DEF HoldsLease
  <2>1. CASE k.op = "complete"
    <3>1. row' = [row EXCEPT ![a] = Freed(row[a], "COMPLETED")]
      BY <1>3, <1>6, <2>1, <1>4, <1>2, Zenon DEF Effect
    <3>2. row'[a].status = "COMPLETED" /\ \A x \in Agents \ {a} : row'[x] = row[x]
      BY <3>1, <1>4, <1>2, <2>0 DEF Freed, Row
    <3>3. finishedBy' = [finishedBy EXCEPT ![a] = row[a].token]
      BY <3>2, <1>4, <1>2, <2>0, Zenon
    <3> QED BY <1>2, <1>4, <2>0, <3>1, <3>3, Zenon DEF Shape, Finishes
  <2>2. CASE k.op = "release"
    <3>1. row' = [row EXCEPT ![a] = Freed(row[a], "NEW")]
      BY <1>3, <1>6, <2>2, <1>4, <1>2, Zenon DEF Effect
    <3>2. row'[a].status = "NEW" /\ \A x \in Agents \ {a} : row'[x] = row[x]
      BY <3>1, <1>4, <1>2, <2>0, Zenon DEF Freed, Row
    <3>3. finishedBy' = finishedBy
      BY <3>2, <1>4, <1>2
    <3> QED BY <1>2, <1>4, <2>0, <3>1, <3>3, Zenon DEF Shape, GivesBack
  <2>3. CASE k.op = "renew"
    <3>1. row' = [row EXCEPT ![a] = [row[a] EXCEPT !.lapsed = FALSE]]
      BY <1>3, <1>6, <2>3, <1>4, <1>2, ZenonT(40) DEF Effect
    <3>2. row'[a].status = row[a].status /\ \A x \in Agents \ {a} : row'[x] = row[x]
      BY <3>1, <1>4, <1>2, <2>0, Zenon DEF Row
    <3>3. finishedBy' = finishedBy
      BY <3>2, <1>4, <1>2, <2>0
    <3> QED BY <1>2, <1>4, <2>0, <3>1, <3>3, Zenon DEF Shape, Lapses
  <2>4. CASE k.op = "complete_and_out" /\ AcceptsOutput(k) /\ Fresh(b)
    <3>0. k.queue \in Queues /\ k.node \in Nodes /\ k.shard = Target(k.node, k.queue)
      BY <1>0, <1>1, <1>a, <2>4, Zenon DEF AcceptsOutput, Call
    <3>h. k.shard \in Shards /\ Home(file, rehashed, k.queue, k.shard)
      BY <3>0, TargetIsHome, Zenon
    <3>1. row' = [row EXCEPT ![a] = Freed(row[a], "COMPLETED"), ![b] = NewRow(k.shard, k.queue)]
      BY <1>3, <1>6, <2>4, <1>4, <1>2, Zenon DEF Effect
    <3>2. k.queue \in Queues /\ row[b].status = "NONE" /\ a # b
      BY <3>0, <2>4, <2>0, Zenon DEF Fresh
    <3>3. /\ row'[a].status = "COMPLETED" /\ row'[b].status = "NEW"
          /\ \A x \in Agents \ {a, b} : row'[x] = row[x]
      BY <3>1, <3>2, <1>4, <1>2, <2>0, Zenon DEF Freed, Row, NewRow
    <3>4. finishedBy' = [finishedBy EXCEPT ![a] = row[a].token]
      BY <3>2, <3>3, <1>4, <1>2, <2>0, Zenon
    <3>5. FinishesWith(a, b)
      BY <1>4, <2>0, <3>h, <3>1, <3>2, <3>4, ZenonT(40) DEF FinishesWith
    <3> QED BY <1>2, <3>5, Zenon DEF Shape
  <2>5. CASE k.op = "complete_and_out" /\ ~(AcceptsOutput(k) /\ Fresh(b))
    <3>1. row' = row
      BY <1>3, <1>6, <2>5, Zenon DEF Effect
    <3>2. finishedBy' = finishedBy
      BY <1>4, <3>1
    <3> QED BY <1>4, <3>1, <3>2 DEF Shape, Quiet
  <2> QED BY <1>1, <2>1, <2>2, <2>3, <2>4, <2>5, Zenon DEF Call, Operations
<1> QED BY <1>5, <1>6

\* Every step has one of the shapes.
LEMMA StepShape ==
    ASSUME IInv, [Next]_vars
    PROVE  Shape
<1>0. /\ row \in [Agents -> Row] /\ map \in [Nodes -> Owners] /\ down \subseteq Shards
      /\ issued \in Seq(Agents)
      /\ \A a \in Agents : RowIsSound(a)
  BY DEF IInv, TypeOK
<1> USE DEF Shape
<1>1. ASSUME NEW n \in Nodes, NEW a \in Agents, NEW q \in Queues, Out(n, a, q) PROVE Shape
  <2>1. Inserts(a)
    BY <1>1, TargetIsHome, Zenon DEF Out, Inserts, Fresh
  <2> QED BY <2>1
<1>2. ASSUME NEW n \in Nodes, NEW q \in Queues, NEW a \in Agents, Take(n, q, a) PROVE Shape
  <2>1. Len(issued') = Len(issued) + 1
    BY <1>0, <1>2 DEF Take
  <2>2. Claims(a)
    BY <1>0, <1>2, <2>1, Zenon DEF Take, Claims
  <2> QED BY <2>2, Zenon
<1>3. ASSUME NEW c \in Calls, Perform(c) PROVE Shape
  BY <1>3, PerformShape
<1>4. ASSUME NEW n \in Nodes, NEW a \in Agents, NEW q \in Queues \cup {NoQueue},
             NEW bound \in BOOLEAN, Update(n, a, q, bound)
      PROVE  Shape
  <2>0. DOMAIN map[n] \subseteq Shards
    BY MapsAreOfShards
  <2>1. row[a].shard \in Shards
    BY <1>4, <2>0, Zenon DEF Update, Found, Connected
  <2>2. row[a].status # "NONE"
    BY <1>0, <2>1, ShardMapAssumption DEF RowIsSound, NoRow
  <2>3. moved' = moved \cup {a} \/ (moved' = moved \ {a} /\ Home(file, rehashed, q, row[a].shard))
    BY <1>4, TargetIsHome, Zenon DEF Update
  <2>4. row' = [row EXCEPT ![a] = [row[a] EXCEPT !.queue = q]] /\ UNCHANGED <<issued, finishedBy>>
    BY <1>0, <1>4, Zenon DEF Update
  <2>5. Moves(a)
    BY <2>2, <2>3, <2>4, Zenon DEF Moves
  <2> QED BY <2>5, Zenon
<1>5. ASSUME NEW a \in Agents, LeaseLapses(a) PROVE Shape
  <2>1. Lapses(a)
    BY <1>0, <1>5, Zenon DEF LeaseLapses, Lapses
  <2> QED BY <2>1
<1>6. ASSUME NEW n \in Nodes, NEW a \in Agents, ReapExpiredLeases(n, a) PROVE Shape
  <2>1. row[a].status = "IN_PROGRESS"
    BY <1>0, <1>6 DEF ReapExpiredLeases, RowIsSound
  <2>2. GivesBack(a)
    BY <1>0, <1>6, <2>1, ZenonT(40) DEF ReapExpiredLeases, GivesBack
  <2> QED BY <2>2, Zenon
<1>7. ASSUME \/ \E n \in Nodes : NodeStart(n) \/ Rollout(n) \/ NodeCrash(n)
             \/ \E s \in Shards : ShardReturns(s) \/ ShardFails(s)
             \/ \E m \in Owners : NewMap(m)
             \/ \E c \in Calls : CallFails(c)
             \/ \E c \in Calls, n \in Nodes, op \in Operations, t \in DOMAIN issued,
                  q \in Queues \cup {NoQueue} : Lookup(c, n, op, t, q)
      PROVE  Shape
  BY <1>7 DEF NodeStart, Rollout, NodeCrash, ShardReturns, ShardFails, NewMap, CallFails, Lookup, Quiet
<1>8. CASE UNCHANGED vars
  BY <1>8, Zenon DEF vars, Quiet
<1> QED BY <1>1, <1>2, <1>3, <1>4, <1>5, <1>6, <1>7, <1>8, Zenon DEF Next, Progress

-----------------------------------------------------------------------------
(* The invariant *)

\* A step of any shape keeps the rows sound.
LEMMA RowsStaySound ==
    ASSUME IInv, Shape, HomesKept
    PROVE  /\ row' \in [Agents -> Row] /\ moved' \subseteq Agents
           /\ finishedBy' \in [Agents -> Tokens \cup {NoToken}]
           /\ issued' \in Seq(Agents) /\ Len(issued') <= MaxTokens
           /\ DOMAIN issued \subseteq DOMAIN issued'
           /\ \A a \in Agents : RowIsSound(a)'
<1> DEFINE Goal == /\ row' \in [Agents -> Row] /\ moved' \subseteq Agents
                   /\ finishedBy' \in [Agents -> Tokens \cup {NoToken}]
                   /\ issued' \in Seq(Agents) /\ Len(issued') <= MaxTokens
                   /\ DOMAIN issued \subseteq DOMAIN issued'
                   /\ \A a \in Agents : RowIsSound(a)'
<1>0. /\ row \in [Agents -> Row] /\ moved \subseteq Agents
      /\ finishedBy \in [Agents -> Tokens \cup {NoToken}]
      /\ issued \in Seq(Agents) /\ Len(issued) <= MaxTokens
      /\ \A a \in Agents : RowIsSound(a)
  BY DEF IInv, TypeOK
<1>h. \A q, s : Home(file, rehashed, q, s) => Home(file', rehashed', q, s)
  BY Zenon DEF HomesKept
<1>a. \A q \in Queues, s \in Shards : NewRow(s, q) \in Row
  BY Zenon DEF Row, NewRow
<1>k. ASSUME NEW x \in Agents, row'[x] = row[x], x \in moved' <=> x \in moved
      PROVE  RowIsSound(x)'
  BY <1>0, <1>h, <1>k, Zenon DEF RowIsSound
<1>b. \A r \in Row, s \in {"NEW", "COMPLETED"} :
         /\ Freed(r, s) \in Row
         /\ Freed(r, s).status = s /\ Freed(r, s).token = NoToken /\ Freed(r, s).lapsed = FALSE
         /\ Freed(r, s).queue = r.queue /\ Freed(r, s).shard = r.shard
  BY ZenonT(40) DEF Freed, Row
<1>1. CASE Quiet
  BY <1>0, <1>1, <1>k, Zenon DEF Quiet
<1>2. ASSUME NEW a \in Agents, Inserts(a) PROVE Goal
  <2>1. PICK q \in Queues, s \in Shards :
           row' = [row EXCEPT ![a] = NewRow(s, q)] /\ Home(file, rehashed, q, s)
    BY <1>2, Zenon DEF Inserts
  <2>2. row'[a] = NewRow(s, q)
    BY <1>0, <2>1, Zenon
  <2>3. RowIsSound(a)'
    <3>1. /\ row'[a].status = "NEW" /\ row'[a].token = NoToken /\ row'[a].lapsed = FALSE
          /\ row'[a].queue = q /\ row'[a].shard = s
      BY <2>2 DEF NewRow
    <3>2. Home(file', rehashed', q, s)
      BY <1>h, <2>1, Zenon
    <3> QED BY <3>1, <3>2, Zenon DEF RowIsSound
  <2>4. \A x \in Agents \ {a} : RowIsSound(x)'
    BY <1>0, <1>2, <1>k, <2>1, Zenon DEF Inserts
  <2> QED BY <1>0, <1>2, <1>a, <2>1, <2>3, <2>4, Zenon DEF Inserts
<1>3. ASSUME NEW a \in Agents, Claims(a) PROVE Goal
  <2>1. /\ issued' \in Seq(Agents) /\ Len(issued') <= MaxTokens
        /\ DOMAIN issued \subseteq DOMAIN issued' /\ Len(issued) + 1 \in Tokens
    BY <1>0, <1>3, ShardMapAssumption DEF Claims, Tokens
  <2>2. row' \in [Agents -> Row]
    <3>1. ASSUME NEW r \in Row, NEW t \in Tokens
          PROVE  [r EXCEPT !.status = "IN_PROGRESS", !.token = t] \in Row
      BY Zenon DEF Row
    <3>2. [row[a] EXCEPT !.status = "IN_PROGRESS", !.token = Len(issued) + 1] \in Row
      BY <1>0, <2>1, <3>1, Zenon
    <3> QED BY <1>0, <1>3, <3>2, Zenon DEF Claims
  <2>3. RowIsSound(a)'
    <3>1. /\ row'[a].status = "IN_PROGRESS" /\ row'[a].queue = row[a].queue
          /\ row'[a].shard = row[a].shard /\ moved' = moved /\ row[a].status # "NONE"
      BY <1>0, <1>3 DEF Claims, Row
    <3> QED BY <1>0, <1>h, <3>1, Zenon DEF RowIsSound
  <2>4. \A x \in Agents \ {a} : RowIsSound(x)'
    BY <1>0, <1>3, <1>k, Zenon DEF Claims
  <2> QED BY <1>0, <1>3, <2>1, <2>2, <2>3, <2>4, Zenon DEF Claims
<1>4. ASSUME NEW a \in Agents, Finishes(a) PROVE Goal
  <2>1. RowIsSound(a)'
    <3>1. row'[a] = Freed(row[a], "COMPLETED") /\ moved' = moved /\ row[a].status # "NONE"
      BY <1>0, <1>4, Zenon DEF Finishes
    <3>2. /\ row'[a].status = "COMPLETED" /\ row'[a].token = NoToken /\ row'[a].lapsed = FALSE
          /\ row'[a].queue = row[a].queue /\ row'[a].shard = row[a].shard
      BY <1>0, <1>b, <3>1
    <3> QED BY <1>0, <1>h, <3>1, <3>2, Zenon DEF RowIsSound
  <2>2. \A x \in Agents \ {a} : RowIsSound(x)'
    BY <1>0, <1>4, <1>k, Zenon DEF Finishes
  <2>3. row[a].token \in Tokens \cup {NoToken}
    BY <1>0 DEF Row
  <2> QED BY <1>0, <1>4, <1>b, <2>1, <2>2, <2>3, Zenon DEF Finishes
<1>5. ASSUME NEW a \in Agents, NEW b \in Agents, FinishesWith(a, b) PROVE Goal
  <2>1. PICK q \in Queues, s \in Shards :
           /\ row' = [row EXCEPT ![a] = Freed(row[a], "COMPLETED"), ![b] = NewRow(s, q)]
           /\ Home(file, rehashed, q, s)
    BY <1>5, Zenon DEF FinishesWith
  <2>2. a # b /\ UNCHANGED <<issued, moved>>
    BY <1>5 DEF FinishesWith
  <2>3. row'[a] = Freed(row[a], "COMPLETED") /\ row'[b] = NewRow(s, q)
    BY <1>0, <2>1, <2>2, Zenon
  <2>4. RowIsSound(a)'
    <3>1. row[a].status # "NONE" /\ moved' = moved
      BY <1>5, <2>2 DEF FinishesWith
    <3>2. /\ row'[a].status = "COMPLETED" /\ row'[a].token = NoToken /\ row'[a].lapsed = FALSE
          /\ row'[a].queue = row[a].queue /\ row'[a].shard = row[a].shard
      BY <1>0, <1>b, <2>3
    <3> QED BY <1>0, <1>h, <3>1, <3>2, Zenon DEF RowIsSound
  <2>5. RowIsSound(b)'
    <3>1. /\ row'[b].status = "NEW" /\ row'[b].token = NoToken /\ row'[b].lapsed = FALSE
          /\ row'[b].queue = q /\ row'[b].shard = s
      BY <2>3 DEF NewRow
    <3>2. Home(file', rehashed', q, s)
      BY <1>h, <2>1, Zenon
    <3> QED BY <3>1, <3>2, Zenon DEF RowIsSound
  <2>6. \A x \in Agents \ {a, b} : RowIsSound(x)'
    BY <1>0, <1>k, <2>1, <2>2, Zenon
  <2>7. row[a].token \in Tokens \cup {NoToken}
    BY <1>0 DEF Row
  <2> QED BY <1>0, <1>5, <1>a, <1>b, <2>1, <2>2, <2>4, <2>5, <2>6, <2>7, Zenon DEF FinishesWith
<1>6. ASSUME NEW a \in Agents, GivesBack(a) PROVE Goal
  <2>1. RowIsSound(a)'
    <3>1. row'[a] = Freed(row[a], "NEW") /\ moved' = moved /\ row[a].status # "NONE"
      BY <1>0, <1>6, Zenon DEF GivesBack
    <3>2. /\ row'[a].status = "NEW" /\ row'[a].token = NoToken /\ row'[a].lapsed = FALSE
          /\ row'[a].queue = row[a].queue /\ row'[a].shard = row[a].shard
      BY <1>0, <1>b, <3>1
    <3> QED BY <1>0, <1>h, <3>1, <3>2, Zenon DEF RowIsSound
  <2>2. \A x \in Agents \ {a} : RowIsSound(x)'
    BY <1>0, <1>6, <1>k, Zenon DEF GivesBack
  <2> QED BY <1>0, <1>6, <1>b, <2>1, <2>2, Zenon DEF GivesBack
<1>7. ASSUME NEW a \in Agents, Lapses(a) PROVE Goal
  <2>0. PICK l \in BOOLEAN : row' = [row EXCEPT ![a] = [row[a] EXCEPT !.lapsed = l]]
    BY <1>7, Zenon DEF Lapses
  <2>a. [row[a] EXCEPT !.lapsed = l] \in Row
    BY <1>0, Zenon DEF Row
  <2>1. row' \in [Agents -> Row]
    BY <1>0, <2>0, <2>a, Zenon
  <2>2. RowIsSound(a)'
    <3>1. /\ row'[a].status = "IN_PROGRESS" /\ row'[a].queue = row[a].queue
          /\ row'[a].shard = row[a].shard /\ moved' = moved /\ row[a].status = "IN_PROGRESS"
      BY <1>0, <1>7, <2>0 DEF Lapses, Row
    <3> QED BY <1>0, <1>h, <3>1, Zenon DEF RowIsSound
  <2>3. \A x \in Agents \ {a} : RowIsSound(x)'
    BY <1>0, <1>7, <1>k, Zenon DEF Lapses
  <2> QED BY <1>0, <1>7, <2>1, <2>2, <2>3, Zenon DEF Lapses
<1>8. ASSUME NEW a \in Agents, Moves(a) PROVE Goal
  <2>1. PICK q \in Queues \cup {NoQueue} :
          /\ row' = [row EXCEPT ![a] = [row[a] EXCEPT !.queue = q]]
          /\ moved' = moved \cup {a} \/ (moved' = moved \ {a} /\ Home(file, rehashed, q, row[a].shard))
    BY <1>8, Zenon DEF Moves
  <2>2. row' \in [Agents -> Row] /\ moved' \subseteq Agents
    <3>1. [row[a] EXCEPT !.queue = q] \in Row
      BY <1>0, Zenon DEF Row
    <3>2. row' \in [Agents -> Row]
      BY <1>0, <2>1, <3>1, Zenon
    <3> QED BY <1>0, <2>1, <3>2, Zenon
  <2>3. RowIsSound(a)'
    <3>1. /\ row'[a].status = row[a].status /\ row'[a].queue = q /\ row'[a].shard = row[a].shard
          /\ row'[a].token = row[a].token /\ row'[a].lapsed = row[a].lapsed
      BY <1>0, <2>1 DEF Row
    <3>2. row[a].status # "NONE" /\ row[a].shard \in Shards
      BY <1>0, <1>8, Zenon DEF Moves, RowIsSound
    <3>3. a \notin moved' => Home(file', rehashed', q, row[a].shard)
      BY <1>h, <2>1, Zenon
    <3> QED BY <1>0, <3>1, <3>2, <3>3, Zenon DEF RowIsSound
  <2>4. \A x \in Agents \ {a} : RowIsSound(x)'
    <3>1. ASSUME NEW x \in Agents \ {a} PROVE row'[x] = row[x] /\ (x \in moved' <=> x \in moved)
      BY <1>0, <2>1, Zenon
    <3> QED BY <1>k, <3>1, Zenon
  <2> QED BY <1>0, <1>8, <2>2, <2>3, <2>4, Zenon DEF Moves
<1> QED BY <1>1, <1>2, <1>3, <1>4, <1>5, <1>6, <1>7, <1>8, Zenon DEF Shape

\* The nodes, maps and calls keep their types, and calls name issued tokens.
LEMMA DeploymentStaysTyped ==
    ASSUME IInv, [Next]_vars
    PROVE  /\ backend' \in {"postgres", "valkey"}
           /\ file' \in Owners /\ map' \in [Nodes -> Owners]
           /\ live' \subseteq Nodes /\ down' \subseteq Shards /\ faults' \in 0..MaxFaults
           /\ call' \in [Calls -> Call \cup {NoCall}] /\ rehashed' \subseteq Queues
           /\ \A c \in Calls : call'[c] # NoCall => CallIsSound(call'[c], DOMAIN issued)
           /\ MapsAgree' /\ HomesKept
<1> DEFINE Sound(k) == CallIsSound(k, DOMAIN issued)
           Typed == /\ backend' \in {"postgres", "valkey"}
                    /\ file' \in Owners /\ map' \in [Nodes -> Owners]
                    /\ live' \subseteq Nodes /\ down' \subseteq Shards /\ faults' \in 0..MaxFaults
                    /\ rehashed' \subseteq Queues /\ MapsAgree' /\ HomesKept
           CallsTyped == /\ call' \in [Calls -> Call \cup {NoCall}]
                         /\ \A c \in Calls : call'[c] # NoCall => Sound(call'[c])
<1>0. /\ backend \in {"postgres", "valkey"} /\ file \in Owners /\ map \in [Nodes -> Owners]
      /\ live \subseteq Nodes /\ down \subseteq Shards /\ faults \in 0..MaxFaults
      /\ call \in [Calls -> Call \cup {NoCall}] /\ row \in [Agents -> Row]
      /\ issued \in Seq(Agents) /\ Len(issued) <= MaxTokens
      /\ \A c \in Calls : call[c] # NoCall => Sound(call[c])
      /\ rehashed \subseteq Queues /\ MapsAgree
  BY Zenon DEF IInv, TypeOK
<1>a. ASSUME file' = file, map' = map, rehashed' = rehashed PROVE MapsAgree' /\ HomesKept
  BY <1>0, <1>a, Zenon DEF MapsAgree, HomesKept
<1>1. CASE UNCHANGED <<deployment, call>>
  BY <1>0, <1>1, <1>a, Zenon DEF deployment
<1>2. ASSUME NEW c \in Calls, NEW n \in Nodes, NEW op \in Operations, NEW t \in DOMAIN issued,
             NEW q \in Queues \cup {NoQueue}, Lookup(c, n, op, t, q)
      PROVE  Typed /\ CallsTyped
  <2>1. issued[t] \in Agents /\ t \in Tokens
    BY <1>0, ShardMapAssumption DEF Tokens
  <2>2. row[issued[t]].shard \in Shards
    BY <1>2, MapsAreOfShards, Zenon DEF Lookup, Found, Hinted, Connected
  <2> DEFINE new == [op |-> op, node |-> n, token |-> t, shard |-> row[issued[t]].shard, queue |-> q]
  <2>3. call' = [call EXCEPT ![c] = new] /\ UNCHANGED deployment
    BY <1>2, Zenon DEF Lookup
  <2>4. new \in Call /\ new.token = t /\ new.op = op /\ new.queue = q
    BY <2>1, <2>2, Zenon DEF Call
  <2>5. op = "complete_and_out" => q \in Queues
    BY <1>2, Zenon DEF Lookup
  <2>6. Sound(new)
    BY <2>4, <2>5, Zenon DEF CallIsSound
  <2> HIDE DEF new, Sound
  <2> QED BY <1>0, <1>a, <2>3, <2>4, <2>6, Zenon DEF deployment
<1>3. ASSUME NEW c \in Calls, Perform(c) \/ CallFails(c) PROVE Typed /\ CallsTyped
  BY <1>0, <1>a, <1>3, Zenon DEF Perform, CallFails, deployment
<1>4. ASSUME NEW n \in Nodes, Stop(n) PROVE live' \subseteq Nodes /\ CallsTyped
  BY <1>0, <1>4, Zenon DEF Stop
<1>5. ASSUME NEW n \in Nodes, NodeCrash(n) PROVE Typed /\ CallsTyped
  <2>1. faults' \in 0..MaxFaults
    BY <1>0, <1>5, ShardMapAssumption DEF NodeCrash, Fault
  <2> QED BY <1>0, <1>a, <1>4, <1>5, <2>1, Zenon DEF NodeCrash
<1>6. ASSUME NEW n \in Nodes, Rollout(n) PROVE Typed /\ CallsTyped
  BY <1>0, <1>a, <1>4, <1>6, Zenon DEF Rollout
<1>7. ASSUME NEW n \in Nodes, NodeStart(n) PROVE Typed /\ CallsTyped
  <2>1. MapsAgree'
    BY <1>0, <1>7, Zenon DEF NodeStart, MapsAgree
  <2>2. HomesKept
    BY <1>7, Zenon DEF NodeStart, HomesKept
  <2> QED BY <1>0, <1>7, <2>1, <2>2, Zenon DEF NodeStart
<1>8. ASSUME NEW m \in Owners, NewMap(m) PROVE Typed /\ CallsTyped
  <2>1. faults' \in 0..MaxFaults
    BY <1>0, <1>8, ShardMapAssumption DEF NewMap, Fault
  <2>2. /\ rehashed' = rehashed \cup {q \in Queues : Hash[m][q] # Hash[file][q]}
        /\ file' = m /\ map' = map
    BY <1>8, Zenon DEF NewMap
  <2>3. \A q \in Queues \ rehashed' : q \notin rehashed /\ Hash[file'][q] = Hash[file][q]
    BY <2>2, Zenon
  <2>4. MapsAgree'
    BY <1>0, <2>2, <2>3, Zenon DEF MapsAgree
  <2>5. HomesKept
    BY <2>3, Zenon DEF HomesKept, Home
  <2> QED BY <1>0, <1>8, <2>1, <2>2, <2>4, <2>5, Zenon DEF NewMap
<1>9. ASSUME NEW s \in Shards, ShardFails(s) \/ ShardReturns(s) PROVE Typed /\ CallsTyped
  <2>1. faults' \in 0..MaxFaults /\ down' \subseteq Shards
    BY <1>0, <1>9, ShardMapAssumption DEF ShardFails, ShardReturns, Fault
  <2> QED BY <1>0, <1>a, <1>9, <2>1, Zenon DEF ShardFails, ShardReturns
<1>10. ASSUME NEW n \in Nodes, NEW a \in Agents, NEW q \in Queues \cup {NoQueue},
              \/ Out(n, a, q) \/ Take(n, q, a)
              \/ \E bound \in BOOLEAN : Update(n, a, q, bound)
       PROVE  UNCHANGED <<deployment, call>>
  BY <1>10, Zenon DEF Out, Take, Update
<1>11. ASSUME NEW a \in Agents, LeaseLapses(a) PROVE UNCHANGED <<deployment, call>>
  BY <1>11 DEF LeaseLapses
<1>12. ASSUME NEW n \in Nodes, NEW a \in Agents, ReapExpiredLeases(n, a)
       PROVE  UNCHANGED <<deployment, call>>
  BY <1>12, Zenon DEF ReapExpiredLeases
<1>13. CASE UNCHANGED vars
  BY <1>1, <1>13 DEF vars, deployment
<1> QED BY <1>1, <1>2, <1>3, <1>5, <1>6, <1>7, <1>8, <1>9, <1>10, <1>11, <1>12, <1>13, Zenon
        DEF Next, Progress

\* The inductive invariant holds: the homes and leases of the agents stay sound
\* through every call, crash, rollout and failing shard of New, Out, Take, the
\* lease calls and the reapers.
THEOREM IInvHolds == Spec => []IInv
<1>1. Init => IInv
  <2> SUFFICES ASSUME Init PROVE IInv
    BY Zenon
  <2>1. NoRow \in Row
    BY DEF NoRow, Row
  <2>2. TypeOK
    BY <2>1, ShardMapAssumption DEF Init, TypeOK
  <2>3. \A a \in Agents : RowIsSound(a)
    BY Zenon DEF Init, RowIsSound, NoRow
  <2>4. MapsAgree
    BY Zenon DEF Init, MapsAgree
  <2> QED BY <2>2, <2>3, <2>4 DEF Init, IInv
<1>2. IInv /\ [Next]_vars => IInv'
  <2> SUFFICES ASSUME IInv, [Next]_vars PROVE IInv'
    OBVIOUS
  <2>1. Shape
    BY StepShape
  <2>2. HomesKept
    BY DeploymentStaysTyped, Zenon
  <2>3. \A c \in Calls : call'[c] # NoCall => CallIsSound(call'[c], DOMAIN issued')
    <3>1. DOMAIN issued \subseteq DOMAIN issued'
      BY <2>1, <2>2, RowsStaySound, Zenon
    <3>2. \A c \in Calls : call'[c] # NoCall => CallIsSound(call'[c], DOMAIN issued)
      BY DeploymentStaysTyped, Zenon
    <3> QED BY <3>1, <3>2, Zenon DEF CallIsSound
  <2> QED BY <2>1, <2>2, <2>3, RowsStaySound, DeploymentStaysTyped, Zenon DEF IInv, TypeOK
<1> QED BY <1>1, <1>2, PTL DEF Spec

-----------------------------------------------------------------------------
(* The results *)

\* Out, CompleteAndOut and Update: for every number of nodes and shards, every
\* hash and every sequence of shard maps, also maps that list other shards, an
\* agent that no update has moved, of a queue that no map sent to another shard,
\* is where the takes of its queue look for it, at every node.
THEOREM Placement == Spec => []AgentsAreWhereTakesLook
<1>1. IInv => AgentsAreWhereTakesLook
  BY Zenon DEF IInv, MapsAgree, RowIsSound, Home, Target, AgentsAreWhereTakesLook
<1> QED BY <1>1, IInvHolds, PTL

\* Every behaviour of the nodes and shards together is a behaviour of AgentSpace:
\* Take, Complete, CompleteAndOut, Release, RenewLease and the reapers keep the
\* contract although nodes may disagree on who owns a shard.
THEOREM ShardedRefinement == Spec => ImplementsContract
<1>1. Init => Contract!Init
  BY DEF Init, NoRow, Contract!Init
<1>2. IInv /\ [Next]_vars => [Contract!Next]_(Contract!vars)
  <2> SUFFICES ASSUME IInv, [Next]_vars
               PROVE  Contract!Next \/ UNCHANGED Contract!vars
    BY Zenon
  <2>0. /\ row \in [Agents -> Row] /\ issued \in Seq(Agents)
        /\ finishedBy \in [Agents -> Tokens \cup {NoToken}]
        /\ \A a \in Agents : RowIsSound(a)
    BY DEF IInv, TypeOK
  <2>1. CASE Quiet
    BY <2>1 DEF Quiet, Contract!vars
  <2>2. ASSUME NEW a \in Agents, Inserts(a) PROVE Contract!Publish({a})
    <3>1. row'[a].status = "NEW" /\ row'[a].token = NoToken
      BY <2>0, <2>2 DEF Inserts, NewRow
    <3>2. row[a].token = NoToken
      BY <2>0, <2>2 DEF Inserts, RowIsSound
    <3>3. \A x \in Agents \ {a} : row'[x] = row[x]
      BY <2>0, <2>2 DEF Inserts
    <3> QED BY <2>2, <3>1, <3>2, <3>3, Zenon DEF Inserts, Contract!Publish
  <2>3. ASSUME NEW a \in Agents, Claims(a)
        PROVE  \E S \in SUBSET Agents : \E tok \in [S -> Tokens] : Contract!Claim(S, tok)
    <3> DEFINE t == Len(issued) + 1
    <3>1. t \in Tokens /\ t \notin DOMAIN issued /\ DOMAIN issued' = DOMAIN issued \cup {t}
      BY <2>0, <2>3, ShardMapAssumption DEF Claims, Tokens
    <3>2. row'[a].status = "IN_PROGRESS" /\ row'[a].token = t
      BY <2>0, <2>3 DEF Claims, Row
    <3>3. \A x \in Agents \ {a} : row'[x] = row[x]
      BY <2>0, <2>3 DEF Claims
    <3> HIDE DEF t
    <3>4. [x \in {a} |-> t] \in [{a} -> Tokens]
      BY <3>1
    <3>5. Contract!Claim({a}, [x \in {a} |-> t])
      BY <2>3, <3>1, <3>2, <3>3 DEF Claims, Contract!Claim
    <3> DEFINE S == {a}
               tok == [x \in {a} |-> t]
    <3>6. S \in SUBSET Agents /\ tok \in [S -> Tokens] /\ Contract!Claim(S, tok)
      BY <3>4, <3>5
    <3> HIDE DEF S, tok
    <3> QED BY <3>6, ZenonT(40) DEF Contract!Claim
  <2>4. ASSUME NEW a \in Agents, Finishes(a) PROVE Contract!Finish(a, {})
    <3>1. row'[a].status = "COMPLETED" /\ row'[a].token = NoToken
      BY <2>0, <2>4, Zenon DEF Finishes, Freed, Row
    <3>2. \A x \in Agents \ {a} : row'[x] = row[x]
      BY <2>0, <2>4, Zenon DEF Finishes
    <3>3. [x \in Agents |-> row'[x].status]
            = [x \in Agents |-> IF x = a THEN "COMPLETED" ELSE IF x \in {} THEN "NEW" ELSE row[x].status]
      BY <3>1, <3>2
    <3>4. [x \in Agents |-> row'[x].token] = [[x \in Agents |-> row[x].token] EXCEPT ![a] = NoToken]
      BY <3>1, <3>2, Zenon
    <3> QED BY <2>4, <3>3, <3>4, Zenon DEF Finishes, Contract!Finish
  <2>5. ASSUME NEW a \in Agents, NEW b \in Agents, FinishesWith(a, b)
        PROVE  Contract!Finish(a, {b})
    <3>0. PICK q \in Queues, s \in Shards :
             row' = [row EXCEPT ![a] = Freed(row[a], "COMPLETED"), ![b] = NewRow(s, q)]
      BY <2>5, Zenon DEF FinishesWith
    <3>1. a # b
      BY <2>5 DEF FinishesWith
    <3>a. row'[a] = Freed(row[a], "COMPLETED") /\ row'[b] = NewRow(s, q)
      BY <2>0, <3>0, <3>1, Zenon
    <3>2. /\ row'[a].status = "COMPLETED" /\ row'[a].token = NoToken
          /\ row'[b].status = "NEW" /\ row'[b].token = NoToken
      BY <2>0, <3>a DEF Freed, Row, NewRow
    <3>3. row[b].token = NoToken
      BY <2>0, <2>5, Zenon DEF FinishesWith, RowIsSound
    <3>4. \A x \in Agents \ {a, b} : row'[x] = row[x]
      BY <2>0, <2>5 DEF FinishesWith
    <3>5. [x \in Agents |-> row'[x].status]
            = [x \in Agents |-> IF x = a THEN "COMPLETED" ELSE IF x \in {b} THEN "NEW" ELSE row[x].status]
      BY <3>1, <3>2, <3>4, Zenon
    <3>6. [x \in Agents |-> row'[x].token] = [[x \in Agents |-> row[x].token] EXCEPT ![a] = NoToken]
      BY <3>1, <3>2, <3>3, <3>4, Zenon
    <3> QED BY <2>5, <3>5, <3>6, Zenon DEF FinishesWith, Contract!Finish
  <2>6. ASSUME NEW a \in Agents, GivesBack(a) PROVE Contract!GiveBack({a})
    <3>1. row'[a].status = "NEW" /\ row'[a].token = NoToken
      BY <2>0, <2>6, Zenon DEF GivesBack, Freed, Row
    <3>2. \A x \in Agents \ {a} : row'[x] = row[x]
      BY <2>0, <2>6 DEF GivesBack
    <3> QED BY <2>6, <3>1, <3>2 DEF GivesBack, Contract!GiveBack
  <2>7. ASSUME NEW a \in Agents, Lapses(a) \/ Moves(a) PROVE UNCHANGED Contract!vars
    <3>1. row'[a].status = row[a].status /\ row'[a].token = row[a].token
      BY <2>0, <2>7 DEF Lapses, Moves, Row
    <3>2. \A x \in Agents \ {a} : row'[x] = row[x]
      BY <2>0, <2>7, Zenon DEF Lapses, Moves
    <3> QED BY <2>7, <3>1, <3>2, Zenon DEF Lapses, Moves, Contract!vars
  <2>8. Shape
    BY StepShape
  <2> QED BY <2>1, <2>2, <2>3, <2>4, <2>5, <2>6, <2>7, <2>8, Zenon DEF Shape, Contract!Next
<1> QED BY <1>1, <1>2, IInvHolds, PTL DEF Spec, ImplementsContract, Contract!Spec

-----------------------------------------------------------------------------
(***************************************************************************)
(* The lists merged from the shards, with the constants and variables of   *)
(* ShardedReads.                                                           *)
(*                                                                         *)
(* Pages rest on two facts about the lists of any length: Sorted has each  *)
(* item at its Place, and Cut keeps those whose place is within the limits *)
(* of the page.  A place only grows while items are recorded, so what a    *)
(* shard leaves out of its own page is not on the merged one either.       *)
(***************************************************************************)
INSTANCE FiniteSetTheorems

\* What an order goes by.
Key(i, order) == IF order = "stream" THEN i.pos ELSE i.at

\* A finite set of items that an order tells apart.
Distinct(S, order) ==
    IsFiniteSet(S) /\ \A i, j \in S : Key(i, order) \in Nat /\ (Key(i, order) = Key(j, order) => i = j)

\* An item moves back when others are recorded, never forward.
LEMMA PlaceMonotone ==
    ASSUME NEW S, NEW T, IsFiniteSet(T), S \subseteq T, NEW i, NEW kind
    PROVE  Place(i, S, kind) \in Nat /\ Place(i, T, kind) \in Nat
           /\ Place(i, S, kind) <= Place(i, T, kind)
<1> DEFINE A == {j \in S : j = i \/ Before(j, i, kind)}
           B == {j \in T : j = i \/ Before(j, i, kind)}
<1>1. A \subseteq B /\ B \subseteq T
      BY Zenon
<1>2. Place(i, S, kind) = Cardinality(A) /\ Place(i, T, kind) = Cardinality(B)
      BY DEF Place
<1>3. IsFiniteSet(B)
      BY <1>1, FS_Subset, Zenon
<1>4. IsFiniteSet(A) /\ Cardinality(A) <= Cardinality(B)
      BY <1>1, <1>3, FS_Subset, Zenon
<1> QED  BY <1>2, <1>3, <1>4, FS_CardinalityType, Zenon

\* Positions go from 1 to the number of items and are in the order of the list.
LEMMA PlaceFacts ==
    ASSUME NEW S, NEW kind, Distinct(S, kind)
    PROVE  /\ \A i \in S : Place(i, S, kind) \in 1..Cardinality(S)
           /\ \A i, j \in S : Before(i, j, kind) => Place(i, S, kind) < Place(j, S, kind)
           /\ \A i, j \in S : i = j \/ Before(i, j, kind) \/ Before(j, i, kind)
           /\ \A i, j \in S : Place(i, S, kind) = Place(j, S, kind) => i = j
<1> DEFINE A(i) == {j \in S : j = i \/ Before(j, i, kind)}
<1>1. ASSUME NEW i
      PROVE  /\ Place(i, S, kind) = Cardinality(A(i)) /\ A(i) \subseteq S
             /\ IsFiniteSet(A(i)) /\ Cardinality(A(i)) \in Nat
             /\ Cardinality(A(i)) <= Cardinality(S)
  <2>1. Place(i, S, kind) = Cardinality(A(i)) /\ A(i) \subseteq S
        BY DEF Place
  <2> QED  BY <2>1, FS_Subset, FS_CardinalityType, Zenon DEF Distinct
<1>2. Cardinality(S) \in Nat
      BY FS_CardinalityType, Zenon DEF Distinct
<1>3. ASSUME NEW i \in S
      PROVE  Place(i, S, kind) \in 1..Cardinality(S)
  <2>1. {i} \subseteq A(i)
        BY Zenon
  <2>2. Cardinality({i}) = 1 /\ Cardinality({i}) <= Cardinality(A(i))
        BY <1>1, <2>1, FS_Subset, FS_Singleton, Zenon
  <2> QED  BY <1>1, <1>2, <2>2
<1>4. ASSUME NEW i \in S, NEW j \in S, Before(i, j, kind)
      PROVE  Place(i, S, kind) < Place(j, S, kind)
  <2>1. A(i) \subseteq A(j) /\ j \in A(j) /\ j \notin A(i)
        BY <1>4 DEF Before, Distinct, Key
  <2>2. Cardinality(A(i)) <= Cardinality(A(j)) /\ Cardinality(A(i)) # Cardinality(A(j))
        BY <1>1, <2>1, FS_Subset, Zenon
  <2> QED  BY <1>1, <2>2
<1>5. \A i, j \in S : i = j \/ Before(i, j, kind) \/ Before(j, i, kind)
      BY DEF Before, Distinct, Key
<1>6. ASSUME NEW i \in S, NEW j \in S, Place(i, S, kind) = Place(j, S, kind)
      PROVE  i = j
  <2>1. Place(i, S, kind) \in Nat /\ Place(j, S, kind) \in Nat
        BY <1>1, Zenon
  <2>2. ~Before(i, j, kind) /\ ~Before(j, i, kind)
        BY <1>4, <1>6, <2>1
  <2> QED  BY <1>5, <2>2, Zenon
<1> QED  BY <1>3, <1>4, <1>5, <1>6, Zenon

\* Sorted lists every item once, at its position.
LEMMA SortedFacts ==
    ASSUME NEW S, NEW kind, Distinct(S, kind)
    PROVE  /\ Sorted(S, kind) \in Seq(S) /\ Len(Sorted(S, kind)) = Cardinality(S)
           /\ Cardinality(S) \in Nat
           /\ \A n \in 1..Cardinality(S) :
                 Sorted(S, kind)[n] \in S /\ Place(Sorted(S, kind)[n], S, kind) = n
<1> DEFINE N == Cardinality(S)
           f == [i \in S |-> Place(i, S, kind)]
<1>1. N \in Nat /\ IsFiniteSet(1..N) /\ Cardinality(1..N) = N
  <2>1. N \in Nat
        BY FS_CardinalityType, Zenon DEF Distinct
  <2>2. 1 \in Int /\ N \in Int
        BY <2>1
  <2>3. IsFiniteSet(1..N) /\ Cardinality(1..N) = IF 1 > N THEN 0 ELSE N - 1 + 1
        BY <2>2, FS_Interval, Zenon
  <2> QED  BY <2>1, <2>3
<1>2. f \in Injection(S, 1..N)
  <2>1. f \in [S -> 1..N]
        BY PlaceFacts, Zenon
  <2>2. ASSUME NEW i \in S, NEW j \in S, f[i] = f[j]
        PROVE  i = j
        BY <2>2, PlaceFacts, Zenon
  <2> QED  BY <2>1, <2>2, Zenon DEF Injection, IsInjective
<1>3. f \in Surjection(S, 1..N)
      BY <1>1, <1>2, FS_Injection, Zenon DEF Distinct
<1>4. \A n \in 1..N : \E i \in S : Place(i, S, kind) = n
      BY <1>3, Zenon DEF Surjection
<1>5. Sorted(S, kind) = [n \in 1..N |-> CHOOSE i \in S : Place(i, S, kind) = n]
      BY Zenon DEF Sorted
<1>6. \A n \in 1..N : Sorted(S, kind)[n] \in S /\ Place(Sorted(S, kind)[n], S, kind) = n
      BY <1>4, <1>5, Zenon
<1>7. Sorted(S, kind) \in Seq(S) /\ Len(Sorted(S, kind)) = N
      BY <1>1, <1>5, <1>6
<1> QED  BY <1>1, <1>6, <1>7, Zenon

\* What is left of a list of which the first m elements are skipped.
LEMMA SubSeqFacts ==
    ASSUME NEW S, NEW s \in Seq(S), NEW m \in Nat, NEW k \in m..Len(s)
    PROVE  LET part == SubSeq(s, m + 1, k) IN
           /\ part \in Seq(S) /\ DOMAIN part = 1..(k - m)
           /\ \A n \in 1..(k - m) : part[n] = s[m + n]
<1>1. /\ SubSeq(s, m + 1, k) = [n \in 1..(k - m) |-> s[m + n]] /\ k - m \in Nat
      /\ \A n \in 1..(k - m) : s[m + n] \in S
  OBVIOUS
<1> QED  BY <1>1

\* A page holds the items of its positions, in their order.
LEMMA CutFacts ==
    ASSUME NEW S, NEW kind, Distinct(S, kind), NEW limit \in Nat, NEW offset \in Nat
    PROVE  LET page == Cut(Sorted(S, kind), limit, offset) IN
           /\ page \in Seq(S)
           /\ \A n \in DOMAIN page : page[n] \in S /\ Place(page[n], S, kind) = offset + n
           /\ \A i \in S :
                 /\ offset < Place(i, S, kind)
                 /\ Place(i, S, kind) <= offset + limit
                 => i \in Range(page)
<1> DEFINE list == Sorted(S, kind)
           page == Cut(list, limit, offset)
           last == IF offset + limit < Len(list) THEN offset + limit ELSE Len(list)
<1>1. /\ list \in Seq(S) /\ Len(list) = Cardinality(S) /\ Len(list) \in Nat
      /\ \A n \in 1..Len(list) : list[n] \in S /\ Place(list[n], S, kind) = n
      BY SortedFacts, Zenon
<1>2. \A i \in S : Place(i, S, kind) \in 1..Len(list) /\ list[Place(i, S, kind)] = i
  <2>1. SUFFICES ASSUME NEW i \in S
                 PROVE  Place(i, S, kind) \in 1..Len(list) /\ list[Place(i, S, kind)] = i
        BY Zenon
  <2>2. Place(i, S, kind) \in 1..Len(list)
        BY <1>1, PlaceFacts, Zenon
  <2>3. PICK j \in S : j = list[Place(i, S, kind)] /\ Place(j, S, kind) = Place(i, S, kind)
        BY <1>1, <2>2, Zenon
  <2> QED  BY <2>2, <2>3, PlaceFacts, Zenon
<1> HIDE DEF list
<1>3. CASE offset >= Len(list)
  <2>1. page = <<>>
        BY <1>3, Zenon DEF Cut
  <2> QED  BY <1>1, <1>2, <1>3, <2>1 DEF list
<1>4. CASE offset < Len(list)
  <2>1. page = SubSeq(list, offset + 1, last) /\ last \in offset..Len(list)
        BY <1>1, <1>4 DEF Cut
  <2>2. /\ page \in Seq(S) /\ DOMAIN page = 1..(last - offset)
        /\ \A n \in 1..(last - offset) : page[n] = list[offset + n]
    <3> HIDE DEF last
    <3>1. page = SubSeq(list, offset + 1, last)
      BY <2>1, Zenon
    <3> HIDE DEF page
    <3> QED  BY <1>1, <2>1, <3>1, SubSeqFacts
  <2> HIDE DEF page, last
  <2>3. \A n \in DOMAIN page : page[n] \in S /\ Place(page[n], S, kind) = offset + n
    <3>1. SUFFICES ASSUME NEW n \in 1..(last - offset)
                   PROVE  page[n] \in S /\ Place(page[n], S, kind) = offset + n
          BY <2>2, Zenon
    <3>2. last \in Nat /\ last <= Len(list) /\ Len(list) \in Nat
          BY <1>1, <2>1
    <3>3. offset + n \in 1..Len(list)
          BY <3>2
    <3>4. page[n] = list[offset + n]
          BY <2>2, Zenon
    <3> QED  BY <1>1, <3>3, <3>4, Zenon
  <2>4. ASSUME NEW i \in S, offset < Place(i, S, kind), Place(i, S, kind) <= offset + limit
        PROVE  i \in Range(page)
    <3> DEFINE n == Place(i, S, kind)
    <3>0. n \in 1..Len(list) /\ list[n] = i /\ offset < n /\ n <= offset + limit
          BY <1>2, <2>4, Zenon
    <3> HIDE DEF n
    <3>1. n - offset \in 1..(last - offset)
          BY <1>1, <2>1, <3>0 DEF last
    <3>2. page[n - offset] = i
      <4>1. offset + (n - offset) = n
            BY <1>1, <3>0
      <4> QED  BY <2>2, <3>0, <3>1, <4>1, Zenon
    <3> QED  BY <2>2, <3>1, <3>2, Zenon DEF Range
  <2> QED  BY <2>2, <2>3, <2>4, Zenon DEF page, list
<1>5. offset >= Len(list) \/ offset < Len(list)
      BY <1>1
<1> QED  BY <1>3, <1>4, <1>5, Zenon

\* Recorded items are told apart by their stamps, and so are some of them; those
\* of a shard also by the order in which they were added.
LEMMA ItemsAreDistinct ==
    ASSUME MaxItems \in Nat, NEW T \in SUBSET Item,
           \A i, j \in T : i.at = j.at => i = j,
           NEW S \in SUBSET T
    PROVE  /\ \A kind \in Kinds : Distinct(S, kind)
           /\ (\A i, j \in S : i.pos = j.pos => i = j) => Distinct(S, "stream")
<1> DEFINE f == [i \in S |-> i.at]
<1>1. \A i \in S : i.at \in 1..MaxItems /\ i.pos \in Nat
      BY Zenon DEF Item, Stamps
<1>2. f \in Injection(S, 1..MaxItems)
      BY <1>1, Zenon DEF Injection, IsInjective
<1>3. IsFiniteSet(1..MaxItems)
  <2>1. 1 \in Int /\ MaxItems \in Int
        OBVIOUS
  <2> QED  BY <2>1, FS_Interval, Zenon
<1>4. IsFiniteSet(S)
      BY <1>2, <1>3, FS_Injection, Zenon
<1>5. \A i \in S : i.at \in Nat
      BY <1>1
<1>6. \A kind \in Kinds : kind # "stream"
      BY DEF Kinds
<1> QED  BY <1>1, <1>4, <1>5, <1>6, Zenon DEF Distinct, Key

\* A rank is a number, and grows with what is recorded.
LEMMA RankMonotone ==
    ASSUME NEW S, NEW T, IsFiniteSet(T), S \subseteq T, NEW i, NEW r
    PROVE  /\ Rank(i, S, r) \in Nat /\ Rank(i, T, r) \in Nat
           /\ Rank(i, S, r) <= Rank(i, T, r)
<1>1. Selected(S, r) \subseteq Selected(T, r) /\ Selected(T, r) \subseteq T
      BY DEF Selected
<1>2. IsFiniteSet(Selected(T, r))
      BY <1>1, FS_Subset, Zenon
<1> QED  BY <1>1, <1>2, PlaceMonotone, Zenon DEF Rank

\* Ranks are in the order of the list.
LEMMA RankOrder ==
    ASSUME NEW T, NEW r, Distinct(T, r.kind), NEW i \in Selected(T, r), NEW j \in Selected(T, r),
           Before(i, j, r.kind)
    PROVE  Rank(i, T, r) < Rank(j, T, r)
<1>1. Selected(T, r) \subseteq T
      BY Zenon DEF Selected
<1>2. Distinct(Selected(T, r), r.kind)
      BY <1>1, FS_Subset, Zenon DEF Distinct
<1> QED  BY <1>2, PlaceFacts, Zenon DEF Rank

-----------------------------------------------------------------------------
\* What has been asked for has been fetched, unless it is behind the page by now.
Covered ==
    Exact(read) =>
       \A k \in 1..read.asked : \A i \in Selected(read.before, read) :
          i.shard = ShardSeq[k] /\ Rank(i, items, read) <= read.offset + read.limit =>
             i \in read.got

\* The page is in order, and behind the earlier pages.
PageSound ==
    read.pc = "answered" =>
       \A n \in DOMAIN read.page :
          /\ read.page[n] \in Selected(items, read)
          /\ Rank(read.page[n], items, read) > read.offset
          /\ n > 1 => Before(read.page[n - 1], read.page[n], read.kind)

\* The places on a shard are counted: the next one is free.
PositionsCount == \A i \in items : i.pos <= Cardinality(Own(i.shard))

ReadsInv ==
    /\ ReadsTypeOK /\ (read.filter => read.kind # "global") /\ PositionsCount
    /\ Covered /\ PageSound /\ PagesMissNothing

\* The numbers of a read, and its sets.
LEMMA ReadFacts ==
    ASSUME Bounds, ReadsTypeOK
    PROVE  /\ read.limit \in Nat /\ read.offset \in Nat /\ read.filter \in BOOLEAN
           /\ read.asked \in Nat /\ Len(ShardSeq) \in Nat
           /\ read.got \subseteq items /\ read.before \subseteq items
           /\ read.kind \in Kinds
           /\ Distinct(items, read.kind) /\ \A S \in SUBSET items : Distinct(S, read.kind)
           /\ \A s : Distinct(Own(s), "stream") /\ Own(s) \subseteq items
<1>1. /\ read.limit \in Nat /\ read.offset \in Nat /\ read.filter \in BOOLEAN
      /\ Len(ShardSeq) \in Nat /\ read.asked \in 0..Len(ShardSeq)
      /\ read.got \subseteq items /\ read.before \subseteq items /\ read.kind \in Kinds
  <2>1. /\ read.limit \in Limits \cup {0} /\ read.offset \in Offsets \cup {0}
        /\ read.filter \in BOOLEAN /\ read.asked \in 0..Len(ShardSeq)
        /\ read.got \in SUBSET items /\ read.before \in SUBSET items /\ read.kind \in Kinds
        BY Zenon DEF ReadsTypeOK, Reads
  <2>2. Len(ShardSeq) \in Nat /\ Limits \cup {0} \subseteq Nat /\ Offsets \cup {0} \subseteq Nat
        BY DEF Bounds
  <2> QED  BY <2>1, <2>2, Zenon
<1>2. \A S \in SUBSET items : Distinct(S, read.kind)
      BY <1>1, ItemsAreDistinct, Zenon DEF Bounds, ReadsTypeOK
<1>3. \A s : Own(s) \in SUBSET items /\ \A i, j \in Own(s) : i.pos = j.pos => i = j
      BY Zenon DEF Own, ReadsTypeOK
<1>4. ASSUME NEW s
      PROVE  Distinct(Own(s), "stream")
  <2>1. Own(s) \in SUBSET items /\ \A i, j \in Own(s) : i.pos = j.pos => i = j
        BY <1>3, Zenon
  <2>2. /\ items \in SUBSET Item /\ MaxItems \in Nat
        /\ \A i, j \in items : i.at = j.at => i = j
        BY Zenon DEF Bounds, ReadsTypeOK
  <2> QED  BY <2>1, <2>2, ItemsAreDistinct, Zenon
<1>5. Distinct(items, read.kind)
      BY <1>2, Zenon
<1>6. \A s : Distinct(Own(s), "stream") /\ Own(s) \subseteq items
      BY <1>3, <1>4, Zenon
<1> QED  BY <1>1, <1>2, <1>5, <1>6

\* In a read that is exact, a shard cuts its list in the order of the page.
LEMMA OrdersAgree ==
    ASSUME ReadsTypeOK, Exact(read), NEW s, NEW i \in Own(s), NEW j \in Own(s)
    PROVE  Before(j, i, ShardOrder(read)) <=> Before(j, i, read.kind)
<1>1. CASE store = "valkey" /\ read.kind \in {"global", "query"}
  <2>1. /\ i \in items /\ j \in items /\ i.shard = j.shard
        /\ i.at \in Nat /\ j.at \in Nat /\ i.pos \in Nat /\ j.pos \in Nat
        BY DEF Own, ReadsTypeOK, Item, Stamps
  <2>2. (i.at < j.at => i.pos < j.pos) /\ (j.at < i.at => j.pos < i.pos) /\ (i.at = j.at => i = j)
        BY <1>1, <2>1, Zenon DEF Exact, StreamsInOrder, ReadsTypeOK
  <2>3. ShardOrder(read) = "stream" /\ read.kind # "stream"
        BY <1>1 DEF ShardOrder
  <2>4. (Before(j, i, "stream") <=> j.pos > i.pos) /\ (Before(j, i, read.kind) <=> j.at > i.at)
        BY <1>1, <2>3, Zenon DEF Before
  <2>5. j.pos > i.pos <=> j.at > i.at
        BY <2>1, <2>2
  <2> QED  BY <2>3, <2>4, <2>5, Zenon
<1>2. CASE ~(store = "valkey" /\ read.kind \in {"global", "query"})
      BY <1>2, Zenon DEF ShardOrder
<1> QED  BY <1>1, <1>2, Zenon

\* A shard answers with items of its own, and with all that can be on the page.
LEMMA ShardAnswerFacts ==
    ASSUME Bounds, ReadsTypeOK, read.filter => read.kind # "global", NEW s
    PROVE  /\ Range(ShardAnswer(s, read)) \subseteq items
           /\ Exact(read) =>
                 \A i \in Selected(items, read) :
                    i.shard = s /\ Rank(i, items, read) <= read.offset + read.limit =>
                       i \in Range(ShardAnswer(s, read))
<1> DEFINE own == Own(s)
           all == Selected(items, read)
           mine == Selected(own, read)
           want(i) == i \in all /\ i.shard = s /\ Rank(i, items, read) <= read.offset + read.limit
<1>1. /\ own \subseteq items /\ mine \subseteq all /\ mine \subseteq own /\ all \subseteq items
      /\ \A i \in all : i.shard = s => i \in mine /\ i \in own
      BY Zenon DEF Selected, Own
<1>2. Distinct(own, read.kind) /\ Distinct(mine, read.kind) /\ Distinct(all, read.kind)
  <2>1. mine \in SUBSET items /\ all \in SUBSET items /\ own \in SUBSET items
        BY <1>1, Zenon
  <2> HIDE DEF mine, all, own
  <2> QED  BY <2>1, ReadFacts, Zenon
<1>3. ASSUME NEW i, want(i)
      PROVE  /\ Place(i, mine, read.kind) \in Nat
             /\ Place(i, mine, read.kind) <= read.offset + read.limit
             /\ Place(i, mine, read.kind) > 0
  <2>1. Rank(i, items, read) = Place(i, all, read.kind)
        BY Zenon DEF Rank
  <2>2. /\ Place(i, mine, read.kind) \in Nat /\ Place(i, all, read.kind) \in Nat
        /\ Place(i, mine, read.kind) <= Place(i, all, read.kind)
        BY <1>1, <1>2, PlaceMonotone, Zenon DEF Distinct
  <2>3. Place(i, mine, read.kind) \in 1..Cardinality(mine)
        BY <1>1, <1>2, <1>3, PlaceFacts, Zenon
  <2> QED  BY <1>3, <2>1, <2>2, <2>3, ReadFacts
<1>4. ~read.filter => mine = own
      BY Zenon DEF Selected
<1>5. \A list : list \in Seq(own) \/ list \in Seq(mine) => Range(list) \subseteq items
      BY <1>1 DEF Range
<1>6. /\ read.limit \in Nat /\ read.offset \in Nat /\ read.limit + read.offset \in Nat
      /\ read.kind \in Kinds /\ 0 \in Nat /\ store \in {"postgres", "valkey"}
  <2>1. read.limit \in Nat /\ read.offset \in Nat /\ read.kind \in Kinds
        BY ReadFacts, Zenon
  <2> QED  BY <2>1 DEF ReadsTypeOK
<1>7. Distinct(own, "stream")
      BY ReadFacts, Zenon
<1> HIDE DEF own, mine, all
<1>8. CASE read.kind = "agents"
  <2>1. ShardAnswer(s, read) = Sorted(mine, read.kind)
        BY <1>8, Zenon DEF ShardAnswer, own, mine
  <2>2. Sorted(mine, read.kind) \in Seq(mine)
        BY <1>2, SortedFacts, Zenon
  <2>3. ASSUME NEW i \in mine
        PROVE  i \in Range(Sorted(mine, read.kind))
    <3>1. Place(i, mine, read.kind) \in 1..Cardinality(mine)
          BY <1>2, PlaceFacts, Zenon
    <3>2. /\ Sorted(mine, read.kind)[Place(i, mine, read.kind)] \in mine
          /\ Place(Sorted(mine, read.kind)[Place(i, mine, read.kind)], mine, read.kind)
                = Place(i, mine, read.kind)
          /\ Len(Sorted(mine, read.kind)) = Cardinality(mine)
          BY <1>2, <3>1, SortedFacts, Zenon
    <3>3. Sorted(mine, read.kind)[Place(i, mine, read.kind)] = i
          BY <1>2, <3>2, PlaceFacts, Zenon
    <3> QED  BY <2>2, <3>1, <3>2, <3>3 DEF Range
  <2> QED  BY <1>1, <1>5, <2>1, <2>2, <2>3, Zenon DEF all
<1>9. CASE read.kind = "query" /\ store = "postgres"
  <2> DEFINE page == Cut(Sorted(mine, read.kind), read.limit, read.offset)
  <2>1. ShardAnswer(s, read) = page
    <3>1. read.kind # "agents"
          BY <1>9
    <3> QED  BY <1>9, <3>1, Zenon DEF ShardAnswer, own, mine
  <2>2. /\ page \in Seq(mine)
        /\ \A i \in mine : read.offset < Place(i, mine, read.kind)
                           /\ Place(i, mine, read.kind) <= read.offset + read.limit
                           => i \in Range(page)
        BY <1>2, <1>6, CutFacts, Zenon
  <2> HIDE DEF page
  <2>3. Range(page) \subseteq items
        BY <1>5, <2>2, Zenon
  <2>4. ASSUME Exact(read), NEW i, want(i)
        PROVE  i \in Range(page)
    <3>1. read.offset = 0
          BY <1>9, <2>4, Zenon DEF Exact
    <3> QED  BY <1>1, <1>3, <2>2, <2>4, <3>1, Zenon
  <2> QED  BY <2>1, <2>3, <2>4, Zenon DEF all
<1>10. CASE read.kind \in {"global", "spans"} /\ store = "postgres"
  <2> DEFINE page == Cut(Sorted(mine, read.kind), read.limit + read.offset, 0)
  <2>1. ShardAnswer(s, read) = page
    <3>1. read.kind # "agents" /\ read.kind # "query"
          BY <1>10
    <3> QED  BY <1>10, <3>1, Zenon DEF ShardAnswer, own, mine
  <2>2. /\ page \in Seq(mine)
        /\ \A i \in mine : 0 < Place(i, mine, read.kind)
                           /\ Place(i, mine, read.kind) <= 0 + (read.limit + read.offset)
                           => i \in Range(page)
        BY <1>2, <1>6, CutFacts, Zenon
  <2> HIDE DEF page
  <2>3. Range(page) \subseteq items
        BY <1>5, <2>2, Zenon
  <2>4. ASSUME NEW i, want(i)
        PROVE  i \in Range(page)
        BY <1>1, <1>3, <1>6, <2>2, <2>4
  <2> QED  BY <2>1, <2>3, <2>4, Zenon DEF all
<1>11. CASE read.kind # "agents" /\ store = "valkey" /\ read.kind = "spans" /\ read.filter /\ s # SpanShard
  <2>1. ShardAnswer(s, read) = <<>>
    <3>1. store # "postgres"
          BY <1>11
    <3> QED  BY <1>11, <3>1, Zenon DEF ShardAnswer
  <2>2. Range(<<>>) \subseteq items
        BY DEF Range
  <2> QED  BY <1>11, <2>1, <2>2, Zenon DEF Exact
<1>12. CASE read.kind # "agents" /\ store = "valkey" /\ ~(read.kind = "spans" /\ read.filter /\ s # SpanShard)
  <2> DEFINE order == ShardOrder(read)
             page == Cut(Sorted(own, order), read.limit + read.offset, 0)
  <2>1. ShardAnswer(s, read) = page
    <3>1. store # "postgres"
          BY <1>12
    <3> QED  BY <1>12, <3>1, Zenon DEF ShardAnswer, own
  <2>2. Distinct(own, order)
        BY <1>2, <1>7, Zenon DEF ShardOrder
  <2>3. /\ page \in Seq(own)
        /\ \A i \in own : 0 < Place(i, own, order)
                          /\ Place(i, own, order) <= 0 + (read.limit + read.offset)
                          => i \in Range(page)
    <3> HIDE DEF order
    <3> QED  BY <1>6, <2>2, CutFacts, Zenon
  <2> HIDE DEF page, order
  <2>4. ASSUME Exact(read), NEW i, want(i)
        PROVE  i \in Range(page)
    <3>1. mine = own
          BY <1>4, <1>6, <1>12, <2>4, Zenon DEF Exact, Kinds
    <3>2. \A j \in own : Before(j, i, order) <=> Before(j, i, read.kind)
          BY <1>1, <1>12, <2>4, OrdersAgree, Zenon DEF order, own
    <3>3. Place(i, own, order) = Place(i, mine, read.kind)
      <4>1. {j \in own : j = i \/ Before(j, i, order)} = {j \in own : j = i \/ Before(j, i, read.kind)}
            BY <3>2, Zenon
      <4> QED  BY <3>1, <4>1, Zenon DEF Place
    <3> QED  BY <1>1, <1>3, <1>6, <2>3, <2>4, <3>3
  <2>5. Range(page) \subseteq items
        BY <1>5, <2>3, Zenon
  <2> QED  BY <2>1, <2>4, <2>5, Zenon DEF all
<1> QED  BY <1>6, <1>8, <1>9, <1>10, <1>11, <1>12, Zenon DEF Kinds

\* What is recorded meanwhile takes nothing from a read.
LEMMA CommitKeepsReads ==
    ASSUME Bounds, ReadsInv, NEW e \in Stamps, NEW s \in Listed, NEW m \in BOOLEAN,
           Commit(e, s, m)
    PROVE  ReadsInv'
<1> DEFINE new == [at |-> e, shard |-> s, pos |-> Cardinality(Own(s)) + 1, matches |-> m]
<1>a. Cardinality(Own(s)) \in Nat /\ IsFiniteSet(Own(s))
  <2>1. IsFiniteSet(Own(s))
        BY ReadFacts, Zenon DEF ReadsInv, Distinct
  <2> QED  BY <2>1, FS_CardinalityType, Zenon
<1>b. Cardinality(Own(s)) + 1 \in Nat
      BY <1>a
<1>1. /\ items' = items \cup {new} /\ new \in Item /\ \A i \in items : i.at # new.at
      /\ new.shard = s /\ new.pos = Cardinality(Own(s)) + 1
      /\ read' = read /\ store' = store
      BY <1>b, Zenon DEF Commit, Item
<1> HIDE DEF new
<1>c. \A i \in items : i.shard = s => i.pos \in Nat /\ i.pos <= Cardinality(Own(s)) /\ i.pos # new.pos
  <2>1. SUFFICES ASSUME NEW i \in items, i.shard = s
                 PROVE  i.pos \in Nat /\ i.pos <= Cardinality(Own(s)) /\ i.pos # new.pos
        BY Zenon
  <2>2. i.pos \in Nat /\ i.pos <= Cardinality(Own(s))
        BY <2>1, Zenon DEF ReadsInv, ReadsTypeOK, Item, PositionsCount
  <2> QED  BY <1>1, <1>a, <2>2
<1>2. /\ items' \subseteq Item /\ \A i, j \in items' : i.at = j.at => i = j
      /\ \A i, j \in items' : i.shard = j.shard /\ i.pos = j.pos => i = j
  <2>1. /\ items \subseteq Item /\ \A i, j \in items : i.at = j.at => i = j
        /\ \A i, j \in items : i.shard = j.shard /\ i.pos = j.pos => i = j
        BY Zenon DEF ReadsInv, ReadsTypeOK
  <2> QED  BY <1>1, <1>c, <2>1, Zenon
<1>d. PositionsCount'
  <2>1. SUFFICES ASSUME NEW i \in items' PROVE i.pos <= Cardinality(Own(i.shard)')
        BY Zenon DEF PositionsCount
  <2>2. CASE i.shard # s
    <3>1. i \in items /\ Own(i.shard)' = Own(i.shard)
          BY <1>1, <2>1, <2>2, Zenon DEF Own
    <3> QED  BY <3>1, Zenon DEF ReadsInv, PositionsCount
  <2>3. CASE i.shard = s
    <3>1. Own(s)' = Own(s) \cup {new} /\ new \notin Own(s)
          BY <1>1, Zenon DEF Own
    <3>2. Cardinality(Own(s)') = Cardinality(Own(s)) + 1
          BY <1>a, <3>1, FS_AddElement, Zenon
    <3>3. i = new \/ i \in items
          BY <1>1, <2>1, Zenon
    <3> QED  BY <1>1, <1>a, <1>c, <2>3, <3>2, <3>3
  <2> QED  BY <2>2, <2>3, Zenon
<1>e. Exact(read)' => Exact(read)
      BY <1>1, Zenon DEF Exact, StreamsInOrder
<1>3. ReadsTypeOK'
  <2>1. items \subseteq items'
        BY <1>1, Zenon
  <2>2. Seq(items) \subseteq Seq(items') /\ SUBSET items \subseteq SUBSET items'
        BY <2>1
  <2>3. read \in Reads(items')
        BY <2>2, Zenon DEF ReadsInv, ReadsTypeOK, Reads
  <2> QED  BY <1>1, <1>2, <2>3, Zenon DEF ReadsInv, ReadsTypeOK
<1>4. IsFiniteSet(items') /\ items \subseteq items'
  <2>1. \A kind \in Kinds : Distinct(items', kind)
        BY <1>2, ItemsAreDistinct, Zenon DEF Bounds
  <2>2. "global" \in Kinds
        BY DEF Kinds
  <2> QED  BY <1>1, <2>1, <2>2, Zenon DEF Distinct
<1>5. \A i : Rank(i, items, read) \in Nat /\ Rank(i, items', read) \in Nat
             /\ Rank(i, items, read) <= Rank(i, items', read)
      BY <1>4, RankMonotone, Zenon
<1>6. read.limit \in Nat /\ read.offset \in Nat
      BY ReadFacts, ZenonT(40) DEF ReadsInv
<1>7. Covered'
  <2>1. \A i : Rank(i, items', read) <= read.offset + read.limit =>
                 Rank(i, items, read) <= read.offset + read.limit
        BY <1>5, <1>6
  <2> QED  BY <1>1, <1>e, <2>1, ZenonT(40) DEF ReadsInv, Covered
<1>8. PageSound'
  <2>1. Selected(items, read) \subseteq Selected(items', read)
        BY <1>4, Zenon DEF Selected
  <2>2. ASSUME read.pc = "answered", NEW n \in DOMAIN read.page
        PROVE  /\ read.page[n] \in Selected(items', read)
               /\ Rank(read.page[n], items', read) > read.offset
               /\ n > 1 => Before(read.page[n - 1], read.page[n], read.kind)
    <3>1. /\ read.page[n] \in Selected(items, read)
          /\ Rank(read.page[n], items, read) > read.offset
          /\ n > 1 => Before(read.page[n - 1], read.page[n], read.kind)
          BY <2>2, Zenon DEF ReadsInv, PageSound
    <3> QED  BY <1>5, <1>6, <2>1, <3>1
  <2> QED  BY <1>1, <2>2, Zenon DEF PageSound
<1>9. PagesMissNothing'
  <2>1. \A i \in Selected(read.before, read) :
           Rank(i, items', read) <= read.offset + read.limit =>
              Rank(i, items, read) <= read.offset + read.limit
        BY <1>5, <1>6
  <2> QED  BY <1>1, <1>e, <2>1, ZenonT(40) DEF ReadsInv, PagesMissNothing
<1> QED  BY <1>1, <1>3, <1>7, <1>8, <1>9, <1>d, Zenon DEF ReadsInv

\* A read has asked for nothing when it begins.
LEMMA StartKeepsReads ==
    ASSUME Bounds, ReadsInv, NEW kind \in Kinds, NEW limit \in Limits, NEW offset \in Offsets,
           NEW filter \in BOOLEAN, Start(kind, limit, offset, filter)
    PROVE  ReadsInv'
<1>1. /\ read' = [pc |-> "asking", kind |-> kind, limit |-> limit, offset |-> offset,
                  filter |-> filter, asked |-> 0, got |-> {}, before |-> items, page |-> <<>>]
      /\ filter => kind # "global"
      /\ items' = items /\ store' = store
      BY Zenon DEF Start, NoRead
<1>2. ReadsTypeOK'
  <2>1. 0 \in 0..Len(ShardSeq)
        BY ReadFacts DEF ReadsInv
  <2>2. <<>> \in Seq(items)
        OBVIOUS
  <2>3. read' \in Reads(items)
        BY <1>1, <2>1, <2>2, Zenon DEF Reads
  <2> QED  BY <1>1, <2>3, Zenon DEF ReadsInv, ReadsTypeOK
<1>3. read'.asked = 0 /\ read'.pc = "asking" /\ (read'.filter => read'.kind # "global")
      BY <1>1, Zenon
<1>4. 1..read'.asked = {} /\ read'.pc # "answered"
      BY <1>3
<1>5. PositionsCount'
      BY <1>1, Zenon DEF ReadsInv, PositionsCount, Own
<1> QED  BY <1>2, <1>3, <1>4, <1>5, ZenonT(40) DEF ReadsInv, Covered, PageSound, PagesMissNothing

\* A shard gives what can be on the page.
LEMMA AskKeepsReads ==
    ASSUME Bounds, ReadsInv, AskShard
    PROVE  ReadsInv'
<1> DEFINE s == ShardSeq[read.asked + 1]
           given == Range(ShardAnswer(s, read))
           n == read.asked + 1
<1>1. /\ read.pc = "asking" /\ read.asked < Len(ShardSeq)
      /\ read' = [read EXCEPT !.asked = n, !.got = read.got \cup given]
      /\ items' = items /\ store' = store
      BY Zenon DEF AskShard
<1>2. /\ given \subseteq items
      /\ Exact(read) =>
            \A i \in Selected(items, read) :
               i.shard = s /\ Rank(i, items, read) <= read.offset + read.limit => i \in given
      BY ShardAnswerFacts, Zenon DEF ReadsInv
<1>3. /\ read.asked \in Nat /\ n \in 0..Len(ShardSeq) /\ read.got \cup given \subseteq items
      /\ read.before \subseteq items
      BY <1>1, <1>2, ReadFacts DEF ReadsInv
<1> HIDE DEF given
<1>4. /\ read'.pc = "asking" /\ read'.kind = read.kind /\ read'.limit = read.limit
      /\ read'.offset = read.offset /\ read'.filter = read.filter /\ read'.before = read.before
      /\ read'.asked = n /\ read'.got = read.got \cup given
      BY <1>1, Zenon DEF ReadsInv, ReadsTypeOK, Reads
<1>5. ReadsTypeOK'
  <2>1. ASSUME NEW g \in SUBSET items, NEW k \in 0..Len(ShardSeq)
        PROVE  [read EXCEPT !.asked = k, !.got = g] \in Reads(items)
        BY Zenon DEF ReadsInv, ReadsTypeOK, Reads
  <2> QED  BY <1>1, <1>3, <2>1, Zenon DEF ReadsInv, ReadsTypeOK
<1>6. \A i, S : Rank(i, S, read') = Rank(i, S, read) /\ Selected(S, read') = Selected(S, read)
      BY <1>4, Zenon DEF Rank, Selected
<1>7. Covered'
  <2>1. SUFFICES ASSUME Exact(read), NEW k \in 1..n, NEW i \in Selected(read.before, read),
                        i.shard = ShardSeq[k],
                        Rank(i, items, read) <= read.offset + read.limit
                 PROVE  i \in read.got \cup given
        BY <1>1, <1>4, <1>6, ZenonT(40) DEF Covered, Exact, StreamsInOrder
  <2>2. i \in Selected(items, read)
        BY <1>3, Zenon DEF Selected
  <2>3. k \in 1..read.asked \/ k = n
        BY <1>3
  <2> QED  BY <1>2, <2>1, <2>2, <2>3, Zenon DEF ReadsInv, Covered
<1>8. PositionsCount'
      BY <1>1, Zenon DEF ReadsInv, PositionsCount, Own
<1> QED  BY <1>4, <1>5, <1>7, <1>8, Zenon DEF ReadsInv, PageSound, PagesMissNothing

\* The page is cut out of what was fetched.
LEMMA AnswerKeepsReads ==
    ASSUME Bounds, ReadsInv, Answer
    PROVE  ReadsInv'
<1> DEFINE have == Selected(read.got, read)
           page == Result(read)
<1>1. /\ read.pc = "asking" /\ read.asked = Len(ShardSeq)
      /\ read' = [read EXCEPT !.pc = "answered", !.page = page]
      /\ items' = items /\ store' = store
      BY Zenon DEF Answer
<1>2. /\ read.limit \in Nat /\ read.offset \in Nat
      /\ read.got \subseteq items /\ read.before \subseteq items
      /\ have \subseteq Selected(items, read) /\ have \subseteq items
      /\ Distinct(items, read.kind) /\ Distinct(have, read.kind)
  <2>1. have \subseteq read.got /\ read.got \subseteq items
        BY ReadFacts, Zenon DEF ReadsInv, Selected
  <2>2. have \subseteq Selected(items, read)
        BY <2>1, Zenon DEF Selected
  <2> QED  BY <2>1, <2>2, ReadFacts, Zenon DEF ReadsInv
<1>3. /\ page \in Seq(have)
      /\ \A n \in DOMAIN page :
            page[n] \in have /\ Place(page[n], have, read.kind) = read.offset + n
      /\ \A i \in have :
            /\ read.offset < Place(i, have, read.kind)
            /\ Place(i, have, read.kind) <= read.offset + read.limit
            => i \in Range(page)
      BY <1>2, CutFacts, Zenon DEF Result
<1> HIDE DEF page
<1>4. /\ read'.pc = "answered" /\ read'.kind = read.kind /\ read'.limit = read.limit
      /\ read'.offset = read.offset /\ read'.filter = read.filter /\ read'.before = read.before
      /\ read'.asked = read.asked /\ read'.got = read.got /\ read'.page = page
      BY <1>1, Zenon DEF ReadsInv, ReadsTypeOK, Reads
<1>5. ReadsTypeOK'
  <2>1. ASSUME NEW p \in Seq(items)
        PROVE  [read EXCEPT !.pc = "answered", !.page = p] \in Reads(items)
        BY Zenon DEF ReadsInv, ReadsTypeOK, Reads
  <2>2. page \in Seq(items)
        BY <1>2, <1>3
  <2> QED  BY <1>1, <2>1, <2>2, Zenon DEF ReadsInv, ReadsTypeOK
<1>6. /\ \A i, S : Rank(i, S, read') = Rank(i, S, read)
      /\ \A S : Selected(S, read') = Selected(S, read)
      /\ Exact(read)' <=> Exact(read)
      BY <1>1, <1>4, Zenon DEF Rank, Selected, Exact, StreamsInOrder
<1>7. ASSUME NEW i
      PROVE  /\ Place(i, have, read.kind) \in Nat /\ Rank(i, items, read) \in Nat
             /\ Place(i, have, read.kind) <= Rank(i, items, read)
  <2>1. Selected(items, read) \subseteq items
        BY Zenon DEF Selected
  <2>2. IsFiniteSet(Selected(items, read))
        BY <1>2, <2>1, FS_Subset, Zenon DEF Distinct
  <2> QED  BY <1>2, <2>2, PlaceMonotone, Zenon DEF Rank
<1>8. Covered'
      BY <1>1, <1>4, <1>6, ZenonT(40) DEF ReadsInv, Covered
<1>9. PageSound'
  <2>1. SUFFICES ASSUME NEW n \in DOMAIN page
                 PROVE  /\ page[n] \in Selected(items, read)
                        /\ Rank(page[n], items, read) > read.offset
                        /\ n > 1 => Before(page[n - 1], page[n], read.kind)
        BY <1>1, <1>4, <1>6 DEF PageSound
  <2>2. n \in Nat /\ n > 0 /\ (n > 1 => n - 1 \in DOMAIN page)
        BY <1>3
  <2>3. Rank(page[n], items, read) > read.offset
        BY <1>2, <1>3, <1>7, <2>2
  <2>4. ASSUME n > 1
        PROVE  Before(page[n - 1], page[n], read.kind)
    <3>1. /\ page[n - 1] \in have /\ page[n] \in have
          /\ Place(page[n - 1], have, read.kind) = read.offset + (n - 1)
          /\ Place(page[n], have, read.kind) = read.offset + n
          BY <1>3, <2>2, <2>4, ZenonT(40)
    <3>2. Place(page[n - 1], have, read.kind) < Place(page[n], have, read.kind)
      <4>1. read.offset \in Nat /\ n \in Nat
            BY <1>2, <2>2, Zenon
      <4> QED  BY <3>1, <4>1
    <3>3. page[n - 1] # page[n] /\ ~Before(page[n], page[n - 1], read.kind)
      <4>1. Before(page[n], page[n - 1], read.kind) =>
               Place(page[n], have, read.kind) < Place(page[n - 1], have, read.kind)
            BY <1>2, <3>1, PlaceFacts, Zenon
      <4> QED  BY <1>2, <1>7, <3>2, <4>1
    <3> QED  BY <1>2, <3>1, <3>3, PlaceFacts, Zenon
  <2> QED  BY <1>2, <1>3, <2>3, <2>4, Zenon
<1>10. PagesMissNothing'
  <2>1. SUFFICES ASSUME Exact(read), NEW i \in Selected(read.before, read),
                        Rank(i, read.before, read) > read.offset,
                        Rank(i, items, read) <= read.offset + read.limit
                 PROVE  i \in Range(page)
        BY <1>1, <1>4, <1>6, ZenonT(40) DEF PagesMissNothing
  <2>2. ASSUME NEW j \in Selected(read.before, read),
               Rank(j, items, read) <= read.offset + read.limit
        PROVE  j \in have
    <3>1. j \in read.before /\ j \in items /\ (read.filter => j.matches)
          BY <1>2, Zenon DEF Selected
    <3>2. PICK k \in 1..Len(ShardSeq) : j.shard = ShardSeq[k]
          BY <3>1 DEF ReadsInv, ReadsTypeOK, Item, Listed, Range, Bounds
    <3>3. j \in read.got
          BY <1>1, <2>1, <2>2, <3>2, Zenon DEF ReadsInv, Covered
    <3> QED  BY <3>1, <3>3, Zenon DEF Selected
  <2>3. ASSUME NEW j \in Selected(read.before, read), Before(j, i, read.kind)
        PROVE  j \in have
    <3>1. i \in Selected(items, read) /\ j \in Selected(items, read)
          BY <1>2, Zenon DEF Selected
    <3>2. Rank(j, items, read) < Rank(i, items, read)
          BY <1>2, <2>3, <3>1, RankOrder, ZenonT(40)
    <3>3. Rank(j, items, read) <= read.offset + read.limit
          BY <1>2, <1>7, <2>1, <3>2
    <3> QED  BY <2>2, <3>3, Zenon
  <2>4. i \in have
        BY <2>1, <2>2, Zenon
  <2>5. Rank(i, read.before, read) \in Nat /\ Rank(i, read.before, read) <= Place(i, have, read.kind)
    <3> DEFINE A == {j \in Selected(read.before, read) : j = i \/ Before(j, i, read.kind)}
               B == {j \in have : j = i \/ Before(j, i, read.kind)}
    <3>1. A \subseteq B /\ B \subseteq have
          BY <2>3, <2>4, ZenonT(40)
    <3>2. Rank(i, read.before, read) = Cardinality(A) /\ Place(i, have, read.kind) = Cardinality(B)
          BY Zenon DEF Rank, Place
    <3>3. IsFiniteSet(B)
          BY <1>2, <3>1, FS_Subset, Zenon DEF Distinct
    <3>4. IsFiniteSet(A) /\ Cardinality(A) <= Cardinality(B)
          BY <3>1, <3>3, FS_Subset, ZenonT(40)
    <3> QED  BY <3>2, <3>4, FS_CardinalityType, Zenon
  <2>6. read.offset < Place(i, have, read.kind) /\ Place(i, have, read.kind) <= read.offset + read.limit
    <3>1. /\ Place(i, have, read.kind) \in Nat /\ Rank(i, items, read) \in Nat
          /\ Place(i, have, read.kind) <= Rank(i, items, read)
          /\ read.offset \in Nat /\ read.limit \in Nat
          BY <1>2, <1>7, Zenon
    <3> QED  BY <2>1, <2>5, <3>1
  <2> QED  BY <1>3, <2>4, <2>6, Zenon
<1>11. PositionsCount'
      BY <1>1, Zenon DEF ReadsInv, PositionsCount, Own
<1> QED  BY <1>4, <1>5, <1>8, <1>9, <1>10, <1>11, ZenonT(40) DEF ReadsInv

\* The invariant is inductive.
LEMMA ReadsInductive ==
    ASSUME Bounds
    PROVE  ReadsSpec => []ReadsInv
<1>1. ReadsInit => ReadsInv
  <2>1. SUFFICES ASSUME ReadsInit PROVE ReadsInv
        BY Zenon
  <2>2. read = NoRead /\ items = {} /\ store \in {"postgres", "valkey"}
        BY <2>1, Zenon DEF ReadsInit
  <2>3. 0 \in 0..Len(ShardSeq) /\ <<>> \in Seq({})
        BY DEF Bounds
  <2>4. ReadsTypeOK
        BY <2>2, <2>3, Zenon DEF ReadsTypeOK, Reads, NoRead, Kinds
  <2>5. read.asked = 0 /\ read.pc = "none" /\ ~read.filter
        BY <2>2, Zenon DEF NoRead
  <2> QED  BY <2>2, <2>4, <2>5 DEF ReadsInv, Covered, PageSound, PagesMissNothing, PositionsCount
<1>2. ReadsInv /\ [ReadsNext]_readsVars => ReadsInv'
  <2>1. SUFFICES ASSUME ReadsInv, [ReadsNext]_readsVars PROVE ReadsInv'
        BY Zenon
  <2>2. CASE UNCHANGED readsVars
        BY <2>1, <2>2, Zenon DEF readsVars, ReadsInv, ReadsTypeOK, Covered, PageSound, PagesMissNothing, Exact, StreamsInOrder, PositionsCount, Own
  <2> QED  BY <2>1, <2>2, CommitKeepsReads, StartKeepsReads, AskKeepsReads, AnswerKeepsReads, Zenon DEF ReadsNext
<1> QED  BY <1>1, <1>2, PTL DEF ReadsSpec

\* The merged pages of GetGlobalEvents, QueryEvents, Query and ListSpans miss
\* nothing: an item that was there when the read began and stays on the asked page
\* whatever is recorded while the shards are asked, is on the page answered.  The
\* reads that Exact leaves out lose items, as in the code.
THEOREM ReadsMissNothing == ReadsSpec => []PagesMissNothing
<1>1. ReadsInv => PagesMissNothing
      BY Zenon DEF ReadsInv
<1> QED  BY <1>1, BoundsAssumption, ReadsInductive, PTL

\* The merged pages of all reads are in order, hold only what the filter lets
\* through, nothing twice, and nothing that belongs to an earlier page.
THEOREM ReadsRepeatNothing == ReadsSpec => []PagesRepeatNothing
<1>1. ReadsInv => PagesRepeatNothing
  <2>1. SUFFICES ASSUME ReadsInv PROVE PagesRepeatNothing
        BY Zenon
  <2>2. Distinct(items, read.kind)
        BY <2>1, BoundsAssumption, ReadFacts, Zenon DEF ReadsInv
  <2>3. ASSUME read.pc = "answered", NEW n \in DOMAIN read.page, n > 1
        PROVE  Rank(read.page[n - 1], items, read) < Rank(read.page[n], items, read)
    <3>1. n - 1 \in DOMAIN read.page
          BY <2>1, <2>3 DEF ReadsInv, ReadsTypeOK, Reads
    <3> QED  BY <2>1, <2>2, <2>3, <3>1, RankOrder, Zenon DEF ReadsInv, PageSound
  <2> QED  BY <2>1, <2>3, Zenon DEF ReadsInv, PageSound, PagesRepeatNothing
<1> QED  BY <1>1, BoundsAssumption, ReadsInductive, PTL
=============================================================================
