----------------------- MODULE SchemaMigrationsProofs -----------------------
(***************************************************************************)
(* Proofs about SchemaMigrations, for any servers, operators, start        *)
(* versions and targets and any number of crashes.                         *)
(*                                                                         *)
(* UpFacts and DownFacts say what a file that does not fail leaves of the  *)
(* tables; StepShape sorts the steps of a command into the five things one *)
(* can do; Base is the part of the inductive invariant that needs no       *)
(* assumption on who runs together.                                        *)
(*                                                                         *)
(* The versions in schema_migrations have no holes because every migration *)
(* is behind nothing that is not recorded and a rollback is at the end of  *)
(* what is; both are lost when a rollback runs beside another command,     *)
(* which is what overlap remembers.  That what is recorded is applied      *)
(* needs the name of the tables too: a command with an old version runs    *)
(* files on the stray tables, but only files that are recorded already.    *)
(***************************************************************************)
EXTENDS SchemaMigrations, TLAPS

\* The version whose file renames the tables.
RenameVersion == IF backend = "postgres" THEN 15 ELSE 6

\* The files of pkg/store/migrations/postgres.
LEMMA PostgresKinds ==
    ASSUME NEW v \in 1..17
    PROVE  /\ PostgresKind(v) = "baseline" <=> v = 1
           /\ PostgresKind(v) = "rename" <=> v = 15
           /\ PostgresKind(v) \in {"baseline", "partition", "rename", "build", "drop", "alter"}
           /\ PostgresKind(v) = "partition" => v = 6
           /\ v \in 10..13 => PostgresKind(v) = "drop"
           /\ PostgresKind(v) = "alter" => v < 15
           /\ PostgresKind(v) = "build" => v < 15 \/ v = 16
<1>1. PostgresKind(v) = "baseline" <=> v = 1
  BY DEF PostgresKind
<1>2. PostgresKind(v) = "rename" <=> v = 15
  BY DEF PostgresKind
<1>3. PostgresKind(v) \in {"baseline", "partition", "rename", "build", "drop", "alter"}
  BY DEF PostgresKind
<1>4. PostgresKind(v) = "partition" => v = 6
  BY DEF PostgresKind
<1>5. v \in 10..13 => PostgresKind(v) = "drop"
  BY DEF PostgresKind
<1>6. PostgresKind(v) = "alter" => v < 15
  BY DEF PostgresKind
<1>7. PostgresKind(v) = "build" => v < 15 \/ v = 16
  BY DEF PostgresKind
<1> QED BY <1>1, <1>2, <1>3, <1>4, <1>5, <1>6, <1>7

\* The files of pkg/store/migrations/sqlite.
LEMMA SQLiteKinds ==
    ASSUME NEW v \in 1..6
    PROVE  /\ SQLiteKind(v) = "baseline" <=> v = 1
           /\ SQLiteKind(v) = "rename" <=> v = 6
           /\ SQLiteKind(v) \in {"baseline", "column", "rename", "alter"}
           /\ SQLiteKind(v) \in {"column", "alter"} => v < 6
<1>1. SQLiteKind(v) = "baseline" <=> v = 1
  BY DEF SQLiteKind
<1>2. SQLiteKind(v) = "rename" <=> v = 6
  BY DEF SQLiteKind
<1>3. SQLiteKind(v) \in {"baseline", "column", "rename", "alter"}
  BY DEF SQLiteKind
<1>4. SQLiteKind(v) \in {"column", "alter"} => v < 6
  BY DEF SQLiteKind
<1> QED BY <1>1, <1>2, <1>3, <1>4

\* What the proofs need to know of the files of either backend.
LEMMA KindFacts ==
    ASSUME backend \in Backends, NEW v \in 1..LastFile
    PROVE  /\ Kind(v) = "baseline" <=> v = 1
           /\ Kind(v) = "rename" <=> v = RenameVersion
           /\ Kind(v) \in {"baseline", "partition", "column", "rename", "build",
                           "drop", "alter"}
           /\ Kind(v) = "partition" => v = 6
           /\ v \in 10..13 => Kind(v) = "drop"
           /\ Kind(v) \in {"column", "alter"} => v < RenameVersion
           /\ Kind(v) = "build" => v < RenameVersion \/ v = 16
<1>1. CASE backend = "postgres"
  <2>1. v \in 1..17 /\ RenameVersion = 15
    BY <1>1 DEF LastFile, RenameVersion
  <2>2. Kind(v) = PostgresKind(v) /\ PostgresKind(v) # "column"
    BY <1>1, <2>1, PostgresKinds DEF Kind
  <2> QED BY <1>1, <2>1, <2>2, PostgresKinds
<1>2. CASE backend = "sqlite"
  <2>1. v \in 1..6 /\ RenameVersion = 6 /\ v \notin 10..13
    BY <1>2 DEF LastFile, RenameVersion
  <2>2. Kind(v) = SQLiteKind(v) /\ SQLiteKind(v) \notin {"partition", "build", "drop"}
    BY <1>2, <2>1, SQLiteKinds DEF Kind
  <2> QED BY <1>2, <2>1, <2>2, SQLiteKinds
<1> QED BY <1>1, <1>2 DEF Backends

Versions == 1..LastFile
SchemaType == [tables : {"none", "tuples", "agents"}, done : SUBSET Versions,
               broken : SUBSET Versions, stray : SUBSET Versions]

\* The numbers of the files, and the tables they are about.
LEMMA VersionFacts ==
    ASSUME backend \in Backends
    PROVE  /\ LastFile \in {6, 17} /\ RenameVersion \in {6, 15}
           /\ RenameVersion <= LastFile
           /\ \A v \in Versions : TableOf(v) = "agents" <=> v > 15
           /\ \A v \in Versions : TableOf(v) \in {"tuples", "agents"}
           /\ \A v \in Versions : v <= RenameVersion => TableOf(v) = "tuples"
BY DEF Backends, LastFile, RenameVersion, Versions, TableOf

\* A file finds its tables, the stray ones, or none.
LEMMA OnTablesFacts ==
    ASSUME Schema \in SchemaType, NEW v \in Versions, NEW S \in SchemaType
    PROVE  \/ OnTables(v, S) = S /\ tables = TableOf(v)
           \/ OnTables(v, S) = Failed /\ tables # TableOf(v)
           \/ /\ OnTables(v, S) = [Schema EXCEPT !.stray = @ \cup {v}]
              /\ TableOf(v) = "tuples" /\ tables # "tuples"
BY DEF OnTables

\* What an up file does to the tables when it does not fail.
UpShape(v, R) ==
    /\ R \in SchemaType
    /\ R.broken \subseteq broken
    /\ tables = "none" /\ v = 1 => R.tables = "tuples" /\ 1 \in R.done
    /\ tables # "none" => R.tables # "none" /\ done \ (10..13) \subseteq R.done
    /\ R.tables = "agents" <=> tables = "agents" \/ v = RenameVersion
    /\ \/ v \in R.done
       \/ v = 1
       \/ tables # "agents" /\ v > RenameVersion
       \/ tables # "tuples" /\ v < RenameVersion

\* An up file that does not fail does what UpShape says.
LEMMA UpFacts ==
    ASSUME backend \in Backends, Schema \in SchemaType, NEW v \in Versions,
           Up(v) # Failed
    PROVE  UpShape(v, Up(v))
<1>1. /\ tables \in {"none", "tuples", "agents"} /\ done \in SUBSET Versions
      /\ broken \in SUBSET Versions /\ stray \in SUBSET Versions
  BY DEF Schema, SchemaType
<1>2. /\ Kind(v) = "baseline" => v = 1
      /\ Kind(v) # "rename" => v # RenameVersion
  BY KindFacts DEF Versions
<1>3. CASE Kind(v) = "baseline"
  <2>1. Up(v) = Baseline /\ v = 1 /\ 1 \in Versions /\ v # RenameVersion
    BY <1>2, <1>3 DEF Up
  <2>2. CASE tables = "none"
    <3>1. Up(v) = [tables |-> "tuples", done |-> {1}, broken |-> broken, stray |-> stray]
      BY <2>1, <2>2, Zenon DEF Baseline, Schema
    <3>2. {1} \in SUBSET Versions
      BY <2>1
    <3>3. Up(v) \in SchemaType
      BY <1>1, <3>1, <3>2 DEF SchemaType
    <3> QED BY <2>1, <2>2, <3>1, <3>3 DEF UpShape
  <2>3. CASE tables = "tuples"
    BY <1>1, <2>1, <2>3 DEF UpShape, Baseline, Schema, SchemaType
  <2>4. CASE tables = "agents"
    BY <1>1, <2>1, <2>4 DEF UpShape, Baseline, Schema, SchemaType
  <2> QED BY <1>1, <2>2, <2>3, <2>4
<1>4. CASE Kind(v) = "partition"
  <2>1. v = 6 /\ Up(v) = Partition /\ Up(v) # Failed /\ v # RenameVersion
    BY <1>2, <1>4, KindFacts DEF Up, Versions
  <2>2. tables = "tuples" /\ Up(v) = [Schema EXCEPT !.done = @ \cup {6}]
    BY <2>1 DEF Partition
  <2> QED BY <1>1, <2>1, <2>2 DEF UpShape, Schema, SchemaType
<1>5. ASSUME Up(v) = OnTables(v, [Schema EXCEPT !.done = @ \cup {v}]),
             v # 1, v < RenameVersion \/ v = 16
      PROVE  UpShape(v, Up(v))
  <2>0. v # RenameVersion
    BY <1>5, VersionFacts DEF Versions
  <2>1. [Schema EXCEPT !.done = @ \cup {v}] \in SchemaType
    BY <1>1 DEF Schema, SchemaType
  <2>2. CASE Up(v) = [Schema EXCEPT !.done = @ \cup {v}]
    BY <1>1, <1>5, <2>0, <2>1, <2>2, ZenonT(40) DEF UpShape, Schema
  <2>3. CASE /\ Up(v) = [Schema EXCEPT !.stray = @ \cup {v}]
             /\ TableOf(v) = "tuples" /\ tables # "tuples"
    <3>1. v < RenameVersion
      BY <1>5, <2>3, VersionFacts
    <3>2. [Schema EXCEPT !.stray = @ \cup {v}] \in SchemaType
      BY <1>1 DEF Schema, SchemaType
    <3> QED BY <1>1, <1>5, <2>0, <2>3, <3>1, <3>2, ZenonT(40) DEF UpShape, Schema
  <2> QED BY <1>5, <2>1, <2>2, <2>3, OnTablesFacts, Zenon
<1>6. CASE Kind(v) = "column"
  BY <1>5, <1>6, KindFacts DEF Up, Versions
<1>7. CASE Kind(v) = "rename"
  <2>1. v = RenameVersion
    BY <1>7, KindFacts DEF Versions
  <2>2. /\ tables = "tuples"
        /\ Up(v) = [Schema EXCEPT !.tables = "agents", !.done = @ \cup {v}]
    BY <1>7 DEF Up
  <2>a. tables = "tuples"
    BY <2>2
  <2>3. Up(v) = [tables |-> "agents", done |-> done \cup {v}, broken |-> broken,
                 stray |-> stray]
    BY <2>2, Zenon DEF Schema
  <2>4. Up(v) \in SchemaType
    BY <1>1, <2>3 DEF SchemaType
  <2> QED BY <1>1, <2>1, <2>a, <2>3, <2>4 DEF UpShape
<1>8. CASE Kind(v) = "drop"
  <2> v # 1
    BY <1>8, KindFacts DEF Versions
  <2>0. v # RenameVersion /\ (v >= 15 => v > RenameVersion) /\ RenameVersion # 1
    BY <1>8, KindFacts, VersionFacts DEF Versions
  <2>1. CASE Up(v) = Schema /\ ~(v < 15 \/ tables = "agents")
    BY <1>1, <1>8, <2>0, <2>1 DEF UpShape, Schema, Versions
  <2>2. CASE Up(v) = [Schema EXCEPT !.done = @ \cup {v}, !.broken = @ \ {v}]
    <3>1. Up(v) = [tables |-> tables, done |-> done \cup {v}, broken |-> broken \ {v},
                   stray |-> stray]
      BY <2>2, Zenon DEF Schema
    <3>2. Up(v) \in SchemaType
      BY <1>1, <3>1 DEF SchemaType
    <3> QED BY <1>1, <1>8, <2>0, <3>1, <3>2 DEF UpShape
  <2> QED BY <1>8, <2>1, <2>2 DEF Up
<1>9. CASE Kind(v) = "build"
  BY <1>5, <1>9, KindFacts DEF Up, Versions
<1>10. CASE Kind(v) = "alter"
  BY <1>5, <1>10, KindFacts DEF Up, Versions
<1> QED BY <1>3, <1>4, <1>6, <1>7, <1>8, <1>9, <1>10, KindFacts DEF Versions

\* What a down file does to the tables when it does not fail.
DownShape(v, R) ==
    /\ v # 1
    /\ R \in SchemaType
    /\ R.broken \subseteq broken
    /\ R.tables = "none" <=> tables = "none"
    /\ R.tables = "agents" <=> tables = "agents" /\ v # RenameVersion
    /\ done \ {v} \subseteq R.done

\* A down file that does not fail does what DownShape says, and is not 0001.
LEMMA DownFacts ==
    ASSUME backend \in Backends, Schema \in SchemaType, NEW v \in Versions,
           Down(v) # Failed
    PROVE  DownShape(v, Down(v))
<1>1. /\ tables \in {"none", "tuples", "agents"} /\ done \in SUBSET Versions
      /\ broken \in SUBSET Versions /\ stray \in SUBSET Versions
  BY DEF Schema, SchemaType
<1>2. Kind(v) # "baseline"
  BY DEF Down
<1>3. v # 1
  BY <1>2, KindFacts DEF Versions
<1>4. ASSUME NEW S, S \in {Schema, [Schema EXCEPT !.done = @ \ {v}]},
             Down(v) = OnTables(v, S), v # RenameVersion
      PROVE  DownShape(v, Down(v))
  <2>1. S \in SchemaType
    BY <1>1, <1>4 DEF Schema, SchemaType
  <2>2. CASE Down(v) = S
    BY <1>1, <1>3, <1>4, <2>1, <2>2 DEF DownShape, Schema
  <2>3. CASE Down(v) = [Schema EXCEPT !.stray = @ \cup {v}]
    <3>1. [Schema EXCEPT !.stray = @ \cup {v}] \in SchemaType
      BY <1>1 DEF Schema, SchemaType
    <3> QED BY <1>1, <1>3, <1>4, <2>3, <3>1 DEF DownShape, Schema
  <2> QED BY <1>4, <2>1, <2>2, <2>3, OnTablesFacts
<1>5. Kind(v) # "rename" => v # RenameVersion
  BY KindFacts DEF Versions
<1>6. CASE Kind(v) = "column"
  BY <1>4, <1>5, <1>6 DEF Down
<1>7. CASE Kind(v) = "rename"
  <2>1. /\ tables = "agents"
        /\ Down(v) = [Schema EXCEPT !.tables = "tuples", !.done = @ \ {v}]
    BY <1>7 DEF Down
  <2>a. tables = "agents" /\ v = RenameVersion
    BY <1>7, <2>1, KindFacts DEF Versions
  <2>2. Down(v) = [tables |-> "tuples", done |-> done \ {v}, broken |-> broken,
                   stray |-> stray]
    BY <2>1, Zenon DEF Schema
  <2>3. Down(v) \in SchemaType
    BY <1>1, <2>2 DEF SchemaType
  <2> QED BY <1>1, <1>3, <2>a, <2>2, <2>3 DEF DownShape
<1>8. CASE Kind(v) = "build"
  <2>1. CASE Down(v) = Schema
    BY <1>1, <1>3, <1>5, <1>8, <2>1 DEF DownShape, Schema
  <2>2. CASE Down(v) = [Schema EXCEPT !.done = @ \ {v}, !.broken = @ \ {v}]
    <3>1. Down(v) = [tables |-> tables, done |-> done \ {v}, broken |-> broken \ {v},
                     stray |-> stray]
      BY <2>2, Zenon DEF Schema
    <3>2. Down(v) \in SchemaType
      BY <1>1, <3>1 DEF SchemaType
    <3> QED BY <1>1, <1>3, <1>5, <1>8, <3>1, <3>2 DEF DownShape
  <2> QED BY <1>8, <2>1, <2>2 DEF Down
<1>9. CASE Kind(v) = "partition"
  <2>1. Down(v) = [Schema EXCEPT !.done = @ \ {v}]
    BY <1>9 DEF Down
  <2>2. Down(v) = [tables |-> tables, done |-> done \ {v}, broken |-> broken, stray |-> stray]
    BY <2>1, Zenon DEF Schema
  <2>3. Down(v) \in SchemaType
    BY <1>1, <2>2 DEF SchemaType
  <2> QED BY <1>1, <1>3, <1>5, <1>9, <2>2, <2>3 DEF DownShape
<1>10. CASE Kind(v) \in {"drop", "alter"}
  <2>1. Down(v) = OnTables(v, [Schema EXCEPT !.done = @ \ {v}])
    BY <1>10 DEF Down
  <2> QED BY <1>4, <1>5, <1>10, <2>1
<1> QED BY <1>2, <1>6, <1>7, <1>8, <1>9, <1>10, KindFacts DEF Versions

-----------------------------------------------------------------------------
\* What every command keeps, whatever runs beside it.

\* Where a command's loop can be.
Cursors ==
    \A c \in Commands : Running(c) =>
        IF cmd[c].dir = "up" THEN cmd[c].at >= 1 ELSE cmd[c].at <= LastFile

\* A command between the two statements of a file is at a non-transactional one.
Working ==
    \A c \in Commands : cmd[c].pc \in {"build", "record"} =>
        HasNext(c) /\ ~Transactional(cmd[c].at)

\* An index build has its table and is the only one.
Builders ==
    \A c \in Commands : cmd[c].pc = "build" =>
        /\ tables = TableOf(cmd[c].at)
        /\ Kind(cmd[c].at) = IF cmd[c].dir = "up" THEN "build" ELSE "drop"
        /\ Unblocked(c)

Base == TypeOK /\ Cursors /\ Working /\ Builders /\ broken \subseteq cut

-----------------------------------------------------------------------------
\* CurrentVersion.

HasMaximum(n) ==
    \A S \in SUBSET (1..n) : S = {} \/ \E x \in S : \A y \in S : y <= x

\* A largest element, one number further.
LEMMA OneMore ==
    ASSUME NEW n \in Nat, HasMaximum(n)
    PROVE  HasMaximum(n + 1)
<1> SUFFICES ASSUME NEW S \in SUBSET (1..(n + 1)), S # {}
             PROVE  \E x \in S : \A y \in S : y <= x
  BY DEF HasMaximum
<1>1. CASE n + 1 \in S
  BY <1>1
<1>2. CASE n + 1 \notin S
  <2>1. S \in SUBSET (1..n)
    BY <1>2
  <2> QED BY <2>1, Zenon DEF HasMaximum
<1> QED BY <1>1, <1>2

\* Every set of versions but the empty one has a largest.
LEMMA Maxima == HasMaximum(6) /\ HasMaximum(17)
<1>1. HasMaximum(0)
  BY DEF HasMaximum
<1>2. HasMaximum(1) /\ HasMaximum(2) /\ HasMaximum(3) /\ HasMaximum(4) /\ HasMaximum(5)
  BY <1>1, OneMore
<1>3. HasMaximum(6) /\ HasMaximum(7) /\ HasMaximum(8) /\ HasMaximum(9) /\ HasMaximum(10)
  BY <1>2, OneMore
<1>4. HasMaximum(11) /\ HasMaximum(12) /\ HasMaximum(13) /\ HasMaximum(14)
  BY <1>3, OneMore
<1>5. HasMaximum(15) /\ HasMaximum(16) /\ HasMaximum(17)
  BY <1>4, OneMore
<1> QED BY <1>3, <1>5

\* MAX(version) is 0 or a recorded version that none exceeds.
LEMMA CurrentVersionFacts ==
    ASSUME backend \in Backends, recorded \subseteq 1..LastFile
    PROVE  /\ CurrentVersion \in 0..LastFile
           /\ recorded \subseteq 1..CurrentVersion
           /\ recorded # {} => CurrentVersion \in recorded
           /\ recorded = {} => CurrentVersion = 0
<1>1. LastFile \in {6, 17}
  BY VersionFacts
<1>2. recorded = {} \/ \E x \in recorded : \A y \in recorded : y <= x
  BY <1>1, Maxima DEF HasMaximum
<1>3. CASE recorded = {}
  BY <1>1, <1>3 DEF CurrentVersion, Max0
<1>4. CASE recorded # {}
  <2>1. CurrentVersion \in recorded /\ \A y \in recorded : y <= CurrentVersion
    BY <1>2, <1>4, Zenon DEF CurrentVersion, Max0
  <2> QED BY <1>1, <1>4, <2>1
<1> QED BY <1>3, <1>4

\* MAX(version) of the versions 1 to n.
LEMMA PrefixFacts ==
    ASSUME backend \in Backends, NEW n \in 0..LastFile, recorded = 1..n
    PROVE  CurrentVersion = n
<1>1. LastFile \in {6, 17} /\ recorded \subseteq 1..LastFile
  BY VersionFacts
<1>2. CASE n = 0
  BY <1>1, <1>2, CurrentVersionFacts
<1>3. CASE n # 0
  <2>1. n \in recorded
    BY <1>1, <1>3
  <2>2. CurrentVersion \in recorded /\ recorded \subseteq 1..CurrentVersion
    BY <1>1, <2>1, CurrentVersionFacts
  <2> QED BY <1>1, <2>1, <2>2
<1> QED BY <1>2, <1>3

-----------------------------------------------------------------------------
\* The commands.

CmdType == [pc : {"idle", "work", "build", "record", "up", "exited"}, dir : {"up", "down"},
            at : 0..(LastFile + 1), to : 0..SchemaTargetVersion]

\* Command c goes to p with its loop at a.
Goes(c, p, a) ==
    /\ cmd' \in [Commands -> CmdType]
    /\ cmd'[c] = [pc |-> p, dir |-> cmd[c].dir, at |-> a, to |-> cmd[c].to]
    /\ \A d \in Commands \ {c} : cmd'[d] = cmd[d]

\* Command c is over.
Ends(c) ==
    /\ cmd' \in [Commands -> CmdType]
    /\ cmd'[c].pc \in {"idle", "up", "exited"}
    /\ \A d \in Commands \ {c} : cmd'[d] = cmd[d]

\* TypeOK as the lemmas below use it.
LEMMA TypeFacts ==
    ASSUME TypeOK
    PROVE  /\ Schema \in SchemaType /\ cmd \in [Commands -> CmdType]
           /\ \A c \in Commands : /\ cmd[c] \in CmdType
                                  /\ cmd[c].at \in 0..(LastFile + 1)
                                  /\ cmd[c].to \in 0..SchemaTargetVersion
                                  /\ cmd[c].dir \in {"up", "down"}
<1>1. Schema \in SchemaType
  BY DEF TypeOK, Schema, SchemaType, Versions
<1>2. cmd \in [Commands -> CmdType]
  BY DEF TypeOK, CmdType
<1> QED BY <1>1, <1>2 DEF CmdType

\* Advance, field by field.
LEMMA AdvanceFacts ==
    ASSUME TypeOK, NEW c \in Commands, NEW a \in 0..(LastFile + 1), cmd' = Advance(c),
           a = IF cmd[c].dir = "up" THEN cmd[c].at + 1 ELSE cmd[c].at - 1
    PROVE  Goes(c, "work", a)
<1>1. cmd \in [Commands -> CmdType] /\ cmd[c] \in CmdType
  BY TypeFacts
<1>2. /\ cmd'[c] = [pc |-> "work", dir |-> cmd[c].dir, at |-> a, to |-> cmd[c].to]
      /\ \A d \in Commands \ {c} : cmd'[d] = cmd[d]
  BY <1>1 DEF Advance, CmdType
<1>3. cmd'[c] \in CmdType /\ DOMAIN cmd' = Commands
  BY <1>1, <1>2 DEF CmdType, Advance
<1>4. cmd' \in [Commands -> CmdType]
  <2>1. cmd' = [d \in Commands |-> cmd'[d]]
    BY <1>1, Zenon DEF Advance
  <2> QED BY <1>1, <1>2, <1>3, <2>1
<1> QED BY <1>2, <1>4 DEF Goes

\* A command that only changes its program counter.
LEMMA MoveFacts ==
    ASSUME TypeOK, NEW c \in Commands, NEW p \in {"build", "record", "up"},
           cmd' = [cmd EXCEPT ![c].pc = p]
    PROVE  Goes(c, p, cmd[c].at)
BY TypeFacts DEF Goes, CmdType

\* Ended leaves the command over.
LEMMA EndedFacts ==
    ASSUME TypeOK, NEW c \in Commands, NEW p \in {"idle", "up"}, cmd' = Ended(c, p)
    PROVE  Ends(c)
<1>1. cmd \in [Commands -> CmdType] /\ LastFile \in {6, 17}
  BY TypeFacts, VersionFacts DEF TypeOK
<1> DEFINE q == IF c \in Operators THEN "exited" ELSE p
           r == [pc |-> q, dir |-> "up", at |-> 0, to |-> 0]
<1>a. \A x : [Idle EXCEPT !.pc = x] = [pc |-> x, dir |-> "up", at |-> 0, to |-> 0]
  BY DEF Idle
<1>2. cmd' = [cmd EXCEPT ![c] = r]
  BY <1>a, ZenonT(40) DEF Ended
<1>3. q \in {"idle", "up", "exited"}
  OBVIOUS
<1>4. r \in CmdType /\ r.pc = q
  BY <1>1, <1>3 DEF CmdType, SchemaTargetVersion
<1> HIDE DEF q, r
<1> QED BY <1>1, <1>2, <1>3, <1>4 DEF Ends

\* A command that goes on or is over, as the proofs of the invariants see it.
LEMMA GoesFacts ==
    ASSUME NEW c \in Commands, NEW p, NEW a, Goes(c, p, a)
    PROVE  /\ cmd'[c].pc = p /\ cmd'[c].dir = cmd[c].dir /\ cmd'[c].at = a
           /\ cmd'[c].to = cmd[c].to
           /\ \A d \in Commands : d # c => cmd'[d] = cmd[d]
BY DEF Goes

\* The files are those of the backend, which never changes.
LEMMA SameFiles ==
    ASSUME backend' = backend
    PROVE  /\ LastFile' = LastFile /\ RenameVersion' = RenameVersion
           /\ Versions' = Versions /\ CmdType' = CmdType /\ SchemaType' = SchemaType
           /\ \A v : Kind(v)' = Kind(v) /\ Transactional(v)' = Transactional(v)
BY DEF LastFile, RenameVersion, Versions, CmdType, SchemaType, Kind, Transactional

\* TypeOK after a step, from the types of what it assigns.
LEMMA TypeKept ==
    ASSUME TypeOK, backend' = backend, cmd' \in [Commands -> CmdType],
           recorded' \in SUBSET Versions, Schema' \in SchemaType, cut' \in SUBSET Versions,
           rows' \in BOOLEAN, overlap' \in BOOLEAN, crashes' \in 0..MaxCrashes
    PROVE  TypeOK'
<1>1. cmd' \in [Commands -> CmdType'] /\ recorded' \in SUBSET Versions'
  BY SameFiles
<1>2. /\ tables' \in {"none", "tuples", "agents"} /\ done' \in SUBSET Versions'
      /\ broken' \in SUBSET Versions' /\ stray' \in SUBSET Versions'
      /\ cut' \in SUBSET Versions'
  BY SameFiles DEF Schema, SchemaType
<1>3. backend' \in Backends
  BY DEF TypeOK
<1> QED BY <1>1, <1>2, <1>3 DEF TypeOK, CmdType, Versions

-----------------------------------------------------------------------------
\* Base is kept by a command that goes on and by one that ends.

\* A command that goes on keeps Base.
LEMMA GoesBase ==
    ASSUME Base, NEW c \in Commands, Running(c), backend' = backend,
           NEW p \in {"work", "build", "record"}, NEW a \in 0..(LastFile + 1), Goes(c, p, a),
           recorded' \in SUBSET Versions, Schema' \in SchemaType,
           UNCHANGED <<rows, overlap, crashes, cut>>,
           broken' \subseteq broken, tables' = tables \/ Unblocked(c),
           IF cmd[c].dir = "up" THEN a >= 1 ELSE a <= LastFile,
           p # "work" => a = cmd[c].at /\ HasNext(c) /\ ~Transactional(a),
           p = "build" => /\ tables' = TableOf(a) /\ Unblocked(c)
                          /\ Kind(a) = IF cmd[c].dir = "up" THEN "build" ELSE "drop"
    PROVE  Base'
<1>1. /\ cmd'[c].pc = p /\ cmd'[c].dir = cmd[c].dir /\ cmd'[c].at = a
      /\ cmd'[c].to = cmd[c].to /\ \A d \in Commands : d # c => cmd'[d] = cmd[d]
  BY GoesFacts
<1>2. TypeOK'
  BY TypeKept, Zenon DEF Base, TypeOK, Goes, Versions
<1>3. /\ LastFile' = LastFile /\ \A v : Kind(v)' = Kind(v)
      /\ \A v : Transactional(v)' = Transactional(v)
  BY SameFiles
<1>4. Cursors'
  BY <1>1, <1>3 DEF Base, Cursors, Running
<1>5. Working'
  <2> SUFFICES ASSUME NEW d \in Commands, cmd'[d].pc \in {"build", "record"}
               PROVE  HasNext(d)' /\ ~Transactional(cmd[d].at)'
    BY DEF Working
  <2>1. CASE d = c
    BY <1>1, <1>3, <2>1, Zenon DEF HasNext
  <2>2. CASE d # c
    BY <1>1, <1>3, <2>2, Zenon DEF HasNext, Base, Working
  <2> QED BY <2>1, <2>2
<1>6. Builders'
  <2> SUFFICES ASSUME NEW d \in Commands, cmd'[d].pc = "build"
               PROVE  /\ tables' = TableOf(cmd'[d].at)
                      /\ Kind(cmd[d].at)' = IF cmd'[d].dir = "up" THEN "build" ELSE "drop"
                      /\ \A e \in Commands \ {d} : cmd'[e].pc # "build"
    BY DEF Builders, Unblocked
  <2>1. CASE d = c
    BY <1>1, <1>3, <2>1, Zenon DEF Unblocked
  <2>2. CASE d # c
    <3>1. cmd'[d] = cmd[d] /\ tables' = tables /\ p # "build"
      BY <1>1, <2>2 DEF Unblocked
    <3> QED BY <1>1, <1>3, <2>2, <3>1, Zenon DEF Base, Builders, Unblocked
  <2> QED BY <2>1, <2>2
<1> QED BY <1>2, <1>4, <1>5, <1>6, Zenon DEF Base

\* A command that is over keeps Base.
LEMMA EndsBase ==
    ASSUME Base, NEW c \in Commands, backend' = backend, Ends(c),
           UNCHANGED <<recorded, tables, rows, overlap>>, crashes' \in 0..MaxCrashes,
           Schema' \in SchemaType, cut' \in SUBSET Versions, broken' \subseteq cut'
    PROVE  Base'
<1>1. /\ cmd'[c].pc \notin {"work", "build", "record"}
      /\ \A d \in Commands : d # c => cmd'[d] = cmd[d]
  BY DEF Ends
<1>2. TypeOK'
  BY TypeKept DEF Base, TypeOK, Ends, Versions
<1>3. /\ LastFile' = LastFile /\ \A v : Kind(v)' = Kind(v)
      /\ \A v : Transactional(v)' = Transactional(v)
  BY SameFiles
<1>4. Cursors'
  BY <1>1, <1>3 DEF Base, Cursors, Running
<1>5. Working'
  BY <1>1, <1>3 DEF Base, Working, HasNext
<1>6. Builders'
  BY <1>1, <1>3 DEF Base, Builders, Unblocked
<1> QED BY <1>2, <1>4, <1>5, <1>6 DEF Base

\* The file a running command is at.
LEMMA AtVersion ==
    ASSUME Base, NEW c \in Commands, Running(c), HasNext(c)
    PROVE  /\ cmd[c].at \in Versions
           /\ LastFile \in {6, 17}
           /\ cmd[c].dir \in {"up", "down"}
<1>1. /\ cmd[c].at \in 0..(LastFile + 1) /\ cmd[c].to \in 0..17 /\ LastFile \in {6, 17}
      /\ cmd[c].dir \in {"up", "down"}
  BY TypeFacts, VersionFacts, Zenon DEF Base, TypeOK, SchemaTargetVersion
<1> QED BY <1>1 DEF Base, Cursors, HasNext, Versions

\* What the file does, when it does not fail.
LEMMA ResultFacts ==
    ASSUME Base, NEW c \in Commands, Running(c), HasNext(c), Result(c) # Failed,
           SetSchema(Result(c))
    PROVE  /\ Schema' \in SchemaType /\ broken' \subseteq broken
           /\ IF cmd[c].dir = "up" THEN UpShape(cmd[c].at, Schema')
                                   ELSE DownShape(cmd[c].at, Schema')
<1>1. /\ backend \in Backends /\ Schema \in SchemaType
      /\ cmd[c].at \in Versions /\ cmd[c].dir \in {"up", "down"}
  BY AtVersion, TypeFacts, Zenon DEF Base, TypeOK
<1>2. IF cmd[c].dir = "up" THEN UpShape(cmd[c].at, Result(c))
                           ELSE DownShape(cmd[c].at, Result(c))
  BY <1>1, UpFacts, DownFacts DEF Result
<1>3. Result(c) \in SchemaType /\ Result(c).broken \subseteq broken
  BY <1>1, <1>2 DEF UpShape, DownShape
<1>4. Schema' = Result(c)
  BY <1>3 DEF SetSchema, Schema, SchemaType
<1> QED BY <1>2, <1>3, <1>4 DEF Schema

-----------------------------------------------------------------------------
\* The steps of a command, by what they do to its loop, the tables and the rows
\* of schema_migrations.

NextAt(c) == IF cmd[c].dir = "up" THEN cmd[c].at + 1 ELSE cmd[c].at - 1

\* The file is applied.
Changed(c) == Result(c) # Failed /\ SetSchema(Result(c))

\* A file and its row in one transaction.
Applies(c) ==
    /\ HasNext(c) /\ Transactional(cmd[c].at) /\ Unblocked(c)
    /\ Changed(c) /\ RecordAt(c) /\ Goes(c, "work", NextAt(c))

\* The statement of a non-transactional file is over.
Executes(c) ==
    /\ HasNext(c) /\ ~Transactional(cmd[c].at) /\ Unblocked(c)
    /\ \/ Changed(c)
       \/ Skips(cmd[c].dir, cmd[c].at) /\ UNCHANGED schema
    /\ Goes(c, "record", cmd[c].at) /\ UNCHANGED recorded

\* It goes on in the background.
StartsBuild(c) ==
    /\ cmd[c].pc = "work" /\ HasNext(c) /\ ~Transactional(cmd[c].at) /\ Unblocked(c)
    /\ Builds(cmd[c].dir, cmd[c].at)
    /\ Goes(c, "build", cmd[c].at) /\ UNCHANGED <<recorded, schema>>

\* The row of a non-transactional file.
Records(c) ==
    /\ cmd[c].pc = "record" /\ HasNext(c) /\ ~Transactional(cmd[c].at)
    /\ RecordAt(c) /\ Goes(c, "work", NextAt(c)) /\ UNCHANGED schema

\* Where the loop goes next.
LEMMA NextAtFacts ==
    ASSUME Base, NEW c \in Commands, Running(c), HasNext(c)
    PROVE  /\ NextAt(c) \in 0..(LastFile + 1)
           /\ IF cmd[c].dir = "up" THEN NextAt(c) >= 1 ELSE NextAt(c) <= LastFile
BY AtVersion DEF NextAt, Versions

\* An index build that ends has found its table.
LEMMA BuildFacts ==
    ASSUME Base, NEW c \in Commands, cmd[c].pc = "build"
    PROVE  /\ HasNext(c) /\ ~Transactional(cmd[c].at) /\ Unblocked(c) /\ Result(c) # Failed
<1>1. /\ HasNext(c) /\ ~Transactional(cmd[c].at) /\ tables = TableOf(cmd[c].at)
      /\ Kind(cmd[c].at) = (IF cmd[c].dir = "up" THEN "build" ELSE "drop") /\ Unblocked(c)
  BY DEF Base, Working, Builders
<1>2. tables # "error"
  BY DEF Base, TypeOK
<1>3. Result(c).tables = tables
  <2>1. CASE cmd[c].dir = "up"
    BY <1>1, <2>1 DEF Result, Up, OnTables, Schema
  <2>2. CASE cmd[c].dir # "up"
    BY <1>1, <2>2, Zenon DEF Result, Down, OnTables, Schema
  <2> QED BY <2>1, <2>2
<1> QED BY <1>1, <1>2, <1>3 DEF Failed

\* Every step of a command is one of the five shapes.
LEMMA StepShape ==
    ASSUME Base, NEW c \in Commands, Step(c)
    PROVE  /\ UNCHANGED <<backend, rows, crashes, overlap, cut>>
           /\ Running(c)
           /\ \/ Applies(c) \/ Executes(c) \/ StartsBuild(c) \/ Records(c)
              \/ cmd[c].pc = "work" /\ Ends(c) /\ UNCHANGED <<recorded, schema>>
<1> USE DEF Base
<1>1. CASE ApplyInTransaction(c)
  <2>1. /\ HasNext(c) /\ Running(c) /\ UNCHANGED <<backend, rows, crashes, overlap, cut>>
    BY <1>1, Zenon DEF ApplyInTransaction, Running
  <2>2. CASE Fail(c)
    BY <1>1, <2>1, <2>2, EndedFacts, Zenon DEF Fail, ApplyInTransaction
  <2>3. CASE Changed(c) /\ RecordAt(c) /\ cmd' = Advance(c)
    <3>1. Goes(c, "work", NextAt(c))
      BY <2>1, <2>3, NextAtFacts, AdvanceFacts DEF NextAt
    <3> QED BY <1>1, <2>1, <2>3, <3>1, Zenon DEF ApplyInTransaction, Applies
  <2> QED BY <1>1, <2>2, <2>3, Zenon DEF ApplyInTransaction, Changed
<1>2. CASE ExecStatement(c)
  <2>1. /\ HasNext(c) /\ Running(c) /\ ~Transactional(cmd[c].at) /\ Unblocked(c)
        /\ UNCHANGED <<backend, rows, crashes, overlap, cut>>
    BY <1>2 DEF ExecStatement, Running
  <2>2. CASE Fail(c)
    BY <1>2, <2>1, <2>2, EndedFacts DEF Fail, ExecStatement
  <2>3. CASE /\ Skips(cmd[c].dir, cmd[c].at) /\ cmd' = [cmd EXCEPT ![c].pc = "record"]
             /\ UNCHANGED <<recorded, schema>>
    <3>1. Goes(c, "record", cmd[c].at)
      BY <2>3, MoveFacts, Zenon
    <3> QED BY <2>1, <2>3, <3>1 DEF Executes
  <2>4. CASE /\ Builds(cmd[c].dir, cmd[c].at) /\ cmd' = [cmd EXCEPT ![c].pc = "build"]
             /\ UNCHANGED <<recorded, schema>>
    <3>1. Goes(c, "build", cmd[c].at)
      BY <2>4, MoveFacts, Zenon
    <3> QED BY <1>2, <2>1, <2>4, <3>1 DEF StartsBuild, ExecStatement
  <2>5. CASE /\ Changed(c) /\ cmd' = [cmd EXCEPT ![c].pc = "record"] /\ UNCHANGED recorded
    <3>1. Goes(c, "record", cmd[c].at)
      BY <2>5, MoveFacts, Zenon
    <3> QED BY <2>1, <2>5, <3>1 DEF Executes
  <2> QED BY <1>2, <2>2, <2>3, <2>4, <2>5 DEF ExecStatement, Changed
<1>3. CASE BuildEnds(c)
  <2>1. /\ HasNext(c) /\ ~Transactional(cmd[c].at) /\ Unblocked(c) /\ Changed(c)
    BY <1>3, BuildFacts DEF BuildEnds, Changed
  <2>2. Goes(c, "record", cmd[c].at)
    BY <1>3, MoveFacts, Zenon DEF BuildEnds
  <2> QED BY <1>3, <2>1, <2>2 DEF BuildEnds, Executes, Running
<1>4. CASE Record(c)
  <2>1. HasNext(c) /\ ~Transactional(cmd[c].at) /\ Running(c)
    BY <1>4 DEF Record, Working, Running
  <2>2. Goes(c, "work", NextAt(c))
    BY <1>4, <2>1, NextAtFacts, AdvanceFacts, Zenon DEF Record, NextAt
  <2> QED BY <1>4, <2>1, <2>2, Zenon DEF Record, Records
<1>5. CASE Finish(c)
  BY <1>5, EndedFacts DEF Finish, Running
<1> QED BY <1>1, <1>2, <1>3, <1>4, <1>5, Zenon DEF Step

\* The rows of schema_migrations are versions.
LEMMA RecordAtFacts ==
    ASSUME Base, NEW c \in Commands, Running(c), HasNext(c), RecordAt(c)
    PROVE  recorded' \in SUBSET Versions
<1>1. cmd[c].at \in Versions /\ recorded \subseteq Versions
  BY AtVersion DEF Base, TypeOK, Versions
<1> QED BY <1>1 DEF RecordAt

\* The steps of a command keep Base.
LEMMA StepBase ==
    ASSUME Base, NEW c \in Commands, Step(c)
    PROVE  Base'
<1>1. UNCHANGED <<backend, rows, crashes, overlap, cut>> /\ Running(c)
  BY StepShape
<1>2. /\ recorded \in SUBSET Versions /\ Schema \in SchemaType /\ cut \in SUBSET Versions
      /\ crashes \in 0..MaxCrashes /\ broken \subseteq cut
      /\ cmd[c].at \in 0..(LastFile + 1)
  BY TypeFacts DEF Base, TypeOK, Versions
<1>3. UNCHANGED schema => Schema' = Schema
  BY Zenon DEF schema, Schema
<1>4. CASE Applies(c)
  <2>1. /\ Schema' \in SchemaType /\ broken' \subseteq broken
        /\ recorded' \in SUBSET Versions
    BY <1>1, <1>4, ResultFacts, RecordAtFacts, Zenon DEF Applies, Changed
  <2>2. /\ Goes(c, "work", NextAt(c)) /\ Unblocked(c) /\ NextAt(c) \in 0..(LastFile + 1)
        /\ IF cmd[c].dir = "up" THEN NextAt(c) >= 1 ELSE NextAt(c) <= LastFile
    BY <1>1, <1>4, NextAtFacts, Zenon DEF Applies
  <2> QED BY <1>1, <2>1, <2>2, GoesBase, Zenon
<1>5. CASE Executes(c)
  <2>1. Schema' \in SchemaType /\ broken' \subseteq broken
    <3>1. CASE Changed(c)
      BY <1>1, <1>5, <3>1, ResultFacts DEF Executes, Changed
    <3>2. CASE UNCHANGED schema
      BY <1>2, <1>3, <3>2, Zenon DEF schema
    <3> QED BY <1>5, <3>1, <3>2, Zenon DEF Executes
  <2>2. /\ Goes(c, "record", cmd[c].at) /\ Unblocked(c) /\ recorded' = recorded
        /\ HasNext(c) /\ ~Transactional(cmd[c].at)
        /\ IF cmd[c].dir = "up" THEN cmd[c].at >= 1 ELSE cmd[c].at <= LastFile
    BY <1>1, <1>5, Zenon DEF Executes, Base, Cursors
  <2> QED BY <1>1, <1>2, <2>1, <2>2, GoesBase
<1>6. CASE StartsBuild(c)
  <2>1. Schema' \in SchemaType /\ broken' \subseteq broken /\ recorded' = recorded
    BY <1>2, <1>3, <1>6, Zenon DEF StartsBuild, schema
  <2>2. /\ Goes(c, "build", cmd[c].at) /\ Unblocked(c)
        /\ HasNext(c) /\ ~Transactional(cmd[c].at)
        /\ IF cmd[c].dir = "up" THEN cmd[c].at >= 1 ELSE cmd[c].at <= LastFile
        /\ tables' = TableOf(cmd[c].at)
        /\ Kind(cmd[c].at) = IF cmd[c].dir = "up" THEN "build" ELSE "drop"
    BY <1>1, <1>6 DEF StartsBuild, Base, Cursors, Builds, schema
  <2> QED BY <1>1, <1>2, <2>1, <2>2, GoesBase, Zenon
<1>7. CASE Records(c)
  <2>1. /\ Schema' \in SchemaType /\ broken' \subseteq broken
        /\ tables' = tables /\ recorded' \in SUBSET Versions
    BY <1>1, <1>2, <1>3, <1>7, RecordAtFacts, Zenon DEF Records, schema
  <2>2. /\ Goes(c, "work", NextAt(c)) /\ NextAt(c) \in 0..(LastFile + 1)
        /\ IF cmd[c].dir = "up" THEN NextAt(c) >= 1 ELSE NextAt(c) <= LastFile
    BY <1>1, <1>7, NextAtFacts, ZenonT(40) DEF Records
  <2> QED BY <1>1, <2>1, <2>2, GoesBase, Zenon
<1>8. CASE Ends(c) /\ UNCHANGED <<recorded, schema>>
  <2>1. /\ Schema' \in SchemaType /\ broken' \subseteq cut' /\ tables' = tables
        /\ recorded' = recorded
    BY <1>1, <1>2, <1>3, <1>8 DEF schema
  <2> QED BY <1>1, <1>2, <1>8, <2>1, EndsBase
<1> QED BY <1>4, <1>5, <1>6, <1>7, <1>8, StepShape

\* A killed command.
LEMMA CrashFacts ==
    ASSUME Base, NEW c \in Commands, Crash(c)
    PROVE  /\ Ends(c) /\ Running(c) /\ Schema' \in SchemaType /\ cut' \in SUBSET Versions
           /\ broken' \subseteq cut' /\ cut \subseteq cut'
           /\ done \subseteq done' \cup cut'
           /\ crashes' \in 0..MaxCrashes
           /\ UNCHANGED <<backend, recorded, tables, rows, overlap>>
           /\ cmd[c].pc = "record" => cmd[c].at \in cut'
<1>1. /\ Ends(c) /\ Running(c) /\ UNCHANGED <<backend, recorded, tables, stray, rows, overlap>>
  BY EndedFacts DEF Crash, Base
<1>2. /\ done \in SUBSET Versions /\ broken \in SUBSET Versions /\ cut \in SUBSET Versions
      /\ stray \in SUBSET Versions /\ tables \in {"none", "tuples", "agents"}
      /\ broken \subseteq cut
  BY DEF Base, TypeOK, Versions
<1>3. crashes' \in 0..MaxCrashes
  BY VersionsAssumption DEF Crash, Base, TypeOK
<1>4. CASE cmd[c].pc = "work"
  <2>1. UNCHANGED <<broken, done, cut>>
    BY <1>4, Zenon DEF Crash
  <2> QED BY <1>1, <1>2, <1>3, <1>4, <2>1, Zenon DEF Schema, SchemaType
<1>5. CASE cmd[c].pc # "work"
  <2>1. cmd[c].at \in Versions
    BY <1>1, <1>5, AtVersion DEF Running, Base, Working
  <2>2. cut' = cut \cup {cmd[c].at}
    BY <1>5 DEF Crash
  <2>3. \/ broken' = broken \cup {cmd[c].at} /\ done' = done \ {cmd[c].at}
        \/ UNCHANGED <<broken, done>>
    BY Zenon DEF Crash
  <2> QED BY <1>1, <1>2, <1>3, <2>1, <2>2, <2>3, Zenon DEF Schema, SchemaType
<1> QED BY <1>4, <1>5

\* A crash keeps Base.
LEMMA CrashBase ==
    ASSUME Base, NEW c \in Commands, Crash(c)
    PROVE  Base'
BY CrashFacts, EndsBase

\* A command that starts.
LEMMA BeginFacts ==
    ASSUME Base, NEW c \in Commands, NEW dir \in {"up", "down"}, NEW to \in Int,
           Begin(c, dir, to)
    PROVE  /\ cmd[c].pc = "idle" /\ cmd' \in [Commands -> CmdType]
           /\ cmd'[c].pc = "work" /\ cmd'[c].dir = dir
           /\ cmd'[c].at = IF dir = "up" THEN CurrentVersion + 1 ELSE CurrentVersion
           /\ \A d \in Commands : d # c => cmd'[d] = cmd[d]
           /\ CurrentVersion \in 0..LastFile
           /\ UNCHANGED <<backend, recorded, schema, rows, crashes, cut>>
           /\ overlap' \in BOOLEAN
<1>1. /\ backend \in Backends /\ recorded \subseteq 1..LastFile /\ overlap \in BOOLEAN
      /\ cmd \in [Commands -> CmdType]
  BY TypeFacts DEF Base, TypeOK
<1>2. CurrentVersion \in 0..LastFile /\ LastFile \in {6, 17}
  BY <1>1, CurrentVersionFacts, VersionFacts, Zenon
<1> DEFINE a == IF dir = "up" THEN CurrentVersion + 1 ELSE CurrentVersion
           r == [pc |-> "work", dir |-> dir, to |-> Target(dir, to), at |-> a]
<1>3. cmd' = [cmd EXCEPT ![c] = r] /\ cmd[c].pc = "idle"
      /\ UNCHANGED <<backend, recorded, schema, rows, crashes, cut>>
  BY DEF Begin
<1>4. Target(dir, to) \in 0..17
  BY <1>2 DEF Begin, Target, SchemaTargetVersion
<1>5. a \in 0..(LastFile + 1)
  BY <1>2
<1>6. r \in CmdType
  BY <1>4, <1>5 DEF CmdType, SchemaTargetVersion
<1>7. r.pc = "work" /\ r.dir = dir /\ r.at = a
  OBVIOUS
<1>8. overlap' \in BOOLEAN
  BY <1>1 DEF Begin
<1>9. a = IF dir = "up" THEN CurrentVersion + 1 ELSE CurrentVersion
  OBVIOUS
<1> HIDE DEF r, a
<1>10. cmd' \in [Commands -> CmdType] /\ cmd'[c] = r
       /\ \A d \in Commands : d # c => cmd'[d] = cmd[d]
  BY <1>1, <1>3, <1>6, Zenon
<1> QED BY <1>2, <1>3, <1>7, <1>8, <1>9, <1>10, Zenon

\* A command that starts keeps Base.
LEMMA BeginBase ==
    ASSUME Base, NEW c \in Commands, NEW dir \in {"up", "down"}, NEW to \in Int,
           Begin(c, dir, to)
    PROVE  Base'
<1>1. /\ cmd[c].pc = "idle" /\ cmd' \in [Commands -> CmdType]
      /\ cmd'[c].pc = "work" /\ cmd'[c].dir = dir
      /\ cmd'[c].at = IF dir = "up" THEN CurrentVersion + 1 ELSE CurrentVersion
      /\ \A d \in Commands : d # c => cmd'[d] = cmd[d]
      /\ CurrentVersion \in 0..LastFile
      /\ UNCHANGED <<backend, recorded, schema, rows, crashes, cut>>
      /\ overlap' \in BOOLEAN
  BY BeginFacts
<1>2. LastFile \in {6, 17}
  BY VersionFacts, Zenon DEF Base, TypeOK
<1>3. /\ recorded' \in SUBSET Versions /\ Schema' \in SchemaType /\ cut' \in SUBSET Versions
      /\ rows' \in BOOLEAN /\ crashes' \in 0..MaxCrashes
  BY <1>1, TypeFacts, Zenon DEF Base, TypeOK, Versions, Schema, schema
<1>4. TypeOK'
  BY <1>1, <1>3, TypeKept, Zenon DEF Base
<1>5. /\ LastFile' = LastFile /\ \A v : Kind(v)' = Kind(v)
      /\ \A v : Transactional(v)' = Transactional(v)
  BY <1>1, SameFiles, Zenon
<1>6. Cursors'
  <2> SUFFICES ASSUME NEW d \in Commands, Running(d)'
               PROVE  IF cmd'[d].dir = "up" THEN cmd'[d].at >= 1 ELSE cmd'[d].at <= LastFile
    BY <1>5, Zenon DEF Cursors
  <2>1. CASE d = c
    BY <1>1, <1>2, <2>1
  <2>2. CASE d # c
    BY <1>1, <2>2, Zenon DEF Running, Base, Cursors
  <2> QED BY <2>1, <2>2, Zenon
<1>7. Working'
  BY <1>1, <1>5, Zenon DEF Base, Working, HasNext
<1>8. Builders'
  BY <1>1, <1>5 DEF Base, Builders, Unblocked, schema
<1> QED BY <1>1, <1>4, <1>6, <1>7, <1>8, Zenon DEF Base, schema

\* A server that validates ends the same way as one that has migrated.
LEMMA ValidateFacts ==
    ASSUME Base, NEW c \in Commands, Validate(c)
    PROVE  /\ Ends(c) /\ UNCHANGED <<backend, recorded, schema, rows, crashes, overlap, cut>>
           /\ ~Running(c)
<1>1. Goes(c, "up", cmd[c].at)
  BY MoveFacts, Zenon DEF Validate, Base
<1> QED BY <1>1 DEF Validate, Ends, Goes, Running

\* A validating server keeps Base.
LEMMA ValidateBase ==
    ASSUME Base, NEW c \in Commands, Validate(c)
    PROVE  Base'
<1>1. /\ Ends(c) /\ UNCHANGED <<backend, recorded, tables, rows, overlap>>
      /\ Schema' = Schema /\ broken' = broken /\ cut' = cut /\ crashes' = crashes
  BY ValidateFacts DEF schema, Schema
<1>2. /\ Schema \in SchemaType /\ cut \in SUBSET Versions /\ crashes \in 0..MaxCrashes
      /\ broken \subseteq cut
  BY TypeFacts DEF Base, TypeOK, Versions
<1> QED BY <1>1, <1>2, EndsBase, Zenon

\* A step that leaves the database and the commands alone.
LEMMA SameBase ==
    ASSUME Base, rows' \in BOOLEAN,
           UNCHANGED <<backend, recorded, tables, done, broken, stray, cmd, crashes, overlap, cut>>
    PROVE  Base'
<1>1. TypeOK'
  BY DEF Base, TypeOK, LastFile
<1>2. LastFile' = LastFile /\ \A v : Kind(v)' = Kind(v) /\ Transactional(v)' = Transactional(v)
  BY SameFiles, Zenon
<1>3. Cursors' /\ Working'
  BY <1>2, Zenon DEF Base, Cursors, Working, Running, HasNext
<1>4. Builders'
  BY <1>2 DEF Base, Builders, Unblocked
<1> QED BY <1>1, <1>3, <1>4, Zenon DEF Base

\* A server that records events keeps Base.
LEMMA ServerRecordsBase ==
    ASSUME Base, ServerRecords
    PROVE  Base'
BY SameBase DEF ServerRecords, schema

-----------------------------------------------------------------------------
\* The inductive invariant.

\* A rollback has the database for itself.
Alone ==
    \A c, d \in Commands : Running(c) /\ cmd[c].dir = "down" /\ Running(d) => c = d

Prefix == \E n \in 0..LastFile : recorded = 1..n

\* A migration is behind nothing that is not recorded, a rollback is at the end.
Behind ==
    \A c \in Commands : Running(c) =>
        IF cmd[c].dir = "up" THEN 1..(cmd[c].at - 1) \subseteq recorded
                             ELSE recorded \subseteq 1..cmd[c].at

\* The tables are there once 0001 is recorded, and have their new name once the
\* rename is.
Named ==
    /\ IF tables = "none" THEN recorded = {} ELSE 1 \in recorded
    /\ tables = "agents" => 1..RenameVersion \subseteq recorded
    /\ RenameVersion \in recorded => tables = "agents"

Applied(v) == v \in done \cup cut \/ v \in 10..13

\* What is recorded, and what is about to be, is applied.
Kept ==
    \A v \in recorded :
        \/ Applied(v)
        \/ \E c \in Commands : cmd[c].pc = "record" /\ cmd[c].dir = "down" /\ cmd[c].at = v

Made ==
    \A c \in Commands : cmd[c].pc = "record" /\ cmd[c].dir = "up" => Applied(cmd[c].at)

Ordered == Alone /\ Prefix /\ Behind /\ Named /\ Kept /\ Made

\* The inductive invariant.
IInv == Base /\ (overlap \/ Ordered)

-----------------------------------------------------------------------------
\* Ordered is kept by the steps of a migration ...

\* 0001 and the rename are transactional.
LEMMA NonTransactional ==
    ASSUME backend \in Backends, NEW v \in Versions, ~Transactional(v)
    PROVE  v # 1 /\ v # RenameVersion
BY KindFacts DEF Transactional, Versions

\* A command that goes on or ends leaves a rollback alone.
LEMMA AloneKept ==
    ASSUME Alone, NEW c \in Commands, Running(c),
           (\E p, a : Goes(c, p, a)) \/ Ends(c)
    PROVE  Alone'
<1>1. \A d \in Commands : Running(d)' => Running(d) /\ cmd'[d].dir = cmd[d].dir
  BY GoesFacts DEF Ends, Running
<1> QED BY <1>1 DEF Alone

\* A command that migrates, at the file v.
Migrates(c, v) ==
    /\ c \in Commands /\ Running(c) /\ HasNext(c) /\ cmd[c].dir = "up" /\ v = cmd[c].at

\* What a migration finds at its file v.
LEMMA MigratesFacts ==
    ASSUME Base, Ordered, NEW c, NEW v, Migrates(c, v)
    PROVE  /\ v \in Versions /\ LastFile \in {6, 17} /\ RenameVersion \in {6, 15}
           /\ RenameVersion <= LastFile
           /\ 1..(v - 1) \subseteq recorded /\ recorded \subseteq Versions
           /\ \A d \in Commands : Running(d) => cmd[d].dir = "up"
           /\ \A u \in recorded : Applied(u)
           /\ tables = "none" => v = 1
           /\ tables = "agents" /\ v < RenameVersion => v \in recorded
           /\ v > RenameVersion => tables = "agents"
<1>1. /\ v \in Versions /\ LastFile \in {6, 17} /\ RenameVersion \in {6, 15}
      /\ RenameVersion <= LastFile /\ recorded \subseteq Versions
  BY AtVersion, VersionFacts DEF Migrates, Base, TypeOK, Versions
<1>2. 1..(v - 1) \subseteq recorded
  BY DEF Ordered, Behind, Migrates
<1>3. \A d \in Commands : Running(d) => cmd[d].dir = "up"
  BY TypeFacts DEF Ordered, Alone, Migrates, Base
<1>4. \A u \in recorded : Applied(u)
  BY <1>3 DEF Ordered, Kept, Running
<1>5. tables = "none" => v = 1
  BY <1>1, <1>2 DEF Ordered, Named, Versions
<1>6. tables = "agents" /\ v < RenameVersion => v \in recorded
  BY <1>1 DEF Ordered, Named, Versions
<1>7. v > RenameVersion => tables = "agents"
  BY <1>1, <1>2 DEF Ordered, Named, Versions
<1> QED BY <1>1, <1>2, <1>3, <1>4, <1>5, <1>6, <1>7, Zenon

\* The up file leaves applied what was, and its own change with it.
LEMMA UpApplied ==
    ASSUME Base, Ordered, NEW c, NEW v, Migrates(c, v), Changed(c),
           UNCHANGED <<backend, cut>>
    PROVE  /\ \A u \in Versions : Applied(u) /\ tables # "none" => Applied(u)'
           /\ Applied(v)'
           /\ tables' # "none"
           /\ tables' = "agents" <=> tables = "agents" \/ v = RenameVersion
<1>1. UpShape(v, Schema')
  BY ResultFacts DEF Migrates, Changed
<1>2. /\ tables = "none" /\ v = 1 => tables' = "tuples" /\ 1 \in done'
      /\ tables # "none" => tables' # "none" /\ done \ (10..13) \subseteq done'
      /\ tables' = "agents" <=> tables = "agents" \/ v = RenameVersion
      /\ \/ v \in done' \/ v = 1 \/ (tables # "agents" /\ v > RenameVersion)
         \/ tables # "tuples" /\ v < RenameVersion
  <2>1. Schema'.tables = tables' /\ Schema'.done = done'
    BY Zenon DEF Schema
  <2> QED BY <1>1, <2>1 DEF UpShape
<1>3. /\ v \in Versions /\ (tables = "none" => v = 1)
      /\ \A u \in recorded : Applied(u)
      /\ tables = "agents" /\ v < RenameVersion => v \in recorded
      /\ v > RenameVersion => tables = "agents"
      /\ 1..(v - 1) \subseteq recorded
  BY MigratesFacts, Zenon
<1>5. \A u \in Versions : Applied(u) /\ tables # "none" => Applied(u)'
  BY <1>2, Zenon DEF Applied
<1>6. Applied(v)'
  <2>1. CASE v \in done'
    BY <2>1, Zenon DEF Applied
  <2>2. CASE tables = "none"
    BY <1>2, <1>3, <2>2 DEF Applied
  <2>3. CASE v = 1 /\ tables # "none"
    BY <1>3, <1>5, <2>3 DEF Ordered, Named
  <2>4. CASE tables = "agents" /\ v < RenameVersion
    BY <1>3, <1>5, <2>4
  <2>5. tables \in {"none", "tuples", "agents"}
    BY DEF Base, TypeOK
  <2> QED BY <1>2, <1>3, <2>1, <2>2, <2>3, <2>4, <2>5, Zenon
<1> QED BY <1>2, <1>3, <1>5, <1>6, Zenon

\* The rows of schema_migrations after the row of v is written.
LEMMA UpRecorded ==
    ASSUME Base, Ordered, NEW c, NEW v, Migrates(c, v), RecordAt(c), backend' = backend,
           Goes(c, "work", v + 1)
    PROVE  /\ recorded' = recorded \cup {v} /\ 1..v \subseteq recorded' /\ 1 \in recorded'
           /\ Prefix' /\ Behind'
<1>1. /\ v \in Versions /\ LastFile \in {6, 17} /\ 1..(v - 1) \subseteq recorded
      /\ \A d \in Commands : Running(d) => cmd[d].dir = "up"
  BY MigratesFacts
<1>2. recorded' = recorded \cup {v}
  BY Zenon DEF RecordAt, Migrates
<1>3. 1..v \subseteq recorded' /\ 1 \in recorded'
  BY <1>1, <1>2 DEF Versions
<1>4. Prefix'
  <2>1. PICK n \in 0..LastFile : recorded = 1..n
    BY DEF Ordered, Prefix
  <2>2. v <= n + 1
    BY <1>1, <2>1 DEF Versions
  <2>3. CASE v <= n
    BY <1>1, <1>2, <2>1, <2>3, SameFiles DEF Prefix, Versions
  <2>4. CASE v = n + 1
    <3>1. recorded' = 1..(n + 1) /\ n + 1 \in 0..LastFile
      BY <1>1, <1>2, <2>1, <2>4 DEF Versions
    <3> QED BY <3>1, SameFiles DEF Prefix
  <2> QED BY <1>1, <2>1, <2>2, <2>3, <2>4 DEF Versions
<1>5. Behind'
  <2> SUFFICES ASSUME NEW d \in Commands, Running(d)'
               PROVE  /\ cmd'[d].dir = "up"
                      /\ 1..(cmd'[d].at - 1) \subseteq recorded'
    BY DEF Behind
  <2>0. c \in Commands /\ cmd[c].dir = "up"
    BY DEF Migrates
  <2>1. CASE d = c
    <3>1. cmd'[d].at = v + 1 /\ cmd'[d].dir = "up"
      BY <2>0, <2>1, GoesFacts, ZenonT(40)
    <3>2. cmd'[d].at - 1 = v
      BY <1>1, <3>1 DEF Versions
    <3> QED BY <1>3, <3>1, <3>2, Zenon
  <2>2. CASE d # c
    <3>1. cmd'[d] = cmd[d] /\ Running(d)
      BY <2>0, <2>2, GoesFacts, Zenon DEF Running
    <3>2. cmd[d].dir = "up" /\ 1..(cmd[d].at - 1) \subseteq recorded
      BY <1>1, <3>1, Zenon DEF Ordered, Behind
    <3> QED BY <1>2, <3>1, <3>2, Zenon
  <2> QED BY <2>1, <2>2
<1> QED BY <1>2, <1>3, <1>4, <1>5, Zenon

\* The commands beside a migration that are about to write a row.
LEMMA MadeBeside ==
    ASSUME Base, Ordered, NEW d \in Commands, cmd[d].pc = "record", cmd[d].dir = "up"
    PROVE  cmd[d].at \in Versions /\ Applied(cmd[d].at) /\ tables # "none"
<1>1. Migrates(d, cmd[d].at) /\ ~Transactional(cmd[d].at)
  BY Zenon DEF Migrates, Running, Base, Working
<1>2. cmd[d].at \in Versions /\ (tables = "none" => cmd[d].at = 1)
  BY <1>1, MigratesFacts
<1> QED BY <1>1, <1>2, NonTransactional, Zenon DEF Ordered, Made, Base, TypeOK

\* A transactional up file and its row keep Ordered.
LEMMA UpApplies ==
    ASSUME Base, Ordered, NEW c, NEW v, Migrates(c, v), Applies(c), UNCHANGED <<backend, cut>>
    PROVE  Ordered'
<1>1. Goes(c, "work", v + 1) /\ c \in Commands /\ Running(c)
  BY DEF Applies, NextAt, Migrates
<1>2. Alone'
  BY <1>1, AloneKept DEF Ordered
<1>3. /\ recorded' = recorded \cup {v} /\ 1..v \subseteq recorded' /\ 1 \in recorded'
      /\ Prefix' /\ Behind'
  BY <1>1, UpRecorded DEF Applies
<1>4. /\ \A u \in Versions : Applied(u) /\ tables # "none" => Applied(u)'
      /\ Applied(v)' /\ tables' # "none"
      /\ tables' = "agents" <=> tables = "agents" \/ v = RenameVersion
  BY UpApplied DEF Applies
<1>5. Named'
  BY <1>3, <1>4, SameFiles, Zenon DEF Named, Ordered
<1>6. Kept'
  <2>1. \A u \in recorded : u \in Versions /\ Applied(u) /\ tables # "none"
    BY MigratesFacts, Zenon DEF Ordered, Named
  <2> QED BY <1>3, <1>4, <2>1, Zenon DEF Kept
<1>7. Made'
  <2> SUFFICES ASSUME NEW d \in Commands, cmd'[d].pc = "record", cmd'[d].dir = "up"
               PROVE  Applied(cmd[d].at)'
    BY DEF Made
  <2>1. cmd'[d] = cmd[d]
    BY <1>1, GoesFacts
  <2>2. cmd[d].at \in Versions /\ Applied(cmd[d].at) /\ tables # "none"
    BY <2>1, MadeBeside
  <2>3. \A u \in Versions : Applied(u) => Applied(u)'
    BY <1>4, <2>2
  <2> QED BY <2>1, <2>2, <2>3 DEF Applied
<1> QED BY <1>2, <1>3, <1>5, <1>6, <1>7, Zenon DEF Ordered

\* The statement of a non-transactional up file keeps Ordered.
LEMMA UpExecutes ==
    ASSUME Base, Ordered, NEW c, NEW v, Migrates(c, v), Executes(c), UNCHANGED <<backend, cut>>
    PROVE  Ordered'
<1>1. /\ Goes(c, "record", v) /\ c \in Commands /\ Running(c) /\ recorded' = recorded
      /\ cmd[c].dir = "up" /\ cmd[c].at = v
  BY Zenon DEF Executes, Migrates
<1>2. Alone'
  BY <1>1, AloneKept, Zenon DEF Ordered
<1>3. Prefix'
  BY <1>1, SameFiles, Zenon DEF Prefix, Ordered
<1>4. \A d \in Commands : cmd'[d].dir = cmd[d].dir /\ cmd'[d].at = cmd[d].at
                          /\ (Running(d)' => Running(d))
  BY <1>1, GoesFacts DEF Running
<1>5. Behind'
  BY <1>1, <1>4, Zenon DEF Behind, Ordered
<1>6. /\ v \in Versions /\ v # 1 /\ v # RenameVersion /\ tables # "none"
  BY MigratesFacts, NonTransactional DEF Executes, Migrates, Base, TypeOK
<1>7. /\ \A u \in Versions : Applied(u) => Applied(u)'
      /\ Applied(v)' /\ tables' # "none"
      /\ tables' = "agents" <=> tables = "agents"
  <2>1. CASE Changed(c)
    BY <1>6, <2>1, UpApplied
  <2>2. CASE Skips(cmd[c].dir, cmd[c].at) /\ UNCHANGED schema
    <3>1. v \in done \cup cut
      BY <1>1, <2>2, Zenon DEF Skips, Base
    <3>2. \A u \in Versions : Applied(u) => Applied(u)'
      BY <2>2, SameFiles, Zenon DEF Applied, schema
    <3> QED BY <1>6, <2>2, <3>1, <3>2, Zenon DEF schema, Applied
  <2> QED BY <2>1, <2>2 DEF Executes
<1>8. Named'
  BY <1>1, <1>6, <1>7, SameFiles, Zenon DEF Named, Ordered
<1>9. Kept'
  <2>1. \A u \in recorded : u \in Versions /\ Applied(u)
    BY MigratesFacts, Zenon
  <2> QED BY <1>1, <1>7, <2>1, Zenon DEF Kept
<1>10. Made'
  <2> SUFFICES ASSUME NEW d \in Commands, cmd'[d].pc = "record", cmd'[d].dir = "up"
               PROVE  Applied(cmd[d].at)'
    BY DEF Made
  <2>1. CASE d = c
    <3>1. cmd'[d].at = v
      BY <1>1, <2>1, GoesFacts, ZenonT(40)
    <3> QED BY <1>7, <3>1, Zenon DEF Applied
  <2>2. CASE d # c
    <3>1. cmd'[d] = cmd[d]
      BY <1>1, <2>2, GoesFacts, Zenon
    <3>2. cmd[d].at \in Versions /\ Applied(cmd[d].at)
      BY <3>1, MadeBeside
    <3> QED BY <1>7, <3>1, <3>2, Zenon DEF Applied
  <2> QED BY <2>1, <2>2, Zenon
<1> QED BY <1>2, <1>3, <1>5, <1>8, <1>9, <1>10, Zenon DEF Ordered

\* The row of a non-transactional up file keeps Ordered.
LEMMA UpRecords ==
    ASSUME Base, Ordered, NEW c, NEW v, Migrates(c, v), Records(c), UNCHANGED <<backend, cut>>
    PROVE  Ordered'
<1>1. /\ Goes(c, "work", v + 1) /\ c \in Commands /\ Running(c) /\ UNCHANGED schema
      /\ cmd[c].pc = "record" /\ cmd[c].dir = "up" /\ cmd[c].at = v
  BY Zenon DEF Records, NextAt, Migrates
<1>2. Alone'
  BY <1>1, AloneKept, Zenon DEF Ordered
<1>3. /\ recorded' = recorded \cup {v} /\ 1 \in recorded' /\ Prefix' /\ Behind'
  BY <1>1, UpRecorded, Zenon DEF Records
<1>4. Applied(v) /\ tables # "none" /\ v # RenameVersion
  <2>1. v \in Versions
    BY MigratesFacts, Zenon
  <2> QED BY <1>1, <2>1, MadeBeside, NonTransactional, Zenon DEF Records, Base, TypeOK
<1>5. \A u : Applied(u)' <=> Applied(u)
  BY <1>1, SameFiles, Zenon DEF Applied, schema
<1>6. Named'
  BY <1>1, <1>3, <1>4, SameFiles, Zenon DEF Named, Ordered, schema
<1>7. Kept'
  <2>1. \A u \in recorded : Applied(u)
    BY MigratesFacts, Zenon
  <2> QED BY <1>3, <1>4, <1>5, <2>1, Zenon DEF Kept
<1>8. Made'
  <2> SUFFICES ASSUME NEW d \in Commands, cmd'[d].pc = "record", cmd'[d].dir = "up"
               PROVE  Applied(cmd[d].at)'
    BY DEF Made
  <2>1. cmd'[d] = cmd[d]
    BY <1>1, GoesFacts
  <2>2. Applied(cmd[d].at)
    BY <2>1, MadeBeside
  <2> QED BY <1>5, <2>1, <2>2, Zenon DEF Applied
<1> QED BY <1>2, <1>3, <1>6, <1>7, <1>8, Zenon DEF Ordered

-----------------------------------------------------------------------------
\* ... by the steps of a rollback ...

\* A command that rolls back, at the file v.
RollsBack(c, v) ==
    /\ c \in Commands /\ Running(c) /\ HasNext(c) /\ cmd[c].dir = "down" /\ v = cmd[c].at

\* What a rollback finds at its file v.
LEMMA RollsBackFacts ==
    ASSUME Base, Ordered, NEW c, NEW v, RollsBack(c, v)
    PROVE  /\ v \in Versions /\ LastFile \in {6, 17} /\ RenameVersion \in {6, 15}
           /\ recorded \subseteq 1..v
           /\ \A d \in Commands : Running(d) => d = c
           /\ \A u \in recorded : u = v \/ Applied(u)
           /\ tables = "agents" => RenameVersion <= v
<1>1. /\ v \in Versions /\ LastFile \in {6, 17} /\ RenameVersion \in {6, 15}
  BY AtVersion, VersionFacts, Zenon DEF RollsBack, Base, TypeOK
<1>2. recorded \subseteq 1..v
  BY Zenon DEF Ordered, Behind, RollsBack
<1>3. \A d \in Commands : Running(d) => d = c
  BY Zenon DEF Ordered, Alone, RollsBack
<1>4. \A u \in recorded : u = v \/ Applied(u)
  BY <1>3 DEF Ordered, Kept, Running, RollsBack
<1>5. tables = "agents" => RenameVersion <= v
  BY <1>1, <1>2 DEF Ordered, Named, Versions
<1> QED BY <1>1, <1>2, <1>3, <1>4, <1>5, Zenon

\* The down file leaves the other changes.
LEMMA DownApplied ==
    ASSUME Base, NEW c, NEW v, RollsBack(c, v), Changed(c), UNCHANGED <<backend, cut>>
    PROVE  /\ \A u : Applied(u) /\ u # v => Applied(u)'
           /\ v # 1
           /\ tables' = "none" <=> tables = "none"
           /\ tables' = "agents" <=> tables = "agents" /\ v # RenameVersion
<1>1. DownShape(v, Schema')
  <2>1. cmd[c].dir # "up"
    BY DEF RollsBack
  <2> QED BY <2>1, ResultFacts, Zenon DEF RollsBack, Changed
<1>2. Schema'.tables = tables' /\ Schema'.done = done'
  BY Zenon DEF Schema
<1>3. /\ v # 1 /\ (tables' = "none" <=> tables = "none")
      /\ tables' = "agents" <=> tables = "agents" /\ v # RenameVersion
      /\ done \ {v} \subseteq done'
  BY <1>1, <1>2 DEF DownShape
<1>4. \A u : Applied(u) /\ u # v => Applied(u)'
  BY <1>3, SameFiles DEF Applied
<1> QED BY <1>3, <1>4, Zenon

\* The rows of schema_migrations after the row of v is deleted.
LEMMA DownRecorded ==
    ASSUME Base, Ordered, NEW c, NEW v, RollsBack(c, v), RecordAt(c), backend' = backend,
           Goes(c, "work", v - 1)
    PROVE  recorded' = recorded \ {v} /\ Prefix' /\ Behind' /\ Made'
<1>1. /\ v \in Versions /\ LastFile \in {6, 17} /\ recorded \subseteq 1..v
      /\ \A d \in Commands : Running(d) => d = c
  BY RollsBackFacts
<1>2. c \in Commands /\ cmd[c].dir = "down" /\ cmd[c].at = v
  BY DEF RollsBack
<1>3. recorded' = recorded \ {v}
  BY <1>2, Zenon DEF RecordAt
<1>4. \A d \in Commands : Running(d)' => d = c
  BY <1>1, <1>2, GoesFacts, Zenon DEF Running
<1>5. cmd'[c].at = v - 1 /\ cmd'[c].dir = "down" /\ cmd'[c].pc = "work"
  BY <1>2, GoesFacts
<1>6. Prefix'
  <2>1. PICK n \in 0..LastFile : recorded = 1..n
    BY DEF Ordered, Prefix
  <2>2. n <= v
    BY <1>1, <2>1 DEF Versions
  <2>3. CASE n < v
    <3>1. recorded' = 1..n
      BY <1>1, <1>3, <2>1, <2>3 DEF Versions
    <3> QED BY <2>1, <3>1, SameFiles DEF Prefix
  <2>4. CASE n = v
    <3>1. recorded' = 1..(n - 1) /\ n - 1 \in 0..LastFile
      BY <1>1, <1>3, <2>1, <2>4 DEF Versions
    <3> QED BY <3>1, SameFiles DEF Prefix
  <2> QED BY <1>1, <2>1, <2>2, <2>3, <2>4 DEF Versions
<1>7. Behind'
  <2>1. recorded' \subseteq 1..(v - 1)
    BY <1>1, <1>3 DEF Versions
  <2> QED BY <1>4, <1>5, <2>1 DEF Behind
<1>8. Made'
  BY <1>4, <1>5, Zenon DEF Made, Running
<1> QED BY <1>3, <1>6, <1>7, <1>8

\* A transactional down file and its row keep Ordered.
LEMMA DownApplies ==
    ASSUME Base, Ordered, NEW c, NEW v, RollsBack(c, v), Applies(c), UNCHANGED <<backend, cut>>
    PROVE  Ordered'
<1>1. Goes(c, "work", v - 1) /\ c \in Commands /\ Running(c)
  BY DEF Applies, NextAt, RollsBack
<1>2. Alone'
  BY <1>1, AloneKept, Zenon DEF Ordered
<1>3. recorded' = recorded \ {v} /\ Prefix' /\ Behind' /\ Made'
  BY <1>1, DownRecorded DEF Applies
<1>4. /\ \A u : Applied(u) /\ u # v => Applied(u)'
      /\ v # 1 /\ (tables' = "none" <=> tables = "none")
      /\ tables' = "agents" <=> tables = "agents" /\ v # RenameVersion
  BY DownApplied DEF Applies
<1>5. /\ v \in Versions /\ RenameVersion \in {6, 15} /\ LastFile \in {6, 17}
      /\ tables = "agents" => RenameVersion <= v
      /\ \A u \in recorded : u = v \/ Applied(u)
  BY RollsBackFacts
<1>6. Named'
  <2>1. IF tables' = "none" THEN recorded' = {} ELSE 1 \in recorded'
    BY <1>3, <1>4 DEF Ordered, Named
  <2>2. ASSUME tables' = "agents" PROVE 1..RenameVersion \subseteq recorded'
    <3>1. RenameVersion < v /\ 1..RenameVersion \subseteq recorded
      BY <1>4, <1>5, <2>2 DEF Ordered, Named, Versions
    <3> QED BY <1>3, <1>5, <3>1 DEF Versions
  <2>3. RenameVersion \in recorded' => tables' = "agents"
    BY <1>3, <1>4, Zenon DEF Ordered, Named
  <2> QED BY <2>1, <2>2, <2>3, SameFiles, Zenon DEF Named
<1>7. Kept'
  BY <1>3, <1>4, <1>5, Zenon DEF Kept
<1> QED BY <1>2, <1>3, <1>6, <1>7, Zenon DEF Ordered

\* The statement of a non-transactional down file keeps Ordered.
LEMMA DownExecutes ==
    ASSUME Base, Ordered, NEW c, NEW v, RollsBack(c, v), Executes(c), UNCHANGED <<backend, cut>>
    PROVE  Ordered'
<1>1. /\ Goes(c, "record", v) /\ c \in Commands /\ Running(c) /\ recorded' = recorded
      /\ cmd[c].dir = "down" /\ cmd[c].at = v
  BY Zenon DEF Executes, RollsBack
<1>2. Alone'
  BY <1>1, AloneKept, Zenon DEF Ordered
<1>3. Prefix'
  BY <1>1, SameFiles, Zenon DEF Prefix, Ordered
<1>4. \A d \in Commands : cmd'[d].dir = cmd[d].dir /\ cmd'[d].at = cmd[d].at
                          /\ (Running(d)' => Running(d))
  BY <1>1, GoesFacts DEF Running
<1>5. Behind'
  BY <1>1, <1>4, Zenon DEF Behind, Ordered
<1>0. v # RenameVersion
  <2>1. v \in Versions
    BY RollsBackFacts, Zenon
  <2> QED BY <1>1, <2>1, NonTransactional, Zenon DEF Executes, Base, TypeOK
<1>6. /\ \A u : Applied(u) /\ u # v => Applied(u)'
      /\ tables' = "none" <=> tables = "none"
      /\ tables' = "agents" <=> tables = "agents"
  <2>1. CASE Changed(c)
    <3>1. /\ \A u : Applied(u) /\ u # v => Applied(u)'
          /\ tables' = "none" <=> tables = "none"
          /\ tables' = "agents" <=> tables = "agents" /\ v # RenameVersion
      BY <2>1, DownApplied, Zenon
    <3> QED BY <1>0, <3>1
  <2>2. CASE UNCHANGED schema
    BY <2>2, SameFiles, Zenon DEF Applied, schema
  <2> QED BY <2>1, <2>2, Zenon DEF Executes
<1>7. Named'
  BY <1>1, <1>6, SameFiles, Zenon DEF Named, Ordered
<1>8. Kept'
  <2>1. \A u \in recorded : u = v \/ Applied(u)
    BY RollsBackFacts, Zenon
  <2>2. cmd'[c].pc = "record" /\ cmd'[c].dir = "down" /\ cmd'[c].at = v
    BY <1>1, GoesFacts, Zenon
  <2> QED BY <1>1, <1>6, <2>1, <2>2, Zenon DEF Kept
<1>9. Made'
  <2>1. \A d \in Commands : Running(d) => d = c
    BY RollsBackFacts, Zenon
  <2> QED BY <1>1, <1>4, <2>1, Zenon DEF Made, Running
<1> QED BY <1>2, <1>3, <1>5, <1>7, <1>8, <1>9 DEF Ordered

\* Deleting the row of a non-transactional down file keeps Ordered.
LEMMA DownRecords ==
    ASSUME Base, Ordered, NEW c, NEW v, RollsBack(c, v), Records(c), UNCHANGED <<backend, cut>>
    PROVE  Ordered'
<1>1. Goes(c, "work", v - 1) /\ c \in Commands /\ Running(c) /\ UNCHANGED schema
  BY DEF Records, NextAt, RollsBack
<1>2. Alone'
  BY <1>1, AloneKept, Zenon DEF Ordered
<1>3. recorded' = recorded \ {v} /\ Prefix' /\ Behind' /\ Made'
  BY <1>1, DownRecorded, ZenonT(40) DEF Records
<1>4. /\ v \in Versions /\ RenameVersion \in {6, 15} /\ LastFile \in {6, 17}
      /\ tables = "agents" => RenameVersion <= v
      /\ \A u \in recorded : u = v \/ Applied(u)
  BY RollsBackFacts
<1>5. v # 1 /\ v # RenameVersion
  BY <1>4, NonTransactional DEF Records, RollsBack, Base, TypeOK
<1>6. Named'
  <2>1. IF tables' = "none" THEN recorded' = {} ELSE 1 \in recorded'
    BY <1>1, <1>3, <1>5 DEF Ordered, Named, schema
  <2>2. ASSUME tables' = "agents" PROVE 1..RenameVersion \subseteq recorded'
    <3>1. RenameVersion < v /\ 1..RenameVersion \subseteq recorded
      BY <1>1, <1>4, <1>5, <2>2 DEF Ordered, Named, schema, Versions
    <3> QED BY <1>3, <1>4, <3>1 DEF Versions
  <2>3. RenameVersion \in recorded' => tables' = "agents"
    BY <1>1, <1>3, Zenon DEF Ordered, Named, schema
  <2> QED BY <2>1, <2>2, <2>3, SameFiles, Zenon DEF Named
<1>7. Kept'
  <2>1. \A u : Applied(u) => Applied(u)'
    BY <1>1, SameFiles, Zenon DEF Applied, schema
  <2> QED BY <1>3, <1>4, <2>1, Zenon DEF Kept
<1> QED BY <1>2, <1>3, <1>6, <1>7 DEF Ordered

-----------------------------------------------------------------------------
\* ... and by the rest.

\* The start of an index build keeps Ordered.
LEMMA StartsBuildOrdered ==
    ASSUME Base, Ordered, NEW c \in Commands, Running(c), StartsBuild(c),
           UNCHANGED <<backend, cut>>
    PROVE  Ordered'
<1>1. /\ cmd'[c].pc = "build" /\ cmd[c].pc = "work" /\ cmd'[c].at = cmd[c].at
      /\ cmd'[c].dir = cmd[c].dir
      /\ \A d \in Commands : d # c => cmd'[d] = cmd[d]
      /\ UNCHANGED <<recorded, schema>>
  BY GoesFacts DEF StartsBuild
<1>2. \A u : Applied(u)' <=> Applied(u)
  BY <1>1, SameFiles, Zenon DEF Applied, schema
<1>3. Alone'
  BY AloneKept, Zenon DEF Ordered, StartsBuild
<1>4. Prefix' /\ Named'
  BY <1>1, SameFiles, Zenon DEF Ordered, Prefix, Named, schema
<1>5. Behind'
  BY <1>1, Zenon DEF Ordered, Behind, Running
<1>6. Kept'
  <2> SUFFICES ASSUME NEW u \in recorded, ~Applied(u)
               PROVE  \E d \in Commands :
                        cmd'[d].pc = "record" /\ cmd'[d].dir = "down" /\ cmd'[d].at = u
    BY <1>1, <1>2, Zenon DEF Kept
  <2>1. PICK d \in Commands : cmd[d].pc = "record" /\ cmd[d].dir = "down" /\ cmd[d].at = u
    BY Zenon DEF Ordered, Kept
  <2> QED BY <1>1, <2>1, Zenon
<1>7. Made'
  <2> SUFFICES ASSUME NEW d \in Commands, cmd'[d].pc = "record", cmd'[d].dir = "up"
               PROVE  Applied(cmd[d].at)'
    BY DEF Made
  <2>1. cmd'[d] = cmd[d] /\ Applied(cmd[d].at)
    BY <1>1, Zenon DEF Ordered, Made
  <2> QED BY <1>2, <2>1, Zenon DEF Applied
<1> QED BY <1>3, <1>4, <1>5, <1>6, <1>7, ZenonT(40) DEF Ordered

\* A command that is over keeps Ordered, if what it leaves half done is in cut.
LEMMA EndsOrdered ==
    ASSUME Base, Ordered, NEW c \in Commands, Ends(c), UNCHANGED <<backend, recorded, tables>>,
           \A u : Applied(u) => Applied(u)',
           cmd[c].pc = "record" => cmd[c].at \in cut'
    PROVE  Ordered'
<1>1. /\ cmd'[c].pc \notin {"work", "build", "record"}
      /\ \A d \in Commands : d # c => cmd'[d] = cmd[d]
  BY Zenon DEF Ends
<1>2. Alone' /\ Behind'
  BY <1>1 DEF Ordered, Alone, Behind, Running
<1>3. Prefix' /\ Named'
  BY SameFiles, Zenon DEF Ordered, Prefix, Named
<1>4. Kept'
  <2> SUFFICES ASSUME NEW u \in recorded, ~Applied(u)'
               PROVE  \E d \in Commands :
                        cmd'[d].pc = "record" /\ cmd'[d].dir = "down" /\ cmd'[d].at = u
    BY Zenon DEF Kept
  <2>1. PICK d \in Commands : cmd[d].pc = "record" /\ cmd[d].dir = "down" /\ cmd[d].at = u
    BY Zenon DEF Ordered, Kept
  <2>2. u \notin cut'
    BY Zenon DEF Applied
  <2> QED BY <1>1, <2>1, <2>2, Zenon
<1>5. Made'
  <2> SUFFICES ASSUME NEW d \in Commands, cmd'[d].pc = "record", cmd'[d].dir = "up"
               PROVE  Applied(cmd[d].at)'
    BY Zenon DEF Made
  <2>1. cmd'[d] = cmd[d] /\ Applied(cmd[d].at)
    BY <1>1, Zenon DEF Ordered, Made
  <2> QED BY <2>1, Zenon DEF Applied
<1> QED BY <1>2, <1>3, <1>4, <1>5, Zenon DEF Ordered

\* The steps of a command keep Ordered.
LEMMA StepOrdered ==
    ASSUME Base, Ordered, NEW c \in Commands, Step(c)
    PROVE  Ordered'
<1> DEFINE v == cmd[c].at
<1>1. /\ UNCHANGED <<backend, cut>> /\ Running(c) /\ cmd[c].dir \in {"up", "down"}
  BY StepShape, TypeFacts, Zenon DEF Base
<1>2. HasNext(c) => Migrates(c, v) \/ RollsBack(c, v)
  BY <1>1 DEF Migrates, RollsBack
<1> HIDE DEF v
<1>3. CASE Applies(c)
  BY <1>1, <1>2, <1>3, UpApplies, DownApplies, Zenon DEF Applies
<1>4. CASE Executes(c)
  BY <1>1, <1>2, <1>4, UpExecutes, DownExecutes, Zenon DEF Executes
<1>5. CASE Records(c)
  BY <1>1, <1>2, <1>5, UpRecords, DownRecords, Zenon DEF Records
<1>6. CASE StartsBuild(c)
  BY <1>1, <1>6, StartsBuildOrdered, Zenon
<1>7. CASE cmd[c].pc = "work" /\ Ends(c) /\ UNCHANGED <<recorded, schema>>
  <2>1. \A u : Applied(u) => Applied(u)'
    BY <1>1, <1>7, SameFiles, Zenon DEF Applied, schema
  <2> QED BY <1>1, <1>7, <2>1, EndsOrdered, Zenon DEF schema
<1> QED BY <1>3, <1>4, <1>5, <1>6, <1>7, StepShape, Zenon

\* A crash keeps Ordered.
LEMMA CrashOrdered ==
    ASSUME Base, Ordered, NEW c \in Commands, Crash(c)
    PROVE  Ordered'
<1>1. /\ Ends(c) /\ UNCHANGED <<backend, recorded, tables>>
      /\ cut \subseteq cut' /\ done \subseteq done' \cup cut'
      /\ cmd[c].pc = "record" => cmd[c].at \in cut'
  BY CrashFacts, Zenon
<1>2. \A u : Applied(u) => Applied(u)'
  BY <1>1, SameFiles, Zenon DEF Applied
<1> QED BY <1>1, <1>2, EndsOrdered, Zenon

\* A command that starts goes on from the end of what is recorded, and a
\* rollback that starts beside another command, or is beside one that starts,
\* sets overlap.
LEMMA BeginOrdered ==
    ASSUME Base, overlap \/ Ordered, NEW c \in Commands, NEW dir \in {"up", "down"},
           NEW to \in Int, Begin(c, dir, to), ~overlap'
    PROVE  Ordered'
<1>1. /\ cmd[c].pc = "idle" /\ cmd'[c].pc = "work" /\ cmd'[c].dir = dir
      /\ cmd'[c].at = IF dir = "up" THEN CurrentVersion + 1 ELSE CurrentVersion
      /\ \A d \in Commands : d # c => cmd'[d] = cmd[d]
      /\ UNCHANGED <<backend, recorded, schema, cut>>
  BY BeginFacts
<1>2. /\ Ordered
      /\ \A d \in Commands \ {c} : Running(d) => "down" \notin {dir, cmd[d].dir}
  BY Zenon DEF Begin
<1>3. PICK n \in 0..LastFile : recorded = 1..n
  BY <1>2, Zenon DEF Ordered, Prefix
<1>4. CurrentVersion = n /\ LastFile \in {6, 17}
  BY <1>3, PrefixFacts, VersionFacts, Zenon DEF Base, TypeOK
<1>5. Alone'
  BY <1>1, <1>2, ZenonT(40) DEF Ordered, Alone, Running
<1>6. Prefix' /\ Named'
  BY <1>1, <1>2, SameFiles, Zenon DEF Ordered, Prefix, Named, schema
<1>7. Behind'
  <2> SUFFICES ASSUME NEW d \in Commands, Running(d)'
               PROVE  IF cmd'[d].dir = "up" THEN 1..(cmd'[d].at - 1) \subseteq recorded
                                            ELSE recorded \subseteq 1..cmd'[d].at
    BY <1>1, Zenon DEF Behind
  <2>1. CASE d = c
    <3>1. CASE dir = "up"
      <4>1. cmd'[d].at - 1 = n
        BY <1>1, <1>3, <1>4, <2>1, <3>1
      <4> QED BY <1>1, <1>3, <2>1, <3>1, <4>1, Zenon
    <3>2. CASE dir # "up"
      BY <1>1, <1>3, <1>4, <2>1, <3>2, Zenon
    <3> QED BY <3>1, <3>2, Zenon
  <2>2. CASE d # c
    BY <1>1, <1>2, <2>2 DEF Ordered, Behind, Running
  <2> QED BY <2>1, <2>2, Zenon
<1>8. \A u : Applied(u)' <=> Applied(u)
  BY <1>1, SameFiles, Zenon DEF Applied, schema
<1>9. Kept'
  <2> SUFFICES ASSUME NEW u \in recorded, ~Applied(u)
               PROVE  \E d \in Commands :
                        cmd'[d].pc = "record" /\ cmd'[d].dir = "down" /\ cmd'[d].at = u
    BY <1>1, <1>8, Zenon DEF Kept
  <2>1. PICK d \in Commands : cmd[d].pc = "record" /\ cmd[d].dir = "down" /\ cmd[d].at = u
    BY <1>2, Zenon DEF Ordered, Kept
  <2> QED BY <1>1, <2>1, Zenon
<1>10. Made'
  <2> SUFFICES ASSUME NEW d \in Commands, cmd'[d].pc = "record", cmd'[d].dir = "up"
               PROVE  Applied(cmd[d].at)'
    BY DEF Made
  <2>1. cmd'[d] = cmd[d] /\ Applied(cmd[d].at)
    BY <1>1, <1>2, Zenon DEF Ordered, Made
  <2> QED BY <1>8, <2>1, Zenon DEF Applied
<1> QED BY <1>5, <1>6, <1>7, <1>9, <1>10, Zenon DEF Ordered

-----------------------------------------------------------------------------
\* A database that starts at version v has the changes of 1 to v.
LEMMA InitIInv == Init => IInv
<1> SUFFICES ASSUME Init PROVE IInv
  BY Zenon
<1>1. PICK v \in StartVersions[backend] :
        /\ recorded = 1..v /\ done = 1..v
        /\ tables = IF v = 0 THEN "none"
                    ELSE IF \E r \in 1..v : Kind(r) = "rename" THEN "agents" ELSE "tuples"
        /\ rows \in BOOLEAN /\ (rows => v > 0)
  BY Zenon DEF Init
<1>2. /\ backend \in Backends /\ broken = {} /\ stray = {} /\ cut = {}
      /\ cmd = [c \in Commands |-> Idle] /\ crashes = 0 /\ overlap = FALSE
  BY Zenon DEF Init
<1>3. LastFile \in {6, 17} /\ RenameVersion \in {6, 15} /\ v \in 0..LastFile
  <2>1. StartVersions[backend] \subseteq 0..LastFile
    BY <1>2, VersionsAssumption, Zenon DEF LastFile
  <2> QED BY <1>1, <1>2, <2>1, VersionFacts, Zenon
<1>4. Idle \in CmdType /\ Idle.pc = "idle"
  BY <1>3 DEF Idle, CmdType, SchemaTargetVersion
<1>5. TypeOK
  <2>1. cmd \in [Commands -> CmdType] /\ crashes \in 0..MaxCrashes
    BY <1>2, <1>4, VersionsAssumption
  <2>2. 1..v \in SUBSET (1..LastFile)
    BY <1>3
  <2>3. rows \in BOOLEAN
    BY <1>1, Zenon
  <2> QED BY <1>1, <1>2, <2>1, <2>2, <2>3, Zenon DEF TypeOK, CmdType
<1>6. \A c \in Commands : cmd[c].pc = "idle"
  BY <1>2, <1>4, Zenon
<1>7. Base
  BY <1>2, <1>5, <1>6, Zenon DEF Base, Cursors, Working, Builders, Running
<1>8. Alone /\ Behind /\ Made
  BY <1>6, Zenon DEF Alone, Behind, Made, Running
<1>9. Prefix /\ Kept
  BY <1>1, <1>3, Zenon DEF Prefix, Kept, Applied
<1>10. Named
  <2>1. CASE v = 0
    BY <1>1, <1>3, <2>1 DEF Named
  <2>2. CASE v # 0
    <3>1. 1 \in recorded /\ tables # "none"
      BY <1>1, <1>3, <2>2
    <3>2. ASSUME tables = "agents" PROVE 1..RenameVersion \subseteq recorded
      <4>1. PICK r \in 1..v : Kind(r) = "rename"
        BY <1>1, <2>2, <3>2, Zenon
      <4>2. r = RenameVersion
        BY <1>2, <1>3, <4>1, KindFacts
      <4> QED BY <1>1, <1>3, <4>1, <4>2
    <3>3. ASSUME RenameVersion \in recorded PROVE tables = "agents"
      <4>1. RenameVersion \in 1..v /\ RenameVersion \in 1..LastFile
        BY <1>1, <1>3, <3>3
      <4>2. Kind(RenameVersion) = "rename"
        BY <1>2, <4>1, KindFacts
      <4> QED BY <1>1, <2>2, <4>1, <4>2, Zenon
    <3> QED BY <3>1, <3>2, <3>3, Zenon DEF Named
  <2> QED BY <2>1, <2>2, Zenon
<1> QED BY <1>7, <1>8, <1>9, <1>10 DEF IInv, Ordered

\* A step that leaves the database and the commands alone keeps Ordered.
LEMMA SameOrdered ==
    ASSUME Ordered, UNCHANGED <<backend, recorded, tables, done, cmd, cut>>
    PROVE  Ordered'
<1>1. Alone' /\ Behind'
  BY Zenon DEF Ordered, Alone, Behind, Running
<1>2. Prefix' /\ Named'
  BY SameFiles, Zenon DEF Ordered, Prefix, Named
<1>3. \A u : Applied(u)' <=> Applied(u)
  BY SameFiles, Zenon DEF Applied
<1>4. Kept'
  BY <1>3, Zenon DEF Ordered, Kept
<1>5. Made'
  BY SameFiles, Zenon DEF Ordered, Made, Applied
<1> QED BY <1>1, <1>2, <1>4, <1>5, Zenon DEF Ordered

\* A command that starts keeps the invariant.
LEMMA BeginIInv ==
    ASSUME IInv, NEW c \in Commands, NEW dir \in {"up", "down"}, NEW to \in Int,
           Begin(c, dir, to)
    PROVE  IInv'
<1>1. overlap' \in BOOLEAN
  BY BeginFacts, Zenon DEF IInv
<1> QED BY <1>1, BeginBase, BeginOrdered DEF IInv

\* Every step keeps the invariant.
LEMMA NextIInv == IInv /\ [Next]_vars => IInv'
<1> SUFFICES ASSUME IInv, [Next]_vars PROVE IInv'
  OBVIOUS
<1> USE DEF IInv
<1>1. ASSUME NEW m \in Migrators, StartServer(m) PROVE IInv'
  BY <1>1, BeginIInv DEF StartServer, Commands
<1>2. ASSUME NEW o \in Operators, NEW dir \in {"up", "down"}, NEW to \in Targets[backend],
             Begin(o, dir, to)
      PROVE  IInv'
  <2>1. to \in Int /\ o \in Commands
    BY VersionsAssumption, Zenon DEF Base, TypeOK, Commands
  <2> QED BY <1>2, <2>1, BeginIInv, Zenon
<1>3. ASSUME NEW c \in Commands, Step(c) PROVE IInv'
  BY <1>3, StepShape, StepBase, StepOrdered, Zenon
<1>4. ASSUME NEW c \in Commands, Crash(c) PROVE IInv'
  BY <1>4, CrashFacts, CrashBase, CrashOrdered, Zenon
<1>5. ASSUME NEW s \in Validators, Validate(s) PROVE IInv'
  <2>1. s \in Commands
    BY DEF Commands
  <2>2. Base'
    BY <1>5, <2>1, ValidateBase, Zenon
  <2>3. /\ Ends(s) /\ UNCHANGED <<backend, recorded, schema, overlap, cut>>
        /\ cmd[s].pc # "record"
    BY <1>5, <2>1, ValidateFacts, Zenon DEF Running
  <2>4. \A u : Applied(u) => Applied(u)'
    BY <2>3, SameFiles, Zenon DEF Applied, schema
  <2>5. Ordered => Ordered'
    BY <2>1, <2>3, <2>4, EndsOrdered, Zenon DEF schema
  <2> QED BY <2>2, <2>3, <2>5
<1>6. CASE ServerRecords
  <2>1. UNCHANGED <<backend, recorded, tables, done, broken, stray, cmd, crashes, overlap, cut>>
    BY <1>6, Zenon DEF ServerRecords, schema
  <2>2. Ordered => Ordered'
    BY <2>1, SameOrdered, Zenon
  <2> QED BY <1>6, <2>1, <2>2, ServerRecordsBase, Zenon
<1>7. CASE UNCHANGED vars
  <2>1. UNCHANGED <<backend, recorded, tables, done, broken, stray, rows, cmd, crashes,
                    overlap, cut>>
    BY <1>7, Zenon DEF vars
  <2>2. Ordered => Ordered'
    BY <2>1, SameOrdered, Zenon
  <2>3. Base'
    BY <2>1, SameBase DEF Base, TypeOK
  <2> QED BY <2>1, <2>2, <2>3, Zenon
<1> QED BY <1>1, <1>2, <1>3, <1>4, <1>5, <1>6, <1>7, Zenon DEF Next

\* The inductive invariant holds for any servers, operators, start versions and
\* targets, and any number of crashes.
THEOREM IInvHolds == Spec => []IInv
BY InitIInv, NextIInv, PTL DEF Spec

\* runSchemaActionWithPool works from MAX(version) alone: while no rollback ran
\* beside another command, the recorded versions are exactly those up to it,
\* however many migrations ran together and wherever they were killed.
THEOREM RecordedVersionsHaveNoHoles == Spec => []RecordIsAPrefix
<1>1. IInv => RecordIsAPrefix
  <2> SUFFICES ASSUME IInv, ~overlap PROVE TypeOK /\ recorded = 1..CurrentVersion
    BY Zenon DEF RecordIsAPrefix, IInv, Base
  <2>1. TypeOK /\ backend \in Backends
    BY DEF IInv, Base, TypeOK
  <2>2. PICK n \in 0..LastFile : recorded = 1..n
    BY Zenon DEF IInv, Ordered, Prefix
  <2> QED BY <2>1, <2>2, PrefixFacts
<1> QED BY <1>1, IInvHolds, PTL

\* applyUpSpec and applyDownSpec: what schema_migrations says is applied is in
\* the tables, except a non-transactional file that was cut short or is just
\* being undone, and the indexes a late 0001 creates again.
THEOREM RecordedVersionsAreApplied == Spec => []RecordedIsApplied
<1>1. IInv => RecordedIsApplied
  BY DEF IInv, Ordered, Kept, Applied, RecordedIsApplied
<1> QED BY <1>1, IInvHolds, PTL
=============================================================================
