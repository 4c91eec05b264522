-------------------------- MODULE SchemaMigrations --------------------------
(***************************************************************************)
(* Schema migrations of the SQL backends (pkg/store/migrations,            *)
(* postgres_migrations.go, sqlite_migrations.go): servers that migrate or  *)
(* validate when they start, and operators who run `schema migrate' and    *)
(* `schema rollback', all on one database and without a lock between them. *)
(*                                                                         *)
(* A command reads the current version once and then works through the     *)
(* files after it.  A transactional file and its schema_migrations row     *)
(* commit together; a non-transactional one (an index built or dropped     *)
(* CONCURRENTLY) and its row are two statements.  A server whose command   *)
(* fails exits and is started again.                                       *)
(*                                                                         *)
(* The database is abstracted to the name its tables have (0015, or 0006   *)
(* of SQLite, renames tuples to agents), the versions whose change is in   *)
(* them, the versions whose index was left INVALID, and the versions that  *)
(* a command working from an old version applied to a second, empty set of *)
(* tables under the old name.  Checksums agree: every command runs the     *)
(* same binary.                                                            *)
(***************************************************************************)
EXTENDS Integers, FiniteSets

CONSTANTS
    Migrators,      \* servers started with --schema-mode=migrate
    Validators,     \* servers started with --schema-mode=validate
    Operators,      \* runs of `schema migrate --to' and `schema rollback --to'
    StartVersions,  \* StartVersions[b]: the versions a database of backend b may start from
    Targets,        \* Targets[b]: the versions an operator asks for
    MaxCrashes      \* bound: commands killed half-way

Backends == {"postgres", "sqlite"}

\* A database starts at a version that has a file, or empty.
ASSUME VersionsAssumption ==
    /\ \A b \in Backends : /\ StartVersions[b] \subseteq 0..(IF b = "postgres" THEN 17 ELSE 6)
                          /\ Targets[b] \subseteq Int
    /\ MaxCrashes \in Nat

VARIABLES
    backend,        \* which files the database was made with
    recorded,       \* the versions in schema_migrations
    tables,         \* "none", or the name of the tables that hold the rows
    done,           \* the versions whose change is in those tables
    broken,         \* the versions whose index build was interrupted: the index is INVALID
    stray,          \* the versions applied to a second set of tables named tuples
    rows,           \* events have been recorded
    cmd,            \* cmd[c]: where command c is
    crashes,
    overlap,        \* history: a rollback ran beside another command
    cut             \* history: versions whose non-transactional file was cut short

vars == <<backend, recorded, tables, done, broken, stray, rows, cmd, crashes, overlap, cut>>
schema == <<tables, done, broken, stray>>

Commands == Migrators \cup Validators \cup Operators

-----------------------------------------------------------------------------
\* The migration files.

SchemaTargetVersion == 17
SchemaMinCompatVersion == SchemaTargetVersion - 1

\* The highest version that has a file.
LastFile == IF backend = "postgres" THEN 17 ELSE 6

\* What a file does: create the tables if they are missing; change them in a
\* way that can be repeated; add a column, which SQLite cannot do twice; copy
\* the event tables into partitioned ones; rename the tables; build or drop an
\* index without blocking writers.
PostgresKind(v) ==
    CASE v = 1 -> "baseline"
      [] v = 6 -> "partition"
      [] v = 15 -> "rename"
      [] v \in {7, 8, 9, 16} -> "build"
      [] v \in {10, 11, 12, 13, 17} -> "drop"
      [] OTHER -> "alter"

SQLiteKind(v) ==
    CASE v = 1 -> "baseline"
      [] v = 2 -> "column"
      [] v = 6 -> "rename"
      [] OTHER -> "alter"

Kind(v) == IF backend = "postgres" THEN PostgresKind(v) ELSE SQLiteKind(v)

\* -- migrate:nontransactional
Transactional(v) == Kind(v) \notin {"build", "drop"}

\* The name a file calls the tables by.
TableOf(v) == IF v <= 15 THEN "tuples" ELSE "agents"

\* A change to the tables: S is the schema as a record, Failed an SQL error.
Schema == [tables |-> tables, done |-> done, broken |-> broken, stray |-> stray]
Failed == [tables |-> "error", done |-> {}, broken |-> {}, stray |-> {}]

\* The statements of a file find the tables under the name they use, or the
\* stray ones, or none.
OnTables(v, S) ==
    IF tables = TableOf(v) THEN S
    ELSE IF TableOf(v) = "tuples" /\ stray # {} THEN [Schema EXCEPT !.stray = @ \cup {v}]
    ELSE Failed

\* 0001 is CREATE ... IF NOT EXISTS throughout: where the tables are there it
\* only brings back the indexes that 0010 to 0013 drop, and where they have been
\* renamed it creates them again, empty.
Baseline ==
    CASE tables = "none" -> [Schema EXCEPT !.tables = "tuples", !.done = {1}]
      [] tables = "tuples" -> [Schema EXCEPT !.done = @ \ (10..13)]
      [] tables = "agents" -> [Schema EXCEPT !.stray = @ \cup {1}]

\* 0006 once more: the new partitions are skipped because the old ones have
\* their names, and rows then have no partition to go to; on the stray tables
\* the index names are still taken by the renamed event table.
Partition ==
    CASE tables = "tuples" /\ ~(6 \in done /\ rows) -> [Schema EXCEPT !.done = @ \cup {6}]
      [] OTHER -> Failed

\* The tables after the up file v.
Up(v) ==
    CASE Kind(v) = "baseline" -> Baseline
      [] Kind(v) = "partition" -> Partition
      [] Kind(v) = "column" ->
            IF v \in (IF tables = "tuples" THEN done ELSE stray)
            THEN Failed ELSE OnTables(v, [Schema EXCEPT !.done = @ \cup {v}])
      [] Kind(v) = "rename" ->
            IF tables = "tuples"
            THEN [Schema EXCEPT !.tables = "agents", !.done = @ \cup {v}] ELSE Failed
      [] Kind(v) = "drop" ->
            IF v < 15 \/ tables = "agents"
            THEN [Schema EXCEPT !.done = @ \cup {v}, !.broken = @ \ {v}] ELSE Schema
      [] OTHER -> OnTables(v, [Schema EXCEPT !.done = @ \cup {v}])

\* The tables after the down file v.  0001 drops schema_migrations with the
\* tables, so that the DELETE that follows in its transaction fails; 0002 of
\* SQLite leaves the columns; 0006 finds its index names taken on the stray
\* tables, as its up file does.
Down(v) ==
    CASE Kind(v) = "baseline" -> Failed
      [] Kind(v) = "partition" ->
            IF tables = "tuples" THEN [Schema EXCEPT !.done = @ \ {v}] ELSE Failed
      [] Kind(v) = "column" -> OnTables(v, Schema)
      [] Kind(v) = "rename" ->
            IF tables = "agents" /\ stray = {}
            THEN [Schema EXCEPT !.tables = "tuples", !.done = @ \ {v}] ELSE Failed
      [] Kind(v) = "build" ->
            IF tables = TableOf(v)
            THEN [Schema EXCEPT !.done = @ \ {v}, !.broken = @ \ {v}] ELSE Schema
      [] OTHER -> OnTables(v, [Schema EXCEPT !.done = @ \ {v}])

\* The statement builds an index that is not there yet, in no short time.
Builds(dir, v) ==
    /\ tables = TableOf(v)
    /\ \/ dir = "up" /\ Kind(v) = "build" /\ v \notin done \cup broken
       \/ dir = "down" /\ Kind(v) = "drop" /\ v \in done

\* CREATE INDEX IF NOT EXISTS of an index that is there, valid or not.
Skips(dir, v) ==
    /\ tables = TableOf(v)
    /\ \/ dir = "up" /\ Kind(v) = "build" /\ v \in done \cup broken
       \/ dir = "down" /\ Kind(v) = "drop" /\ v \notin done

-----------------------------------------------------------------------------
Max0(S) == IF S = {} THEN 0 ELSE CHOOSE x \in S : \A y \in S : y <= x

\* SELECT COALESCE(MAX(version), 0) FROM schema_migrations
CurrentVersion == Max0(recorded)

Idle == [pc |-> "idle", dir |-> "up", at |-> 0, to |-> 0]
\* A command that ends: a server serves or is started again, an operator's
\* command is over.
Ended(c, pc) == [cmd EXCEPT ![c] = [Idle EXCEPT !.pc = IF c \in Operators THEN "exited" ELSE pc]]
Running(c) == cmd[c].pc \in {"work", "build", "record"}

Init ==
    /\ backend \in Backends
    /\ \E v \in StartVersions[backend] :
        /\ recorded = 1..v /\ done = 1..v
        /\ tables = IF v = 0 THEN "none"
                    ELSE IF \E r \in 1..v : Kind(r) = "rename" THEN "agents" ELSE "tuples"
        /\ rows \in BOOLEAN /\ (rows => v > 0)
    /\ broken = {} /\ stray = {}
    /\ cmd = [c \in Commands |-> Idle]
    /\ crashes = 0 /\ overlap = FALSE /\ cut = {}

\* `migrate' without a version means the version this binary was built for.
Target(dir, to) == IF dir = "up" /\ to <= 0 THEN SchemaTargetVersion ELSE to

\* Variant with a fault: the rollback starts at the oldest version it undoes.
BeginOldestFirst(c, dir, to) ==
    /\ cmd[c].pc = "idle"
    /\ IF dir = "up" THEN Target(dir, to) \in CurrentVersion..SchemaTargetVersion
                     ELSE to \in 0..CurrentVersion
    /\ cmd' = [cmd EXCEPT ![c] =
                 [pc |-> "work", dir |-> dir, to |-> Target(dir, to),
                  at |-> IF dir = "up" THEN CurrentVersion + 1 ELSE to + 1]]
    /\ overlap' = (overlap \/ \E d \in Commands \ {c} :
                        Running(d) /\ "down" \in {dir, cmd[d].dir})
    /\ UNCHANGED <<backend, recorded, schema, rows, crashes, cut>>

\* runSchemaActionWithPool up to its switch: the version is read, the target is
\* checked, and the loop starts behind it.
Begin(c, dir, to) ==
    /\ cmd[c].pc = "idle"
    /\ IF dir = "up" THEN Target(dir, to) \in CurrentVersion..SchemaTargetVersion
                     ELSE to \in 0..CurrentVersion
    /\ cmd' = [cmd EXCEPT ![c] =
                 [pc |-> "work", dir |-> dir, to |-> Target(dir, to),
                  at |-> IF dir = "up" THEN CurrentVersion + 1 ELSE CurrentVersion]]
    /\ overlap' = (overlap \/ \E d \in Commands \ {c} :
                        Running(d) /\ "down" \in {dir, cmd[d].dir})
    /\ UNCHANGED <<backend, recorded, schema, rows, crashes, cut>>

\* A server's store runs its schema mode before anything else.
StartServer(m) == Begin(m, "up", 0)

\* The next file of the loop, if there is one.
HasNext(c) ==
    IF cmd[c].dir = "up" THEN cmd[c].at <= cmd[c].to /\ cmd[c].at <= LastFile
                         ELSE cmd[c].at > cmd[c].to

Advance(c) == [cmd EXCEPT ![c].pc = "work",
                          ![c].at = IF cmd[c].dir = "up" THEN @ + 1 ELSE @ - 1]

\* The schema_migrations row of the file is written or deleted.
RecordAt(c) ==
    recorded' = IF cmd[c].dir = "up" THEN recorded \cup {cmd[c].at} ELSE recorded \ {cmd[c].at}

SetSchema(S) == /\ tables' = S.tables /\ done' = S.done
                /\ broken' = S.broken /\ stray' = S.stray

\* DDL waits for an index build on the table to end.
Unblocked(c) == \A d \in Commands \ {c} : cmd[d].pc # "build"

Result(c) == IF cmd[c].dir = "up" THEN Up(cmd[c].at) ELSE Down(cmd[c].at)

\* A failed file ends the command with an error.
Fail(c) == /\ cmd' = Ended(c, "idle")
           /\ UNCHANGED <<recorded, schema>>

\* A transactional file and its row commit together, or neither does.
ApplyInTransaction(c) ==
    /\ cmd[c].pc = "work" /\ HasNext(c) /\ Transactional(cmd[c].at) /\ Unblocked(c)
    /\ IF Result(c) = Failed THEN Fail(c)
       ELSE SetSchema(Result(c)) /\ RecordAt(c) /\ cmd' = Advance(c)
    /\ UNCHANGED <<backend, rows, crashes, overlap, cut>>

\* Variant with a fault: the row is written before the index is built.
ExecRecordsFirst(c) ==
    /\ cmd[c].pc = "work" /\ HasNext(c) /\ ~Transactional(cmd[c].at) /\ Unblocked(c)
    /\ CASE Skips(cmd[c].dir, cmd[c].at) ->
                cmd' = [cmd EXCEPT ![c].pc = "record"] /\ UNCHANGED <<recorded, schema>>
         [] Builds(cmd[c].dir, cmd[c].at) ->
                cmd' = [cmd EXCEPT ![c].pc = "build"] /\ RecordAt(c) /\ UNCHANGED schema
         [] Result(c) = Failed -> Fail(c)
         [] OTHER -> /\ SetSchema(Result(c))
                     /\ cmd' = [cmd EXCEPT ![c].pc = "record"]
                     /\ UNCHANGED recorded
    /\ UNCHANGED <<backend, rows, crashes, overlap, cut>>

\* Variant with a fault: CREATE INDEX without IF NOT EXISTS.
ExecOnlyOnce(c) ==
    /\ cmd[c].pc = "work" /\ HasNext(c) /\ ~Transactional(cmd[c].at) /\ Unblocked(c)
    /\ CASE Skips(cmd[c].dir, cmd[c].at) -> Fail(c)
         [] Builds(cmd[c].dir, cmd[c].at) ->
                cmd' = [cmd EXCEPT ![c].pc = "build"] /\ UNCHANGED <<recorded, schema>>
         [] Result(c) = Failed -> Fail(c)
         [] OTHER -> /\ SetSchema(Result(c))
                     /\ cmd' = [cmd EXCEPT ![c].pc = "record"]
                     /\ UNCHANGED recorded
    /\ UNCHANGED <<backend, rows, crashes, overlap, cut>>

\* The one statement of a non-transactional file starts: it has nothing to do,
\* drops an index, starts to build one, or finds no table.
ExecStatement(c) ==
    /\ cmd[c].pc = "work" /\ HasNext(c) /\ ~Transactional(cmd[c].at) /\ Unblocked(c)
    /\ IF Skips(cmd[c].dir, cmd[c].at)
       THEN cmd' = [cmd EXCEPT ![c].pc = "record"] /\ UNCHANGED <<recorded, schema>>
       ELSE IF Builds(cmd[c].dir, cmd[c].at)
       THEN cmd' = [cmd EXCEPT ![c].pc = "build"] /\ UNCHANGED <<recorded, schema>>
       ELSE IF Result(c) = Failed THEN Fail(c)
       ELSE /\ SetSchema(Result(c))
            /\ cmd' = [cmd EXCEPT ![c].pc = "record"]
            /\ UNCHANGED recorded
    /\ UNCHANGED <<backend, rows, crashes, overlap, cut>>

BuildEnds(c) ==
    /\ cmd[c].pc = "build"
    /\ SetSchema(Result(c))
    /\ cmd' = [cmd EXCEPT ![c].pc = "record"]
    /\ UNCHANGED <<backend, recorded, rows, crashes, overlap, cut>>

\* The second statement of a non-transactional file.
Record(c) ==
    /\ cmd[c].pc = "record"
    /\ RecordAt(c)
    /\ cmd' = Advance(c)
    /\ UNCHANGED <<backend, schema, rows, crashes, overlap, cut>>

\* ensureEventPartitions: a server of Postgres creates the partitions of the next
\* days, for which agent_events has to be there and to be partitioned.
PartitionsEnsured == backend = "postgres" => tables = "agents" /\ 6 \in done

\* The loop is over; a server then sees to the partitions, and exits if it cannot.
Finish(c) ==
    /\ cmd[c].pc = "work" /\ ~HasNext(c)
    /\ cmd' = Ended(c, IF PartitionsEnsured THEN "up" ELSE "idle")
    /\ UNCHANGED <<backend, recorded, schema, rows, crashes, overlap, cut>>

\* Validation accepts the window of versions this binary works with.
Compatible == CurrentVersion \in SchemaMinCompatVersion..SchemaTargetVersion

Validate(s) ==
    /\ cmd[s].pc = "idle" /\ Compatible /\ PartitionsEnsured
    /\ cmd' = [cmd EXCEPT ![s].pc = "up"]
    /\ UNCHANGED <<backend, recorded, schema, rows, crashes, overlap, cut>>

\* A server that is up records events.
ServerRecords ==
    /\ ~rows /\ tables = "agents"
    /\ \E s \in Migrators \cup Validators : cmd[s].pc = "up"
    /\ rows' = TRUE
    /\ UNCHANGED <<backend, recorded, schema, cmd, crashes, overlap, cut>>

\* The process dies, or its connection: a transaction is rolled back, an index
\* build leaves an INVALID index.
Crash(c) ==
    /\ Running(c) /\ crashes < MaxCrashes
    /\ crashes' = crashes + 1
    /\ cmd' = Ended(c, "idle")
    /\ IF cmd[c].pc = "build"
       THEN broken' = broken \cup {cmd[c].at} /\ done' = done \ {cmd[c].at}
       ELSE UNCHANGED <<broken, done>>
    /\ cut' = IF cmd[c].pc = "work" THEN cut ELSE cut \cup {cmd[c].at}
    /\ UNCHANGED <<backend, recorded, tables, stray, rows, overlap>>

Step(c) == ApplyInTransaction(c) \/ ExecStatement(c) \/ BuildEnds(c) \/ Record(c) \/ Finish(c)

Next ==
    \/ \E m \in Migrators : StartServer(m)
    \/ \E o \in Operators, dir \in {"up", "down"}, to \in Targets[backend] : Begin(o, dir, to)
    \/ \E c \in Commands : Step(c) \/ Crash(c)
    \/ \E s \in Validators : Validate(s)
    \/ ServerRecords

\* Processes run, statements end, and a server that exited is started again.
Fairness ==
    /\ \A c \in Commands : WF_vars(Step(c))
    /\ \A m \in Migrators : WF_vars(StartServer(m))
    /\ \A s \in Validators : WF_vars(Validate(s))

Spec == Init /\ [][Next]_vars /\ Fairness

-----------------------------------------------------------------------------
\* Properties

\* Types of the variables.
TypeOK ==
    /\ backend \in Backends
    /\ recorded \subseteq 1..LastFile
    /\ tables \in {"none", "tuples", "agents"}
    /\ {done, broken, stray, cut} \subseteq SUBSET (1..LastFile)
    /\ rows \in BOOLEAN /\ overlap \in BOOLEAN
    /\ crashes \in 0..MaxCrashes
    /\ cmd \in [Commands -> [pc : {"idle", "work", "build", "record", "up", "exited"},
                             dir : {"up", "down"},
                             at : 0..(LastFile + 1), to : 0..SchemaTargetVersion]]

\* The commands keep one number, MAX(version), for the whole table: it is only
\* right while the recorded versions are all those below it, which no lock
\* protects.  Concurrent migrations keep it so (each inserts the versions in
\* order); only a rollback that runs beside another command may leave a hole.
RecordIsAPrefix == TypeOK /\ (overlap \/ recorded = 1..CurrentVersion)

\* applyUpSpec and applyDownSpec: a version in schema_migrations is a change
\* that is in the tables, whatever commands ran together and wherever they were
\* killed.  The exceptions are the non-transactional files: one whose command
\* was killed half-way (an INVALID index is then recorded as built, a dropped
\* index as still there), the row of one that is just being undone, and the
\* indexes of 0010 to 0013, which a late 0001 creates again.
RecordedIsApplied ==
    overlap \/ \A v \in recorded :
        \/ v \in done \cup cut
        \/ v \in 10..13
        \/ \E c \in Commands : cmd[c].pc = "record" /\ cmd[c].at = v

\* The column that 0002 of SQLite adds is there and not recorded.
ColumnLeftBehind == \E v \in done \ recorded : Kind(v) = "column"

\* A rollback undid the rename or the partitions while a migration went on: later
\* versions are recorded, and no migration will bring agent_events back.
EventsLost ==
    /\ overlap /\ ~PartitionsEnsured
    /\ \E v \in (1..CurrentVersion) \ recorded : Kind(v) \in {"partition", "rename"}

\* initSchema in migrate mode: a server that is started again after every failed
\* start comes up, although others migrate, roll back and are killed beside it,
\* since every file can be run again.  Two things bar every server for good.
\* 0002 of SQLite cannot be run again: its down file leaves the columns, and no
\* server migrates a database rolled back below it.  And a rollback of Postgres
\* that overtakes a migration leaves older tables under the newest version, where
\* ensureEventPartitions finds no agent_events, or one without partitions.
ServersComeUp ==
    \A m \in Migrators :
        <>(cmd[m].pc = "up") \/ <>[]ColumnLeftBehind \/ <>[]EventsLost
=============================================================================
