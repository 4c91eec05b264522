---------------------------- MODULE EventWriter ----------------------------
(***************************************************************************)
(* The deferred event writer of the Postgres and Valkey stores.  An        *)
(* operation commits its row change first and hands its event to a bounded *)
(* channel afterwards; one goroutine collects events into a batch and      *)
(* writes it when it is full or when a ticker fires.  A full channel makes *)
(* the operation write the event itself.                                   *)
(*                                                                         *)
(* `stop' says how the process stops: by calling Close, which waits for    *)
(* the writer to drain the channel, or, as cmd/server does, by returning   *)
(* from main without calling it.  Neither waits for the operations under   *)
(* way: http.Server.Shutdown has a time limit, and the handler behind a    *)
(* TimeoutHandler goes on after its request has been answered.             *)
(***************************************************************************)
EXTENDS Naturals, Sequences, FiniteSets, SequencesExt

CONSTANTS Events,         \* the events of the operations
          QueueCap,       \* capacity of the channel
          BatchSize,      \* events per batch
          Backends,       \* the backends considered
          WritesFail,     \* whether the database may refuse a write
          Stops           \* the ways to stop considered

ASSUME QueueCapAssumption == QueueCap \in Nat
ASSUME BatchSizeAssumption == BatchSize \in Nat \ {0}
ASSUME BackendsAssumption == Backends \subseteq {"postgres", "valkey"}
ASSUME FlagsAssumption == WritesFail \in BOOLEAN /\ Stops \subseteq {"close", "return"}

VARIABLES backend, \* the backend of this deployment
          stop,    \* how its process stops
          op,      \* where the operation of each event is
          queue,   \* the channel eventQueue
          buf,     \* the writer's batch
          writer,  \* where the writer goroutine is
          log,     \* how many times each event is in the database
          refused, \* events whose write the database refused
          process, \* "up", "closing" (context cancelled) or "ended"
          handed   \* history: the operations that had returned when Close began

deployment == <<backend, stop>>
vars == <<deployment, op, queue, buf, writer, log, refused, process, handed>>

\* The channel keeps to its capacity, and every part of the state has its type.
TypeOK ==
    /\ backend \in Backends /\ stop \in Stops
    /\ op \in [Events -> {"running", "committed", "sync", "returned", "cancelled"}]
    /\ queue \in Seq(Events) /\ Len(queue) <= QueueCap
    /\ buf \in Seq(Events)
    /\ writer \in {"select", "flush", "drain", "lastFlush", "done"}
    /\ log \in [Events -> Nat]
    /\ refused \subseteq Events
    /\ process \in {"up", "closing", "ended"}
    /\ handed \subseteq Events

Init ==
    /\ backend \in Backends /\ stop \in Stops
    /\ op = [e \in Events |-> "running"]
    /\ queue = <<>> /\ buf = <<>> /\ writer = "select"
    /\ log = [e \in Events |-> 0] /\ refused = {} /\ process = "up"
    /\ handed = {}

-----------------------------------------------------------------------------
\* The row change of the operation commits; its event exists only in memory.
\* An operation that Close meets may still commit.
Commit(e) ==
    /\ process # "ended" /\ op[e] = "running"
    /\ op' = [op EXCEPT ![e] = "committed"]
    /\ UNCHANGED <<queue, buf, writer, log, refused, process, handed, deployment>>

enqueueEvent(e) ==
    /\ process # "ended" /\ op[e] = "committed"
    /\ IF Len(queue) < QueueCap
         THEN queue' = Append(queue, e) /\ op' = [op EXCEPT ![e] = "returned"]
         ELSE op' = [op EXCEPT ![e] = "sync"] /\ UNCHANGED queue
    /\ UNCHANGED <<buf, writer, log, refused, process, handed, deployment>>

\* The synchronous write of an event that found the channel full.
SyncWrite(e, written) ==
    /\ process # "ended" /\ op[e] = "sync"
    /\ written \/ WritesFail
    /\ log' = IF written THEN [log EXCEPT ![e] = @ + 1] ELSE log
    /\ refused' = IF written THEN refused ELSE refused \cup {e}
    /\ op' = [op EXCEPT ![e] = "returned"]
    /\ UNCHANGED <<queue, buf, writer, process, handed, deployment>>

\* The scripts of Valkey run under the context that Close cancels: the call
\* fails, although its change was made, and never comes to its event.
Cancel(e) ==
    /\ backend = "valkey" /\ process = "closing" /\ op[e] = "committed"
    /\ op' = [op EXCEPT ![e] = "cancelled"]
    /\ UNCHANGED <<queue, buf, writer, log, refused, process, handed, deployment>>

-----------------------------------------------------------------------------
(* eventWriterLoop                                                         *)

Collect ==
    /\ process # "ended" /\ writer = "select" /\ queue # <<>>
    /\ buf' = Append(buf, Head(queue)) /\ queue' = Tail(queue)
    /\ writer' = IF Len(buf') >= BatchSize THEN "flush" ELSE "select"
    /\ UNCHANGED <<op, log, refused, process, handed, deployment>>

\* Fault: the ticker is ignored.
TickIgnored ==
    FALSE /\ UNCHANGED vars

Tick ==
    /\ process # "ended" /\ writer = "select" /\ buf # <<>>
    /\ writer' = "flush"
    /\ UNCHANGED <<op, queue, buf, log, refused, process, handed, deployment>>

\* The events of a batch that can reach the database together: a failing
\* statement aborts the whole Postgres batch, and one event on Valkey.
Writable(events) ==
    IF ~WritesFail THEN {events}
    ELSE IF backend = "postgres" THEN {{}, events}
    ELSE SUBSET events

Occurrences(e, s) == Cardinality({i \in DOMAIN s : s[i] = e})

\* The log after those events of the batch have reached it.
LogWith(written) ==
    [e \in Events |-> IF e \in written THEN log[e] + Occurrences(e, buf)
                                       ELSE log[e]]

\* Write: the batch is emptied whatever the outcome.
WriteBatch(written) ==
    /\ written \in Writable(ToSet(buf))
    /\ log' = LogWith(written)
    /\ refused' = refused \cup (ToSet(buf) \ written)
    /\ buf' = <<>>

\* Fault: the batch is kept after it is written.
flushEventsKept(written) ==
    /\ process # "ended" /\ writer = "flush"
    /\ written \in Writable(ToSet(buf))
    /\ log' = LogWith(written)
    /\ writer' = "select"
    /\ UNCHANGED <<op, queue, buf, refused, process, handed, deployment>>

flushEvents(written) ==
    /\ process # "ended" /\ writer = "flush"
    /\ WriteBatch(written)
    /\ writer' = "select"
    /\ UNCHANGED <<op, queue, process, handed, deployment>>

\* The context is cancelled: the select may pick this branch from now on.
StartDrain ==
    /\ process = "closing" /\ writer = "select"
    /\ writer' = "drain"
    /\ UNCHANGED <<op, queue, buf, log, refused, process, handed, deployment>>

\* Fault: the writer stops without looking at the channel.
DrainNothing ==
    /\ process = "closing" /\ writer = "drain"
    /\ writer' = "lastFlush"
    /\ UNCHANGED <<op, queue, buf, log, refused, process, handed, deployment>>

Drain ==
    /\ process = "closing" /\ writer = "drain"
    /\ IF queue # <<>>
         THEN /\ buf' = Append(buf, Head(queue)) /\ queue' = Tail(queue)
              /\ UNCHANGED writer
         ELSE writer' = "lastFlush" /\ UNCHANGED <<buf, queue>>
    /\ UNCHANGED <<op, log, refused, process, handed, deployment>>

LastFlush(written) ==
    /\ process = "closing" /\ writer = "lastFlush"
    /\ WriteBatch(written)
    /\ writer' = "done"
    /\ UNCHANGED <<op, queue, process, handed, deployment>>

-----------------------------------------------------------------------------
\* Close cancels the context of the store, at any moment, and waits for the
\* writer to be done.
Close ==
    /\ stop = "close" /\ process = "up"
    /\ process' = "closing"
    /\ handed' = {e \in Events : op[e] = "returned"}
    /\ UNCHANGED <<op, queue, buf, writer, log, refused, deployment>>

\* Close has closed the connections, or main has returned: an operation that
\* is still under way writes nothing any more.
Exit ==
    /\ IF stop = "close" THEN process = "closing" /\ writer = "done"
                          ELSE process = "up"
    /\ process' = "ended"
    /\ UNCHANGED <<op, queue, buf, writer, log, refused, handed, deployment>>

Ended == process = "ended" /\ UNCHANGED vars

WriterStep == Collect \/ Tick \/ StartDrain \/ Drain
              \/ \E S \in SUBSET Events : flushEvents(S) \/ LastFlush(S)

OpStep(e) == enqueueEvent(e) \/ \E written \in BOOLEAN : SyncWrite(e, written)

Next == \/ \E e \in Events : Commit(e) \/ OpStep(e) \/ Cancel(e)
        \/ WriterStep \/ Close \/ Exit \/ Ended

\* The writer's goroutine and the operations' run whenever they can.
Fairness == WF_vars(WriterStep) /\ \A e \in Events : WF_vars(OpStep(e))

Spec == Init /\ [][Next]_vars /\ Fairness

-----------------------------------------------------------------------------
Settled == {e \in Events : log[e] > 0} \cup refused

\* An event is in one place at a time: it is never written twice, and what
\* was written or refused is in neither the channel nor the batch.  (The type
\* invariant, with the channel's capacity, is part of it.)
EventsAreUnique ==
    /\ TypeOK
    /\ \A e \in Events :
         log[e] + Occurrences(e, buf \o queue) <= (IF e \in refused THEN 0 ELSE 1)

\* When the process has ended by closing the store, every operation that had
\* returned when Close began has its event in the database, unless the database
\* refused it: what is committed, queued or written beside Close takes no event
\* of theirs away.  (An operation that Close meets between its commit and its
\* enqueueEvent can lose its event.)
StoppingKeepsEvents ==
    process = "ended" /\ stop = "close" => handed \subseteq Settled

\* Until the process stops, the event of a committed operation reaches the
\* database, in a batch of its own if no other event follows.
CommittedIsLogged ==
    \A e \in Events : op[e] # "running" ~> (e \in Settled \/ process # "up")
=============================================================================
