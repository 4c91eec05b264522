--------------------------- MODULE BlockingCalls ---------------------------
(***************************************************************************)
(* Blocking in and read: a loop that tries, misses, sleeps until something *)
(* wakes it, and tries again until its deadline.  Several server processes *)
(* share the database; each has one wake-up channel that signalWakeups     *)
(* closes and replaces, so a signal reaches the calls asleep at that       *)
(* moment and no others.                                                   *)
(*                                                                         *)
(* The backend chooses the loop.  "postgres" and "sqlite" also wake on a poll  *)
(* timer and give up with an error; "valkey" has no poll timer, tries once *)
(* more when its deadline timer fires and gives up with a nil agent.  All  *)
(* agents match all callers: `free' counts the NEW ones.                   *)
(***************************************************************************)
EXTENDS Naturals, FiniteSets

CONSTANTS Servers,   \* server processes
          Callers,   \* blocking calls
          MayRead,   \* the callers that may be in Read
          Home,      \* the server that runs each call
          Backends,  \* the backends considered
          Lossy,     \* whether PUBLISH may fail
          MaxWork    \* bound: agents made available

ASSUME MayReadAssumption == MayRead \subseteq Callers
ASSUME HomeAssumption == Home \in [Callers -> Servers]
ASSUME BackendsAssumption == Backends \subseteq {"postgres", "sqlite", "valkey"}
ASSUME LossyAssumption == Lossy \in BOOLEAN
ASSUME MaxWorkAssumption == MaxWork \in Nat

VARIABLES backend,    \* the backend of this deployment
          readers,    \* the calls in Read; the others are in In
          patient,    \* calls whose deadline is too far away to pass
          free,       \* matching agents that are NEW
          made,       \* agents made available so far
          publisher,  \* per server: how far its latest publication got
          inbox,      \* servers with a notification on its way
          listening,  \* servers whose listener still receives
          place,      \* where each call is
          woken,      \* sleeping calls whose channel has been closed
          late,       \* calls whose deadline has passed
          strict,     \* the call that holds the queue's advisory lock
          reply       \* the answer of each finished call

callsVars == <<backend, readers, patient, free, made, publisher, inbox, listening, place, woken,
          late, strict, reply>>
setting == <<backend, readers, patient>>
store == <<setting, free, made>>
waking == <<publisher, inbox, listening>>

Asleep(s) == {c \in Callers : place[c] = "asleep" /\ Home[c] = s}

\* State has its type; only a sleeping call is woken, and only a call that
\* holds the claim's lock is in strict mode.
CallsTypeOK ==
    /\ backend \in Backends
    /\ readers \subseteq MayRead /\ patient \subseteq Callers
    /\ free \in 0..MaxWork /\ made \in 0..MaxWork
    /\ publisher \in [Servers -> {"idle", "signal", "publish"}]
    /\ inbox \subseteq Servers /\ listening \subseteq Servers
    /\ place \in [Callers -> {"try", "locked", "missed", "asleep", "done"}]
    /\ woken \subseteq {c \in Callers : place[c] = "asleep"}
    /\ late \subseteq Callers
    /\ strict \in SUBSET {c \in Callers : place[c] = "locked"}
    /\ reply \in [Callers -> {"none", "200", "204", "408", "500", "aborted"}]

CallsInit ==
    /\ backend \in Backends
    /\ readers \in SUBSET MayRead /\ patient \in SUBSET Callers
    /\ free = 0 /\ made = 0
    /\ publisher = [s \in Servers |-> "idle"]
    /\ inbox = {} /\ listening = Servers
    /\ place = [c \in Callers |-> "try"]
    /\ woken = {} /\ late = {} /\ strict = {}
    /\ reply = [c \in Callers |-> "none"]

-----------------------------------------------------------------------------
(* Publication: the commit, then signalWakeups, then (valkey) PUBLISH.     *)

\* The servers that pg_notify reaches when the transaction commits.
NotifiedAtCommit ==
    IF backend = "postgres" THEN listening ELSE {}

\* An agent becomes NEW.  On postgres Out, Release, CompleteAndOut and the
\* lease reaper all queue a notification in their transaction.
Publish(s) ==
    /\ made < MaxWork /\ publisher[s] = "idle"
    /\ made' = made + 1 /\ free' = free + 1
    /\ publisher' = [publisher EXCEPT ![s] = IF backend = "sqlite"
                                             THEN "idle" ELSE "signal"]
    /\ inbox' = inbox \cup NotifiedAtCommit
    /\ UNCHANGED <<setting, listening, place, woken, late, strict, reply>>

signalWakeups(s) == woken' = woken \cup Asleep(s)

\* The publishing server closes its own channel.
Signal(s) ==
    /\ publisher[s] = "signal"
    /\ signalWakeups(s)
    /\ publisher' = [publisher EXCEPT ![s] = IF backend = "valkey"
                                             THEN "publish" ELSE "idle"]
    /\ UNCHANGED <<store, inbox, listening, place, late, strict, reply>>

\* PUBLISH reaches the subscribers of this moment; a failure is only logged.
publishWakeup(s, sent) ==
    /\ publisher[s] = "publish"
    /\ sent \/ Lossy
    /\ publisher' = [publisher EXCEPT ![s] = "idle"]
    /\ inbox' = IF sent THEN inbox \cup listening ELSE inbox
    /\ UNCHANGED <<store, listening, place, woken, late, strict, reply>>

\* The listener of s receives a notification.
Receive(s) ==
    /\ s \in inbox
    /\ inbox' = inbox \ {s}
    /\ signalWakeups(s)
    /\ UNCHANGED <<store, publisher, listening, place, late, strict, reply>>

\* The listener's connection fails; neither backend connects again.
ListenerFails(s) ==
    /\ backend # "sqlite" /\ s \in listening
    /\ listening' = listening \ {s} /\ inbox' = inbox \ {s}
    /\ UNCHANGED <<store, publisher, place, woken, late, strict, reply>>

\* On postgres the loop of a failed listener signals after every error.
ListenerErrs(s) ==
    /\ backend = "postgres" /\ s \notin listening
    /\ signalWakeups(s)
    /\ UNCHANGED <<store, waking, place, late, strict, reply>>

-----------------------------------------------------------------------------
(* One call.                                                               *)

MoveTo(c, l) == place' = [place EXCEPT ![c] = l]

\* What the handler answers for the store's result: "agent", "timeout" (the
\* error "timeout waiting for agent"), "deadline" (ctx.Err()) or "nil".
ReadAgent(result) ==
    CASE result = "agent" -> "200"
      [] result = "timeout" -> "408"
      [] result = "deadline" -> "500"
      [] result = "nil" -> "204"

\* Fault: context.DeadlineExceeded is not recognised.
InAgentByMessage(result) ==
    CASE result = "agent" -> "200"
      [] result = "timeout" -> "408"
      [] result = "deadline" -> "500"
      [] result = "nil" -> "aborted"

\* A nil agent is dereferenced: the request ends without a response.
InAgent(result) ==
    CASE result = "agent" -> "200"
      [] result \in {"timeout", "deadline"} -> "408"
      [] result = "nil" -> "aborted"

Return(c, result) ==
    /\ MoveTo(c, "done")
    /\ reply' = [reply EXCEPT ![c] = IF c \in readers THEN ReadAgent(result)
                                                      ELSE InAgent(result)]

\* A strict take on postgres asks for the queue's advisory lock and reports
\* no work when another transaction holds it.
resolveTakeLockClause(c) ==
    IF backend # "postgres" \/ c \in readers
      THEN MoveTo(c, "locked") /\ UNCHANGED strict
      ELSE \/ strict = {} /\ MoveTo(c, "locked") /\ strict' = {c}
           \/ strict # {} /\ MoveTo(c, "missed") /\ UNCHANGED strict

\* The loop's condition and the start of the try.
Try(c) ==
    /\ place[c] = "try"
    /\ IF backend # "valkey" /\ c \in late
         THEN Return(c, "timeout") /\ UNCHANGED strict
         ELSE resolveTakeLockClause(c) /\ UNCHANGED reply
    /\ UNCHANGED <<store, waking, woken, late>>

\* Fault: the deadline is not compared after a miss.
ClaimForever(c) ==
    /\ place[c] = "locked"
    /\ IF free > 0
         THEN free' = free - 1 /\ Return(c, "agent")
         ELSE MoveTo(c, "missed") /\ UNCHANGED <<free, reply>>
    /\ strict' = strict \ {c}
    /\ UNCHANGED <<setting, made, waking, woken, late>>

\* The statement or script that claims (or, for Read, queries).
Claim(c) ==
    /\ place[c] = "locked"
    /\ IF free > 0
         THEN /\ free' = IF c \in readers THEN free ELSE free - 1
              /\ Return(c, "agent")
         ELSE /\ UNCHANGED free
              /\ IF backend = "valkey" /\ c \in late
                   THEN Return(c, "nil")
                   ELSE MoveTo(c, "missed") /\ UNCHANGED reply
    /\ strict' = strict \ {c}
    /\ UNCHANGED <<setting, made, waking, woken, late>>

\* The deadline interrupts the statement, which is rolled back.
ClaimInterrupted(c) ==
    /\ backend = "postgres" /\ place[c] = "locked" /\ c \in late
    /\ Return(c, "deadline")
    /\ strict' = strict \ {c}
    /\ UNCHANGED <<store, waking, woken, late>>

\* currentWakeupChan is read only now: earlier signals are not seen.
Sleep(c) ==
    /\ place[c] = "missed"
    /\ MoveTo(c, "asleep")
    /\ UNCHANGED <<store, waking, woken, late, strict, reply>>

\* Fault: no poll timer.
WakeSignalled(c) ==
    /\ place[c] = "asleep" /\ c \in woken
    /\ MoveTo(c, "try") /\ woken' = woken \ {c}
    /\ UNCHANGED <<store, waking, late, strict, reply>>

\* The channel is closed, or the poll timer fires.
Wake(c) ==
    /\ place[c] = "asleep"
    /\ c \in woken \/ backend # "valkey"
    /\ MoveTo(c, "try") /\ woken' = woken \ {c}
    /\ UNCHANGED <<store, waking, late, strict, reply>>

\* The context is done or the deadline timer fires.
WakeLate(c) ==
    /\ place[c] = "asleep" /\ c \in late
    /\ IF backend = "valkey" THEN MoveTo(c, "try") /\ UNCHANGED reply
                             ELSE Return(c, "deadline")
    /\ woken' = woken \ {c}
    /\ UNCHANGED <<store, waking, late, strict>>

DeadlinePasses(c) ==
    /\ c \notin late \cup patient /\ place[c] # "done"
    /\ late' = late \cup {c}
    /\ UNCHANGED <<store, waking, place, woken, strict, reply>>

-----------------------------------------------------------------------------
CallStep(c) == Try(c) \/ Claim(c) \/ Sleep(c) \/ Wake(c) \/ WakeLate(c)

CallsNext ==
    \/ \E s \in Servers :
         \/ Publish(s) \/ Signal(s)
         \/ \E sent \in BOOLEAN : publishWakeup(s, sent)
         \/ Receive(s) \/ ListenerFails(s) \/ ListenerErrs(s)
    \/ \E c \in Callers : CallStep(c) \/ ClaimInterrupted(c) \/ DeadlinePasses(c)

\* A goroutine that can run does run, and time passes.  Nothing is assumed
\* of publishers, notifications or listeners.
CallsFairness == \A c \in Callers : WF_callsVars(CallStep(c)) /\ WF_callsVars(DeadlinePasses(c))

CallsSpec == CallsInit /\ [][CallsNext]_callsVars /\ CallsFairness

-----------------------------------------------------------------------------
(* Properties                                                              *)

\* Every answer is one the API documents for the call (an agent or 408 for in,
\* and also 204 for read), for the combinations of handler and store whose ways
\* to report a deadline agree: InAgent on the SQL stores and ReadAgent on
\* Valkey.  (The type invariant is part of it.)
AgreeingHandlersAnswer ==
    /\ CallsTypeOK
    /\ \A c \in Callers :
         /\ place[c] = "done" /\ c \notin readers /\ backend # "valkey" =>
              reply[c] \in {"200", "408"}
         /\ place[c] = "done" /\ c \in readers /\ backend = "valkey" =>
              reply[c] \in {"200", "204"}

\* Every call whose deadline passes returns: no order of misses, signals and
\* deadlines leaves the loop asleep for ever.
CallsReturn == \A c \in Callers : c \notin patient ~> place[c] = "done"

\* While a call on an SQL store is blocked, an available agent does not stay
\* available: the call gets it, or another one does, whatever becomes of the
\* notifications, the listeners and the advisory lock.
WaitingWorkIsTaken ==
    \A c \in Callers :
      (backend # "valkey" /\ free > 0 /\ place[c] # "done")
        ~> (free = 0 \/ place[c] = "done")
=============================================================================
