---------------------------- MODULE ApiRequests ----------------------------
(***************************************************************************)
(* Requests of the HTTP API (internal/api/handlers.go) and the calls of    *)
(* the Python SDK that send them.  The SDK sends a call again when it gets *)
(* no answer in time, a 5xx or a 429; the server goes on with the attempt  *)
(* that was given up, unless the store call it is in listens to the        *)
(* context of the request.  A handler is several store calls: the quota of *)
(* a namespace is two or three counts before the write, and a completion   *)
(* reads the agent before it and again after it.                           *)
(*                                                                         *)
(* Agents are those of one namespace and one queue.  A single store call   *)
(* is one step, as the modules of the stores justify, with one exception:  *)
(* the conflict path of completeAndGet in PostgreSQL, which asks the pool  *)
(* for a second connection while its transaction holds one.                *)
(***************************************************************************)
EXTENDS Naturals, FiniteSets

CONSTANTS
    Producers,   \* clients that create an agent
    Workers,     \* clients that take an agent and finish it
    MaxAttempts, \* max_retries + 1 of RetryConfig
    MaxAgents,   \* bound: identifiers; a run has one per creating request
    Seeds,       \* agents the namespace starts with
    Deployments, \* the combinations of backend, MaxConns and time limits to check
    ActiveCap,   \* MaxActiveAgents of the principal
    QueueCap,    \* MaxQueueDepth of the principal
    MaxLosses    \* bound: answers that are late or lost, and store calls that fail

ASSUME ClientsAssumption == Producers \cap Workers = {}
ASSUME QuotaAssumption == Seeds \in 0..ActiveCap /\ {ActiveCap, QueueCap} \subseteq Nat
ASSUME BoundsAssumption == {MaxAttempts, MaxAgents, MaxLosses} \subseteq Nat /\ MaxAttempts > 0

VARIABLES
    config,      \* the deployment, see Deployment
    agent,       \* agent[a]: the row of agent a
    client,      \* client[c]: the SDK call client c is in
    req,         \* req[r]: the handler of request r
    losses,
    raced        \* history: a quota was passed on counts that had changed

vars == <<config, agent, client, req, losses, raced>>

\* timed: RequestTimeoutMiddleware or the client bounds the time of a request.
Deployment == [backend : {"postgres", "sqlite", "valkey"}, pool : Nat \ {0}, timed : BOOLEAN]

ASSUME DeploymentsAssumption == Deployments \subseteq Deployment

Agents == 1..MaxAgents
Clients == Producers \cup Workers

\* A request is an attempt of a call; it also names the token it may claim with.
Requests ==
    (Producers \X {"create"} \X (1..MaxAttempts))
        \cup (Workers \X {"take", "finish"} \X (1..MaxAttempts))

NoToken == <<"no token">>
NoAgent == [status |-> "NONE", token |-> NoToken, doneBy |-> NoToken, maker |-> NoToken]
NewAgent(r) == [status |-> "NEW", token |-> NoToken, doneBy |-> NoToken, maker |-> r]
NoRequest == [pc |-> "none", op |-> "none", round |-> 0, seen |-> 0, stale |-> FALSE,
              left |-> FALSE, reply |-> "none", id |-> 0]

With(status) == {a \in Agents : agent[a].status = status}
Count(status) == Cardinality(With(status))

Token == Requests \cup {NoToken}
Agent == [status : {"NONE", "NEW", "IN_PROGRESS", "COMPLETED"},
          token : Token, doneBy : Token, maker : Token]
Call == [call : {"create", "take", "finish", "end"},
         op : {"none", "complete", "complete_and_out"},
         attempt : 0..MaxAttempts, id : 0..MaxAgents, token : Token,
         answer : {"none", "ok", "empty", "quota", "refused", "not_found", "unknown"}]
Request == [pc : {"none", "count_new", "count_in_progress", "count_queue", "write", "take",
                  "find", "complete", "classify", "get", "replied"},
            op : {"none", "create", "take", "complete", "complete_and_out"},
            round : 0..2, seen : 0..MaxAgents, stale : BOOLEAN, left : BOOLEAN,
            reply : {"none", "ok", "empty", "quota", "refused", "not_found", "error"},
            id : 0..MaxAgents]

TypeOK ==
    /\ config \in Deployment
    /\ agent \in [Agents -> Agent]
    /\ client \in [Clients -> Call]
    /\ req \in [Requests -> Request]
    /\ losses \in 0..MaxLosses
    /\ raced \in BOOLEAN

Init ==
    /\ config \in Deployments
    /\ agent = [a \in Agents |-> IF a <= Seeds THEN NewAgent(NoToken) ELSE NoAgent]
    /\ client = [c \in Clients |->
                    [call |-> IF c \in Producers THEN "create" ELSE "take",
                     op |-> "none", attempt |-> 0, id |-> 0, token |-> NoToken, answer |-> "none"]]
    /\ req = [r \in Requests |-> NoRequest]
    /\ losses = 0
    /\ raced = FALSE

-----------------------------------------------------------------------------
(***************************************************************************)
(* The SDK.                                                                *)
(***************************************************************************)

\* The handler of a request that has just arrived.  A completion begins with a
\* look at the agent.  A create names its queue from the start; complete-and-out
\* checks the cap for its outputs first, and again with the queue of each of them.
Handler(op) ==
    [pc |-> CASE op = "take" -> "take"
              [] op = "create" -> "count_new"
              [] OTHER -> "find",
     op |-> op,
     round |-> IF op = "complete_and_out" THEN 1 ELSE 2,
     seen |-> 0, stale |-> FALSE, left |-> FALSE, reply |-> "none", id |-> 0]

Current(c) == <<c, client[c].call, client[c].attempt>>

\* The operation a client asks for in its present call.
OpOf(c) == IF client[c].call = "finish" THEN client[c].op ELSE client[c].call

\* The client sends the first attempt of its call.
Send(c) ==
    /\ client[c].call # "end" /\ client[c].attempt = 0
    /\ LET r == <<c, client[c].call, 1>>
       IN  req' = [req EXCEPT ![r] = Handler(OpOf(c))]
    /\ client' = [client EXCEPT ![c].attempt = 1]
    /\ UNCHANGED <<config, agent, losses, raced>>

\* retry_with_backoff after an attempt without a usable answer: the next one,
\* or the exception of the last.  `done` is what is left of the attempt.
Again(c, done, answer) ==
    LET n == client[c].attempt
        next == <<c, client[c].call, n + 1>>
    IN  IF n < MaxAttempts
        THEN /\ client' = [client EXCEPT ![c].attempt = n + 1]
             /\ req' = [req EXCEPT ![Current(c)] = done,
                                   ![next] = Handler(OpOf(c))]
        ELSE /\ client' = [client EXCEPT ![c].call = "end", ![c].answer = answer]
             /\ req' = [req EXCEPT ![Current(c)] = done]

\* should_retry: a 429 is a RateLimitError and a 5xx an InternalError, which are
\* tried again; a 403, a 404 or a 409 is not.
Receive(c) ==
    /\ client[c].call # "end" /\ client[c].attempt > 0
    /\ LET r == Current(c)
       IN  /\ req[r].pc = "replied"
           /\ IF req[r].reply = "quota" THEN Again(c, NoRequest, "quota")
              ELSE IF req[r].reply = "error" THEN Again(c, NoRequest, "unknown")
              ELSE /\ req' = [req EXCEPT ![r] = NoRequest]
                   /\ IF client[c].call = "take" /\ req[r].reply = "ok"
                      THEN \E op \in {"complete", "complete_and_out"} :
                             client' = [client EXCEPT ![c] =
                                          [call |-> "finish", op |-> op, attempt |-> 0,
                                           id |-> req[r].id, token |-> r, answer |-> "none"]]
                      ELSE client' = [client EXCEPT ![c].call = "end", ![c].answer = req[r].reply]
    /\ UNCHANGED <<config, agent, losses, raced>>

\* Connections held while another one is asked for.
Held == Cardinality({r \in Requests : req[r].pc = "classify"})
Connection == config.backend = "postgres" => config.pool > Held

\* No answer: the connection is lost, the SDK's timeout passes, or the server's
\* TimeoutHandler answers 503.  The handler is not stopped by any of these.
GiveUp(c) ==
    /\ client[c].call # "end" /\ client[c].attempt > 0
    /\ losses < MaxLosses \/ ~Connection
    /\ losses' = IF Connection THEN losses + 1 ELSE losses
    /\ LET h == req[Current(c)]
       IN  Again(c, IF h.pc = "replied" THEN NoRequest ELSE [h EXCEPT !.left = TRUE], "unknown")
    /\ UNCHANGED <<config, agent, raced>>

-----------------------------------------------------------------------------
(***************************************************************************)
(* The handlers.                                                           *)
(***************************************************************************)

Running(r, pc) == req[r].pc = pc
Active(r) == req[r].pc \notin {"none", "replied"}

\* The response of the handler; nobody reads it when the client has left.
Reply(r, reply, id) ==
    IF req[r].left THEN NoRequest
    ELSE [NoRequest EXCEPT !.pc = "replied", !.reply = reply, !.id = id]

\* Variant with a fault: the completion runs under context.Background().
CtxBoundNotComplete(r) ==
    \/ config.backend = "postgres" /\ req[r].pc \in {"take", "find", "get"}
    \/ config.backend = "postgres" /\ req[r].pc = "write" /\ req[r].op = "create"
    \/ config.backend = "valkey" /\ req[r].pc \in {"take", "find", "get"}

\* The store calls that listen to the request's context: the bound stores of
\* PostgreSQL and Valkey pass it on for some operations only, SQLite has none.
CtxBound(r) ==
    \/ config.backend = "postgres" /\ req[r].pc \in {"take", "find", "complete", "classify", "get"}
    \/ config.backend = "postgres" /\ req[r].pc = "write" /\ req[r].op = "create"
    \/ config.backend = "valkey" /\ req[r].pc \in {"take", "find", "get"}

\* The context of a request nobody waits for is cancelled, and the store call
\* fails.  A call that is quicker than the cancellation still takes effect.
Cancelled(r) ==
    /\ Active(r) /\ CtxBound(r) /\ req[r].left
    /\ req' = [req EXCEPT ![r] = NoRequest]
    /\ UNCHANGED <<config, agent, client, losses, raced>>

\* A store call fails, and takes no effect: the handlers answer 404 to whatever
\* goes wrong when the agent is read, and a 5xx otherwise.
Fails(r) ==
    /\ Active(r) /\ losses < MaxLosses
    /\ losses' = losses + 1
    /\ req' = [req EXCEPT ![r] =
                  Reply(r, IF req[r].pc \in {"find", "get"} THEN "not_found" ELSE "error", 0)]
    /\ UNCHANGED <<config, agent, client, raced>>

\* newCount of allowNamespaceAgentCreation.
CountNew(r) ==
    /\ Running(r, "count_new") /\ Connection
    /\ req' = [req EXCEPT ![r] = [@ EXCEPT !.seen = Count("NEW"), !.stale = FALSE,
                                           !.pc = "count_in_progress"]]
    /\ UNCHANGED <<config, agent, client, losses, raced>>

\* Variant with a fault: the agent that is to be added is not counted.
ExceedsCapWithoutAddition(newCount, inProgressCount) == newCount + inProgressCount > ActiveCap

ExceedsCap(newCount, inProgressCount) == newCount + inProgressCount + 1 > ActiveCap

\* The requests that go on with counts that are too low now: `pcs` are the
\* places of the handler where the change is missed.
Stale(reqs, pcs) ==
    [r \in Requests |-> IF reqs[r].pc \in pcs /\ reqs[r].op = "create"
                        THEN [reqs[r] EXCEPT !.stale = TRUE] ELSE reqs[r]]

Between == {"count_in_progress"}
Counted == {"count_in_progress", "count_queue", "write"}

\* inProgressCount, and the decision on MaxActiveAgents.
CountInProgress(r) ==
    /\ Running(r, "count_in_progress") /\ Connection
    /\ req' = [req EXCEPT ![r] =
                  IF ExceedsCap(req[r].seen, Count("IN_PROGRESS")) THEN Reply(r, "quota", 0)
                  ELSE IF req[r].round = 1 THEN [@ EXCEPT !.pc = "count_new", !.seen = 0, !.round = 2]
                  ELSE [@ EXCEPT !.pc = "count_queue", !.seen = 0]]
    /\ UNCHANGED <<config, agent, client, losses, raced>>

\* queueCount, and the decision on MaxQueueDepth.
CountQueue(r) ==
    /\ Running(r, "count_queue") /\ Connection
    /\ req' = [req EXCEPT ![r] = IF Count("NEW") + 1 > QueueCap THEN Reply(r, "quota", 0)
                                 ELSE [@ EXCEPT !.pc = "write"]]
    /\ UNCHANGED <<config, agent, client, losses, raced>>

\* Identifiers are fresh UUIDs: one that is not in use is as good as another.
Fresh == CHOOSE a \in Agents : a \in With("NONE")

\* CreateAgent calls Out.
Out(r) ==
    /\ Running(r, "write") /\ req[r].op = "create" /\ Connection /\ With("NONE") # {}
    /\ agent' = [agent EXCEPT ![Fresh] = NewAgent(r)]
    /\ req' = Stale([req EXCEPT ![r] = Reply(r, "ok", Fresh)], Counted)
    /\ raced' = (raced \/ req[r].stale)
    /\ UNCHANGED <<config, client, losses>>

\* The agent and the lease token the request of a worker names.
Named(r) == agent[client[r[1]].id]
TokenOf(r) == client[r[1]].token

Holds(r) == Named(r).status = "IN_PROGRESS" /\ Named(r).token = TokenOf(r)
DoneBefore(r) == Named(r).status = "COMPLETED" /\ Named(r).doneBy = TokenOf(r)

Completed(r) ==
    [agent EXCEPT ![client[r[1]].id] =
        [status |-> "COMPLETED", token |-> NoToken, doneBy |-> TokenOf(r), maker |-> @.maker]]

\* Variant with a fault: a completion that is sent again publishes again.
CompleteAndOutRepeats(r) ==
    /\ Running(r, "write") /\ req[r].op = "complete_and_out" /\ Connection
    /\ IF Holds(r) \/ DoneBefore(r)
       THEN /\ With("NONE") # {}
            /\ agent' = [Completed(r) EXCEPT ![Fresh] = NewAgent(r)]
            /\ req' = Stale([req EXCEPT ![r] = Reply(r, "ok", client[r[1]].id)], Between)
       ELSE /\ req' = [req EXCEPT ![r] = Reply(r, "refused", 0)]
            /\ UNCHANGED agent
    /\ UNCHANGED <<config, client, losses, raced>>

\* CompleteAndOutAgent calls CompleteAndOut, with one output.  A repetition is
\* answered with the agent and no outputs, and in Valkey with a conflict.
CompleteAndOut(r) ==
    /\ Running(r, "write") /\ req[r].op = "complete_and_out" /\ Connection
    /\ IF Holds(r)
       THEN /\ With("NONE") # {}
            /\ agent' = [Completed(r) EXCEPT ![Fresh] = NewAgent(r)]
            /\ req' = Stale([req EXCEPT ![r] = Reply(r, "ok", client[r[1]].id)], Between)
       ELSE /\ req' = [req EXCEPT ![r] =
                          Reply(r, IF DoneBefore(r) /\ config.backend # "valkey" THEN "ok" ELSE "refused", client[r[1]].id)]
            /\ UNCHANGED agent
    /\ UNCHANGED <<config, client, losses, raced>>

\* TakeAgent: claims some NEW agent, or answers 204.
Take(r) ==
    /\ Running(r, "take") /\ Connection
    /\ \/ /\ With("NEW") = {}
          /\ req' = [req EXCEPT ![r] = Reply(r, "empty", 0)]
          /\ UNCHANGED agent
       \/ \E a \in With("NEW") :
             /\ agent' = [agent EXCEPT ![a] =
                   [status |-> "IN_PROGRESS", token |-> r, doneBy |-> @.doneBy, maker |-> @.maker]]
             /\ req' = [req EXCEPT ![r] = Reply(r, "ok", a)]
    /\ UNCHANGED <<config, client, losses, raced>>

\* CompleteAgent and CompleteAndOutAgent look at the agent first, to see whether
\* the principal may; no agent is ever deleted here.
Find(r) ==
    /\ Running(r, "find") /\ Connection
    /\ req' = [req EXCEPT ![r].pc = IF req[r].op = "complete" THEN "complete" ELSE "count_new"]
    /\ UNCHANGED <<config, agent, client, losses, raced>>

\* CompleteAgent calls Complete.  The bound stores do not offer CompleteAndGet,
\* so the agent is read back; SQLite answers at once.  The UPDATE of PostgreSQL
\* that matches no row keeps its transaction open for the conflict path.
Complete(r) ==
    /\ Running(r, "complete") /\ Connection
    /\ IF Holds(r)
       THEN /\ agent' = Completed(r)
            /\ req' = [req EXCEPT ![r] = IF config.backend = "sqlite" THEN Reply(r, "ok", client[r[1]].id)
                                         ELSE [@ EXCEPT !.pc = "get"]]
       ELSE /\ req' = [req EXCEPT ![r] =
                          IF config.backend = "postgres" THEN [@ EXCEPT !.pc = "classify"]
                          ELSE IF ~DoneBefore(r) THEN Reply(r, "refused", 0)
                          ELSE IF config.backend = "sqlite" THEN Reply(r, "ok", client[r[1]].id)
                          ELSE [@ EXCEPT !.pc = "get"]]
            /\ UNCHANGED agent
    /\ UNCHANGED <<config, client, losses, raced>>

\* The conflict path: s.get takes a second connection, then
\* classifyCompletionConflict decides and the transaction ends.
Classify(r) ==
    /\ Running(r, "classify") /\ Connection
    /\ req' = [req EXCEPT ![r] = IF DoneBefore(r) THEN [@ EXCEPT !.pc = "get"] ELSE Reply(r, "refused", 0)]
    /\ UNCHANGED <<config, agent, client, losses, raced>>

Get(r) ==
    /\ Running(r, "get") /\ Connection
    /\ req' = [req EXCEPT ![r] = Reply(r, "ok", client[r[1]].id)]
    /\ UNCHANGED <<config, agent, client, losses, raced>>

\* The reaper of the store returns an agent whose lease has passed.
Reap(a) ==
    /\ agent[a].status = "IN_PROGRESS"
    /\ agent' = [agent EXCEPT ![a] =
          [status |-> "NEW", token |-> NoToken, doneBy |-> @.doneBy, maker |-> @.maker]]
    /\ req' = Stale(req, Between)
    /\ UNCHANGED <<config, client, losses, raced>>

-----------------------------------------------------------------------------
Handle(r) ==
    /\ Active(r)
    /\ \/ CountNew(r) \/ CountInProgress(r) \/ CountQueue(r)
       \/ Out(r) \/ CompleteAndOut(r)
       \/ Take(r) \/ Find(r) \/ Complete(r) \/ Classify(r) \/ Get(r)
       \/ Cancelled(r)

\* What goes on by itself: handlers, and clients that have an answer or, where
\* the time of a request is bounded, have waited long enough.
Progress ==
    \/ \E c \in Clients : Send(c) \/ Receive(c) \/ (config.timed /\ GiveUp(c))
    \/ \E r \in Requests : Handle(r)

Next ==
    \/ \E r \in Requests : Handle(r) \/ Fails(r)
    \/ \E c \in Clients : Send(c) \/ Receive(c) \/ GiveUp(c)
    \/ \E a \in Agents : Reap(a)

Spec == Init /\ [][Next]_vars /\ WF_vars(Progress)

-----------------------------------------------------------------------------
\* The namespace has no more active agents than MaxActiveAgents, unless a create
\* was let through on counts that had become too low: another request created an
\* agent after them, or an agent moved from IN_PROGRESS to NEW, or was finished
\* by complete-and-out, between the first count and the second.
\* allowNamespaceAgentCreation only reads, and holds nothing until Out.
QuotaHoldsUnlessRaced == Count("NEW") + Count("IN_PROGRESS") > ActiveCap => raced

Made(c, call) == {a \in Agents : \E k \in 1..MaxAttempts : agent[a].maker = <<c, call, k>>}

\* What a call of the SDK reports is what happened, over all its attempts, the
\* ones given up included.  A create that returns made an agent, and never more
\* than it has sent attempts.  The outputs of complete_and_out are published at
\* most once, together with the completion under the caller's token, and a call
\* that returns has done both.  A call that is refused has not completed the
\* agent, but for one case: Valkey's script answers the repetition of a
\* complete-and-out that took effect with INVALID_STATUS.  A call that ends with
\* NotFoundError may have completed it in two ways only: an earlier attempt did,
\* and the look at the agent failed, or the agent could not be read back; the SDK
\* gives up in both cases.
OutcomesAreTrue ==
    /\ TypeOK
    /\ \A p \in Producers :
          /\ Cardinality(Made(p, "create")) <= client[p].attempt
          /\ client[p].answer = "ok" => Made(p, "create") # {}
    /\ \A w \in Workers :
          LET k == client[w]
              done == k.id # 0 /\ agent[k.id].doneBy = k.token
              outputs == Cardinality(Made(w, "finish"))
          IN  /\ outputs = (IF done /\ k.op = "complete_and_out" THEN 1 ELSE 0)
              /\ k.call = "end" /\ k.answer = "ok" => done
              /\ k.call = "end" /\ k.answer = "refused" /\ done =>
                    config.backend = "valkey" /\ k.op = "complete_and_out" /\ k.attempt > 1
              /\ k.call = "end" /\ k.answer = "not_found" /\ done =>
                    k.attempt > 1 \/ (k.op = "complete" /\ config.backend # "sqlite")

Ended == (\A c \in Clients : client[c].call = "end") /\ (\A r \in Requests : req[r] = NoRequest)

\* Every call returns and every handler ends, the ones nobody waits for too.
\* completeAndGet holds a connection while it waits for a second one: where the
\* time of a request is bounded, by RequestTimeoutMiddleware or by the client,
\* the wait ends with the context, and without a bound the pool must be larger
\* than the number of completions that can be in conflict at the same time.
CallsEnd ==
    (config.timed \/ config.backend # "postgres" \/ config.pool > Cardinality(Workers)) => <>Ended
=============================================================================
