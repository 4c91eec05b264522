------------------------- MODULE ApiRequestsProofs -------------------------
(***************************************************************************)
(* Proofs about ApiRequests, for any number of clients, attempts, agents   *)
(* and losses and for every deployment.                                    *)
(***************************************************************************)
EXTENDS ApiRequests, TLAPS

Idle == {"none", "replied"}

\* Worker w holds the agent it has taken, has completed it, or has been told
\* that it has not: then it never will, save for the Valkey repetition.
HeldBy(w) ==
    /\ client[w].id # 0
    /\ agent[client[w].id].status = "IN_PROGRESS"
    /\ agent[client[w].id].token = client[w].token
DoneBy(w) == client[w].id # 0 /\ agent[client[w].id].doneBy = client[w].token
Repetition(w) ==
    config.backend = "valkey" /\ client[w].op = "complete_and_out" /\ client[w].attempt > 1
Refused(w) == IF DoneBy(w) THEN Repetition(w) ELSE ~HeldBy(w)

\* Worker w has been told that its agent is not there: one of several attempts,
\* or one that could not read the agent back, may have completed it; the only
\* attempt that could not look at it has not, and nothing goes on for it.
Missed(w) ==
    /\ client[w].attempt > 0
    /\ \/ client[w].attempt > 1
       \/ client[w].op = "complete" /\ config.backend # "sqlite"
       \/ ~DoneBy(w) /\ req[<<w, "finish", 1>>].pc \in Idle

\* The first attempt has looked at the agent before it completes it.
Looked(w) ==
    DoneBy(w) => /\ client[w].attempt > 0
                 /\ client[w].attempt > 1 \/ req[<<w, "finish", 1>>].pc # "find"

\* The request has been sent, as far as the present call tells.
Sent(r) ==
    /\ r[3] <= client[r[1]].attempt
    /\ r[2] = "finish" => client[r[1]].op # "none"

\* What is recorded with an agent points back to a request that is over and to
\* a worker that has the token.
AgentsSound ==
    \A a \in Agents :
       /\ agent[a].status = "NONE" => agent[a] = NoAgent
       /\ agent[a].status # "COMPLETED" => agent[a].doneBy = NoToken
       /\ agent[a].doneBy # NoToken =>
             \E w \in Workers : client[w].token = agent[a].doneBy /\ client[w].id = a
       /\ agent[a].maker # NoToken =>
             /\ agent[a].maker[2] # "take"
             /\ Sent(agent[a].maker)
             /\ req[agent[a].maker].pc \in Idle

MakersDistinct ==
    \A a, b \in Agents :
       agent[a].maker # NoToken /\ agent[a].maker = agent[b].maker => a = b

\* A worker that finishes names an agent and the token of a request for it
\* that has been answered.
ClientsSound ==
    /\ \A c \in Clients : client[c].call # "end" => client[c].answer = "none"
    /\ \A p \in Producers : client[p].call \in {"create", "end"}
    /\ \A w \in Workers :
          /\ client[w].call \in {"take", "finish", "end"}
          /\ client[w].call = "take" => client[w].op = "none"
          /\ client[w].call = "finish" => client[w].op # "none"
          /\ IF client[w].op = "none" THEN client[w].id = 0 /\ client[w].token = NoToken
             ELSE /\ client[w].id # 0
                  /\ client[w].token \in Requests
                  /\ client[w].token[1] = w /\ client[w].token[2] = "take"
                  /\ req[client[w].token].pc = "none"

Publishing == {"count_new", "count_in_progress", "count_queue", "write"}

\* Where the handler of each operation can be.
PlacesOf(op) ==
    CASE op = "take" -> {"take"}
      [] op = "complete" -> {"find", "complete", "classify", "get"}
      [] op = "create" -> Publishing
      [] op = "complete_and_out" -> Publishing \cup {"find"}
      [] OTHER -> {}

HandlerSound(r) ==
    req[r].pc \notin Idle =>
       /\ r[2] = "take" \/ Sent(r)
       /\ req[r].op = IF r[2] = "finish" THEN client[r[1]].op ELSE r[2]
       /\ req[r].pc \in PlacesOf(req[r].op)
HandlersSound == \A r \in Requests : HandlerSound(r)

\* What a handler has found out or answers is so.
ReplyTrue(r) ==
    /\ r[2] = "create" /\ req[r].pc = "replied" =>
          /\ req[r].reply \in {"ok", "quota", "error"}
          /\ req[r].reply = "ok" => \E a \in Agents : agent[a].maker = r
    /\ r[2] = "take" /\ req[r].pc = "replied" =>
          /\ req[r].reply \in {"ok", "empty", "error"}
          /\ req[r].reply = "ok" => req[r].id # 0
    /\ r[2] = "finish" =>
          /\ req[r].pc = "get" => DoneBy(r[1])
          /\ req[r].pc = "classify" => ~HeldBy(r[1])
          /\ req[r].pc \in {"get", "classify"} => config.backend # "sqlite"
          /\ req[r].pc = "replied" =>
                /\ client[r[1]].op # "none"
                /\ req[r].reply = "ok" => DoneBy(r[1])
                /\ req[r].reply = "refused" => Refused(r[1])
                /\ req[r].reply = "not_found" => Missed(r[1])
RepliesTrue == \A r \in Requests : ReplyTrue(r)

AnswersTrue ==
    /\ \A p \in Producers :
          client[p].answer = "ok" => Made(p, "create") # {}
    /\ \A w \in Workers :
          /\ client[w].answer = "ok" => DoneBy(w)
          /\ client[w].answer = "refused" => Refused(w)
          /\ client[w].answer = "not_found" => Missed(w)

LooksFirst == \A w \in Workers : Looked(w)

\* The outputs of a worker: those of one completion, by a request of its own.
OutputsOnce ==
    \A w \in Workers :
       /\ \A a, b \in Made(w, "finish") : a = b
       /\ Made(w, "finish") # {} <=> DoneBy(w) /\ client[w].op = "complete_and_out"

OInv ==
    /\ TypeOK /\ AgentsSound /\ MakersDistinct /\ ClientsSound /\ HandlersSound
    /\ RepliesTrue /\ AnswersTrue /\ OutputsOnce /\ LooksFirst

\* The counts of a create that nothing has made too low since.
CountsHold(r) ==
    req[r].op = "create" /\ ~req[r].stale =>
       /\ req[r].pc = "count_in_progress" => Count("NEW") <= req[r].seen
       /\ req[r].pc \in {"count_queue", "write"} =>
             Count("NEW") + Count("IN_PROGRESS") + 1 <= ActiveCap

QInv == QuotaHoldsUnlessRaced /\ \A r \in Requests : CountsHold(r)

-----------------------------------------------------------------------------
(***************************************************************************)
(* Requests, and the agents they make.                                     *)
(***************************************************************************)

\* A request is a triple of a client, a call of that client and an attempt.
LEMMA RequestFacts ==
    /\ \A r \in Requests :
          /\ r = <<r[1], r[2], r[3]>> /\ r[1] \in Clients /\ r[3] \in 1..MaxAttempts
          /\ \/ r[1] \in Producers /\ r[1] \notin Workers /\ r[2] = "create"
             \/ r[1] \in Workers /\ r[1] \notin Producers /\ r[2] \in {"take", "finish"}
    /\ NoToken \notin Requests
<1>1. ASSUME NEW r \in Requests
      PROVE  /\ r = <<r[1], r[2], r[3]>> /\ r[1] \in Clients /\ r[3] \in 1..MaxAttempts
             /\ \/ r[1] \in Producers /\ r[1] \notin Workers /\ r[2] = "create"
                \/ r[1] \in Workers /\ r[1] \notin Producers /\ r[2] \in {"take", "finish"}
      BY <1>1, ClientsAssumption DEF Requests, Clients
<1>2. NoToken \notin Requests
  <2>1. DOMAIN NoToken = 1..1
        BY DEF NoToken
  <2>2. ASSUME NEW x, NEW y, NEW z
        PROVE  DOMAIN <<x, y, z>> = 1..3
        OBVIOUS
  <2>3. 1..1 # 1..3
        OBVIOUS
  <2> QED  BY <1>1, <2>1, <2>2, <2>3
<1> QED  BY <1>1, <1>2

\* The triples that are requests.
LEMMA RequestIntro ==
    \A k \in 1..MaxAttempts :
       /\ \A p \in Producers : <<p, "create", k>> \in Requests
       /\ \A w \in Workers : <<w, "take", k>> \in Requests /\ <<w, "finish", k>> \in Requests
BY DEF Requests

\* An agent is made by a call if its maker is an attempt of it.
LEMMA MakerFacts ==
    ASSUME NEW m \in Token, NEW c, NEW call
    PROVE  (\E k \in 1..MaxAttempts : m = <<c, call, k>>) <=>
              m # NoToken /\ m[1] = c /\ m[2] = call
<1>1. ASSUME NEW k, m = <<c, call, k>>
      PROVE  m # NoToken /\ m[1] = c /\ m[2] = call
  <2>1. DOMAIN NoToken = 1..1 /\ DOMAIN <<c, call, k>> = 1..3 /\ 1..1 # 1..3
        BY DEF NoToken
  <2> QED  BY <1>1, <2>1
<1>2. ASSUME m # NoToken, m[1] = c, m[2] = call
      PROVE  \E k \in 1..MaxAttempts : m = <<c, call, k>>
      BY <1>2, RequestFacts DEF Token
<1> QED  BY <1>1, <1>2

-----------------------------------------------------------------------------
(***************************************************************************)
(* Steps of a client: it sends an attempt, ends its call, or goes on from  *)
(* the claim to the completion.                                            *)
(***************************************************************************)

\* A request that a step of somebody else leaves alone, or that is over.
Kept(q) ==
    \/ req'[q].pc = "none"
    \/ /\ req'[q].pc = req[q].pc /\ req'[q].op = req[q].op
       /\ req'[q].reply = req[q].reply /\ req'[q].id = req[q].id

\* The fields of client c but the ones of the present attempt.
SameCall(c) ==
    /\ client'[c].op = client[c].op /\ client'[c].id = client[c].id
    /\ client'[c].token = client[c].token

\* What a worker has been told stays so while its attempts and its first request
\* stay as they are.
LEMMA LooksKept ==
    ASSUME NEW w \in Workers, config' = config,
           client'[w].op = client[w].op, client'[w].attempt = client[w].attempt,
           DoneBy(w)' <=> DoneBy(w), Kept(<<w, "finish", 1>>)
    PROVE  (Missed(w) => Missed(w)') /\ (Looked(w) => Looked(w)')
BY Zenon DEF Missed, Looked, Kept, Idle

\* Every worker has a first attempt to finish.
LEMMA FirstIntro == \A w \in Workers : <<w, "finish", 1>> \in Requests
<1>1. 1 \in 1..MaxAttempts
      BY BoundsAssumption
<1> QED  BY <1>1, RequestIntro, Zenon

\* The next attempt is sent.
LEMMA AttemptKeeps ==
    ASSUME OInv, TypeOK', UNCHANGED <<config, agent>>,
           NEW c \in Clients, client[c].call # "end", client[c].attempt < MaxAttempts,
           client' = [client EXCEPT ![c].attempt = client[c].attempt + 1],
           NEW r \in Requests, r = <<c, client[c].call, client[c].attempt + 1>>,
           req'[r] = Handler(OpOf(c)),
           \A q \in Requests \ {r} : Kept(q)
    PROVE  OInv'
<1> USE DEF OInv
<1>t. /\ c \in Clients /\ client[c] \in Call
      /\ r[1] = c /\ r[2] = client[c].call /\ r[3] = client[c].attempt + 1
      BY Zenon DEF TypeOK
<1>a. client[c].attempt \in Nat
      BY <1>t, BoundsAssumption DEF Call
<1>1. /\ client'[c].attempt = client[c].attempt + 1 /\ SameCall(c)
      /\ client'[c].call = client[c].call /\ client'[c].answer = client[c].answer
      /\ \A d \in Clients \ {c} : client'[d] = client[d]
      BY <1>t, Zenon DEF TypeOK, Call, SameCall
<1>2. \A q \in Requests : Sent(q) => Sent(q)' /\ q # r
      BY <1>1, <1>t, <1>a, RequestFacts DEF Sent, SameCall
<1>3. \A w \in Workers : (DoneBy(w)' <=> DoneBy(w)) /\ (HeldBy(w)' <=> HeldBy(w)) /\ (Refused(w) => Refused(w)')
      BY <1>1, <1>a DEF DoneBy, HeldBy, Refused, Repetition, SameCall, Clients
<1>l. \A w \in Workers : (Missed(w) => Missed(w)') /\ Looked(w)'
  <2>1. SUFFICES ASSUME NEW w \in Workers PROVE (Missed(w) => Missed(w)') /\ Looked(w)'
        BY Zenon
  <2>2. Looked(w) /\ (DoneBy(w)' <=> DoneBy(w))
        BY <1>3, <2>1, Zenon DEF LooksFirst
  <2>3. CASE w = c
    <3>1. client[c].attempt > 0 => client'[c].attempt > 1
          BY <1>1, <1>a
    <3>2. client[c].attempt > 0 => client'[c].attempt > 0
          BY <1>1, <1>a
    <3> QED  BY <2>2, <2>3, <3>1, <3>2, Zenon DEF Missed, Looked
  <2>4. CASE w # c
    <3>1. client'[w] = client[w]
          BY <1>1, <2>1, <2>4, Zenon DEF Clients
    <3>2. <<w, "finish", 1>> # r
          BY <1>t, <2>4
    <3>3. Kept(<<w, "finish", 1>>)
          BY <2>1, <3>2, FirstIntro, Zenon
    <3> QED  BY <2>1, <2>2, <3>1, <3>3, LooksKept, Zenon
  <2> QED  BY <2>3, <2>4, Zenon
<1>4. AgentsSound'
      BY <1>1, <1>2, <1>t DEF AgentsSound, Kept, Idle, TypeOK, Agent, Token, Clients, SameCall
<1>5. MakersDistinct'
      BY DEF MakersDistinct
<1>6. ClientsSound'
      BY <1>1, <1>t, RequestFacts DEF ClientsSound, Kept, Clients, SameCall
<1>7. HandlersSound'
  <2>1. ASSUME NEW q \in Requests, q # r, req'[q].pc \notin Idle
        PROVE  /\ q[2] = "take" \/ Sent(q)'
               /\ req'[q].op = IF q[2] = "finish" THEN client'[q[1]].op ELSE q[2]
               /\ req'[q].pc \in PlacesOf(req'[q].op)
        BY <1>1, <1>2, <2>1, RequestFacts DEF HandlersSound, HandlerSound, Kept, Idle, SameCall
  <2>2. OpOf(c) \in {"create", "take", "complete", "complete_and_out"}
        BY <1>t DEF OpOf, ClientsSound, Call, Clients
  <2>3. req'[r].pc \in PlacesOf(req'[r].op) /\ req'[r].op = OpOf(c)
        BY <2>2 DEF Handler, PlacesOf, Publishing
  <2>4. Sent(r)'
        BY <1>1, <1>t, RequestFacts DEF Sent, SameCall, ClientsSound, Clients
  <2> QED  BY <1>1, <1>t, <2>1, <2>3, <2>4 DEF HandlersSound, HandlerSound, OpOf, SameCall
<1>8. RepliesTrue'
  <2>1. req'[r].pc \notin {"replied", "get", "classify"}
        BY DEF Handler
  <2> QED  BY <1>1, <1>3, <1>l, <2>1, RequestFacts DEF RepliesTrue, ReplyTrue, Kept, SameCall
<1>m. \A d, call : Made(d, call)' = Made(d, call)
      BY Zenon DEF Made
<1>9. AnswersTrue'
      BY <1>1, <1>3, <1>l, <1>m, Zenon DEF AnswersTrue, Clients
<1>10. OutputsOnce'
      BY <1>1, <1>3, <1>m, ZenonT(40) DEF OutputsOnce, Clients, SameCall
<1>11. LooksFirst'
      BY <1>l, Zenon DEF LooksFirst
<1> QED  BY <1>4, <1>5, <1>6, <1>7, <1>8, <1>9, <1>10, <1>11, Zenon

\* The call of client c is over.
Ends(c, answer) ==
    /\ client'[c].attempt = client[c].attempt /\ SameCall(c)
    /\ client'[c].call = "end" /\ client'[c].answer = answer
    /\ \A d \in Clients \ {c} : client'[d] = client[d]

\* A call ends, with an answer that is so.
LEMMA EndKeeps ==
    ASSUME OInv, TypeOK', UNCHANGED <<config, agent>>,
           NEW c \in Clients, client[c].call # "end",
           NEW answer,
           Ends(c, answer),
           c \in Producers /\ answer = "ok" => Made(c, "create") # {},
           c \in Workers /\ answer = "ok" => DoneBy(c),
           c \in Workers /\ answer = "refused" => Refused(c),
           c \in Workers /\ answer = "not_found" => Missed(c),
           \A q \in Requests : Kept(q)
    PROVE  OInv'
<1> USE DEF OInv
<1>1. /\ client'[c].attempt = client[c].attempt /\ SameCall(c)
      /\ client'[c].call = "end" /\ client'[c].answer = answer
      /\ \A d \in Clients \ {c} : client'[d] = client[d]
      BY DEF Ends
<1>2. \A q \in Requests : Sent(q) => Sent(q)'
      BY <1>1, RequestFacts, Zenon DEF Sent, SameCall
<1>3. \A w \in Workers : (DoneBy(w)' <=> DoneBy(w)) /\ (HeldBy(w)' <=> HeldBy(w)) /\ (Refused(w) => Refused(w)')
      BY <1>1 DEF DoneBy, HeldBy, Refused, Repetition, SameCall, Clients
<1>l. \A w \in Workers : (Missed(w) => Missed(w)') /\ Looked(w)'
  <2>1. SUFFICES ASSUME NEW w \in Workers PROVE (Missed(w) => Missed(w)') /\ Looked(w)'
        BY Zenon
  <2>2. client'[w].op = client[w].op /\ client'[w].attempt = client[w].attempt
        BY <1>1, <2>1, Zenon DEF SameCall, Clients
  <2>3. Looked(w) /\ (DoneBy(w)' <=> DoneBy(w))
        BY <1>3, <2>1, Zenon DEF LooksFirst
  <2> QED  BY <2>1, <2>2, <2>3, FirstIntro, LooksKept, Zenon
<1>4. AgentsSound'
      BY <1>1, <1>2 DEF AgentsSound, Kept, Idle, TypeOK, Agent, Token, Clients, SameCall
<1>5. MakersDistinct'
      BY Zenon DEF MakersDistinct
<1>6. ClientsSound'
      BY <1>1, RequestFacts DEF ClientsSound, Kept, Clients, SameCall
<1>7. HandlersSound'
      BY <1>1, <1>2, RequestFacts DEF HandlersSound, HandlerSound, Kept, Idle, SameCall
<1>8. RepliesTrue'
      BY <1>1, <1>3, <1>l, RequestFacts DEF RepliesTrue, ReplyTrue, Kept, SameCall
<1>m. \A d, call : Made(d, call)' = Made(d, call)
      BY Zenon DEF Made
<1>9. AnswersTrue'
      BY <1>1, <1>3, <1>l, <1>m, Zenon DEF AnswersTrue, Clients
<1>10. OutputsOnce'
      BY <1>1, <1>3, <1>m, Zenon DEF OutputsOnce, Clients, SameCall
<1>11. LooksFirst'
      BY <1>l, Zenon DEF LooksFirst
<1> QED  BY <1>4, <1>5, <1>6, <1>7, <1>8, <1>9, <1>10, <1>11, Zenon

\* A worker goes on to finish the agent it was given, under the token of the
\* request that claimed it.
Takes(w, op, id, r) ==
    /\ client'[w].call = "finish" /\ client'[w].op = op /\ client'[w].attempt = 0
    /\ client'[w].id = id /\ client'[w].token = r /\ client'[w].answer = "none"
    /\ \A d \in Clients \ {w} : client'[d] = client[d]

\* The claim becomes the worker's: no completion names its token yet.
LEMMA TakeKeeps ==
    ASSUME OInv, TypeOK', UNCHANGED <<config, agent>>,
           NEW w \in Workers, client[w].call = "take",
           NEW r \in Requests, r[1] = w, r[2] = "take", req'[r].pc = "none",
           NEW op \in {"complete", "complete_and_out"}, NEW id \in Agents,
           Takes(w, op, id, r),
           \A q \in Requests : Kept(q)
    PROVE  OInv'
<1> USE DEF OInv
<1>0. \A d \in Clients \ {w} : client'[d] = client[d]
      BY Zenon DEF Takes
<1>1. /\ client[w].op = "none" /\ client[w].id = 0 /\ client[w].token = NoToken
      /\ client[w].answer = "none" /\ id # 0
      BY BoundsAssumption DEF ClientsSound, Agents, Clients
<1>2. \A q \in Requests : q[1] = w =>
         /\ q[2] = "finish" => ~Sent(q) /\ req[q].pc = "none"
         /\ q[2] \in {"take", "finish"}
      BY <1>1, RequestFacts DEF HandlersSound, HandlerSound, RepliesTrue, ReplyTrue, Sent, Idle
<1>3. \A q \in Requests : Sent(q) /\ q[2] # "take" => Sent(q)' /\ q[1] # w
      BY <1>0, <1>2, RequestFacts, Zenon DEF Sent
<1>4. ASSUME NEW v \in Workers \ {w}
      PROVE  (DoneBy(v)' <=> DoneBy(v)) /\ (HeldBy(v)' <=> HeldBy(v)) /\ (Refused(v) => Refused(v)')
  <2>1. client'[v] = client[v]
        BY <1>0, Zenon DEF Clients
  <2>2. (DoneBy(v)' <=> DoneBy(v)) /\ (HeldBy(v)' <=> HeldBy(v)) /\ (Repetition(v)' <=> Repetition(v))
        BY <2>1, Zenon DEF DoneBy, HeldBy, Repetition
  <2> QED  BY <2>2, Zenon DEF Refused
<1>l. ASSUME NEW v \in Workers \ {w}
      PROVE  (Missed(v) => Missed(v)') /\ Looked(v)'
  <2>1. client'[v] = client[v] /\ Looked(v) /\ (DoneBy(v)' <=> DoneBy(v))
        BY <1>0, <1>4, Zenon DEF Clients, LooksFirst
  <2> QED  BY <2>1, FirstIntro, LooksKept, Zenon
<1>5. AgentsSound'
      BY <1>0, <1>1, <1>3 DEF AgentsSound, Kept, Idle, TypeOK, Agent, Token, Clients
<1>6. MakersDistinct'
      BY Zenon DEF MakersDistinct
<1>7. ClientsSound'
      BY <1>0, <1>1, RequestFacts DEF ClientsSound, Kept, Clients, Takes
<1>8. HandlersSound'
  <2>1. SUFFICES ASSUME NEW q \in Requests PROVE HandlerSound(q)'
        BY Zenon DEF HandlersSound
  <2>2. CASE req'[q].pc \in Idle
        BY <2>2, Zenon DEF HandlerSound
  <2>3. CASE req'[q].pc \notin Idle
    <3>1. req'[q].pc = req[q].pc /\ req'[q].op = req[q].op /\ HandlerSound(q)
          BY <2>3, Zenon DEF HandlersSound, Kept, Idle
    <3>2. q[2] = "finish" => q[1] # w
          BY <1>2, <2>3, <3>1, Zenon DEF Idle
    <3>3. q[2] = "finish" => q[1] \in Clients
          BY RequestFacts, Zenon DEF Clients
    <3> QED  BY <1>0, <1>3, <2>3, <3>1, <3>2, <3>3, Zenon DEF HandlerSound
  <2> QED  BY <2>2, <2>3, Zenon
<1>9. RepliesTrue'
  <2>1. \A q \in Requests : q[2] = "finish" /\ q[1] # w => q[1] \in Workers \ {w}
        BY RequestFacts, Zenon
  <2>2. \A q \in Requests : q[2] = "finish" /\ q[1] = w => req'[q].pc = "none"
        BY <1>2 DEF Kept
  <2> QED  BY <1>0, <1>4, <1>l, <2>1, <2>2, RequestFacts DEF RepliesTrue, ReplyTrue, Kept
<1>m. \A c, call : Made(c, call)' = Made(c, call)
      BY Zenon DEF Made
<1>10. AnswersTrue'
  <2>1. client'[w].answer = "none"
        BY <1>1, Zenon DEF Takes
  <2>2. \A p \in Producers : client'[p] = client[p]
        BY <1>0, ClientsAssumption DEF Clients
  <2>3. \A v \in Workers \ {w} : client'[v] = client[v]
        BY <1>0, Zenon DEF Clients
  <2> QED  BY <1>4, <1>l, <1>m, <2>1, <2>2, <2>3, Zenon DEF AnswersTrue
<1>d. ~DoneBy(w)'
  <2>1. SUFFICES ASSUME agent[id].doneBy = r PROVE FALSE
        BY Zenon DEF DoneBy, Takes
  <2>2. PICK v \in Workers : client[v].token = r
        BY <2>1, RequestFacts, Zenon DEF AgentsSound
  <2> QED  BY <1>1, <2>2, RequestFacts, Zenon DEF ClientsSound
<1>11. OutputsOnce'
  <2>1. Made(w, "finish") = {}
        BY <1>1, Zenon DEF OutputsOnce
  <2>3. \A v \in Workers \ {w} : client'[v] = client[v]
        BY <1>0 DEF Clients
  <2> QED  BY <1>4, <1>d, <1>m, <2>1, <2>3 DEF OutputsOnce
<1>12. LooksFirst'
      BY <1>d, <1>l, Zenon DEF LooksFirst, Looked
<1> QED  BY <1>5, <1>6, <1>7, <1>8, <1>9, <1>10, <1>11, <1>12, Zenon

\* The attempt a client waits for is a request of its own.
LEMMA CurrentFacts ==
    ASSUME TypeOK, ClientsSound, NEW c \in Clients, client[c].call # "end"
    PROVE  /\ client[c] \in Call /\ client[c].attempt \in 0..MaxAttempts
           /\ \A k \in 1..MaxAttempts : <<c, client[c].call, k>> \in Requests
           /\ client[c].attempt > 0 => Current(c) \in Requests
           /\ OpOf(c) \in {"create", "take", "complete", "complete_and_out"}
           /\ Handler(OpOf(c)) \in Request
<1>1. client[c] \in Call /\ client[c].attempt \in 0..MaxAttempts
      BY DEF TypeOK, Call
<1>2. \A k \in 1..MaxAttempts : <<c, client[c].call, k>> \in Requests
      BY RequestIntro, Zenon DEF ClientsSound, Clients
<1>3. client[c].attempt > 0 => client[c].attempt \in 1..MaxAttempts
      BY <1>1, BoundsAssumption
<1>4. OpOf(c) \in {"create", "take", "complete", "complete_and_out"}
      BY <1>1, Zenon DEF OpOf, ClientsSound, Call, Clients
<1>5. Handler(OpOf(c)) \in Request
      BY <1>4, BoundsAssumption DEF Handler, Request
<1> QED  BY <1>1, <1>2, <1>3, <1>4, <1>5, Zenon DEF Current

\* The values a step may put into the record of a request are of its type.
LEMMA RequestValues ==
    /\ NoRequest \in Request
    /\ \A h \in Request : [h EXCEPT !.left = TRUE] \in Request
<1>1. NoRequest \in Request
      BY BoundsAssumption DEF Request, NoRequest
<1>2. ASSUME NEW h \in Request PROVE [h EXCEPT !.left = TRUE] \in Request
      BY Zenon DEF Request
<1> QED  BY <1>1, <1>2, Zenon

\* Send keeps the invariant: the first attempt.
LEMMA SendKeeps ==
    ASSUME OInv, NEW c \in Clients, Send(c)
    PROVE  OInv'
<1> DEFINE r == <<c, client[c].call, 1>>
<1>1. /\ client[c].call # "end" /\ client[c].attempt = 0
      /\ req' = [req EXCEPT ![r] = Handler(OpOf(c))]
      /\ client' = [client EXCEPT ![c].attempt = client[c].attempt + 1]
      /\ UNCHANGED <<config, agent, losses, raced>>
      BY DEF Send
<1>2. r \in Requests /\ client[c] \in Call /\ Handler(OpOf(c)) \in Request
      /\ client[c].attempt < MaxAttempts
      BY <1>1, CurrentFacts, BoundsAssumption DEF OInv
<1>3. req'[r] = Handler(OpOf(c)) /\ \A q \in Requests \ {r} : Kept(q)
      BY <1>1, <1>2 DEF OInv, TypeOK, Kept
<1>4. TypeOK'
  <2>1. [client[c] EXCEPT !.attempt = client[c].attempt + 1] \in Call
        BY <1>1, <1>2, BoundsAssumption DEF Call
  <2>2. client' \in [Clients -> Call]
        BY <1>1, <2>1 DEF OInv, TypeOK
  <2>3. req' \in [Requests -> Request]
        BY <1>1, <1>2 DEF OInv, TypeOK
  <2> QED  BY <1>1, <2>2, <2>3 DEF OInv, TypeOK
<1>5. r = <<c, client[c].call, client[c].attempt + 1>>
      BY <1>1
<1> HIDE DEF r
<1> QED  BY <1>1, <1>2, <1>3, <1>4, <1>5, AttemptKeeps, Zenon

\* The next attempt of a call, or its end, keeps the invariant.
LEMMA AgainKeeps ==
    ASSUME OInv, NEW c \in Clients, client[c].call # "end", client[c].attempt > 0,
           NEW done \in Request, NEW answer \in {"quota", "unknown"},
           done.pc # "none" =>
              /\ done.pc = req[Current(c)].pc /\ done.op = req[Current(c)].op
              /\ done.reply = req[Current(c)].reply /\ done.id = req[Current(c)].id,
           losses' \in 0..MaxLosses,
           Again(c, done, answer), UNCHANGED <<config, agent, raced>>
    PROVE  OInv'
<1> DEFINE n == client[c].attempt
           next == <<c, client[c].call, n + 1>>
<1>1. /\ client[c] \in Call /\ n \in 0..MaxAttempts /\ Current(c) \in Requests
      /\ n < MaxAttempts => next \in Requests /\ next # Current(c)
      /\ Handler(OpOf(c)) \in Request
  <2>1. n < MaxAttempts => n + 1 \in 1..MaxAttempts
        BY CurrentFacts, BoundsAssumption DEF OInv
  <2> QED  BY <2>1, CurrentFacts DEF OInv, Current
<1>2. CASE n < MaxAttempts
  <2>1. /\ client' = [client EXCEPT ![c].attempt = n + 1]
        /\ req' = [req EXCEPT ![Current(c)] = done, ![next] = Handler(OpOf(c))]
        BY <1>2, Zenon DEF Again
  <2>2. req'[next] = Handler(OpOf(c)) /\ \A q \in Requests \ {next} : Kept(q)
        BY <1>1, <1>2, <2>1, Zenon DEF OInv, TypeOK, Kept
  <2>3. TypeOK'
    <3>1. [client[c] EXCEPT !.attempt = n + 1] \in Call
          BY <1>1, <1>2, BoundsAssumption DEF Call
    <3>2. client' \in [Clients -> Call]
          BY <2>1, <3>1, Zenon DEF OInv, TypeOK
    <3>3. req' \in [Requests -> Request]
          BY <1>1, <1>2, <2>1, Zenon DEF OInv, TypeOK
    <3> QED  BY <3>2, <3>3, Zenon DEF OInv, TypeOK
  <2>4. next = <<c, client[c].call, client[c].attempt + 1>>
        BY Zenon
  <2> HIDE DEF next
  <2> QED  BY <1>1, <1>2, <2>1, <2>2, <2>3, <2>4, AttemptKeeps, Zenon
<1>3. CASE ~(n < MaxAttempts)
  <2>1. /\ client' = [client EXCEPT ![c].call = "end", ![c].answer = answer]
        /\ req' = [req EXCEPT ![Current(c)] = done]
        BY <1>3 DEF Again
  <2>2. \A q \in Requests : Kept(q)
        BY <1>1, <2>1, Zenon DEF OInv, TypeOK, Kept
  <2>3. Ends(c, answer)
        BY <1>1, <2>1 DEF OInv, TypeOK, Call, Ends, SameCall
  <2>4. TypeOK'
    <3>1. [client[c] EXCEPT !.call = "end", !.answer = answer] \in Call
          BY <1>1, Zenon DEF Call
    <3>2. client' \in [Clients -> Call]
          BY <2>1, <3>1 DEF OInv, TypeOK
    <3>3. req' \in [Requests -> Request]
          BY <1>1, <2>1, Zenon DEF OInv, TypeOK
    <3> QED  BY <3>2, <3>3 DEF OInv, TypeOK
  <2> QED  BY <2>2, <2>3, <2>4, EndKeeps, Zenon
<1> QED  BY <1>2, <1>3, Zenon

\* GiveUp keeps the invariant: the attempt goes on without its client.
LEMMA GiveUpKeeps ==
    ASSUME OInv, NEW c \in Clients, GiveUp(c)
    PROVE  OInv'
<1> DEFINE h == req[Current(c)]
           done == IF h.pc = "replied" THEN NoRequest ELSE [h EXCEPT !.left = TRUE]
<1>1. /\ client[c].call # "end" /\ client[c].attempt > 0
      /\ Again(c, done, "unknown") /\ UNCHANGED <<config, agent, raced>>
      BY DEF GiveUp
<1>2. h \in Request
      BY <1>1, CurrentFacts DEF OInv, TypeOK
<1>3. done \in Request
      BY <1>2, RequestValues
<1>4. done.pc # "none" =>
         done.pc = h.pc /\ done.op = h.op /\ done.reply = h.reply /\ done.id = h.id
      BY <1>2 DEF Request, NoRequest
<1>5. losses' \in 0..MaxLosses
      BY BoundsAssumption DEF GiveUp, OInv, TypeOK
<1> HIDE DEF done
<1> QED  BY <1>1, <1>3, <1>4, <1>5, AgainKeeps

\* Receive keeps the invariant: the client believes what it is answered.
LEMMA ReceiveKeeps ==
    ASSUME OInv, NEW c \in Clients, Receive(c)
    PROVE  OInv'
<1> DEFINE r == Current(c)
<1>1. /\ client[c].call # "end" /\ client[c].attempt > 0 /\ req[r].pc = "replied"
      /\ UNCHANGED <<config, agent, losses, raced>>
      BY Zenon DEF Receive
<1>2. /\ r \in Requests /\ r[1] = c /\ r[2] = client[c].call /\ client[c] \in Call
      /\ req[r] \in Request
      BY <1>1, CurrentFacts, Zenon DEF OInv, TypeOK, Current
<1>3. CASE req[r].reply = "quota"
  <2>1. Again(c, NoRequest, "quota")
        BY <1>3, Zenon DEF Receive
  <2>2. NoRequest.pc = "none" /\ losses' \in 0..MaxLosses
        BY <1>1, Zenon DEF NoRequest, OInv, TypeOK
  <2> QED  BY <1>1, <2>1, <2>2, RequestValues, AgainKeeps
<1>e. CASE req[r].reply = "error"
  <2>1. Again(c, NoRequest, "unknown")
        BY <1>e, Zenon DEF Receive
  <2>2. NoRequest.pc = "none" /\ losses' \in 0..MaxLosses
        BY <1>1, Zenon DEF NoRequest, OInv, TypeOK
  <2> QED  BY <1>1, <2>1, <2>2, RequestValues, AgainKeeps
<1>4. CASE req[r].reply \notin {"quota", "error"}
  <2>1. req' = [req EXCEPT ![r] = NoRequest]
        BY <1>4, Zenon DEF Receive
  <2>2. req'[r].pc = "none" /\ \A q \in Requests : Kept(q)
        BY <1>2, <2>1 DEF OInv, TypeOK, Kept, NoRequest
  <2>3. req' \in [Requests -> Request]
        BY <1>2, <2>1, RequestValues, Zenon DEF OInv, TypeOK
  <2>4. CASE client[c].call = "take" /\ req[r].reply = "ok"
    <3>1. PICK op \in {"complete", "complete_and_out"} :
             client' = [client EXCEPT ![c] =
                          [call |-> "finish", op |-> op, attempt |-> 0,
                           id |-> req[r].id, token |-> r, answer |-> "none"]]
          BY <1>4, <2>4, Zenon DEF Receive
    <3>2. c \in Workers /\ req[r].id \in Agents
          BY <1>1, <1>2, <2>4, RequestFacts, BoundsAssumption
          DEF OInv, RepliesTrue, ReplyTrue, Request, Agents
    <3>3. Takes(c, op, req[r].id, r)
          BY <1>2, <3>1, Zenon DEF OInv, TypeOK, Call, Takes
    <3>4. [call |-> "finish", op |-> op, attempt |-> 0,
           id |-> req[r].id, token |-> r, answer |-> "none"] \in Call
          BY <1>2, BoundsAssumption DEF Call, Token, Request
    <3>5. TypeOK'
          BY <1>1, <2>3, <3>1, <3>4, Zenon DEF OInv, TypeOK
    <3> HIDE DEF r
    <3> QED  BY <1>1, <1>2, <2>2, <2>4, <3>2, <3>3, <3>5, TakeKeeps, Zenon
  <2>5. CASE ~(client[c].call = "take" /\ req[r].reply = "ok")
    <3>1. client' = [client EXCEPT ![c].call = "end", ![c].answer = req[r].reply]
          BY <1>4, <2>5, Zenon DEF Receive
    <3>2. Ends(c, req[r].reply)
          BY <1>2, <3>1 DEF OInv, TypeOK, Call, Ends, SameCall
    <3>3. [client[c] EXCEPT !.call = "end", !.answer = req[r].reply] \in Call
          BY <1>2, <1>4, Zenon DEF Call, Request
    <3>4. TypeOK'
          BY <1>1, <2>3, <3>1, <3>3, Zenon DEF OInv, TypeOK
    <3>5. c \in Producers /\ req[r].reply = "ok" => Made(c, "create") # {}
      <4>1. SUFFICES ASSUME c \in Producers, req[r].reply = "ok"
                     PROVE  Made(c, "create") # {}
            OBVIOUS
      <4>2. r[2] = "create"
            BY <1>2, <4>1, RequestFacts, Zenon
      <4>3. PICK a \in Agents : agent[a].maker = r
            BY <1>1, <1>2, <4>1, <4>2, Zenon DEF OInv, RepliesTrue, ReplyTrue
      <4> HIDE DEF r
      <4>4. r = <<c, "create", r[3]>> /\ r[3] \in 1..MaxAttempts
            BY <1>2, <4>2, RequestFacts, Zenon
      <4>5. a \in Made(c, "create")
            BY <4>3, <4>4, Zenon DEF Made
      <4> QED  BY <4>5, Zenon
    <3>6. c \in Workers =>
             /\ req[r].reply = "ok" => DoneBy(c)
             /\ req[r].reply = "refused" => Refused(c)
             /\ req[r].reply = "not_found" => Missed(c)
          BY <1>1, <1>2, <2>5, RequestFacts, ZenonT(40) DEF OInv, RepliesTrue, ReplyTrue
    <3> HIDE DEF r
    <3> QED  BY <1>1, <2>2, <3>2, <3>4, <3>5, <3>6, EndKeeps, Zenon
  <2> QED  BY <2>4, <2>5
<1> QED  BY <1>3, <1>e, <1>4, Zenon

-----------------------------------------------------------------------------
(***************************************************************************)
(* Steps of a handler, and of the reaper, which acts for no request.       *)
(***************************************************************************)

\* Request r makes agent a in this step.
Makes(r, a) == r \in Requests /\ agent[a].status = "NONE" /\ agent'[a] = NewAgent(r)

\* What a step for r may do to the agents: make one, claim one, complete the one
\* its worker holds, or give one back.  complete-and-out does the first and the
\* third together.
Moves(r) ==
    /\ \A a \in Agents :
          /\ agent[a].status # "NONE" =>
                agent'[a].maker = agent[a].maker /\ agent'[a].status # "NONE"
          /\ agent[a].status = "NONE" => agent'[a] = agent[a] \/ Makes(r, a)
          /\ agent'[a].status # "COMPLETED" => agent'[a].doneBy = NoToken
          /\ \/ agent'[a].doneBy = agent[a].doneBy
             \/ /\ r \in Requests /\ r[2] = "finish" /\ HeldBy(r[1])
                /\ a = client[r[1]].id /\ agent'[a].doneBy = client[r[1]].token
          /\ agent'[a].status = "IN_PROGRESS" =>
                \/ agent[a].status = "IN_PROGRESS" /\ agent'[a].token = agent[a].token
                \/ r \in Requests /\ req[r].pc = "take" /\ agent'[a].token = r
          /\ Makes(r, a) =>
                /\ r[2] # "take" /\ req'[r].pc \in Idle
                /\ \A b \in Agents : Makes(r, b) => b = a
    /\ r \in Requests /\ r[2] = "finish" =>
          ((\E a \in Agents : Makes(r, a)) <=>
              client[r[1]].op = "complete_and_out" /\ HeldBy(r[1]) /\ DoneBy(r[1])')

\* What such a step keeps of every worker's standing.
LEMMA StandingKept ==
    ASSUME OInv, UNCHANGED <<config, client>>, NEW r \in Token, Moves(r),
           NEW w \in Workers
    PROVE  /\ DoneBy(w) => DoneBy(w)'
           /\ DoneBy(w)' => DoneBy(w) \/ (r \in Requests /\ r[2] = "finish" /\ r[1] = w /\ HeldBy(w))
           /\ ~HeldBy(w) => ~HeldBy(w)'
           /\ HeldBy(w) => ~DoneBy(w)
           /\ Refused(w) => Refused(w)'
<1> DEFINE i == client[w].id
           t == client[w].token
<1>0. OInv
      BY Zenon
<1>1. i # 0 =>
         /\ i \in Agents /\ t \in Requests /\ t # NoToken /\ t[1] = w
         /\ req[t].pc = "none"
      BY RequestFacts, BoundsAssumption DEF OInv, ClientsSound, TypeOK, Call, Agents, Clients
<1>2. /\ client'[w] = client[w] /\ config' = config
      BY Zenon DEF Clients
<1>3. HeldBy(w) => ~DoneBy(w)
      BY <1>1, Zenon DEF OInv, AgentsSound, HeldBy, DoneBy
<1>4. DoneBy(w) => DoneBy(w)'
  <2>1. SUFFICES ASSUME DoneBy(w) PROVE DoneBy(w)'
        OBVIOUS
  <2>2. i # 0 /\ agent[i].doneBy = t
        BY <2>1, Zenon DEF DoneBy
  <2>3. agent'[i].doneBy = agent[i].doneBy
    <3>1. SUFFICES ASSUME r \in Requests, r[2] = "finish", HeldBy(r[1]), i = client[r[1]].id
                   PROVE FALSE
          BY <1>1, <2>2, Zenon DEF Moves
    <3>2. agent[i].status = "IN_PROGRESS"
          BY <3>1, Zenon DEF HeldBy
    <3> QED  BY <1>1, <2>2, <3>2, Zenon DEF OInv, AgentsSound
  <2> QED  BY <1>2, <2>2, <2>3, Zenon DEF DoneBy
<1>5. DoneBy(w)' => DoneBy(w) \/ (r \in Requests /\ r[2] = "finish" /\ r[1] = w /\ HeldBy(w))
  <2>1. SUFFICES ASSUME DoneBy(w)', ~DoneBy(w)
                 PROVE  r \in Requests /\ r[2] = "finish" /\ r[1] = w /\ HeldBy(w)
        BY Zenon
  <2>2. i # 0 /\ agent'[i].doneBy = t /\ agent[i].doneBy # t
        BY <1>2, <2>1, Zenon DEF DoneBy
  <2>3. /\ r \in Requests /\ r[2] = "finish" /\ HeldBy(r[1])
        /\ agent'[i].doneBy = client[r[1]].token
        BY <1>1, <2>2, Zenon DEF Moves
  <2>4. client[r[1]].id # 0 /\ r[1] \in Workers
        BY <2>3, RequestFacts, Zenon DEF HeldBy
  <2>5. client[r[1]].token[1] = r[1]
        BY <2>4, Zenon DEF OInv, ClientsSound
  <2> QED  BY <1>1, <2>2, <2>3, <2>5, Zenon
<1>6. ~HeldBy(w) => ~HeldBy(w)'
      BY <1>1, <1>2, Zenon DEF HeldBy, Moves
<1>7. Refused(w) => Refused(w)'
      BY <1>2, <1>3, <1>4, <1>5, <1>6, Zenon DEF Refused, Repetition
<1> QED  BY <1>3, <1>4, <1>5, <1>6, <1>7, Zenon

\* A request that finishes is the first attempt or a later one.
LEMMA AttemptFacts ==
    ASSUME OInv, NEW r \in Requests, r[2] = "finish", req[r].pc \notin Idle
    PROVE  /\ r[1] \in Workers /\ client[r[1]].attempt > 0
           /\ client[r[1]].attempt > 1 \/ r = <<r[1], "finish", 1>>
<1>1. /\ r = <<r[1], "finish", r[3]>> /\ r[1] \in Workers /\ r[3] \in 1..MaxAttempts
      /\ r[3] <= client[r[1]].attempt
      BY RequestFacts, Zenon DEF OInv, HandlersSound, HandlerSound, Sent
<1>2. client[r[1]].attempt \in 0..MaxAttempts
      BY <1>1, Zenon DEF OInv, TypeOK, Call, Clients
<1>3. client[r[1]].attempt > 0 /\ (client[r[1]].attempt > 1 \/ r[3] = 1)
      BY <1>1, <1>2, BoundsAssumption
<1> QED  BY <1>1, <1>3, Zenon

\* A step for request r keeps the invariant, if what the handler goes on to do
\* or answers is so.
LEMMA HandlerKeeps ==
    ASSUME OInv, TypeOK', UNCHANGED <<config, client>>,
           NEW r \in Token, Moves(r),
           r # NoToken => /\ req[r].pc \notin Idle /\ req'[r].pc # "find"
                          /\ HandlerSound(r)' /\ ReplyTrue(r)',
           \A q \in Requests \ {r} : Kept(q)
    PROVE  OInv'
<1> USE DEF OInv
<1>1. \A w \in Workers :
         /\ DoneBy(w) => DoneBy(w)'
         /\ DoneBy(w)' => DoneBy(w) \/ (r \in Requests /\ r[2] = "finish" /\ r[1] = w /\ HeldBy(w))
         /\ ~HeldBy(w) => ~HeldBy(w)'
         /\ HeldBy(w) => ~DoneBy(w)
         /\ Refused(w) => Refused(w)'
      BY StandingKept, Zenon
<1>2. \A q \in Requests : Sent(q)' <=> Sent(q)
      BY Zenon DEF Sent
<1>3. r # NoToken => r \in Requests /\ \A a \in Agents : agent[a].maker # r
      BY Zenon DEF AgentsSound, Token
<1>4. \A a \in Agents :
         /\ agent[a] \in Agent /\ agent'[a] \in Agent
         /\ agent[a].maker # NoToken => agent'[a].maker = agent[a].maker
         /\ agent'[a].maker # NoToken => agent'[a].maker = agent[a].maker \/ Makes(r, a)
         /\ Makes(r, a) => agent'[a].maker = r
  <2>1. \A a \in Agents : agent[a].status = "NONE" => agent[a].maker = NoToken
        BY DEF AgentsSound, NoAgent
  <2>2. \A a \in Agents : Makes(r, a) => agent'[a].maker = r
    <3>1. NewAgent(r).maker = r
          BY ZenonT(40) DEF NewAgent
    <3> QED  BY <3>1, Zenon DEF Makes
  <2> QED  BY <2>1, <2>2, Zenon DEF Moves, TypeOK
<1>5. AgentsSound'
  <2>1. ASSUME NEW a \in Agents, agent'[a].status = "NONE" PROVE agent'[a] = NoAgent
    <3>1. NewAgent(r).status # "NONE"
          BY DEF NewAgent
    <3>2. agent[a].status = "NONE" /\ agent'[a] = agent[a]
          BY <2>1, <3>1, Zenon DEF Moves, Makes
    <3> QED  BY <3>2, Zenon DEF AgentsSound
  <2>2. ASSUME NEW a \in Agents, agent'[a].doneBy # NoToken
        PROVE  \E w \in Workers : client[w].token = agent'[a].doneBy /\ client[w].id = a
    <3>1. CASE agent'[a].doneBy = agent[a].doneBy
          BY <2>2, <3>1 DEF AgentsSound
    <3>2. CASE agent'[a].doneBy # agent[a].doneBy
          BY <2>2, <3>2, RequestFacts, Zenon DEF Moves
    <3> QED  BY <3>1, <3>2, Zenon
  <2>3. ASSUME NEW a \in Agents, agent'[a].maker # NoToken
        PROVE  /\ agent'[a].maker[2] # "take" /\ Sent(agent'[a].maker)
               /\ req'[agent'[a].maker].pc \in Idle
    <3>1. CASE agent'[a].maker = agent[a].maker
      <4>1. agent[a].maker \in Requests \ {r}
            BY <1>3, <1>4, <2>3, <3>1, Zenon DEF Agent, Token
      <4> QED  BY <2>3, <3>1, <4>1 DEF AgentsSound, Kept, Idle
    <3>2. CASE Makes(r, a)
          BY <1>4, <3>2, RequestFacts, ZenonT(40) DEF Moves, Makes, HandlersSound, HandlerSound
    <3> QED  BY <1>4, <2>3, <3>1, <3>2, Zenon
  <2> QED  BY <2>1, <2>2, <2>3, ZenonT(40) DEF AgentsSound, Moves, Sent
<1>6. MakersDistinct'
      BY <1>3, <1>4 DEF MakersDistinct, Moves, Makes
<1>7. ClientsSound'
  <2>1. \A w \in Workers : client[w].op # "none" => req'[client[w].token].pc = "none"
        BY <1>3, RequestFacts DEF ClientsSound, Kept, Idle
  <2> QED  BY <2>1, Zenon DEF ClientsSound
<1>8. HandlersSound'
      BY <1>2, <1>3, RequestFacts, ZenonT(40) DEF HandlersSound, HandlerSound, Kept, Idle
<1>l. ASSUME NEW w \in Workers
      PROVE  (Missed(w) => Missed(w)') /\ Looked(w)'
  <2> DEFINE f == <<w, "finish", 1>>
  <2>1. client'[w] = client[w] /\ config' = config /\ Looked(w) /\ f \in Requests
        BY <1>l, FirstIntro, Zenon DEF Clients, LooksFirst
  <2>2. CASE r \in Requests /\ r[2] = "finish" /\ r[1] = w
    <3>1. client[w].attempt > 0 /\ (client[w].attempt > 1 \/ r = f)
          BY <1>3, <2>2, RequestFacts, AttemptFacts, Zenon
    <3>2. r = f => req[f].pc \notin Idle /\ req'[f].pc # "find"
          BY <1>3, <2>2, RequestFacts, Zenon
    <3> HIDE DEF f
    <3> QED  BY <2>1, <3>1, <3>2, Zenon DEF Missed, Looked, f
  <2>3. CASE ~(r \in Requests /\ r[2] = "finish" /\ r[1] = w)
    <3>1. DoneBy(w)' <=> DoneBy(w)
          BY <1>1, <1>l, <2>3, Zenon
    <3>2. f # r
          BY <2>1, <2>3
    <3>3. Kept(f)
          BY <2>1, <3>2, Zenon
    <3> HIDE DEF f
    <3> QED  BY <1>l, <2>1, <3>1, <3>3, LooksKept, Zenon DEF f
  <2> QED  BY <2>2, <2>3, Zenon
<1>9. RepliesTrue'
  <2>1. ASSUME NEW q \in Requests \ {r} PROVE ReplyTrue(q)'
    <3>1. ReplyTrue(q) /\ Kept(q) /\ q # NoToken
          BY <2>1, RequestFacts DEF RepliesTrue
    <3>2. CASE q[2] = "create"
          BY <1>4, <3>1, <3>2, Zenon DEF ReplyTrue, Kept
    <3>3. CASE q[2] = "take"
          BY <3>1, <3>3, Zenon DEF ReplyTrue, Kept
    <3>4. CASE q[2] = "finish"
          BY <1>1, <1>l, <3>1, <3>4, RequestFacts, Zenon DEF ReplyTrue, Kept
    <3> QED  BY <3>2, <3>3, <3>4, RequestFacts, Zenon
  <2> QED  BY <1>3, <2>1, RequestFacts, Zenon DEF RepliesTrue
<1>10. \A c, call : \A a \in Agents :
          /\ a \in Made(c, call) => a \in Made(c, call)'
          /\ a \in Made(c, call)' =>
                a \in Made(c, call) \/ (Makes(r, a) /\ r[1] = c /\ r[2] = call)
          /\ Makes(r, a) /\ r[1] = c /\ r[2] = call => a \in Made(c, call)'
  <2>1. ASSUME NEW c, NEW call, NEW a \in Agents
        PROVE  /\ a \in Made(c, call) <=> agent[a].maker # NoToken
                        /\ agent[a].maker[1] = c /\ agent[a].maker[2] = call
               /\ a \in Made(c, call)' <=> agent'[a].maker # NoToken
                        /\ agent'[a].maker[1] = c /\ agent'[a].maker[2] = call
    <3>1. agent[a].maker \in Token /\ agent'[a].maker \in Token
          BY <1>4, Zenon DEF Agent
    <3>2. ASSUME NEW m \in Token
          PROVE  (\E k \in 1..MaxAttempts : m = <<c, call, k>>) <=>
                    m # NoToken /\ m[1] = c /\ m[2] = call
          BY MakerFacts
    <3>3. a \in Made(c, call) <=> \E k \in 1..MaxAttempts : agent[a].maker = <<c, call, k>>
          BY Zenon DEF Made
    <3>4. a \in Made(c, call)' <=> \E k \in 1..MaxAttempts : agent'[a].maker = <<c, call, k>>
          BY DEF Made, Agents
    <3> QED  BY <3>1, <3>2, <3>3, <3>4, Zenon
  <2> QED  BY <1>3, <1>4, <2>1, RequestFacts DEF Makes
<1>11. AnswersTrue'
      BY <1>1, <1>l, <1>10, ZenonT(40) DEF AnswersTrue, Made
<1>12. OutputsOnce'
  <2>1. SUFFICES ASSUME NEW w \in Workers
                 PROVE  /\ \A a, b \in Made(w, "finish")' : a = b
                        /\ Made(w, "finish")' # {} <=>
                              DoneBy(w)' /\ client[w].op = "complete_and_out"
        BY Zenon DEF OutputsOnce
  <2>2. CASE r \in Requests /\ r[2] = "finish" /\ r[1] = w
    <3>1. (\E a \in Agents : Makes(r, a)) <=>
             client[w].op = "complete_and_out" /\ HeldBy(w) /\ DoneBy(w)'
          BY <2>2 DEF Moves
    <3>2. \A a \in Agents : Makes(r, a) => \A b \in Agents : Makes(r, b) => b = a
          BY Zenon DEF Moves
    <3>3. Made(w, "finish") # {} <=> DoneBy(w) /\ client[w].op = "complete_and_out"
          BY Zenon DEF OutputsOnce
    <3>4. \A a, b \in Made(w, "finish") : a = b
          BY Zenon DEF OutputsOnce
    <3>5. \A a \in Made(w, "finish")' : a \in Agents
          BY Zenon DEF Made, Agents
    <3>6. \A a \in Made(w, "finish") : a \in Agents
          BY Zenon DEF Made
    <3> QED  BY <1>1, <1>10, <2>2, <3>1, <3>2, <3>3, <3>4, <3>5, <3>6, ZenonT(40)
  <2>3. CASE ~(r \in Requests /\ r[2] = "finish" /\ r[1] = w)
    <3>1. Made(w, "finish")' = Made(w, "finish")
          BY <1>10, <2>3 DEF Made, Agents, Makes
    <3>2. DoneBy(w)' <=> DoneBy(w)
          BY <1>1, <2>3, Zenon
    <3> QED  BY <3>1, <3>2, ZenonT(40) DEF OutputsOnce
  <2> QED  BY <2>2, <2>3, Zenon
<1>13. LooksFirst'
      BY <1>l, Zenon DEF LooksFirst
<1> QED  BY <1>5, <1>6, <1>7, <1>8, <1>9, <1>11, <1>12, <1>13, Zenon

\* What a worker holds it has not completed, and the agent its requests name is
\* one that was given out.
LEMMA NamedFacts ==
    ASSUME OInv, NEW r \in Requests, r[2] = "finish", req[r].pc \notin Idle
    PROVE  LET w == r[1] IN
           /\ w \in Workers /\ client[w].op = req[r].op /\ client[w].op # "none"
           /\ client[w].id \in Agents /\ client[w].id # 0
           /\ client[w].token \in Requests /\ client[w].token # NoToken
           /\ HeldBy(w) <=> Holds(r)
           /\ DoneBy(w) <=> DoneBefore(r)
           /\ HeldBy(w) => ~DoneBy(w)
<1>1. /\ r[1] \in Workers /\ client[r[1]].op = req[r].op /\ client[r[1]].op # "none"
      BY RequestFacts, Zenon DEF OInv, HandlersSound, HandlerSound, Sent
<1>2. /\ client[r[1]].id \in Agents /\ client[r[1]].id # 0
      /\ client[r[1]].token \in Requests /\ client[r[1]].token # NoToken
      BY <1>1, RequestFacts, BoundsAssumption
      DEF OInv, ClientsSound, TypeOK, Call, Agents, Clients
<1>3. /\ HeldBy(r[1]) <=> Holds(r)
      /\ DoneBy(r[1]) <=> DoneBefore(r)
      /\ HeldBy(r[1]) => ~DoneBy(r[1])
      BY <1>2, Zenon DEF OInv, AgentsSound, HeldBy, DoneBy, Holds, DoneBefore, Named, TokenOf
<1> QED  BY <1>1, <1>2, <1>3, Zenon

\* A response, or nothing when nobody waits for it.
LEMMA ReplyFacts ==
    ASSUME NEW r \in Requests, NEW reply \in {"ok", "empty", "quota", "refused", "not_found", "error"},
           NEW id \in 0..MaxAgents
    PROVE  LET h == Reply(r, reply, id) IN
           /\ h \in Request /\ h.pc \in Idle /\ h.op = "none"
           /\ h.pc = "replied" => h.reply = reply /\ h.id = id
<1>1. ASSUME NEW n \in Request
      PROVE  LET h == [n EXCEPT !.pc = "replied", !.reply = reply, !.id = id]
             IN  /\ h \in Request /\ h.pc = "replied" /\ h.op = n.op
                 /\ h.reply = reply /\ h.id = id
      BY Zenon DEF Request
<1>2. CASE req[r].left
      BY <1>2, RequestValues, Zenon DEF Reply, NoRequest, Idle
<1>3. CASE ~req[r].left
  <2>1. Reply(r, reply, id) =
           [NoRequest EXCEPT !.pc = "replied", !.reply = reply, !.id = id]
        BY <1>3 DEF Reply
  <2>2. NoRequest \in Request /\ NoRequest.op = "none"
        BY RequestValues, Zenon DEF NoRequest
  <2> QED  BY <1>1, <2>1, <2>2, Zenon DEF Idle
<1> QED  BY <1>2, <1>3

\* A step of a handler that changes nothing but its own place keeps the
\* invariant, if what it goes on with or answers is so.
LEMMA QuietKeeps ==
    ASSUME OInv, NEW r \in Requests, req[r].pc \notin Idle,
           NEW h \in Request, req' = [req EXCEPT ![r] = h],
           UNCHANGED <<config, agent, client, raced>>, losses' \in 0..MaxLosses,
           h.pc \notin Idle => h.op = req[r].op /\ h.pc \in PlacesOf(h.op),
           h.pc # "find",
           h.pc = "get" => DoneBy(r[1]) /\ config.backend # "sqlite",
           h.pc = "classify" => ~HeldBy(r[1]) /\ config.backend # "sqlite",
           h.pc = "replied" =>
              /\ r[2] = "create" => h.reply \in {"quota", "error"}
              /\ r[2] = "take" => h.reply \in {"empty", "error"}
              /\ h.reply = "not_found" => req[r].pc \in {"find", "get"}
              /\ r[2] = "finish" =>
                    /\ h.reply = "ok" => DoneBy(r[1])
                    /\ h.reply = "refused" => Refused(r[1])
    PROVE  OInv'
<1>1. TypeOK'
      BY Zenon DEF OInv, TypeOK
<1>2. req'[r] = h /\ \A q \in Requests \ {r} : Kept(q)
      BY Zenon DEF OInv, TypeOK, Kept
<1>3. \A w : /\ DoneBy(w)' <=> DoneBy(w)
             /\ HeldBy(w)' <=> HeldBy(w)
             /\ Refused(w)' <=> Refused(w)
      BY Zenon DEF DoneBy, HeldBy, Refused, Repetition
<1>4. Moves(r)
  <2>1. \A a \in Agents : ~Makes(r, a)
        BY DEF Makes, NewAgent
  <2>2. r[2] = "finish" => ~(HeldBy(r[1]) /\ DoneBy(r[1])')
        BY <1>3, NamedFacts, Zenon
  <2>3. \A a \in Agents : agent[a].status # "COMPLETED" => agent[a].doneBy = NoToken
        BY Zenon DEF OInv, AgentsSound
  <2> QED  BY <2>1, <2>2, <2>3, Zenon DEF Moves
<1>5. HandlerSound(r)'
      BY <1>2, Zenon DEF OInv, HandlersSound, HandlerSound, Sent
<1>m. ASSUME r[2] = "finish", h.pc = "replied", h.reply = "not_found"
      PROVE  Missed(r[1])'
  <2> DEFINE w == r[1]
  <2>1. /\ w \in Workers /\ client[w].attempt > 0
        /\ client[w].attempt > 1 \/ r = <<w, "finish", 1>>
        BY <1>m, AttemptFacts, Zenon
  <2>2. client'[w] = client[w] /\ config' = config
        BY Zenon
  <2>3. CASE req[r].pc = "find"
    <3>1. client[w].attempt > 1 \/ ~DoneBy(w)
          BY <2>1, <2>3, Zenon DEF OInv, LooksFirst, Looked
    <3> QED  BY <1>2, <1>3, <1>m, <2>1, <2>2, <3>1, Zenon DEF Missed, Idle
  <2>4. CASE req[r].pc = "get"
    <3>1. config.backend # "sqlite"
          BY <1>m, <2>4, Zenon DEF OInv, RepliesTrue, ReplyTrue
    <3>2. req[r].pc \in PlacesOf(req[r].op) /\ req[r].op = client[w].op
          BY <1>m, Zenon DEF OInv, HandlersSound, HandlerSound
    <3>3. client[w].op = "complete"
          BY <2>4, <3>2, Zenon DEF PlacesOf, Publishing
    <3> QED  BY <2>1, <2>2, <3>1, <3>3, Zenon DEF Missed
  <2> QED  BY <1>m, <2>3, <2>4, Zenon
<1>6. ReplyTrue(r)'
      BY <1>2, <1>3, <1>m, NamedFacts, RequestFacts, Zenon DEF ReplyTrue
<1>7. r \in Token
      BY DEF Token
<1> QED  BY <1>1, <1>2, <1>4, <1>5, <1>6, <1>7, HandlerKeeps, Zenon

\* Classify and Get keep the invariant.
LEMMA ClassifyGetKeep ==
    ASSUME OInv, NEW r \in Requests, Classify(r) \/ Get(r)
    PROVE  OInv'
<1> DEFINE i == client[r[1]].id
<1>1. /\ req[r] \in Request /\ req[r].pc \in {"classify", "get"} /\ req[r].pc \notin Idle
      /\ UNCHANGED <<config, agent, client, raced>> /\ losses' \in 0..MaxLosses
      BY DEF OInv, TypeOK, Running, Idle, Classify, Get
<1>2. req[r].op = "complete" /\ r[2] = "finish" /\ PlacesOf("complete") = {"find", "complete", "classify", "get"}
  <2>1. req[r].pc \in PlacesOf(req[r].op) /\ (r[2] # "finish" => req[r].op = r[2])
        BY <1>1, Zenon DEF OInv, HandlersSound, HandlerSound
  <2>2. r[2] \in {"create", "take", "finish"}
        BY RequestFacts, Zenon
  <2> QED  BY <1>1, <2>1, <2>2, ZenonT(40) DEF PlacesOf, Publishing
<1>3. /\ i \in 0..MaxAgents /\ 0 \in 0..MaxAgents
      /\ DoneBefore(r) <=> DoneBy(r[1])
      /\ req[r].pc = "get" => DoneBy(r[1])
      /\ req[r].pc = "classify" => ~HeldBy(r[1])
      /\ config.backend # "sqlite"
      BY <1>1, <1>2, NamedFacts, BoundsAssumption DEF Agents, OInv, RepliesTrue, ReplyTrue
<1>4. CASE req' = [req EXCEPT ![r] = [req[r] EXCEPT !.pc = "get"]] /\ DoneBefore(r)
  <2> DEFINE h == [req[r] EXCEPT !.pc = "get"]
  <2>1. h \in Request /\ h.pc = "get" /\ h.op = req[r].op
        BY <1>1 DEF Request
  <2> HIDE DEF h
  <2> QED  BY <1>1, <1>2, <1>3, <1>4, <2>1, QuietKeeps, Zenon DEF Idle, h
<1>5. CASE req' = [req EXCEPT ![r] = Reply(r, "refused", 0)] /\ req[r].pc = "classify" /\ ~DoneBefore(r)
  <2> DEFINE h == Reply(r, "refused", 0)
  <2>1. h \in Request /\ h.pc \in Idle /\ (h.pc = "replied" => h.reply = "refused")
        BY <1>3, ReplyFacts
  <2>2. Refused(r[1])
        BY <1>3, <1>5, Zenon DEF Refused
  <2> HIDE DEF h
  <2> QED  BY <1>1, <1>2, <1>5, <2>1, <2>2, QuietKeeps, Zenon DEF Idle, h
<1>6. CASE req' = [req EXCEPT ![r] = Reply(r, "ok", i)] /\ req[r].pc = "get"
  <2> DEFINE h == Reply(r, "ok", i)
  <2>1. h \in Request /\ h.pc \in Idle /\ (h.pc = "replied" => h.reply = "ok")
        BY <1>3, ReplyFacts
  <2> HIDE DEF h
  <2> QED  BY <1>1, <1>2, <1>3, <1>6, <2>1, QuietKeeps, Zenon DEF Idle, h
<1> QED  BY <1>4, <1>5, <1>6, Zenon DEF Classify, Get, Running

\* Complete keeps the invariant: the worker still holds the agent, or its own
\* earlier attempt has completed it, or it never will be.
LEMMA CompleteKeeps ==
    ASSUME OInv, NEW r \in Requests, Complete(r)
    PROVE  OInv'
<1> DEFINE w == r[1]
           i == client[w].id
<1>1. /\ req[r] \in Request /\ req[r].pc = "complete" /\ req[r].pc \notin Idle
      /\ UNCHANGED <<config, client, losses, raced>> /\ losses' \in 0..MaxLosses
      BY DEF OInv, TypeOK, Running, Idle, Complete
<1>2. /\ req[r].op = "complete" /\ r[2] = "finish"
      /\ PlacesOf("complete") = {"find", "complete", "classify", "get"}
      BY <1>1, RequestFacts, Zenon DEF OInv, HandlersSound, HandlerSound, PlacesOf, Publishing, Request
<1>3. /\ w \in Workers /\ i \in Agents /\ i # 0 /\ i \in 0..MaxAgents /\ 0 \in 0..MaxAgents
      /\ client[w].token \in Requests /\ client[w].token # NoToken
      /\ client[w].op = "complete"
      /\ DoneBefore(r) <=> DoneBy(w)
      /\ Holds(r) <=> HeldBy(w)
      BY <1>1, <1>2, NamedFacts, BoundsAssumption DEF Agents
<1>4. PICK h \in Request :
         /\ req' = [req EXCEPT ![r] = h]
         /\ \/ /\ h.pc = "get" /\ h.op = req[r].op /\ (Holds(r) \/ DoneBefore(r))
               /\ config.backend # "sqlite"
            \/ h.pc = "classify" /\ h.op = req[r].op /\ ~Holds(r) /\ config.backend # "sqlite"
            \/ h.pc = "none"
            \/ h.pc = "replied" /\ h.reply = "ok" /\ (Holds(r) \/ DoneBefore(r))
            \/ h.pc = "replied" /\ h.reply = "refused" /\ ~Holds(r) /\ ~DoneBefore(r)
  <2>1. LET g == [req[r] EXCEPT !.pc = "get"] IN g \in Request /\ g.pc = "get" /\ g.op = req[r].op
        BY <1>1 DEF Request
  <2>2. LET g == [req[r] EXCEPT !.pc = "classify"]
        IN  g \in Request /\ g.pc = "classify" /\ g.op = req[r].op
        BY <1>1, Zenon DEF Request
  <2>3. LET g == Reply(r, "ok", i)
        IN  g \in Request /\ g.pc \in Idle /\ (g.pc = "replied" => g.reply = "ok")
        BY <1>3, ReplyFacts
  <2>4. LET g == Reply(r, "refused", 0)
        IN  g \in Request /\ g.pc \in Idle /\ (g.pc = "replied" => g.reply = "refused")
        BY <1>3, ReplyFacts
  <2>5. \/ /\ req' = [req EXCEPT ![r] = [req[r] EXCEPT !.pc = "get"]]
           /\ (Holds(r) \/ DoneBefore(r)) /\ config.backend # "sqlite"
        \/ /\ req' = [req EXCEPT ![r] = [req[r] EXCEPT !.pc = "classify"]]
           /\ ~Holds(r) /\ config.backend # "sqlite"
        \/ req' = [req EXCEPT ![r] = Reply(r, "ok", i)] /\ (Holds(r) \/ DoneBefore(r))
        \/ req' = [req EXCEPT ![r] = Reply(r, "refused", 0)] /\ ~Holds(r) /\ ~DoneBefore(r)
        BY DEF Complete
  <2> QED  BY <2>1, <2>2, <2>3, <2>4, <2>5, Zenon DEF Idle
<1>5. CASE ~Holds(r)
  <2>1. UNCHANGED agent
        BY <1>5, Zenon DEF Complete
  <2>2. h.reply = "refused" /\ h.pc = "replied" => Refused(w)
        BY <1>3, <1>4, <1>5, Zenon DEF Refused
  <2> QED  BY <1>1, <1>2, <1>3, <1>4, <1>5, <2>1, <2>2, QuietKeeps, Zenon DEF Idle
<1>6. CASE Holds(r)
  <2>1. agent' = [agent EXCEPT ![i] = [status |-> "COMPLETED", token |-> NoToken,
                                       doneBy |-> client[w].token, maker |-> agent[i].maker]]
        BY <1>6 DEF Complete, Completed, TokenOf
  <2>2. TypeOK'
        BY <1>1, <1>3, <1>4, <2>1, Zenon DEF OInv, TypeOK, Agent, Token
  <2>3. req'[r] = h /\ \A q \in Requests \ {r} : Kept(q)
        BY <1>4, Zenon DEF OInv, TypeOK, Kept
  <2>4. DoneBy(w)' /\ HeldBy(w)
        BY <1>1, <1>3, <1>6, <2>1, Zenon DEF DoneBy, OInv, TypeOK
  <2>5. Moves(r)
    <3>1. \A a \in Agents : ~Makes(r, a)
          BY <1>3, <2>1 DEF Makes, NewAgent, OInv, TypeOK
    <3>2. \A a \in Agents : agent[a].status # "COMPLETED" => agent[a].doneBy = NoToken
          BY DEF OInv, AgentsSound
    <3>3. agent[i].status = "IN_PROGRESS"
          BY <1>6, Zenon DEF Holds, Named
    <3> QED  BY <1>2, <1>3, <2>1, <2>4, <3>1, <3>2, <3>3, Zenon DEF Moves, OInv, TypeOK
  <2>6. HandlerSound(r)'
        BY <1>1, <1>2, <1>4, <1>6, <2>3, Zenon DEF OInv, HandlersSound, HandlerSound, Sent, Idle
  <2>7. ReplyTrue(r)'
        BY <1>1, <1>2, <1>3, <1>4, <1>6, <2>3, <2>4, Zenon DEF ReplyTrue
  <2>8. r \in Token /\ req'[r].pc # "find"
        BY <1>4, <2>3, Zenon DEF Token
  <2> QED  BY <1>1, <2>2, <2>3, <2>5, <2>6, <2>7, <2>8, HandlerKeeps, Zenon
<1> QED  BY <1>5, <1>6, Zenon

\* Marking counts as too low changes nothing else of a request.
LEMMA StaleFacts ==
    ASSUME NEW reqs \in [Requests -> Request], NEW pcs
    PROVE  /\ Stale(reqs, pcs) \in [Requests -> Request]
           /\ \A q \in Requests :
                 LET h == Stale(reqs, pcs)[q]
                 IN  /\ h.pc = reqs[q].pc /\ h.op = reqs[q].op /\ h.seen = reqs[q].seen
                     /\ h.reply = reqs[q].reply /\ h.id = reqs[q].id
                     /\ reqs[q].stale => h.stale
                     /\ reqs[q].pc \in pcs /\ reqs[q].op = "create" => h.stale
<1>1. ASSUME NEW g \in Request
      PROVE  LET h == [g EXCEPT !.stale = TRUE]
             IN  /\ h \in Request /\ h.pc = g.pc /\ h.op = g.op /\ h.seen = g.seen
                 /\ h.reply = g.reply /\ h.id = g.id /\ h.stale
      BY Zenon DEF Request
<1>2. ASSUME NEW q \in Requests
      PROVE  LET h == Stale(reqs, pcs)[q]
             IN  /\ h \in Request /\ h.pc = reqs[q].pc /\ h.op = reqs[q].op
                 /\ h.seen = reqs[q].seen /\ h.reply = reqs[q].reply /\ h.id = reqs[q].id
                 /\ reqs[q].stale => h.stale
                 /\ reqs[q].pc \in pcs /\ reqs[q].op = "create" => h.stale
  <2>1. reqs[q] \in Request
        OBVIOUS
  <2>2. CASE reqs[q].pc \in pcs /\ reqs[q].op = "create"
    <3>1. Stale(reqs, pcs)[q] = [reqs[q] EXCEPT !.stale = TRUE]
          BY <2>2 DEF Stale
    <3>2. LET h == [reqs[q] EXCEPT !.stale = TRUE]
          IN  /\ h \in Request /\ h.pc = reqs[q].pc /\ h.op = reqs[q].op /\ h.seen = reqs[q].seen
              /\ h.reply = reqs[q].reply /\ h.id = reqs[q].id /\ h.stale
          BY <1>1, <2>1, Zenon
    <3> QED  BY <2>2, <3>1, <3>2, Zenon
  <2>3. CASE ~(reqs[q].pc \in pcs /\ reqs[q].op = "create")
    <3>1. Stale(reqs, pcs)[q] = reqs[q]
          BY <2>3, Zenon DEF Stale
    <3> QED  BY <2>1, <2>3, <3>1, Zenon
  <2> QED  BY <2>2, <2>3
<1>3. Stale(reqs, pcs) \in [Requests -> Request]
      BY <1>2, Zenon DEF Stale
<1> QED  BY <1>2, <1>3

\* There is an identifier that is not in use, where one is asked for.
LEMMA FreshFacts ==
    ASSUME With("NONE") # {}
    PROVE  Fresh \in Agents /\ agent[Fresh].status = "NONE"
<1>1. \E a \in Agents : a \in With("NONE")
      BY Zenon DEF With
<1> QED  BY <1>1, Zenon DEF Fresh, With

\* Out keeps the invariant: the request makes one agent, and is over.
LEMMA OutKeeps ==
    ASSUME OInv, NEW r \in Requests, Out(r)
    PROVE  OInv'
<1> DEFINE h == Reply(r, "ok", Fresh)
           mid == [req EXCEPT ![r] = h]
<1>1. /\ req[r] \in Request /\ req[r].pc = "write" /\ req[r].pc \notin Idle
      /\ req[r].op = "create" /\ With("NONE") # {}
      /\ UNCHANGED <<config, client, losses>> /\ raced' \in BOOLEAN
      /\ agent' = [agent EXCEPT ![Fresh] = NewAgent(r)] /\ req' = Stale(mid, Counted)
      BY Zenon DEF OInv, TypeOK, Running, Idle, Out, Request
<1>2. r[2] = "create"
      BY <1>1, RequestFacts, Zenon DEF OInv, HandlersSound, HandlerSound, TypeOK, Call, Clients
<1>3. Fresh \in Agents /\ agent[Fresh].status = "NONE" /\ Fresh \in 0..MaxAgents
      BY <1>1, FreshFacts, BoundsAssumption DEF Agents
<1>4. h \in Request /\ h.pc \in Idle /\ (h.pc = "replied" => h.reply = "ok")
      BY <1>3, ReplyFacts
<1> HIDE DEF h
<1>5. mid \in [Requests -> Request] /\ mid[r] = h /\ \A q \in Requests \ {r} : mid[q] = req[q]
      BY <1>4, ZenonT(40) DEF OInv, TypeOK
<1> HIDE DEF mid
<1>6. /\ req' \in [Requests -> Request] /\ req'[r].pc = h.pc /\ req'[r].reply = h.reply
      /\ \A q \in Requests \ {r} : Kept(q)
      BY <1>1, <1>5, StaleFacts DEF Kept
<1>7. TypeOK'
      BY <1>1, <1>3, <1>6, Zenon DEF OInv, TypeOK, Agent, Token, NewAgent
<1>8. agent'[Fresh] = NewAgent(r) /\ \A a \in Agents \ {Fresh} : agent'[a] = agent[a]
      BY <1>1, <1>3, Zenon DEF OInv, TypeOK
<1>9. Moves(r)
  <2>1. \A a \in Agents : Makes(r, a) <=> a = Fresh
    <3>1. NewAgent(r).status # "NONE" /\ NewAgent(r).maker = r
          BY Zenon DEF NewAgent
    <3> QED  BY <1>3, <1>8, <3>1, Zenon DEF Makes
  <2>2. \A a \in Agents : agent[a].status # "COMPLETED" => agent[a].doneBy = NoToken
        BY Zenon DEF OInv, AgentsSound
  <2> QED  BY <1>2, <1>3, <1>4, <1>6, <1>8, <2>1, <2>2 DEF Moves, NewAgent
<1>10. HandlerSound(r)' /\ ReplyTrue(r)'
      BY <1>2, <1>3, <1>4, <1>6, <1>8 DEF HandlerSound, ReplyTrue, NewAgent
<1>11. r \in Token /\ req'[r].pc # "find"
      BY <1>4, <1>6 DEF Token, Idle
<1> QED  BY <1>1, <1>6, <1>7, <1>9, <1>10, <1>11, HandlerKeeps, Zenon

\* CompleteAndOut keeps the invariant: the completion and its output are one
\* step, and a repetition publishes nothing.
LEMMA CompleteAndOutKeeps ==
    ASSUME OInv, NEW r \in Requests, CompleteAndOut(r)
    PROVE  OInv'
<1> DEFINE w == r[1]
           i == client[w].id
<1>1. /\ req[r] \in Request /\ req[r].pc = "write" /\ req[r].pc \notin Idle
      /\ req[r].op = "complete_and_out"
      /\ UNCHANGED <<config, client, losses, raced>> /\ losses' \in 0..MaxLosses
      BY Zenon DEF OInv, TypeOK, Running, Idle, CompleteAndOut
<1>2. r[2] = "finish"
      BY <1>1, RequestFacts, Zenon DEF OInv, HandlersSound, HandlerSound
<1>3. /\ w \in Workers /\ i \in Agents /\ i # 0 /\ i \in 0..MaxAgents
      /\ client[w].token \in Requests /\ client[w].token # NoToken
      /\ client[w].op = "complete_and_out"
      /\ DoneBefore(r) <=> DoneBy(w)
      /\ Holds(r) <=> HeldBy(w)
      BY <1>1, <1>2, NamedFacts, BoundsAssumption DEF Agents
<1>4. CASE ~Holds(r)
  <2> DEFINE reply == IF DoneBefore(r) /\ config.backend # "valkey" THEN "ok" ELSE "refused"
             h == Reply(r, reply, i)
  <2>1. UNCHANGED agent /\ req' = [req EXCEPT ![r] = h]
        BY <1>4, Zenon DEF CompleteAndOut
  <2>2. reply \in {"ok", "refused"}
        OBVIOUS
  <2>3. reply = "ok" => DoneBy(w)
        BY <1>3, Zenon
  <2>4. reply = "refused" => Refused(w)
    <3>1. SUFFICES ASSUME DoneBy(w), config.backend = "valkey" PROVE client[w].attempt > 1
          BY <1>3, <1>4, Zenon DEF Refused, Repetition
    <3>m. Made(w, "finish") # {}
          BY <1>3, <3>1, Zenon DEF OInv, OutputsOnce
    <3>2. PICK a \in Agents, k \in 1..MaxAttempts : agent[a].maker = <<w, "finish", k>>
          BY <3>m DEF Made
    <3>3. agent[a].maker \in Requests /\ agent[a].maker # NoToken
          BY <1>3, <3>2, RequestIntro, RequestFacts, ZenonT(40)
    <3>4. k <= client[w].attempt /\ agent[a].maker # r
          BY <1>1, <3>2, <3>3 DEF OInv, AgentsSound, Sent
    <3>5. r = <<w, "finish", r[3]>> /\ r[3] \in 1..MaxAttempts /\ r[3] <= client[w].attempt
          BY <1>1, <1>2, RequestFacts, Zenon DEF OInv, HandlersSound, HandlerSound, Sent
    <3>6. k # r[3] /\ client[w].attempt \in Nat
          BY <1>3, <3>2, <3>4, <3>5, BoundsAssumption DEF OInv, TypeOK, Call, Clients
    <3> QED  BY <3>4, <3>5, <3>6, BoundsAssumption
  <2> HIDE DEF reply
  <2>5. h \in Request /\ h.pc \in Idle /\ (h.pc = "replied" => h.reply = reply)
        BY <1>3, <2>2, ReplyFacts
  <2> HIDE DEF h
  <2>6. /\ h.pc \notin {"find", "get", "classify"}
        /\ h.pc = "replied" => /\ h.reply # "not_found"
                               /\ h.reply = "ok" => DoneBy(w)
                               /\ h.reply = "refused" => Refused(w)
        BY <2>2, <2>3, <2>4, <2>5, Zenon DEF Idle
  <2> QED  BY <1>1, <1>2, <2>1, <2>5, <2>6, QuietKeeps, Zenon
<1>5. CASE Holds(r)
  <2> DEFINE h == Reply(r, "ok", i)
             mid == [req EXCEPT ![r] = h]
             done == [status |-> "COMPLETED", token |-> NoToken,
                      doneBy |-> client[w].token, maker |-> agent[i].maker]
  <2>1. /\ With("NONE") # {} /\ req' = Stale(mid, Between)
        /\ agent' = [[agent EXCEPT ![i] = done] EXCEPT ![Fresh] = NewAgent(r)]
        BY <1>5, Zenon DEF CompleteAndOut, Completed, TokenOf
  <2>2. /\ Fresh \in Agents /\ agent[Fresh].status = "NONE"
        /\ agent[i].status = "IN_PROGRESS" /\ Fresh # i
        BY <1>5, <2>1, FreshFacts, Zenon DEF Holds, Named
  <2>3. h \in Request /\ h.pc \in Idle /\ (h.pc = "replied" => h.reply = "ok")
        BY <1>3, ReplyFacts
  <2> HIDE DEF h
  <2>4. mid \in [Requests -> Request] /\ mid[r] = h /\ \A q \in Requests \ {r} : mid[q] = req[q]
        BY <2>3 DEF OInv, TypeOK
  <2> HIDE DEF mid
  <2>5. /\ req' \in [Requests -> Request] /\ req'[r].pc = h.pc /\ req'[r].reply = h.reply
        /\ \A q \in Requests \ {r} : Kept(q)
    <3>1. /\ req' \in [Requests -> Request]
          /\ \A q \in Requests :
                /\ req'[q].pc = mid[q].pc /\ req'[q].op = mid[q].op
                /\ req'[q].reply = mid[q].reply /\ req'[q].id = mid[q].id
      <4>1. req' = Stale(mid, Between) /\ mid \in [Requests -> Request]
            BY <2>1, <2>4, ZenonT(40)
      <4> QED  BY <4>1, StaleFacts
    <3> QED  BY <2>4, <3>1, Zenon DEF Kept
  <2>6. /\ agent'[i] = done /\ agent'[Fresh] = NewAgent(r)
        /\ \A a \in Agents \ {i, Fresh} : agent'[a] = agent[a]
        BY <1>3, <2>1, <2>2, Zenon DEF OInv, TypeOK
  <2>7. TypeOK'
    <3>1. done \in Agent /\ NewAgent(r) \in Agent
      <4>1. agent[i].maker \in Token /\ client[w].token \in Token /\ NoToken \in Token /\ r \in Token
            BY <1>3, Zenon DEF OInv, TypeOK, Agent, Call, Token, Clients
      <4> QED  BY <4>1, ZenonT(40) DEF Agent, NewAgent
    <3>2. agent' \in [Agents -> Agent]
          BY <2>1, <3>1, Zenon DEF OInv, TypeOK
    <3> QED  BY <1>1, <2>5, <3>2, ZenonT(40) DEF OInv, TypeOK
  <2>f. /\ agent'[i].status = "COMPLETED" /\ agent'[i].doneBy = client[w].token
        /\ agent'[i].maker = agent[i].maker
        /\ agent'[Fresh].status = "NEW" /\ agent'[Fresh].doneBy = NoToken
    <3>1. done.status = "COMPLETED" /\ done.doneBy = client[w].token /\ done.maker = agent[i].maker
          BY Zenon
    <3>2. NewAgent(r).status = "NEW" /\ NewAgent(r).doneBy = NoToken
          BY Zenon DEF NewAgent
    <3> HIDE DEF done
    <3> QED  BY <2>6, <3>1, <3>2, Zenon
  <2> HIDE DEF done
  <2>8. DoneBy(w)' /\ HeldBy(w)
    <3>1. HeldBy(w)
          BY <1>3, <1>5, Zenon
    <3>2. client'[w].id = i /\ client'[w].token = client[w].token
          BY <1>1, Zenon
    <3> QED  BY <1>3, <2>f, <3>1, <3>2, Zenon DEF DoneBy
  <2>9. Moves(r)
    <3>1. \A a \in Agents : Makes(r, a) <=> a = Fresh
      <4>1. NewAgent(r).status = "NEW"
            BY Zenon DEF NewAgent
      <4>2. \A a \in Agents \ {i, Fresh} : agent'[a].status = agent[a].status
            BY <2>6, Zenon
      <4> QED  BY <2>2, <2>6, <4>1, <4>2, Zenon DEF Makes
    <3>2. \A a \in Agents : agent[a].status # "COMPLETED" => agent[a].doneBy = NoToken
          BY Zenon DEF OInv, AgentsSound
    <3>3. ASSUME NEW a \in Agents
          PROVE  /\ agent[a].status # "NONE" =>
                       agent'[a].maker = agent[a].maker /\ agent'[a].status # "NONE"
                 /\ agent[a].status = "NONE" => agent'[a] = agent[a] \/ a = Fresh
                 /\ agent'[a].status # "COMPLETED" => agent'[a].doneBy = NoToken
                 /\ agent'[a].doneBy = agent[a].doneBy \/ a = i
                 /\ agent'[a].status = "IN_PROGRESS" =>
                       agent[a].status = "IN_PROGRESS" /\ agent'[a].token = agent[a].token
      <4>1. CASE a = i
            BY <2>2, <2>f, <4>1, Zenon
      <4>2. CASE a = Fresh
            BY <2>2, <2>f, <3>2, <4>2, Zenon
      <4>3. CASE a \notin {i, Fresh}
            BY <2>6, <3>2, <4>3, Zenon
      <4> QED  BY <4>1, <4>2, <4>3, Zenon
    <3>4. req'[r].pc \in Idle
          BY <2>3, <2>5, Zenon
    <3> QED  BY <1>2, <1>3, <2>2, <2>8, <2>f, <3>1, <3>3, <3>4, ZenonT(40) DEF Moves
  <2>10. HandlerSound(r)' /\ ReplyTrue(r)'
        BY <1>1, <1>2, <1>3, <2>3, <2>5, <2>8, Zenon DEF HandlerSound, ReplyTrue, Idle
  <2>11. r \in Token /\ req'[r].pc # "find"
        BY <2>3, <2>5 DEF Token, Idle
  <2> QED  BY <1>1, <2>5, <2>7, <2>9, <2>10, <2>11, HandlerKeeps, Zenon
<1> QED  BY <1>4, <1>5, Zenon

\* Take keeps the invariant: the claim bears the token of a request whose
\* worker has none yet.
LEMMA TakeAgentKeeps ==
    ASSUME OInv, NEW r \in Requests, Take(r)
    PROVE  OInv'
<1>1. /\ req[r] \in Request /\ req[r].pc = "take" /\ req[r].pc \notin Idle
      /\ UNCHANGED <<config, client, losses, raced>> /\ losses' \in 0..MaxLosses
      BY Zenon DEF OInv, TypeOK, Running, Idle, Take
<1>2. r[2] = "take"
  <2>1. req[r].op = "take"
        BY <1>1, Zenon DEF OInv, HandlersSound, HandlerSound, PlacesOf, Publishing, Request
  <2>2. r[2] = "finish" => req[r].op # "take"
        BY <1>1, RequestFacts, Zenon DEF OInv, HandlersSound, HandlerSound, TypeOK, Call
  <2> QED  BY <1>1, <2>1, <2>2, RequestFacts, Zenon DEF OInv, HandlersSound, HandlerSound
<1>3. CASE req' = [req EXCEPT ![r] = Reply(r, "empty", 0)] /\ UNCHANGED agent
  <2> DEFINE h == Reply(r, "empty", 0)
  <2>1. h \in Request /\ h.pc \in Idle /\ (h.pc = "replied" => h.reply = "empty")
        BY ReplyFacts, BoundsAssumption
  <2>2. req' = [req EXCEPT ![r] = h]
        BY <1>3, Zenon
  <2> HIDE DEF h
  <2> QED  BY <1>1, <1>2, <1>3, <2>1, <2>2, QuietKeeps, Zenon DEF Idle
<1>4. ASSUME NEW a \in With("NEW"), req' = [req EXCEPT ![r] = Reply(r, "ok", a)],
             agent' = [agent EXCEPT ![a] = [status |-> "IN_PROGRESS", token |-> r,
                           doneBy |-> agent[a].doneBy, maker |-> agent[a].maker]]
      PROVE  OInv'
  <2> DEFINE h == Reply(r, "ok", a)
  <2>1. a \in Agents /\ agent[a].status = "NEW" /\ a \in 0..MaxAgents /\ a # 0
        BY <1>4, BoundsAssumption DEF With, Agents
  <2>2. h \in Request /\ h.pc \in Idle /\ (h.pc = "replied" => h.reply = "ok" /\ h.id = a)
        BY <2>1, ReplyFacts
  <2>3. req' = [req EXCEPT ![r] = h]
        BY <1>4, Zenon
  <2> HIDE DEF h
  <2>4. /\ req' \in [Requests -> Request] /\ req'[r] = h
        /\ \A q \in Requests \ {r} : Kept(q)
        BY <2>2, <2>3, Zenon DEF OInv, TypeOK, Kept
  <2>5. TypeOK'
        BY <1>1, <1>4, <2>1, <2>4, Zenon DEF OInv, TypeOK, Agent, Token
  <2>6. /\ agent'[a] = [status |-> "IN_PROGRESS", token |-> r,
                        doneBy |-> agent[a].doneBy, maker |-> agent[a].maker]
        /\ \A b \in Agents \ {a} : agent'[b] = agent[b]
        BY <1>4, <2>1, Zenon DEF OInv, TypeOK
  <2>7. Moves(r)
    <3>1. ASSUME NEW b \in Agents
          PROVE  ~Makes(r, b)
      <4>1. NewAgent(r).status = "NEW"
            BY Zenon DEF NewAgent
      <4>2. b # a => agent'[b].status = agent[b].status
            BY <2>6, Zenon
      <4> QED  BY <2>1, <4>1, <4>2, Zenon DEF Makes
    <3>2. \A b \in Agents : agent[b].status # "COMPLETED" => agent[b].doneBy = NoToken
          BY Zenon DEF OInv, AgentsSound
    <3>3. ASSUME NEW b \in Agents
          PROVE  /\ agent[b].status # "NONE" =>
                       agent'[b].maker = agent[b].maker /\ agent'[b].status # "NONE"
                 /\ agent[b].status = "NONE" => agent'[b] = agent[b]
                 /\ agent'[b].doneBy = agent[b].doneBy
                 /\ agent'[b].status # "COMPLETED" => agent'[b].doneBy = NoToken
                 /\ agent'[b].status = "IN_PROGRESS" =>
                       \/ agent[b].status = "IN_PROGRESS" /\ agent'[b].token = agent[b].token
                       \/ agent'[b].token = r
          BY <2>1, <2>6, <3>2
    <3> QED  BY <1>1, <1>2, <3>1, <3>3, Zenon DEF Moves
  <2>8. HandlerSound(r)' /\ ReplyTrue(r)'
        BY <1>2, <2>1, <2>2, <2>4, Zenon DEF HandlerSound, ReplyTrue
  <2>9. r \in Token /\ req'[r].pc # "find"
        BY <2>2, <2>4, Zenon DEF Token, Idle
  <2> QED  BY <1>1, <2>4, <2>5, <2>7, <2>8, <2>9, HandlerKeeps, Zenon
<1> QED  BY <1>3, <1>4, Zenon DEF Take

\* Reap keeps the invariant: whoever loses an agent has not completed it.
LEMMA ReapKeeps ==
    ASSUME OInv, NEW a \in Agents, Reap(a)
    PROVE  OInv'
<1>1. /\ agent[a].status = "IN_PROGRESS" /\ req' = Stale(req, Between)
      /\ agent' = [agent EXCEPT ![a] = [status |-> "NEW", token |-> NoToken,
                       doneBy |-> agent[a].doneBy, maker |-> agent[a].maker]]
      /\ UNCHANGED <<config, client, losses, raced>>
      BY Zenon DEF Reap
<1>2. req' \in [Requests -> Request] /\ \A q \in Requests : Kept(q)
  <2>1. req \in [Requests -> Request]
        BY Zenon DEF OInv, TypeOK
  <2> QED  BY <1>1, <2>1, StaleFacts DEF Kept
<1>3. TypeOK'
      BY <1>1, <1>2, Zenon DEF OInv, TypeOK, Agent, Token
<1>4. /\ agent'[a] = [status |-> "NEW", token |-> NoToken,
                      doneBy |-> agent[a].doneBy, maker |-> agent[a].maker]
      /\ \A b \in Agents \ {a} : agent'[b] = agent[b]
      BY <1>1, Zenon DEF OInv, TypeOK
<1>5. Moves(NoToken)
  <2>1. \A b \in Agents : agent[b].status # "COMPLETED" => agent[b].doneBy = NoToken
        BY Zenon DEF OInv, AgentsSound
  <2> QED  BY <1>1, <1>4, <2>1, RequestFacts DEF Moves, Makes
<1>6. NoToken \in Token
      BY DEF Token
<1> QED  BY <1>1, <1>2, <1>3, <1>5, <1>6, HandlerKeeps, Zenon

\* The initial states.
LEMMA OInvInit == Init => OInv
<1>1. SUFFICES ASSUME Init PROVE OInv
      BY Zenon
<1>2. /\ \A a \in Agents :
            agent[a] \in Agent /\ agent[a].doneBy = NoToken /\ agent[a].maker = NoToken
      /\ \A a \in Agents : agent[a].status = "NONE" => agent[a] = NoAgent
      BY <1>1, Zenon DEF Init, NewAgent, NoAgent, Agent, Token
<1>3. \A c \in Clients :
         /\ client[c].call = IF c \in Producers THEN "create" ELSE "take"
         /\ client[c].op = "none" /\ client[c].attempt = 0 /\ client[c].id = 0
         /\ client[c].token = NoToken /\ client[c].answer = "none"
      BY <1>1, Zenon DEF Init
<1>4. \A r \in Requests : req[r].pc = "none"
      BY <1>1 DEF Init, NoRequest
<1>5. TypeOK
  <2>1. agent \in [Agents -> Agent]
        BY <1>1, <1>2, Zenon DEF Init
  <2>2. client \in [Clients -> Call]
    <3>1. 0 \in 0..MaxAgents /\ 0 \in 0..MaxAttempts
          BY BoundsAssumption
    <3> QED  BY <1>1, <3>1, Zenon DEF Init, Call, Token
  <2>3. req \in [Requests -> Request]
        BY <1>1, RequestValues, Zenon DEF Init
  <2>4. config \in Deployment /\ losses \in 0..MaxLosses /\ raced \in BOOLEAN
    <3>1. config \in Deployments /\ losses = 0 /\ raced = FALSE
          BY <1>1, Zenon DEF Init
    <3>2. 0 \in 0..MaxLosses
          BY BoundsAssumption
    <3> QED  BY <3>1, <3>2, DeploymentsAssumption, Zenon
  <2> QED  BY <2>1, <2>2, <2>3, <2>4, Zenon DEF TypeOK
<1>6. AgentsSound /\ MakersDistinct
      BY <1>2, Zenon DEF AgentsSound, MakersDistinct
<1>7. ClientsSound
      BY <1>3, ClientsAssumption, Zenon DEF ClientsSound, Clients
<1>8. HandlersSound /\ RepliesTrue
      BY <1>4, Zenon DEF HandlersSound, HandlerSound, RepliesTrue, ReplyTrue, Idle
<1>9. AnswersTrue /\ OutputsOnce /\ LooksFirst
  <2>1. \A c, call : Made(c, call) = {}
    <3>1. ASSUME NEW c, NEW call, NEW k \in 1..MaxAttempts PROVE NoToken # <<c, call, k>>
          BY MakerFacts, Zenon DEF Token
    <3>2. ASSUME NEW c, NEW call, NEW a \in Made(c, call)
          PROVE  FALSE
      <4>1. a \in Agents /\ \E k \in 1..MaxAttempts : agent[a].maker = <<c, call, k>>
            BY Zenon DEF Made
      <4>2. agent[a].maker = NoToken
            BY <1>2, <4>1, Zenon
      <4> QED  BY <3>1, <4>1, <4>2, Zenon
    <3> QED  BY <3>2, Zenon
  <2> QED  BY <1>3, <2>1, Zenon DEF AnswersTrue, OutputsOnce, LooksFirst, Looked, DoneBy, Clients
<1> QED  BY <1>5, <1>6, <1>7, <1>8, <1>9, Zenon DEF OInv

-----------------------------------------------------------------------------
(***************************************************************************)
(* What the calls report.                                                  *)
(***************************************************************************)

INSTANCE FiniteSetTheorems

\* The agents in a status can be counted.
LEMMA CountFacts ==
    ASSUME NEW status
    PROVE  /\ IsFiniteSet(With(status)) /\ Count(status) \in 0..MaxAgents
           /\ Count(status)' \in 0..MaxAgents
<1>1. IsFiniteSet(Agents) /\ Cardinality(Agents) = MaxAgents
      BY FS_Interval, BoundsAssumption DEF Agents
<1>2. With(status) \subseteq Agents /\ With(status)' \subseteq Agents
      BY Zenon DEF With, Agents
<1> QED  BY <1>1, <1>2, FS_Subset, FS_CardinalityType DEF Count

\* Cancelled and the counts keep the invariant.
LEMMA CountsKeep ==
    ASSUME OInv, NEW r \in Requests,
           CountNew(r) \/ CountInProgress(r) \/ CountQueue(r) \/ Cancelled(r)
    PROVE  OInv'
<1>1. /\ req[r] \in Request /\ req[r].pc \notin Idle
      /\ UNCHANGED <<config, agent, client, raced>> /\ losses' \in 0..MaxLosses
      BY Zenon DEF OInv, TypeOK, Running, Active, Idle, CountNew, CountInProgress, CountQueue, Cancelled
<1>2. PICK h \in Request :
         /\ req' = [req EXCEPT ![r] = h]
         /\ \/ h.pc = "none"
            \/ h.pc = "replied" /\ h.reply = "quota" /\ req[r].pc \in Publishing
            \/ h.pc \in Publishing /\ req[r].pc \in Publishing /\ h.op = req[r].op
  <2>1. CASE CountNew(r)
    <3> DEFINE h == [req[r] EXCEPT !.seen = Count("NEW"), !.stale = FALSE,
                                   !.pc = "count_in_progress"]
    <3>1. req' = [req EXCEPT ![r] = h] /\ req[r].pc \in Publishing
          BY <2>1, Zenon DEF CountNew, Running, Publishing
    <3>2. ASSUME NEW n \in 0..MaxAgents
          PROVE  LET g == [req[r] EXCEPT !.seen = n, !.stale = FALSE, !.pc = "count_in_progress"]
                 IN  g \in Request /\ g.op = req[r].op /\ g.pc \in Publishing
          BY <1>1, Zenon DEF Request, Publishing
    <3>3. h \in Request /\ h.op = req[r].op /\ h.pc \in Publishing
          BY <3>2, CountFacts, Zenon
    <3> QED  BY <3>1, <3>3, Zenon
  <2>2. CASE CountInProgress(r)
    <3>1. req[r].pc \in Publishing
          BY <2>2, Zenon DEF CountInProgress, Running, Publishing
    <3>2. /\ Reply(r, "quota", 0) \in Request /\ Reply(r, "quota", 0).pc \in Idle
          /\ Reply(r, "quota", 0).pc = "replied" => Reply(r, "quota", 0).reply = "quota"
          BY ReplyFacts, BoundsAssumption
    <3>3. 0 \in 0..MaxAgents
          BY BoundsAssumption
    <3>4. LET g == [req[r] EXCEPT !.pc = "count_new", !.seen = 0, !.round = 2]
          IN  g \in Request /\ g.op = req[r].op /\ g.pc \in Publishing
      <4>1. ASSUME NEW n \in 0..MaxAgents, NEW k \in 0..2
            PROVE  LET g == [req[r] EXCEPT !.pc = "count_new", !.seen = n, !.round = k]
                   IN  g \in Request /\ g.op = req[r].op /\ g.pc \in Publishing
            BY <1>1, Zenon DEF Request, Publishing
      <4>2. 2 \in 0..2
            OBVIOUS
      <4> QED  BY <3>3, <4>1, <4>2, Zenon
    <3>6. LET g == [req[r] EXCEPT !.pc = "count_queue", !.seen = 0]
          IN  g \in Request /\ g.op = req[r].op /\ g.pc \in Publishing
          BY <1>1, <3>3, Zenon DEF Request, Publishing
    <3>5. \/ req' = [req EXCEPT ![r] = Reply(r, "quota", 0)]
          \/ req' = [req EXCEPT ![r] = [req[r] EXCEPT !.pc = "count_new", !.seen = 0, !.round = 2]]
          \/ req' = [req EXCEPT ![r] = [req[r] EXCEPT !.pc = "count_queue", !.seen = 0]]
          BY <2>2, Zenon DEF CountInProgress
    <3> QED  BY <3>1, <3>2, <3>4, <3>5, <3>6, ZenonT(40) DEF Idle
  <2>3. CASE CountQueue(r)
    <3>1. req[r].pc \in Publishing
          BY <2>3, Zenon DEF CountQueue, Running, Publishing
    <3>2. /\ Reply(r, "quota", 0) \in Request /\ Reply(r, "quota", 0).pc \in Idle
          /\ Reply(r, "quota", 0).pc = "replied" => Reply(r, "quota", 0).reply = "quota"
          BY ReplyFacts, BoundsAssumption
    <3>3. LET g == [req[r] EXCEPT !.pc = "write"]
          IN  g \in Request /\ g.op = req[r].op /\ g.pc \in Publishing
          BY <1>1, Zenon DEF Request, Publishing
    <3>4. \/ req' = [req EXCEPT ![r] = Reply(r, "quota", 0)]
          \/ req' = [req EXCEPT ![r] = [req[r] EXCEPT !.pc = "write"]]
          BY <2>3, Zenon DEF CountQueue
    <3> QED  BY <3>1, <3>2, <3>3, <3>4, Zenon DEF Idle
  <2>4. CASE Cancelled(r)
        BY <2>4, RequestValues, Zenon DEF Cancelled, NoRequest
  <2> QED  BY <2>1, <2>2, <2>3, <2>4, Zenon
<1>3. req[r].pc \in Publishing =>
         /\ req[r].op \in {"create", "complete_and_out"} /\ r[2] \in {"create", "finish"}
         /\ Publishing \subseteq PlacesOf(req[r].op)
      BY <1>1, RequestFacts, Zenon DEF OInv, HandlersSound, HandlerSound, PlacesOf, Publishing
<1>4. h.pc \notin {"find", "get", "classify"}
      BY <1>2, Zenon DEF Publishing
<1> QED  BY <1>1, <1>2, <1>3, <1>4, QuietKeeps, Zenon DEF Idle, Publishing

\* Find keeps the invariant.
LEMMA FindKeeps ==
    ASSUME OInv, NEW r \in Requests, Find(r)
    PROVE  OInv'
<1> DEFINE next == IF req[r].op = "complete" THEN "complete" ELSE "count_new"
           h == [req[r] EXCEPT !.pc = next]
<1>1. /\ req[r] \in Request /\ req[r].pc = "find" /\ req[r].pc \notin Idle
      /\ UNCHANGED <<config, agent, client, raced>> /\ losses' \in 0..MaxLosses
      BY Zenon DEF OInv, TypeOK, Running, Idle, Find
<1>2. req' = [req EXCEPT ![r] = h]
      BY Zenon DEF Find
<1>3. next \in {"complete", "count_new"}
      BY Zenon
<1>4. h \in Request /\ h.pc = next /\ h.op = req[r].op
      BY <1>1, <1>3 DEF Request
<1>5. req[r].pc \in PlacesOf(req[r].op)
      BY <1>1, Zenon DEF OInv, HandlersSound, HandlerSound
<1>6. next \in PlacesOf(req[r].op)
  <2>1. req[r].op \in {"complete", "complete_and_out"}
        BY <1>1, <1>5, Zenon DEF PlacesOf, Publishing, Request
  <2> QED  BY <2>1, Zenon DEF PlacesOf, Publishing
<1> HIDE DEF h, next
<1> QED  BY <1>1, <1>2, <1>3, <1>4, <1>6, QuietKeeps, Zenon DEF Idle

\* Fails keeps the invariant: what the handlers take for a missing agent is a
\* look of the only attempt before it has completed anything, or comes after it.
LEMMA FailsKeeps ==
    ASSUME OInv, NEW r \in Requests, Fails(r)
    PROVE  OInv'
<1> DEFINE reply == IF req[r].pc \in {"find", "get"} THEN "not_found" ELSE "error"
           h == Reply(r, reply, 0)
<1>1. /\ req[r] \in Request /\ req[r].pc \notin Idle
      /\ UNCHANGED <<config, agent, client, raced>>
      /\ req' = [req EXCEPT ![r] = h]
      BY Zenon DEF OInv, TypeOK, Active, Idle, Fails
<1>2. losses' \in 0..MaxLosses
      BY BoundsAssumption DEF OInv, TypeOK, Fails
<1>3. /\ reply \in {"not_found", "error"}
      /\ reply = "not_found" => req[r].pc \in {"find", "get"}
      BY Zenon
<1>4. r[2] # "finish" => reply = "error"
  <2>1. SUFFICES ASSUME r[2] # "finish" PROVE req[r].pc \notin {"find", "get"}
        BY Zenon
  <2>2. req[r].pc \in PlacesOf(r[2]) /\ r[2] \in {"create", "take"}
        BY <1>1, <2>1, RequestFacts, Zenon DEF OInv, HandlersSound, HandlerSound
  <2> QED  BY <2>2, Zenon DEF PlacesOf, Publishing
<1> HIDE DEF reply
<1>5. h \in Request /\ h.pc \in Idle /\ (h.pc = "replied" => h.reply = reply)
      BY <1>3, ReplyFacts, BoundsAssumption
<1> HIDE DEF h
<1> QED  BY <1>1, <1>2, <1>3, <1>4, <1>5, RequestFacts, QuietKeeps, Zenon DEF Idle

\* The invariant on outcomes is inductive.
THEOREM OutcomesInductive == Spec => []OInv
<1>1. OInv /\ [Next]_vars => OInv'
  <2>1. SUFFICES ASSUME OInv, [Next]_vars PROVE OInv'
        BY Zenon
  <2>2. ASSUME NEW r \in Requests, Handle(r) \/ Fails(r) PROVE OInv'
        BY <2>1, <2>2, CountsKeep, OutKeeps, CompleteAndOutKeeps, TakeAgentKeeps, FindKeeps,
           CompleteKeeps, ClassifyGetKeep, FailsKeeps, ZenonT(40) DEF Handle
  <2>3. ASSUME NEW c \in Clients, Send(c) \/ Receive(c) \/ GiveUp(c) PROVE OInv'
        BY <2>1, <2>3, SendKeeps, ReceiveKeeps, GiveUpKeeps, Zenon
  <2>4. ASSUME NEW a \in Agents, Reap(a) PROVE OInv'
        BY <2>1, <2>4, ReapKeeps, Zenon
  <2>5. CASE UNCHANGED vars
    <3>1. TypeOK' /\ MakersDistinct' /\ ClientsSound'
          BY <2>1, <2>5, ZenonT(40) DEF vars, OInv, TypeOK, MakersDistinct, ClientsSound
    <3>2. AgentsSound' /\ HandlersSound'
          BY <2>1, <2>5, ZenonT(40) DEF vars, OInv, AgentsSound, HandlersSound, HandlerSound, Sent
    <3>3. RepliesTrue'
          BY <2>1, <2>5, ZenonT(40) DEF vars, OInv, RepliesTrue, ReplyTrue, DoneBy, HeldBy, Refused, Repetition, Missed
    <3>m. \A c, made : Made(c, made)' = Made(c, made)
          BY <2>5, Zenon DEF vars, Made
    <3>4. AnswersTrue'
          BY <2>1, <2>5, <3>m, Zenon DEF vars, OInv, AnswersTrue, DoneBy, HeldBy, Refused, Repetition, Missed
    <3>5. OutputsOnce'
          BY <2>1, <2>5, <3>m, Zenon DEF vars, OInv, OutputsOnce, DoneBy
    <3>6. LooksFirst'
          BY <2>1, <2>5, Zenon DEF vars, OInv, LooksFirst, Looked, DoneBy
    <3> QED  BY <3>1, <3>2, <3>3, <3>4, <3>5, <3>6, ZenonT(40) DEF OInv
  <2> QED  BY <2>1, <2>2, <2>3, <2>4, <2>5, ZenonT(40) DEF Next
<1> QED  BY <1>1, OInvInit, PTL DEF Spec

\* What a call of the SDK reports is what happened, over all its attempts, for
\* any number of producers, workers, attempts, lost answers and failed store
\* calls: a create that returns made an agent, outputs are published once and with
\* the completion, a refused call has not completed, but for the repetition Valkey
\* refuses, and one that is told its agent is not there has completed only where
\* an earlier attempt did or the agent could not be read back (handlers.go,
\* retry_with_backoff, and the completions of the stores).
THEOREM CallsReportTheTruth == Spec => []OutcomesAreTrue
<1>1. OInv => OutcomesAreTrue
  <2>1. SUFFICES ASSUME OInv PROVE OutcomesAreTrue
        BY Zenon
  <2>2. ASSUME NEW p \in Producers
        PROVE  /\ Cardinality(Made(p, "create")) <= client[p].attempt
               /\ client[p].answer = "ok" => Made(p, "create") # {}
    <3> DEFINE M == Made(p, "create")
               n == client[p].attempt
               f == [a \in M |-> agent[a].maker[3]]
    <3>1. n \in Nat /\ IsFiniteSet(1..n) /\ Cardinality(1..n) = n
      <4>1. n \in 0..MaxAttempts
            BY <2>1, Zenon DEF OInv, TypeOK, Call, Clients
      <4>2. n \in Nat
            BY <4>1, BoundsAssumption
      <4> HIDE DEF n
      <4> QED  BY <4>2, FS_Interval
    <3>2. \A a \in M : /\ a \in Agents /\ agent[a].maker \in Requests
                       /\ agent[a].maker # NoToken
                       /\ agent[a].maker = <<p, "create", agent[a].maker[3]>>
      <4>1. ASSUME NEW a \in M PROVE a \in Agents /\ \E k \in 1..MaxAttempts : agent[a].maker = <<p, "create", k>>
            BY Zenon DEF Made
      <4>2. ASSUME NEW a \in M
            PROVE  /\ agent[a].maker \in Requests
                   /\ agent[a].maker = <<p, "create", agent[a].maker[3]>>
        <5>1. PICK k \in 1..MaxAttempts : agent[a].maker = <<p, "create", k>>
              BY <4>1, Zenon
        <5>2. agent[a].maker[3] = k
              BY <5>1
        <5> QED  BY <5>1, <5>2, RequestIntro, Zenon
      <4> QED  BY <4>1, <4>2, RequestFacts, Zenon
    <3>3. \A a \in M : agent[a].maker[3] \in 1..n
          BY <2>1, <3>1, <3>2, RequestFacts DEF OInv, AgentsSound, Sent
    <3>4. f \in Injection(M, 1..n)
      <4>1. f \in [M -> 1..n]
            BY <3>3, Zenon
      <4>2. ASSUME NEW a \in M, NEW b \in M, f[a] = f[b] PROVE a = b
            BY <2>1, <3>2, <4>2, ZenonT(40) DEF OInv, MakersDistinct
      <4> HIDE DEF f
      <4> QED  BY <4>1, <4>2, Zenon DEF Injection, IsInjective
    <3>5. Cardinality(M) <= n
          BY <3>1, <3>4, FS_Injection
    <3> QED  BY <2>1, <3>5, Zenon DEF OInv, AnswersTrue
  <2>3. ASSUME NEW w \in Workers
        PROVE  Cardinality(Made(w, "finish")) =
                  (IF DoneBy(w) /\ client[w].op = "complete_and_out" THEN 1 ELSE 0)
    <3>1. CASE Made(w, "finish") = {}
          BY <2>1, <3>1, FS_EmptySet, Zenon DEF OInv, OutputsOnce
    <3>2. CASE Made(w, "finish") # {}
      <4>1. PICK a : Made(w, "finish") = {a}
        <5>1. PICK a \in Made(w, "finish") : TRUE
              BY <3>2, Zenon
        <5>2. \A b \in Made(w, "finish") : b = a
              BY <2>1, <5>1, Zenon DEF OInv, OutputsOnce
        <5> QED  BY <5>1, <5>2, Zenon
      <4> QED  BY <2>1, <4>1, FS_Singleton, Zenon DEF OInv, OutputsOnce
    <3> QED  BY <3>1, <3>2, Zenon
  <2>4. ASSUME NEW w \in Workers
        PROVE  /\ client[w].answer = "ok" => DoneBy(w)
               /\ client[w].answer = "refused" /\ DoneBy(w) => Repetition(w)
               /\ client[w].answer = "not_found" /\ DoneBy(w) =>
                     \/ client[w].attempt > 1
                     \/ client[w].op = "complete" /\ config.backend # "sqlite"
        BY <2>1, Zenon DEF OInv, AnswersTrue, Refused, Missed
  <2>5. TypeOK
        BY <2>1, Zenon DEF OInv
  <2> QED  BY <2>2, <2>3, <2>4, <2>5, Zenon DEF OutcomesAreTrue, DoneBy, Repetition
<1> QED  BY <1>1, OutcomesInductive, PTL

-----------------------------------------------------------------------------
(***************************************************************************)
(* The quota of active agents.                                             *)
(***************************************************************************)

\* The effect on a count, where at most one agent enters or leaves the status.
LEMMA CountStep ==
    ASSUME NEW s, NEW a \in Agents,
           \A b \in Agents \ {a} : agent'[b].status = s <=> agent[b].status = s
    PROVE  /\ agent[a].status # s /\ agent'[a].status = s => Count(s)' = Count(s) + 1
           /\ agent[a].status = s /\ agent'[a].status # s => Count(s)' = Count(s) - 1
           /\ (agent[a].status = s <=> agent'[a].status = s) => Count(s)' = Count(s)
<1>1. IsFiniteSet(With(s))
      BY CountFacts, Zenon
<1>2. CASE agent[a].status # s /\ agent'[a].status = s
  <2>1. With(s)' = With(s) \cup {a} /\ a \notin With(s)
        BY <1>2, Zenon DEF With, Agents
  <2> QED  BY <1>1, <1>2, <2>1, FS_AddElement, ZenonT(40) DEF Count
<1>3. CASE agent[a].status = s /\ agent'[a].status # s
  <2>1. With(s)' = With(s) \ {a} /\ a \in With(s)
        BY <1>3 DEF With, Agents
  <2> QED  BY <1>1, <1>3, <2>1, FS_RemoveElement, ZenonT(40) DEF Count
<1>4. CASE agent[a].status = s <=> agent'[a].status = s
  <2>1. With(s)' = With(s)
        BY <1>4, Zenon DEF With, Agents
  <2> QED  BY <1>4, <2>1, Zenon DEF Count
<1> QED  BY <1>2, <1>3, <1>4, Zenon

\* A request whose counts the step does not touch.
Calm(q) ==
    \/ req'[q].pc \notin Counted
    \/ /\ req'[q].pc = req[q].pc /\ req'[q].op = req[q].op /\ req'[q].seen = req[q].seen
       /\ req[q].stale => req'[q].stale

\* A step that adds no active agent keeps the quota.  One that adds a NEW agent
\* marks the creates that have counted those and not yet the others.
LEMMA NoAgentAdded ==
    ASSUME TypeOK, QInv, raced => raced',
           Count("NEW")' + Count("IN_PROGRESS")' <= Count("NEW") + Count("IN_PROGRESS"),
           \A q \in Requests :
              \/ CountsHold(q)'
              \/ Calm(q) /\ (req'[q].op = "create" /\ ~req'[q].stale /\ req'[q].pc = "count_in_progress"
                                => Count("NEW")' <= Count("NEW"))
    PROVE  QInv'
<1> DEFINE n == Count("NEW")
           m == Count("IN_PROGRESS")
<1>1. n \in Nat /\ m \in Nat /\ ActiveCap \in Nat
      BY CountFacts, QuotaAssumption, BoundsAssumption
<1>2. n' \in Nat /\ m' \in Nat
      BY CountFacts, BoundsAssumption
<1>3. QuotaHoldsUnlessRaced'
      BY <1>1, <1>2 DEF QInv, QuotaHoldsUnlessRaced
<1>4. ASSUME NEW q \in Requests PROVE CountsHold(q)'
  <2>1. SUFFICES ASSUME Calm(q), req'[q].pc \in Counted, req'[q].op = "create", ~req'[q].stale
                 PROVE  CountsHold(q)'
        BY Zenon DEF CountsHold, Counted
  <2>2. CountsHold(q) /\ req[q].op = "create" /\ ~req[q].stale
        BY <2>1, Zenon DEF Calm, QInv
  <2>3. req'[q].pc = req[q].pc /\ req'[q].seen = req[q].seen
        BY <2>1, Zenon DEF Calm
  <2>4. CASE req'[q].pc = "count_in_progress"
    <3>1. CountsHold(q)' \/ n' <= n
          BY <2>1, <2>4, ZenonT(40)
    <3>2. n <= req[q].seen /\ req[q].seen \in Nat
      <4>1. n <= req[q].seen
            BY <2>2, <2>3, <2>4, Zenon DEF CountsHold
      <4> QED  BY <4>1, BoundsAssumption DEF TypeOK, Request
    <3> QED  BY <1>1, <1>2, <2>3, <2>4, <3>1, <3>2 DEF CountsHold
  <2>5. CASE req'[q].pc \in {"count_queue", "write"}
        BY <1>1, <1>2, <2>2, <2>3, <2>5 DEF CountsHold
  <2> QED  BY <2>1, <2>4, <2>5, Zenon DEF Counted
<1> QED  BY <1>3, <1>4, ZenonT(40) DEF QInv

\* The steps of the clients leave the counts alone.
LEMMA ClientsKeepQuota ==
    ASSUME TypeOK, ClientsSound, QInv, NEW c \in Clients, Send(c) \/ Receive(c) \/ GiveUp(c)
    PROVE  QInv'
<1>1. /\ UNCHANGED <<agent, raced>> /\ client[c].call # "end"
      BY Zenon DEF Send, Receive, GiveUp
<1>h. Handler(OpOf(c)).pc \notin Counted /\ NoRequest.pc \notin Counted
      BY <1>1, CurrentFacts, Zenon DEF Handler, NoRequest, Counted
<1>2. ASSUME NEW done, NEW answer, Again(c, done, answer), client[c].attempt > 0,
             \/ done.pc \notin Counted
             \/ done = [req[Current(c)] EXCEPT !.left = TRUE]
      PROVE  \A q \in Requests : Calm(q)
  <2>1. Current(c) \in Requests /\ req[Current(c)] \in Request
        BY <1>1, <1>2, CurrentFacts, Zenon DEF TypeOK
  <2>2. ASSUME NEW q \in Requests
        PROVE  \/ req'[q] = req[q] \/ req'[q] = Handler(OpOf(c))
               \/ q = Current(c) /\ req'[q] = done
        BY <1>2, Zenon DEF Again, TypeOK
  <2>3. LET h == [req[Current(c)] EXCEPT !.left = TRUE]
        IN  /\ h.pc = req[Current(c)].pc /\ h.op = req[Current(c)].op
            /\ h.seen = req[Current(c)].seen /\ h.stale = req[Current(c)].stale
        BY <2>1, Zenon DEF Request
  <2> QED  BY <1>2, <1>h, <2>2, <2>3, Zenon DEF Calm
<1>3. \A q \in Requests : Calm(q)
  <2>1. CASE Send(c)
    <3>1. \A q \in Requests : req'[q] = req[q] \/ req'[q] = Handler(OpOf(c))
          BY <2>1, Zenon DEF Send, TypeOK
    <3> QED  BY <1>h, <3>1, Zenon DEF Calm
  <2>2. CASE Receive(c)
    <3>1. CASE Again(c, NoRequest, "quota") \/ Again(c, NoRequest, "unknown")
          BY <1>2, <1>h, <2>2, <3>1, Zenon DEF Receive
    <3>2. CASE req' = [req EXCEPT ![Current(c)] = NoRequest]
      <4>1. \A q \in Requests : req'[q] = req[q] \/ req'[q] = NoRequest
            BY <3>2, Zenon DEF TypeOK
      <4> QED  BY <1>h, <4>1, Zenon DEF Calm
    <3> QED  BY <2>2, <3>1, <3>2, Zenon DEF Receive
  <2>3. CASE GiveUp(c)
    <3>1. CASE req[Current(c)].pc = "replied"
      <4>1. Again(c, NoRequest, "unknown") /\ client[c].attempt > 0
            BY <2>3, <3>1, Zenon DEF GiveUp
      <4> QED  BY <1>2, <1>h, <4>1, Zenon
    <3>2. CASE req[Current(c)].pc # "replied"
      <4>1. Again(c, [req[Current(c)] EXCEPT !.left = TRUE], "unknown") /\ client[c].attempt > 0
            BY <2>3, <3>2, Zenon DEF GiveUp
      <4> QED  BY <1>2, <4>1, Zenon
    <3> QED  BY <3>1, <3>2, Zenon
  <2> QED  BY <2>1, <2>2, <2>3, Zenon
<1>4. \A s : Count(s)' = Count(s)
      BY <1>1, Zenon DEF Count, With
<1>5. Count("NEW") \in Nat /\ Count("IN_PROGRESS") \in Nat
      BY CountFacts, BoundsAssumption
<1>6. /\ Count("NEW")' + Count("IN_PROGRESS")' <= Count("NEW") + Count("IN_PROGRESS")
      /\ Count("NEW")' <= Count("NEW")
      BY <1>4, <1>5
<1> QED  BY <1>1, <1>3, <1>6, NoAgentAdded, Zenon

\* The steps of a handler that change no agent keep the quota.  The two that
\* count establish what the later ones rely on.
LEMMA QuietQuota ==
    ASSUME TypeOK, QInv, NEW r \in Requests, NEW h, req' = [req EXCEPT ![r] = h],
           UNCHANGED <<agent, raced>>,
           \/ h.pc \notin Counted
           \/ h.pc = "count_in_progress" /\ h.seen = Count("NEW")
           \/ /\ h.pc = "count_queue" /\ req[r].pc = "count_in_progress"
              /\ h.op = req[r].op /\ h.stale = req[r].stale
              /\ req[r].seen + Count("IN_PROGRESS") + 1 <= ActiveCap
           \/ /\ h.pc = "write" /\ req[r].pc = "count_queue"
              /\ h.op = req[r].op /\ h.stale = req[r].stale
    PROVE  QInv'
<1>1. \A s : Count(s)' = Count(s)
      BY Zenon DEF Count, With
<1>2. /\ Count("NEW") \in Nat /\ Count("IN_PROGRESS") \in Nat /\ ActiveCap \in Nat
      /\ req[r].seen \in Nat
      BY CountFacts, BoundsAssumption, QuotaAssumption DEF TypeOK, Request
<1>3. req'[r] = h /\ \A q \in Requests \ {r} : req'[q] = req[q]
      BY Zenon DEF TypeOK
<1>4. CountsHold(r)'
  <2>1. CountsHold(r)
        BY Zenon DEF QInv
  <2> QED  BY <1>1, <1>2, <1>3, <2>1 DEF CountsHold, Counted
<1>5. \A q \in Requests \ {r} : Calm(q)
      BY <1>3, Zenon DEF Calm
<1>6. /\ Count("NEW")' + Count("IN_PROGRESS")' <= Count("NEW") + Count("IN_PROGRESS")
      /\ Count("NEW")' <= Count("NEW")
      BY <1>1, <1>2
<1> QED  BY <1>4, <1>5, <1>6, NoAgentAdded, Zenon

\* CountNew, CountInProgress, CountQueue, Cancelled, Fails, Find, Classify and Get
\* keep it.
LEMMA CountsKeepQuota ==
    ASSUME TypeOK, QInv, NEW r \in Requests,
           \/ CountNew(r) \/ CountInProgress(r) \/ CountQueue(r)
           \/ Cancelled(r) \/ Fails(r) \/ Find(r) \/ Classify(r) \/ Get(r)
    PROVE  QInv'
<1>1. UNCHANGED <<agent, raced>> /\ req[r] \in Request
      BY Zenon DEF CountNew, CountInProgress, CountQueue, Cancelled, Fails, Find, Classify, Get, TypeOK
<1>2. /\ \A reply, id : Reply(r, reply, id).pc \notin Counted
      /\ NoRequest.pc \notin Counted
      BY Zenon DEF Reply, NoRequest, Counted
<1>3. CASE CountNew(r)
  <2> DEFINE h == [req[r] EXCEPT !.seen = Count("NEW"), !.stale = FALSE, !.pc = "count_in_progress"]
  <2>1. req' = [req EXCEPT ![r] = h]
        BY <1>3, Zenon DEF CountNew
  <2>2. h.pc = "count_in_progress" /\ h.seen = Count("NEW")
        BY <1>1, Zenon DEF Request
  <2> HIDE DEF h
  <2> QED  BY <1>1, <2>1, <2>2, QuietQuota, Zenon
<1>4. CASE CountInProgress(r)
  <2>1. CASE req' = [req EXCEPT ![r] = Reply(r, "quota", 0)]
        BY <1>1, <1>2, <2>1, QuietQuota, ZenonT(40)
  <2>2. CASE req' = [req EXCEPT ![r] = [req[r] EXCEPT !.pc = "count_new", !.seen = 0, !.round = 2]]
    <3> DEFINE h == [req[r] EXCEPT !.pc = "count_new", !.seen = 0, !.round = 2]
    <3>1. h.pc \notin Counted /\ req' = [req EXCEPT ![r] = h]
          BY <1>1, <2>2, Zenon DEF Request, Counted
    <3> HIDE DEF h
    <3> QED  BY <1>1, <3>1, QuietQuota, Zenon
  <2>3. CASE /\ req' = [req EXCEPT ![r] = [req[r] EXCEPT !.pc = "count_queue", !.seen = 0]]
             /\ ~ExceedsCap(req[r].seen, Count("IN_PROGRESS"))
    <3> DEFINE h == [req[r] EXCEPT !.pc = "count_queue", !.seen = 0]
    <3>1. /\ h.pc = "count_queue" /\ req' = [req EXCEPT ![r] = h]
          /\ h.op = req[r].op /\ h.stale = req[r].stale
          BY <1>1, <2>3, Zenon DEF Request
    <3>2. req[r].seen \in Nat /\ Count("IN_PROGRESS") \in Nat /\ ActiveCap \in Nat
          BY <1>1, CountFacts, BoundsAssumption, QuotaAssumption DEF Request
    <3>3. req[r].seen + Count("IN_PROGRESS") + 1 <= ActiveCap
          BY <2>3, <3>2 DEF ExceedsCap
    <3>4. req[r].pc = "count_in_progress"
          BY <1>4, Zenon DEF CountInProgress, Running
    <3> HIDE DEF h
    <3> QED  BY <1>1, <3>1, <3>3, <3>4, QuietQuota, Zenon
  <2> QED  BY <1>4, <2>1, <2>2, <2>3, Zenon DEF CountInProgress
<1>5. CASE CountQueue(r)
  <2>1. CASE req' = [req EXCEPT ![r] = Reply(r, "quota", 0)]
        BY <1>1, <1>2, <2>1, QuietQuota, Zenon
  <2>2. CASE req' = [req EXCEPT ![r] = [req[r] EXCEPT !.pc = "write"]]
    <3> DEFINE h == [req[r] EXCEPT !.pc = "write"]
    <3>1. /\ h.pc = "write" /\ req' = [req EXCEPT ![r] = h]
          /\ h.op = req[r].op /\ h.stale = req[r].stale
          BY <1>1, <2>2, Zenon DEF Request
    <3>2. req[r].pc = "count_queue"
          BY <1>5, Zenon DEF CountQueue, Running
    <3> HIDE DEF h
    <3> QED  BY <1>1, <3>1, <3>2, QuietQuota, Zenon
  <2> QED  BY <1>5, <2>1, <2>2, ZenonT(40) DEF CountQueue
<1>6. CASE Cancelled(r)
      BY <1>1, <1>2, <1>6, QuietQuota, ZenonT(40) DEF Cancelled
<1>7. CASE Classify(r)
  <2>1. [req[r] EXCEPT !.pc = "get"].pc \notin Counted
        BY <1>1, Zenon DEF Request, Counted
  <2>2. \/ req' = [req EXCEPT ![r] = [req[r] EXCEPT !.pc = "get"]]
        \/ req' = [req EXCEPT ![r] = Reply(r, "refused", 0)]
        BY <1>7, Zenon DEF Classify
  <2> QED  BY <1>1, <1>2, <2>1, <2>2, QuietQuota, Zenon
<1>8. CASE Get(r) \/ Fails(r)
      BY <1>1, <1>2, <1>8, QuietQuota, Zenon DEF Get, Fails
<1>9. CASE Find(r)
  <2>1. /\ [req[r] EXCEPT !.pc = "complete"].pc \notin Counted
        /\ [req[r] EXCEPT !.pc = "count_new"].pc \notin Counted
        BY <1>1, Zenon DEF Request, Counted
  <2>2. \/ req' = [req EXCEPT ![r] = [req[r] EXCEPT !.pc = "complete"]]
        \/ req' = [req EXCEPT ![r] = [req[r] EXCEPT !.pc = "count_new"]]
        BY <1>9, Zenon DEF Find
  <2> QED  BY <1>1, <2>1, <2>2, QuietQuota, Zenon
<1> QED  BY <1>3, <1>4, <1>5, <1>6, <1>7, <1>8, <1>9, ZenonT(40)

\* Take, Complete, CompleteAndOut and Reap keep the quota: none of them adds an
\* active agent, and those that add a NEW one mark the counts it spoils.
LEMMA MovesKeepQuota ==
    ASSUME OInv, QInv,
           \/ \E r \in Requests : Take(r) \/ Complete(r) \/ CompleteAndOut(r)
           \/ \E a \in Agents : Reap(a)
    PROVE  QInv'
<1> DEFINE n == Count("NEW")
           m == Count("IN_PROGRESS")
<1>1. TypeOK /\ n \in Nat /\ m \in Nat
      BY CountFacts, BoundsAssumption DEF OInv
<1>2. \A r : \A reply, id : Reply(r, reply, id).pc \notin Counted
      BY Zenon DEF Reply, NoRequest, Counted
<1>3. ASSUME NEW r \in Requests, Take(r) PROVE QInv'
  <2>1. CASE req' = [req EXCEPT ![r] = Reply(r, "empty", 0)] /\ UNCHANGED agent
        BY <1>1, <1>2, <1>3, <2>1, QuietQuota, ZenonT(40) DEF Take
  <2>2. ASSUME NEW a \in With("NEW"), req' = [req EXCEPT ![r] = Reply(r, "ok", a)],
               agent' = [agent EXCEPT ![a] = [status |-> "IN_PROGRESS", token |-> r,
                             doneBy |-> agent[a].doneBy, maker |-> agent[a].maker]]
        PROVE  QInv'
    <3>1. a \in Agents /\ agent[a].status = "NEW" /\ agent'[a].status = "IN_PROGRESS"
          BY <1>1, <2>2, Zenon DEF With, TypeOK
    <3>2. \A b \in Agents \ {a} : agent'[b] = agent[b]
          BY <1>1, <2>2, Zenon DEF TypeOK
    <3>3. n' = n - 1 /\ m' = m + 1
          BY <3>1, <3>2, CountStep, Zenon
    <3>4. \A q \in Requests : Calm(q)
          BY <1>1, <1>2, <2>2, Zenon DEF Calm, TypeOK
    <3>5. raced' = raced
          BY <1>3, Zenon DEF Take
    <3>6. n' + m' <= n + m /\ n' <= n
          BY <1>1, <3>3
    <3> QED  BY <1>1, <3>4, <3>5, <3>6, NoAgentAdded, Zenon
  <2> QED  BY <1>3, <2>1, <2>2, Zenon DEF Take
<1>4. ASSUME NEW r \in Requests, Complete(r) PROVE QInv'
  <2>1. PICK h : req' = [req EXCEPT ![r] = h] /\ h.pc \notin Counted
    <3>1. /\ [req[r] EXCEPT !.pc = "get"].pc \notin Counted
          /\ [req[r] EXCEPT !.pc = "classify"].pc \notin Counted
          BY <1>1, ZenonT(40) DEF TypeOK, Request, Counted
    <3>2. \/ req' = [req EXCEPT ![r] = [req[r] EXCEPT !.pc = "get"]]
          \/ req' = [req EXCEPT ![r] = [req[r] EXCEPT !.pc = "classify"]]
          \/ req' = [req EXCEPT ![r] = Reply(r, "ok", client[r[1]].id)]
          \/ req' = [req EXCEPT ![r] = Reply(r, "refused", 0)]
          BY <1>4, Zenon DEF Complete
    <3> QED  BY <1>2, <3>1, <3>2, ZenonT(40)
  <2>2. raced' = raced
        BY <1>4, Zenon DEF Complete
  <2>3. CASE UNCHANGED agent
        BY <1>1, <2>1, <2>2, <2>3, QuietQuota, ZenonT(40)
  <2>4. CASE Holds(r) /\ agent' = Completed(r)
    <3> DEFINE i == client[r[1]].id
    <3>0. r[2] = "finish" /\ req[r].pc \notin Idle
      <4>1. req[r].pc = "complete"
            BY <1>4, Zenon DEF Complete, Running
      <4>2. req[r].pc \in PlacesOf(req[r].op) /\ (r[2] # "finish" => req[r].op = r[2])
            BY <4>1, Zenon DEF OInv, HandlersSound, HandlerSound, Idle
      <4>3. r[2] \in {"create", "take", "finish"}
            BY RequestFacts, Zenon
      <4> QED  BY <4>1, <4>2, <4>3, Zenon DEF PlacesOf, Publishing, Idle
    <3>1. i \in Agents
          BY <3>0, NamedFacts, Zenon
    <3>2. agent[i].status = "IN_PROGRESS" /\ agent'[i].status = "COMPLETED"
          BY <1>1, <2>4, <3>1, Zenon DEF Holds, Named, Completed, TypeOK
    <3>3. \A b \in Agents \ {i} : agent'[b] = agent[b]
          BY <1>1, <2>4, <3>1, Zenon DEF Completed, TypeOK
    <3>4. n' = n /\ m' = m - 1
          BY <3>1, <3>2, <3>3, CountStep, Zenon
    <3>5. \A q \in Requests : Calm(q)
          BY <1>1, <2>1, Zenon DEF Calm, TypeOK
    <3>6. n' + m' <= n + m /\ n' <= n
          BY <1>1, <3>4
    <3> QED  BY <1>1, <2>2, <3>5, <3>6, NoAgentAdded, ZenonT(40)
  <2> QED  BY <1>4, <2>3, <2>4, ZenonT(40) DEF Complete
<1>5. ASSUME NEW r \in Requests, CompleteAndOut(r) PROVE QInv'
  <2> DEFINE i == client[r[1]].id
  <2>1. raced' = raced /\ req[r].pc = "write" /\ req[r].op = "complete_and_out"
        BY <1>5, Zenon DEF CompleteAndOut, Running
  <2>2. r[2] = "finish" /\ req[r].pc \notin Idle
        BY <2>1, RequestFacts, Zenon DEF OInv, HandlersSound, HandlerSound, Idle
  <2>3. CASE ~Holds(r)
        BY <1>1, <1>2, <1>5, <2>1, <2>3, QuietQuota, Zenon DEF CompleteAndOut
  <2>4. CASE Holds(r)
    <3>1. /\ With("NONE") # {} /\ agent' = [Completed(r) EXCEPT ![Fresh] = NewAgent(r)]
          /\ req' = Stale([req EXCEPT ![r] = Reply(r, "ok", i)], Between)
          BY <1>5, <2>4, ZenonT(40) DEF CompleteAndOut
    <3>2. i \in Agents /\ agent[i].status = "IN_PROGRESS" /\ i \in 0..MaxAgents
          BY <2>2, <2>4, NamedFacts, BoundsAssumption DEF Holds, Named, Agents
    <3>3. Fresh \in Agents /\ agent[Fresh].status = "NONE" /\ Fresh # i
          BY <3>1, <3>2, FreshFacts, Zenon
    <3>4. /\ agent'[i].status = "COMPLETED" /\ agent'[Fresh].status = "NEW"
          /\ \A b \in Agents \ {i, Fresh} : agent'[b] = agent[b]
          BY <1>1, <3>1, <3>2, <3>3, ZenonT(40) DEF Completed, NewAgent, TypeOK
    <3>5. n' = n + 1
      <4>1. \A b \in Agents \ {Fresh} : agent'[b].status = "NEW" <=> agent[b].status = "NEW"
            BY <3>2, <3>3, <3>4, Zenon
      <4> QED  BY <3>3, <3>4, <4>1, CountStep, Zenon
    <3>6. m' = m - 1
      <4>1. \A b \in Agents \ {i} : agent'[b].status = "IN_PROGRESS" <=> agent[b].status = "IN_PROGRESS"
            BY <3>2, <3>3, <3>4, Zenon
      <4> QED  BY <3>2, <3>4, <4>1, CountStep, Zenon
    <3> DEFINE mid == [req EXCEPT ![r] = Reply(r, "ok", i)]
    <3>7. mid \in [Requests -> Request]
      <4>1. Reply(r, "ok", i) \in Request
            BY <3>2, ReplyFacts
      <4> QED  BY <1>1, <4>1, Zenon DEF TypeOK
    <3>m. \A q \in Requests : mid[q] = req[q] \/ mid[q].pc \notin Counted
          BY <1>1, <1>2, Zenon DEF TypeOK
    <3>8. req' = Stale(mid, Between)
          BY <3>1, Zenon
    <3> HIDE DEF mid
    <3>9. \A q \in Requests :
             Calm(q) /\ (req'[q].op = "create" /\ req'[q].pc = "count_in_progress" => req'[q].stale)
      <4>1. \A q \in Requests :
               /\ req'[q].pc = mid[q].pc /\ req'[q].op = mid[q].op /\ req'[q].seen = mid[q].seen
               /\ mid[q].stale => req'[q].stale
               /\ mid[q].pc = "count_in_progress" /\ mid[q].op = "create" => req'[q].stale
            BY <3>7, <3>8, StaleFacts DEF Between
      <4> QED  BY <3>m, <4>1, ZenonT(40) DEF Calm
    <3>10. n' + m' <= n + m
          BY <1>1, <3>5, <3>6
    <3> QED  BY <1>1, <2>1, <3>9, <3>10, NoAgentAdded, Zenon
  <2> QED  BY <2>3, <2>4, Zenon
<1>6. ASSUME NEW a \in Agents, Reap(a) PROVE QInv'
  <2>1. /\ agent[a].status = "IN_PROGRESS" /\ agent'[a].status = "NEW" /\ raced' = raced
        /\ \A b \in Agents \ {a} : agent'[b] = agent[b]
        /\ req' = Stale(req, Between)
        BY <1>1, <1>6, Zenon DEF Reap, TypeOK
  <2>2. n' = n + 1 /\ m' = m - 1
        BY <2>1, CountStep, Zenon
  <2>3. \A q \in Requests :
           Calm(q) /\ (req'[q].op = "create" /\ req'[q].pc = "count_in_progress" => req'[q].stale)
    <3>1. \A q \in Requests :
             /\ req'[q].pc = req[q].pc /\ req'[q].op = req[q].op /\ req'[q].seen = req[q].seen
             /\ req[q].stale => req'[q].stale
             /\ req[q].pc = "count_in_progress" /\ req[q].op = "create" => req'[q].stale
      <4>1. req' = Stale(req, Between) /\ req \in [Requests -> Request]
            BY <1>1, <2>1, Zenon DEF TypeOK
      <4>2. "count_in_progress" \in Between
            BY Zenon DEF Between
      <4> QED  BY <4>1, <4>2, StaleFacts
    <3> QED  BY <3>1, Zenon DEF Calm
  <2>4. n' + m' <= n + m
        BY <1>1, <2>2
  <2> QED  BY <1>1, <2>1, <2>3, <2>4, NoAgentAdded, Zenon
<1> QED  BY <1>3, <1>4, <1>5, <1>6, Zenon

\* Out keeps the quota: a create that goes by counts that still hold fits, one
\* that does not is on record, and every other create that has counted is marked.
LEMMA OutKeepsQuota ==
    ASSUME OInv, QInv, NEW r \in Requests, Out(r)
    PROVE  QInv'
<1> DEFINE n == Count("NEW")
           m == Count("IN_PROGRESS")
           mid == [req EXCEPT ![r] = Reply(r, "ok", Fresh)]
<1>1. /\ req[r].pc = "write" /\ req[r].op = "create" /\ With("NONE") # {}
      /\ agent' = [agent EXCEPT ![Fresh] = NewAgent(r)] /\ req' = Stale(mid, Counted)
      /\ raced' = (raced \/ req[r].stale) /\ TypeOK
      BY Zenon DEF Out, Running, OInv
<1>2. Fresh \in Agents /\ agent[Fresh].status = "NONE" /\ Fresh \in 0..MaxAgents
      BY <1>1, FreshFacts, BoundsAssumption DEF Agents
<1>3. agent'[Fresh].status = "NEW" /\ \A b \in Agents \ {Fresh} : agent'[b] = agent[b]
      BY <1>1, <1>2, Zenon DEF NewAgent, TypeOK
<1>4. n' = n + 1 /\ m' = m
      BY <1>2, <1>3, CountStep, Zenon
<1>5. n \in Nat /\ m \in Nat /\ ActiveCap \in Nat
      BY CountFacts, BoundsAssumption, QuotaAssumption
<1>6. QuotaHoldsUnlessRaced'
  <2>1. CASE req[r].stale
        BY <1>1, <2>1, Zenon DEF QuotaHoldsUnlessRaced
  <2>2. CASE ~req[r].stale
    <3>1. CountsHold(r)
          BY Zenon DEF QInv
    <3>2. n + m + 1 <= ActiveCap
          BY <1>1, <2>2, <3>1, Zenon DEF CountsHold
    <3> QED  BY <1>4, <1>5, <3>2 DEF QuotaHoldsUnlessRaced
  <2> QED  BY <2>1, <2>2, Zenon
<1>7. ASSUME NEW q \in Requests PROVE CountsHold(q)'
  <2>1. mid \in [Requests -> Request]
    <3>1. Reply(r, "ok", Fresh) \in Request
          BY <1>2, ReplyFacts
    <3> QED  BY <1>1, <3>1, Zenon DEF TypeOK
  <2> HIDE DEF mid
  <2>2. req'[q].op = "create" /\ req'[q].pc \in Counted => req'[q].stale
        BY <1>1, <2>1, StaleFacts
  <2> QED  BY <2>2, Zenon DEF CountsHold, Counted
<1> QED  BY <1>6, <1>7, Zenon DEF QInv

\* The namespace starts within the quota.
LEMMA QInvInit == Init => QInv
<1>1. SUFFICES ASSUME Init PROVE QInv
      BY Zenon
<1>2. With("NEW") \subseteq 1..Seeds /\ With("IN_PROGRESS") = {}
      BY <1>1 DEF Init, With, NewAgent, NoAgent, Agents
<1>3. Seeds \in Nat /\ ActiveCap \in Nat /\ Seeds <= ActiveCap
      BY QuotaAssumption
<1>4. IsFiniteSet(1..Seeds) /\ Cardinality(1..Seeds) = Seeds
      BY <1>3, FS_Interval
<1>5. Count("NEW") <= Seeds /\ Count("IN_PROGRESS") = 0
  <2>1. Cardinality(With("NEW")) <= Cardinality(1..Seeds)
        BY <1>2, <1>4, FS_Subset, Zenon
  <2>2. Cardinality(With("IN_PROGRESS")) = 0
        BY <1>2, FS_EmptySet, ZenonT(40)
  <2> QED  BY <1>4, <2>1, <2>2, Zenon DEF Count
<1>6. Count("NEW") \in Nat
      BY CountFacts, BoundsAssumption
<1>7. QuotaHoldsUnlessRaced
      BY <1>3, <1>5, <1>6 DEF QuotaHoldsUnlessRaced
<1>8. \A r \in Requests : CountsHold(r)
      BY <1>1, Zenon DEF Init, NoRequest, CountsHold
<1> QED  BY <1>7, <1>8, Zenon DEF QInv

\* The active agents of a namespace exceed MaxActiveAgents only where a create
\* was let through on counts that had become too low, whatever the number of
\* clients and whatever the cap (allowNamespaceAgentCreation, handlers.go).
THEOREM QuotaHolds == Spec => []QuotaHoldsUnlessRaced
<1>1. OInv /\ QInv /\ [Next]_vars => QInv'
  <2>1. SUFFICES ASSUME OInv, QInv, [Next]_vars PROVE QInv'
        BY Zenon
  <2>2. TypeOK /\ ClientsSound
        BY <2>1, Zenon DEF OInv
  <2>3. ASSUME NEW r \in Requests, Handle(r) \/ Fails(r) PROVE QInv'
        BY <2>1, <2>2, <2>3, CountsKeepQuota, OutKeepsQuota, MovesKeepQuota, ZenonT(40) DEF Handle
  <2>4. ASSUME NEW c \in Clients, Send(c) \/ Receive(c) \/ GiveUp(c) PROVE QInv'
        BY <2>1, <2>2, <2>4, ClientsKeepQuota, Zenon
  <2>5. ASSUME NEW a \in Agents, Reap(a) PROVE QInv'
        BY <2>1, <2>5, MovesKeepQuota, Zenon
  <2>6. CASE UNCHANGED vars
        BY <2>1, <2>6, Zenon DEF vars, QInv, QuotaHoldsUnlessRaced, CountsHold, Count, With
  <2> QED  BY <2>1, <2>3, <2>4, <2>5, <2>6, ZenonT(40) DEF Next
<1>2. QInv => QuotaHoldsUnlessRaced
      BY DEF QInv
<1> QED  BY <1>1, <1>2, QInvInit, OutcomesInductive, PTL DEF Spec

=============================================================================
