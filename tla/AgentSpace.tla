----------------------------- MODULE AgentSpace -----------------------------
(***************************************************************************)
(* The contract of the AgentSpace interface (pkg/agent/types.go): what a   *)
(* backend promises about the lifecycle of agents, whatever it stores and  *)
(* however it stores it.  An agent is published once, claimed under a      *)
(* lease token that was never used before, given back or finished under    *)
(* the token of the claim that is current, and stays COMPLETED.  The       *)
(* agents a finished claim produces appear in the same step as the finish. *)
(*                                                                         *)
(* The backend modules (PostgresStore, ValkeyStore, ...) are shown to      *)
(* implement Spec under a refinement mapping from their rows.              *)
(***************************************************************************)
CONSTANTS
    Agents,     \* agent identifiers that may ever be published
    Tokens,     \* lease tokens that may ever be issued (UUIDs in the code)
    NoToken     \* the empty lease token

VARIABLES
    status,     \* status[a]: where agent a is in its life, NONE before it is published
    lease,      \* lease[a]: the token of a's current claim
    issued,     \* the tokens handed out so far
    finishedBy  \* finishedBy[a]: the token whose claim finished a

vars == <<status, lease, issued, finishedBy>>

Init ==
    /\ status = [a \in Agents |-> "NONE"]
    /\ lease = [a \in Agents |-> NoToken]
    /\ issued = {}
    /\ finishedBy = [a \in Agents |-> NoToken]

-----------------------------------------------------------------------------
\* Out: new agents become visible and free.
Publish(S) ==
    /\ \A a \in S : status[a] = "NONE"
    /\ status' = [a \in Agents |-> IF a \in S THEN "NEW" ELSE status[a]]
    /\ UNCHANGED <<lease, issued, finishedBy>>

\* Take, In, BatchTake: each agent of S is claimed under a token of its own,
\* none of which any claim had before.
Claim(S, tok) ==
    /\ \A a \in S : status[a] = "NEW" /\ tok[a] \notin issued
    /\ \A a, b \in S : tok[a] = tok[b] => a = b
    /\ status' = [a \in Agents |-> IF a \in S THEN "IN_PROGRESS" ELSE status[a]]
    /\ lease' = [a \in Agents |-> IF a \in S THEN tok[a] ELSE lease[a]]
    /\ issued' = issued \cup {tok[a] : a \in S}
    /\ UNCHANGED finishedBy

\* Release and the lease reaper: claimed agents become free again.
GiveBack(S) ==
    /\ \A a \in S : status[a] = "IN_PROGRESS"
    /\ status' = [a \in Agents |-> IF a \in S THEN "NEW" ELSE status[a]]
    /\ lease' = [a \in Agents |-> IF a \in S THEN NoToken ELSE lease[a]]
    /\ UNCHANGED <<issued, finishedBy>>

\* Complete and CompleteAndOut: the claim of a ends in COMPLETED, and the agents
\* it produces are published in the same step.
Finish(a, S) ==
    /\ status[a] = "IN_PROGRESS"
    /\ \A b \in S : status[b] = "NONE"
    /\ status' = [b \in Agents |-> IF b = a THEN "COMPLETED"
                                  ELSE IF b \in S THEN "NEW" ELSE status[b]]
    /\ lease' = [lease EXCEPT ![a] = NoToken]
    /\ finishedBy' = [finishedBy EXCEPT ![a] = lease[a]]
    /\ UNCHANGED issued

Next ==
    \/ \E S \in SUBSET Agents : Publish(S) \/ GiveBack(S)
    \/ \E S \in SUBSET Agents : \E tok \in [S -> Tokens] : Claim(S, tok)
    \/ \E a \in Agents : \E S \in SUBSET Agents : Finish(a, S)

Spec == Init /\ [][Next]_vars
=============================================================================
