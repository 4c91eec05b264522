\* Two nodes, two shards, two agents and one fault or change of the map.  The
\* model stops when all its agents are on a shard that the new map leaves out.
CONSTANTS
    n1 = n1
    n2 = n2
    s1 = s1
    s2 = s2
    q1 = q1
    q2 = q2
    Nodes = {n1, n2}
    Shards = {s1, s2}
    Queues = {q1, q2}
    Hash <- MCHash
    Owners <- MCOwners
    FirstMap <- MCFirstMap
    AnyNode = AnyNode
    Calls = {c1}
    NoShard = NoShard
    MaxAgents = 2
    MaxTokens = 2
    MaxFaults = 1
    MaxMoved = 1
CHECK_DEADLOCK FALSE
SPECIFICATION Spec
INVARIANT AgentsAreWhereTakesLook
PROPERTIES
    ImplementsContract
    WorkGoesOn
