SPECIFICATION FairSpec
CONSTANTS
    Agents = {a1}
    Workers = {w1, w2}
    Tokens = {t1, t2}
    Anonymous = Anonymous
    NoToken = NoToken
    MaxVersion = 2
    DeferEvents = TRUE
INVARIANTS
    OneEventPerVersion
PROPERTIES
    LapsedLeaseEnds
CHECK_DEADLOCK FALSE
