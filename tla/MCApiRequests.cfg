\* One producer and one worker, two attempts of each call, a namespace that
\* has room for one agent more.
CONSTANTS
    Producers = {p1}
    Workers = {w1}
    MaxAttempts = 2
    MaxAgents = 4
    Seeds = 1
    Deployments <- MCDeployments
    ActiveCap = 2
    QueueCap = 2
    MaxLosses = 2
SPECIFICATION Spec
INVARIANTS
    QuotaHoldsUnlessRaced
    OutcomesAreTrue
PROPERTY CallsEnd
CHECK_DEADLOCK FALSE
