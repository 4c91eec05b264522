CONSTANTS
    Agents = {1, 2}
    Workers = {w1, w2}
    NoOwner = NoOwner
    Tokens = {t1, t2}
    NoToken = NoToken
    Queues = {q1, q2}
    Kinds = {k1, k2}
    AnyKind = AnyKind
    Updaters = {u1}
    MaxVersion = 3
SPECIFICATION Spec
SYMMETRY Symmetry
INVARIANTS IndexesMatchAgents ConfirmedUnlessRaced LogIsTheHistory
PROPERTIES ImplementsContract
CHECK_DEADLOCK FALSE
