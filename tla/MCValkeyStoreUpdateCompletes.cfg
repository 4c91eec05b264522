CONSTANTS
    Agents = {1}
    Workers = {w1, w2}
    NoOwner = NoOwner
    Tokens = {t1, t2}
    NoToken = NoToken
    Queues = {q1}
    Kinds = {k1}
    AnyKind = AnyKind
    Updaters = {u1}
    MaxVersion = 3
SPECIFICATION Spec
SYMMETRY Symmetry
INVARIANTS ConfirmedIsTheCompletion
CHECK_DEADLOCK FALSE
