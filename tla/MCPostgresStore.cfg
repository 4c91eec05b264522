SPECIFICATION Spec
CONSTANTS
    Agents = {a1, a2}
    Workers = {w1, w2}
    Tokens = {t1, t2}
    Anonymous = Anonymous
    NoToken = NoToken
    MaxVersion = 3
    DeferEvents = FALSE
SYMMETRY Symmetry
INVARIANTS
    TypeOK
    TokenNamesOneClaim
    ConfirmedIsTheCompletion
    OutputsHaveACompletion
    OneEventPerVersion
    LogMissesOnlyClaims
PROPERTIES
    TokensAreNotRevived
    ImplementsContract
CHECK_DEADLOCK FALSE
