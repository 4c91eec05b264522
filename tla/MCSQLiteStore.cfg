SPECIFICATION FairSpec
CONSTANTS
    Agents = {a1, a2}
    Mortal = {a1}
    Workers = {w1}
    Tokens = {t1, t2}
    Anonymous = Anonymous
    Reaper = Reaper
    NoToken = NoToken
    NoCall = NoCall
    NoTx = NoTx
    MaxVersion = 2
INVARIANTS
    ConfirmedIsTheCompletion
    AnnouncedIsLogged
    LogMissesOnlyReaps
PROPERTIES
    ImplementsContract
    CallsReturn
CHECK_DEADLOCK FALSE
