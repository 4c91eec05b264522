\* A server that migrates, one that validates and an operator's command.
CONSTANTS
    Migrators = {m1}
    Validators = {s1}
    Operators = {o1}
    StartVersions <- MCStartVersions
    Targets <- MCTargets
    MaxCrashes = 1
SPECIFICATION Spec
INVARIANTS
    RecordIsAPrefix
    RecordedIsApplied
PROPERTY ServersComeUp
CHECK_DEADLOCK FALSE
