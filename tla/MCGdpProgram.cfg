SPECIFICATION Spec
CONSTANTS
    Procs = {p1, p2}
    VersionBound = 3
    RunBound = 3
    Environments <- Several
INVARIANTS
    AdvisoryStands
    OneLiveAdvisory
    TurnsKeepParameters
PROPERTIES
    NeverRevived
    EndedRetired
CHECK_DEADLOCK FALSE
