SPECIFICATION EntrySpec
CONSTANTS
    l1 = l1
    l2 = l2
    c1 = c1
    c2 = c2
    p1 = p1
    p2 = p2
    Lines = {l1, l2}
    Stops = {1}
    Channels = {c1, c2}
    Workers = {p1, p2}
    Retention = 1
    MaxClock = 3
    PostBound = 4
    NoTime = NoTime
    Keep = Keep
    Environments <- MCEnvironments
INVARIANTS
    CancelIsLast
    LogFollows
    CancelCorrected
    ReplayFaithful
    AdvisoryRetired
SYMMETRY Alike
CHECK_DEADLOCK FALSE
