SPECIFICATION Spec
CONSTANTS
    c1 = c1
    c2 = c2
    c3 = c3
    Callsigns = {c1, c2, c3}
    Centers <- MCCenters
    Demands <- MCDemands
    LaterDemands <- MCLaterDemands
    Programs <- MCPrograms
    Hour = 60
    Minute = 1
    BinLength = 15
    NoTime = NoTime
    RunBound = 2
SYMMETRY Symmetry
INVARIANTS
    Metered
    EarliestSlots
    FrozenSpaced
CHECK_DEADLOCK FALSE
