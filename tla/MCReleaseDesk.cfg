SPECIFICATION Spec
CONSTANTS
    p1 = p1
    m1 = m1
    Flights = {1, 2, 3}
    Sep = 2
    Margin = 1
    NoRelease = NoRelease
    People = {p1}
    Tools = {m1}
    Pictures <- MCPictures
    SetTimes = {1}
    Orders <- MCOrders
    WriteBound = 4
    Environments <- MCEnvironments
INVARIANTS
    ReleasesApart
    GapHolds
    NoSilentOverwrite
PROPERTIES
    ToolsKeepOff
CHECK_DEADLOCK FALSE
