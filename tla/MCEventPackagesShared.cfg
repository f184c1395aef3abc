SPECIFICATION Spec
CONSTANTS
    k1 = k1
    k2 = k2
    prog1 = prog1
    tmi1 = tmi1
    adv1 = adv1
    gs1 = gs1
    prog2 = prog2
    KJFK = KJFK
    p1 = p1
    p2 = p2
    Packages = {k1, k2}
    Items = {prog1, prog2}
    Airports = {KJFK}
    PackageOf <- MCPackageOf
    KindOf <- MCKindOf
    AirportOf <- MCAirportOf
    CreatedAt <- MCCreatedAt
    Announced = {}
    OpenEnded = {}
    Armable = {k1}
    EditedLate = {}
    Procs = {p1, p2}
    NoItem = NoItem
    Staff = Staff
    Environments <- TakingTurns
INVARIANTS ProgramsStand
CHECK_DEADLOCK FALSE
