SPECIFICATION FairSpec
CONSTANTS
    k1 = k1
    k2 = k2
    prog1 = prog1
    tmi1 = tmi1
    adv1 = adv1
    gs1 = gs1
    prog2 = prog2
    KJFK = KJFK
    p1 = p1
    p2 = p2
    Packages = {k1}
    Items = {prog1, tmi1, adv1}
    Airports = {KJFK}
    PackageOf <- MCPackageOf
    KindOf <- MCKindOf
    AirportOf <- MCAirportOf
    CreatedAt <- MCCreatedAt
    Announced = {tmi1, adv1}
    OpenEnded = {}
    Armable = {k1}
    EditedLate = {k1}
    Procs = {p1, p2}
    NoItem = NoItem
    Staff = Staff
    Environments <- MCEnvironments
INVARIANTS
    IssuedOnce
    AllOrNothing
    Withdrawn
    CorrectedOnce
PROPERTIES
    ArmedGoesLive
    EndedArchived
CHECK_DEADLOCK FALSE
