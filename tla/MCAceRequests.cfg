SPECIFICATION Spec
CONSTANTS
    u1 = u1
    u2 = u2
    u3 = u3
    p1 = p1
    p2 = p2
    Users = {u1, u2, u3}
    Procs = {p1, p2}
    SlotCount = 2
    NotifyBound = 3
    MaxAttempts = 1
    Environments <- AllNoneWeb
    Nobody = Nobody
SYMMETRY Symmetry
INVARIANTS
    SlotsRespected
    EmbedShowsClaims
    BoardFresh
PROPERTIES
    ClaimsOnlyWhileOpen
CHECK_DEADLOCK FALSE
