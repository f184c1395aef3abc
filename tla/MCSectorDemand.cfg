SPECIFICATION FairSpec
CONSTANTS
    r1 = r1
    r2 = r2
    s1 = s1
    s2 = s2
    l1 = l1
    l2 = l2
    Sectors = {1, 2, 3, 4}
    Batches <- MCBatches
    Savers = {s1, s2}
    Arranged <- MCArranged
    OwnRow = OwnRow
    Environments <- MCEnvironments
    Requests = {r1, r2}
    Setters = {l1, l2}
    OtherReplica = {s2, l2}
    Limits = {10, 12}
    Default = 10
    PublishBound = 2
    ReloadBound = 2
    None = None
INVARIANTS
    Flat
    AnswersAsRead
    OncePerPublish
PROPERTIES
    BatchLands
    EventuallyCurrent
    EventuallyAnswered
CHECK_DEADLOCK FALSE
