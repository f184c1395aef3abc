SPECIFICATION FairSpec
CONSTANTS
    j1 = j1
    j2 = j2
    w1 = w1
    w2 = w2
    discord = discord
    Jobs = {j1, j2}
    Workers = {w1, w2}
    Consumers <- OneConsumer
    ConsumerOf <- AllDiscord
    KeyOf <- BothDiscord
    SendsAttempt = {w1, w2}
    MaxAttempts = 2
    LeaseTimeout = 1
    BackoffUnit = 1
    BackoffCap = 1
    LeaseLimit = 2
    DueHorizon = 0
    Environments <- FaultyOrNot
    NoLease = NoLease
INVARIANTS
    NoSilentLoss
    ResultOfLastLease
    AttemptBudget
PROPERTIES
    ImplementsPromise
    EventuallySettled
