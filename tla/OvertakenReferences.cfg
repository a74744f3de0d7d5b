CONSTANTS
    None = None
    w1 = w1
    p1 = p1
    BRL = BRL
    rd = rd
    i1 = i1
    i2 = i2
    MaxBalance = 2
    Wallets = {w1}
    Players = {p1}
    Currencies = {BRL}
    Rounds = {rd}
    Keys <- OvertakingKeys
    Externals <- OvertakingExternals
    Requests <- Overtaking
    Failing <- OvertakingFailing
    InitialBalances = {1}
    Instances = {i1, i2}
    Stopping = {i1}
    Workers = 2
    MaxAttempts = 2
    BatchLimit = 2
SPECIFICATION WorkerSpec
INVARIANTS
    WorkerTypeOK
    OneReprocessingPerRow
    NoEarlyRejection
    EffectOnce
PROPERTIES
    PendingIsDecided
CHECK_DEADLOCK FALSE
