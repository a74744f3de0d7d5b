CONSTANTS
    None = None
    w1 = w1
    w2 = w2
    p1 = p1
    p2 = p2
    BRL = BRL
    rd = rd
    MaxBalance = 4
    Wallets = {w1}
    Players = {p1}
    Currencies = {BRL}
    Rounds = {rd}
    Keys <- RacingKeys
    Externals <- RacingExternals
    Requests <- RacingRequests
    Failing = {}
    Workers = 2
    InitialBalances = {2}
    Task <- RacingTask
    Sessions <- RacingSessions
SPECIFICATION SessionsSpec
INVARIANTS
    SessionsTypeOK
    NoConcurrentWriters
PROPERTIES
    ImplementsTransactions
    SessionsEnd
CHECK_DEADLOCK FALSE
