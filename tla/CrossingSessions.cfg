CONSTANTS
    None = None
    w1 = w1
    w2 = w2
    p1 = p1
    p2 = p2
    BRL = BRL
    rd = rd
    MaxBalance = 2
    Wallets = {w1, w2}
    Players = {p1, p2}
    Currencies = {BRL}
    Rounds = {rd}
    Keys <- CrossingKeys
    Externals <- CrossingExternals
    Requests <- CrossingRequests
    Failing <- CrossingFailing
    Workers = 1
    InitialBalances = {2}
    Task <- CrossingTask
    Sessions <- CrossingSessions
SPECIFICATION SessionsSpec
INVARIANTS
    AnswersAreStored
    OneNewAnswerPerKey
PROPERTIES
    ImplementsTransactions
CHECK_DEADLOCK FALSE
