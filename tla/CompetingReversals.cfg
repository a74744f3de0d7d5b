CONSTANTS
    None = None
    w1 = w1
    w2 = w2
    p1 = p1
    p2 = p2
    BRL = BRL
    USD = USD
    rd = rd
    MaxBalance = 4
    Wallets = {w1}
    Players = {p1}
    Currencies = {BRL}
    Rounds = {rd}
    Keys <- CompetingKeys
    Externals <- CompetingExternals
    Requests <- Competing
    Failing <- CompetingFailing
    Workers = 2
    InitialBalances = {2}
SPECIFICATION Spec
INVARIANTS
    LedgerExplainsBalance
    VersionCountsEntries
    EffectOnce
    ReversedOncePerKind
    ReversalMatchesReference
    EventsMirrorLedger
    OutcomesTellStatus
PROPERTIES
    HistoryIsImmutable
CHECK_DEADLOCK FALSE
