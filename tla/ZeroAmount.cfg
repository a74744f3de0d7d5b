CONSTANTS
    None = None
    w1 = w1
    w2 = w2
    p1 = p1
    p2 = p2
    BRL = BRL
    USD = USD
    rd = rd
    MaxBalance = 3
    Wallets = {w1, w2}
    Players = {p1, p2}
    Currencies = {BRL, USD}
    Rounds = {rd}
    Keys <- ContextsKeys
    Externals <- ContextsExternals
    Requests <- Contexts
    Failing <- ContextsFailing
    Workers = 1
    InitialBalances = {1}
SPECIFICATION Spec
INVARIANTS
    EntriesMoveMoney
CHECK_DEADLOCK FALSE
