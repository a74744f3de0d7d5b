CONSTANTS
    None = None
    w1 = w1
    p1 = p1
    BRL = BRL
    rd = rd
    MaxBalance = 4
    Wallets = {w1}
    Players = {p1}
    Currencies = {BRL}
    Rounds = {rd}
    Keys <- OneRoundKeys
    Externals <- OneRoundExternals
    Requests <- OneRound
    Failing = {}
    InitialBalances = {1}
    Workers = 1
    Disorder = 2
    Limits = {1, 2}
SPECIFICATION ReadersSpec
INVARIANTS
    ReadersTypeOK
    ReportTellsTheLedger
    PagesCoverTheLedger
CHECK_DEADLOCK FALSE
