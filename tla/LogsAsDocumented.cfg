SPECIFICATION Spec
CHECK_DEADLOCK FALSE
CONSTANTS
    g = g
    a1 = a1
    cg = cg
    ca = ca
    first = first
    second = second
    Blocks <- MCBlocks
    Genesis = g
    parent <- MCParent
    body <- MCBody
    Wallet = {}
    Coinbases <- MCCoinbases
    Contracts <- MCContracts
    Pending = Pending
    Unknown = Unknown
    MaxTips = 2
    MaxFailures = 1
    IgnoreUnknownTx = FALSE
    logsOf <- MCLogsOf
    MaxRetries = 2
    TenthsPerSatoshi = 2
    SatoshiPerRevo = 3
    WeiPerTenth = 2
    Word = 64
    Base = 4
    MinimumGas = 1
    NoAddress = NoAddress
    CoinLists <- MCNoCoins
    MatureHeight = 1
    Regtest = TRUE
    MaxInt = 3
    Indexes = {0, 1, 2, 7}
    Numbers <- MCNumbers
    Shapes = {}
    Filters <- MCFilters
    MaxCached = 1
    Payments_ = {}
INVARIANTS LogsAsDocumented
