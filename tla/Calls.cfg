SPECIFICATION MCSpec
SYMMETRY MCClients
CHECK_DEADLOCK FALSE
CONSTANTS
    g = g
    a1 = a1
    a2 = a2
    b1 = b1
    cg = cg
    ca = ca
    cb = cb
    cc = cc
    transfer = transfer
    creation = creation
    Blocks <- MCBlocks
    Genesis = g
    parent <- MCParent
    body <- MCBody
    Wallet <- MCWallet
    Coinbases <- MCCoinbases
    Contracts <- MCContracts
    Pending = Pending
    Unknown = Unknown
    MaxTips = 2
    MaxFailures = 1
    IgnoreUnknownTx = FALSE
    logsOf <- MCLogsOf
    MaxRetries = 2
    TenthsPerSatoshi = 2
    SatoshiPerRevo = 3
    WeiPerTenth = 2
    Word = 64
    Base = 4
    MinimumGas = 1
    NoAddress = NoAddress
    CoinLists <- MCCoinLists
    MatureHeight = 1
    Regtest = TRUE
    MaxInt = 3
    Indexes = {1, 2, 7}
    Numbers <- MCNumbers
    Shapes <- MCShapes
    Filters <- MCFilters
    MaxCached = 1
    Payments_ <- MCPayments
    Clients = {c1, c2}
    MaxFilters = 1
    MaxHeight = 2
    MaxReorgs = 1
INVARIANTS PlacesAreTrue FullBlockAgrees BlockAsAsked NullMeansUnknown LogsAreExact AmountsAreTrue CoinsSuffice HashCallReturns
INVARIANTS NoBlockLost PanicNeedsReorg LogsFromTheStart
PROPERTIES NullAfterBoth NoRepeat
