SPECIFICATION MCFairSpec
CHECK_DEADLOCK FALSE
CONSTANTS
    N = 2
    HealthCheckPercent = 100
    Clients = {c1, c2}
    SingleThreaded = TRUE
    Checks = {p1, p2}
    Probes = {p1, p2}
    Few = 1
    Pause <- MCPause
    MaxHeight = 3
    MaxFailures = 1
    Requests = {r1}
    Chains = {"main", "regtest"}
    Lookups = {r1, r2}
    Keys = {k1, k2}
    ClientCtx = clientCtx
    NoCtx = noCtx
    MaxVersion = 2
    w1 = w1
    w2 = w2
    Calls = {c1, c2}
    Wallets <- MCWallets
    Fresh = fresh
    Directories <- MCDirectories
    Locked <- MCLocked
    MaxTries = 2
    MaxTroubles = 1
INVARIANTS CountersExact CountedOnce HolderWorks ChainKnown TimerPerEntry NoStaleMark
PROPERTIES ImplementsWindow LooksApart AskersReturn EntryFlushed CallsReturn RepairsWork
