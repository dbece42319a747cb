SPECIFICATION FairWalletSpec
CONSTANTS
    w1 = w1
    w2 = w2
    Calls = {c1}
    Wallets <- MCWallets
    Fresh = fresh
    Directories <- MCDirectories
    Locked <- MCLocked
    MaxTries = 2
    MaxTroubles = 0
PROPERTIES RepairsGetThrough
CHECK_DEADLOCK FALSE
