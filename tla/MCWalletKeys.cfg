CONSTANTS
    miner = miner
    dialog = dialog
    Holder <- MCHolder
    KeyPoolSize = 1
    MaxKeys = 6
    MaxFaults = 2
SPECIFICATION Spec
SYMMETRY Symmetric
INVARIANTS
    KeysKept
    StoredWalletLoads
    NotUsedAgain
CHECK_DEADLOCK FALSE
