CONSTANTS
    Txs <- MCTxs
    Coinbases <- MCCoinbases
    Outpoints <- MCOutpoints
    vout <- MCOutpoints
    hash <- MChash
    vin <- MCvin
    nLockTime <- MCnLockTime
    CoinbaseHeight <- MCCoinbaseHeight
    COINBASE_MATURITY = 2
    MaxHeight = 5
    Peers = {p, q}
    nMaxOrphanTx = 2

SPECIFICATION FairSpec

INVARIANTS
    PoolMinable
    NextTxExact
    OrphanIndexExact

PROPERTIES
    OnlyUnspendableLeave
    OrphansResolved
    TxMessageEnds
