CONSTANTS
    Blocks <- ForkBlocks
    Genesis = "g"
    Parent <- ForkParent
    Anc <- ForkAnc
    Work <- ForkWork
    Verdicts <- AllGood
    AddrOrders <- OneAddr
    Threads = {t1}
    NoBlock = NoBlock
    Manual = {"a1", "a2", "b2"}
    Reconsidered = {"b2"}
    MaxManual = 3
    MaxCrashes = 0
SPECIFICATION Spec
INVARIANTS
    FailedMaskExplained ActiveChainUnmarked BestChainAtRest
