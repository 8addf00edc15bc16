CONSTANTS
    Blocks <- SmallBlocks
    Genesis = "g"
    Parent <- SmallParent
    Anc <- SmallAnc
    Work <- SmallWork
    Verdicts <- BranchBad
    AddrOrders <- SmallAddrs
    Threads = {t1, t2}
    NoBlock = NoBlock
    Manual = {}
    Reconsidered = {}
    MaxManual = 0
    MaxCrashes = 1
SPECIFICATION FairSpec
INVARIANTS
    CandidatesExactAtRest DiskTipRecoverable CandidatesNeverEmpty
PROPERTY ActivationEnds
