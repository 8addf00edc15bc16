CONSTANTS
    Blocks <- ForkBlocks
    Genesis = "g"
    Parent <- ForkParent
    Anc <- ForkAnc
    Work <- ForkWork
    Verdicts <- OneBad
    AddrOrders <- OneAddr
    Threads = {t1, t2}
    NoBlock = NoBlock
    Manual = {}
    Reconsidered = {}
    MaxManual = 0
    MaxCrashes = 0
SPECIFICATION Spec
INVARIANTS
    LinkedIsProcessed CandidatesExactAtRest UnlinkedExact
    ActiveChainSound BestChainAtRest MarksDeserved
PROPERTY StepImproves
