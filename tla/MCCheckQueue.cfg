CONSTANTS
    Checks = {c1, c2, c3, c4}
    BadSets <- OneBad
    Workers = {w1, w2}
    Master = m
    nBatchSize = 2
    MaxInterrupts = 1
SPECIFICATION FairSpec
INVARIANTS IdleBetweenBlocks VerdictExact TodoExact
PROPERTIES WaitReturns QueueDrained
