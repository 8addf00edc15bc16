CONSTANTS
    Txids = {t1}
    Outs = {o1}
    Absent = Absent
    MaxBest = 2
SPECIFICATION FaultySpec
INVARIANT DbIsBestBlock
