CONSTANTS
    Txids = {t1, t2}
    Outs = {o1, o2}
    Absent = Absent
    MaxBest = 3
SPECIFICATION Spec
SYMMETRY Symmetry
INVARIANTS FlagsSound DbIsBestBlock
PROPERTY ImplementsStore
