CONSTANTS
    t1 = t1
    t2 = t2
    t3 = t3
    i1 = i1
    i2 = i2
    col = col
    Migrators = {m1}
    Files <- MCFiles
    Objects = {t1, t2, t3, i1, i2, col}
    Up <- MCUp
    Kind <- MCKind
    Parent <- MCParent
    Deletable = {3}
    Undoable = {1, 2}
    MaxFaults = 1
SPECIFICATION Spec
INVARIANTS RecordedMeansApplied
CHECK_DEADLOCK FALSE
