CONSTANTS
    select = select
    insert = insert
    wide = wide
    A = A
    B = B
    c1 = c1
    c2 = c2
    c3 = c3
    NoQuery = NoQuery
    NoShape = NoShape
    Queries <- CallQueries
    Shapes <- TwoShapes
    Cols <- TwoShapesCols
    Results <- CallResults
    Procs = {wide}
    NRows = 1
    Calls = {c1}
    Ops = {"exec", "closeCursor", "close"}
    Faults = {}
    MayOverlap = FALSE
    PoolSize = 2
    MaxRuns = 2
SPECIFICATION Spec
CHECK_DEADLOCK FALSE
INVARIANTS RowsDecodedByOwnShape
