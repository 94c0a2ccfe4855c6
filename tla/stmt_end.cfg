CONSTANTS
    select = select
    insert = insert
    wide = wide
    A = A
    B = B
    c1 = c1
    c2 = c2
    c3 = c3
    NoQuery = NoQuery
    NoShape = NoShape
    Queries <- TwoStatements
    Shapes <- OneShape
    Cols <- OneShapeCols
    Results <- TwoResults
    Procs = {}
    NRows = 1
    Calls = {c1}
    Ops = {"prepare", "execute", "fetch"}
    Faults = {}
    MayOverlap = FALSE
    PoolSize = 2
    MaxRuns = 2
SPECIFICATION Spec
CHECK_DEADLOCK FALSE
INVARIANTS NothingAtEnd
