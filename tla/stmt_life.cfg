CONSTANTS
    select = select
    insert = insert
    wide = wide
    A = A
    B = B
    c1 = c1
    c2 = c2
    c3 = c3
    NoQuery = NoQuery
    NoShape = NoShape
    Queries <- TwoStatements
    Shapes <- OneShape
    Cols <- OneShapeCols
    Results <- TwoResults
    Procs = {}
    NRows = 2
    Calls = {c1}
    Ops = {"exec", "prepare", "execute", "fetch", "fetchAll", "prepareSync", "executeSync", "fetchSync", "fetchAllSync", "nextResult", "closeCursor", "close", "numFields", "fieldValue", "fieldInfo", "setStmtAttr", "getStmtAttr", "numRows", "stmtError"}
    Faults = {"exec", "no_data", "fetch"}
    MayOverlap = FALSE
    PoolSize = 2
    MaxRuns = 2
SPECIFICATION Spec
CHECK_DEADLOCK FALSE
INVARIANTS RowsInOrder EndMeansAll OnlyFailuresLeaveRows MemorySafe
PROPERTIES CursorView
