CONSTANTS
    select = select
    insert = insert
    wide = wide
    A = A
    B = B
    c1 = c1
    c2 = c2
    c3 = c3
    NoQuery = NoQuery
    NoShape = NoShape
    Queries <- OneQuery
    Shapes <- OneShape
    Cols <- OneShapeCols
    Results <- OneResult
    Procs = {}
    NRows = 1
    Calls = {c1, c2, c3}
    Ops = {"exec", "execute", "prepareSync"}
    Faults = {"exec", "bind", "fetch"}
    MayOverlap = TRUE
    PoolSize = 2
    MaxRuns = 3
SPECIFICATION FairRaceSpec
INVARIANTS NoRace
PROPERTIES CallsAnswered
CHECK_DEADLOCK FALSE
