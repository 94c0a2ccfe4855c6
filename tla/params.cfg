CONSTANTS
    proc = proc
    insert = insert
    plain = plain
    c1 = c1
    c2 = c2
    NoQuery = NoQuery
    Queries <- MCQueries
    Markers <- MCMarkers
    MaxMarkers = 2
    Half = 2
    OutInts <- MCOutInts
    Lists <- MCLists
    Calls = {c1, c2}
    Faults = {"describe", "bind", "exec", "no_data"}
    MaxBinds = 2
    MaxExecs = 2
SPECIFICATION Spec
INVARIANTS TypeOK FreedOnce BuffersLive UsesBoundValues OutputsOfExecution OutputsOnce
SYMMETRY Symmetry
CHECK_DEADLOCK FALSE
