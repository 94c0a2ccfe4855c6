CONSTANTS
    o1 = o1
    o2 = o2
    s1 = s1
    s2 = s2
    h1 = h1
    h2 = h2
    w1 = w1
    w2 = w2
    NoConn = NoConn
    NoHandle = NoHandle
    Conns = {o1, o2}
    Stmts = {s1, s2}
    Handles = {h1, h2}
    Works = {w1, w2}
    Faults = {}
    Habits = {"stale"}
SPECIFICATION Spec
CHECK_DEADLOCK FALSE
INVARIANTS EndedByOwner
