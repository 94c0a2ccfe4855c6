CONSTANTS
    Layout <- MCLayout
    NRows = 3
    Null <- MCNull
    Bad <- MCBad
    Positions <- MCPositions
    Faults = {"bind", "scroll", "fetch"}
    MaxBinds = 2
    MaxLeft = 1
SPECIFICATION Spec
INVARIANTS TypeOK RowsWhole AdvancesToNext SameEitherWay BuffersHold LeaksOnlyAfterClob
CHECK_DEADLOCK FALSE
