SPECIFICATION Spec
CONSTANTS
    Values <- MCValues
    NilValue = NilValue
    Processes = {1, 2}
    Coord = Coord
    Drummer = Drummer
    A = A
    B = B
    Targets <- MCTargets
    Quota = 2
    MaxOps = 3
    MaxWrites = 1
INVARIANTS
    LogIsComplete
    NoFalseAlarm
    NoConnectionLeft
PROPERTIES
    StopIsFinal
    NothingLeftToStart
CHECK_DEADLOCK FALSE
