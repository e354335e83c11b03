SPECIFICATION Spec
CONSTANTS
    Values = {1, 2}
    NilValue = NilValue
    Histories <- MCHistories
INVARIANTS
    ListIsHistory
PROPERTIES
    VerdictIsTrue
CHECK_DEADLOCK FALSE
