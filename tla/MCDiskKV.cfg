SPECIFICATION FairSpec
CONSTANTS
    Dirs = {d1, d2, d3, d4}
    None = None
    MaxIndex = 2
    MaxCrashes = 3
INVARIANTS
    NothingSeenIsLost
    OnlyTheDBInUse
PROPERTIES
    ReadsGoForward
    OpensAgain
