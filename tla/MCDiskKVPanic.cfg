SPECIFICATION Spec
CONSTANTS
    Dirs = {d1, d2, d3, d4}
    None = None
    MaxIndex = 1
    MaxCrashes = 1
INVARIANTS
    OpenNeverPanics
