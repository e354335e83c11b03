SPECIFICATION Spec
CONSTANTS
    Instances = {1, 2, 3}
    DeadLeaderMinRound = 1
    LateVotes = TRUE
    MaxRounds = 5
    MaxErrors = 1
    LastFaultyRound = 2
INVARIANTS
    TypeOK
PROPERTIES
    TakeoverFromDead
    TakeoverNamesHolder
    LeaderElected
CHECK_DEADLOCK FALSE
