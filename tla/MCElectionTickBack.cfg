SPECIFICATION Spec
CONSTANTS
    Instances = {1, 2}
    DeadLeaderMinRound = 1
    LateVotes = TRUE
    MaxRounds = 5
    MaxErrors = 2
    LastFaultyRound = 5
INVARIANTS
    TickNeverWentBack
CHECK_DEADLOCK FALSE
