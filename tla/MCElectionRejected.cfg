SPECIFICATION Spec
CONSTANTS
    Instances = {1, 2}
    DeadLeaderMinRound = 1
    LateVotes = FALSE
    MaxRounds = 5
    MaxErrors = 2
    LastFaultyRound = 5
PROPERTIES
    BecomesLeaderAsOwner
CHECK_DEADLOCK FALSE
