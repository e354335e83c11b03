SPECIFICATION Spec
CONSTANTS
    Drummers = {d1, d2}
    Users = {u1}
    UserShard <- MCUserShard
    DeploymentIds = {1, 2}
    Stoppable = {d1}
    MaxCalls = 3
    MaxFailures = 1
INVARIANTS
    AcknowledgedOnce
    OneDeploymentID
    NilMeansDefined
    ServesWithDeploymentID
PROPERTIES
    LateOnlyIfUnclosed
CHECK_DEADLOCK FALSE
