SPECIFICATION FairSpec
CONSTANTS
    N = 2
    MaxTasks = 3
    Local = {1}
    Outcomes = {"ok", "close", "error"}
    Expiring = {1, 2}
INVARIANTS
    OneSlavePerCpu
    UnfinishedJobHasASlave
PROPERTIES
    KeepsPromise
    ReturnsUnlessLost
\* The user is free to start no further call.
CHECK_DEADLOCK FALSE
