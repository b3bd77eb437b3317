SPECIFICATION Spec
CONSTANTS
    MaxNodes = 3
    Cpus = {1, 2, 3}
    Threads = {1, 2}
    Weights = {1, 2}
    FirstBlocks = {1}
    MaxBlock = 5
INVARIANTS
    PlanIsRight
    EveryBlockRunOnceUnlessIdle
    UsedNodesAreWatched
PROPERTY
    Terminates
\* A distribution ends.
CHECK_DEADLOCK FALSE
