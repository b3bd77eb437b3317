SPECIFICATION FairSpec
CONSTANTS
    N = 3
    MaxTasks = 2
    Local = {1}
    Outcomes = {"ok", "close", "error"}
INVARIANTS
    TypeOK
    OutputBeforeSignal
    BreakIsForThisTask
PROPERTIES
    KeepsPromise
    ReturnsUnlessHung
\* The user is free to start no further call.
CHECK_DEADLOCK FALSE
