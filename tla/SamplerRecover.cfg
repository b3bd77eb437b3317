SPECIFICATION Spec
CONSTANTS
    NumberOfBlocks = 3
    MAX_nruns = 3
    NewReplics = {3, 6}
    LoadReplics = {1, 2, 3, 4, 5, 6}
    save_tmp_file = FALSE
    RefreshRate = 1
    CrashIn = {"recover", "core", "block", "draw", "write"}
    MaxSessions = 2
    MaxRecoveries = 3
    MaxCrashes = 3
INVARIANTS
    SavedDrawsAreTheChain
    ConcludedIsComplete
    SessionsFindTheirFiles
PROPERTY
    SavedDrawsAreKept
\* The user is free to start no further session.
CHECK_DEADLOCK FALSE
