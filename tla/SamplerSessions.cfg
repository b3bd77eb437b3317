SPECIFICATION FairSpec
CONSTANTS
    NumberOfBlocks = 2
    MAX_nruns = 2
    NewReplics = {1, 2, 3}
    LoadReplics = {1, 2, 4}
    save_tmp_file = TRUE
    RefreshRate = 1
    CrashIn = {"new", "recover", "core", "block", "draw", "full", "write"}
    MaxSessions = 3
    MaxRecoveries = 2
    MaxCrashes = 2
INVARIANT
    LoadGoesOn
PROPERTIES
    EverySessionEnds
    TmpIsResumedExactly
\* The user is free to start no further session.
CHECK_DEADLOCK FALSE
