SPECIFICATION FairProcessSpec
CONSTANTS
    Pids = {1, 2, 3, 4, 5}
    PidLimit = 5
    Overlap = FALSE
    MaxLaunches = 2
    MaxCrashes = 1
INVARIANTS OneDaemon
PROPERTIES WatchDogEnds
CHECK_DEADLOCK FALSE
