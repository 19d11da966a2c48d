SPECIFICATION FairSpec
CONSTANTS
    Paths = {"config", "tasks", "procs"}
    MaxChanges = 5
    BufferSize = 2
    QueueSize = 3
INVARIANTS ChangeHasEvent OnlyAddingKills
PROPERTIES WatchedChangeNoticed
CHECK_DEADLOCK FALSE
