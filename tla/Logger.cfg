SPECIFICATION FairSpec
CONSTANTS
    Producers = {watcher, main}
    Quitter = main
    MaxLogs = 2
    Writer = writer
    Free = free
INVARIANTS FlushedIsInFile
PROPERTIES ImplementsQueue WritesAndReturns
CHECK_DEADLOCK FALSE
