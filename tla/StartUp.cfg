SPECIFICATION Spec
CONSTANTS
    MaxLines = 2
    panel = panel
    Main = main
    Watcher = watcher
    IdleLoop = idleLoop
    Listeners = {panel}
    Starts <- MCStarts
    Broken = broken
    nullptr = nullptr
INVARIANTS TableMatchesDump NothingUnheard OnlyBadTextEnds
PROPERTIES WorkerSettles StartsAndLoads
CHECK_DEADLOCK FALSE
