SPECIFICATION FairSpec
CONSTANTS
    Listeners = {panel}
    Watcher = watcher
    Monitor = monitor
    Worker = worker
    IdleLoop = idleLoop
    Table <- MCTable
    Configs <- MCConfigs
    Broken = broken
    Apps = {"game"}
    Default = default
    Word = 64
    Scenarios <- MCScenarios
INVARIANTS IdleSawNoTouch FlagMatchesDisplay
PROPERTIES SettlesIdle SettlesOff LoadsLast
CHECK_DEADLOCK FALSE
