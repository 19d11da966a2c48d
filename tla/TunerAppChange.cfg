SPECIFICATION FairSpec
CONSTANTS
    Listeners = {panel}
    Watcher = watcher
    Monitor = monitor
    Worker = worker
    IdleLoop = idleLoop
    Table <- MCTable
    Configs <- MCConfigs
    Broken = broken
    Apps = {"other"}
    Default = default
    Word = 64
    Scenarios <- AppChange
PROPERTIES SettlesIdle
CHECK_DEADLOCK FALSE
