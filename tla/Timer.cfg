SPECIFICATION FairSpec
CONSTANTS
    Callers = {watcher, body}
    Owner = owner
    MaxStarts = 2
    Disciplined = TRUE
INVARIANTS PauseHolds StopJoins OnlyGapMissesContinue
PROPERTIES StopEnds
CHECK_DEADLOCK FALSE
