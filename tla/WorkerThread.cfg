SPECIFICATION FairSpec
CONSTANTS
    Producers = {input, cgroup}
    MaxWork = 2
    Worker = worker
    Free = free
INVARIANTS ExactlyOnce NoLostWakeup
PROPERTIES ImplementsFairQueue
CHECK_DEADLOCK FALSE
