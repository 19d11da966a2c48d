SPECIFICATION MonitorFairSpec
CONSTANTS
    Apps = {"game", "video"}
    MaxEvents = 2
INVARIANTS MonitorTypeOK MonitorWakes
PROPERTIES KeepsAppPolicy FollowsApp TracksScreen
CHECK_DEADLOCK FALSE
