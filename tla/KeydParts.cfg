SPECIFICATION PartsSpec
CONSTANTS
    ShortKey = "KEY_PREVIOUSSONG"
    LongKey = "KEY_REWIND"
    MaxSent = 6
    Nodes = {"event4", "event5"}
    OpenMayFail = TRUE
    WatchMayFail = TRUE
    MaxGen = 2
    MaxQueue = 4
    None = None
CHECK_DEADLOCK FALSE
INVARIANTS TimerMeansWaiting LongReleaseFollowsPress WellPaired
    SettledHeadsetIsAlive SettledHeadsetIsLatest
PROPERTIES PressResolved ImplementsKeyPress HeadsetFound
