SPECIFICATION Spec
CONSTANTS
    Nodes = {"event4"}
    OpenMayFail = TRUE
    WatchMayFail = TRUE
    MaxGen = 2
    MaxQueue = 2
    None = None
    Clients = {c1, c2}
    Devices = {"eci"}
    KeysOf <- HeadsetKeys
    Unpluggable = {}
    CanRestart = TRUE
    MaxBuffered = 2
    MaxOutbox = 1
CHECK_DEADLOCK FALSE
PROPERTIES HandlesReleased QueriesRead
