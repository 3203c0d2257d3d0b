SPECIFICATION SysSpec
CONSTANTS
    l1 = l1
    q1 = q1
    Nodes = {}
    OpenMayFail = FALSE
    WatchMayFail = FALSE
    MaxGen = 1
    MaxQueue = 0
    None = None
    Clients <- OneListener
    Listeners <- OneListener
    Queriers <- Nobody
    Devices = {"eci"}
    KeysOf <- AccessoryKeys
    Unpluggable = {}
    CanRestart = FALSE
    MaxBuffered = 2
    MaxOutbox = 2
CHECK_DEADLOCK FALSE
INVARIANTS CachedDownIsHeld
