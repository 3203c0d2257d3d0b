SPECIFICATION SafeSpec
CONSTANTS
    Nodes = {}
    OpenMayFail = FALSE
    WatchMayFail = FALSE
    MaxGen = 1
    MaxQueue = 0
    None = None
    Clients = {c1, c2}
    Devices = {"eci"}
    KeysOf <- AccessoryKeys
    Unpluggable = {"eci"}
    CanRestart = TRUE
    MaxBuffered = 2
    MaxOutbox = 2
SYMMETRY ClientSymmetry
CHECK_DEADLOCK FALSE
INVARIANTS UsersCounted NoIdleHandles
