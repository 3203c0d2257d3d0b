SPECIFICATION SysSpec
CONSTANTS
    l1 = l1
    q1 = q1
    Nodes = {}
    OpenMayFail = FALSE
    WatchMayFail = FALSE
    MaxGen = 1
    MaxQueue = 0
    None = None
    Clients <- ListenerAndQuerier
    Listeners <- OneListener
    Queriers <- OneQuerier
    Devices = {"gpio"}
    KeysOf <- OneKey
    Unpluggable = {}
    CanRestart = FALSE
    MaxBuffered = 2
    MaxOutbox = 2
CHECK_DEADLOCK FALSE
INVARIANTS CachesFollowKeys AnswersAreCurrent
