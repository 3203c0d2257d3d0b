SPECIFICATION Spec
CONSTANTS
    Classes <- Everything
    Threads = {t1, t2}
    Receivers = {r1, r2}
    MaxConnections = 3
    MaxCount = 4
SYMMETRY Symmetry
CHECK_DEADLOCK FALSE
INVARIANTS SubscribedWhilePositive SettledDelivered SettledReleased
