SPECIFICATION HeartSpec
CONSTANTS
    MaxOpens = 3
INVARIANT SignalledOnce
