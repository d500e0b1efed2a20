CONSTANTS
    c1 = c1
    Commands = {c1}
    NoCmd = NoCmd
    BusCap = 2
    CtrlCap = 1
    MaxPushes = 0
    MaxFaults = 1
    MaxStreams = 2
SPECIFICATION Spec
INVARIANT NoCommandLost
CHECK_DEADLOCK FALSE
