CONSTANTS
    c1 = c1
    Commands = {c1}
    NoCmd = NoCmd
    BusCap = 1
    CtrlCap = 1
    MaxPushes = 1
    MaxFaults = 2
    MaxStreams = 4
SPECIFICATION FairSpec
INVARIANTS
    ResumeCoversUnacked
    DuplicatesNeedReconnect
PROPERTIES
    Delivered
    TerminateEndsStream
CHECK_DEADLOCK FALSE
