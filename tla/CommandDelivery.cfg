CONSTANTS
    c1 = c1
    c2 = c2
    Commands = {c1, c2}
    NoCmd = NoCmd
    BusCap = 1
    CtrlCap = 1
    MaxPushes = 1
    MaxFaults = 1
    MaxStreams = 2
SPECIFICATION Spec
SYMMETRY CommandSymmetry
INVARIANTS
    TypeOK
    NothingVanishes
CHECK_DEADLOCK FALSE
