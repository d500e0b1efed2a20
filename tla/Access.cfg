SPECIFICATION Spec
CONSTANTS
    Host = {h1, h2, h3}
    Token = {t1}
    i1 = i1
    i2 = i2
    Interval = {i1, i2}
    Default = i1
    Req = {r1, r2}
    None = None
    QueueCap = 2
    MaxCalls = 4
    Group = {g1, g2, g3}
    Role = {x1}
    Principal = {u1}
SYMMETRY FleetSymmetry
INVARIANTS
    TokenAdmitsOneHost
    IntervalReachesAgent
    RunningTasksAwaitAnAnswer
    GroupsFormForest
CHECK_DEADLOCK FALSE
