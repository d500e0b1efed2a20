SPECIFICATION GateSpec
CONSTANTS
    Users = {u1, u2, u3}
    Approvers = {u1}
    Kinds = {k1, k2}
    Ids = {i1}
    Deciders = {s1, s2}
    Calls = {c1, c2}
    Databases = {"sqlite", "postgres"}
    None = None
SYMMETRY GateSymmetry
INVARIANT ApprovalMeetsPolicy
INVARIANT GatedByAnother
CHECK_DEADLOCK FALSE
