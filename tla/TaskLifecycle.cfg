SPECIFICATION Spec
CONSTANTS
    Dispatches = {d1, d2}
    Hosts = {h1, h2}
    None = None
    MaxFaults = 1
    MaxResults = 1
SYMMETRY TaskSymmetry
INVARIANT AnswerNamesTask
INVARIANT OneCommandPerKey
PROPERTY FinalStatusJustified
CHECK_DEADLOCK FALSE
