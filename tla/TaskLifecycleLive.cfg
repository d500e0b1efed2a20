SPECIFICATION FairSpec
CONSTANTS
    Dispatches = {d1}
    Hosts = {h1, h2}
    None = None
    MaxFaults = 2
    MaxResults = 1
PROPERTY TaskSettles
CHECK_DEADLOCK FALSE
