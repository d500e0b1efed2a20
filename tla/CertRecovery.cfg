SPECIFICATION FairSpec
CONSTANTS
    Presented = {"leaf"}
    Trusted = {"root"}
    MaxPerWindow = 1
    MaxFaults = 2
PROPERTY Recovers
CHECK_DEADLOCK FALSE
