SPECIFICATION FairSpec
CONSTANTS
    MaxEntries = 2
    MaxBytes = 3
    PeekMax = 2
    Sizes <- MCSizes
    MaxBlobs = 3
    MaxBreaks = 1
    MaxCrashes = 1
    MaxAppendFailures = 1
    MaxAckFailures = 1
INVARIANT NoResultLeavesUnsent
PROPERTY FirstSendsInOrder
INVARIANT VerifyIffContiguous
INVARIANT ReopensUnlessAckFailed
PROPERTY EventuallySent
CHECK_DEADLOCK FALSE
