SPECIFICATION Spec
CONSTANTS
    None = None
    HostTTL = 1
    ServerTTL = 1
    IntTTL = 1
    RootTTL = 2
    Grace = 1
    MaxNow = 2
    MaxKeys = 3
    KeysCalls = 4
    AuditCalls = 4
    ReleasesCalls = 5
    SecretsCalls = 4
    Writer = {w1, w2}
    Interval = 2
    Retention = 0
    Engines = {"sqlite", "postgres"}
    MaxSeq = 3
    Version = {v1}
    Data = {d1, d2}
    Uploader = {l1, l2}
    Installer = {i1}
    Ref = {ref1, ref2}
    LocalRef = {ref2}
    User = {u1}
    Op = {o1, o2}
    GracePolls = 1
    RecoverPolls = 1
    KeepVersions = 1
SYMMETRY PlatformSymmetry
INVARIANTS
    KeysStayTrusted
    AuditVerifies
    EntryKeepsItsChange
    PublishedIsServed
    AcknowledgedIsRead
PROPERTY
    LogImplemented
CHECK_DEADLOCK FALSE
