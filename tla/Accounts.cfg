SPECIFICATION Spec
CONSTANTS
    None = None
    Req = {r1, r2}
    u1 = u1
    u2 = u2
    User = {u1, u2}
    Admin = u2
    Sid = {s1, s2}
    State = {t1, t2}
    Subject = {p1}
    EmailOf <- MCEmailOf
    FailLimit = 2
    PasswordCalls = 5
    OidcCalls = 5
    Code = {c1, c2}
    MaxStep = 3
    FactorCalls = 6
SYMMETRY AccountSymmetry
INVARIANTS
    RevokedCachedOnlyByOverlap
    GuessesBounded
    SubjectIsOneAccount
    SpentProofRefused
    OneCodeSet
CHECK_DEADLOCK FALSE
