SPECIFICATION Spec
CONSTANTS
    Kids = {admin, k1}
    Admin = admin
    Pems = {pa, p1}
    AdminPem = pa
    NoPem = NoPem
    Sites = {policy}
    Calls = {c1, c2}
    Seeds = {s1, s2}
    Ttl = 1
    MaxClock = 2
SYMMETRY Symmetry
INVARIANTS
    VerifierIsKey
    CacheCurrent
    UnknownIsOld
CHECK_DEADLOCK FALSE
