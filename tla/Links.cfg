SPECIFICATION EditionsSpec
CONSTANTS
    Names = {"guest", "alice"}
    Initial = {"guest"}
    Reqs = {r1, r2, r3, r4}
    Ttl = 1
    MaxNow = 3
    None = None
SYMMETRY Symmetry
CHECK_DEADLOCK FALSE
INVARIANT OneSuccess
INVARIANT ChangedInTime
INVARIANT CreatedCanLogin
PROPERTY LinksKeepPromise
PROPERTY KeepsPromise
