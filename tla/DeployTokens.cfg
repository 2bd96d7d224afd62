SPECIFICATION OverridesSpec
CONSTANTS
    Calls = {}
    Stamps = {}
    Milliseconds = {}
    Workspaces = {w1, w2}
    Issues = {i1, i2}
    Uses = {u1, u2}
    None = None
    Instants <- MCInstants
    MaxEpoch = 1
SYMMETRY Symmetry
CHECK_DEADLOCK FALSE
INVARIANT SealOpensSecret
PROPERTY ValidIsSpent
PROPERTY KeepsPromise
