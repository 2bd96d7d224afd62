SPECIFICATION OverridesSpec
CONSTANTS
    Calls = {c1, c2, c3}
    Stamps <- MCStamps
    Milliseconds <- MCMilliseconds
    Workspaces = {}
    Issues = {}
    Uses = {}
    None = None
    Instants = {}
    MaxEpoch = 1
SYMMETRY Symmetry
CHECK_DEADLOCK FALSE
INVARIANT Spaced
INVARIANT OnlyAtTheEdge
INVARIANT NonceMeansAccepted
