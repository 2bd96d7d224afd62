SPECIFICATION ResetSpec
CONSTANTS
    Workspaces = {w1}
    Requests = {r1, r2}
    Manifests = {m1}
    NoManifest = NoManifest
    NoProof = NoProof
PROPERTIES
    ResetReachesDraft
CHECK_DEADLOCK FALSE
