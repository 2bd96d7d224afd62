SPECIFICATION FairSpec
CONSTANTS
    Workspaces = {w1}
    Requests = {r1, r2}
    Manifests = {m1}
    NoManifest = NoManifest
    NoProof = NoProof
PROPERTIES
    AlwaysAnswered
CHECK_DEADLOCK FALSE
