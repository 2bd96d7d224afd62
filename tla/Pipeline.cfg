SPECIFICATION Spec
CONSTANTS
    Workspaces = {w1}
    Requests = {r1, r2, r3}
    Manifests = {m1, m2}
    NoManifest = NoManifest
    NoProof = NoProof
SYMMETRY Symmetry
INVARIANTS
    SignedHasEvidence
    RowsPrecedeMoves
    ManifestKept
    SignedManifest
    ReviewHasWebhook
PROPERTIES
    FreshEvidence
    KeepsPromise
CHECK_DEADLOCK FALSE
