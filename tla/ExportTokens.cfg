SPECIFICATION Spec
CONSTANTS
    Verifies = {v1, v2}
    Exports = {e1, e2}
    Artifacts = {app}
    Instants = {0, 1, 300, 301}
    None = None
SYMMETRY Symmetry
CHECK_DEADLOCK FALSE
INVARIANT ExportedOnce
INVARIANT VerifiedRecently
PROPERTY KeepsPromise
