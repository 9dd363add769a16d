SPECIFICATION Spec
CONSTANTS
    r1 = r1
    r2 = r2
    r3 = r3
    Reports = {r1, r2}
    Replicas = {d1, d2}
    Issues = {i1}
    Traced = {r1, r2}
    Triaged = {r2}
    Inline = {r1, r2}
    Fingerprint <- MCFingerprint
    CreatedAt <- MCCreatedAt
    Window = 1
    BatchSize = 2
    Faults = {"stall"}
    None = None
SYMMETRY MCSymmetry
INVARIANTS
    AnnouncedNotDropped
PROPERTIES
    MatchedOnce
