SPECIFICATION Spec
CONSTANTS
    r1 = r1
    r2 = r2
    r3 = r3
    Reports = {r1, r2, r3}
    Replicas = {d1}
    Issues = {i1, i2}
    Traced = {r1, r2, r3}
    Triaged = {r1, r2}
    Inline = {r1}
    Fingerprint <- MCOneFingerprint
    CreatedAt <- MCCreatedAt
    Window = 1
    BatchSize = 1
    Faults = {}
    None = None
SYMMETRY MCSymmetry
INVARIANTS
    DroppedBehindSeen
