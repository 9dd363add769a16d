SPECIFICATION Spec
CONSTANTS
    r1 = r1
    r2 = r2
    r3 = r3
    Reports = {r1, r2}
    Replicas = {d1}
    Issues = {i1}
    Traced = {r1, r2}
    Triaged = {r1}
    Inline = {}
    Fingerprint <- MCFingerprint
    CreatedAt <- MCCreatedAt
    Window = 1
    BatchSize = 1
    Faults = {}
    None = None
PROPERTIES
    DroppedBehindUnlinked
