SPECIFICATION Spec
CONSTANTS
    Reports = {r1}
    Issues = {i1, i2}
    Github = {g1, g2}
    Existing = {g1}
    Maintainers = {m1}
    Workers = {w1}
    Fixes = {f1, f2}
    Landed = {f1}
    BulkLimit = 2
    MaxDepth = 2
    MaxUpdates = 3
    None = None
SYMMETRY MCSymmetry
INVARIANTS
    NothingLeftBehind
    ChainsEnd
    TrackingInv
PROPERTIES
    OutOfStepOnlyByRace
    LinkNotStolen
    MergesDuplicates
    NewestWins
CHECK_DEADLOCK FALSE
