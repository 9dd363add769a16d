SPECIFICATION FairSpec
CONSTANTS
    r1 = r1
    r2 = r2
    r3 = r3
    Reports = {r1, r3}
    Replicas = {d1, d2}
    Issues = {}
    Traced = {r1}
    Triaged = {}
    Inline = {}
    Fingerprint <- MCFingerprint
    CreatedAt <- MCCreatedAt
    Window = 1
    BatchSize = 2
    Faults = {"index", "connection", "database", "send", "crash"}
    None = None
INVARIANTS
    NotificationsInv
    DeliveredWasPosted
    OneDeliveryAtATime
PROPERTIES
    EveryReportSettles
