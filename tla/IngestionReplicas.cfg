SPECIFICATION Spec
CONSTANTS
    sub1 = sub1
    Requests = {r1, r2}
    Servers = {s1, s2}
    Manifests = {m1}
    Submissions = {sub1}
    SubmissionOf <- MCSubmissionOf
    Challenges = {c1}
    Clients = {k1}
    ClientLimit = 1
    GlobalLimit = 1
    RecoveryLimit = 1
    Faults = {"crash"}
    None = None
SYMMETRY MCSymmetry
INVARIANTS
    ReceiptIsHonored
    ReportDirectoriesOwned
    CommittedFilesKept
CHECK_DEADLOCK FALSE
