SPECIFICATION Spec
CONSTANTS
    sub1 = sub1
    Requests = {r1, r2}
    Servers = {s1}
    Manifests = {m1}
    Submissions = {sub1}
    SubmissionOf <- MCSubmissionOf
    Challenges = {c1}
    Clients = {k1, k2}
    ClientLimit = 1
    GlobalLimit = 2
    RecoveryLimit = 1
    Faults = {"late", "recovery", "disconnect"}
    None = None
SYMMETRY MCSymmetry
INVARIANTS
    IngestionInv
    UploadLimits
CHECK_DEADLOCK FALSE
