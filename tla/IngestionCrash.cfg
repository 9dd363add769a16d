SPECIFICATION Spec
CONSTANTS
    sub1 = sub1
    Requests = {r1, r2}
    Servers = {s1}
    Manifests = {m1, m2}
    Submissions = {sub1}
    SubmissionOf <- MCSubmissionOf
    Challenges = {c1, c2}
    Clients = {k1}
    ClientLimit = 1
    GlobalLimit = 1
    RecoveryLimit = 1
    Faults = {"early", "recovery", "crash"}
    None = None
SYMMETRY MCSymmetry
INVARIANTS
    TypeOK
    OneReportPerSubmission
PROPERTIES
    ImplementsReportLog
CHECK_DEADLOCK FALSE
