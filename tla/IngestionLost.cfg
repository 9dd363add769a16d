SPECIFICATION Spec
CONSTANTS
    sub1 = sub1
    Requests = {r1}
    Servers = {s1}
    Manifests = {m1}
    Submissions = {sub1}
    SubmissionOf <- MCSubmissionOf
    Challenges = {c1}
    Clients = {k1}
    ClientLimit = 1
    GlobalLimit = 1
    RecoveryLimit = 1
    Faults = {"late"}
    None = None
INVARIANT CommittedFilesKept
CHECK_DEADLOCK FALSE
