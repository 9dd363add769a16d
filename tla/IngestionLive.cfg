SPECIFICATION FairSpec
CONSTANTS
    sub1 = sub1
    Requests = {r1, r2}
    Servers = {s1}
    Manifests = {m1}
    Submissions = {sub1}
    SubmissionOf <- MCSubmissionOf
    Challenges = {c1}
    Clients = {k1}
    ClientLimit = 2
    GlobalLimit = 2
    RecoveryLimit = 1
    Faults = {"crash"}
    None = None
PROPERTIES
    EveryRequestEnds
    CrashedReportsRecover
    AbandonedStagingRemoved
CHECK_DEADLOCK FALSE
