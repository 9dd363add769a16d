SPECIFICATION Spec
CONSTANTS
    Processes = {p1, p2}
    Users = {u1}
    Configurations <- MCConfigurations
    Content <- MCContent
    First = "default"
    Sessions = {s1}
    MaxSaves = 1
    None = None
INVARIANTS
    AccessInv
    TimelyConfiguration
    SessionsOfTheTeam
PROPERTIES
    RevokedForDeadTokens
    CachesConverge
    AccessEnds
CHECK_DEADLOCK FALSE
