SPECIFICATION MCSpec
CONSTANTS
    Reports = {1, 2}
    Keys = {k1}
    Admins = {a1, a2}
    Shares = {s1}
    ReportRetention = 2
    SourceRetention = 1
    ShareLifetime = 1
    PurgeLimit = 1
    MaxTime = 3
    None = None
    Requests = {1, 2, 3}
    Clients = {"client"}
    Proxies = {"proxy"}
    Forgeries <- MCForgeries
    Refill <- MCRefill
    Capacity <- MCCapacity
    LinkBudget = 1
    LinkWindow = 1
    LastTime = 1
    MaxSearchBytes = 9
    MaxSearchTerms = 2
    MaxKeyBytes = 1
    MaxValue = 4
    Rows = {1, 2, 3}
    Stamps = {1, 2}
    PageSize = 1
    NoRow = NoRow
    Compressors = {a1, a2}
    MaxFiles = 4
    Nothing = Nothing
    Functions <- MCFunctions
    Words <- MCWords
    Builds = {"b1"}
    Styles <- MCStyles
    MaxRenderedLines = 2
    MaxSignatureFrames = 2
    SignatureFrames = 1
    SignatureAddresses = 1
    MaxLines = 3
    Absent = Absent
    LastNumber = 5
    Layouts <- MCLayouts
    Reported <- MCReported
    Symbols <- MCSymbols
    SymbolCharacters = 200
    LongLine = 4000
    RepositoryCharacters = 24
INVARIANTS
    FilesAndRows
    BlocksHold
    RequestsLimited
    LinkFindsItsValue
    ListedOnce
    ReaderSeesOneOrTheOther
    SameCrashSameSignature
    MessageFits
PROPERTIES
    RetentionEnds
CHECK_DEADLOCK FALSE
