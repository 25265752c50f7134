SPECIFICATION Spec
CONSTANTS
    NClients = 2
    Handlers <- TwoThreads
    PoolThreads <- TwoThreads
    MAX_BATCH_SIZE = 2
    NRequests = 2
    Layout = "shared"
    Spatiality = "contiguous"
    Phases <- WriteThenRead
    Validation = TRUE
    StoneWall = FALSE
    FullTransfers = TRUE
    FirstId = 2
    LastId = 4
    DirectIO = TRUE
    FileSystem = "posix"
    FirstFd = 3
    LastFd = 4
INVARIANTS
    TypeOK
    NeverAborts
    OneAnswerPerRequest
    HandlesStayOpen
    StopsOnlyWhenDrained
PROPERTIES
    IdsAreNotReused
    ImplementsFileService
