SPECIFICATION Spec
CONSTANTS
    NClients = 2
    Handlers <- TwoThreads
    PoolThreads <- TwoThreads
    MAX_BATCH_SIZE = 16
    NRequests = 1
    Layout = "shared"
    Spatiality = "strided"
    Phases <- WriteThenRead
    Validation = FALSE
    StoneWall = FALSE
    FullTransfers = FALSE
    FirstId = 2
    LastId = 12
    DirectIO = FALSE
    FileSystem = "pvfs"
    FirstFd = 100
    LastFd = 101
INVARIANTS
    NeverAborts
    NoForeignBytes
PROPERTIES
    ImplementsFileService
