SPECIFICATION Spec
CONSTANTS
    NClients = 3
    Handlers <- TwoThreads
    PoolThreads <- TwoThreads
    MAX_BATCH_SIZE = 2
    NRequests = 1
    Layout = "shared"
    Spatiality = "strided"
    Phases <- WriteOnly
    Validation = TRUE
    StoneWall = FALSE
    FullTransfers = TRUE
    FirstId = 2
    LastId = 12
    DirectIO = FALSE
    FileSystem = "posix"
    FirstFd = 3
    LastFd = 4
INVARIANTS
    EachRequestInOnePlace
    ScheduledAreHashed
    BatchesAreSound
    DoneWritesAreOnDisk
    ReferencesCountUsers
