SPECIFICATION FairSpec
CONSTANTS
    NClients = 2
    Handlers <- TwoThreads
    PoolThreads <- TwoThreads
    MAX_BATCH_SIZE = 2
    NRequests = 2
    Layout = "individual"
    Spatiality = "contiguous"
    Phases <- WriteOnly
    Validation = FALSE
    StoneWall = TRUE
    FullTransfers = TRUE
    FirstId = 2
    LastId = 12
    DirectIO = FALSE
    FileSystem = "pvfs"
    FirstFd = 100
    LastFd = 102
PROPERTIES
    EveryRunCompletes
    ImplementsFileService
