SPECIFICATION FairSpec
CONSTANTS
    Setups <- SomeSetups
    NRequests = 2
INVARIANTS
    TypeOK
    ServersOutliveClients
    NoTeardownWhileServing
    TimedAlone
    ReadsFollowWrites
    NoneRunsAlone
PROPERTIES
    EveryRankFinalizes
