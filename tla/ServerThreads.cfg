SPECIFICATION FairSpec
CONSTANTS
    h1 = h1
    h2 = h2
    h3 = h3
    Free = Free
    Handlers <- ThreeHandlers
    NRequests = 3
INVARIANTS
    TypeOK
    NoSleepOverWork
PROPERTIES
    EveryRequestAnswered
    HandlersStop
\* The system really may stop: see ServerStops, which does not hold.
CHECK_DEADLOCK FALSE
