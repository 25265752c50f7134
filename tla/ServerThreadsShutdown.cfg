SPECIFICATION FairSpec
CONSTANTS
    h1 = h1
    h2 = h2
    h3 = h3
    Free = Free
    Handlers <- OneHandler
    NRequests = 1
PROPERTIES
    ServerStops
\* The system really may stop: see ServerStops, which does not hold.
CHECK_DEADLOCK FALSE
