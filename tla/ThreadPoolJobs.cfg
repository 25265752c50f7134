SPECIFICATION FairSpec
CONSTANTS
    t1 = t1
    t2 = t2
    t3 = t3
    j1 = j1
    j2 = j2
    j3 = j3
    NoJob = NoJob
    Threads <- ThreeThreads
    Jobs <- ThreeJobs
INVARIANTS
    TypeOK
    NoLostWakeup
    WaitMeansDone
    JobsAreDistinct
PROPERTIES
    ImplementsJobPool
    EachJobRuns
    CallsReturn
