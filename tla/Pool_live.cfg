SPECIFICATION FairSpec
CONSTANTS
    Workers = {w1, w2}
    Capacity = 1
    Jobs = {j1, j2}
    NoJob = NoJob
PROPERTIES
    AcceptedJobLeavesQueue
    PanicStopsPool
    ShutdownReturns
