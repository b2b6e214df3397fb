SPECIFICATION Spec
CONSTANTS
    Workers = {w1, w2, w3}
    Capacity = 2
    Jobs = {j1, j2, j3}
    NoJob = NoJob
SYMMETRY PoolSymmetry
INVARIANTS
    TypeOK
    JobOwnedOnce
    NoLostWakeup
    NoSleeperAfterClose
    OkMeansCleanStop
    JoinNeverBlocks
PROPERTIES
    NotDrained
    ImplementsDelivery
