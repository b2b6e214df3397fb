SPECIFICATION FairSpec
CONSTANTS
    ShutdownTimeout = 3
INVARIANTS
    OkMeansAllDown
    ShutdownBounded
    OrderlyIfPossible
PROPERTIES
    TroubleEndsRun
