SPECIFICATION FairSpec
CONSTANTS
    Important = {i1, i2}
    Routine = {r1, r2, r3}
    ImportantBound = 1
    RoutineBound = 2
INVARIANTS
    LanesInOrder
PROPERTIES
    ImportantLineWritten
    DropReturns
