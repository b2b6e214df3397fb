SPECIFICATION Spec
CONSTANTS
    Important = {i1}
    Routine = {r1}
    ImportantBound = 1
    RoutineBound = 1
INVARIANTS
    FatalLineWritten
