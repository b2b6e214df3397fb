SPECIFICATION WindowSpec
CONSTANTS
    Burst = 2
    Interval = 3
    MaxTime = 10
    MaxWarned = 10
INVARIANTS
    Accounted
    SpanBound
