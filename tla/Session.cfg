SPECIFICATION Spec
CONSTANTS
    Base = 2
    HeaderLength = 2
    FrameTimeout = 2
    RequestTimeout = 3
    WriteTimeout = 2
    ReplyLengths = {2, 3}
    MaxBytes = 8
INVARIANTS
    FramesInOrder
    RepliesWhole
    ExchangeBounded
PROPERTIES
    ReleasesWorker
