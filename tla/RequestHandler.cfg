SPECIFICATION Spec
CONSTANTS
    HeaderLength = 1
    MaxNameLength = 5
    MaxPointers = 2
    TagBase = 4
    Wires <- Messages
    ClassicUdp = 65
    ServerUdp = 67
    RequestTimeout = 2
    PayloadSizes = {0, 66, 68}
    OptionLists <- Lists
    ResponseLengths = {65, 66, 67, 68}
    MaxRecords = 2
INVARIANTS
    DecodeCorrect
    AnswersEveryQuery
    LocalReplySafe
    CodeSurvives
    ReplyFits
