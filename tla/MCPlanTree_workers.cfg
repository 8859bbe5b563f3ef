CONSTANTS
    NumNodes = 3
    BufferKeys <- OneKey
    Counts <- SmallCounts
    MaxWorkers = 1
    RecursionLimit = 2
    Null = Null
    NotObject = NotObject
    Missing = Missing
    Raise = Raise
    Pending = Pending
    SummaryError = SummaryError
SPECIFICATION Spec
INVARIANTS
    BufferSumOverDecodedTree
