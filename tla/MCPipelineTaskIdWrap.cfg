SPECIFICATION Spec
CONSTANTS
    Capacity = 8
    CopyDataOnInsert = TRUE
    BatchSize = 4
    TupleSize = 2
    Lengths = {4}
    QueueCapacity = 4
    IntMax = 7
    MaxOffset = 28
    NumberOfSlots = 4
    Workers = {w1, w2}
    NoWorker = NoWorker
    NumDownstream = 0
    EmptyResults = {}
INVARIANT
    NextSlotIsOldest
