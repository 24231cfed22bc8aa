SPECIFICATION FairSpec
CONSTANTS
    Capacity = 8
    CopyDataOnInsert = FALSE
    BatchSize = 4
    TupleSize = 2
    Lengths = {2, 4}
    QueueCapacity = 4
    IntMax = 7
    MaxOffset = 16
    NumberOfSlots = 2
    Workers = {w1, w2}
    NoWorker = NoWorker
    NumDownstream = 1
    EmptyResults = {}
INVARIANTS
    RunningBatchIntact
    NextSlotIsOldest
PROPERTIES
    DispatcherContract
    HandlerContract
    DispatchReturns
