SPECIFICATION MCSpec
CONSTANTS
    Capacity = 16
    CopyDataOnInsert = TRUE
    BatchSize = 4
    TupleSize = 2
    Lengths = {2, 6, 8, 12}
    NumWorkers = 2
    QueueCapacity = 6
    IntMax = 15
    MaxOffset = 40
    UsePtrs = TRUE
    PartialWindows = 32
    BatchSizes = {3, 4, 5, 8, 10, 12}
    MaxBatch = 3
    Keys = {"a", "b", "c"}
    NoKey = NoKey
    Size = 2
    Barriers = {0, 1}
    MaxTuple = 4
    MaxFragment = 3
    Values = {1, 2, 3}
    INT_MAX = 99
    PARTIAL_WINDOWS = 16
    PointerBatches = {2, 3}
    Gaps = {0, 1, 3}
    MaxTuples = 6
INVARIANTS
    IInv
    BatchReadable
    PreviousTupleRead
    InFlightBound
    EnqueueNeverWaits
    CompleteWindowsExact
    WindowsExact
    TableIsAMap
    MergeIsUnion
    GraphAnswersWindow
    BoundariesExact
\* The streams are finite.
CHECK_DEADLOCK FALSE
