SPECIFICATION FairSpec
CONSTANTS
    NumberOfSlots = 4
    Workers = {w1, w2}
    NoWorker = NoWorker
    NumDownstream = 1
    MaxTask = 6
    PartialWindows = 8
    UsePtrs = TRUE
    Queries <- SupportedQueries
INVARIANTS
    WindowsComplete
    MergeLockReleased
    MergedBetweenPointers
PROPERTIES
    EventuallyFreed
    ImplementsOrderedOutput
