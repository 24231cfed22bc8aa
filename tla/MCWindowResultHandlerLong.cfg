SPECIFICATION Spec
CONSTANTS
    NumberOfSlots = 4
    Workers = {w1, w2}
    NoWorker = NoWorker
    NumDownstream = 1
    MaxTask = 4
    PartialWindows = 8
    UsePtrs = FALSE
    Queries <- LongQueries
SYMMETRY WorkerSymmetry
INVARIANTS
    WindowsComplete
