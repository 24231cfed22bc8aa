SPECIFICATION Spec
CONSTANTS
    NumberOfSlots = 2
    Workers = {w1, w2, w3}
    NoWorker = NoWorker
    NumDownstream = 2
    EmptyResults = {2}
    Batches = 3
    MaxTask = 4
SYMMETRY WorkerSymmetry
PROPERTY
    NoResultLost
