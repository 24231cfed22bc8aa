SPECIFICATION FairSpec
CONSTANTS
    NumberOfSlots = 3
    Batches = 2
    MaxTask = 3
    MaxCheckpoint = 2
    MaxCrash = 1
    LogSlots = 2
    LogFiles = 3
    MaxBatch = 6
    MaxLogCrash = 1
    InSlots = 3
    OutSlots = 3
    BatchUnits = 2
    MaxIn = 6
    Lengths = {0, 1, 2, 3}
INVARIANTS
    TypesOK SnapshotIsACut NoSlotLeftMarked CommittedIntact MergesSucceed
    AcknowledgedIsLogged TasksReadTheLog ReplayMeetsInput PutSucceeds
    LineageExact
PROPERTIES
    PurgedWhenForwarded RestoredAsWritten WaitingEnds
CHECK_DEADLOCK FALSE
