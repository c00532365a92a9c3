CONSTANTS
    None = None
    RunIds = {"r1"}
    Records <- MCRecords
    Capacity = 2
    BatchSize = 2
    MaxFaults = 1
    MaxLost = 1
SPECIFICATION MCSpec
CHECK_DEADLOCK FALSE
INVARIANTS
    FlushMeansSettled
    CriticalTraced
    WrittenOnce
    ParentFirst
PROPERTIES
    WriterDrains
