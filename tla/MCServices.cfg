SPECIFICATION SumSpec
CONSTANTS
    DashRuns = {"a", "b"}
    Watchers = {"w"}
    MaxMessages = 2
    Devices = {"d"}
    Requests <- MCRequests
    MaxCalls = 3
    MaxSignals = 2
    EventTypes = {"A", "B"}
    MaxEvents = 3
    Threads = {"t1", "t2"}
    Handlers = {"h"}
    Wants <- MCWants
    Readers = {"r", "s"}
    Limit = 1
    Agents = {"a", "b"}
    Notes = {"n"}
    Claims = {"f", "g"}
    Expiring = {"g"}
    MaxAsked = 2
    MaxCandidates = 3
    Jobs = {"t", "u"}
    SlotsOf <- MCSlots
    Robots = {1, 2}
    MaxDrifts = 1
    Fleet <- MCFleet
    BackupCount = 3
    MaxBytes = 2
    MaxRecords = 13
INVARIANTS
    StreamComplete
    IntentRunsOnce
    StopHolds
    SubscriberHearsOnce
    ReaderServed
    ServedIsApproved
    ConsolidatedOnce
    ResultTrue
    NewestKept
PROPERTIES
    CommittedTeamFits
    FailsWithoutTeam
CHECK_DEADLOCK FALSE
