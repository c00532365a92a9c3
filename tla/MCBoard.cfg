CONSTANTS
    None = None
    Tasks = {"t", "u"}
    Revs = {1, 2}
    EventIds <- MCIds
    Keys <- MCKeys
    PlanIds = {"p1", "p2"}
    AssignmentIds = {"a1", "a2"}
    Offered <- AllOffered
    MaxLog = 9
SPECIFICATION MCSpec
CHECK_DEADLOCK FALSE
INVARIANTS
    TypeOK
    TerminalOwnership
    CommittedOnce
    IntentsUnderCurrentPlan
    DoneIsEarned
    FoldIsIncremental
    ClueConsumedOnce
PROPERTIES
    CommittedTakesEffect
    ImplementsLifecycle
