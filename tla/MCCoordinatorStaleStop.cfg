CONSTANTS
    None = None
    Tasks = {"t"}
    Revs = {1}
    EventIds <- MCIds
    Keys <- MCKeys
    PlanIds <- MCPlans
    AssignmentIds = {"a1"}
    Offered <- OneClue
    MaxLog = 0
    Team <- Slots
    MaxCrashes = 0
    Intercepts = TRUE
    BatchLimit = 2
SPECIFICATION Spec
INVARIANTS
    TerminalNotBlocked
