CONSTANTS
    None = None
    Tasks = {"t"}
    Revs = {1}
    EventIds <- MCIds
    Keys <- MCKeys
    PlanIds <- MCPlans
    AssignmentIds = {"a1"}
    Offered <- TwoClues
    MaxLog = 0
    Team <- Slots
    MaxCrashes = 1
    Intercepts = FALSE
    BatchLimit = 2
SPECIFICATION Spec
INVARIANTS
    ClueFollowed
