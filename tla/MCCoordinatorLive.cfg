CONSTANTS
    None = None
    Tasks = {"t", "u", "w"}
    Revs = {1}
    EventIds <- MCIds
    Keys <- MCKeys
    PlanIds <- MCPlans
    AssignmentIds = {"a1", "a2"}
    Offered <- Disturbed
    MaxLog = 0
    Team <- Slots
    MaxCrashes = 0
    Intercepts = FALSE
    BatchLimit = 2
SPECIFICATION FairSpec
PROPERTIES
    TaskEnds
    CluesAnswered
