CONSTANTS
    None = None
    Tasks = {"t"}
    Revs = {1}
    EventIds <- MCIds
    Keys <- MCKeys
    PlanIds <- MCPlans
    AssignmentIds = {"a1"}
    Offered <- Offers
    MaxLog = 0
    Team <- Slots
    MaxCrashes = 1
    Intercepts = TRUE
    BatchLimit = 1
SPECIFICATION Spec
CONSTRAINT
    SecondClueAlone
INVARIANTS
    TypeOK
    NoKeyConflict
    OpenRoundTracked
    ConsumedTookEffect
    CluePursued
PROPERTIES
    NoOutputLost
