CONSTANTS
    None = None
    Tasks = {"t"}
    Revs = {1}
    EventIds <- MCIds
    Keys <- MCKeys
    PlanIds <- MCPlans
    AssignmentIds = {"a1", "a2"}
    Mine = {"a1"}
    Offered <- Disturbed
    MaxLog = 0
    MailboxSize = 2
    BidContents = {0}
    MaxCrashes = 1
SPECIFICATION Spec
INVARIANTS
    TypeOK
    AtMostOnce
    ReportsWhatHappened
    IntentAnswered
    AssignmentHandled
    SessionFollowsLog
PROPERTIES
    RawReceiptKept
