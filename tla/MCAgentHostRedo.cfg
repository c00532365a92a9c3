CONSTANTS
    None = None
    Tasks = {"t"}
    Revs = {1}
    EventIds <- MCIds
    Keys <- MCKeys
    PlanIds <- MCPlans
    AssignmentIds = {"a1"}
    Mine = {"a1"}
    Offered <- OnePlan
    MaxLog = 0
    MailboxSize = 3
    BidContents = {0}
    MaxCrashes = 1
SPECIFICATION Spec
INVARIANTS
    ReceiptRedone
