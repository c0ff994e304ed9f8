SPECIFICATION ListSpec
CONSTANTS
    Widgets = {1, 2}
    Contents = {1, 2}
    Times = {2, 3, 4}
    NoWidget = NoWidget
    NoAnswer = NoAnswer
    MaxWrites = 3
    Ids = {1, 2, 3, 4}
    Stamps = {1, 2}
    Counts = {0, 1}
    Params <- SomeParams
    Unset = Unset
    DefaultLimit = 2
    MaxLimit = 2
    auditLogOverfetchMultiplier = 2
    MaxChanges = 2
INVARIANTS
    MissedExplained
    RepeatedExplained
    
CHECK_DEADLOCK FALSE
