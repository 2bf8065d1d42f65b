SPECIFICATION FairCallsSpec
CONSTANTS
    Calls = {c1, c2, c3}
    NoCall = NoCall
    MaxId = 3
    NotificationCap = 2
    Notices = {m1}
CHECK_DEADLOCK FALSE
INVARIANTS
    RightAnswer
    NoPendingLeft
PROPERTIES
    KeepsContract
