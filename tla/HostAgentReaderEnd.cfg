SPECIFICATION FairSpec
CONSTANTS
    Calls = {initialize, page}
    Initialize = initialize
    NoCall = NoCall
    MaxId = 2
    NotificationCap = 1
    Sessions = {s1}
    NoSession = NoSession
    Threads = {t1}
    NoThread = NoThread
    BrowserIds = {1}
    MaxRequests = 1
    ServerIds = {1}
    Unmade = Unmade
    Agent = Agent
CHECK_DEADLOCK FALSE
PROPERTIES
    ReaderEndEndsConnection
