SPECIFICATION Spec
CONSTANTS
    Calls = {initialize, page}
    Initialize = initialize
    NoCall = NoCall
    MaxId = 2
    NotificationCap = 2
    Sessions = {s1, s2}
    NoSession = NoSession
    Threads = {t1, t2}
    NoThread = NoThread
    BrowserIds = {1}
    MaxRequests = 2
    ServerIds = {1}
    Unmade = Unmade
    Agent = Agent
SYMMETRY Symmetry
CHECK_DEADLOCK FALSE
INVARIANTS
    AnswersGoHome
    OneSessionPerThread
    CardsGoToTheThreadsSession
PROPERTIES
    SessionsKeepContract
