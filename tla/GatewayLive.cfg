SPECIFICATION FairSpec
CONSTANTS
    Users = {admin}
    Admin = admin
    NoUser = NoUser
    NoRoute = NoRoute
    Unknown = Unknown
    NoSession = NoSession
    NoAgent = NoAgent
    NoTicket = NoTicket
    NoHost = NoHost
    Everyone = Everyone
    Sessions = {s1}
    Hosts = {h1}
    Agents = {a1, a2}
    Requests = {r1, r2}
    Tickets = {t1}
    Sockets = {w1}
    MaxGeneration = 2
    RouteCap = 1
    EventCap = 1
    MaxEvents = 2
ACTION_CONSTRAINT LiveScenarios
PROPERTIES
    SupersededAgentEnds
    SendingEnds
    DeadSessionSocketCloses
