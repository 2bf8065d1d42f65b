CONSTANTS
  Clients = {c1, c2}
  Pages = {p1, p2}
  NoClient = NoClient
  NoPage = NoPage
  MaxRequests = 3
  MaxFrames = 3
  MaxRuns = 2
  EventCap = 1
SYMMETRY Symmetry
CONSTRAINT Scenarios
SPECIFICATION Spec
CHECK_DEADLOCK FALSE
INVARIANT NoAnswerIsMixedUp
INVARIANT LossIsNoticed
INVARIANT OneSocketPerPage
