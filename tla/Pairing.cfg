SPECIFICATION FairSpec
CONSTANTS
  a1 = a1
  a2 = a2
  u1 = u1
  u2 = u2
  e1 = e1
  e2 = e2
  Attempts = {a1, a2}
  Old = Old
  None = None
  Torn = Torn
  Accounts = {u1, u2}
  Envs = {e1, e2}
  PortCount = 1
  MaxLooks = 2
  MaxEvents = 1
CONSTRAINT SameHost
INVARIANTS RegistrationIsUsable KeysAreAccountedFor ConnectsToTheCodesHost
PROPERTIES PairingEnds
CHECK_DEADLOCK FALSE
