SPECIFICATION FairSpec
CONSTANTS
  a = a
  b = b
  c = c
  d = d
  long = long
  medium = medium
  short = short
  Seqs = {1, 2, 3}
  Messages = {a, b, c, d}
  Segments <- Arriving
  MaxSegments = 3
  MaxMessageBytes = 4
  MaxChunkBytes = 2
  MaxBufferedBytes = 5
  MaxAssemblies = 2
  NoAssembly = NoAssembly
  Outgoing = {long, medium, short}
  Parts <- OutgoingParts
  MaxPings = 2
  NoMessage = NoMessage
ACTION_CONSTRAINT OneDirection
CHECK_DEADLOCK FALSE
INVARIANTS
  EmittedIsWhole
  WireIsInOrder
  DisconnectFlushes
PROPERTIES
  MessagesKeepContract
