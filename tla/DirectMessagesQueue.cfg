\* A second message typed before the handshake ends.
SPECIFICATION FairSpec
CONSTANTS
  Nodes = {a, b}
  Senders = {a}
  Favourites = {}
  Blockers = {}
  Wipers = {}
  WindowSize = 2
  MaxRecords = 2
  MaxChunks = 1
  MaxEphemerals = 8
  Faults = 0
CHECK_DEADLOCK FALSE
PROPERTIES
  QueuedGoesOut
