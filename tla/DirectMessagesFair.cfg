\* Both users type, three times in all, over a mesh that delivers everything once.
SPECIFICATION FairSpec
CONSTANTS
  Nodes = {a, b}
  Senders = {a, b}
  Favourites = {}
  Blockers = {}
  Wipers = {}
  WindowSize = 2
  MaxRecords = 3
  MaxChunks = 1
  MaxEphemerals = 8
  Faults = 0
CHECK_DEADLOCK FALSE
PROPERTIES
  QueuedGoesOutOrTold
