\* A wipe after the peer has gone out of range.
SPECIFICATION Spec
CONSTANTS
  Nodes = {a, b}
  Senders = {a}
  Favourites = {}
  Blockers = {}
  Wipers = {a}
  WindowSize = 2
  MaxRecords = 1
  MaxChunks = 1
  MaxEphemerals = 4
  Faults = 0
CHECK_DEADLOCK FALSE
INVARIANTS
  WipeForgetsSessions
