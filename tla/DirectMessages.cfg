\* Both users type; one blocks and unblocks, the other may wipe; one loss, copy or restart.
SPECIFICATION Spec
CONSTANTS
  Nodes = {a, b}
  Senders = {a, b}
  Favourites = {b}
  Blockers = {a}
  Wipers = {b}
  WindowSize = 2
  MaxRecords = 2
  MaxChunks = 2
  MaxEphemerals = 4
  Faults = 1
CHECK_DEADLOCK FALSE
INVARIANTS
  TypeOK
  EachOnce
  NothingQueuedBehindChannel
  TickMeansShown
  EndsAgree
  BlockedPeerHasNoChannel
PROPERTIES
  StatusOnlyRises
