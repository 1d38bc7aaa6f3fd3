SPECIFICATION MCSpec
CONSTANTS
  Nodes = {"a", "b", "c", "d"}
  Edges <- Loop
  Packets <- Mixed
  Broadcast = "all"
  MaxTtl = 3
  SendTtls = {3, 4}
  ForwardedLimit = 3
  LinkFailures = 1
  Senders = {"s1", "s2"}
  Ids = {7}
  Totals = {2, 3}
  Depth = 2
  MaxBytes = 2
  MaxInFlight = 1
  Lifetime = 1
  MaxTransfers = 2
  MaxTime = 2
INVARIANTS
  FloodContained
  ReadAsWritten
  SignaturesHold
PROPERTIES
  AssembledWhole
CHECK_DEADLOCK FALSE
