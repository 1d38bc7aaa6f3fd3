SPECIFICATION MCSpec
CONSTANTS
  Addresses = {"a1", "a2"}
  MaxLinks = 2
  Depth = 1
  EventRoom = 2
  Grace = 1
  MaxDials = 2
  MaxTime = 1
  MaxAge = 1
  RecordAge = 0
  Capacity <- SmallStores
  Me = "me"
  Peers = {"p"}
  Nicks = {"ann"}
  Bodies = {"hi"}
  Retention = 0
  SeenLimit = 1
  MaxSent = 2
  MaxCopies = 1
  MaxSaid = 1
  MaxClock = 1
INVARIANTS
  LinksServed
  
  MapTruthful

  
CHECK_DEADLOCK FALSE
