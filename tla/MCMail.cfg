SPECIFICATION MCSpec
CONSTANTS
  Peers = {"p"}
  Messages = {"m1", "m2", "m3"}
  Target <- ToOne
  MaxPerPeer = 2
  MaxAge = 3
  BaseBackoff = 1
  MaxBackoff = 2
  MaxTime = 4
  People = {"f", "g"}
  Letters = {"l1", "l2"}
  Recipient <- ForG
  MaxHeld = 3
  MaxVerifiedHeld = 1
  MaxPerFavourite = 2
  MaxPerVerified = 1
  MaxCopies = 3
  Lifetime = 2
  Slack = 0
  DayLength = 2
  MaxClock = 2
INVARIANTS
  MailShownOnce
  QueueKept
  
  CardsGenuine
PROPERTIES
  ShelfKept
  NoneVanishes
CHECK_DEADLOCK FALSE
