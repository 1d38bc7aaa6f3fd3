SPECIFICATION MCSpec
CONSTANTS
  WindowSize = 3
  WireNonces = 6
  MaxSealed = 8
INVARIANTS
  OpenedAtMostOnce
  NoSlotBurned
  NoncesSound
  IInv
  HandshakeSound
PROPERTIES
  ImplementsLegs
CHECK_DEADLOCK FALSE
