SPECIFICATION Spec
CONSTANTS
  None = None
INVARIANTS
  ShownTruthfully
  DrawnWhole
PROPERTIES
  ViewKept
CHECK_DEADLOCK FALSE
