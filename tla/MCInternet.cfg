SPECIFICATION MCSpec
CONSTANTS
  Agents = {"ann", "bob", "cat"}
  Odd = {"ann"}
  Contents = {"c1"}
  MaxWraps = 2
INVARIANTS
  HostsHandled
  HistoryWhole
  WrapsSound
PROPERTIES
  PeopleTruthful
  NoEcho
CHECK_DEADLOCK FALSE
