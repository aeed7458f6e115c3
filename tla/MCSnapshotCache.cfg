\* Two overlapping goroutines; 3 * 3 does not fit into 0..7.
SPECIFICATION Spec
CONSTANTS
  Callers = {c1, c2}
  Nobody = Nobody
  NoCount = NoCount
  Inputs <- MCInputs
  Summaries <- MCSummaries
  TableThreshold = 1
  RAMMultiplier = 3
  OrdinaryTTL = 1
  LargeTTL = 2
  MaxUint = 7
  MaxClock = 3
  MaxRefreshes = 3
INVARIANTS EligibleIsExact
PROPERTIES FreshForItsServer NeverBackInTime RefreshIsShared CallsEnd
CHECK_DEADLOCK FALSE
