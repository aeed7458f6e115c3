SPECIFICATION FairSpec
CONSTANTS
  Conns = {c1, c2}
  NoConn = NoConn
  Tasks <- MCTasks
  Servers <- MCServers
  MaxLength = 3
INVARIANTS
  BackedUpFirst
  PooledSessionsUntouched
  ClonesAreDropped
  OnlyAllowedMethods
PROPERTIES
  ImplementsOrderedChanges
  TaskEnds
CHECK_DEADLOCK FALSE
