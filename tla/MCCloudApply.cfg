SPECIFICATION Spec
CONSTANTS
  N = 2
  Assignments <- TwoOf
  Topologies <- MCTopologies
  BatchSize = 1
  MaxTasks = 2
  MaxEdits = 1
  MaxReboots = 1
INVARIANTS
  SuccessIsEffective
  ModificationsAreReported
  ChangesItsOwnGroups
  DynamicNeedsNoRestart
PROPERTIES
  OthersKept
  AwsTaskEnds
CHECK_DEADLOCK FALSE
