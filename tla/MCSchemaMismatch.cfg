SPECIFICATION Spec
CONSTANTS
  Conns = {c1, c2}
  NoConn = NoConn
  Tasks <- MCTasks
  Servers <- MCServers
  MaxLength = 3
INVARIANTS
  InconsistentPayloadRejected
CHECK_DEADLOCK FALSE
