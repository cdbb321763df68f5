SPECIFICATION Spec
CONSTANTS
  q1 = q1
  q2 = q2
  None = None
  Queries <- TwoQueries
  Requests <- SelectionsOf
  BufferSize = 6
  Attached <- OneAttached
  Models <- KnownModels
  Ports <- KnownPorts
CHECK_DEADLOCK FALSE
INVARIANT CommandIsDispatched
