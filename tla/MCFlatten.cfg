CONSTANTS
  Segment = {"a", "b", "c"}
  Cell = {A1, B1}
  NoCell = NoCell
  NoName = NoName
  NoMap = NoMap
  NoFilter = NoFilter
  x = x
  y = y
  MaxPasses = 3
  Calls <- MCCalls
SPECIFICATION Spec
CHECK_DEADLOCK FALSE
INVARIANTS TypeOK NoDangling ConnectivityKept NoneDropped InstancesAreLeaves ErrorsJustified WarningsAreTrue
PROPERTIES Terminates
