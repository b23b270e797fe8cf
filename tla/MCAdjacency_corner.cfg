CONSTANTS
  CellPort <- MCCellPort
  Element <- MCElement
  Arrays <- MCArrays
  PortTypes = {"optical"}
  Grid = 20
  Layouts <- MCLayouts
SPECIFICATION Spec
INVARIANT ScanMissesNothing
CHECK_DEADLOCK FALSE
