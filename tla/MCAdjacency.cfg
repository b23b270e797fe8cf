CONSTANTS
  CellPort <- MCCellPort
  Element <- MCElement
  Arrays <- MCArrays
  PortTypes = {"optical"}
  Grid = 20
  Layouts <- MCLayouts
SPECIFICATION Spec
INVARIANTS TypeOK NetsAreContacts
CHECK_DEADLOCK FALSE
