CONSTANTS
  NoInst = NoInst
  NoName = NoName
  NoMap = NoMap
  r = r
  s = s
  pad = pad
  wire = wire
  top = top
  a = a
  b = b
  c = c
  x = x
  y = y
  Calls <- MCCalls
SPECIFICATION Spec
CHECK_DEADLOCK FALSE
INVARIANTS TypeOK MergedByCanonicalPort SharersMergedIfClosed Idempotent
