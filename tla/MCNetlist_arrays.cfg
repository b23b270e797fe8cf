\* One instance and another, arrays of every shape, replaced at will.
CONSTANTS
  Inst = {1, 2}
  InstPort = {1}
  TopPort = {}
  NetName = {}
  NoName = NoName
  Dim <- MCDim
  Idx = {0, 1, 2}
  Requests <- MCRequests
  Removals <- MCRemovals
  MaxNets = 2
  MaxCopies = 1
  MaxMembers = 1
  MaxRemovals = 1
SPECIFICATION Spec
INVARIANTS TypeOK NoDangling
PROPERTIES BoundsBrokenByReplacing
