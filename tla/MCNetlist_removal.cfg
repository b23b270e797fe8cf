\* No arrays; chains of nets through two instances, both removed in a call.
CONSTANTS
  Inst = {1, 2}
  InstPort = {1}
  TopPort = {1}
  NetName = {x, y}
  NoName = NoName
  Dim = {0}
  Idx = {}
  Requests <- MCRequests
  Removals <- MCRemovals
  MaxNets = 3
  MaxCopies = 1
  MaxMembers = 2
  MaxRemovals = 2
SPECIFICATION Spec
INVARIANTS ExtrasMatch NoneSplit RemovalMergesGroups NamesFollowNets
