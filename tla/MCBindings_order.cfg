\* Net objects alone: is equality that of the sorted members?
CONSTANTS
  A = A
  B = B
  Far = Far
  Cell <- MCCell
  Inst <- MCInst
  NoCell = NoCell
  NoName = NoName
  NoArray = NoArray
  Null = Null
  EmptyObject = EmptyObject
  Origin = Origin
  NoMember = NoMember
  Top63 = 4
  Callers <- MCNetsOnly
  MaxNets = 2
  MaxMembers = 3
  MaxLength = 2
SPECIFICATION Spec
INVARIANT SameMembersEqual
