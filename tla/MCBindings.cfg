\* Sessions of four callers; numbers scaled down so that 2^63 is 4.
CONSTANTS
  A = A
  B = B
  Far = Far
  Cell <- MCCell
  Inst <- MCInst
  NoCell = NoCell
  NoName = NoName
  NoArray = NoArray
  Null = Null
  EmptyObject = EmptyObject
  Origin = Origin
  NoMember = NoMember
  Top63 = 4
  Callers <- MCCallers
  MaxNets = 2
  MaxMembers = 3
  MaxLength = 2
SPECIFICATION Spec
INVARIANTS TypeOK AttributesFollow ReloadKeeps NothingReadAsLess SettingsKeepValue PythonOrderAgrees LvsSeesConnectivityOnly
