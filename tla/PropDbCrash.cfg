SPECIFICATION Spec
CONSTANTS
  na = na
  nb = nb
  nc = nc
  p1 = p1
  p2 = p2
  NoProc = NoProc
  NoString = NoString
  StrtabHeader = StrtabHeader
  Procs = {p1}
  Initers = {}
  Removers = {}
  Crashable = {p1}
  Faulty = {p1}
  Props <- PlainProps
  Names = {na, nb}
  W = 2
  MaxSlots = 4
  MaxStrs = 5
  MaxProps = 4
  MaxRemoves = 0
INVARIANTS
  CommittedIsStored
PROPERTIES
  AppendOnly
