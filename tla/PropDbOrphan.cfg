SPECIFICATION Spec
CONSTANTS
  na = na
  nb = nb
  nc = nc
  p1 = p1
  p2 = p2
  NoProc = NoProc
  NoString = NoString
  StrtabHeader = StrtabHeader
  Procs = {p1}
  Initers = {}
  Removers = {}
  Crashable = {p1}
  Faulty = {}
  Props <- PlainProps
  Names = {na, nb}
  W = 2
  MaxSlots = 3
  MaxStrs = 3
  MaxProps = 3
  MaxRemoves = 0
INVARIANTS
  DistinctNames
