SPECIFICATION Spec
CONSTANTS
  na = na
  nb = nb
  nc = nc
  p1 = p1
  p2 = p2
  NoProc = NoProc
  NoString = NoString
  StrtabHeader = StrtabHeader
  Procs = {p1, p2}
  Initers = {p1, p2}
  Removers = {}
  Crashable = {}
  Faulty = {}
  Props <- PlainProps
  Names = {na}
  W = 2
  MaxSlots = 2
  MaxStrs = 2
  MaxProps = 2
  MaxRemoves = 0
PROPERTIES
  InitKeepsDatabase
