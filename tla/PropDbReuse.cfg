SPECIFICATION Spec
CONSTANTS
  na = na
  nb = nb
  nc = nc
  p1 = p1
  p2 = p2
  NoProc = NoProc
  NoString = NoString
  StrtabHeader = StrtabHeader
  Procs = {p1}
  Initers = {}
  Removers = {p1}
  Crashable = {}
  Faulty = {}
  Props <- TypedProps
  Names = {na, nb}
  W = 4
  MaxSlots = 3
  MaxStrs = 4
  MaxProps = 4
  MaxRemoves = 1
INVARIANTS
  CommittedIsFound
