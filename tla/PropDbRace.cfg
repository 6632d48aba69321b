SPECIFICATION FairSpec
CONSTANTS
  na = na
  nb = nb
  nc = nc
  p1 = p1
  p2 = p2
  NoProc = NoProc
  NoString = NoString
  StrtabHeader = StrtabHeader
  Procs = {p1, p2}
  Initers = {p1, p2}
  Removers = {p2}
  Crashable = {p1, p2}
  Faulty = {p1, p2}
  Props <- PlainProps
  Names = {na}
  W = 2
  MaxSlots = 2
  MaxStrs = 3
  MaxProps = 2
  MaxRemoves = 1
INVARIANTS
  TypeOK
  LockExclusion
PROPERTIES
  CallsReturn
